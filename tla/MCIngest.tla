------------------------------ MODULE MCIngest ------------------------------
(***************************************************************************)
(* A small instance of Ingest.  The strings the policy engine compares are *)
(* model-sized: a path or host is matched by the pattern of the same name. *)
(***************************************************************************)
EXTENDS Ingest

MCBasename(s) == IF s = "/bin/NC" THEN "NC" ELSE s
MCToLower(s) == IF s = "NC" THEN "nc" ELSE s
MCNormalizePath(s) == IF s = "./.env" THEN ".env" ELSE s
MCMatches(p, s) == p = s

Exec == [type |-> "proc_exec", tgid |-> 1, ppid |-> 0, comm |-> "/bin/NC"]
Connect == [type |-> "net_connect", tgid |-> 1, daddr |-> "h"]

Strict == [secret_path_globs |-> {".env"}, denied_processes |-> {"nc"},
           denied_hosts |-> {}, warn_hosts |-> {"h"}, max_events_per_sec |-> 2]
Lenient == [secret_path_globs |-> {}, denied_processes |-> {},
            denied_hosts |-> {}, warn_hosts |-> {}, max_events_per_sec |-> 1]

MCEvents == {Exec, Connect}
MCRuleSets == {Strict, Lenient}
=============================================================================
