------------------------------ MODULE MCReaders -----------------------------
(* A small instance of Readers: two execs of one process, both denied. *)
EXTENDS Readers

MCIdentity(s) == s
MCMatches(p, s) == p = s

Exec(parent) ==
    [type |-> "proc_exec", tgid |-> 1, ppid |-> parent, comm |-> "nc"]

MCRules == [secret_path_globs |-> {}, denied_processes |-> {"nc"},
            denied_hosts |-> {}, warn_hosts |-> {}, max_events_per_sec |-> 4]

MCEvents == {Exec(0), Exec(2)}
MCRuleSets == {MCRules}
=============================================================================
