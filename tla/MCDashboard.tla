----------------------------- MODULE MCDashboard ----------------------------
(* A small instance of Dashboard: every event is a denied exec, so it      *)
(* travels as a violation and as an event.                                 *)
EXTENDS Dashboard

MCIdentity(s) == s
MCMatches(p, s) == p = s

Exec == [type |-> "proc_exec", tgid |-> 1, ppid |-> 0, comm |-> "nc"]

MCRules == [secret_path_globs |-> {}, denied_processes |-> {"nc"},
            denied_hosts |-> {}, warn_hosts |-> {}, max_events_per_sec |-> 4]

MCOneExec == {Exec}
MCRuleSets == {MCRules}
=============================================================================
