------------------------------ MODULE MCScraper -----------------------------
(* A small instance of Scraper: a critical violation and a "medium" one;   *)
(* the rate admits two events.                                             *)
EXTENDS Scraper

MCIdentity(s) == s
MCMatches(p, s) == p = s

Exec == [type |-> "proc_exec", tgid |-> 1, ppid |-> 0, comm |-> "nc"]
Connect == [type |-> "net_connect", tgid |-> 1, daddr |-> "h"]

MCRules == [secret_path_globs |-> {}, denied_processes |-> {"nc"},
            denied_hosts |-> {}, warn_hosts |-> {"h"}, max_events_per_sec |-> 2]

MCEvents == {Exec, Connect}
MCRuleSets == {MCRules}
=============================================================================
