------------------------------- MODULE Policy -------------------------------
(***************************************************************************)
(* The policy engine (asg-policy): which violations an event triggers      *)
(* under a rule set.  Text is abstract here: a command, path or host is a  *)
(* value, and the string functions the engine calls are parameters.        *)
(***************************************************************************)
EXTENDS Sequences

CONSTANTS
    Basename(_),             \* rules.rs basename
    ToLower(_),              \* str::to_ascii_lowercase
    NormalizePath(_),        \* rules.rs normalize_path
    GlobMatches(_, _),       \* glob.rs matches(pattern, text)
    DestinationMatches(_, _) \* rules.rs destination_matches(pattern, host)

(***************************************************************************)
(* asg-common Event, with the fields the engine and the process table      *)
(* read.                                                                   *)
(***************************************************************************)
Event(Pids, Comms, Paths, Hosts) ==
    [type : {"proc_exec"}, tgid : Pids, ppid : Pids, comm : Comms]
        \cup [type : {"file_open"}, tgid : Pids, path : Paths]
        \cup [type : {"net_connect"}, tgid : Pids, daddr : Hosts]
        \cup [type : {"cap_escalate"}, tgid : Pids]

(***************************************************************************)
(* asg-common RuleSet.  The lists become sets: the engine only asks        *)
(* whether some element matches (the order shows in the evidence text).    *)
(***************************************************************************)
RuleSet(Globs, Names, Patterns, Rates) ==
    [secret_path_globs : SUBSET Globs, denied_processes : SUBSET Names,
     denied_hosts : SUBSET Patterns, warn_hosts : SUBSET Patterns,
     max_events_per_sec : Rates]

RuleIds == {"PROC_DENIED", "SECRET_ACCESS", "NET_DENIED", "NET_WARN",
            "CAP_ESCALATION"}

Severity == {"medium", "high", "critical"}   \* "low" is never produced

Violation == [rule_id : RuleIds, severity : Severity]

Breach(id, sev) == << [rule_id |-> id, severity |-> sev] >>

eval_proc_exec(comm, rules) ==
    IF \E d \in rules.denied_processes : ToLower(d) = ToLower(Basename(comm))
    THEN Breach("PROC_DENIED", "critical")
    ELSE << >>

eval_file_open(path, rules) ==
    IF \E g \in rules.secret_path_globs : GlobMatches(g, NormalizePath(path))
    THEN Breach("SECRET_ACCESS", "critical")
    ELSE << >>

(* A denied host is reported as denied even when it is also warn-listed. *)
eval_net_connect(daddr, rules) ==
    LET listed(hosts) == \E h \in hosts : DestinationMatches(h, daddr)
    IN  IF listed(rules.denied_hosts) THEN Breach("NET_DENIED", "critical")
        ELSE IF listed(rules.warn_hosts) THEN Breach("NET_WARN", "medium")
        ELSE << >>

eval_event(event, rules) ==
    CASE event.type = "proc_exec"    -> eval_proc_exec(event.comm, rules)
      [] event.type = "file_open"    -> eval_file_open(event.path, rules)
      [] event.type = "net_connect"  -> eval_net_connect(event.daddr, rules)
      [] event.type = "cap_escalate" -> Breach("CAP_ESCALATION", "high")
=============================================================================
