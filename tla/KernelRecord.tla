---------------------------- MODULE KernelRecord ----------------------------
(***************************************************************************)
(* KernelRecord::widen (asg-common events.rs): the event made of a record  *)
(* of the probes, with a sentinel for what a probe could not read.  An     *)
(* optional field is a set: empty, or holding the value.                   *)
(***************************************************************************)
EXTENDS Naturals, Sequences

CONSTANTS EmptyPath, EmptyHost      \* what String::default makes of each

KERNEL_UNKNOWN_PPID == 0

NoEvent == [type |-> "none"]

(* The suffix of a path that filled the capture buffer, one symbol here. *)
Mark == "<truncated>"

unwrap_or(option, default) ==
    IF option = {} THEN default ELSE CHOOSE x \in option : TRUE

Marked(path, truncated) == path \o (IF truncated THEN << Mark >> ELSE << >>)

widen(record) ==
    CASE record.kind = "proc_exec" ->
            [type |-> "proc_exec", tgid |-> record.tgid,
             ppid |-> KERNEL_UNKNOWN_PPID, comm |-> record.comm]
      [] record.kind = "file_open" ->
            [type |-> "file_open", tgid |-> record.tgid,
             path |-> Marked(unwrap_or(record.path, EmptyPath),
                             record.path_truncated)]
      [] record.kind = "net_connect" ->
            [type |-> "net_connect", tgid |-> record.tgid,
             daddr |-> unwrap_or(record.daddr, EmptyHost)]
      [] OTHER -> NoEvent
=============================================================================
