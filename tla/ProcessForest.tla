--------------------------- MODULE ProcessForest ----------------------------
(***************************************************************************)
(* build_process_forest (asg-api): the trees GET /v1/processes serves,     *)
(* from the process table, a function from tgid to [ppid, ts] (ts is       *)
(* first_seen_ts_ns).  A node keeps its id, its time and its children.     *)
(***************************************************************************)
EXTENDS Naturals, FiniteSets, SequencesExt

(* sort_by_key (time, id) *)
Earlier(a, b) == a.ts < b.ts \/ (a.ts = b.ts /\ a.id < b.id)

Keyed(records, tgids) == {[id |-> t, ts |-> records[t].ts] : t \in tgids}

Sorted(records, tgids) == SetToSortSeq(Keyed(records, tgids), Earlier)

children_of(records, p) == {t \in DOMAIN records : records[t].ppid = p}

(* The memo of the code only saves work: every node has one parent. *)
RECURSIVE node_for(_, _)
node_for(records, tgid) ==
    LET kids == Sorted(records, children_of(records, tgid) \ {tgid})
    IN  [id |-> tgid, ts |-> records[tgid].ts,
         children |-> [i \in DOMAIN kids |-> node_for(records, kids[i].id)]]

IsRoot(records, t) == records[t].ppid = t

(* Mutant: a process that is its own parent has an observed parent. *)
RootsWithStrangers(records) ==
    {t \in DOMAIN records : records[t].ppid \notin DOMAIN records}

(* Processes that are their own parent, or whose parent was not observed. *)
Tops(records) ==
    {t \in DOMAIN records :
        IsRoot(records, t) \/ records[t].ppid \notin DOMAIN records}

(* The placeholder "(unknown pid N)", at time 0. *)
synthetic(records, p) ==
    LET kids == Sorted(records, {t \in Tops(records) : records[t].ppid = p})
    IN  [id |-> p, ts |-> 0,
         children |-> [i \in DOMAIN kids |-> node_for(records, kids[i].id)]]

build_process_forest(records) ==
    LET roots    == {t \in Tops(records) : IsRoot(records, t)}
        unknown  == {records[t].ppid : t \in Tops(records) \ roots}
    IN  SetToSortSeq({node_for(records, t) : t \in roots}
                        \cup {synthetic(records, p) : p \in unknown}, Earlier)

----------------------------------------------------------------------------
(* Reading a forest: all its nodes, as a sequence, parents first. *)
RECURSIVE Nodes(_)
Nodes(forest) ==
    IF forest = << >> THEN << >>
    ELSE << Head(forest) >> \o Nodes(Head(forest).children) \o Nodes(Tail(forest))

Ids(forest) == {Nodes(forest)[i].id : i \in DOMAIN Nodes(forest)}

(* The ancestors of t that the table knows, t included. *)
RECURSIVE Chain(_, _, _)
Chain(records, t, seen) ==
    IF t \in seen \/ t \notin DOMAIN records THEN seen
    ELSE Chain(records, records[t].ppid, seen \cup {t})

(* The recorded parents of t lead to a process that is its own parent, or  *)
(* out of the table.                                                       *)
Grounded(records, t) ==
    \E a \in Chain(records, t, {}) :
        IsRoot(records, a) \/ records[a].ppid \notin DOMAIN records
=============================================================================
