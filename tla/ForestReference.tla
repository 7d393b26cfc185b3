---------------------------- MODULE ForestReference -------------------------
(***************************************************************************)
(* Reference with the two kinds of input that concern trees of processes:  *)
(* process tables and passes of the simulated source.                      *)
(***************************************************************************)
EXTENDS Reference, ProcessForest, Scenario

CONSTANTS
    TableCases,     \* process tables
    PassCases       \* [first, second]: passes of the simulated source

AnyInit ==
    \/ Init
    \/ kind = "table"  /\ input \in TableCases
    \/ kind = "passes" /\ input \in PassCases

AnySpec == AnyInit /\ [][Next]_<< kind, input >>

----------------------------------------------------------------------------
Ascending(nodes) == \A i, j \in DOMAIN nodes : i < j => Earlier(nodes[i], nodes[j])

(* GET /v1/processes shows every process whose recorded parents lead to a  *)
(* root, once, under the parent it recorded, in order of time, with a      *)
(* placeholder for each parent that was never seen; the only processes     *)
(* left out are those whose parents lead round in a circle.                *)
ForestShowsEveryTree ==
    kind = "table" =>
        LET forest   == build_process_forest(input)
            nodes    == Nodes(forest)
            observed == DOMAIN input
        IN  /\ Len(nodes) = Cardinality(Ids(forest))
            /\ Ids(forest) \cap observed = {t \in observed : Grounded(input, t)}
            /\ Ids(forest) \ observed
                  = {input[t].ppid : t \in observed} \ observed
            /\ Ascending(forest)
            /\ \A i \in DOMAIN nodes :
                  /\ Ascending(nodes[i].children)
                  /\ ToSet(nodes[i].children) = {k \in ToSet(nodes) :
                        /\ k.id \in observed \ {nodes[i].id}
                        /\ input[k.id].ppid = nodes[i].id}

(* The passes that can be recorded beside a given one without a clash: as  *)
(* many as the offsets take to go round the task ids once.  Passes further *)
(* apart may well meet again.                                              *)
InOneRound(first, second) == second - first \in 1 .. TASK_IDS \div 1000

(* Two passes of the simulated source within one round share no process,   *)
(* whether the offset, or the sum of an offset and an id, has wrapped for  *)
(* one of them or not; the forest of both is one tree for each, with       *)
(* exactly the processes that pass started, unless a sum has wrapped to    *)
(* the id of their common parent; and time never stands still.             *)
PassesStayApart ==
    kind = "passes" /\ InOneRound(input.first, input.second) =>
        LET sent   == run(<< input.first, input.second >>)
            forest == build_process_forest(Table(sent))
            first  == ExecIds(input.first)
            second == ExecIds(input.second)
        IN  /\ first \cap second = {}
            /\ 1 \notin first \cup second =>
                  /\ Len(forest) = 1 /\ forest[1].id = 1
                  /\ Len(forest[1].children) = 2
                  /\ Ids(<< forest[1].children[1] >>) = first
                  /\ Ids(<< forest[1].children[2] >>) = second
            /\ \A i \in 2 .. Len(sent) : sent[i - 1].ts < sent[i].ts
=============================================================================
