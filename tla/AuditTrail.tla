----------------------------- MODULE AuditTrail -----------------------------
(***************************************************************************)
(* What the ingest pipeline promises to whoever reads the rings or listens *)
(* to the stream, with no callers, locks, buckets or capacities: events    *)
(* enter the trail under a fresh number, each raises exactly the           *)
(* violations the rules it met demand, and it is announced once, after     *)
(* every one of them was told.                                             *)
(***************************************************************************)
EXTENDS Naturals

CONSTANTS
    Events, RuleSets,
    Demanded(_, _)     \* the violations an event demands under a rule set

VARIABLES
    trail,      \* stored events: [seq, event, rules]
    raised,     \* violations stored so far: [seq, violation]
    told,       \* violations broadcast so far
    announced   \* numbers of the events broadcast so far

vars == << trail, raised, told, announced >>

Alerts(t) == {[seq |-> t.seq, violation |-> v] : v \in Demanded(t.event, t.rules)}

Init == trail = {} /\ raised = {} /\ told = {} /\ announced = {}

Entry == [seq : Nat, event : Events, rules : RuleSets]

(* The entry that is new in trail' has a number no entry had. *)
Store ==
    /\ \E t \in trail' :
          /\ t \in Entry
          /\ \A u \in trail : u.seq # t.seq
          /\ trail' = trail \cup {t}
    /\ UNCHANGED << raised, told, announced >>

Raise(t) ==
    /\ t.seq \notin announced
    /\ \E a \in Alerts(t) \ raised : raised' = raised \cup {a}
    /\ UNCHANGED << trail, told, announced >>

Tell ==
    /\ \E a \in raised \ told : told' = told \cup {a}
    /\ UNCHANGED << trail, raised, announced >>

Announce(t) ==
    /\ t.seq \notin announced
    /\ Alerts(t) \subseteq told
    /\ announced' = announced \cup {t.seq}
    /\ UNCHANGED << trail, raised, told >>

Next ==
    \/ Store
    \/ \E t \in trail : Raise(t) \/ Announce(t)
    \/ Tell

Spec == Init /\ [][Next]_vars
=============================================================================
