------------------------------- MODULE Readers ------------------------------
(***************************************************************************)
(* The read side of the API (get_events, get_violations, get_processes)    *)
(* over the rings the ingest pipeline fills, and a client that walks       *)
(* GET /v1/events with the forward cursor, as the handler's contract says: *)
(* no cursor first, then always the last number it was given.              *)
(***************************************************************************)
EXTENDS Ingest

CONSTANT PageLimit      \* the limit the client asks for

ASSUME PageAssumption == PageLimit \in Nat \ {0}

VARIABLES
    cursor,     \* the since_seq of the next request; NoSeq for none
    seen        \* numbers of the events the client was given

readerVars == << cursor, seen >>
allVars    == << vars, cursor, seen >>

LastOf(s, n) == SubSeq(s, Len(s) - AtMost(Len(s), n) + 1, Len(s))

(* Mutant: a page is the newest events after the cursor. *)
NewestPage(limit, since) ==
    LastOf(SelectSeq(events, LAMBDA e : e.seq > since), AtMost(limit, EVENT_CAP))

(* The k-th of a set of positions. *)
Nth(S, k) == CHOOSE i \in S : Cardinality({j \in S : j <= i}) = k

(* The events that pass the filter, in the ring's order, up to the limit.  *)
(* NoSeq is below every number, so an omitted cursor filters nothing.      *)
get_events(limit, since) ==
    LET passed == {i \in DOMAIN events : events[i].seq > since}
        taken  == AtMost(Cardinality(passed), AtMost(limit, EVENT_CAP))
    IN  [k \in 1 .. taken |-> events[Nth(passed, k)]]

(* Mutant: the oldest violations are served. *)
OldestViolations(limit) ==
    SubSeq(violations, 1, AtMost(Len(violations), AtMost(limit, VIOLATION_CAP)))

get_violations(limit) == LastOf(violations, AtMost(limit, VIOLATION_CAP))

Fetch ==
    LET page == get_events(PageLimit, cursor)
    IN  /\ page # << >>
        /\ cursor' = Last(page).seq
        /\ seen' = seen \cup {page[i].seq : i \in DOMAIN page}
        /\ UNCHANGED vars

ReaderInit == Init /\ cursor = NoSeq /\ seen = {}

ReaderNext == Fetch \/ (Next /\ UNCHANGED readerVars)

(* The client keeps asking until a page comes back empty. *)
ReaderSpec ==
    ReaderInit /\ [][ReaderNext]_allVars /\ Fairness /\ WF_allVars(Fetch)

----------------------------------------------------------------------------
(* Properties.  They speak of one ingest caller (Handlers = {}); with two, *)
(* a number is claimed before the ring is locked and they fail.            *)

(* The walk skips nothing: an event still in the ring whose number the     *)
(* cursor has passed was given to the client.                              *)
WalkMissesNothing ==
    \A i \in DOMAIN events : events[i].seq <= cursor => events[i].seq \in seen

(* Both rings are in ascending number order, so a page of events ascends   *)
(* and the last violation served is the newest.                            *)
RingsInSeqOrder ==
    /\ \A i, j \in DOMAIN events : i < j => events[i].seq < events[j].seq
    /\ \A i, j \in DOMAIN violations :
          i < j => violations[i].seq <= violations[j].seq
    /\ violations # << >> =>
          \A k \in DOMAIN vlog : vlog[k].seq <= Last(get_violations(1)).seq

(* Served violation times never go back, even when the wall clock does.    *)
TimestampsNeverRegress ==
    \A i, j \in DOMAIN violations : i < j => violations[i].ts <= violations[j].ts

(* The process table shows the latest stored exec of every process, except *)
(* while the exec that replaces it is being stored.                        *)
LatestExecWins ==
    \A i \in DOMAIN log :
        LET e == log[i].event
            later == \E j \in i + 1 .. Len(log) :
                        /\ log[j].event.type = "proc_exec"
                        /\ log[j].event.tgid = e.tgid
            replacing == \E c \in CallersAt({"seq", "store"}) :
                            /\ event(c).type = "proc_exec"
                            /\ event(c).tgid = e.tgid
        IN  e.type = "proc_exec" /\ ~later /\ ~replacing => processes[e.tgid] = e

(* A client that keeps walking is given every stored event, unless the     *)
(* ring evicts it first.                                                   *)
WalkReachesEvery ==
    \A s \in 0 .. MaxEvents - 1 :
        (s \in {log[i].seq : i \in DOMAIN log})
            ~> (s \in seen \/ s \notin {events[i].seq : i \in DOMAIN events})
=============================================================================
