----------------------------- MODULE Dashboard ------------------------------
(***************************************************************************)
(* The page in assets/index.html, which copies the rings with a poll every *)
(* two seconds and patches its copy with what GET /v1/stream pushes, in    *)
(* place of the cursor walk of Readers.  Clients only read, so a behaviour *)
(* has one of the two.                                                     *)
(***************************************************************************)
EXTENDS Readers

CONSTANTS
    STREAM_CAPACITY,  \* messages the broadcast channel keeps
    PAGE_EVENT_CAP,   \* EVENT_CAP of index.html
    FEED_LIMIT,       \* the limit the page asks of GET /v1/violations
    Polls             \* bound: polls in flight at once

ASSUME DashboardAssumption ==
    STREAM_CAPACITY \in Nat \ {0} /\ PAGE_EVENT_CAP \in Nat \ {0}
        /\ FEED_LIMIT \in Nat \ {0}

VARIABLES
    client,      \* "walker" or "page"
    (* the page *)
    EVENTS, VIOLATIONS,
    rx,          \* its place in the stream: the next message; 0 unconnected
    polls        \* what each poll in flight has been answered

pageVars  == << EVENTS, VIOLATIONS, rx, polls >>
clientVars == << readerVars, client, pageVars >>
dashVars  == << vars, clientVars >>

Unanswered == << >>     \* an answer is << page >>

NoPoll == [at |-> "idle", events |-> Unanswered, violations |-> Unanswered]

DashInit ==
    /\ ReaderInit
    /\ client \in {"walker", "page"}
    /\ EVENTS = << >> /\ VIOLATIONS = << >> /\ rx = 0
    /\ polls = [i \in Polls |-> NoPoll]

----------------------------------------------------------------------------
(* The stream *)

OnPage == client = "page" /\ UNCHANGED << vars, readerVars, client >>

(* get_stream subscribes at the tail: only later messages arrive. *)
Connect ==
    /\ OnPage /\ rx = 0
    /\ rx' = Len(tx) + 1
    /\ UNCHANGED << EVENTS, VIOLATIONS, polls >>

(* The connection is lost, with whatever was under way; EventSource        *)
(* connects again by itself.                                               *)
Disconnect ==
    /\ OnPage /\ rx # 0
    /\ rx' = 0
    /\ UNCHANGED << EVENTS, VIOLATIONS, polls >>

(* A receiver that lagged goes on with the oldest message still kept; the  *)
(* Lagged error is filtered out, so the page does not hear of it.          *)
NextMessage == Max({rx, Len(tx) - STREAM_CAPACITY + 1})

(* Mutant: a pushed event is appended without looking for its number. *)
PushedTwice(page, e) == LastOf(Append(page, e), PAGE_EVENT_CAP)

(* Array.prototype.sort by rank, which keeps the order of equal entries. *)
Sorted(s, rank) ==
    LET order == CHOOSE p \in [DOMAIN s -> DOMAIN s] :
                    \A i, j \in DOMAIN s : i < j =>
                       \/ rank[p[i]] < rank[p[j]]
                       \/ rank[p[i]] = rank[p[j]] /\ p[i] < p[j]
    IN  [i \in DOMAIN s |-> s[order[i]]]

BySeq(s) == [i \in DOMAIN s |-> s[i].seq]

(* The event is added unless it is there, the page is sorted and its       *)
(* oldest entries make room.                                               *)
Pushed(page, e) ==
    LET known == \E i \in DOMAIN page : page[i].seq = e.seq
        all   == IF known THEN page ELSE Append(page, e)
    IN  LastOf(Sorted(all, BySeq(all)), PAGE_EVENT_CAP)

(* A violation is added whether it is there or not; newest first. *)
Fed(feed, v) ==
    LET all == Append(feed, v)
    IN  Sorted(all, [i \in DOMAIN all |-> -all[i].seq])

onmessage ==
    LET m == tx[NextMessage]
    IN  /\ OnPage /\ rx \in 1 .. Len(tx)
        /\ rx' = NextMessage + 1
        /\ IF m.kind = "event"
           THEN EVENTS' = Pushed(EVENTS, m.stored) /\ VIOLATIONS' = VIOLATIONS
           ELSE VIOLATIONS' = Fed(VIOLATIONS, m.stored) /\ EVENTS' = EVENTS
        /\ polls' = polls

----------------------------------------------------------------------------
(* poll(): requests answered each at its own moment, and two assignments   *)
(* with an await between them.  Nothing keeps the next poll from starting. *)

Poll(i, from, answer) ==
    /\ OnPage /\ polls[i].at = from
    /\ polls' = [polls EXCEPT ![i] = answer]

StartPoll(i) ==
    /\ polls[i].at \in {"idle", "failed"}
    /\ Poll(i, polls[i].at, [NoPoll EXCEPT !.at = "asked"])
    /\ UNCHANGED << EVENTS, VIOLATIONS, rx >>

(* No cursor is sent. *)
AnswerEvents(i) ==
    /\ polls[i].events = Unanswered
    /\ Poll(i, "asked", [polls[i] EXCEPT !.events =
                            << get_events(PAGE_EVENT_CAP, NoSeq) >>])
    /\ UNCHANGED << EVENTS, VIOLATIONS, rx >>

AnswerViolations(i) ==
    /\ polls[i].violations = Unanswered
    /\ Poll(i, "asked", [polls[i] EXCEPT !.violations =
                            << get_violations(FEED_LIMIT) >>])
    /\ UNCHANGED << EVENTS, VIOLATIONS, rx >>

(* Promise.all waits for all the answers. *)
SetEvents(i) ==
    /\ polls[i].events # Unanswered /\ polls[i].violations # Unanswered
    /\ Poll(i, "asked", [polls[i] EXCEPT !.at = "half", !.events = Unanswered])
    /\ EVENTS' = Head(polls[i].events)
    /\ UNCHANGED << VIOLATIONS, rx >>

SetViolations(i) ==
    /\ Poll(i, "half", NoPoll)
    /\ VIOLATIONS' = Head(polls[i].violations)
    /\ UNCHANGED << EVENTS, rx >>

(* A request or a body fails: what was assigned stays. *)
PollFails(i) ==
    /\ polls[i].at \in {"asked", "half"}
    /\ Poll(i, polls[i].at, [NoPoll EXCEPT !.at = "failed"])
    /\ UNCHANGED << EVENTS, VIOLATIONS, rx >>

PollStep(i) ==
    \/ StartPoll(i) \/ AnswerEvents(i) \/ AnswerViolations(i)
    \/ SetEvents(i) \/ SetViolations(i)

----------------------------------------------------------------------------
Walk == client = "walker" /\ Fetch /\ UNCHANGED << client, pageVars >>

DashNext ==
    \/ Next /\ UNCHANGED clientVars
    \/ Walk \/ Connect \/ Disconnect \/ onmessage
    \/ \E i \in Polls : PollStep(i) \/ PollFails(i)

(* The timer starts polls for ever, and from some time on they succeed;    *)
(* the browser connects again after a loss, and handles what arrives.      *)
PollsComeToSucceed == <>[](\A i \in Polls : polls[i].at # "failed")

DashSpec ==
    /\ DashInit /\ [][DashNext]_dashVars
    /\ \A c \in Callers : WF_dashVars(Step(c) /\ UNCHANGED clientVars)
    /\ WF_dashVars(Walk) /\ WF_dashVars(Connect) /\ WF_dashVars(onmessage)
    /\ \A i \in Polls : WF_dashVars(PollStep(i))
    /\ PollsComeToSucceed

----------------------------------------------------------------------------
(* Properties *)

(* However polls and pushed messages interleave, the page's events ascend, *)
(* none appears twice, and each is one the server stored.                  *)
EventsAscend ==
    /\ Len(EVENTS) <= PAGE_EVENT_CAP
    /\ \A i, j \in DOMAIN EVENTS : i < j => EVENTS[i].seq < EVENTS[j].seq
    /\ \A i \in DOMAIN EVENTS : \E k \in DOMAIN log :
          log[k].seq = EVENTS[i].seq /\ log[k].event = EVENTS[i].event

(* Once nothing new is raised the page comes to hold the newest            *)
(* violations, whatever the stream lost to lag or a broken connection and  *)
(* whichever poll came back late: the polls repair it.                     *)
FeedSettlesOnNewest ==
    client = "page" => <>[](VIOLATIONS = LastOf(vlog, AtMost(FEED_LIMIT, VIOLATION_CAP)))

(* Once nothing new is stored the page comes to hold the newest events.    *)
TimelineSettlesOnNewest ==
    client = "page" =>
        <>[](log # << >> =>
               \E i \in DOMAIN EVENTS : EVENTS[i].seq = next_seq - 1)
=============================================================================
