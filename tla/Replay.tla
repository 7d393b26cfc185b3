------------------------------- MODULE Replay -------------------------------
(***************************************************************************)
(* The replay command (asg-cli replay_lines): a corpus, one event a line,  *)
(* goes through ingest, and a summary is made of what came out.  A line is *)
(* blank, bad (it does not parse), or an event; an event breaks a rule or  *)
(* not, and ingest admits it or sheds it.                                  *)
(***************************************************************************)
EXTENDS Integers, SequencesExt

CONSTANTS VIOLATION_CAP, RuleIdOf(_)    \* the rule a line's event breaks

ASSUME ReplayAssumption == VIOLATION_CAP \in Nat \ {0}

NoRule == "none"

Line(kind, admitted) == [kind |-> kind, admitted |-> admitted]

Start == [ingested |-> 0, skipped |-> 0, throttled |-> 0,
          ring |-> << >>, failed |-> 0]

(* Only the newest VIOLATION_CAP violations stay in the ring. *)
Raised(ring, rule) ==
    IF rule = NoRule THEN ring
    ELSE Append(IF Len(ring) >= VIOLATION_CAP THEN Tail(ring) ELSE ring, rule)

(* Mutant: lines are numbered after the blank ones are dropped. *)
NumberedAmongFull(lines, idx) ==
    Len(SelectSeq(SubSeq(lines, 1, idx), LAMBDA l : l.kind # "blank"))

LineNumber(lines, idx) == idx

(* One turn of the loop; `failed' is the line an error names, 0 for none,  *)
(* and ends it.                                                            *)
ReadLine(lines, lenient, s, idx) ==
    LET l == lines[idx]
    IN  IF s.failed # 0 \/ l.kind = "blank" THEN s
        ELSE IF l.kind = "bad"
        THEN IF lenient THEN [s EXCEPT !.skipped = @ + 1]
                        ELSE [s EXCEPT !.failed = LineNumber(lines, idx)]
        ELSE IF l.admitted
        THEN [s EXCEPT !.ingested = @ + 1, !.ring = Raised(@, RuleIdOf(l))]
        ELSE [s EXCEPT !.throttled = @ + 1]

(* The loop; the summary then counts what the violation ring holds. *)
replay_lines(lines, lenient) ==
    LET after[idx \in 0 .. Len(lines)] ==
            IF idx = 0 THEN Start ELSE ReadLine(lines, lenient, after[idx - 1], idx)
        s == after[Len(lines)]
    IN  [ingested |-> s.ingested, skipped |-> s.skipped,
         throttled |-> s.throttled, failed |-> s.failed,
         violations |-> Len(s.ring), by_rule |-> ToBag(s.ring)]
=============================================================================
