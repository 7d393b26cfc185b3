------------------------------ MODULE Scenario ------------------------------
(***************************************************************************)
(* The script of the simulated source (sim.rs): 24 events, repeated with   *)
(* other task ids in every pass.  An event keeps its kind, its process and *)
(* the parent of an exec; times are counted in steps of SCENARIO_PACE.     *)
(***************************************************************************)
EXTENDS Integers, SequencesExt

CONSTANT TASK_IDS       \* task ids are u32: they wrap at 2^32

ASSUME TaskIdsAssumption == TASK_IDS \in Nat \ {0}

SCENARIO_LEN == 24

(* Mutant: every pass uses the same ids. *)
SameIds(n, pass) == n

(* Both the offset and the sum wrap (a debug build panics on the sum). *)
p(n, pass) == (n + ((pass * 1000) % TASK_IDS)) % TASK_IDS

Exec(n, parent) == [type |-> "proc_exec", tgid |-> n, ppid |-> parent]
Open(n)         == [type |-> "file_open", tgid |-> n]
Net(n)          == [type |-> "net_connect", tgid |-> n]
Cap(n)          == [type |-> "cap_escalate", tgid |-> n]

FirstHalf(pass) ==
    LET q(n) == p(n, pass)
    IN  << Exec(q(400), 1), Exec(q(401), q(400)), Exec(q(402), q(401)),
           Exec(q(403), q(402)), Net(q(403)), Net(q(403)), Open(q(405)),
           Net(q(406)), Exec(q(407), q(401)), Open(q(408)), Cap(q(409)),
           Exec(q(410), q(400)) >>

SecondHalf(pass) ==
    LET q(n) == p(n, pass)
    IN  << Open(q(410)), Net(q(410)), Exec(q(413), q(400)), Open(q(413)),
           Exec(q(415), q(401)), Open(q(415)), Net(q(415)), Exec(q(418), q(402)),
           Net(q(418)), Open(q(420)), Open(q(405)), Net(q(403)) >>

ts(i) == i      \* after SCENARIO_BASE_TS_NS

script(pass) ==
    LET events == FirstHalf(pass) \o SecondHalf(pass)
    IN  [i \in 1 .. SCENARIO_LEN |->
            [event |-> events[i], ts |-> ts(SCENARIO_LEN * pass + i - 1)]]

(* What the source sends in the given passes, one after the other. *)
run(passes) == FoldLeft(LAMBDA sent, pass : sent \o script(pass), << >>, passes)

(* The process table ingest makes of it: the exec that comes last under a  *)
(* tgid is its record.                                                     *)
Table(sent) ==
    LET execs == SelectSeq(sent, LAMBDA s : s.event.type = "proc_exec")
        last(t) == CHOOSE i \in DOMAIN execs :
                      /\ execs[i].event.tgid = t
                      /\ \A j \in DOMAIN execs : execs[j].event.tgid = t => j <= i
    IN  [t \in {execs[i].event.tgid : i \in DOMAIN execs} |->
            [ppid |-> execs[last(t)].event.ppid, ts |-> execs[last(t)].ts]]

ExecIds(pass) ==
    {script(pass)[i].event.tgid :
        i \in {k \in 1 .. SCENARIO_LEN : script(pass)[k].event.type = "proc_exec"}}
=============================================================================
