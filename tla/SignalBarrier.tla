---------------------------- MODULE SignalBarrier ---------------------------
(***************************************************************************)
(* ex7.c of TME09: a barrier on real-time signals.  Each son tells the     *)
(* father with SIGRTMIN that it has arrived; the handler of the father     *)
(* adds them up and at the NB-th sends SIGRTMAX to the NB sons it has      *)
(* recorded.  The loop that forks makes one son more, since & evaluates    *)
(* both its sides, and the father's sigwait takes one arrival that the     *)
(* handler would have counted.                                             *)
(***************************************************************************)
EXTENDS Processes

VARIABLES somme,
          i,          \* the global counter of the loops of main and handler
          arrived, passed   \* the sons before and after the barrier

barrier == <<somme, i, arrived, passed>>
BarrierPrograms == {"ex7"}
Recorded == 0 .. N - 1

BarrierInit == somme = 0 /\ i = 0 /\ arrived = {} /\ passed = {}

\* the loop does not notice a fork that fails
ForkNobody ==
  /\ pc[Father] = "fork"
  /\ \E p \in Forked :
       /\ pc[p] = "none" /\ \A q \in 0 .. p - 1 : pc[q] # "none"
       /\ pc' = [pc EXCEPT ![p] = "never"]
  /\ failed' = TRUE
  /\ UNCHANGED <<program, pending, reaped, somme, i, arrived, passed>>

\* fault: one arrival too early
Released_early == somme + 2 >= N
Released == somme + 1 >= N

\* the sons sent SIGRTMAX, up to one that does not exist, which ends the father
Reached == {p \in Recorded : \A q \in 0 .. p : pc[q] # "never"}

\* sigwait takes what the handler has not; the handler interrupts wait
CountArrival ==
  /\ pc[Father] \in {"open", "wait"} /\ Has(Father, "RTMIN")
  /\ somme' = somme + 1
  /\ LET rest == Taken(pending, Father, "RTMIN")
     IN  pending' = [p \in Procs |-> IF Released /\ p \in Reached /\ Alive(p)
                                     THEN Append(rest[p], <<"RTMAX", 1>>) ELSE rest[p]]
  /\ LET after == IF Released THEN N ELSE i
     IN  i' \in IF pc[Father] = "wait" THEN {after, after + 1} ELSE {after}
  /\ pc' = IF Released /\ Reached # Recorded THEN [pc EXCEPT ![Father] = "end"] ELSE pc
  /\ UNCHANGED <<program, reaped, failed, arrived, passed>>

EnterSigwait ==
  /\ Goto(Father, "open", "sigwait")
  /\ UNCHANGED <<program, pending, reaped, failed, somme, i, arrived, passed>>

TakeOne ==
  /\ Has(Father, "RTMIN") /\ Goto(Father, "sigwait", "wait")
  /\ pending' = Taken(pending, Father, "RTMIN")
  /\ i' = 0
  /\ UNCHANGED <<program, reaped, failed, somme, arrived, passed>>

\* wait fails once there is no son to wait for
WaitOne ==
  /\ pc[Father] = "wait" /\ i < N
  /\ \/ \E p \in Forked : Reap(p)
     \/ (\A p \in Forked \ reaped : pc[p] = "never") /\ UNCHANGED reaped
  /\ i' = i + 1
  /\ UNCHANGED <<program, pc, pending, failed, somme, arrived, passed>>

FinishBarrier ==
  /\ i >= N /\ Goto(Father, "wait", "end")
  /\ UNCHANGED <<program, pending, reaped, failed, somme, i, arrived, passed>>

\* sigqueue, after which the signals are unblocked; it may fail once the father is gone
ArriveBarrier(p) ==
  /\ \/ Goto(p, "start", "barrier") /\ arrived' = arrived \cup {p}
     \/ ~ Alive(Father) /\ Goto(p, "start", "end") /\ UNCHANGED arrived
  /\ pending' = Sigqueue(pending, Father, "RTMIN", 1)
  /\ UNCHANGED <<program, reaped, failed, somme, i, passed>>

\* in handler2 or from sigwait
PassBarrier(p) ==
  /\ Has(p, "RTMAX") /\ Goto(p, "barrier", "end")
  /\ passed' = passed \cup {p}
  /\ UNCHANGED <<program, pending, reaped, failed, somme, i, arrived>>

BarrierStep ==
  \/ (Fork \/ EndFork("open")) /\ UNCHANGED <<somme, i, arrived, passed>>
  \/ CountArrival \/ EnterSigwait \/ TakeOne \/ WaitOne \/ FinishBarrier
  \/ \E p \in Forked : ArriveBarrier(p) \/ PassBarrier(p)
-----------------------------------------------------------------------------
(* Nobody passes the barrier, and the father does not end, before NB sons  *)
(* have arrived, whatever sigwait takes and the handler interrupts.        *)
BarrierHolds ==
  program = "ex7" /\ (passed # {} \/ pc[Father] = "end") => Cardinality(arrived) >= N

(* The inductive invariant of the proof: the arrivals the handler has added*)
(* up, those queued and the one that sigwait took are the arrivals of as   *)
(* many sons; no son is released, none has ended and wait has not been     *)
(* passed NB times unless NB were added up.                                *)
BarrierTypeOK ==
  /\ pc \in [Procs -> {"fork", "none", "never", "start", "barrier", "open", "sigwait",
                       "wait", "end"}]
  /\ pc[Father] \in {"fork", "open", "sigwait", "wait", "end"}
  /\ \A p \in Sons : pc[p] \in {"none", "never", "start", "barrier", "end"}
  /\ pending \in [Procs -> Seq({"RTMIN", "RTMAX"} \X {1})]
  /\ reaped \subseteq Sons
  /\ somme \in Nat /\ i \in Nat /\ arrived \subseteq Sons /\ passed \subseteq Sons
TakenBySigwait == IF pc[Father] = "wait" THEN 1 ELSE 0
ArrivalsCounted ==
  somme + Len(pending[Father]) + TakenBySigwait <= Cardinality(arrived)
ReleasedLate ==
  (\E p \in Sons : pending[p] # << >> \/ p \in passed) => somme >= N
Arrivals ==
  /\ \A p \in arrived : pc[p] \in {"barrier", "end"}
  /\ \A p \in Sons : pc[p] = "end" /\ pc[Father] # "end" => p \in passed
  /\ \A p \in reaped : pc[p] = "end"
  /\ pc[Father] = "wait" => arrived # {} /\ (reaped # {} => somme >= N)
WaitCounted ==
  /\ pc[Father] \in {"fork", "open", "sigwait"} => reaped = {}
  /\ pc[Father] = "wait" => i <= somme \/ somme >= N
  /\ pc[Father] = "end" => Cardinality(arrived) >= N

BarrierInv == program = "ex7" =>
  BarrierTypeOK /\ ArrivalsCounted /\ ReleasedLate /\ Arrivals /\ WaitCounted

\* all the arrivals have been counted by the handler before sigwait, which is
\* left without any
Exhausted == somme > N /\ pc[Father] = "sigwait"

(* Every son recorded passes; the arrival that sigwait takes from the      *)
(* handler is made up for by the son in excess, who waits for ever.  And   *)
(* the father ends, unless its handler has counted the NB + 1 arrivals     *)
(* between the unblocking of the signals (line 94) and sigwait (line 98),  *)
(* which then waits for ever.                                              *)
BarrierEnds ==
  /\ program \in BarrierPrograms ~> Recorded \subseteq passed \/ failed
  /\ program \in BarrierPrograms ~> pc[Father] = "end" \/ Exhausted \/ failed
=============================================================================
