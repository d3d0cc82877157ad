----------------------------- MODULE Exercises ------------------------------
(***************************************************************************)
(* The small programs of the repository over the processes they are made   *)
(* of.  One of them runs, and the variables of the others do not change.   *)
(***************************************************************************)
EXTENDS SignalChains, Gather, SignalBarrier, ThreadChain, FileJobs, EnvServer, FileReverse,
        AcceptLoop

vars == <<processes, chain, gather, barrier, threads, jobs, environment, reversal, accepting>>

ASSUME ProgramsAssumption ==
  Programs \subseteq ChainPrograms \cup GatherPrograms \cup BarrierPrograms \cup ThreadPrograms
                       \cup JobPrograms \cup EnvPrograms \cup ReversePrograms \cup AcceptPrograms

Init ==
  /\ ProcessesInit /\ ChainInit /\ GatherInit /\ BarrierInit
  /\ ThreadInit /\ JobInit /\ EnvInit /\ ReverseInit /\ AcceptInit

\* what the processes do of themselves
Step ==
  \/ program \in ChainPrograms /\ ChainNext
     /\ UNCHANGED <<gather, barrier, threads, jobs, environment, reversal, accepting>>
  \/ program \in GatherPrograms /\ GatherStep
     /\ UNCHANGED <<chain, barrier, threads, jobs, environment, reversal, accepting>>
  \/ program \in BarrierPrograms /\ BarrierStep
     /\ UNCHANGED <<chain, gather, threads, jobs, environment, reversal, accepting>>
  \/ program \in ThreadPrograms /\ ThreadStep
     /\ UNCHANGED <<chain, gather, barrier, jobs, environment, reversal, accepting>>
  \/ program \in JobPrograms /\ JobStep
     /\ UNCHANGED <<chain, gather, barrier, threads, environment, reversal, accepting>>
  \/ program \in EnvPrograms /\ EnvStep
     /\ UNCHANGED <<chain, gather, barrier, threads, jobs, reversal, accepting>>
  \/ program \in ReversePrograms /\ ReverseNext
     /\ UNCHANGED <<chain, gather, barrier, threads, jobs, environment, accepting>>
  \/ program \in AcceptPrograms /\ AcceptStep
     /\ UNCHANGED <<chain, gather, barrier, threads, jobs, environment, reversal>>

\* failures, and what the user does
Event ==
  \/ program \in GatherPrograms /\ GatherEvent
     /\ UNCHANGED <<chain, barrier, threads, jobs, environment, reversal, accepting>>
  \/ program \in BarrierPrograms /\ ForkNobody
     /\ UNCHANGED <<chain, gather, threads, jobs, environment, reversal, accepting>>
  \/ program \in ThreadPrograms /\ ThreadEvent
     /\ UNCHANGED <<chain, gather, barrier, jobs, environment, reversal, accepting>>
  \/ program \in JobPrograms /\ ExitAll
     /\ UNCHANGED <<chain, gather, barrier, threads, environment, reversal, accepting>>
  \/ program \in EnvPrograms /\ EnvEvent
     /\ UNCHANGED <<chain, gather, barrier, threads, jobs, reversal, accepting>>
  \/ program \in AcceptPrograms /\ AcceptEvent
     /\ UNCHANGED <<chain, gather, barrier, threads, jobs, environment, reversal>>

Next == Step \/ Event

(* As every program but the server of serverENV takes finitely many steps, *)
(* it is enough that some process goes on while one can.                   *)
Spec == Init /\ [][Next]_vars /\ WF_vars(Step)
-----------------------------------------------------------------------------
(* Each program comes to its end, or the server to its answer, with the    *)
(* exceptions its module names: a call or a fork that fails, a signal that *)
(* came before its wait, a process killed, the arrivals ex7 counts in its  *)
(* handler instead of its sigwait, a datagram lost.                        *)
Ends == /\ ChainEnds /\ GatherEnds /\ BarrierEnds /\ ThreadsEnd
        /\ JobsEnd /\ EnvAnswers /\ ReverseEnds /\ ClientsServed
=============================================================================
