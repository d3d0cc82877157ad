------------------------- MODULE Exercises_proofs --------------------------
(***************************************************************************)
(* Proofs about the exercises: for each component an inductive invariant,  *)
(* for any number of processes, of arguments and of executions, and the    *)
(* properties that follow from it.                                         *)
(***************************************************************************)
EXTENDS Exercises, FiniteSetTheorems, SequenceTheorems, TLAPS

(* No step changes the exercise that runs: every action of its module      *)
(* keeps program.                                                          *)
LEMMA ProgramKept ==
  ASSUME [Next]_vars
  PROVE  program' = program
<1>1. CASE ChainNext
  <2>1. CASE Ex5
    BY <2>1 DEF Ex5, Fork, ForkFailure, EndFork, WaitSons, LastPasses, Awake, PassOn, WakeNext
  <2>2. CASE KillStep
    BY <2>2 DEF KillStep, ForkOne, HandleSigusr1, TellFather
  <2>3. CASE SignauxStep
    BY <2>3 DEF SignauxStep, ForkOne, AssignChild, HandleFirst, KilledFirst, TellFirst,
      StopSelf, Resume
  <2>4. CASE SynchroStep
    BY <2>4 DEF SynchroStep, ForkP, TellCreation, TellEnding, HandleCreation, HandleEnding,
      ReturnHandler, AnnounceP2
  <2> QED BY <1>1, <2>1, <2>2, <2>3, <2>4 DEF ChainNext
<1>2. CASE GatherStep \/ GatherEvent
  <2>1. CASE PersistentStep \/ CtrlC \/ Again
    BY <2>1 DEF PersistentStep, CtrlC, Again, Fork, EndFork, ForkFailure, ForkNone,
      WaitProducers, Collect, RemoveObject, Produce, processes
  <2>2. CASE Ex6
    BY <2>2 DEF Ex6, Forking, Fork, EndFork, ForkFailure, AddValue, SigwaitChild, TestCount,
      SendValue, EndSon
  <2>3. CASE Ex3
    BY <2>3 DEF Ex3, Forking, Fork, EndFork, ForkFailure, ReadFather, EndRead, PrintFather,
      StartWrite, EndWrite, NotifyFather
  <2> QED BY <1>2, <2>1, <2>2, <2>3 DEF GatherStep, GatherEvent
<1>3. CASE BarrierStep \/ ForkNobody
  BY <1>3 DEF BarrierStep, ForkNobody, Fork, EndFork, CountArrival, EnterSigwait, TakeOne,
    WaitOne, FinishBarrier, ArriveBarrier, PassBarrier
<1>4. CASE ThreadStep \/ ThreadEvent
  BY <1>4 DEF ThreadStep, ThreadEvent, CreateThread, JoinNext, LockLibere, SignalDernier,
    WaitLibere, EndLast, WakeSpuriously, WaitDernier, Unblock, Pause, HandleSigint,
    SecondSigint, SignalLibere, JoinFirst, PressCtrlC
<1>5. CASE JobStep \/ ExitAll
  BY <1>5 DEF JobStep, ExitAll, StartThread, LockJobs, NoMore, PopName, PopNext, OpenBoth,
    Convert, AtEof, JoinThreads, processes
<1>6. CASE EnvStep \/ EnvEvent
  BY <1>6 DEF EnvStep, EnvEvent, Type, ReceiveAnswer, SetVariable, GetVariable, ServerEnds,
    StopServer, processes
<1>7. CASE ReverseNext
  BY <1>7 DEF ReverseNext, OpenFiles, ReverseChar, EndChars, WriteBlock, WriteRest,
    ListFails, Sigsuspend, EndBlocks, processes
<1>8. CASE AcceptStep \/ AcceptEvent
  BY <1>8 DEF AcceptStep, AcceptEvent, Accept, CreateServer, JoinServers, ReadScom, EndServer
<1>9. CASE UNCHANGED vars BY <1>9 DEF vars, processes
<1> QED
  BY <1>1, <1>2, <1>3, <1>4, <1>5, <1>6, <1>7, <1>8, <1>9 DEF Next, Step, Event

(* A step of the exercises over files is one of their threads or the exit. *)
LEMMA JobsOnly ==
  ASSUME Next, program \in JobPrograms
  PROVE  JobStep \/ ExitAll
BY DEF Next, Step, Event, ChainPrograms, GatherPrograms, BarrierPrograms, ThreadPrograms,
  JobPrograms, EnvPrograms, ReversePrograms, AcceptPrograms
-----------------------------------------------------------------------------
(* The exercises over files (FileJobs) *)

(* The places of the arguments name files of the program, and its threads  *)
(* are sons.                                                               *)
LEMMA JobNames ==
  /\ \A n \in Ranks : Jobs[n + 1] \in Range(Jobs)
  /\ program \in JobPrograms => Threads \subseteq Sons
  /\ Father \in Procs /\ Sons \subseteq Procs /\ Father \notin Sons
<1>1. Len(Jobs) \in Nat /\ DOMAIN Jobs = 1 .. Len(Jobs)
  BY JobsAssumption, LenProperties
<1>2. \A n \in Ranks : Jobs[n + 1] \in Range(Jobs)
  BY <1>1 DEF Ranks, Range
<1>3. program \in JobPrograms => Threads \subseteq Sons
  BY <1>1, JobsAssumption, NAssumption DEF Threads, Sons
<1> QED BY <1>2, <1>3 DEF Procs, Sons, Father

(* The invariant of the exercises over files holds before they start.      *)
LEMMA JobInitInv == Init => JobInv
<1> SUFFICES ASSUME Init, program \in JobPrograms
             PROVE  /\ JobTypeOK /\ JobMutex /\ JobProgress
                    /\ PoolProgress /\ UnlimitedProgress /\ Joined
    BY DEF JobInv
<1>1. /\ pc = [p \in Procs |-> IF p = Father THEN "fork" ELSE "none"]
      /\ first_pos_undone = 0 /\ job = [p \in Sons |-> 0] /\ pos = [p \in Sons |-> 0]
      /\ files = [f \in Range(Jobs) |-> [k \in Positions |-> "lower"]]
  BY DEF Init, ProcessesInit, JobInit
<1>2. 0 \in 0 .. FileSize BY JobsAssumption
<1>3. JobTypeOK BY <1>1, <1>2, JobNames DEF JobTypeOK, Sons, Father, Procs
<1>4. pc[Father] = "fork" /\ \A p \in Threads : pc[p] = "none" BY <1>1, JobNames
<1> QED
  BY <1>1, <1>3, <1>4
  DEF JobMutex, JobProgress, PoolProgress, UnlimitedProgress, Joined, Ranks

(* Every step of a thread, of main and the exit preserve it: an index is   *)
(* taken under the mutex, and a name popped is one nobody else converts.   *)
LEMMA JobStepInv ==
  ASSUME JobInv, [Next]_vars
  PROVE  JobInv'
<1> SUFFICES ASSUME program \in JobPrograms
             PROVE  (/\ JobTypeOK /\ JobMutex /\ JobProgress
                     /\ PoolProgress /\ UnlimitedProgress /\ Joined)'
    BY ProgramKept DEF JobInv
<1>0. /\ JobTypeOK /\ JobMutex /\ JobProgress /\ PoolProgress /\ UnlimitedProgress /\ Joined
      /\ program' = program /\ Threads' = Threads
  BY ProgramKept DEF JobInv, Threads
<1>n. /\ \A n \in Ranks : Jobs[n + 1] \in Range(Jobs)
      /\ Threads \subseteq Sons
      /\ Father \in Procs /\ Sons \subseteq Procs /\ Father \notin Sons
      /\ Len(Jobs) \in Nat /\ Ranks \subseteq Nat
  BY JobNames, JobsAssumption, LenProperties DEF Ranks
<1>1. ASSUME UNCHANGED <<pc, first_pos_undone, mutex_jobs, job, pos, files>>
      PROVE  (/\ JobTypeOK /\ JobMutex /\ JobProgress
              /\ PoolProgress /\ UnlimitedProgress /\ Joined)'
  BY <1>0, <1>1
  DEF JobTypeOK, JobMutex, JobProgress, PoolProgress, UnlimitedProgress, Joined, Upper,
    Converted
<1>2. CASE ExitAll
  <2>1. /\ pc' = [q \in Procs |-> IF pc[q] = "none" THEN "none" ELSE "killed"]
        /\ UNCHANGED <<first_pos_undone, mutex_jobs, job, pos, files>>
        /\ pc[Father] # "none"
    BY <1>0, <1>2 DEF ExitAll, AllKilled, JobTypeOK
  <2>2. \A p \in Threads \cup {Father} : pc'[p] \in {"none", "killed"} BY <1>n, <2>1
  <2>3. pc'[Father] = "killed" BY <1>n, <2>1
  <2>4. JobTypeOK' BY <1>0, <2>1, <2>3 DEF JobTypeOK
  <2> QED
    BY <1>0, <2>2, <2>3, <2>4
    DEF JobMutex, JobProgress, PoolProgress, UnlimitedProgress, Joined
<1>3. CASE JoinThreads
  <2>1. /\ pc' = [pc EXCEPT ![Father] = "end"]
        /\ UNCHANGED <<first_pos_undone, mutex_jobs, job, pos, files>>
        /\ \A p \in Threads : pc[p] = "end" /\ pc'[p] = pc[p]
    BY <1>0, <1>3, <1>n DEF JoinThreads, Goto, JobTypeOK
  <2>2. JobTypeOK' BY <1>0, <2>1, <1>n DEF JobTypeOK
  <2>3. pc[Father] = "fork" BY <1>3 DEF JoinThreads, Goto
  <2> QED
    BY <1>0, <2>1, <2>2, <2>3
    DEF JobMutex, JobProgress, PoolProgress, UnlimitedProgress, Joined, Upper, Converted
<1>4. ASSUME NEW p \in Threads, StartThread(p) \/ LockJobs(p) \/ NoMore(p)
      PROVE  (/\ JobTypeOK /\ JobMutex /\ JobProgress
              /\ PoolProgress /\ UnlimitedProgress /\ Joined)'
  <2>1. /\ UNCHANGED <<first_pos_undone, pos, files>>
        /\ \/ /\ pc[p] = "none" /\ pc' = [pc EXCEPT ![p] = "lock"] /\ program = "pool"
              /\ job' = [job EXCEPT ![p] = p] /\ mutex_jobs' = mutex_jobs
           \/ /\ pc[p] = "none" /\ pc' = [pc EXCEPT ![p] = "open"] /\ program = "unlimited"
              /\ job' = [job EXCEPT ![p] = p] /\ mutex_jobs' = mutex_jobs
           \/ /\ pc[p] = "lock" /\ pc' = [pc EXCEPT ![p] = "test"]
              /\ job' = job /\ mutex_jobs' = p /\ mutex_jobs = NoOwner
           \/ /\ pc[p] = "test" /\ pc' = [pc EXCEPT ![p] = "end"]
              /\ job' = job /\ mutex_jobs' = NoOwner
              /\ first_pos_undone >= Len(Jobs)
    BY <1>4 DEF StartThread, LockJobs, NoMore, Goto, JobPrograms
  <2>2. program = "unlimited" => p \in Ranks BY DEF Threads, Ranks
  <2>3. JobTypeOK' BY <1>0, <1>n, <2>1 DEF JobTypeOK, Sons
  <2>4. JobMutex' BY <1>0, <1>n, <2>1 DEF JobTypeOK, JobMutex, NoOwner
  <2>5. JobProgress' BY <1>0, <1>n, <2>1, <2>2 DEF JobTypeOK, JobProgress, Upper
  <2>6. pc'[Father] = pc[Father] /\ \A q \in Threads : q # p => pc'[q] = pc[q]
    BY <1>n, <1>0, <2>1 DEF JobTypeOK
  <2>7. PoolProgress'
    <3>1. ASSUME program = "pool", NEW q \in Threads, pc'[q] = "end"
          PROVE  first_pos_undone >= Len(Jobs)
      BY <1>0, <1>n, <2>1, <3>1 DEF JobTypeOK, PoolProgress
    <3>2. ASSUME program = "pool", NEW q \in Threads, pc[q] \in {"open", "getc"}
          PROVE  pc'[q] = pc[q] /\ job'[q] = job[q]
      BY <1>0, <1>n, <2>1, <3>2 DEF JobTypeOK
    <3> QED BY <1>0, <2>1, <2>6, <3>1, <3>2 DEF PoolProgress, Converted, Upper
  <2>8. UnlimitedProgress'
    <3> SUFFICES ASSUME program = "unlimited", NEW q \in Threads
                 PROVE  /\ pc'[q] \notin {"lock", "test", "pop"}
                        /\ pc'[q] \in {"open", "getc"} => job'[q] = q
                        /\ pc'[q] = "end" => Converted(q)'
      BY <1>0 DEF UnlimitedProgress
    <3>1. q # p => pc'[q] = pc[q] /\ job'[q] = job[q] BY <1>0, <1>n, <2>1 DEF JobTypeOK
    <3>2. Converted(q)' <=> Converted(q) BY <2>1 DEF Converted, Upper
    <3>3. CASE q # p BY <1>0, <3>1, <3>2, <3>3 DEF UnlimitedProgress
    <3>4. CASE q = p
      <4>1. pc[p] \notin {"lock", "test", "pop"} BY <1>0 DEF UnlimitedProgress
      <4>2. pc' = [pc EXCEPT ![p] = "open"] /\ job' = [job EXCEPT ![p] = p]
        BY <2>1, <4>1
      <4>3. pc'[p] = "open" /\ job'[p] = p BY <1>0, <1>n, <4>2 DEF JobTypeOK
      <4> QED BY <3>4, <4>3
    <3> QED BY <3>3, <3>4
  <2>9. Joined' BY <1>0, <1>n, <2>1, <2>6 DEF Joined
  <2> QED BY <2>3, <2>4, <2>5, <2>7, <2>8, <2>9
<1>5. ASSUME NEW p \in Threads, PopName(p) \/ PopNext(p) \/ OpenBoth(p)
      PROVE  (/\ JobTypeOK /\ JobMutex /\ JobProgress
              /\ PoolProgress /\ UnlimitedProgress /\ Joined)'
  <2>1. /\ files' = files
        /\ \/ /\ pc[p] = "test" /\ pc' = [pc EXCEPT ![p] = "pop"]
              /\ job' = [job EXCEPT ![p] = first_pos_undone]
              /\ first_pos_undone < Len(Jobs)
              /\ UNCHANGED <<mutex_jobs, pos, first_pos_undone>>
           \/ /\ pc[p] = "pop" /\ pc' = [pc EXCEPT ![p] = "open"]
              /\ first_pos_undone' = first_pos_undone + 1 /\ mutex_jobs' = NoOwner
              /\ UNCHANGED <<job, pos>>
           \/ /\ pc[p] = "open" /\ pc' = [pc EXCEPT ![p] = "getc"]
              /\ pos' = [pos EXCEPT ![p] = 0]
              /\ UNCHANGED <<job, mutex_jobs, first_pos_undone>>
    BY <1>5 DEF PopName, PopNext, OpenBoth, Goto
  <2>2. 0 \in 0 .. FileSize BY JobsAssumption
  <2>3. JobTypeOK' BY <1>0, <1>n, <2>1, <2>2 DEF JobTypeOK
  <2>4. JobMutex' BY <1>0, <1>n, <2>1 DEF JobTypeOK, JobMutex, NoOwner
  <2>5. JobProgress'
    BY <1>0, <1>n, <2>1, <2>2 DEF JobTypeOK, JobProgress, JobMutex, Upper, Ranks
  <2>6. pc'[Father] = pc[Father] /\ \A q \in Threads : q # p => pc'[q] = pc[q]
    BY <1>n, <1>0, <2>1 DEF JobTypeOK
  <2>7. PoolProgress'
    <3>1. ASSUME program = "pool", NEW q \in Threads, pc'[q] = "end"
          PROVE  first_pos_undone' >= Len(Jobs)
      BY <1>0, <1>n, <2>1, <3>1 DEF JobTypeOK, PoolProgress
    <3>2. ASSUME NEW q \in Threads, pc[q] \in {"open", "getc"}
          PROVE  pc'[q] \in {"open", "getc"} /\ job'[q] = job[q]
      BY <1>0, <1>n, <2>1, <3>2 DEF JobTypeOK
    <3>3. ASSUME NEW n \in Ranks, n < first_pos_undone', ~ (n < first_pos_undone)
          PROVE  pc'[p] = "open" /\ job'[p] = n
      BY <1>0, <1>n, <2>1, <3>3 DEF JobTypeOK, JobProgress
    <3>4. \A n \in Ranks : Converted(n)' <=> Converted(n) BY <2>1 DEF Converted, Upper
    <3> QED BY <1>0, <2>6, <3>1, <3>2, <3>3, <3>4 DEF PoolProgress
  <2>8. UnlimitedProgress'
    <3> SUFFICES ASSUME program = "unlimited", NEW q \in Threads
                 PROVE  /\ pc'[q] \notin {"lock", "test", "pop"}
                        /\ pc'[q] \in {"open", "getc"} => job'[q] = q
                        /\ pc'[q] = "end" => Converted(q)'
      BY <1>0 DEF UnlimitedProgress
    <3>1. q # p => pc'[q] = pc[q] /\ job'[q] = job[q] BY <1>0, <1>n, <2>1 DEF JobTypeOK
    <3>2. Converted(q)' <=> Converted(q) BY <2>1 DEF Converted, Upper
    <3> QED BY <1>0, <1>n, <2>1, <3>1, <3>2 DEF JobTypeOK, UnlimitedProgress
  <2>9. Joined' BY <1>0, <1>n, <2>1, <2>6 DEF Joined
  <2> QED BY <2>3, <2>4, <2>5, <2>7, <2>8, <2>9
<1>6. ASSUME NEW p \in Threads, Convert(p)
      PROVE  (/\ JobTypeOK /\ JobMutex /\ JobProgress
              /\ PoolProgress /\ UnlimitedProgress /\ Joined)'
  <2>1. /\ UNCHANGED <<pc, first_pos_undone, mutex_jobs, job>>
        /\ pc[p] = "getc" /\ pos[p] < FileSize
        /\ files' = [files EXCEPT ![Jobs[job[p] + 1]][pos[p]] = "upper"]
        /\ pos' = [pos EXCEPT ![p] = @ + 1]
    BY <1>6 DEF Convert, processes
  <2>2. job[p] \in Ranks /\ pos[p] \in Positions /\ pos[p] + 1 \in 0 .. FileSize
    BY <1>0, <1>n, <2>1, JobsAssumption DEF JobTypeOK, JobProgress, Positions
  <2>3. JobTypeOK'
    <3>1. files' \in [Range(Jobs) -> [Positions -> {"lower", "upper"}]]
      BY <1>0, <1>n, <2>1, <2>2 DEF JobTypeOK
    <3>2. pos' \in [Sons -> 0 .. FileSize] BY <1>0, <1>n, <2>1, <2>2 DEF JobTypeOK
    <3> QED BY <1>0, <2>1, <3>1, <3>2 DEF JobTypeOK
  \* a character converted is not put back
  <2>4. \A n \in Ranks, k \in Positions :
           Upper(n, k) \/ (n = job[p] /\ k = pos[p]) => Upper(n, k)'
    BY <1>0, <1>n, <2>1, <2>2 DEF JobTypeOK, Upper
  <2>5. \A n \in Ranks : Converted(n) => Converted(n)'
    <3> SUFFICES ASSUME NEW n \in Ranks, \A k \in Positions : Upper(n, k),
                        NEW k \in Positions
                 PROVE  Upper(n, k)'
      BY DEF Converted
    <3> QED BY <2>4 DEF Upper
  <2>6. JobProgress'
    <3> SUFFICES ASSUME NEW q \in Threads, pc[q] = "getc"
                 PROVE  \A k \in 0 .. pos'[q] - 1 : Upper(job[q], k)'
      BY <1>0, <2>1 DEF JobProgress
    <3>1. pos[q] \in 0 .. FileSize /\ pos'[q] = IF q = p THEN pos[q] + 1 ELSE pos[q]
      BY <1>0, <1>n, <2>1 DEF JobTypeOK
    <3>2. job[q] \in Ranks /\ \A k \in 0 .. pos[q] - 1 : Upper(job[q], k)
      BY <1>0 DEF JobProgress
    <3>3. \A k \in 0 .. pos[q] - 1 : k \in Positions
      BY <3>1, JobsAssumption DEF Positions
    <3>4. \A k \in 0 .. pos'[q] - 1 : k \in 0 .. pos[q] - 1 \/ (q = p /\ k = pos[p])
      <4>1. pos[q] \in Int /\ pos'[q] \in Int BY <3>1, JobsAssumption
      <4> QED BY <3>1, <4>1
    <3> QED BY <2>1, <2>2, <2>4, <3>2, <3>3, <3>4 DEF Upper
  <2>7. PoolProgress' BY <1>0, <2>1, <2>5 DEF PoolProgress
  <2>8. UnlimitedProgress' BY <1>0, <2>1, <2>5 DEF UnlimitedProgress, Threads, Ranks
  <2> QED BY <1>0, <2>1, <2>3, <2>6, <2>7, <2>8 DEF JobMutex, Joined
<1>7. ASSUME NEW p \in Threads, AtEof(p)
      PROVE  (/\ JobTypeOK /\ JobMutex /\ JobProgress
              /\ PoolProgress /\ UnlimitedProgress /\ Joined)'
  <2>1. /\ UNCHANGED <<first_pos_undone, mutex_jobs, job, pos, files>>
        /\ pc[p] = "getc" /\ pos[p] = FileSize
        /\ pc' = [pc EXCEPT ![p] = IF program = "pool" THEN "lock" ELSE "end"]
    BY <1>7 DEF AtEof, Goto
  <2>2. job[p] \in Ranks /\ Converted(job[p])
    <3>1. job[p] \in Ranks /\ \A k \in 0 .. FileSize - 1 : Upper(job[p], k)
      BY <1>0, <2>1 DEF JobProgress
    <3> QED BY <3>1 DEF Converted, Positions
  <2>3. /\ \A n \in Ranks : Converted(n)' <=> Converted(n)
        /\ \A n, k : Upper(n, k)' <=> Upper(n, k)
    BY <2>1 DEF Converted, Upper
  <2>4. /\ pc'[Father] = pc[Father] /\ \A q \in Threads : q # p => pc'[q] = pc[q]
        /\ pc'[p] = IF program = "pool" THEN "lock" ELSE "end"
    BY <1>n, <1>0, <2>1 DEF JobTypeOK
  <2>5. JobTypeOK' BY <1>0, <1>n, <2>1 DEF JobTypeOK
  <2>6. JobMutex' BY <1>0, <2>1, <2>4 DEF JobMutex
  <2>7. JobProgress' BY <1>0, <2>1, <2>3, <2>4 DEF JobProgress
  <2>8. PoolProgress'
    <3>1. ASSUME program = "pool", NEW n \in Ranks, n < first_pos_undone,
                 pc[Father] # "killed", ~ Converted(n)
          PROVE  \E q \in Threads : pc'[q] \in {"open", "getc"} /\ job[q] = n
      <4>1. PICK q \in Threads : pc[q] \in {"open", "getc"} /\ job[q] = n
        BY <1>0, <3>1 DEF PoolProgress
      <4> QED BY <2>2, <2>4, <3>1, <4>1
    <3> QED BY <1>0, <2>1, <2>3, <2>4, <3>1 DEF PoolProgress
  <2>9. UnlimitedProgress'
    <3> SUFFICES ASSUME program = "unlimited", NEW q \in Threads
                 PROVE  /\ pc'[q] \notin {"lock", "test", "pop"}
                        /\ pc'[q] \in {"open", "getc"} => job'[q] = q
                        /\ pc'[q] = "end" => Converted(q)'
      BY <1>0 DEF UnlimitedProgress
    <3>1. Converted(q)' <=> Converted(q) BY <2>1 DEF Converted, Upper
    <3>2. q = p => q = job[p] BY <1>0, <2>1 DEF UnlimitedProgress
    <3> QED BY <1>0, <2>1, <2>2, <2>4, <3>1, <3>2 DEF UnlimitedProgress
  <2>10. Joined' BY <1>0, <2>1, <2>4 DEF Joined
  <2> QED BY <2>5, <2>6, <2>7, <2>8, <2>9, <2>10
<1>8. CASE UNCHANGED vars
  BY <1>1, <1>8 DEF vars, processes, jobs
<1> QED
  BY <1>2, <1>3, <1>4, <1>5, <1>6, <1>7, <1>8, JobsOnly DEF JobStep

(* The indices and the states of the threads stay as JobInv describes, for *)
(* any list of arguments and any number of threads.                        *)
THEOREM JobInvariance == Spec => []JobInv
BY JobInitInv, JobStepInv, PTL DEF Spec

(* Whatever the threads of the pool, or of unlimited, do and whichever     *)
(* arguments name the same file, main ends only once every file named is   *)
(* in upper case from one end to the other: for any list of files.         *)
THEOREM EveryFileConverted == Spec => []AllConverted
<1>1. JobInv => AllConverted
  <2> SUFFICES ASSUME JobInv, program \in JobPrograms, pc[Father] = "end",
                      NEW f \in DOMAIN files, NEW k \in Positions
               PROVE  files[f][k] = "upper"
    BY DEF AllConverted
  <2>0. JobTypeOK /\ JobProgress /\ PoolProgress /\ UnlimitedProgress /\ Joined
    BY DEF JobInv
  <2>1. \A p \in Threads : pc[p] = "end" BY <2>0 DEF Joined
  <2>2. Len(Jobs) \in Nat /\ DOMAIN Jobs = 1 .. Len(Jobs) BY JobsAssumption, LenProperties
  <2>3. PICK n \in Ranks : f = Jobs[n + 1]
    <3>1. f \in Range(Jobs) BY <2>0 DEF JobTypeOK
    <3>2. PICK m \in DOMAIN Jobs : f = Jobs[m] BY <3>1 DEF Range
    <3>3. m - 1 \in Ranks /\ (m - 1) + 1 = m BY <2>2, <3>2 DEF Ranks
    <3> QED BY <3>2, <3>3
  <2>4. Converted(n)
    <3>1. CASE program = "pool"
      <4>1. 0 \in Threads BY <3>1 DEF Threads
      <4>2. n < first_pos_undone
        BY <2>0, <2>1, <2>2, <3>1, <4>1 DEF PoolProgress, JobTypeOK, Ranks
      <4> QED BY <2>0, <2>1, <3>1, <4>2 DEF PoolProgress
    <3>2. CASE program = "unlimited"
      <4>1. n \in Threads BY <3>2 DEF Threads, Ranks
      <4> QED BY <2>0, <2>1, <3>2, <4>1 DEF UnlimitedProgress
    <3> QED BY <3>1, <3>2 DEF JobPrograms
  <2> QED BY <2>3, <2>4 DEF Converted, Upper
<1> QED BY JobInvariance, <1>1, PTL
-----------------------------------------------------------------------------
(* The server of variables (EnvServer) *)

(* A step of the server of variables is one of its actions, of its clients *)
(* or of the network.                                                      *)
LEMMA EnvOnly ==
  ASSUME Next, program = "env"
  PROVE  EnvStep \/ EnvEvent
BY DEF Next, Step, Event, ChainPrograms, GatherPrograms, BarrierPrograms, ThreadPrograms,
  JobPrograms, EnvPrograms, ReversePrograms, AcceptPrograms

(* The clients are processes other than the server.                        *)
LEMMA EnvClients == Clients \subseteq Procs /\ Father \notin Clients /\ Father \in Procs
BY NAssumption, ClientsAssumption DEF Procs, Sons, Father

(* A GET with an argument names a variable, and a SET sets one. *)
LEMMA QueryShape ==
  ASSUME NEW q \in Queries
  PROVE  /\ q[1] = "G" /\ Len(q) > 1 => q \in {"G"} \X Variables /\ q[2] \in Variables
         /\ q[1] = "S" /\ Len(q) > 1 => q[2] \in Variables
<1>1. CASE q \in {<<"S", v, c>> : v \in Variables, c \in Contents} BY <1>1
<1>2. CASE q \in {<<"S", v>> : v \in Variables} BY <1>2
<1>3. CASE q \in {<<"G", v>> : v \in Variables} BY <1>3
<1>4. CASE q \in {<<"S">>, <<"G">>, <<"other">>} BY <1>4
<1> QED BY <1>1, <1>2, <1>3, <1>4 DEF Queries

(* The invariant of the server holds when it starts.                       *)
LEMMA EnvInitInv == Init => EnvInv
<1> SUFFICES ASSUME Init, program = "env"
             PROVE  EnvTypeOK /\ OneGet /\ AnswerCurrent /\ ToldCurrent
    BY DEF EnvInv
<1>1. EnvTypeOK /\ inbox = << >> /\ told = {} /\ \A p \in Clients : answer[p] = << >>
  <2>1. /\ pc = [p \in Procs |-> IF p = Father THEN "fork" ELSE "none"]
        /\ env \in [Variables -> Contents \cup {Unset}] /\ inbox = << >>
        /\ answer = [p \in Clients |-> << >>] /\ told = {}
        /\ asked = [p \in Clients |-> Unset]
    BY DEF Init, ProcessesInit, EnvInit, EnvPrograms
  <2>2. inbox \in Seq(Queries \X Clients) /\ << >> \in Seq(Values)
    BY <2>1, EmptySeq
  <2> QED BY <2>1, <2>2 DEF EnvTypeOK
<1>2. DOMAIN inbox = {} BY <1>1
<1> QED BY <1>1, <1>2 DEF OneGet, AnswerCurrent, ToldCurrent

(* A query appended, and the query at the head removed. *)
LEMMA InboxGrows ==
  ASSUME EnvTypeOK, NEW q \in Queries, NEW p \in Clients
  PROVE  LET more == Append(inbox, <<q, p>>) IN
         /\ more \in Seq(Queries \X Clients)
         /\ DOMAIN inbox = 1 .. Len(inbox) /\ Len(inbox) \in Nat
         /\ DOMAIN more = 1 .. Len(inbox) + 1
         /\ \A n \in DOMAIN inbox : more[n] = inbox[n]
         /\ more[Len(inbox) + 1] = <<q, p>>
<1>1. inbox \in Seq(Queries \X Clients) /\ <<q, p>> \in Queries \X Clients BY DEF EnvTypeOK
<1> QED BY <1>1, AppendProperties, LenProperties

(* The query at the head removed, the others move up by one place.         *)
LEMMA InboxShrinks ==
  ASSUME EnvTypeOK, inbox # << >>
  PROVE  /\ Tail(inbox) \in Seq(Queries \X Clients)
         /\ 1 \in DOMAIN inbox /\ Head(inbox) = inbox[1] /\ Head(inbox) \in Queries \X Clients
         /\ DOMAIN inbox \subseteq Nat
         /\ \A n \in DOMAIN Tail(inbox) : n + 1 \in DOMAIN inbox /\ n + 1 # 1
                                          /\ Tail(inbox)[n] = inbox[n + 1]
<1>1. inbox \in Seq(Queries \X Clients) BY DEF EnvTypeOK
<1>2. /\ Tail(inbox) \in Seq(Queries \X Clients) /\ Len(Tail(inbox)) = Len(inbox) - 1
      /\ \A n \in 1 .. Len(Tail(inbox)) : Tail(inbox)[n] = inbox[n + 1]
      /\ Head(inbox) \in Queries \X Clients
  BY <1>1, HeadTailProperties
<1>3. DOMAIN inbox = 1 .. Len(inbox) /\ DOMAIN Tail(inbox) = 1 .. Len(Tail(inbox))
      /\ Len(inbox) \in Nat \ {0}
  BY <1>1, <1>2, LenProperties, EmptySeq
<1> QED BY <1>1, <1>2, <1>3

(* Every query, datagram lost, answer and end preserves it: an answer      *)
(* under way tells the value the table holds, since a variable is set      *)
(* once.                                                                   *)
LEMMA EnvStepInv ==
  ASSUME EnvInv, [Next]_vars
  PROVE  EnvInv'
<1> SUFFICES ASSUME program = "env"
             PROVE  (EnvTypeOK /\ OneGet /\ AnswerCurrent /\ ToldCurrent)'
    BY ProgramKept DEF EnvInv
<1>0. EnvTypeOK /\ OneGet /\ AnswerCurrent /\ ToldCurrent BY DEF EnvInv
<1>h. ASSUME inbox # << >>, inbox' = Tail(inbox), asked' = asked,
             \A p \in Clients : pc'[p] = pc[p],
             \A n \in DOMAIN inbox : n # 1 /\ IsGet(n) => answer'[inbox[n][2]] = << >>
      PROVE  OneGet'
  <2>1. /\ \A n \in DOMAIN inbox' : /\ n + 1 \in DOMAIN inbox /\ n + 1 # 1
                                    /\ inbox'[n] = inbox[n + 1]
        /\ DOMAIN inbox' \subseteq Nat
    <3>1. inbox' \in Seq(Queries \X Clients) BY <1>h, <1>0, InboxShrinks
    <3> QED BY <1>h, <1>0, <3>1, InboxShrinks, LenProperties
  <2>2. \A n \in DOMAIN inbox : inbox[n][2] \in Clients
    BY <1>0, ElementOfSeq, LenProperties DEF EnvTypeOK
  <2> SUFFICES ASSUME NEW n \in DOMAIN inbox', inbox'[n][1][1] = "G"
               PROVE  /\ pc'[inbox'[n][2]] = "receive" /\ answer'[inbox'[n][2]] = << >>
                      /\ Len(inbox'[n][1]) > 1 =>
                           asked'[inbox'[n][2]] = inbox'[n][1][2] /\ inbox'[n][1][2] \in Variables
                      /\ \A m \in DOMAIN inbox' :
                           inbox'[m][1][1] = "G" /\ inbox'[m][2] = inbox'[n][2] => m = n
    BY DEF OneGet, IsGet
  <2>3. n + 1 \in DOMAIN inbox /\ n + 1 # 1 /\ inbox'[n] = inbox[n + 1] /\ IsGet(n + 1)
    BY <2>1 DEF IsGet
  <2>4. /\ pc[inbox[n + 1][2]] = "receive"
        /\ Len(inbox[n + 1][1]) > 1 =>
             asked[inbox[n + 1][2]] = inbox[n + 1][1][2] /\ inbox[n + 1][1][2] \in Variables
        /\ \A m \in DOMAIN inbox :
             IsGet(m) /\ inbox[m][2] = inbox[n + 1][2] => m = n + 1
    BY <1>0, <2>3 DEF OneGet
  <2>5. ASSUME NEW m \in DOMAIN inbox', inbox'[m][1][1] = "G", inbox'[m][2] = inbox'[n][2]
        PROVE  m = n
    <3>1. m + 1 \in DOMAIN inbox /\ inbox'[m] = inbox[m + 1] /\ IsGet(m + 1)
      BY <2>1, <2>5 DEF IsGet
    <3>2. m + 1 = n + 1 BY <2>3, <2>4, <2>5, <3>1
    <3> QED BY <2>1, <3>2
  <2> QED BY <1>h, <2>2, <2>3, <2>4, <2>5
<1>1. CASE StopServer
  <2>1. /\ pc' = [pc EXCEPT ![Father] = "end"]
        /\ UNCHANGED <<env, inbox, answer, asked, told>>
    BY <1>1 DEF StopServer, Goto, network
  <2>2. EnvTypeOK'
    <3>1. Values' = Values BY <2>1 DEF Values
    <3> QED BY <1>0, <2>1, <3>1 DEF EnvTypeOK
  <2>3. \A p \in Clients : pc'[p] = pc[p] BY <1>0, <2>1, EnvClients DEF EnvTypeOK
  <2>4. \A n \in DOMAIN inbox : inbox[n][2] \in Clients
    BY <1>0, ElementOfSeq, LenProperties DEF EnvTypeOK
  <2>5. OneGet' BY <1>0, <2>1, <2>3, <2>4 DEF OneGet, IsGet
  <2>6. AnswerCurrent' BY <1>0, <2>1, <2>3 DEF AnswerCurrent
  <2> QED BY <1>0, <2>1, <2>2, <2>5, <2>6 DEF ToldCurrent
<1>2. CASE ServerEnds
  <2>1. /\ pc' = [pc EXCEPT ![Father] = "end"]
        /\ inbox # << >> /\ inbox' = Tail(inbox)
        /\ UNCHANGED <<env, answer, asked, told>>
    BY <1>2 DEF ServerEnds, Recvfrom
  <2>2. \A p \in Clients : pc'[p] = pc[p] BY <1>0, <2>1, EnvClients DEF EnvTypeOK
  <2>3. EnvTypeOK'
    <3>1. Values' = Values BY <2>1 DEF Values
    <3>2. pc' \in [Procs -> {"fork", "none", "start", "receive", "end"}]
      BY <1>0, <2>1 DEF EnvTypeOK
    <3>3. inbox' \in Seq(Queries \X Clients) BY <1>0, <2>1, InboxShrinks
    <3> QED BY <1>0, <2>1, <3>1, <3>2, <3>3 DEF EnvTypeOK
  <2>4. OneGet' BY <1>0, <1>h, <2>1, <2>2 DEF OneGet
  <2>5. AnswerCurrent' BY <1>0, <2>1, <2>2 DEF AnswerCurrent
  <2> QED BY <1>0, <2>1, <2>3, <2>4, <2>5 DEF ToldCurrent
<1>3. CASE SetVariable
  <2>1. /\ inbox # << >> /\ inbox' = Tail(inbox)
        /\ Query[1] = "S" /\ Len(Query) > 1
        /\ env' = IF env[Query[2]] = Unset THEN [env EXCEPT ![Query[2]] = arg2'] ELSE env
        /\ UNCHANGED <<pc, answer, asked, told>>
    BY <1>3 DEF SetVariable, Recvfrom, Setenv, processes
  <2>2. Query[2] \in Variables
    <3>1. Query \in Queries BY <1>0, <2>1, InboxShrinks DEF Query
    <3> QED BY <2>1, <3>1, QueryShape
  \* no value is taken from a variable that has one
  <2>3. /\ DOMAIN env' = Variables
        /\ \A v \in Variables : env[v] # Unset => env'[v] = env[v]
    BY <1>0, <2>1, <2>2 DEF EnvTypeOK
  <2>4. \A p \in Clients : answer[p] # << >> => env'[asked[p]] = env[asked[p]]
    BY <1>0, <2>3 DEF AnswerCurrent
  <2>5. \A t \in told : t[2] \in Variables /\ env'[t[2]] = env[t[2]]
    BY <1>0, <2>3 DEF ToldCurrent, EnvTypeOK
  <2>6. EnvTypeOK'
    <3>1. \A p \in Clients : answer[p] \in Seq(Values')
      <4> SUFFICES ASSUME NEW p \in Clients
                   PROVE  answer[p] \in Seq(Values')
          OBVIOUS
      <4>1. CASE answer[p] = << >> BY <4>1, EmptySeq
      <4>2. CASE answer[p] # << >>
        <5>1. asked[p] \in Variables /\ answer[p] = <<env'[asked[p]]>>
          BY <1>0, <2>4, <4>2 DEF AnswerCurrent
        <5> QED BY <5>1 DEF Values
      <4> QED BY <4>1, <4>2
    <3>2. told \subseteq Clients \X Variables \X Values'
      <4> SUFFICES ASSUME NEW t \in told
                   PROVE  t \in Clients \X Variables \X Values'
          OBVIOUS
      <4>1. t \in Clients \X Variables \X Values
        BY <1>0 DEF EnvTypeOK
      <4>2. t[3] = env'[t[2]] /\ t[2] \in Variables BY <1>0, <2>5 DEF ToldCurrent
      <4> QED BY <4>1, <4>2 DEF Values
    <3>3. answer \in [Clients -> Seq(Values')]
      BY <1>0, <3>1 DEF EnvTypeOK
    <3> QED BY <1>0, <2>1, <2>3, <3>2, <3>3, InboxShrinks DEF EnvTypeOK
  <2>7. OneGet' BY <1>0, <1>h, <2>1 DEF OneGet
  <2>8. AnswerCurrent' BY <1>0, <2>1, <2>4 DEF AnswerCurrent
  <2>9. ToldCurrent' BY <1>0, <2>1, <2>5 DEF ToldCurrent
  <2> QED BY <2>6, <2>7, <2>8, <2>9
<1>4. CASE GetVariable
  <2> DEFINE p == inbox[1][2]
             v == inbox[1][1][2]
  <2>1. /\ inbox # << >> /\ inbox' = Tail(inbox)
        /\ IsGet(1) /\ Len(inbox[1][1]) > 1 /\ env[v] # Unset
        /\ \/ answer' = [answer EXCEPT ![p] = Append(@, env[v])]
           \/ answer' = answer
        /\ UNCHANGED <<pc, env, asked, told>>
    <3>1. inbox # << >> BY <1>4 DEF GetVariable, Recvfrom
    <3>2. Head(inbox) = inbox[1] BY <1>0, <3>1, InboxShrinks
    <3> QED BY <1>4, <3>1, <3>2 DEF GetVariable, Recvfrom, Query, IsGet, processes
  <2>2. p \in Clients /\ 1 \in DOMAIN inbox BY <1>0, <2>1, InboxShrinks
  <2>3. /\ pc[p] = "receive" /\ answer[p] = << >> /\ asked[p] = v /\ v \in Variables
        /\ \A n \in DOMAIN inbox : n # 1 /\ IsGet(n) => inbox[n][2] # p
    BY <1>0, <2>1, <2>2 DEF OneGet
  <2>4. Append(<< >>, env[v]) = <<env[v]>> OBVIOUS
  <2> HIDE DEF p, v
  <2>5. \A c \in Clients : answer'[c] = answer[c] \/ (c = p /\ answer'[c] = <<env[v]>>)
    <3>1. DOMAIN answer = Clients BY <1>0 DEF EnvTypeOK
    <3> QED BY <2>1, <2>2, <2>3, <2>4, <3>1
  <2>6. EnvTypeOK'
    <3>0. Values' = Values BY <2>1 DEF Values
    <3>1. <<env[v]>> \in Seq(Values) BY <2>3 DEF Values
    <3>2. \A c \in Clients : answer'[c] \in Seq(Values)
      BY <1>0, <2>5, <3>1 DEF EnvTypeOK
    <3>3. DOMAIN answer' = Clients BY <1>0, <2>1 DEF EnvTypeOK
    <3>4. answer' \in [Clients -> Seq(Values)]
      BY <1>0, <2>1, <2>2, <3>2, <3>3 DEF EnvTypeOK
    <3>5. inbox' \in Seq(Queries \X Clients) BY <1>0, <2>1, InboxShrinks
    <3> QED BY <1>0, <2>1, <3>0, <3>4, <3>5 DEF EnvTypeOK
  <2>7. OneGet'
    <3>1. \A n \in DOMAIN inbox : n # 1 /\ IsGet(n) => answer'[inbox[n][2]] = << >>
      <4>1. \A n \in DOMAIN inbox : inbox[n][2] \in Clients
        BY <1>0, ElementOfSeq, LenProperties DEF EnvTypeOK
      <4> QED BY <1>0, <2>3, <2>5, <4>1 DEF OneGet
    <3> QED BY <1>h, <2>1, <3>1
  <2>8. AnswerCurrent' BY <1>0, <2>1, <2>3, <2>5 DEF AnswerCurrent
  <2> QED BY <1>0, <2>1, <2>6, <2>7, <2>8 DEF ToldCurrent
<1>5. ASSUME NEW p \in Clients, Type(p)
      PROVE  (EnvTypeOK /\ OneGet /\ AnswerCurrent /\ ToldCurrent)'
  <2>1. PICK q \in Queries :
          /\ inbox' = Append(inbox, <<q, p>>) \/ inbox' = inbox
          /\ pc' = [pc EXCEPT ![p] = IF q[1] = "G" THEN "receive" ELSE "start"]
          /\ asked' = [asked EXCEPT ![p] = IF q \in {"G"} \X Variables THEN q[2] ELSE Unset]
    BY <1>5 DEF Type
  <2>2. pc[p] \in {"none", "start"} /\ UNCHANGED <<env, answer, told>> BY <1>5 DEF Type
  <2>3. /\ p \in Procs /\ pc'[p] = IF q[1] = "G" THEN "receive" ELSE "start"
        /\ asked'[p] = IF q \in {"G"} \X Variables THEN q[2] ELSE Unset
        /\ \A c \in Clients : c # p => pc'[c] = pc[c] /\ asked'[c] = asked[c]
    BY <1>0, <2>1, EnvClients DEF EnvTypeOK
  \* p has nothing under way
  <2>4. answer[p] = << >> /\ \A n \in DOMAIN inbox : IsGet(n) => inbox[n][2] # p
    BY <1>0, <2>2 DEF AnswerCurrent, OneGet
  <2>5. EnvTypeOK'
    <3>1. inbox' \in Seq(Queries \X Clients) BY <1>0, <2>1, InboxGrows DEF EnvTypeOK
    <3>2. Values' = Values BY <2>2 DEF Values
    <3>3. pc' \in [Procs -> {"fork", "none", "start", "receive", "end"}]
      BY <1>0, <2>1, <2>3 DEF EnvTypeOK
    <3>4. DOMAIN asked' = Clients BY <1>0, <2>1 DEF EnvTypeOK
    <3> QED BY <1>0, <2>2, <3>1, <3>2, <3>3, <3>4 DEF EnvTypeOK
  <2>6. OneGet'
    <3>1. \A n \in DOMAIN inbox : inbox[n][2] \in Clients
      BY <1>0, ElementOfSeq, LenProperties DEF EnvTypeOK
    <3>2. \A n \in DOMAIN inbox : IsGet(n) =>
            /\ pc'[inbox[n][2]] = "receive" /\ answer'[inbox[n][2]] = << >>
            /\ Len(inbox[n][1]) > 1 =>
                 asked'[inbox[n][2]] = inbox[n][1][2] /\ inbox[n][1][2] \in Variables
            /\ \A m \in DOMAIN inbox : IsGet(m) /\ inbox[m][2] = inbox[n][2] => m = n
      BY <1>0, <2>2, <2>3, <2>4, <3>1 DEF OneGet
    <3>3. CASE inbox' = inbox BY <3>2, <3>3 DEF OneGet, IsGet
    <3>4. CASE inbox' = Append(inbox, <<q, p>>)
      <4> DEFINE last == Len(inbox) + 1
      <4>1. /\ DOMAIN inbox = 1 .. Len(inbox) /\ Len(inbox) \in Nat
            /\ DOMAIN inbox' = 1 .. last
            /\ \A n \in DOMAIN inbox : inbox'[n] = inbox[n]
            /\ inbox'[last] = <<q, p>>
        BY <1>0, <3>4, InboxGrows
      <4>2. \A n \in DOMAIN inbox' : n \in DOMAIN inbox \/ n = last BY <4>1
      <4>3. q[1] = "G" /\ Len(q) > 1 => q \in {"G"} \X Variables /\ q[2] \in Variables
        BY QueryShape
      <4>4. /\ inbox'[last][2] = p /\ inbox'[last][1] = q BY <4>1
      <4> HIDE DEF last
      <4> SUFFICES ASSUME NEW n \in DOMAIN inbox', inbox'[n][1][1] = "G"
                   PROVE  /\ pc'[inbox'[n][2]] = "receive" /\ answer'[inbox'[n][2]] = << >>
                          /\ Len(inbox'[n][1]) > 1 =>
                               /\ asked'[inbox'[n][2]] = inbox'[n][1][2]
                               /\ inbox'[n][1][2] \in Variables
                          /\ \A m \in DOMAIN inbox' :
                               inbox'[m][1][1] = "G" /\ inbox'[m][2] = inbox'[n][2] => m = n
        BY DEF OneGet, IsGet
      <4>5. CASE n = last
        <5>1. \A m \in DOMAIN inbox' :
                inbox'[m][1][1] = "G" /\ inbox'[m][2] = p => m = last
          BY <2>4, <4>1, <4>2 DEF IsGet
        <5> QED BY <2>2, <2>3, <2>4, <4>3, <4>4, <4>5, <5>1
      <4>6. CASE n \in DOMAIN inbox
        <5>1. inbox'[n] = inbox[n] /\ IsGet(n) BY <4>1, <4>6 DEF IsGet
        <5>2. \A m \in DOMAIN inbox' :
                inbox'[m][1][1] = "G" /\ inbox'[m][2] = inbox[n][2] => m = n
          BY <2>4, <3>2, <4>1, <4>2, <4>4, <4>6, <5>1 DEF IsGet
        <5> QED BY <3>2, <4>6, <5>1, <5>2
      <4> QED BY <4>2, <4>5, <4>6
    <3> QED BY <2>1, <3>3, <3>4
  <2>7. AnswerCurrent' BY <1>0, <2>2, <2>3, <2>4 DEF AnswerCurrent
  <2> QED BY <1>0, <2>2, <2>5, <2>6, <2>7 DEF ToldCurrent
<1>6. ASSUME NEW p \in Clients, ReceiveAnswer(p)
      PROVE  (EnvTypeOK /\ OneGet /\ AnswerCurrent /\ ToldCurrent)'
  <2>1. /\ answer[p] # << >> /\ pc' = [pc EXCEPT ![p] = "start"]
        /\ told' = told \cup {<<p, asked[p], Head(answer[p])>>}
        /\ answer' = [answer EXCEPT ![p] = Tail(@)]
        /\ UNCHANGED <<env, inbox, asked>>
    BY <1>6 DEF ReceiveAnswer, Goto
  <2>2. /\ asked[p] \in Variables /\ env[asked[p]] # Unset
        /\ answer[p] = <<env[asked[p]]>>
    BY <1>0, <2>1 DEF AnswerCurrent
  <2>3. Head(answer[p]) = env[asked[p]] /\ Tail(answer[p]) = << >> BY <2>2
  <2>4. /\ p \in Procs /\ answer'[p] = << >>
        /\ \A c \in Clients : c # p => pc'[c] = pc[c] /\ answer'[c] = answer[c]
    BY <1>0, <2>1, <2>3, EnvClients DEF EnvTypeOK
  <2>5. EnvTypeOK'
    <3>0. Values' = Values BY <2>1 DEF Values
    <3>1. answer' \in [Clients -> Seq(Values)]
      <4>1. << >> \in Seq(Values) BY EmptySeq
      <4> QED BY <1>0, <2>1, <2>3, <4>1 DEF EnvTypeOK
    <3>2. told' \subseteq Clients \X Variables \X Values
      BY <1>0, <2>1, <2>2, <2>3 DEF EnvTypeOK, Values
    <3>3. pc' \in [Procs -> {"fork", "none", "start", "receive", "end"}]
      BY <1>0, <2>1 DEF EnvTypeOK
    <3> QED BY <1>0, <2>1, <3>0, <3>1, <3>2, <3>3 DEF EnvTypeOK
  <2>6. OneGet'
    <3>1. \A n \in DOMAIN inbox : inbox[n][2] \in Clients
      BY <1>0, ElementOfSeq, LenProperties DEF EnvTypeOK
    <3>2. \A n \in DOMAIN inbox : IsGet(n) => inbox[n][2] # p
      BY <1>0, <2>1 DEF OneGet
    <3> QED BY <1>0, <2>1, <2>4, <3>1, <3>2 DEF OneGet, IsGet
  <2>7. AnswerCurrent' BY <1>0, <2>1, <2>4 DEF AnswerCurrent
  <2>8. ToldCurrent' BY <1>0, <2>1, <2>2, <2>3 DEF ToldCurrent
  <2> QED BY <2>5, <2>6, <2>7, <2>8
<1>7. CASE UNCHANGED vars
  <2>1. UNCHANGED <<pc, env, inbox, answer, asked, told>>
    BY <1>7 DEF vars, processes, environment, network
  <2>2. Values' = Values BY <2>1 DEF Values
  <2> QED
    BY <1>0, <2>1, <2>2 DEF EnvTypeOK, OneGet, IsGet, AnswerCurrent, ToldCurrent
<1> QED BY <1>1, <1>2, <1>3, <1>4, <1>5, <1>6, <1>7, EnvOnly DEF EnvStep, EnvEvent

(* The table, the queries and the answers stay as EnvInv describes, for    *)
(* any set of clients, any variables and whatever of them the server has   *)
(* inherited.                                                              *)
THEOREM EnvInvariance == Spec => []EnvInv
BY EnvInitInv, EnvStepInv, PTL DEF Spec

(* Whatever the clients and their queries, the datagrams lost, what the    *)
(* buffers still hold and the variables inherited, two answers about a     *)
(* variable are the same.                                                  *)
THEOREM NothingOverwritten == Spec => []AnswersAgree
<1>1. EnvInv => AnswersAgree BY DEF EnvInv, ToldCurrent, AnswersAgree
<1> QED BY EnvInvariance, <1>1, PTL
-----------------------------------------------------------------------------
(* Signals pending, and the barrier by signals (SignalBarrier) *)

(* A set of naturals that is not empty has a least element: the library    *)
(* orders finite sets by inclusion, and 0 .. n grows with n.               *)
LEMMA LeastElement ==
  ASSUME NEW S \in SUBSET Nat, S # {}
  PROVE  \E k \in S : \A j \in S : k <= j
<1> DEFINE T == {0 .. n : n \in S}
<1>1. IsWellFoundedOn(StrictSubsetOrdering(Nat), FiniteSubsetsOf(Nat))
  BY FS_StrictSubsetOrderingWellFounded
<1>2. T \subseteq FiniteSubsetsOf(Nat) /\ T # {}
  <2>1. \A n \in S : 0 .. n \in SUBSET Nat OBVIOUS
  <2>2. \A n \in S : IsFiniteSet(0 .. n) BY FS_Interval
  <2> QED BY <2>1, <2>2 DEF FiniteSubsetsOf
<1>3. PICK x \in T : \A y \in T : ~ (<<y, x>> \in StrictSubsetOrdering(Nat))
  <2> HIDE DEF T
  <2> QED BY <1>1, <1>2, WFMin
<1>4. PICK k \in S : x = 0 .. k
  OBVIOUS
<1>5. ASSUME NEW j \in S, j < k PROVE FALSE
  <2>1. /\ 0 .. j \in SUBSET Nat /\ 0 .. k \in SUBSET Nat
        /\ 0 .. j \subseteq 0 .. k /\ k \in 0 .. k /\ k \notin 0 .. j
    BY <1>5
  <2>2. <<0 .. j, 0 .. k>> \in StrictSubsetOrdering(Nat)
    BY <2>1 DEF StrictSubsetOrdering
  <2> QED BY <1>3, <1>4, <2>2
<1> QED BY <1>5

(* What RemoveAt leaves. *)
LEMMA RemovedAt ==
  ASSUME NEW S, NEW s \in Seq(S), NEW k \in 1 .. Len(s)
  PROVE  /\ RemoveAt(s, k) \in Seq(S)
         /\ Len(RemoveAt(s, k)) = Len(s) - 1
         /\ \A n \in 1 .. Len(s) - 1 : RemoveAt(s, k)[n] = s[IF n < k THEN n ELSE n + 1]
<1> DEFINE before == SubSeq(s, 1, k - 1)
           after == SubSeq(s, k + 1, Len(s))
<1>1. Len(s) \in Nat /\ k \in Nat /\ k >= 1 /\ k <= Len(s)
  BY LenProperties
<1>2. \A n \in 1 .. Len(s) : s[n] \in S BY ElementOfSeq
<1>3. /\ before \in Seq(S) /\ Len(before) = k - 1
      /\ \A n \in 1 .. k - 1 : before[n] = s[n]
  <2>1. 1 \in Int /\ k - 1 \in Int /\ \A n \in 1 .. k - 1 : s[n] \in S BY <1>1, <1>2
  <2>2. /\ before \in Seq(S)
        /\ Len(before) = IF 1 <= k - 1 THEN (k - 1) - 1 + 1 ELSE 0
        /\ \A n \in 1 .. (k - 1) - 1 + 1 : before[n] = s[1 + n - 1]
    BY <2>1, SubSeqProperties
  <2> HIDE DEF before
  <2> QED BY <1>1, <2>2
<1>4. /\ after \in Seq(S) /\ Len(after) = Len(s) - k
      /\ \A n \in 1 .. Len(s) - k : after[n] = s[k + n]
  <2>1. k + 1 \in Int /\ Len(s) \in Int /\ \A n \in k + 1 .. Len(s) : s[n] \in S
    BY <1>1, <1>2
  <2>2. /\ after \in Seq(S)
        /\ Len(after) = IF k + 1 <= Len(s) THEN Len(s) - (k + 1) + 1 ELSE 0
        /\ \A n \in 1 .. Len(s) - (k + 1) + 1 : after[n] = s[(k + 1) + n - 1]
    BY <2>1, SubSeqProperties
  <2> HIDE DEF after
  <2> QED BY <1>1, <2>2
<1> HIDE DEF before, after
<1>5. /\ before \o after \in Seq(S)
      /\ Len(before \o after) = (k - 1) + (Len(s) - k)
      /\ \A n \in 1 .. (k - 1) + (Len(s) - k) :
           (before \o after)[n] = IF n <= k - 1 THEN before[n] ELSE after[n - (k - 1)]
  <2>1. /\ before \o after \in Seq(S)
        /\ Len(before \o after) = Len(before) + Len(after)
        /\ \A n \in 1 .. Len(before) + Len(after) : (before \o after)[n] =
             IF n <= Len(before) THEN before[n] ELSE after[n - Len(before)]
    BY <1>3, <1>4, ConcatProperties
  <2>2. Len(before) = k - 1 /\ Len(after) = Len(s) - k BY <1>3, <1>4
  <2> QED BY <2>1, <2>2
<1>6. RemoveAt(s, k) = before \o after BY DEF RemoveAt, before, after
<1>7. ASSUME NEW n \in 1 .. Len(s) - 1
      PROVE  (before \o after)[n] = s[IF n < k THEN n ELSE n + 1]
  <2>1. CASE n < k BY <1>1, <1>3, <1>5, <2>1
  <2>2. CASE ~ (n < k)
    <3>1. n - (k - 1) \in 1 .. Len(s) - k /\ k + (n - (k - 1)) = n + 1 BY <1>1, <2>2
    <3>2. (before \o after)[n] = after[n - (k - 1)]
      <4>1. n \in 1 .. (k - 1) + (Len(s) - k) /\ ~ (n <= k - 1) BY <1>1, <2>2
      <4> QED BY <1>5, <4>1
    <3>3. after[n - (k - 1)] = s[k + (n - (k - 1))] BY <1>4, <3>1
    <3> QED BY <2>2, <3>1, <3>2, <3>3
  <2> QED BY <2>1, <2>2
<1> QED BY <1>1, <1>5, <1>6, <1>7

(* The oldest signal of a number is one of that number. *)
LEMMA OldestIs ==
  ASSUME NEW S, NEW p, NEW sig, pending[p] \in Seq(S), Has(p, sig)
  PROVE  Oldest(p, sig) \in 1 .. Len(pending[p]) /\ pending[p][Oldest(p, sig)][1] = sig
<1> DEFINE I == {n \in 1 .. Len(pending[p]) : pending[p][n][1] = sig}
<1>1. DOMAIN pending[p] = 1 .. Len(pending[p]) /\ Len(pending[p]) \in Nat
  BY LenProperties
<1>2. I # {} /\ I \in SUBSET Nat BY <1>1 DEF Has
<1>3. Oldest(p, sig) = Min(I) BY <1>2 DEF Oldest, SelectInSeq
<1>4. Min(I) \in I
  <2> HIDE DEF I
  <2>1. \E k \in I : \A j \in I : k <= j BY <1>2, LeastElement
  <2> QED BY <2>1 DEF Min
<1> QED BY <1>3, <1>4

(* A signal delivered is one of those pending, and the others stay. *)
LEMMA SignalTaken ==
  ASSUME NEW S, NEW p \in Procs, NEW sig, pending \in [Procs -> Seq(S)], Has(p, sig)
  PROVE  LET q == Taken(pending, p, sig)
             o == Oldest(p, sig)
         IN  /\ q \in [Procs -> Seq(S)]
             /\ \A r \in Procs : r # p => q[r] = pending[r]
             /\ o \in 1 .. Len(pending[p]) /\ pending[p][o][1] = sig
             /\ Len(pending[p]) \in Nat \ {0} /\ Len(q[p]) = Len(pending[p]) - 1
             /\ \A n \in 1 .. Len(pending[p]) - 1 :
                  q[p][n] = pending[p][IF n < o THEN n ELSE n + 1]
<1>1. pending[p] \in Seq(S) OBVIOUS
<1>2. Oldest(p, sig) \in 1 .. Len(pending[p]) /\ pending[p][Oldest(p, sig)][1] = sig
  BY <1>1, OldestIs
<1>3. /\ RemoveAt(pending[p], Oldest(p, sig)) \in Seq(S)
      /\ Len(RemoveAt(pending[p], Oldest(p, sig))) = Len(pending[p]) - 1
      /\ \A n \in 1 .. Len(pending[p]) - 1 :
           RemoveAt(pending[p], Oldest(p, sig))[n]
             = pending[p][IF n < Oldest(p, sig) THEN n ELSE n + 1]
  BY <1>1, <1>2, RemovedAt
<1>4. Taken(pending, p, sig) = [pending EXCEPT ![p] = RemoveAt(pending[p], Oldest(p, sig))]
  BY DEF Taken
<1>5. Len(pending[p]) \in Nat BY <1>1, LenProperties
<1> QED BY <1>1, <1>2, <1>3, <1>4, <1>5

(* What a signal queued to the father adds to those it has pending. *)
LEMMA FatherTold ==
  ASSUME NEW S, NEW sig, NEW val, <<sig, val>> \in S, pending \in [Procs -> Seq(S)],
         pending' = Sigqueue(pending, Father, sig, val)
  PROVE  /\ pending' \in [Procs -> Seq(S)]
         /\ \A r \in Procs : r # Father => pending'[r] = pending[r]
         /\ pending'[Father] = pending[Father] \/ Len(pending'[Father]) = Len(pending[Father]) + 1
         /\ ~ Alive(Father) => pending'[Father] = pending[Father]
<1> DEFINE q == Sigqueue(pending, Father, sig, val)
           more == Append(pending[Father], <<sig, val>>)
<1>1. Father \in Procs BY DEF Father, Procs
<1>2. pending[Father] \in Seq(S) /\ more \in Seq(S) /\ Len(more) = Len(pending[Father]) + 1
  BY <1>1, AppendProperties
<1> HIDE DEF more
<1>3. q = IF Alive(Father) THEN [pending EXCEPT ![Father] = more] ELSE pending
  BY DEF Sigqueue, more
<1>4. pending' = q OBVIOUS
<1> HIDE DEF q
<1> QED BY <1>1, <1>2, <1>3, <1>4

(* A step of the barrier by signals is one of its actions or a fork that   *)
(* fails in the father.                                                    *)
LEMMA BarrierOnly ==
  ASSUME Next, program = "ex7"
  PROVE  BarrierStep \/ ForkNobody
BY DEF Next, Step, Event, ChainPrograms, GatherPrograms, BarrierPrograms, ThreadPrograms,
  JobPrograms, EnvPrograms, ReversePrograms, AcceptPrograms

(* The invariant of the barrier by signals holds before the father forks.  *)
LEMMA BarrierInitInv == Init => BarrierInv
<1> SUFFICES ASSUME Init, program = "ex7"
             PROVE  /\ BarrierTypeOK /\ ArrivalsCounted /\ ReleasedLate
                    /\ Arrivals /\ WaitCounted
    BY DEF BarrierInv
<1>1. /\ pc = [p \in Procs |-> IF p = Father THEN "fork" ELSE "none"]
      /\ pending = [p \in Procs |-> << >>] /\ reaped = {}
      /\ somme = 0 /\ i = 0 /\ arrived = {} /\ passed = {}
  BY DEF Init, ProcessesInit, BarrierInit
<1>2. Father \in Procs /\ Sons \subseteq Procs /\ Father \notin Sons
  BY DEF Procs, Sons, Father
<1>3. /\ pc[Father] = "fork" /\ pending[Father] = << >>
      /\ \A p \in Sons : pc[p] = "none" /\ pending[p] = << >>
  BY <1>1, <1>2
<1>4. BarrierTypeOK
  <2>1. << >> \in Seq({"RTMIN", "RTMAX"} \X {1}) BY EmptySeq
  <2>2. pending \in [Procs -> Seq({"RTMIN", "RTMAX"} \X {1})] BY <1>1, <2>1
  <2> QED BY <1>1, <1>3, <2>2 DEF BarrierTypeOK
<1>5. Len(pending[Father]) = 0 /\ Cardinality(arrived) = 0
  BY <1>1, <1>3, EmptySeq, FS_EmptySet
<1>6. ArrivalsCounted
  <2>1. TakenBySigwait = 0 /\ somme = 0 BY <1>1, <1>3 DEF TakenBySigwait
  <2> QED BY <1>5, <2>1 DEF ArrivalsCounted
<1> QED BY <1>1, <1>3, <1>4, <1>6 DEF ReleasedLate, Arrivals, WaitCounted

(* Every step preserves it: each arrival is counted once, by the handler   *)
(* or by sigwait.                                                          *)
LEMMA BarrierStepInv ==
  ASSUME BarrierInv, [Next]_vars
  PROVE  BarrierInv'
<1> DEFINE Good == /\ BarrierTypeOK /\ ArrivalsCounted /\ ReleasedLate
                   /\ Arrivals /\ WaitCounted
<1> SUFFICES ASSUME program = "ex7" PROVE Good'
    BY ProgramKept DEF BarrierInv
<1>0. /\ BarrierTypeOK /\ ArrivalsCounted /\ ReleasedLate /\ Arrivals /\ WaitCounted
  BY DEF BarrierInv
<1>p. /\ Father \in Procs /\ Sons \subseteq Procs /\ Father \notin Sons
      /\ Forked = Sons /\ Recorded \subseteq Sons /\ N \in Nat /\ N >= 2
      /\ \A p \in Procs : p = Father \/ p \in Sons
  BY NAssumption DEF Procs, Sons, Father, Forked, Recorded
<1>f. IsFiniteSet(arrived) /\ Cardinality(arrived) \in Nat
  <2>1. IsFiniteSet(Sons) BY <1>p, FS_Interval DEF Sons
  <2> QED BY <1>0, <2>1, FS_Subset, FS_CardinalityType DEF BarrierTypeOK
<1>n. Len(pending[Father]) \in Nat BY <1>0, <1>p, LenProperties DEF BarrierTypeOK
<1>a. /\ somme \in Nat /\ i \in Nat /\ TakenBySigwait \in {0, 1}
      /\ somme + Len(pending[Father]) + TakenBySigwait <= Cardinality(arrived)
  BY <1>0 DEF BarrierTypeOK, ArrivalsCounted, TakenBySigwait
<1>1. CASE \/ (Fork \/ EndFork("open")) /\ UNCHANGED <<somme, i, arrived, passed>>
           \/ ForkNobody \/ EnterSigwait
  <2>1. /\ UNCHANGED <<pending, reaped, somme, i, arrived, passed>>
        /\ \/ \E p \in Sons, to \in {"start", "never"} :
                pc[p] = "none" /\ pc' = [pc EXCEPT ![p] = to]
           \/ pc[Father] = "fork" /\ pc' = [pc EXCEPT ![Father] = "open"]
           \/ pc[Father] = "open" /\ pc' = [pc EXCEPT ![Father] = "sigwait"]
    <3>1. CASE Fork /\ UNCHANGED <<somme, i, arrived, passed>>
      <4>1. PICK p \in Forked : pc[p] = "none" /\ pc' = [pc EXCEPT ![p] = "start"]
        BY <3>1 DEF Fork
      <4>2. UNCHANGED <<pending, reaped, somme, i, arrived, passed>> BY <3>1 DEF Fork
      <4> QED BY <1>p, <4>1, <4>2
    <3>2. CASE ForkNobody
      <4>1. PICK p \in Forked : pc[p] = "none" /\ pc' = [pc EXCEPT ![p] = "never"]
        BY <3>2 DEF ForkNobody
      <4> QED BY <1>p, <3>2, <4>1 DEF ForkNobody
    <3>3. CASE (EndFork("open") /\ UNCHANGED <<somme, i, arrived, passed>>) \/ EnterSigwait
      BY <3>3 DEF EndFork, EnterSigwait, Goto
    <3> QED BY <1>1, <3>1, <3>2, <3>3
  <2>2. BarrierTypeOK' BY <1>0, <1>p, <2>1 DEF BarrierTypeOK
  <2>3. /\ pc'[Father] = "wait" <=> pc[Father] = "wait"
        /\ pc'[Father] = "end" <=> pc[Father] = "end"
        /\ pc'[Father] \in {"fork", "open", "sigwait"} => pc[Father] \in {"fork", "open", "sigwait"}
        /\ \A p \in Sons : /\ pc[p] \in {"barrier", "end"} => pc'[p] = pc[p]
                           /\ pc'[p] = "end" => pc[p] = "end"
    BY <1>0, <1>p, <2>1 DEF BarrierTypeOK
  <2>4. ArrivalsCounted' BY <1>0, <2>1, <2>3 DEF ArrivalsCounted, TakenBySigwait
  <2>5. ReleasedLate' BY <1>0, <2>1 DEF ReleasedLate
  <2>6. Arrivals' BY <1>0, <2>1, <2>3 DEF Arrivals, BarrierTypeOK
  <2>7. WaitCounted' BY <1>0, <2>1, <2>3 DEF WaitCounted
  <2> QED BY <2>2, <2>4, <2>5, <2>6, <2>7
<1>2. CASE CountArrival
  <2> DEFINE rest == Taken(pending, Father, "RTMIN")
             after == IF Released THEN N ELSE i
  <2>1. /\ pc[Father] \in {"open", "wait"} /\ Has(Father, "RTMIN") /\ somme' = somme + 1
        /\ pending' = [p \in Procs |-> IF Released /\ p \in Reached /\ Alive(p)
                                       THEN Append(rest[p], <<"RTMAX", 1>>) ELSE rest[p]]
        /\ i' \in IF pc[Father] = "wait" THEN {after, after + 1} ELSE {after}
        /\ \/ pc' = pc
           \/ Released /\ pc' = [pc EXCEPT ![Father] = "end"]
        /\ UNCHANGED <<reaped, arrived, passed>>
    BY <1>2 DEF CountArrival
  <2>2. /\ rest \in [Procs -> Seq({"RTMIN", "RTMAX"} \X {1})]
        /\ \A p \in Sons : rest[p] = pending[p]
        /\ Len(pending[Father]) \in Nat \ {0} /\ Len(rest[Father]) = Len(pending[Father]) - 1
    BY <1>0, <1>p, <2>1, SignalTaken DEF BarrierTypeOK
  <2> HIDE DEF rest
  <2>3. pending' \in [Procs -> Seq({"RTMIN", "RTMAX"} \X {1})]
    <3>1. \A p \in Procs : Append(rest[p], <<"RTMAX", 1>>) \in Seq({"RTMIN", "RTMAX"} \X {1})
      <4>1. <<"RTMAX", 1>> \in {"RTMIN", "RTMAX"} \X {1} OBVIOUS
      <4> QED BY <2>2, <4>1, AppendProperties
    <3> QED BY <2>1, <2>2, <3>1
  <2>4. pending'[Father] = rest[Father]
    <3>1. Father \notin Reached BY <1>p DEF Reached
    <3> QED BY <1>p, <2>1, <3>1
  <2>5. /\ \A p \in Sons : pc'[p] = pc[p]
        /\ pc'[Father] = pc[Father] \/ (pc'[Father] = "end" /\ Released)
    BY <1>0, <1>p, <2>1 DEF BarrierTypeOK
  <2>6. somme + 1 + (Len(pending[Father]) - 1) + TakenBySigwait <= Cardinality(arrived)
    <3>1. Len(pending[Father]) \in Nat \ {0} BY <2>2
    <3>2. TakenBySigwait \in Int BY <1>a
    <3> DEFINE l == Len(pending[Father])
               t == TakenBySigwait
               c == Cardinality(arrived)
    <3>4. c \in Int /\ somme \in Int /\ l \in Int /\ t \in Int BY <1>a, <1>f, <3>1, <3>2
    <3>5. somme + l + t <= c BY <1>a
    <3> HIDE DEF l, t, c
    <3>6. somme + 1 + (l - 1) + t <= c BY <3>4, <3>5
    <3> QED BY <3>6 DEF l, t, c
  <2>7. BarrierTypeOK'
    <3>1. i' \in Nat
      <4>1. after \in Nat BY <1>a, <1>p
      <4> QED BY <2>1, <4>1
    <3>2. somme' \in Nat BY <1>a, <2>1
    <3>3. pc' \in [Procs -> {"fork", "none", "never", "start", "barrier", "open", "sigwait",
                            "wait", "end"}]
      BY <1>0, <2>1 DEF BarrierTypeOK
    <3>4. UNCHANGED <<reaped, arrived, passed>> BY <2>1
    <3> QED BY <1>0, <2>3, <2>5, <3>1, <3>2, <3>3, <3>4 DEF BarrierTypeOK
  <2>8. ArrivalsCounted'
    <3>1. TakenBySigwait' \in {0, TakenBySigwait} BY <2>5 DEF TakenBySigwait
    <3>2. /\ somme' = somme + 1 /\ arrived' = arrived
          /\ Len(pending'[Father]) = Len(pending[Father]) - 1
      BY <2>1, <2>2, <2>4
    <3>3. somme' + Len(pending'[Father]) + TakenBySigwait <= Cardinality(arrived)
      BY <2>6, <3>2
    <3>4. Len(pending'[Father]) \in Nat BY <2>2, <3>2
    <3>5. somme' \in Nat /\ TakenBySigwait \in Nat BY <1>a, <3>2
    <3> QED BY <1>f, <3>1, <3>2, <3>3, <3>4, <3>5 DEF ArrivalsCounted
  <2>9. Released <=> somme' >= N BY <2>1 DEF Released
  <2>10. ReleasedLate'
    <3>1. ASSUME NEW p \in Sons, pending'[p] # << >>, ~ Released PROVE pending[p] # << >>
      BY <1>p, <2>1, <2>2, <3>1
    <3>2. somme' = somme + 1 /\ passed' = passed BY <2>1
    <3>3. somme >= N => somme' >= N BY <1>a, <1>p, <3>2
    <3> QED BY <1>0, <2>9, <3>1, <3>2, <3>3 DEF ReleasedLate
  <2>11. Arrivals' BY <1>0, <1>p, <2>1, <2>5 DEF Arrivals, BarrierTypeOK
  <2>12. WaitCounted'
    <3>1. Released => Cardinality(arrived) >= N
      <4>1. somme' = somme + 1 BY <2>1
      <4> QED BY <1>a, <1>f, <1>p, <2>2, <2>6, <2>9, <4>1
    <3>2. pc[Father] = "wait" => i' <= somme' \/ somme' >= N
      <4>1. CASE Released BY <2>9, <4>1
      <4>2. ASSUME ~ Released, pc[Father] = "wait" PROVE i' <= somme' \/ somme' >= N
        <5>1. i' \in {i, i + 1} /\ somme' = somme + 1 BY <2>1, <4>2
        <5>2. i <= somme \/ somme >= N BY <1>0, <4>2 DEF WaitCounted
        <5> QED BY <1>a, <1>p, <5>1, <5>2
      <4> QED BY <4>1, <4>2
    <3> QED BY <1>0, <2>1, <2>5, <3>1, <3>2 DEF WaitCounted
  <2> QED BY <2>7, <2>8, <2>10, <2>11, <2>12
<1>3. CASE TakeOne
  <2>1. /\ Has(Father, "RTMIN") /\ pending' = Taken(pending, Father, "RTMIN")
        /\ pc[Father] = "sigwait" /\ pc' = [pc EXCEPT ![Father] = "wait"] /\ i' = 0
        /\ UNCHANGED <<reaped, somme, arrived, passed>>
    BY <1>3 DEF TakeOne, Goto
  <2>2. /\ pending' \in [Procs -> Seq({"RTMIN", "RTMAX"} \X {1})]
        /\ \A p \in Sons : pending'[p] = pending[p]
        /\ Len(pending[Father]) \in Nat \ {0} /\ Len(pending'[Father]) = Len(pending[Father]) - 1
    BY <1>0, <1>p, <2>1, SignalTaken DEF BarrierTypeOK
  <2>3. pc'[Father] = "wait" /\ \A p \in Sons : pc'[p] = pc[p]
    BY <1>0, <1>p, <2>1 DEF BarrierTypeOK
  <2>4. BarrierTypeOK' BY <1>0, <1>p, <2>1, <2>2, <2>3 DEF BarrierTypeOK
  <2>5. ArrivalsCounted' /\ Cardinality(arrived) # 0
    <3>1. TakenBySigwait = 0 /\ TakenBySigwait' = 1 BY <2>1, <2>3 DEF TakenBySigwait
    <3>2. somme' = somme /\ arrived' = arrived BY <2>1
    <3>3. somme' + Len(pending'[Father]) + TakenBySigwait' <= Cardinality(arrived)
      BY <1>a, <1>f, <2>2, <3>1, <3>2
    <3> QED BY <1>a, <1>f, <2>2, <3>1, <3>2, <3>3 DEF ArrivalsCounted
  <2>6. arrived # {} BY <2>5, FS_EmptySet
  <2>7. ReleasedLate' BY <1>0, <2>1, <2>2 DEF ReleasedLate
  <2>8. Arrivals' BY <1>0, <2>1, <2>3, <2>6 DEF Arrivals, BarrierTypeOK, WaitCounted
  <2>9. WaitCounted' BY <1>0, <2>1, <2>3 DEF WaitCounted, BarrierTypeOK
  <2> QED BY <2>4, <2>5, <2>7, <2>8, <2>9
<1>4. CASE WaitOne
  <2>1. /\ pc[Father] = "wait" /\ i < N /\ i' = i + 1
        /\ UNCHANGED <<pc, pending, somme, arrived, passed>>
        /\ \/ \E p \in Sons : pc[p] = "end" /\ reaped' = reaped \cup {p}
           \/ (\A p \in Sons \ reaped : pc[p] = "never") /\ reaped' = reaped
    BY <1>4, <1>p DEF WaitOne, Reap
  \* a son that has ended was released, and one that has arrived was forked
  <2>2. somme >= N
    <3>1. CASE \E p \in Sons : pc[p] = "end" /\ reaped' = reaped \cup {p}
      BY <1>0, <2>1, <3>1 DEF Arrivals, ReleasedLate
    <3>2. CASE (\A p \in Sons \ reaped : pc[p] = "never") /\ reaped' = reaped
      <4>1. PICK p \in arrived : TRUE BY <1>0, <2>1 DEF Arrivals
      <4>2. p \in reaped BY <1>0, <3>2, <4>1 DEF Arrivals, BarrierTypeOK
      <4> QED BY <1>0, <2>1, <4>2 DEF Arrivals
    <3> QED BY <2>1, <3>1, <3>2
  <2>3. BarrierTypeOK' BY <1>0, <2>1 DEF BarrierTypeOK
  <2>4. ArrivalsCounted' BY <1>0, <2>1 DEF ArrivalsCounted, TakenBySigwait
  <2>5. ReleasedLate' BY <1>0, <2>1 DEF ReleasedLate
  <2>6. Arrivals' BY <1>0, <2>1, <2>2 DEF Arrivals
  <2>7. WaitCounted' BY <2>1, <2>2 DEF WaitCounted
  <2> QED BY <2>3, <2>4, <2>5, <2>6, <2>7
<1>5. CASE FinishBarrier
  <2>1. /\ i >= N /\ pc[Father] = "wait" /\ pc' = [pc EXCEPT ![Father] = "end"]
        /\ UNCHANGED <<pending, reaped, somme, i, arrived, passed>>
    BY <1>5 DEF FinishBarrier, Goto
  <2>2. pc'[Father] = "end" /\ \A p \in Sons : pc'[p] = pc[p]
    BY <1>0, <1>p, <2>1 DEF BarrierTypeOK
  <2>3. Cardinality(arrived) >= N
    <3>1. somme >= N
      <4>1. i >= N /\ (i <= somme \/ somme >= N) BY <1>0, <2>1 DEF WaitCounted
      <4> QED BY <1>a, <1>p, <4>1
    <3> QED BY <1>a, <1>f, <1>n, <1>p, <3>1
  <2>4. BarrierTypeOK' BY <1>0, <1>p, <2>1, <2>2 DEF BarrierTypeOK
  <2>5. ArrivalsCounted'
    <3>1. TakenBySigwait' = 0 BY <2>2 DEF TakenBySigwait
    <3>2. /\ somme' = somme /\ arrived' = arrived
          /\ Len(pending'[Father]) = Len(pending[Father])
      BY <2>1
    <3> QED BY <1>a, <1>f, <1>n, <3>1, <3>2 DEF ArrivalsCounted
  <2>6. ReleasedLate' BY <1>0, <2>1 DEF ReleasedLate
  <2>7. Arrivals' BY <1>0, <2>1, <2>2 DEF Arrivals, BarrierTypeOK
  <2>8. WaitCounted' BY <2>1, <2>2, <2>3 DEF WaitCounted
  <2> QED BY <2>4, <2>5, <2>6, <2>7, <2>8
<1>6. ASSUME NEW p \in Sons, ArriveBarrier(p) PROVE Good'
  <2>1. /\ pc[p] = "start" /\ UNCHANGED <<reaped, somme, i, passed>>
        /\ pending' = Sigqueue(pending, Father, "RTMIN", 1)
        /\ \/ pc' = [pc EXCEPT ![p] = "barrier"] /\ arrived' = arrived \cup {p}
           \/ pc[Father] = "end" /\ pc' = [pc EXCEPT ![p] = "end"] /\ arrived' = arrived
    BY <1>0, <1>6 DEF ArriveBarrier, Goto, Alive, BarrierTypeOK
  <2>2. /\ pending' \in [Procs -> Seq({"RTMIN", "RTMAX"} \X {1})]
        /\ \A q \in Sons : pending'[q] = pending[q]
        /\ pending'[Father] = pending[Father] \/ Len(pending'[Father]) = Len(pending[Father]) + 1
        /\ pc[Father] = "end" => pending'[Father] = pending[Father]
    <3>1. <<"RTMIN", 1>> \in {"RTMIN", "RTMAX"} \X {1} OBVIOUS
    <3>3. pending \in [Procs -> Seq({"RTMIN", "RTMAX"} \X {1})] BY <1>0 DEF BarrierTypeOK
    <3>4. pending' = Sigqueue(pending, Father, "RTMIN", 1) BY <2>1
    <3>5. /\ pending' \in [Procs -> Seq({"RTMIN", "RTMAX"} \X {1})]
          /\ \A r \in Procs : r # Father => pending'[r] = pending[r]
          /\ pending'[Father] = pending[Father] \/ Len(pending'[Father]) = Len(pending[Father]) + 1
          /\ ~ Alive(Father) => pending'[Father] = pending[Father]
      BY <3>1, <3>3, <3>4, FatherTold
    <3> QED BY <1>p, <3>5 DEF Alive
  <2>3. /\ pc'[Father] = pc[Father] /\ \A q \in Sons \ {p} : pc'[q] = pc[q]
        /\ pc'[p] \in {"barrier", "end"}
        /\ arrived' = arrived \/ (arrived' = arrived \cup {p} /\ pc'[p] = "barrier")
        /\ pc[Father] # "end" => arrived' = arrived \cup {p} /\ pc'[p] = "barrier"
    BY <1>0, <1>p, <2>1 DEF BarrierTypeOK
  <2> DEFINE more == arrived \cup {p}
  <2>4. Cardinality(more) = Cardinality(arrived) + 1
    BY <1>0, <1>f, <2>1, FS_AddElement DEF Arrivals
  <2>c. /\ Cardinality(arrived') \in {Cardinality(arrived), Cardinality(arrived) + 1}
        /\ pc[Father] # "end" => Cardinality(arrived') = Cardinality(arrived) + 1
    <3>1. arrived' \in {arrived, more} /\ (pc[Father] # "end" => arrived' = more) BY <2>3
    <3> HIDE DEF more
    <3> QED BY <2>4, <3>1
  <2>5. BarrierTypeOK'
    <3>1. pc' \in [Procs -> {"fork", "none", "never", "start", "barrier", "open", "sigwait",
                            "wait", "end"}]
      BY <1>0, <2>1 DEF BarrierTypeOK
    <3> QED BY <1>0, <2>1, <2>2, <2>3, <3>1 DEF BarrierTypeOK
  <2>6. ArrivalsCounted'
    <3>1. TakenBySigwait' = TakenBySigwait BY <2>3 DEF TakenBySigwait
    <3>2. somme' = somme BY <2>1
    <3>3. \/ /\ Cardinality(arrived') = Cardinality(arrived) + 1
             /\ Len(pending'[Father]) \in {Len(pending[Father]), Len(pending[Father]) + 1}
          \/ /\ Cardinality(arrived') >= Cardinality(arrived)
             /\ Len(pending'[Father]) = Len(pending[Father])
      <4>1. CASE pc[Father] = "end"
        <5>1. Cardinality(arrived') >= Cardinality(arrived) BY <1>f, <2>c
        <5> QED BY <2>2, <4>1, <5>1
      <4>2. CASE pc[Father] # "end" BY <2>2, <2>c, <4>2
      <4> QED BY <4>1, <4>2
    <3>4. Cardinality(arrived') \in Nat BY <1>f, <2>c
    <3> QED BY <1>a, <1>f, <1>n, <3>1, <3>2, <3>3, <3>4 DEF ArrivalsCounted
  <2>7. ReleasedLate' BY <1>0, <2>1, <2>2 DEF ReleasedLate
  <2>8. Arrivals' BY <1>0, <1>p, <2>1, <2>3 DEF Arrivals, BarrierTypeOK
  <2>9. WaitCounted'
    <3>1. Cardinality(arrived) >= N => Cardinality(arrived') >= N
      BY <1>f, <1>p, <2>c
    <3> QED BY <1>0, <2>1, <2>3, <3>1 DEF WaitCounted
  <2> QED BY <2>5, <2>6, <2>7, <2>8, <2>9
<1>7. ASSUME NEW p \in Sons, PassBarrier(p) PROVE Good'
  <2>1. /\ Has(p, "RTMAX") /\ pc[p] = "barrier" /\ pc' = [pc EXCEPT ![p] = "end"]
        /\ passed' = passed \cup {p}
        /\ UNCHANGED <<pending, reaped, somme, i, arrived>>
    BY <1>7 DEF PassBarrier, Goto
  <2>2. /\ pc'[Father] = pc[Father] /\ \A q \in Sons \ {p} : pc'[q] = pc[q]
        /\ pc'[p] = "end"
    BY <1>0, <1>p, <2>1 DEF BarrierTypeOK
  <2>3. somme >= N
    <3>1. pending[p] # << >> BY <2>1 DEF Has
    <3> QED BY <1>0, <3>1 DEF ReleasedLate
  <2>4. BarrierTypeOK' BY <1>0, <1>p, <2>1, <2>2 DEF BarrierTypeOK
  <2>5. ArrivalsCounted' BY <1>0, <2>1, <2>2 DEF ArrivalsCounted, TakenBySigwait
  <2>6. ReleasedLate' BY <2>1, <2>3 DEF ReleasedLate
  <2>7. Arrivals' BY <1>0, <2>1, <2>2 DEF Arrivals, BarrierTypeOK
  <2>8. WaitCounted' BY <1>0, <2>1, <2>2 DEF WaitCounted
  <2> QED BY <2>4, <2>5, <2>6, <2>7, <2>8
<1>8. CASE UNCHANGED vars
  <2>1. UNCHANGED <<pc, pending, reaped, somme, i, arrived, passed>>
    BY <1>8 DEF vars, processes, barrier
  <2> QED
    BY <1>0, <2>1 DEF BarrierTypeOK, ArrivalsCounted, TakenBySigwait, ReleasedLate,
      Arrivals, WaitCounted
<1> QED
  BY <1>1, <1>2, <1>3, <1>4, <1>5, <1>6, <1>7, <1>8, <1>p, BarrierOnly DEF BarrierStep

(* Arrivals are counted as BarrierInv describes, for any number of sons.   *)
THEOREM BarrierInvariance == Spec => []BarrierInv
BY BarrierInitInv, BarrierStepInv, PTL DEF Spec

(* No son passes the barrier of ex7 and the father does not end before NB  *)
(* sons have arrived, for any NB, whatever forks fail and whatever sigwait *)
(* takes from the handler or the handler interrupts.                       *)
THEOREM NobodyPassesEarly == Spec => []BarrierHolds
<1>1. BarrierInv => BarrierHolds
  <2> SUFFICES ASSUME BarrierInv, program = "ex7", passed # {} \/ pc[Father] = "end"
               PROVE  Cardinality(arrived) >= N
    BY DEF BarrierHolds
  <2>0. BarrierTypeOK /\ ArrivalsCounted /\ ReleasedLate /\ WaitCounted BY DEF BarrierInv
  <2>1. CASE passed # {}
    <3>1. somme >= N BY <2>0, <2>1 DEF ReleasedLate, BarrierTypeOK
    <3>2. Father \in Procs BY DEF Procs
    <3>3. Len(pending[Father]) \in Nat BY <2>0, <3>2, LenProperties DEF BarrierTypeOK
    <3>4. Cardinality(arrived) \in Nat
      <4>1. IsFiniteSet(Sons) BY NAssumption, FS_Interval DEF Sons
      <4> QED BY <2>0, <4>1, FS_Subset, FS_CardinalityType DEF BarrierTypeOK
    <3>5. TakenBySigwait \in {0, 1} BY DEF TakenBySigwait
    <3> QED BY <2>0, <3>1, <3>3, <3>4, <3>5, NAssumption DEF ArrivalsCounted, BarrierTypeOK
  <2>2. CASE pc[Father] = "end" BY <2>0, <2>2 DEF WaitCounted
  <2> QED BY <2>1, <2>2
<1> QED BY BarrierInvariance, <1>1, PTL
-----------------------------------------------------------------------------
(* The chain of threads (ThreadChain) *)

(* A step of the chain of threads is one of its actions or an event.       *)
LEMMA ChaineOnly ==
  ASSUME Next, program = "chaine"
  PROVE  ThreadStep \/ ThreadEvent
BY DEF Next, Step, Event, ChainPrograms, GatherPrograms, BarrierPrograms, ThreadPrograms,
  JobPrograms, EnvPrograms, ReversePrograms, AcceptPrograms

(* The threads of the chain, the one each creates and the last one.        *)
LEMMA ThreadNames ==
  /\ N \in Nat /\ N >= 2 /\ Father = -1 /\ LastThread = N - 1 /\ Nobody = N
  /\ Father \in Procs /\ LastThread \in Procs /\ LastThread \notin 0 .. N - 2
  /\ Father \notin 0 .. N - 2 /\ LastThread # Father /\ LastThread # Nobody /\ Father # Nobody
  /\ 0 \in 0 .. N - 2 /\ 0 \in Procs
  /\ \A p \in 0 .. N - 2 : p \in Procs /\ p + 1 \in Procs /\ p + 1 # Father /\ p + 1 # p
  /\ \A p \in 0 .. N - 2 : p + 1 \in 0 .. N - 2 \/ p + 1 = LastThread
  /\ \A p, r \in 0 .. N - 2 : p + 1 = r + 1 => p = r
BY NAssumption DEF Father, LastThread, Nobody, Procs, Sons

(* The invariant of the chain holds before main creates the first thread.  *)
LEMMA ChainInitInv == Init => ChainInv
<1> SUFFICES ASSUME Init
             PROVE  ChainTypeOK /\ CreatedInOrder /\ LibereHeld /\ MainBehind /\ ~ unheard
    BY DEF ChainInv
<1>1. /\ pc = [p \in Procs |-> IF p = Father THEN "fork" ELSE "none"]
      /\ unheard = FALSE
  BY DEF Init, ProcessesInit, ThreadInit
<1>2. /\ pc[Father] = "fork" /\ pc[LastThread] = "none" /\ pc[0] = "none"
      /\ \A p \in 0 .. N - 2 : pc[p] = "none" /\ pc[p + 1] = "none"
  BY <1>1, ThreadNames
<1> QED
  BY <1>1, <1>2 DEF ChainTypeOK, CreatedInOrder, LibereHeld, MainBehind, MainStates, LastStates

(* Every step of a thread, wakeup and Ctrl-C preserves it.                 *)
LEMMA ChainStepInv ==
  ASSUME ChainInv, [Next]_vars
  PROVE  ChainInv'
<1> DEFINE Good == ChainTypeOK /\ CreatedInOrder /\ LibereHeld /\ MainBehind /\ ~ unheard
<1> SUFFICES ASSUME program = "chaine", ~ spurious', ~ failed'
             PROVE  Good' \/ (AllDead /\ ~ unheard)'
    BY ProgramKept DEF ChainInv
<1> USE ThreadNames
<1>k. ~ spurious /\ ~ failed
  <2>1. CASE UNCHANGED vars BY <2>1 DEF vars, threads, processes
  <2>2. CASE ThreadStep \/ ThreadEvent
    BY <2>2 DEF ThreadStep, ThreadEvent, CreateThread, JoinNext, LockLibere, SignalDernier,
      WaitLibere, EndLast, WakeSpuriously, WaitDernier, Unblock, Pause, HandleSigint,
      SecondSigint, SignalLibere, JoinFirst, PressCtrlC
  <2> QED BY <2>1, <2>2, ChaineOnly
\* dead threads take no step
<1>d. ASSUME AllDead PROVE (AllDead /\ ~ unheard)'
  <2>1. \A p \in Procs : pc[p] \in {"none", "killed"} BY <1>d DEF AllDead
  <2>2. UNCHANGED <<pc, unheard>>
    <3>1. CASE UNCHANGED vars BY <3>1 DEF vars, threads, processes
    <3>2. CASE ThreadStep
      BY <2>1, <3>2 DEF ThreadStep, CreateThread, JoinNext, LockLibere, SignalDernier,
        WaitLibere, EndLast, WaitDernier, Unblock, Pause, HandleSigint, SecondSigint,
        Unblocked, SignalLibere, JoinFirst, Goto
    <3>3. CASE ThreadEvent
      BY <2>1, <3>3 DEF ThreadEvent, WakeSpuriously, PressCtrlC, Alive, Goto
    <3> QED BY <3>1, <3>2, <3>3, ChaineOnly
  <2> QED BY <1>k, <1>d, <2>2 DEF AllDead, ChainInv
<1> SUFFICES ASSUME ~ AllDead PROVE Good' \/ (AllDead /\ ~ unheard)'
    BY <1>d
<1>0. ChainTypeOK /\ CreatedInOrder /\ LibereHeld /\ MainBehind /\ ~ unheard
  BY <1>k DEF ChainInv
<1>1. ASSUME CreateThread(0, Father, "fork", "lock") PROVE Good'
  <2>1. /\ pc[Father] = "fork" /\ pc' = [pc EXCEPT ![Father] = "lock", ![0] = "start"]
        /\ UNCHANGED <<mutex_libere, unheard>>
    BY <1>1 DEF CreateThread
  <2>2. /\ pc'[Father] = "lock" /\ pc'[0] = "start" /\ DOMAIN pc' = Procs
        /\ \A p \in Procs : p # Father /\ p # 0 => pc'[p] = pc[p]
    BY <1>0, <2>1 DEF ChainTypeOK
  <2>3. pc[0] = "none" BY <1>0, <2>1 DEF CreatedInOrder
  <2> QED
    BY <1>0, <2>1, <2>2, <2>3 DEF ChainTypeOK, CreatedInOrder, LibereHeld, MainBehind,
      MainStates, LastStates
<1>2. ASSUME NEW p \in 0 .. N - 2, CreateThread(p + 1, p, "start", "join") PROVE Good'
  <2>1. /\ pc[p] = "start" /\ pc' = [pc EXCEPT ![p] = "join", ![p + 1] = "start"]
        /\ UNCHANGED <<mutex_libere, unheard>>
    BY <1>2 DEF CreateThread
  <2>2. /\ pc'[p] = "join" /\ pc'[p + 1] = "start" /\ DOMAIN pc' = Procs
        /\ \A r \in Procs : r # p /\ r # p + 1 => pc'[r] = pc[r]
    BY <1>0, <2>1 DEF ChainTypeOK
  <2>3. pc[p + 1] = "none" BY <1>0, <2>1 DEF CreatedInOrder
  <2>4. p # Father /\ p # LastThread OBVIOUS
  <2>5. ChainTypeOK' BY <1>0, <2>2, <2>4 DEF ChainTypeOK, MainStates, LastStates
  <2>6. CreatedInOrder'
    <3>1. pc'[Father] = pc[Father] BY <2>2, <2>4
    <3>2. ASSUME pc'[Father] = "fork" PROVE pc'[0] = "none"
      <4>1. pc[0] = "none" BY <1>0, <3>1, <3>2 DEF CreatedInOrder
      <4>2. 0 # p BY <2>1, <4>1
      <4> QED BY <2>2, <4>1, <4>2
    <3>3. ASSUME NEW r \in 0 .. N - 2, pc'[r] \in {"none", "start"} PROVE pc'[r + 1] = "none"
      <4>1. CASE r = p + 1
        <5>1. pc[r + 1] = "none" BY <1>0, <2>3, <4>1 DEF CreatedInOrder
        <5>2. r + 1 # p /\ r + 1 # p + 1 BY <4>1
        <5> QED BY <2>2, <5>1, <5>2
      <4>2. CASE r # p + 1
        <5>1. r # p BY <2>2, <3>3
        <5>2. pc[r] \in {"none", "start"} BY <2>2, <3>3, <4>2, <5>1
        <5>3. pc[r + 1] = "none" BY <1>0, <5>2 DEF CreatedInOrder
        <5>4. r + 1 # p BY <2>1, <5>3
        <5> QED BY <2>2, <5>1, <5>3, <5>4
      <4> QED BY <4>1, <4>2
    <3> QED BY <3>2, <3>3 DEF CreatedInOrder
  <2>7. LibereHeld'
    <3>1. /\ pc'[Father] = pc[Father] /\ mutex_libere' = mutex_libere
          /\ pc'[LastThread] = pc[LastThread] \/ pc'[LastThread] = "start"
      BY <2>1, <2>2, <2>4
    <3> QED BY <1>0, <3>1 DEF LibereHeld
  <2>8. MainBehind'
    <3>1. /\ pc'[Father] = pc[Father]
          /\ \/ pc'[LastThread] = pc[LastThread]
             \/ pc'[LastThread] = "start" /\ pc[LastThread] = "none"
      BY <2>2, <2>3, <2>4
    <3> QED BY <1>0, <3>1 DEF MainBehind
  <2> QED BY <1>0, <2>1, <2>5, <2>6, <2>7, <2>8
<1>3. ASSUME NEW p \in 0 .. N - 2, JoinNext(p) PROVE Good'
  <2>1. /\ pc[p] = "join" /\ pc' = [pc EXCEPT ![p] = "end"]
        /\ UNCHANGED <<mutex_libere, unheard>>
    BY <1>3 DEF JoinNext, Goto
  <2>2. /\ pc'[p] = "end" /\ DOMAIN pc' = Procs /\ \A r \in Procs : r # p => pc'[r] = pc[r]
    BY <1>0, <2>1 DEF ChainTypeOK
  <2>3. p # Father /\ p # LastThread OBVIOUS
  <2>4. pc'[Father] = pc[Father] /\ pc'[LastThread] = pc[LastThread] BY <2>2, <2>3
  <2>5. ChainTypeOK' BY <1>0, <2>2, <2>4 DEF ChainTypeOK
  <2>6. CreatedInOrder'
    <3>1. ASSUME pc'[Father] = "fork" PROVE pc'[0] = "none"
      BY <1>0, <2>1, <2>2, <2>4, <3>1 DEF CreatedInOrder
    <3>2. ASSUME NEW r \in 0 .. N - 2, pc'[r] \in {"none", "start"} PROVE pc'[r + 1] = "none"
      <4>1. pc[r] = pc'[r] BY <2>2, <3>2
      <4>2. pc[r + 1] = "none" BY <1>0, <3>2, <4>1 DEF CreatedInOrder
      <4>3. r + 1 # p BY <2>1, <4>2
      <4> QED BY <2>2, <4>2, <4>3
    <3> QED BY <3>1, <3>2 DEF CreatedInOrder
  <2> QED BY <1>0, <2>1, <2>4, <2>5, <2>6 DEF LibereHeld, MainBehind
<1>4. ASSUME \/ LockLibere(LastThread, "start", "signal") \/ SignalDernier \/ WaitLibere
             \/ LockLibere(LastThread, "woken", "freed") \/ EndLast
             \/ WaitDernier \/ Unblock \/ Pause \/ HandleSigint
             \/ LockLibere(Father, "release", "signal") \/ SignalLibere \/ JoinFirst
             \/ PressCtrlC
      PROVE  Good'
  <2> DEFINE f == pc[Father]
             l == pc[LastThread]
             g == pc'[Father]
             m == pc'[LastThread]
  <2>1. /\ DOMAIN pc' = Procs
        /\ \A p \in Procs : p # Father /\ p # LastThread => pc'[p] = pc[p]
        /\ \/ /\ l = "start" /\ m = "signal" /\ g = f
              /\ mutex_libere = Nobody /\ mutex_libere' = LastThread /\ unheard' = unheard
           \/ /\ l = "signal" /\ m = "wait" /\ g = IF f = "waiting" THEN "created" ELSE f
              /\ mutex_libere' = mutex_libere /\ unheard' = unheard
           \/ /\ l = "wait" /\ m = "waiting" /\ g = f
              /\ mutex_libere' = Nobody /\ unheard' = unheard
           \/ /\ l = "woken" /\ m = "freed" /\ g = f
              /\ mutex_libere = Nobody /\ mutex_libere' = LastThread /\ unheard' = unheard
           \/ /\ l = "freed" /\ m = "end" /\ g = f
              /\ mutex_libere' = Nobody /\ unheard' = unheard
           \/ /\ m = l /\ mutex_libere' = mutex_libere /\ unheard' = unheard
              /\ \/ f = "lock" /\ g = "waiting"
                 \/ f = "created" /\ g = "unblocked"
                 \/ f = "unblocked" /\ g = "pause"
                 \/ f = "pause" /\ g = "release"
                 \/ f = "join" /\ g = "end"
                 \/ g = f
           \/ /\ f = "release" /\ g = "signal" /\ m = l
              /\ mutex_libere = Nobody /\ mutex_libere' = Father /\ unheard' = unheard
           \/ /\ f = "signal" /\ g = "join" /\ m = IF l = "waiting" THEN "woken" ELSE l
              /\ mutex_libere' = Nobody /\ (l = "waiting" => unheard' = FALSE)
    <3>1. CASE \/ LockLibere(LastThread, "start", "signal") \/ SignalDernier \/ WaitLibere
               \/ LockLibere(LastThread, "woken", "freed") \/ EndLast
      BY <1>0, <3>1 DEF LockLibere, SignalDernier, WaitLibere, EndLast, Goto, ChainTypeOK
    <3>2. CASE \/ WaitDernier \/ Unblock \/ Pause \/ HandleSigint
               \/ JoinFirst \/ PressCtrlC
      BY <1>0, <3>2 DEF WaitDernier, Unblock, Pause, HandleSigint, JoinFirst, PressCtrlC,
        Goto, ChainTypeOK
    <3>3. CASE LockLibere(Father, "release", "signal") \/ SignalLibere
      BY <1>0, <3>3 DEF LockLibere, SignalLibere, Goto, ChainTypeOK
    <3> QED BY <1>4, <3>1, <3>2, <3>3
  <2>2. /\ f \in MainStates /\ l \in LastStates
        /\ f = "signal" => mutex_libere = Father
        /\ l \in {"signal", "wait", "freed"} => mutex_libere = LastThread
        /\ f \notin {"fork", "lock", "waiting"} => l \in {"wait", "waiting", "woken", "freed", "end"}
        /\ f \notin {"join", "end"} => l \notin {"woken", "freed", "end"}
        /\ ~ unheard
    BY <1>0 DEF ChainTypeOK, LibereHeld, MainBehind
  <2>3. /\ g \in MainStates /\ m \in LastStates
        /\ g = "fork" => f = "fork"
        /\ l = "none" => m = "none"
        /\ g = "signal" => mutex_libere' = Father
        /\ m \in {"signal", "wait", "freed"} => mutex_libere' = LastThread
        /\ g \notin {"fork", "lock", "waiting"} => m \in {"wait", "waiting", "woken", "freed", "end"}
        /\ g \notin {"join", "end"} => m \notin {"woken", "freed", "end"}
        /\ ~ unheard'
    <3> HIDE DEF f, l, g, m
    <3>1. Father # LastThread /\ Father # Nobody /\ LastThread # Nobody OBVIOUS
    <3>2. /\ g \in MainStates /\ m \in LastStates
          /\ g = "fork" => f = "fork"
          /\ l = "none" => m = "none"
      BY <2>1, <2>2 DEF MainStates, LastStates
    <3>3. /\ g = "signal" => mutex_libere' = Father
          /\ m \in {"signal", "wait", "freed"} => mutex_libere' = LastThread
      BY <2>1, <2>2, <3>1 DEF MainStates, LastStates
    <3>4. /\ g \notin {"fork", "lock", "waiting"} =>
               m \in {"wait", "waiting", "woken", "freed", "end"}
          /\ g \notin {"join", "end"} => m \notin {"woken", "freed", "end"}
      BY <2>1, <2>2, <3>1 DEF MainStates, LastStates
    <3>5. ~ unheard' BY <2>1, <2>2, <3>1 DEF LastStates
    <3> QED BY <3>2, <3>3, <3>4, <3>5
  <2>4. ChainTypeOK' BY <1>0, <2>1, <2>3 DEF ChainTypeOK
  <2>5. CreatedInOrder'
    <3>1. /\ g = "fork" => f = "fork" BY <2>3
    <3>2. l = "none" => m = "none" BY <2>3
    <3>3. \A p \in 0 .. N - 2 : pc'[p] = pc[p] /\ (p + 1 # LastThread => pc'[p + 1] = pc[p + 1])
      <4>1. \A p \in Procs : p # Father /\ p # LastThread => pc'[p] = pc[p] BY <2>1
      <4> QED BY <4>1
    <3>4. \A p \in 0 .. N - 2 : pc[p + 1] = "none" => pc'[p + 1] = "none" BY <3>2, <3>3
    <3> QED BY <1>0, <3>1, <3>3, <3>4 DEF CreatedInOrder
  <2>6. LibereHeld' /\ MainBehind' BY <2>3 DEF LibereHeld, MainBehind
  <2> QED BY <2>3, <2>4, <2>5, <2>6
<1>5. CASE WakeSpuriously(Father, "created") \/ WakeSpuriously(LastThread, "woken")
  BY <1>5 DEF WakeSpuriously
\* main has left pause, so the last thread exists, and dies with the others
<1>s. ASSUME SecondSigint PROVE (AllDead /\ ~ unheard)'
  <2>1. /\ pc' = [q \in Procs |-> IF pc[q] = "none" THEN "none" ELSE "killed"]
        /\ pc[Father] \in Unblocked /\ unheard' = unheard
    BY <1>s DEF SecondSigint, AllKilled
  <2>2. pc[LastThread] # "none" BY <1>0, <2>1 DEF MainBehind, Unblocked
  <2> QED BY <1>0, <2>1, <2>2 DEF AllDead
<1>6. CASE UNCHANGED vars
  BY <1>0, <1>6 DEF vars, processes, threads, ChainTypeOK, CreatedInOrder, LibereHeld, MainBehind
<1> QED
  <2>1. CASE ThreadStep
    <3>1. CASE \E p \in 0 .. N - 2 : CreateThread(p + 1, p, "start", "join") \/ JoinNext(p)
      BY <1>2, <1>3, <3>1
    <3> QED BY <1>1, <1>4, <1>s, <2>1, <3>1 DEF ThreadStep
  <2>2. CASE ThreadEvent BY <1>4, <1>5, <2>2 DEF ThreadEvent
  <2> QED BY <1>6, <2>1, <2>2, ChaineOnly

(* The threads are created, and wait, in the order ChainInv describes, for *)
(* any length of the chain, until a second Ctrl-C kills them all.          *)
THEOREM ChainInvariance == Spec => []ChainInv
<1>1. Init => ChainInv BY ChainInitInv
<1>2. ChainInv /\ [Next]_vars => ChainInv' BY ChainStepInv
<1> QED BY <1>1, <1>2, PTL DEF Spec

(* main announces that the threads are created only when they are, and its *)
(* signal finds the last thread waiting, for any length of the chain and   *)
(* wherever Ctrl-C falls, as long as no wait ends of itself and no call    *)
(* fails.                                                                  *)
THEOREM SignalsHeard == Spec => []ChainHeard
<1>1. ChainInv => ChainHeard BY DEF ChainInv, AllDead, ChainHeard, MainBehind
<1> QED BY <1>1, ChainInvariance, PTL
-----------------------------------------------------------------------------
(* The chains of signals (SignalChains) *)

(* Some signal of that number is pending.                                  *)
HasIn(q, p, sig) == \E n \in DOMAIN q[p] : q[p][n][1] = sig

(* What a signal sent or delivered changes of the signals a process has. *)
LEMMA QueuedHas ==
  ASSUME NEW S, NEW q \in [Procs -> Seq(S)], NEW p \in Procs, NEW sig, NEW val,
         <<sig, val>> \in S
  PROVE  LET t == Sigqueue(q, p, sig, val)
         IN  /\ t \in [Procs -> Seq(S)]
             /\ \A r \in Procs : \A s : HasIn(t, r, s) => HasIn(q, r, s) \/ (r = p /\ s = sig)
<1>1. CASE ~ Alive(p) BY <1>1 DEF Sigqueue
<1>2. CASE Alive(p)
  <2> DEFINE more == Append(q[p], <<sig, val>>)
             t == [q EXCEPT ![p] = more]
  <2>1. q[p] \in Seq(S) OBVIOUS
  <2>2. /\ more \in Seq(S) /\ Len(more) = Len(q[p]) + 1
        /\ \A n \in 1 .. Len(q[p]) : more[n] = q[p][n]
        /\ more[Len(q[p]) + 1] = <<sig, val>>
    BY <2>1, AppendProperties
  <2>3. Len(q[p]) \in Nat /\ DOMAIN q[p] = 1 .. Len(q[p]) /\ DOMAIN more = 1 .. Len(more)
    BY <2>1, <2>2, LenProperties
  <2> HIDE DEF more
  <2>4. t \in [Procs -> Seq(S)] /\ t[p] = more /\ \A r \in Procs : r # p => t[r] = q[r]
    BY <2>2
  <2>5. ASSUME NEW n \in DOMAIN more, more[n][1] # sig PROVE n \in DOMAIN q[p] /\ more[n] = q[p][n]
    <3>1. n # Len(q[p]) + 1 BY <2>2, <2>5
    <3>2. n \in 1 .. Len(q[p]) BY <2>2, <2>3, <3>1
    <3> QED BY <2>2, <2>3, <3>2
  <2>6. ASSUME NEW r \in Procs, NEW s, HasIn(t, r, s)
        PROVE  HasIn(q, r, s) \/ (r = p /\ s = sig)
    <3> HIDE DEF t
    <3>1. CASE r # p BY <2>4, <2>6, <3>1 DEF HasIn
    <3>2. CASE r = p /\ s # sig BY <2>4, <2>5, <2>6, <3>2 DEF HasIn
    <3> QED BY <3>1, <3>2
  <2>7. Sigqueue(q, p, sig, val) = t BY <1>2 DEF Sigqueue, more
  <2> HIDE DEF t
  <2> QED BY <2>4, <2>6, <2>7
<1> QED BY <1>1, <1>2

(* What kill changes of the signals a process has.                         *)
LEMMA KillHas ==
  ASSUME NEW S, NEW q \in [Procs -> Seq(S)], NEW p \in Procs, NEW sig, <<sig, 0>> \in S
  PROVE  LET t == Kill(q, p, sig)
         IN  /\ t \in [Procs -> Seq(S)]
             /\ \A r \in Procs : \A s : HasIn(t, r, s) => HasIn(q, r, s) \/ (r = p /\ s = sig)
<1>1. CASE Has(p, sig) BY <1>1 DEF Kill
<1>2. CASE ~ Has(p, sig)
  <2>1. Kill(q, p, sig) = Sigqueue(q, p, sig, 0) BY <1>2 DEF Kill
  <2>2. LET t == Sigqueue(q, p, sig, 0)
        IN  /\ t \in [Procs -> Seq(S)]
            /\ \A r \in Procs : \A s : HasIn(t, r, s) => HasIn(q, r, s) \/ (r = p /\ s = sig)
    BY QueuedHas
  <2> QED BY <2>1, <2>2
<1> QED BY <1>1, <1>2

(* What a delivery changes of the signals a process has.                   *)
LEMMA TakenHas ==
  ASSUME NEW S, pending \in [Procs -> Seq(S)], NEW p \in Procs, NEW sig, Has(p, sig)
  PROVE  LET t == Taken(pending, p, sig)
         IN  /\ t \in [Procs -> Seq(S)]
             /\ \A r \in Procs : \A s : HasIn(t, r, s) => HasIn(pending, r, s)
<1> DEFINE t == Taken(pending, p, sig)
           o == Oldest(p, sig)
<1>1. /\ t \in [Procs -> Seq(S)]
      /\ \A r \in Procs : r # p => t[r] = pending[r]
      /\ o \in 1 .. Len(pending[p])
      /\ Len(pending[p]) \in Nat \ {0} /\ Len(t[p]) = Len(pending[p]) - 1
      /\ \A n \in 1 .. Len(pending[p]) - 1 : t[p][n] = pending[p][IF n < o THEN n ELSE n + 1]
  BY SignalTaken
<1> HIDE DEF t, o
<1>2. DOMAIN t[p] = 1 .. Len(t[p]) /\ DOMAIN pending[p] = 1 .. Len(pending[p])
  BY <1>1, LenProperties
<1>3. ASSUME NEW r \in Procs, NEW s, HasIn(t, r, s) PROVE HasIn(pending, r, s)
  <2>1. CASE r # p BY <1>1, <1>3, <2>1 DEF HasIn
  <2>2. CASE r = p
    <3>1. PICK n \in DOMAIN t[p] : t[p][n][1] = s BY <1>3, <2>2 DEF HasIn
    <3>2. n \in 1 .. Len(pending[p]) - 1 BY <1>1, <1>2, <3>1
    <3> DEFINE m == IF n < o THEN n ELSE n + 1
    <3>3. m \in 1 .. Len(pending[p]) BY <1>1, <3>2
    <3>4. t[p][n] = pending[p][m] BY <1>1, <3>2
    <3> HIDE DEF m
    <3> QED BY <1>2, <2>2, <3>1, <3>3, <3>4 DEF HasIn
  <2> QED BY <2>1, <2>2
<1> QED BY <1>1, <1>3 DEF t

(* A step of an exercise of chains is one of ex5, of the kill exercise or  *)
(* of synchro; that of signaux announces nothing.                          *)
LEMMA OnlyChains ==
  ASSUME [Next]_vars
  PROVE  /\ program \in {"ex5", "kill", "synchro"} => ChainNext \/ UNCHANGED vars
         /\ program \notin {"ex5", "kill", "synchro"} => log' = log
<1>1. CASE UNCHANGED vars BY <1>1 DEF vars, chain
<1>2. CASE Next
  <2>1. program \in ChainPrograms => ChainNext
    BY <1>2 DEF Next, Step, Event, ChainPrograms, GatherPrograms, BarrierPrograms,
      ThreadPrograms, JobPrograms, EnvPrograms, ReversePrograms, AcceptPrograms
  <2>2. program \notin ChainPrograms => log' = log BY <1>2 DEF Next, Step, Event, chain
  <2>3. program = "signaux" => log' = log
    <3> SUFFICES ASSUME program = "signaux" PROVE log' = log OBVIOUS
    <3>1. SignauxStep BY <2>1 DEF ChainNext, ChainPrograms
    <3> QED BY <3>1 DEF SignauxStep, ForkOne, AssignChild, HandleFirst, KilledFirst, TellFirst,
          StopSelf, Resume
  <2> QED BY <2>1, <2>2, <2>3 DEF ChainPrograms
<1> QED BY <1>1, <1>2

(* The invariant of the chains of signals holds before the first fork.     *)
LEMMA ChainsInitInv == Init => ChainsInv
<1> SUFFICES ASSUME Init PROVE ChainsInv OBVIOUS
<1>1. /\ pc = [p \in Procs |-> IF p = Father THEN "fork" ELSE "none"]
      /\ pending = [p \in Procs |-> << >>] /\ log = << >>
  BY DEF Init, ProcessesInit, ChainInit
<1>2. /\ Father \in Procs /\ Father = -1 /\ N \in Nat /\ N >= 2 /\ LastSon = N - 1
      /\ \A p \in -1 .. N - 1 : p \in Procs
      /\ 0 \in Procs /\ 1 \in Procs
  BY NAssumption DEF Procs, Sons, Father, LastSon
<1>3. /\ pc[Father] = "fork" /\ \A p \in Procs : pc[p] \in {"fork", "none"}
      /\ \A p \in 0 .. N - 1 : pc[p] = "none"
      /\ \A p \in Procs : pending[p] = << >>
  BY <1>1, <1>2
<1>4. Announced = 0 /\ FromTheEnd BY <1>1 DEF Announced, FromTheEnd
<1>5. \A p \in Procs : \A s : ~ Has(p, s) BY <1>3 DEF Has
<1>6. Pended
  <2>1. << >> \in Seq({"RTMIN", "USR1", "USR2"} \X {0}) BY EmptySeq
  <2> QED BY <1>1, <2>1 DEF Pended
<1>7. Ex5Inv
  <2>1. Announced \in 0 .. N BY <1>2, <1>4
  <2>2. \A p \in 0 .. LastSon : ~ (p >= N - Announced) BY <1>2, <1>4
  <2> QED BY <1>2, <1>3, <1>4, <1>5, <2>1, <2>2 DEF Ex5Inv
<1>8. KillInv
  <2>1. Announced \in 0 .. N + 1 BY <1>2, <1>4
  <2>2. \A p \in -1 .. LastSon : ~ (p >= N - Announced) BY <1>2, <1>4
  <2>3. \A p \in -1 .. LastSon - 1 : p + 1 \in 0 .. N - 1 BY <1>2
  <2> QED BY <1>2, <1>3, <1>4, <1>5, <2>1, <2>2, <2>3 DEF KillInv
<1>9. SynchroInv
  <2>1. \A m, n \in DOMAIN pending[Father] : m = n BY <1>2, <1>3
  <2> QED BY <1>1, <1>2, <1>3, <1>5, <2>1 DEF SynchroInv
<1> QED BY <1>1, <1>6, <1>7, <1>8, <1>9 DEF ChainsInv

(* An announcement made in its turn keeps the announcements in order.      *)
LEMMA OneMore ==
  ASSUME FromTheEnd, Announced \in Nat, NEW v, v = N - (Announced + 1), log' = Append(log, v)
  PROVE  FromTheEnd' /\ Announced' = Announced + 1
<1>1. log \in Seq(Int) BY NAssumption DEF FromTheEnd, Announced
<1>2. v \in Int BY NAssumption
<1>3. /\ log' \in Seq(Int) /\ Len(log') = Announced + 1
      /\ \A n \in 1 .. Announced : log'[n] = log[n]
      /\ log'[Announced + 1] = v
  BY <1>1, <1>2, AppendProperties DEF Announced
<1>4. Announced' = Announced + 1 BY <1>3 DEF Announced
<1>5. \A n \in 1 .. Announced : log[n] = N - n BY DEF FromTheEnd
<1>6. \A n \in 1 .. Announced + 1 : log'[n] = N - n BY <1>3, <1>5
<1>7. log' = [n \in 1 .. Announced + 1 |-> log'[n]] BY <1>3, LenProperties
<1> QED BY <1>4, <1>6, <1>7 DEF FromTheEnd

(* Every step of ex5 preserves the invariant: the one son that is awake is *)
(* the next to announce itself.                                            *)
LEMMA Ex5StepInv ==
  ASSUME Pended, Ex5Inv, Ex5, program = "ex5"
  PROVE  Pended' /\ Ex5Inv'
<1> DEFINE L == Announced
           S == {"RTMIN", "USR1", "USR2"} \X {0}
<1>n. /\ N \in Nat /\ N >= 2 /\ LastSon = N - 1 /\ L \in 0 .. N /\ Father = -1
      /\ Forked = 0 .. LastSon /\ \A p \in 0 .. LastSon : p \in Procs /\ p # Father
      /\ Father \in Procs
  BY NAssumption DEF Ex5Inv, LastSon, Forked, Procs, Sons, Father
<1>0. /\ FromTheEnd /\ pending \in [Procs -> Seq(S)] /\ DOMAIN pc = Procs
      /\ \A p \in 0 .. LastSon :
           /\ pc[p] \in {"again", "end"} <=> p >= N - L
           /\ pc[p] = "pass" => p = LastSon - L
           /\ p # LastSon /\ Has(p, "RTMIN") => p >= LastSon - L
  BY DEF Ex5Inv, Pended
<1>s. <<"RTMIN", 0>> \in S OBVIOUS
<1>t. /\ S = {"RTMIN", "USR1", "USR2"} \X {0}
      /\ \A p : Has(p, "RTMIN") <=> HasIn(pending, p, "RTMIN")
      /\ \A p : Has(p, "RTMIN")' <=> HasIn(pending', p, "RTMIN")
  BY DEF Has, HasIn
<1>l. UNCHANGED log => (FromTheEnd' /\ Announced' = L) BY <1>0 DEF FromTheEnd, Announced
<1> HIDE DEF L, S
<1> SUFFICES ASSUME TRUE
             PROVE  /\ FromTheEnd' /\ pending' \in [Procs -> Seq(S)] /\ DOMAIN pc' = Procs
                    /\ Announced' \in 0 .. N
                    /\ \A p \in 0 .. LastSon :
                         /\ pc'[p] \in {"again", "end"} <=> p >= N - Announced'
                         /\ pc'[p] = "pass" => p = LastSon - Announced'
                         /\ p # LastSon /\ Has(p, "RTMIN")' => p >= LastSon - Announced'
  BY <1>t DEF Pended, Ex5Inv
<1>1. CASE ((Fork \/ ForkFailure \/ EndFork("wait")) /\ UNCHANGED log) \/ WaitSons
  <2>1. /\ UNCHANGED <<log, pending>> /\ DOMAIN pc' = Procs
        /\ \A p \in 0 .. LastSon : pc'[p] = pc[p] \/ (pc[p] = "none" /\ pc'[p] = "start")
    <3>1. CASE Fork /\ UNCHANGED log BY <1>0, <1>n, <3>1 DEF Fork
    <3>2. CASE (ForkFailure \/ EndFork("wait")) /\ UNCHANGED log
      BY <1>0, <1>n, <3>2 DEF ForkFailure, EndFork, Goto
    <3>3. CASE WaitSons BY <1>0, <1>n, <3>3 DEF WaitSons, Goto, Reap
    <3> QED BY <1>1, <3>1, <3>2, <3>3
  <2>2. Announced' = L /\ FromTheEnd' BY <1>l, <2>1
  <2>3. pending' = pending BY <2>1
  <2>4. \A p : Has(p, "RTMIN")' <=> Has(p, "RTMIN") BY <1>t, <2>3
  <2>5. ASSUME NEW p \in 0 .. LastSon
        PROVE  /\ pc'[p] \in {"again", "end"} <=> pc[p] \in {"again", "end"}
               /\ pc'[p] = "pass" => pc[p] = "pass"
    BY <2>1
  <2> QED BY <1>0, <1>n, <2>1, <2>2, <2>3, <2>4, <2>5
<1>2. CASE LastPasses
  <2>1. /\ pc[LastSon] = "start" /\ pc' = [pc EXCEPT ![LastSon] = "again"]
        /\ log' = Append(log, LastSon) /\ pending' = Sigqueue(pending, LastSon - 1, "RTMIN", 0)
    BY <1>2 DEF LastPasses, Goto
  <2>2. LastSon \in 0 .. LastSon /\ LastSon - 1 \in 0 .. LastSon /\ LastSon - 1 \in Procs
    BY <1>n
  <2>3. L = 0
    <3>1. ~ (LastSon >= N - L) BY <1>0, <2>1, <2>2
    <3> QED BY <1>n, <3>1
  <2>4. FromTheEnd' /\ Announced' = 1
    <3>1. LastSon = N - (Announced + 1) /\ Announced \in Nat BY <1>n, <2>3 DEF L
    <3> QED BY <1>0, <2>1, <2>3, <3>1, OneMore DEF L
  <2>5. /\ pending' \in [Procs -> Seq(S)]
        /\ \A p \in Procs : \A s : HasIn(pending', p, s) =>
             HasIn(pending, p, s) \/ (p = LastSon - 1 /\ s = "RTMIN")
    BY <1>0, <1>s, <2>1, <2>2, QueuedHas
  <2>6. /\ DOMAIN pc' = Procs /\ pc'[LastSon] = "again"
        /\ \A p \in 0 .. LastSon : p # LastSon => pc'[p] = pc[p]
    BY <1>0, <1>n, <2>1, <2>2
  <2>7. ASSUME NEW p \in 0 .. LastSon
        PROVE  /\ pc'[p] \in {"again", "end"} <=> p >= N - Announced'
               /\ pc'[p] = "pass" => p = LastSon - Announced'
               /\ p # LastSon /\ Has(p, "RTMIN")' => p >= LastSon - Announced'
    <3>1. CASE p = LastSon
      <4>1. p >= N - 1 BY <1>n, <3>1
      <4> QED BY <2>4, <2>6, <3>1, <4>1
    <3>2. CASE p # LastSon
      <4>1. ~ (p >= N - 1) /\ ~ (p >= N - 0) /\ p # LastSon - 0 BY <1>n, <3>2
      <4>2. pc'[p] = pc[p] /\ pc[p] \notin {"again", "end", "pass"}
        <5>1. pc[p] \in {"again", "end"} <=> p >= N - 0 BY <1>0, <2>3
        <5>2. pc[p] = "pass" => p = LastSon - 0 BY <1>0, <2>3
        <5> QED BY <2>6, <3>2, <4>1, <5>1, <5>2
      <4>3. Has(p, "RTMIN")' => p >= LastSon - 1
        <5>1. Has(p, "RTMIN") => p >= LastSon - 0 BY <1>0, <2>3, <3>2
        <5>2. Has(p, "RTMIN")' => Has(p, "RTMIN") \/ p = LastSon - 1 BY <1>n, <1>t, <2>5
        <5> QED BY <1>n, <4>1, <5>1, <5>2
      <4> QED BY <2>4, <4>1, <4>2, <4>3
    <3> QED BY <3>1, <3>2
  <2> QED BY <1>n, <2>4, <2>5, <2>6, <2>7
<1>3. ASSUME NEW p \in 0 .. LastSon, Awake(p) PROVE
                    /\ FromTheEnd' /\ pending' \in [Procs -> Seq(S)] /\ DOMAIN pc' = Procs
                    /\ Announced' \in 0 .. N
                    /\ \A r \in 0 .. LastSon :
                         /\ pc'[r] \in {"again", "end"} <=> r >= N - Announced'
                         /\ pc'[r] = "pass" => r = LastSon - Announced'
                         /\ r # LastSon /\ Has(r, "RTMIN")' => r >= LastSon - Announced'
  <2>1. /\ p # LastSon /\ Has(p, "RTMIN") /\ pc[p] = "start" /\ pc' = [pc EXCEPT ![p] = "pass"]
        /\ pending' = Taken(pending, p, "RTMIN") /\ UNCHANGED log
    BY <1>3 DEF Awake, Suspend, Goto
  <2>2. FromTheEnd' /\ Announced' = L BY <1>l, <2>1
  <2>3. p = LastSon - L
    <3>1. p >= LastSon - L /\ ~ (p >= N - L) BY <1>0, <2>1
    <3> QED BY <1>n, <3>1
  <2>4. /\ pending' \in [Procs -> Seq(S)]
        /\ \A r \in Procs : \A s : HasIn(pending', r, s) => HasIn(pending, r, s)
    BY <1>0, <1>n, <2>1, TakenHas
  <2>5. /\ DOMAIN pc' = Procs /\ pc'[p] = "pass"
        /\ \A r \in 0 .. LastSon : r # p => pc'[r] = pc[r]
    BY <1>0, <1>n, <2>1
  <2>6. ASSUME NEW r \in 0 .. LastSon
        PROVE  /\ pc'[r] \in {"again", "end"} <=> pc[r] \in {"again", "end"}
               /\ pc'[r] = "pass" => r = LastSon - L
               /\ Has(r, "RTMIN")' => Has(r, "RTMIN")
    <3>1. CASE r = p BY <1>n, <1>t, <2>1, <2>3, <2>4, <2>5, <3>1
    <3>2. CASE r # p BY <1>0, <1>n, <1>t, <2>4, <2>5, <3>2
    <3> QED BY <3>1, <3>2
  <2> QED BY <1>0, <1>n, <2>2, <2>4, <2>5, <2>6
<1>4. ASSUME NEW p \in 0 .. LastSon, PassOn(p) PROVE
                    /\ FromTheEnd' /\ pending' \in [Procs -> Seq(S)] /\ DOMAIN pc' = Procs
                    /\ Announced' \in 0 .. N
                    /\ \A r \in 0 .. LastSon :
                         /\ pc'[r] \in {"again", "end"} <=> r >= N - Announced'
                         /\ pc'[r] = "pass" => r = LastSon - Announced'
                         /\ r # LastSon /\ Has(r, "RTMIN")' => r >= LastSon - Announced'
  <2>1. /\ pc[p] = "pass" /\ pc' = [pc EXCEPT ![p] = "again"]
        /\ log' = Append(log, p) /\ pending' = pending
    BY <1>4 DEF PassOn, Goto
  <2>2. p = LastSon - L BY <1>0, <2>1
  <2>3. FromTheEnd' /\ Announced' = L + 1
    <3>1. p = N - (Announced + 1) /\ Announced \in Nat BY <1>n, <2>2 DEF L
    <3> QED BY <1>0, <2>1, <3>1, OneMore DEF L
  <2>4. Announced' \in 0 .. N BY <1>n, <2>2, <2>3
  <2>5. /\ DOMAIN pc' = Procs /\ pc'[p] = "again"
        /\ \A r \in 0 .. LastSon : r # p => pc'[r] = pc[r]
    BY <1>0, <1>n, <2>1
  <2>6. ASSUME NEW r \in 0 .. LastSon
        PROVE  /\ pc'[r] \in {"again", "end"} <=> r >= N - (L + 1)
               /\ pc'[r] = "pass" => r = LastSon - (L + 1)
               /\ r # LastSon /\ Has(r, "RTMIN")' => r >= LastSon - (L + 1)
    <3>1. Has(r, "RTMIN")' <=> Has(r, "RTMIN") BY <1>t, <2>1
    <3>2. r # LastSon /\ Has(r, "RTMIN")' => r >= LastSon - (L + 1)
      <4>1. r # LastSon /\ Has(r, "RTMIN")' => r >= LastSon - L BY <1>0, <3>1
      <4> QED BY <1>n, <4>1
    <3>3. CASE r = p
      <4>1. r >= N - (L + 1) BY <1>n, <2>2, <3>3
      <4> QED BY <2>5, <3>2, <3>3, <4>1
    <3>4. CASE r # p
      <4>1. r # LastSon - L BY <2>2, <3>4
      <4>2. r >= N - (L + 1) <=> r >= N - L BY <1>n, <4>1
      <4> QED BY <1>0, <2>5, <3>2, <3>4, <4>1, <4>2
    <3> QED BY <3>3, <3>4
  <2> QED BY <1>0, <2>1, <2>3, <2>4, <2>5, <2>6
<1>5. ASSUME NEW p \in 0 .. LastSon, WakeNext(p) PROVE
                    /\ FromTheEnd' /\ pending' \in [Procs -> Seq(S)] /\ DOMAIN pc' = Procs
                    /\ Announced' \in 0 .. N
                    /\ \A r \in 0 .. LastSon :
                         /\ pc'[r] \in {"again", "end"} <=> r >= N - Announced'
                         /\ pc'[r] = "pass" => r = LastSon - Announced'
                         /\ r # LastSon /\ Has(r, "RTMIN")' => r >= LastSon - Announced'
  <2>1. /\ pc[p] = "again" /\ pc' = [pc EXCEPT ![p] = "end"] /\ UNCHANGED log
        /\ pending' = IF p > 0 THEN Sigqueue(pending, p - 1, "RTMIN", 0) ELSE pending
    BY <1>5 DEF WakeNext, Goto
  <2>2. FromTheEnd' /\ Announced' = L BY <1>l, <2>1
  <2>3. p >= N - L BY <1>0, <2>1
  <2>4. /\ pending' \in [Procs -> Seq(S)]
        /\ \A r \in Procs : \A s : HasIn(pending', r, s) =>
             HasIn(pending, r, s) \/ (r = p - 1 /\ s = "RTMIN")
    <3>1. CASE p > 0
      <4>1. p - 1 \in 0 .. LastSon BY <1>n, <3>1
      <4>2. p - 1 \in Procs BY <1>n, <4>1
      <4>3. pending' = Sigqueue(pending, p - 1, "RTMIN", 0) BY <2>1, <3>1
      <4> QED BY <1>0, <1>s, <4>2, <4>3, QueuedHas
    <3>2. CASE ~ (p > 0) BY <1>0, <2>1, <3>2
    <3> QED BY <3>1, <3>2
  <2>5. /\ DOMAIN pc' = Procs /\ pc'[p] = "end"
        /\ \A r \in 0 .. LastSon : r # p => pc'[r] = pc[r]
    BY <1>0, <1>n, <2>1
  <2>6. ASSUME NEW r \in 0 .. LastSon
        PROVE  /\ pc'[r] \in {"again", "end"} <=> r >= N - L
               /\ pc'[r] = "pass" => r = LastSon - L
               /\ r # LastSon /\ Has(r, "RTMIN")' => r >= LastSon - L
    <3>1. r # LastSon /\ Has(r, "RTMIN")' => r >= LastSon - L
      <4>1. Has(r, "RTMIN")' => Has(r, "RTMIN") \/ r = p - 1 BY <1>n, <1>t, <2>4
      <4>2. r = p - 1 => r >= LastSon - L BY <1>n, <2>3
      <4> QED BY <1>0, <4>1, <4>2
    <3>2. CASE r = p BY <2>3, <2>5, <3>1, <3>2
    <3>3. CASE r # p BY <1>0, <2>5, <3>1, <3>3
    <3> QED BY <3>2, <3>3
  <2> QED BY <1>0, <1>n, <2>2, <2>4, <2>5, <2>6
<1> QED BY <1>1, <1>2, <1>3, <1>4, <1>5, <1>n DEF Ex5

(* Every step of the chain of kill preserves it.                           *)
LEMMA KillStepInv ==
  ASSUME Pended, KillInv, KillStep
  PROVE  Pended' /\ KillInv'
<1> DEFINE L == Announced
           S == {"RTMIN", "USR1", "USR2"} \X {0}
           Chain == -1 .. LastSon
<1>n. /\ N \in Nat /\ N >= 2 /\ LastSon = N - 1 /\ L \in 0 .. N + 1 /\ Father = -1
      /\ \A p \in Chain : p \in Procs
      /\ LastSon \in Chain /\ Procs \ {LastSon, N} = -1 .. LastSon - 1
  BY NAssumption DEF KillInv, LastSon, Procs, Sons, Father
<1>0. /\ FromTheEnd /\ pending \in [Procs -> Seq(S)] /\ DOMAIN pc = Procs
      /\ \A p \in Chain : /\ pc[p] = "end" <=> p >= N - L
                          /\ Has(p, "USR1") => p >= LastSon - L
      /\ \A p \in -1 .. LastSon - 1 : pc[p] \in {"none", "fork"} => pc[p + 1] = "none"
  BY DEF KillInv, Pended
<1>s. <<"USR1", 0>> \in S OBVIOUS
<1>t. /\ S = {"RTMIN", "USR1", "USR2"} \X {0} /\ Chain = -1 .. LastSon
      /\ \A p : Has(p, "USR1") <=> HasIn(pending, p, "USR1")
      /\ \A p : Has(p, "USR1")' <=> HasIn(pending', p, "USR1")
  BY DEF Has, HasIn
<1>l. UNCHANGED log => (FromTheEnd' /\ Announced' = L) BY <1>0 DEF FromTheEnd, Announced
<1> HIDE DEF L, S
<1>g. ASSUME /\ FromTheEnd' /\ pending' \in [Procs -> Seq(S)] /\ DOMAIN pc' = Procs
             /\ Announced' \in 0 .. N + 1
             /\ \A p \in Chain : /\ pc'[p] = "end" <=> p >= N - Announced'
                                 /\ Has(p, "USR1")' => p >= LastSon - Announced'
             /\ \A p \in -1 .. LastSon - 1 : pc'[p] \in {"none", "fork"} => pc'[p + 1] = "none"
      PROVE  Pended' /\ KillInv'
  BY <1>g, <1>t DEF Pended, KillInv
<1>1. ASSUME NEW p \in -1 .. LastSon - 1, ForkOne(p, "suspend") PROVE Pended' /\ KillInv'
  <2>1. /\ pc[p] = "fork" /\ UNCHANGED <<log, pending>>
        /\ \/ pc' = [pc EXCEPT ![p] = "suspend", ![p + 1] = IF p + 1 = LastSon THEN "last" ELSE "fork"]
           \/ pc' = [pc EXCEPT ![p] = "suspend"]
    BY <1>1 DEF ForkOne
  <2>2. /\ p \in Chain /\ p + 1 \in Chain /\ p # p + 1 /\ p \in Int BY <1>n
  <2>3. pc[p + 1] = "none" BY <1>0, <2>1
  <2>4. /\ DOMAIN pc' = Procs /\ pc'[p] = "suspend"
        /\ pc'[p + 1] \in {"none", "last", "fork"}
        /\ \A r \in Chain : r # p /\ r # p + 1 => pc'[r] = pc[r]
    BY <1>0, <1>n, <2>1, <2>2, <2>3
  <2>5. FromTheEnd' /\ Announced' = L /\ pending' = pending BY <1>l, <2>1
  <2>6. ASSUME NEW r \in Chain
        PROVE  /\ pc'[r] = "end" <=> r >= N - L
               /\ Has(r, "USR1")' => r >= LastSon - L
    <3>1. Has(r, "USR1")' <=> Has(r, "USR1") BY <1>t, <2>5
    <3>2. pc'[r] = "end" <=> pc[r] = "end" BY <2>1, <2>3, <2>4
    <3> QED BY <1>0, <3>1, <3>2
  <2>7. ASSUME NEW r \in -1 .. LastSon - 1, pc'[r] \in {"none", "fork"} PROVE pc'[r + 1] = "none"
    <3>1. r \in Chain /\ r + 1 \in Chain /\ r \in Int /\ r # p BY <1>n, <2>4, <2>7
    <3>2. pc[r] \in {"none", "fork"} BY <2>3, <2>4, <2>7, <3>1
    <3>3. pc[r + 1] = "none" BY <1>0, <3>2
    <3>4. r + 1 # p BY <2>1, <3>3
    <3>5. r + 1 # p + 1 BY <2>2, <3>1
    <3> QED BY <2>4, <3>1, <3>3, <3>4, <3>5
  <2>8. Announced' \in 0 .. N + 1 BY <1>n, <2>5
  <2> QED BY <1>0, <1>g, <2>4, <2>5, <2>6, <2>7, <2>8
<1>2. ASSUME NEW p \in Chain, pc[p] \in {"last", "suspend"}, p = LastSon - L,
             pc' = [pc EXCEPT ![p] = "end"], log' = Append(log, p),
             pending' \in [Procs -> Seq(S)],
             \A r \in Procs : \A s : HasIn(pending', r, s) =>
               HasIn(pending, r, s) \/ (r = p - 1 /\ s = "USR1")
      PROVE  Pended' /\ KillInv'
  <2>1. FromTheEnd' /\ Announced' = L + 1
    <3>1. p = N - (Announced + 1) /\ Announced \in Nat BY <1>2, <1>n DEF L
    <3> QED BY <1>0, <1>2, <3>1, OneMore DEF L
  <2>2. Announced' \in 0 .. N + 1 BY <1>2, <1>n, <2>1
  <2>3. /\ DOMAIN pc' = Procs /\ pc'[p] = "end" /\ \A r \in Chain : r # p => pc'[r] = pc[r]
    BY <1>0, <1>2, <1>n
  <2>4. ASSUME NEW r \in Chain
        PROVE  /\ pc'[r] = "end" <=> r >= N - (L + 1)
               /\ Has(r, "USR1")' => r >= LastSon - (L + 1)
    <3>1. Has(r, "USR1")' => r >= LastSon - (L + 1)
      <4>1. Has(r, "USR1")' => Has(r, "USR1") \/ r = p - 1 BY <1>2, <1>n, <1>t
      <4>2. Has(r, "USR1") => r >= LastSon - L BY <1>0
      <4>3. r >= LastSon - L => r >= LastSon - (L + 1) BY <1>n
      <4>4. r = p - 1 => r >= LastSon - (L + 1) BY <1>2, <1>n
      <4> QED BY <4>1, <4>2, <4>3, <4>4
    <3>2. CASE r = p
      <4>1. r >= N - (L + 1) BY <1>2, <1>n, <3>2
      <4> QED BY <2>3, <3>1, <3>2, <4>1
    <3>3. CASE r # p
      <4>1. r >= N - (L + 1) <=> r >= N - L BY <1>2, <1>n, <3>3
      <4> QED BY <1>0, <2>3, <3>1, <3>3, <4>1
    <3> QED BY <3>2, <3>3
  <2>5. ASSUME NEW r \in -1 .. LastSon - 1, pc'[r] \in {"none", "fork"} PROVE pc'[r + 1] = "none"
    <3>1. r \in Chain /\ r + 1 \in Chain /\ r # p BY <1>n, <2>3, <2>5
    <3>2. pc[r + 1] = "none" BY <1>0, <2>3, <2>5, <3>1
    <3>3. r + 1 # p BY <1>2, <3>2
    <3> QED BY <2>3, <3>1, <3>2, <3>3
  <2> QED BY <1>2, <1>g, <2>1, <2>2, <2>3, <2>4, <2>5
<1>3. ASSUME TellFather(LastSon) PROVE Pended' /\ KillInv'
  <2>1. /\ pc[LastSon] = "last" /\ pc' = [pc EXCEPT ![LastSon] = "end"]
        /\ log' = Append(log, LastSon) /\ pending' = Kill(pending, LastSon - 1, "USR1")
    BY <1>3 DEF TellFather, Goto
  <2>2. LastSon - 1 \in Chain BY <1>n
  <2>3. LastSon = LastSon - L
    <3>1. ~ (LastSon >= N - L) BY <1>0, <1>n, <2>1
    <3> QED BY <1>n, <3>1
  <2>4. LastSon - 1 \in Procs BY <1>n, <2>2
  <2>5. /\ pending' \in [Procs -> Seq(S)]
        /\ \A r \in Procs : \A s : HasIn(pending', r, s) =>
             HasIn(pending, r, s) \/ (r = LastSon - 1 /\ s = "USR1")
    BY <1>0, <1>s, <2>1, <2>4, KillHas
  <2> QED BY <1>2, <1>n, <2>1, <2>3, <2>5
<1>4. ASSUME NEW p \in -1 .. LastSon - 1, HandleSigusr1(p) PROVE Pended' /\ KillInv'
  <2> DEFINE rest == Taken(pending, p, "USR1")
  <2>1. /\ Has(p, "USR1") /\ pc[p] = "suspend" /\ pc' = [pc EXCEPT ![p] = "end"]
        /\ log' = Append(log, p)
        /\ pending' = IF p = Father THEN rest ELSE Kill(rest, p - 1, "USR1")
    BY <1>4 DEF HandleSigusr1, Goto
  <2>2. p \in Chain /\ p \in Procs BY <1>n
  <2>3. p = LastSon - L
    <3>1. p >= LastSon - L /\ ~ (p >= N - L) BY <1>0, <2>1, <2>2
    <3> QED BY <1>n, <3>1
  <2>4. /\ rest \in [Procs -> Seq(S)]
        /\ \A r \in Procs : \A s : HasIn(rest, r, s) => HasIn(pending, r, s)
    BY <1>0, <2>1, <2>2, TakenHas
  <2> HIDE DEF rest
  <2>5. /\ pending' \in [Procs -> Seq(S)]
        /\ \A r \in Procs : \A s : HasIn(pending', r, s) =>
             HasIn(pending, r, s) \/ (r = p - 1 /\ s = "USR1")
    <3>1. CASE p = Father BY <2>1, <2>4, <3>1
    <3>2. CASE p # Father
      <4>1. p - 1 \in Chain BY <1>n, <3>2
      <4>2. p - 1 \in Procs BY <1>n, <4>1
      <4>3. pending' = Kill(rest, p - 1, "USR1") BY <2>1, <3>2
      <4>4. /\ Kill(rest, p - 1, "USR1") \in [Procs -> Seq(S)]
            /\ \A r \in Procs : \A s : HasIn(Kill(rest, p - 1, "USR1"), r, s) =>
                 HasIn(rest, r, s) \/ (r = p - 1 /\ s = "USR1")
        BY <1>s, <2>4, <4>2, KillHas
      <4> QED BY <2>4, <4>3, <4>4
    <3> QED BY <3>1, <3>2
  <2> QED BY <1>2, <2>1, <2>2, <2>3, <2>5
<1> QED BY <1>1, <1>3, <1>4, <1>n DEF KillStep

(* No two signals of the same number are pending.                          *)
OnceIn(q, p) == \A m, n \in DOMAIN q[p] : q[p][m][1] = q[p][n][1] => m = n

(* A signal that is kept once is not pending once it is delivered. *)
LEMMA KillOnce ==
  ASSUME NEW S, pending \in [Procs -> Seq(S)], NEW p \in Procs, NEW sig, <<sig, 0>> \in S,
         OnceIn(pending, p)
  PROVE  OnceIn(Kill(pending, p, sig), p)
<1>1. CASE Has(p, sig) \/ ~ Alive(p) BY <1>1 DEF Kill, Sigqueue
<1>2. CASE ~ Has(p, sig) /\ Alive(p)
  <2> DEFINE s == pending[p]
             more == Append(s, <<sig, 0>>)
  <2>1. s \in Seq(S) OBVIOUS
  <2>2. /\ Len(more) = Len(s) + 1 /\ more \in Seq(S)
        /\ \A n \in 1 .. Len(s) : more[n] = s[n]
        /\ more[Len(s) + 1] = <<sig, 0>>
    BY <2>1, AppendProperties
  <2>3. Len(s) \in Nat /\ DOMAIN s = 1 .. Len(s) /\ DOMAIN more = 1 .. Len(more)
    BY <2>1, <2>2, LenProperties
  <2>4. Kill(pending, p, sig)[p] = more BY <1>2 DEF Kill, Sigqueue
  <2>5. \A n \in 1 .. Len(s) : s[n][1] # sig BY <1>2, <2>3 DEF Has
  <2>6. \A m, n \in 1 .. Len(s) : s[m][1] = s[n][1] => m = n BY <2>3 DEF OnceIn
  <2> HIDE DEF s, more
  <2>7. ASSUME NEW m \in DOMAIN more, NEW n \in DOMAIN more, more[m][1] = more[n][1] PROVE m = n
    <3>1. m \in 1 .. Len(s) \/ m = Len(s) + 1 BY <2>2, <2>3
    <3>2. n \in 1 .. Len(s) \/ n = Len(s) + 1 BY <2>2, <2>3
    <3>3. <<sig, 0>>[1] = sig OBVIOUS
    <3> QED BY <2>2, <2>5, <2>6, <2>7, <3>1, <3>2, <3>3
  <2> QED BY <2>4, <2>7 DEF OnceIn
<1> QED BY <1>1, <1>2

(* A signal that is kept once is not pending once it is taken, and the     *)
(* others stay kept once.                                                  *)
LEMMA TakenOnce ==
  ASSUME NEW S, pending \in [Procs -> Seq(S)], NEW p \in Procs, NEW sig, Has(p, sig),
         OnceIn(pending, p)
  PROVE  OnceIn(Taken(pending, p, sig), p) /\ ~ HasIn(Taken(pending, p, sig), p, sig)
<1> DEFINE t == Taken(pending, p, sig)
           o == Oldest(p, sig)
<1>1. /\ t \in [Procs -> Seq(S)]
      /\ o \in 1 .. Len(pending[p]) /\ pending[p][o][1] = sig
      /\ Len(pending[p]) \in Nat \ {0} /\ Len(t[p]) = Len(pending[p]) - 1
      /\ \A n \in 1 .. Len(pending[p]) - 1 : t[p][n] = pending[p][IF n < o THEN n ELSE n + 1]
  BY SignalTaken
<1> HIDE DEF t, o
<1>2. DOMAIN t[p] = 1 .. Len(t[p]) /\ DOMAIN pending[p] = 1 .. Len(pending[p])
  BY <1>1, LenProperties
<1> DEFINE was(n) == IF n < o THEN n ELSE n + 1
<1>3. ASSUME NEW n \in DOMAIN t[p]
      PROVE  was(n) \in DOMAIN pending[p] /\ was(n) # o /\ t[p][n] = pending[p][was(n)]
  <2>1. n \in 1 .. Len(pending[p]) - 1 BY <1>1, <1>2
  <2> QED BY <1>1, <1>2, <2>1
<1>4. ~ HasIn(t, p, sig)
  <2>1. ASSUME NEW n \in DOMAIN t[p], t[p][n][1] = sig PROVE FALSE
    <3>1. was(n) \in DOMAIN pending[p] /\ was(n) # o /\ pending[p][was(n)][1] = sig BY <1>3, <2>1
    <3>2. o \in DOMAIN pending[p] BY <1>1, <1>2
    <3> HIDE DEF was
    <3> QED BY <1>1, <3>1, <3>2 DEF OnceIn
  <2> QED BY <2>1 DEF HasIn
<1>5. OnceIn(t, p)
  <2>1. ASSUME NEW m \in DOMAIN t[p], NEW n \in DOMAIN t[p], t[p][m][1] = t[p][n][1] PROVE m = n
    <3>1. pending[p][was(m)][1] = pending[p][was(n)][1] BY <1>3, <2>1
    <3>2. was(m) \in DOMAIN pending[p] /\ was(n) \in DOMAIN pending[p] BY <1>3
    <3>3. was(m) = was(n)
      <4> HIDE DEF was
      <4> QED BY <3>1, <3>2 DEF OnceIn
    <3>4. m \in Int /\ n \in Int /\ o \in Int BY <1>1, <1>2
    <3> QED BY <3>3, <3>4
  <2> QED BY <2>1 DEF OnceIn
<1> QED BY <1>4, <1>5 DEF t

(* The two announcements of synchro, one after the other.                  *)
LEMMA TwoAppended == Append(<<"USR1">>, "USR2") = <<"USR1", "USR2">>
<1> DEFINE T == {"USR1", "USR2"}
           s == Append(<<"USR1">>, "USR2")
           t == <<"USR1", "USR2">>
<1>1. <<"USR1">> \in Seq(T) /\ Len(<<"USR1">>) = 1 /\ <<"USR1">>[1] = "USR1" OBVIOUS
<1>2. t \in Seq(T) /\ Len(t) = 2 /\ t[1] = "USR1" /\ t[2] = "USR2" OBVIOUS
<1>3. "USR2" \in T OBVIOUS
<1> HIDE DEF T, t
<1>4. s \in Seq(T) /\ Len(s) = 2 /\ s[1] = "USR1" /\ s[2] = "USR2"
  BY <1>1, <1>3, AppendProperties
<1> HIDE DEF s
<1>5. \A n \in 1 .. Len(s) : s[n] = t[n] BY <1>2, <1>4
<1>6. s = t BY <1>2, <1>4, <1>5, SeqEqual
<1> QED BY <1>6 DEF s, t

(* Every step of synchro preserves the invariant of its two signals.       *)
LEMMA SynchroStepInv ==
  ASSUME Pended, SynchroInv, SynchroStep
  PROVE  Pended' /\ SynchroInv'
<1> DEFINE S == {"RTMIN", "USR1", "USR2"} \X {0}
           none == << >>
           first == <<"USR1">>
           both == <<"USR1", "USR2">>
<1>n. Father \in Procs /\ 0 \in Procs /\ 1 \in Procs /\ Father # 0 /\ Father # 1
  BY NAssumption DEF Procs, Sons, Father
<1>a. /\ none # first /\ first # both /\ none # both
      /\ Append(none, "USR1") = first /\ Append(first, "USR2") = both
  <2>1. none # first OBVIOUS
  <2>2. first # both OBVIOUS
  <2>3. none # both OBVIOUS
  <2>4. Append(none, "USR1") = first OBVIOUS
  <2>5. Append(first, "USR2") = both
    BY TwoAppended
  <2> QED BY <2>1, <2>2, <2>3, <2>4, <2>5
<1>s. <<"USR1", 0>> \in S /\ <<"USR2", 0>> \in S OBVIOUS
<1>0. /\ pending \in [Procs -> Seq(S)] /\ DOMAIN pc = Procs
      /\ log \in {none, first, both} /\ OnceIn(pending, Father)
      /\ HasIn(pending, Father, "USR1") => log = none /\ pc[1] = "end"
      /\ pc[1] # "end" => log = none
      /\ HasIn(pending, Father, "USR2") => pc[0] = "end" /\ log # both
      /\ pc[0] # "end" => log # both
      /\ pc[Father] \in {"handler", "handler before wait"} => log # none
      /\ pc[Father] = "fork" => pc[0] = "none" /\ pc[1] = "none"
      /\ pc[0] = "fork" => pc[1] = "none"
  BY DEF Pended, SynchroInv, Has, HasIn, OnceIn
<1> HIDE DEF S, none, first, both
<1>g. ASSUME /\ pending' \in [Procs -> Seq(S)] /\ DOMAIN pc' = Procs
             /\ log' \in {none, first, both} /\ OnceIn(pending', Father)
             /\ HasIn(pending', Father, "USR1") => log' = none /\ pc'[1] = "end"
             /\ pc'[1] # "end" => log' = none
             /\ HasIn(pending', Father, "USR2") => pc'[0] = "end" /\ log' # both
             /\ pc'[0] # "end" => log' # both
             /\ pc'[Father] \in {"handler", "handler before wait"} => log' # none
             /\ pc'[Father] = "fork" => pc'[0] = "none" /\ pc'[1] = "none"
             /\ pc'[0] = "fork" => pc'[1] = "none"
      PROVE  Pended' /\ SynchroInv'
  BY <1>g DEF Pended, SynchroInv, Has, HasIn, OnceIn, S, none, first, both
<1>1. CASE ForkP(0, Father) \/ ForkP(1, 0)
  <2>1. UNCHANGED <<pending, log>> BY <1>1 DEF ForkP
  <2>2. \/ /\ pc[Father] = "fork" /\ pc'[Father] = "wait" /\ pc'[0] \in {pc[0], "fork"}
           /\ pc'[1] = pc[1] /\ DOMAIN pc' = Procs
        \/ /\ pc[0] = "fork" /\ pc'[0] = "wait" /\ pc'[1] \in {pc[1], "start"}
           /\ pc'[Father] = pc[Father] /\ DOMAIN pc' = Procs
    <3>1. DOMAIN pc = Procs BY <1>0
    <3>2. CASE ForkP(0, Father)
      <4>1. /\ pc[Father] = "fork"
            /\ \/ pc' = [pc EXCEPT ![Father] = "wait", ![0] = "fork"]
               \/ pc' = [pc EXCEPT ![Father] = "wait"]
        BY <3>2 DEF ForkP
      <4> QED BY <1>n, <3>1, <4>1
    <3>3. CASE ForkP(1, 0)
      <4>1. /\ pc[0] = "fork"
            /\ \/ pc' = [pc EXCEPT ![0] = "wait", ![1] = "start"]
               \/ pc' = [pc EXCEPT ![0] = "wait"]
        BY <3>3 DEF ForkP
      <4> QED BY <1>n, <3>1, <4>1
    <3> QED BY <1>1, <3>2, <3>3
  <2>3. /\ pc'[1] = pc[1] \/ (pc[1] = "none" /\ pc'[1] = "start")
        /\ pc'[0] = "end" <=> pc[0] = "end"
    BY <1>0, <2>2
  <2>4. HasIn(pending', Father, "USR1") => log' = none /\ pc'[1] = "end"
    BY <1>0, <2>1, <2>3
  <2>5. /\ pc'[1] # "end" => log' = none
        /\ HasIn(pending', Father, "USR2") => pc'[0] = "end" /\ log' # both
        /\ pc'[0] # "end" => log' # both
    BY <1>0, <2>1, <2>3
  <2>6. /\ pc'[Father] \in {"handler", "handler before wait"} => log' # none
        /\ pc'[Father] = "fork" => pc'[0] = "none" /\ pc'[1] = "none"
        /\ pc'[0] = "fork" => pc'[1] = "none"
    BY <1>0, <2>1, <2>2
  <2> QED BY <1>0, <1>g, <2>1, <2>2, <2>4, <2>5, <2>6
<1>2. CASE TellCreation
  <2>1. /\ pc[1] = "start" /\ pc' = [pc EXCEPT ![1] = "end"]
        /\ pending' = Kill(pending, Father, "USR1") /\ log' = log
    BY <1>2 DEF TellCreation, Goto
  <2>2. /\ pc'[1] = "end" /\ pc'[0] = pc[0] /\ pc'[Father] = pc[Father] /\ DOMAIN pc' = Procs
    <3>1. DOMAIN pc = Procs BY <1>0
    <3> QED BY <1>n, <2>1, <3>1
  <2>3. log = none BY <1>0, <2>1
  <2>4. /\ pending' \in [Procs -> Seq(S)]
        /\ HasIn(pending', Father, "USR2") => HasIn(pending, Father, "USR2")
    <3>1. /\ Kill(pending, Father, "USR1") \in [Procs -> Seq(S)]
          /\ \A r \in Procs : \A s : HasIn(Kill(pending, Father, "USR1"), r, s) =>
               HasIn(pending, r, s) \/ (r = Father /\ s = "USR1")
      BY <1>0, <1>n, <1>s, KillHas
    <3> QED BY <1>n, <2>1, <3>1
  <2>5. OnceIn(pending', Father) BY <1>0, <1>n, <1>s, <2>1, KillOnce
  <2>6. pc[Father] # "fork" /\ pc[0] # "fork" BY <1>0, <2>1
  <2> QED BY <1>0, <1>a, <1>g, <2>1, <2>2, <2>3, <2>4, <2>5, <2>6
<1>3. CASE TellEnding
  <2>1. /\ pc[0] = "wait" /\ pc' = [pc EXCEPT ![0] = "end"]
        /\ pending' = Kill(pending, Father, "USR2") /\ log' = log
    BY <1>3 DEF TellEnding, Goto
  <2>2. /\ pc'[0] = "end" /\ pc'[1] = pc[1] /\ pc'[Father] = pc[Father] /\ DOMAIN pc' = Procs
    <3>1. DOMAIN pc = Procs BY <1>0
    <3> QED BY <1>n, <2>1, <3>1
  <2>3. log # both BY <1>0, <2>1
  <2>4. /\ pending' \in [Procs -> Seq(S)]
        /\ HasIn(pending', Father, "USR1") => HasIn(pending, Father, "USR1")
    <3>1. /\ Kill(pending, Father, "USR2") \in [Procs -> Seq(S)]
          /\ \A r \in Procs : \A s : HasIn(Kill(pending, Father, "USR2"), r, s) =>
               HasIn(pending, r, s) \/ (r = Father /\ s = "USR2")
      BY <1>0, <1>n, <1>s, KillHas
    <3> QED BY <1>n, <2>1, <3>1
  <2>5. OnceIn(pending', Father) BY <1>0, <1>n, <1>s, <2>1, KillOnce
  <2>6. pc[Father] # "fork" BY <1>0, <2>1
  <2> QED BY <1>0, <1>g, <2>1, <2>2, <2>3, <2>4, <2>5, <2>6
<1>4. CASE HandleCreation
  <2>1. /\ Has(Father, "USR1") /\ pc[Father] = "wait"
        /\ \E to \in {"handler", "handler before wait"} : pc' = [pc EXCEPT ![Father] = to]
        /\ pending' = Taken(pending, Father, "USR1") /\ log' = Append(log, "USR1")
    BY <1>4 DEF HandleCreation
  <2>2. /\ pc'[Father] # "fork" /\ pc'[0] = pc[0] /\ pc'[1] = pc[1] /\ DOMAIN pc' = Procs
    <3>1. DOMAIN pc = Procs BY <1>0
    <3> QED BY <1>n, <2>1, <3>1
  <2>3. log = none /\ pc[1] = "end"
    <3>1. HasIn(pending, Father, "USR1") BY <2>1 DEF Has, HasIn
    <3> QED BY <1>0, <3>1
  <2>4. log' = first BY <1>a, <2>1, <2>3
  <2>5. /\ pending' \in [Procs -> Seq(S)]
        /\ HasIn(pending', Father, "USR2") => HasIn(pending, Father, "USR2")
    BY <1>0, <1>n, <2>1, TakenHas
  <2>6. OnceIn(pending', Father) /\ ~ HasIn(pending', Father, "USR1")
    BY <1>0, <1>n, <2>1, TakenOnce
  <2> QED BY <1>0, <1>a, <1>g, <2>2, <2>3, <2>4, <2>5, <2>6
<1>5. CASE HandleEnding
  <2>1. /\ Has(Father, "USR2") /\ "USR2" \notin Held /\ pc' = pc
        /\ pending' = Taken(pending, Father, "USR2") /\ log' = Append(log, "USR2")
    BY <1>5 DEF HandleEnding
  <2>2. pc[Father] \in {"handler", "handler before wait"} BY <2>1 DEF Held
  <2>3. log = first /\ pc[0] = "end"
    <3>1. HasIn(pending, Father, "USR2") BY <2>1 DEF Has, HasIn
    <3> QED BY <1>0, <2>2, <3>1
  <2>4. log' = both BY <1>a, <2>1, <2>3
  <2>5. /\ pending' \in [Procs -> Seq(S)]
        /\ HasIn(pending', Father, "USR1") => HasIn(pending, Father, "USR1")
    BY <1>0, <1>n, <2>1, TakenHas
  <2>6. OnceIn(pending', Father) /\ ~ HasIn(pending', Father, "USR2")
    BY <1>0, <1>n, <2>1, TakenOnce
  <2> QED BY <1>0, <1>a, <1>g, <2>1, <2>2, <2>3, <2>4, <2>5, <2>6
<1>6. CASE ReturnHandler \/ AnnounceP2
  <2>1. /\ UNCHANGED <<pending, log>> /\ DOMAIN pc' = Procs /\ pc'[0] = pc[0] /\ pc'[1] = pc[1]
        /\ pc'[Father] \in {"interrupted", "wait", "end"}
    BY <1>0, <1>6, <1>n DEF ReturnHandler, AnnounceP2, Goto
  <2> QED BY <1>0, <1>g, <2>1
<1> QED BY <1>1, <1>2, <1>3, <1>4, <1>5, <1>6 DEF SynchroStep

(* Every step of these exercises preserves their invariant.                *)
LEMMA ChainsStepInv ==
  ASSUME ChainsInv, [Next]_vars
  PROVE  ChainsInv'
<1>p. program' = program BY ProgramKept
<1>1. CASE program \notin {"ex5", "kill", "synchro"}
  BY <1>1, <1>p, OnlyChains DEF ChainsInv
<1>2. CASE UNCHANGED vars
  BY <1>2 DEF ChainsInv, Pended, Ex5Inv, KillInv, SynchroInv, FromTheEnd, Announced, Has,
    vars, processes, chain
<1>3. CASE ChainNext /\ program = "ex5"
  <2>1. Pended' /\ Ex5Inv' BY <1>3, Ex5StepInv DEF ChainsInv, ChainNext
  <2> QED BY <1>3, <1>p, <2>1 DEF ChainsInv
<1>4. CASE ChainNext /\ program = "kill"
  <2>1. Pended' /\ KillInv' BY <1>4, KillStepInv DEF ChainsInv, ChainNext
  <2> QED BY <1>4, <1>p, <2>1 DEF ChainsInv
<1>5. CASE ChainNext /\ program = "synchro"
  <2>1. Pended' /\ SynchroInv' BY <1>5, SynchroStepInv DEF ChainsInv, ChainNext
  <2> QED BY <1>5, <1>p, <2>1 DEF ChainsInv
<1> QED BY <1>1, <1>2, <1>3, <1>4, <1>5, OnlyChains

(* A sequence that agrees with another as far as it goes is a prefix of    *)
(* it.                                                                     *)
LEMMA PrefixOf ==
  ASSUME NEW S, NEW s \in Seq(S), NEW t \in Seq(S), Len(s) <= Len(t),
         \A n \in 1 .. Len(s) : s[n] = t[n]
  PROVE  IsPrefix(s, t)
<1> DEFINE l == Len(s)
<1>1. l \in Nat /\ Len(t) \in Nat BY LenProperties
<1>2. (\A n \in 1 .. l : s[n] \in S) /\ (\A n \in 1 .. l : t[n] \in S)
  <2>1. \A n \in 1 .. l : n \in 1 .. Len(t) BY <1>1
  <2> QED BY <2>1, ElementOfSeq
<1>3. /\ SubSeq(s, 1, l) \in Seq(S) /\ Len(SubSeq(s, 1, l)) = l
      /\ \A n \in 1 .. l : SubSeq(s, 1, l)[n] = s[n]
  <2>1. /\ SubSeq(s, 1, l) \in Seq(S)
        /\ Len(SubSeq(s, 1, l)) = IF 1 <= l THEN l - 1 + 1 ELSE 0
        /\ \A n \in 1 .. l - 1 + 1 : SubSeq(s, 1, l)[n] = s[1 + n - 1]
    BY <1>1, <1>2, SubSeqProperties
  <2> HIDE DEF l
  <2> QED BY <1>1, <2>1
<1>4. /\ SubSeq(t, 1, l) \in Seq(S) /\ Len(SubSeq(t, 1, l)) = l
      /\ \A n \in 1 .. l : SubSeq(t, 1, l)[n] = t[n]
  <2>1. /\ SubSeq(t, 1, l) \in Seq(S)
        /\ Len(SubSeq(t, 1, l)) = IF 1 <= l THEN l - 1 + 1 ELSE 0
        /\ \A n \in 1 .. l - 1 + 1 : SubSeq(t, 1, l)[n] = t[1 + n - 1]
    BY <1>1, <1>2, SubSeqProperties
  <2> HIDE DEF l
  <2> QED BY <1>1, <2>1
<1>5. SubSeq(s, 1, l) = SubSeq(t, 1, l)
  BY <1>3, <1>4, SeqEqual
<1> QED BY <1>5 DEF IsPrefix

(* The signals pending and the announcements stay as ChainsInv describes,  *)
(* for any number of processes.                                            *)
THEOREM ChainsInvariance == Spec => []ChainsInv
<1>1. Init => ChainsInv BY ChainsInitInv
<1>2. ChainsInv /\ [Next]_vars => ChainsInv' BY ChainsStepInv
<1> QED BY <1>1, <1>2, PTL DEF Spec

(* The processes of ex5 and of kill announce themselves from the last of   *)
(* the chain back, for any length of the chain, and in synchro the         *)
(* creation of P3 is announced before its end.                             *)
THEOREM AnnouncedInOrder == Spec => []InOrder
<1>1. ASSUME ChainsInv PROVE InOrder
  <2>1. ASSUME NEW M \in Nat, Announced \in 0 .. M, FromTheEnd
        PROVE  IsPrefix(log, [n \in 1 .. M |-> N - n])
    <3> DEFINE t == [n \in 1 .. M |-> N - n]
    <3>1. log \in Seq(Int) /\ t \in Seq(Int) BY <2>1, NAssumption DEF FromTheEnd
    <3>2. Len(t) = M OBVIOUS
    <3>3. Len(log) <= M /\ Len(log) \in Nat BY <2>1 DEF Announced
    <3>4. \A n \in 1 .. Len(log) : log[n] = t[n] BY <2>1, <3>3 DEF FromTheEnd, Announced
    <3> HIDE DEF t
    <3>5. IsPrefix(log, t) BY <3>1, <3>2, <3>3, <3>4, PrefixOf
    <3> QED BY <3>5 DEF t
  <2>2. CASE program = "ex5"
    <3>1. IsPrefix(log, [n \in 1 .. N |-> N - n])
      BY <1>1, <2>1, <2>2, NAssumption DEF ChainsInv, Ex5Inv
    <3> QED BY <2>2, <3>1 DEF InOrder, Expected
  <2>3. CASE program = "kill"
    <3>1. N + 1 \in Nat BY NAssumption
    <3>2. IsPrefix(log, [n \in 1 .. N + 1 |-> N - n])
      BY <1>1, <2>1, <2>3, <3>1 DEF ChainsInv, KillInv
    <3> QED BY <2>3, <3>2 DEF InOrder, Expected
  <2>4. CASE program = "synchro"
    <3>1. log \in {<< >>, <<"USR1">>, <<"USR1", "USR2">>}
      BY <1>1, <2>4 DEF ChainsInv, SynchroInv
    <3> DEFINE T == {"USR1", "USR2"}
    <3>2. log \in Seq(T) /\ <<"USR1", "USR2">> \in Seq(T)
      <4>1. CASE log = << >> BY <4>1
      <4>2. CASE log = <<"USR1">> BY <4>2
      <4>3. CASE log = <<"USR1", "USR2">> BY <4>3
      <4> QED BY <3>1, <4>1, <4>2, <4>3
    <3>3. Len(log) <= Len(<<"USR1", "USR2">>)
      <4>1. CASE log = << >> BY <4>1
      <4>2. CASE log = <<"USR1">> BY <4>2
      <4>3. CASE log = <<"USR1", "USR2">> BY <4>3
      <4> QED BY <3>1, <4>1, <4>2, <4>3
    <3>4. \A n \in 1 .. Len(log) : log[n] = <<"USR1", "USR2">>[n] BY <3>1
    <3> HIDE DEF T
    <3>5. IsPrefix(log, <<"USR1", "USR2">>) BY <3>2, <3>3, <3>4, PrefixOf
    <3> QED BY <2>4, <3>5 DEF InOrder, Expected
  <2>5. CASE program \notin {"ex5", "kill", "synchro"}
    <3>1. log = << >> /\ Expected = << >> BY <1>1, <2>5 DEF ChainsInv, Expected
    <3> QED BY <3>1 DEF InOrder, IsPrefix
  <2> QED BY <2>2, <2>3, <2>4, <2>5
<1> QED BY <1>1, ChainsInvariance, PTL
-----------------------------------------------------------------------------
(* The programs that gather values (Gather) *)

(* The values that travel with SIGRTMIN to the father. *)
CarriedBy(q) == [n \in {m \in DOMAIN q[Father] : q[Father][m][1] = "RTMIN"} |-> q[Father][n][2]]

(* A signal queued to anyone adds at most its own value to those under     *)
(* way.                                                                    *)
LEMMA CarriedQueued ==
  ASSUME NEW S, NEW q \in [Procs -> Seq(S)], NEW sig, NEW val, <<sig, val>> \in S
  PROVE  LET t == Sigqueue(q, Father, sig, val)
         IN  /\ t \in [Procs -> Seq(S)]
             /\ \E k : /\ k \notin DOMAIN CarriedBy(q)
                       /\ \A n \in DOMAIN CarriedBy(t) :
                            \/ n \in DOMAIN CarriedBy(q) /\ CarriedBy(t)[n] = CarriedBy(q)[n]
                            \/ n = k /\ sig = "RTMIN" /\ CarriedBy(t)[n] = val
<1> DEFINE s == q[Father]
           more == Append(s, <<sig, val>>)
           t == Sigqueue(q, Father, sig, val)
           k == Len(s) + 1
<1>p. Father \in Procs BY DEF Procs
<1>1. s \in Seq(S) BY <1>p
<1>2. /\ more \in Seq(S) /\ Len(more) = Len(s) + 1
      /\ \A n \in 1 .. Len(s) : more[n] = s[n]
      /\ more[Len(s) + 1] = <<sig, val>>
  BY <1>1, AppendProperties
<1>3. Len(s) \in Nat /\ DOMAIN s = 1 .. Len(s) /\ DOMAIN more = 1 .. Len(more)
  BY <1>1, <1>2, LenProperties
<1> HIDE DEF s, more
<1>4. k \notin DOMAIN CarriedBy(q)
  <2>1. k \notin DOMAIN s BY <1>3
  <2> QED BY <2>1 DEF CarriedBy, s
<1>5. t \in [Procs -> Seq(S)] /\ (t[Father] = s \/ t[Father] = more)
  <2>1. t = q \/ t = [q EXCEPT ![Father] = more] BY DEF Sigqueue, more, s
  <2> QED BY <1>2, <1>p, <2>1 DEF s
<1> HIDE DEF t
<1>6. ASSUME NEW n \in DOMAIN CarriedBy(t)
      PROVE  \/ n \in DOMAIN CarriedBy(q) /\ CarriedBy(t)[n] = CarriedBy(q)[n]
             \/ n = k /\ sig = "RTMIN" /\ CarriedBy(t)[n] = val
  <2>1. n \in DOMAIN t[Father] /\ t[Father][n][1] = "RTMIN" /\ CarriedBy(t)[n] = t[Father][n][2]
    BY DEF CarriedBy
  <2>2. CASE n \in DOMAIN s /\ t[Father][n] = s[n]
    <3>1. n \in DOMAIN CarriedBy(q) /\ CarriedBy(q)[n] = s[n][2] BY <2>1, <2>2 DEF CarriedBy, s
    <3> QED BY <2>1, <2>2, <3>1
  <2>3. CASE t[Father] = more /\ n = k
    <3>1. t[Father][n] = <<sig, val>> BY <1>2, <2>3
    <3> QED BY <2>1, <2>3, <3>1
  <2>4. (n \in DOMAIN s /\ t[Father][n] = s[n]) \/ (t[Father] = more /\ n = k)
    <3>1. CASE t[Father] = s BY <2>1, <3>1
    <3>2. CASE t[Father] = more
      <4>1. n \in 1 .. Len(s) \/ n = Len(s) + 1 BY <1>2, <1>3, <2>1, <3>2
      <4> QED BY <1>2, <1>3, <3>2, <4>1
    <3> QED BY <1>5, <3>1, <3>2
  <2> QED BY <2>2, <2>3, <2>4
<1> QED BY <1>4, <1>5, <1>6 DEF t

(* A signal delivered takes its value from those under way: what is left   *)
(* was there, each at a place of its own.                                  *)
LEMMA CarriedTaken ==
  ASSUME NEW S, pending \in [Procs -> Seq(S)], NEW sig, Has(Father, sig)
  PROVE  LET t == Taken(pending, Father, sig)
             e == CarriedBy(pending)
             o == Oldest(Father, sig)
         IN  /\ t \in [Procs -> Seq(S)]
             /\ pending[Father][o] \in S /\ pending[Father][o][1] = sig
             /\ sig = "RTMIN" => o \in DOMAIN e /\ e[o] = SigValue(Father, sig)
             /\ \E a \in [DOMAIN CarriedBy(t) -> DOMAIN e \ {o}] :
                  /\ \A n \in DOMAIN CarriedBy(t) : CarriedBy(t)[n] = e[a[n]]
                  /\ \A m, n \in DOMAIN CarriedBy(t) : a[m] = a[n] => m = n
<1> DEFINE t == Taken(pending, Father, sig)
           e == CarriedBy(pending)
           o == Oldest(Father, sig)
           s == pending[Father]
           D == DOMAIN CarriedBy(t)
           was(n) == IF n < o THEN n ELSE n + 1
           a == [n \in D |-> was(n)]
<1>p. Father \in Procs BY DEF Procs
<1>1. /\ t \in [Procs -> Seq(S)] /\ o \in 1 .. Len(s) /\ s[o][1] = sig
      /\ Len(s) \in Nat \ {0} /\ Len(t[Father]) = Len(s) - 1
      /\ \A n \in 1 .. Len(s) - 1 : t[Father][n] = s[IF n < o THEN n ELSE n + 1]
  BY <1>p, SignalTaken
<1>2. s \in Seq(S) /\ s[o] \in S BY <1>1, <1>p, ElementOfSeq
<1>3. DOMAIN s = 1 .. Len(s) /\ DOMAIN t[Father] = 1 .. Len(s) - 1
  BY <1>1, <1>2, <1>p, LenProperties
<1>4. sig = "RTMIN" => o \in DOMAIN e /\ e[o] = SigValue(Father, sig)
  BY <1>1, <1>3 DEF CarriedBy, SigValue
<1>5. /\ D \subseteq 1 .. Len(s) - 1
      /\ \A n \in D : t[Father][n][1] = "RTMIN" /\ CarriedBy(t)[n] = t[Father][n][2]
  BY <1>3 DEF CarriedBy
<1>6. \A n \in DOMAIN s : s[n][1] = "RTMIN" => n \in DOMAIN e /\ e[n] = s[n][2]
  BY DEF CarriedBy
<1> HIDE DEF t, e, o, s, D
<1>7. ASSUME NEW n \in D
      PROVE  was(n) \in DOMAIN e \ {o} /\ CarriedBy(t)[n] = e[was(n)]
  <2>1. n \in 1 .. Len(s) - 1 BY <1>5
  <2>2. was(n) \in 1 .. Len(s) /\ was(n) # o BY <1>1, <2>1
  <2>3. t[Father][n] = s[was(n)] BY <1>1, <2>1
  <2> HIDE DEF was
  <2>4. s[was(n)][1] = "RTMIN" BY <1>5, <2>3
  <2> QED BY <1>3, <1>5, <1>6, <2>2, <2>3, <2>4
<1>8. ASSUME NEW m \in D, NEW n \in D, was(m) = was(n) PROVE m = n
  <2>1. m \in Int /\ n \in Int /\ o \in Int BY <1>1, <1>5
  <2> QED BY <1>8, <2>1
<1> HIDE DEF was
<1>9. /\ a \in [D -> DOMAIN e \ {o}] /\ \A n \in D : CarriedBy(t)[n] = e[a[n]]
      /\ \A m, n \in D : a[m] = a[n] => m = n
  BY <1>7, <1>8
<1> HIDE DEF a
<1> QED BY <1>1, <1>2, <1>4, <1>9 DEF t, e, o, s, D

(* What is read and under way stays carried when fewer values are under    *)
(* way, when a new one is sent, and when one under way is read.            *)
LEMMA CarriedFewer ==
  ASSUME NEW s, NEW e, NEW T, Carried(s, e, T), NEW e2, NEW T2, T \subseteq T2,
         NEW a \in [DOMAIN e2 -> DOMAIN e],
         \A n \in DOMAIN e2 : e2[n] = e[a[n]],
         \A m, n \in DOMAIN e2 : a[m] = a[n] => m = n
  PROVE  Carried(s, e2, T2)
<1>1. \A n \in DOMAIN e2 : a[n] \in DOMAIN e OBVIOUS
<1> QED BY <1>1 DEF Carried

(* A new value under way keeps the values apart.                           *)
LEMMA CarriedMore ==
  ASSUME NEW s, NEW e, NEW T, Carried(s, e, T), NEW v, v \notin T, NEW e2,
         \A n \in DOMAIN e2 : (n \in DOMAIN e /\ e2[n] = e[n]) \/ e2[n] = v,
         \A m, n \in DOMAIN e2 : e2[m] = v /\ e2[n] = v => m = n
  PROVE  Carried(s, e2, T \cup {v})
BY DEF Carried

(* A value under way that is read keeps the values apart.                  *)
LEMMA CarriedRead ==
  ASSUME NEW S, NEW s \in Seq(S), NEW e, NEW T, Carried(s, e, T), NEW o \in DOMAIN e, e[o] \in S,
         NEW e2, NEW a \in [DOMAIN e2 -> DOMAIN e \ {o}],
         \A n \in DOMAIN e2 : e2[n] = e[a[n]],
         \A m, n \in DOMAIN e2 : a[m] = a[n] => m = n
  PROVE  Carried(Append(s, e[o]), e2, T)
<1> DEFINE s2 == Append(s, e[o])
           l == Len(s) + 1
<1>1. /\ s2 \in Seq(S) /\ Len(s2) = Len(s) + 1 /\ \A n \in 1 .. Len(s) : s2[n] = s[n]
      /\ s2[Len(s) + 1] = e[o]
  BY AppendProperties
<1>2. Len(s) \in Nat /\ DOMAIN s = 1 .. Len(s) /\ DOMAIN s2 = 1 .. Len(s2)
  BY <1>1, LenProperties
<1> HIDE DEF s2
<1>3. \A n \in DOMAIN s2 : (n \in DOMAIN s /\ s2[n] = s[n]) \/ (n = l /\ s2[n] = e[o])
  <2>1. \A n \in DOMAIN s2 : n \in 1 .. Len(s) \/ n = l BY <1>1, <1>2
  <2> QED BY <1>1, <1>2, <2>1
<1> HIDE DEF l
<1>4. \A n \in DOMAIN e2 : a[n] \in DOMAIN e /\ a[n] # o OBVIOUS
<1>5. Carried(s2, e2, T) BY <1>3, <1>4 DEF Carried
<1> QED BY <1>5 DEF s2

(* A sequence of different values of a finite set has at most as many      *)
(* elements, and has them all if it has as many.                           *)
LEMMA AllOfThem ==
  ASSUME NEW S, NEW s \in Seq(S), NEW T, IsFiniteSet(T), \A n \in DOMAIN s : s[n] \in T,
         \A m, n \in DOMAIN s : s[m] = s[n] => m = n
  PROVE  /\ Len(s) <= Cardinality(T)
         /\ Len(s) = Cardinality(T) => Range(s) = T
<1> DEFINE D == 1 .. Len(s)
<1>1. Len(s) \in Nat /\ DOMAIN s = D BY LenProperties
<1>2. IsFiniteSet(D) /\ Cardinality(D) = Len(s)
  <2>1. 1 \in Int /\ Len(s) \in Int BY <1>1
  <2>2. IsFiniteSet(D) /\ Cardinality(D) = IF 1 > Len(s) THEN 0 ELSE Len(s) - 1 + 1
    BY <2>1, FS_Interval
  <2> HIDE DEF D
  <2> QED BY <1>1, <2>2
<1>3. s \in [D -> T]
  <2>1. s = [n \in D |-> s[n]] BY <1>1, LenProperties
  <2> QED BY <1>1, <2>1
<1>4. s \in Injection(D, T) BY <1>1, <1>3 DEF Injection, IsInjective
<1>5. Cardinality(D) <= Cardinality(T) /\ (Cardinality(D) = Cardinality(T) => s \in Surjection(D, T))
  BY <1>4, FS_Injection
<1>6. s \in Surjection(D, T) => Range(s) = T
  BY <1>1, <1>3 DEF Surjection, Range
<1> QED BY <1>2, <1>5, <1>6

(* A step of a program that gathers values is one of its actions or an     *)
(* event.                                                                  *)
LEMMA GatherOnly ==
  ASSUME [Next]_vars, program \in GatherPrograms
  PROVE  GatherStep \/ GatherEvent \/ UNCHANGED vars
BY DEF Next, Step, Event, ChainPrograms, GatherPrograms, BarrierPrograms, ThreadPrograms,
  JobPrograms, EnvPrograms, ReversePrograms, AcceptPrograms

(* The sons of a program, and their number.                                *)
LEMMA ForkedOnes ==
  /\ N \in Nat /\ N >= 2 /\ Forked \subseteq Sons /\ Sons \subseteq Procs
  /\ Father \in Procs /\ Father \notin Sons /\ Father \notin Forked
  /\ IsFiniteSet(Forked) /\ Cardinality(Forked) \in Nat \ {0}
  /\ program \in GatherPrograms \ {"mq_example"} => Forked = 0 .. N - 1 /\ Cardinality(Forked) = N
  /\ program = "mq_example" => Forked = {0} /\ Cardinality(Forked) = 1
<1>1. N \in Nat /\ N >= 2 BY NAssumption
<1>2. /\ Forked \subseteq Sons /\ Sons \subseteq Procs /\ Father \in Procs
      /\ Father \notin Sons
  BY <1>1 DEF Forked, Sons, Procs, Father
<1> DEFINE firsts == 0 .. N - 1
           all == 0 .. N
<1>3. IsFiniteSet(firsts) /\ Cardinality(firsts) = N
  <2>1. IsFiniteSet(firsts) /\ Cardinality(firsts) = IF 0 > N - 1 THEN 0 ELSE (N - 1) - 0 + 1
    BY <1>1, FS_Interval
  <2> HIDE DEF firsts
  <2> QED BY <1>1, <2>1
<1>4. IsFiniteSet(all) /\ Cardinality(all) = N + 1
  <2>1. IsFiniteSet(all) /\ Cardinality(all) = IF 0 > N THEN 0 ELSE N - 0 + 1
    BY <1>1, FS_Interval
  <2> HIDE DEF all
  <2> QED BY <1>1, <2>1
<1>5. IsFiniteSet({0}) /\ Cardinality({0}) = 1 BY FS_Singleton
<1>6. /\ program = "ex7" => Forked = all
      /\ program = "mq_example" => Forked = {0}
      /\ program \notin {"ex7", "mq_example"} => Forked = firsts
  BY DEF Forked
<1>7. program \in GatherPrograms \ {"mq_example"} => program \notin {"ex7", "mq_example"}
  BY DEF GatherPrograms
<1> HIDE DEF firsts, all
<1>8. IsFiniteSet(Forked) /\ Cardinality(Forked) \in Nat \ {0}
  <2>1. CASE program = "ex7" BY <1>1, <1>4, <1>6, <2>1
  <2>2. CASE program = "mq_example" BY <1>5, <1>6, <2>2
  <2>3. CASE program \notin {"ex7", "mq_example"} BY <1>1, <1>3, <1>6, <2>3
  <2> QED BY <2>1, <2>2, <2>3
<1>9. /\ program \in GatherPrograms \ {"mq_example"} => Forked = firsts /\ Cardinality(Forked) = N
      /\ program = "mq_example" => Forked = {0} /\ Cardinality(Forked) = 1
  BY <1>3, <1>5, <1>6, <1>7
<1> QED BY <1>1, <1>2, <1>8, <1>9 DEF firsts

(* The invariant of the programs that gather values holds before the first *)
(* fork.                                                                   *)
LEMMA GatherInitInv == Init => GatherInv
<1> SUFFICES ASSUME Init PROVE GatherInv OBVIOUS
<1>1. /\ pc = [p \in Procs |-> IF p = Father THEN "fork" ELSE "none"]
      /\ pending = [p \in Procs |-> << >>] /\ reaped = {} /\ failed = FALSE
      /\ round = 1 /\ mem = [p \in Sons |-> Zero] /\ queue = << >> /\ res = << >>
      /\ nb = 0 /\ order = << >> /\ dirty = FALSE
  BY DEF Init, ProcessesInit, GatherInit
<1>n. /\ N \in Nat /\ N >= 2 /\ Forked \subseteq Sons /\ Sons \subseteq Procs
      /\ Father \in Procs /\ Father \notin Sons
  BY ForkedOnes
<1>2. /\ pc[Father] = "fork" /\ \A p \in Forked : pc[p] = "none"
      /\ \A p \in Procs : pending[p] = << >>
      /\ \A p \in Sons : mem[p] = Zero
  BY <1>1, <1>n
<1>3. 0 \in Sons BY <1>n DEF Sons
<1>4. GatherTypeOK
  <2>1. << >> \in Seq(Cells) BY EmptySeq
  <2>2. Zero \in Cells BY <1>3 DEF Zero, Cells
  <2> QED BY <1>1, <2>1, <2>2 DEF GatherTypeOK
<1>5. Summed BY <1>1, <1>2 DEF Summed
<1>6. SegmentInv BY <1>1, <1>2 DEF SegmentInv
<1>7. \A e, T : (DOMAIN e = {}) => Carried(res, e, T) BY <1>1 DEF Carried
<1>8. QueueInv
  <2>1. DOMAIN queue = {} BY <1>1
  <2> QED BY <1>2, <1>7, <2>1 DEF QueueInv
<1>9. DOMAIN WithSignal = {} BY <1>2, <1>n DEF WithSignal
<1>10. Ex6Inv
  <2> DEFINE S == ({"RTMIN"} \X Cells) \cup ({"CHLD"} \X {0})
  <2>1. << >> \in Seq(S) BY EmptySeq
  <2> HIDE DEF S
  <2>2. pending \in [Procs -> Seq(S)] BY <1>1, <2>1
  <2>3. Len(res) = 0 /\ nb = 0 BY <1>1
  <2> QED BY <1>2, <1>7, <1>9, <2>2, <2>3 DEF Ex6Inv, S
<1>11. Ex3Inv
  <2> DEFINE S == {"RTMIN", "RTMIN+1"} \X Sons
  <2>1. << >> \in Seq(S) /\ << >> \in Seq(Sons) BY EmptySeq
  <2> HIDE DEF S
  <2>2. pending \in [Procs -> Seq(S)] /\ order \in Seq(Sons) BY <1>1, <2>1
  <2>3. Len(res) = 0 /\ Len(order) = 0 /\ nb = 0 BY <1>1
  <2>4. DOMAIN res = {} /\ DOMAIN order = {} BY <1>1
  <2> QED BY <1>2, <1>9, <1>n, <2>2, <2>3, <2>4 DEF Ex3Inv, S
<1> QED BY <1>4, <1>5, <1>6, <1>8, <1>10, <1>11 DEF GatherInv

(* One step of the programs over what outlives the processes. *)
LEMMA PersistentStepInv ==
  ASSUME program \in Persistent, program' = program, PersistentStep \/ CtrlC \/ Again,
         GatherTypeOK, Summed, program \in Segments => SegmentInv,
         program \in Persistent \ Segments => QueueInv
  PROVE  /\ GatherTypeOK' /\ Summed'
         /\ program \in Segments => SegmentInv'
         /\ program \in Persistent \ Segments => QueueInv'
<1> DEFINE c == Cardinality(Forked)
           mine == program \in Segments
           one == program = "mq_example"
           T == SentBy({"end"})
           Good == /\ GatherTypeOK' /\ Summed'
                   /\ program \in Segments => SegmentInv'
                   /\ program \in Persistent \ Segments => QueueInv'
<1>n. /\ N \in Nat /\ N >= 2 /\ Forked \subseteq Sons /\ Sons \subseteq Procs
      /\ Father \in Procs /\ Father \notin Sons /\ Father \notin Forked /\ c \in Nat \ {0}
      /\ ~ one => Forked = 0 .. N - 1 /\ c = N
      /\ one => Forked = {0} /\ c = 1
      /\ mine => ~ one
  BY ForkedOnes DEF Persistent, GatherPrograms, Segments
<1>f. Forked' = Forked BY DEF Forked
<1>t. /\ DOMAIN pc = Procs /\ round \in Nat \ {0} /\ mem \in [Sons -> Cells]
      /\ res \in Seq(Cells) /\ queue \in Seq(Cells) /\ nb \in Nat
  BY DEF GatherTypeOK
<1>s. /\ pc[Father] \in {"fork", "wait", "collect", "end", "killed"}
      /\ ~ one => /\ \A p \in reaped : p \in Forked /\ pc[p] = "end"
                  /\ pc[Father] = "collect" => \A p \in Forked : pc[p] = "end"
      /\ pc[Father] = "end" /\ ~ failed => Len(res) = c
  BY DEF Summed
<1>m. mine => /\ \A n \in DOMAIN res : res[n] = <<round, n - 1>>
              /\ pc[Father] # "end" => \A p \in Forked : pc[p] = "end" => mem[p] = <<round, p>>
  BY DEF SegmentInv, MyValue
<1>q. ~ mine => /\ ~ dirty => Carried(res, queue, T)
                /\ program = "fileMSG" /\ pc[Father] = "end" /\ ~ failed =>
                     queue = << >> /\ \A p \in Forked : pc[p] = "end"
  BY DEF QueueInv
<1>T. T = {<<round, p>> : p \in {q \in Forked : pc[q] = "end"}} BY DEF SentBy, MyValue
<1> DEFINE T2 == {<<round', p>> : p \in {q \in Forked : pc'[q] = "end"}}
<1> HIDE DEF T
<1>g. ASSUME /\ DOMAIN pc' = Procs /\ round' \in Nat \ {0} /\ mem' \in [Sons -> Cells]
             /\ res' \in Seq(Cells) /\ queue' \in Seq(Cells) /\ nb' = nb
             /\ pc'[Father] \in {"fork", "wait", "collect", "end", "killed"}
             /\ ~ one => /\ \A p \in reaped' : p \in Forked /\ pc'[p] = "end"
                         /\ pc'[Father] = "collect" => \A p \in Forked : pc'[p] = "end"
             /\ pc'[Father] = "end" /\ ~ failed' => Len(res') = c
             /\ mine => /\ \A n \in DOMAIN res' : res'[n] = <<round', n - 1>>
                        /\ pc'[Father] # "end" =>
                             \A p \in Forked : pc'[p] = "end" => mem'[p] = <<round', p>>
             /\ ~ mine => /\ ~ dirty' => Carried(res', queue', T2)
                          /\ program = "fileMSG" /\ pc'[Father] = "end" /\ ~ failed' =>
                               queue' = << >> /\ \A p \in Forked : pc'[p] = "end"
      PROVE  Good
  <2>1. GatherTypeOK' BY <1>g, <1>t DEF GatherTypeOK
  <2>2. Summed' BY <1>f, <1>g DEF Summed
  <2>3. mine => SegmentInv' BY <1>f, <1>g DEF SegmentInv, MyValue
  <2>4. SentBy({"end"})' = T2 BY <1>f DEF SentBy, MyValue
  <2>5. ~ mine => QueueInv'
    <3> HIDE DEF T2
    <3> QED BY <1>f, <1>g, <2>4 DEF QueueInv
  <2> QED BY <2>1, <2>2, <2>3, <2>5
<1>1. CASE \/ (Fork \/ EndFork(ToCollect)) /\ UNCHANGED <<store, res, nb>>
           \/ program # "mq_example" /\ ForkFailure /\ UNCHANGED <<store, res, nb>>
           \/ ForkNone \/ WaitProducers
  <2>1. UNCHANGED <<round, mem, queue, order, dirty, res, nb>>
    BY <1>1 DEF ForkNone, WaitProducers, store
  <2>2. /\ DOMAIN pc' = Procs /\ pc[Father] \in {"fork", "wait"}
        /\ \A p \in Forked : pc'[p] = pc[p] \/ (pc[p] = "none" /\ pc'[p] = "start")
        /\ \A p \in reaped' : p \in reaped \/ (p \in Forked /\ pc[p] = "end")
        /\ \/ pc'[Father] \in {"fork", "wait"}
           \/ pc'[Father] = "collect" /\ (~ one => reaped = Forked)
           \/ pc'[Father] = "end" /\ failed'
    <3>1. CASE Fork
      <4>1. /\ pc[Father] = "fork" /\ UNCHANGED <<reaped, failed>>
            /\ \E p \in Forked : pc[p] = "none" /\ pc' = [pc EXCEPT ![p] = "start"]
        BY <3>1 DEF Fork
      <4> QED BY <1>n, <1>t, <4>1
    <3>2. CASE EndFork(ToCollect)
      <4>1. /\ pc[Father] = "fork" /\ UNCHANGED <<reaped, failed>>
            /\ pc' = [pc EXCEPT ![Father] = IF one THEN "collect" ELSE "wait"]
        BY <3>2 DEF EndFork, Goto, ToCollect
      <4> QED BY <1>n, <1>t, <4>1
    <3>3. CASE ForkFailure
      <4>1. /\ pc[Father] = "fork" /\ reaped' = reaped /\ failed' = TRUE
            /\ pc' = [pc EXCEPT ![Father] = "end"]
        BY <3>3 DEF ForkFailure, Goto
      <4> QED BY <1>n, <1>t, <4>1
    <3>4. CASE ForkNone
      <4>1. /\ pc[Father] = "fork" /\ reaped' = reaped /\ one
            /\ pc' = [pc EXCEPT ![Father] = "collect"]
        BY <3>4 DEF ForkNone, Goto
      <4> QED BY <1>n, <1>t, <4>1
    <3>5. CASE WaitProducers
      <4>1. /\ pc[Father] = "wait" /\ failed' = failed
            /\ \/ reaped = Forked /\ reaped' = reaped /\ pc' = [pc EXCEPT ![Father] = "collect"]
               \/ /\ \E p \in Forked : pc[p] = "end" /\ reaped' = reaped \cup {p}
                  /\ pc' = pc
        BY <3>5 DEF WaitProducers, Goto, Reap
      <4> QED BY <1>n, <1>t, <4>1
    <3> QED BY <1>1, <3>1, <3>2, <3>3, <3>4, <3>5
  <2>3. \A p \in Forked : pc'[p] = "end" <=> pc[p] = "end" BY <2>2
  <2>4. T2 = T BY <1>T, <2>1, <2>3
  <2> HIDE DEF T2
  <2>5. ~ one => /\ \A p \in reaped' : p \in Forked /\ pc'[p] = "end"
                 /\ pc'[Father] = "collect" => \A p \in Forked : pc'[p] = "end"
    BY <1>s, <2>2, <2>3
  <2>6. pc'[Father] = "end" => failed' BY <2>2
  <2>7. ~ mine /\ ~ dirty' => Carried(res', queue', T2)
    <3>1. ~ mine /\ ~ dirty => Carried(res, queue, T) BY <1>q
    <3> QED BY <2>1, <2>4, <3>1
  <2>8. mine => /\ \A n \in DOMAIN res' : res'[n] = <<round', n - 1>>
                /\ \A p \in Forked : pc'[p] = "end" => mem'[p] = <<round', p>>
    BY <1>m, <2>1, <2>2, <2>3
  <2> QED BY <1>g, <1>t, <2>1, <2>2, <2>5, <2>6, <2>7, <2>8
<1>2. CASE Collect
  <2>1. /\ pc[Father] = "collect" /\ Len(res) < c
        /\ mine => res' = Append(res, mem[Len(res)]) /\ queue' = queue
        /\ ~ mine => queue # << >> /\ res' = Append(res, Head(queue)) /\ queue' = Tail(queue)
        /\ UNCHANGED <<pc, reaped, failed, round, mem, nb, dirty>>
    BY <1>2 DEF Collect, processes
  <2>2. Len(res) \in Nat /\ DOMAIN res = 1 .. Len(res) BY <1>t, LenProperties
  <2>3. T2 = T BY <1>T, <2>1
  <2> HIDE DEF T2
  <2>4. CASE mine
    <3> DEFINE v == mem[Len(res)]
    <3>1. Len(res) \in Forked /\ ~ one BY <1>n, <2>1, <2>2, <2>4
    <3>2. v = <<round, Len(res)>> BY <1>m, <1>s, <2>1, <2>4, <3>1
    <3>3. v \in Cells BY <1>n, <1>t, <3>1
    <3> HIDE DEF v
    <3>4. /\ res' \in Seq(Cells) /\ Len(res') = Len(res) + 1
          /\ \A n \in 1 .. Len(res) : res'[n] = res[n]
          /\ res'[Len(res) + 1] = v
      <4>1. res' = Append(res, v) BY <2>1, <2>4 DEF v
      <4> QED BY <1>t, <3>3, <4>1, AppendProperties
    <3>5. DOMAIN res' = 1 .. Len(res') BY <3>4, LenProperties
    <3>6. ASSUME NEW n \in DOMAIN res' PROVE res'[n] = <<round', n - 1>>
      <4>1. n \in 1 .. Len(res) \/ n = Len(res) + 1 BY <2>2, <3>4, <3>5
      <4>2. CASE n \in 1 .. Len(res)
        <5>1. res[n] = <<round, n - 1>> BY <1>m, <2>2, <2>4, <4>2
        <5> QED BY <2>1, <3>4, <4>2, <5>1
      <4>3. CASE n = Len(res) + 1
        <5>1. n - 1 = Len(res) BY <2>2, <4>3
        <5> QED BY <2>1, <3>2, <3>4, <4>3, <5>1
      <4> QED BY <4>1, <4>2, <4>3
    <3> QED BY <1>g, <1>m, <1>s, <1>t, <2>1, <2>4, <3>4, <3>6
  <2>5. CASE ~ mine
    <3>1. /\ Head(queue) \in Cells /\ queue' \in Seq(Cells)
          /\ Len(queue) \in Nat \ {0} /\ DOMAIN queue = 1 .. Len(queue)
          /\ Len(queue') = Len(queue) - 1 /\ DOMAIN queue' = 1 .. Len(queue')
          /\ \A n \in 1 .. Len(queue') : queue'[n] = queue[n + 1]
          /\ Head(queue) = queue[1]
      <4>1. queue \in Seq(Cells) /\ queue # << >> /\ queue' = Tail(queue) BY <1>t, <2>1, <2>5
      <4>2. /\ Head(queue) \in Cells /\ queue' \in Seq(Cells) /\ Len(queue') = Len(queue) - 1
            /\ \A n \in 1 .. Len(queue') : queue'[n] = queue[n + 1]
        BY <4>1, HeadTailProperties
      <4>3. Len(queue) \in Nat \ {0} /\ DOMAIN queue = 1 .. Len(queue)
        BY <4>1, EmptySeq, LenProperties
      <4>4. DOMAIN queue' = 1 .. Len(queue') BY <4>2, LenProperties
      <4>5. Head(queue) = queue[1] BY <4>1
      <4> QED BY <4>2, <4>3, <4>4, <4>5
    <3>2. res' \in Seq(Cells)
      <4> DEFINE h == Head(queue)
      <4>1. h \in Cells /\ res' = Append(res, h) BY <2>1, <2>5, <3>1
      <4> HIDE DEF h
      <4> QED BY <1>t, <4>1, AppendProperties
    <3>3. ASSUME ~ dirty' PROVE Carried(res', queue', T2)
      <4> DEFINE a == [n \in DOMAIN queue' |-> n + 1]
      <4>1. Carried(res, queue, T) BY <1>q, <2>1, <2>5, <3>3
      <4>2. 1 \in DOMAIN queue /\ queue[1] \in Cells BY <3>1
      <4>3. \A n \in DOMAIN queue' : n + 1 \in DOMAIN queue \ {1} BY <3>1
      <4>4. /\ a \in [DOMAIN queue' -> DOMAIN queue \ {1}]
            /\ \A n \in DOMAIN queue' : queue'[n] = queue[a[n]]
        BY <3>1, <4>3
      <4>5. \A m, n \in DOMAIN queue' : a[m] = a[n] => m = n BY <3>1
      <4> HIDE DEF a
      <4>6. Carried(Append(res, queue[1]), queue', T)
        BY <1>t, <4>1, <4>2, <4>4, <4>5, CarriedRead
      <4> QED BY <2>1, <2>3, <2>5, <3>1, <4>6
    <3> QED BY <1>g, <1>s, <1>t, <2>1, <2>5, <3>1, <3>2, <3>3
  <2> QED BY <2>4, <2>5
<1>3. CASE RemoveObject
  <2>1. /\ Len(res) = c /\ pc[Father] = "collect" /\ pc' = [pc EXCEPT ![Father] = "end"]
        /\ mem' = [p \in Sons |-> Zero] /\ queue' = IF one THEN queue ELSE << >>
        /\ UNCHANGED <<reaped, failed, round, res, nb, dirty>>
    BY <1>3 DEF RemoveObject, Goto, Left
  <2>2. /\ DOMAIN pc' = Procs /\ pc'[Father] = "end" /\ \A p \in Forked : pc'[p] = pc[p]
    BY <1>n, <1>t, <2>1
  <2>3. mem' \in [Sons -> Cells]
    <3>1. 0 \in Sons BY <1>n DEF Sons
    <3>2. Zero \in Cells BY <3>1 DEF Zero, Cells
    <3> QED BY <2>1, <3>2
  <2>4. queue' \in Seq(Cells) BY <1>t, <2>1, EmptySeq
  <2>5. T2 = T BY <1>T, <2>1, <2>2
  <2> HIDE DEF T2
  <2>6. ASSUME ~ mine, ~ dirty' PROVE Carried(res', queue', T2)
    <3>1. Carried(res, queue, T) BY <1>q, <2>1, <2>6
    <3>2. CASE one BY <2>1, <2>5, <3>1, <3>2
    <3>3. CASE ~ one
      <4>1. DOMAIN queue' = {} BY <2>1, <3>3
      <4>2. Carried(res, queue', T) BY <3>1, <4>1 DEF Carried
      <4> QED BY <2>1, <2>5, <4>2
    <3> QED BY <3>2, <3>3
  <2>7. ASSUME ~ mine, program = "fileMSG"
        PROVE  queue' = << >> /\ \A p \in Forked : pc'[p] = "end"
    BY <1>s, <2>1, <2>2, <2>7
  <2>8. ~ one => \A p \in reaped' : p \in Forked /\ pc'[p] = "end" BY <1>s, <2>1, <2>2
  <2>9. mine => \A n \in DOMAIN res' : res'[n] = <<round', n - 1>> BY <1>m, <2>1
  <2> QED BY <1>g, <1>t, <2>1, <2>2, <2>3, <2>4, <2>6, <2>7, <2>8, <2>9
<1>4. ASSUME NEW p \in Forked, Produce(p) PROVE Good
  <2>1. /\ pc[p] = "start" /\ pc' = [pc EXCEPT ![p] = "end"]
        /\ mine => mem' = [mem EXCEPT ![p] = <<round, p>>] /\ queue' = queue
        /\ ~ mine => queue' = Append(queue, <<round, p>>) /\ mem' = mem
        /\ UNCHANGED <<reaped, failed, round, res, nb, dirty>>
    BY <1>4 DEF Produce, Goto, MyValue
  <2>2. /\ DOMAIN pc' = Procs /\ pc'[Father] = pc[Father] /\ pc'[p] = "end"
        /\ \A q \in Forked : q # p => pc'[q] = pc[q]
    BY <1>n, <1>t, <2>1
  <2> DEFINE v == <<round, p>>
  <2>3. v \in Cells BY <1>n, <1>t DEF Cells
  <2>4. ~ one => /\ \A q \in reaped' : q \in Forked /\ pc'[q] = "end"
                 /\ pc'[Father] = "collect" => \A q \in Forked : pc'[q] = "end"
    BY <1>s, <2>1, <2>2
  <2>5. pc'[Father] = "end" /\ ~ failed' => Len(res') = c BY <1>s, <2>1, <2>2
  <2>6. CASE mine
    <3>1. mem' \in [Sons -> Cells] BY <1>n, <1>t, <2>1, <2>3, <2>6
    <3>2. ASSUME pc'[Father] # "end", NEW q \in Forked, pc'[q] = "end"
          PROVE  mem'[q] = <<round', q>>
      <4>1. CASE q = p BY <1>n, <1>t, <2>1, <2>6, <4>1
      <4>2. CASE q # p
        <5>1. mem[q] = <<round, q>> BY <1>m, <2>2, <2>6, <3>2, <4>2
        <5> QED BY <1>n, <1>t, <2>1, <2>6, <4>2, <5>1
      <4> QED BY <4>1, <4>2
    <3>3. \A n \in DOMAIN res' : res'[n] = <<round', n - 1>> BY <1>m, <2>1, <2>6
    <3> QED BY <1>g, <1>s, <1>t, <2>1, <2>2, <2>4, <2>5, <2>6, <3>1, <3>2, <3>3
  <2>7. CASE ~ mine
    <3>1. /\ queue' \in Seq(Cells) /\ Len(queue') = Len(queue) + 1
          /\ \A n \in 1 .. Len(queue) : queue'[n] = queue[n]
          /\ queue'[Len(queue) + 1] = v
      <4>1. queue' = Append(queue, v) BY <2>1, <2>7
      <4> HIDE DEF v
      <4> QED BY <1>t, <2>3, <4>1, AppendProperties
    <3>2. /\ Len(queue) \in Nat /\ DOMAIN queue = 1 .. Len(queue)
          /\ DOMAIN queue' = 1 .. Len(queue')
      BY <1>t, <3>1, LenProperties
    <3>3. ASSUME ~ dirty' PROVE Carried(res', queue', T2)
      <4> DEFINE k == Len(queue) + 1
      <4>1. Carried(res, queue, T) BY <1>q, <2>1, <2>7, <3>3
      <4>2. v \notin T BY <1>T, <2>1
      <4>3. T2 = T \cup {v} BY <1>T, <2>1, <2>2
      <4> HIDE DEF T2, v
      <4>4. \A n \in DOMAIN queue' :
              (n \in DOMAIN queue /\ queue'[n] = queue[n]) \/ (n = k /\ queue'[n] = v)
        <5>1. \A n \in DOMAIN queue' : n \in 1 .. Len(queue) \/ n = k BY <3>1, <3>2
        <5> QED BY <3>1, <3>2, <5>1
      <4> HIDE DEF k
      <4>5. Carried(res, queue', T \cup {v})
        <5>1. /\ \A n \in DOMAIN queue' :
                   (n \in DOMAIN queue /\ queue'[n] = queue[n]) \/ queue'[n] = v
              /\ \A m, n \in DOMAIN queue' : queue'[m] = v /\ queue'[n] = v => m = n
          BY <4>1, <4>2, <4>4 DEF Carried
        <5> QED BY <4>1, <4>2, <5>1, CarriedMore
      <4> QED BY <2>1, <4>3, <4>5
    <3>4. program = "fileMSG" /\ pc'[Father] = "end" => failed'
      BY <1>q, <2>1, <2>2, <2>7
    <3> HIDE DEF T2
    <3> QED BY <1>g, <1>s, <1>t, <2>1, <2>2, <2>4, <2>5, <2>7, <3>1, <3>3, <3>4
  <2> QED BY <2>6, <2>7
<1>5. CASE CtrlC
  <2>1. /\ Alive(Father) /\ pc' = [p \in Procs |-> IF Alive(p) THEN "killed" ELSE pc[p]]
        /\ UNCHANGED <<reaped, failed, round, mem, queue, res, nb, dirty>>
    BY <1>5 DEF CtrlC, store
  <2>2. /\ DOMAIN pc' = Procs /\ pc'[Father] = "killed"
        /\ \A p \in Forked : pc'[p] = "end" <=> pc[p] = "end"
    BY <1>n, <2>1 DEF Alive
  <2>3. T2 = T BY <1>T, <2>1, <2>2
  <2> HIDE DEF T2
  <2>4. pc[Father] # "end" BY <2>1 DEF Alive
  <2>5. ~ mine /\ ~ dirty' => Carried(res', queue', T2)
    <3>1. ~ mine /\ ~ dirty => Carried(res, queue, T) BY <1>q
    <3> QED BY <2>1, <2>3, <3>1
  <2>6. mine => /\ \A n \in DOMAIN res' : res'[n] = <<round', n - 1>>
                /\ \A p \in Forked : pc'[p] = "end" => mem'[p] = <<round', p>>
    BY <1>m, <2>1, <2>2, <2>4
  <2>7. ~ one => \A p \in reaped' : p \in Forked /\ pc'[p] = "end" BY <1>s, <2>1, <2>2
  <2> QED BY <1>g, <1>t, <2>1, <2>2, <2>5, <2>6, <2>7
<1>6. CASE Again
  <2>1. /\ round' = round + 1 /\ ~ Alive(Father)
        /\ pc' = [p \in Procs |-> IF p = Father THEN "fork" ELSE "none"]
        /\ reaped' = {} /\ res' = << >> /\ failed' = FALSE
        /\ ~ dirty' => pc[Father] # "killed" /\ ~ failed /\ (one => ~ dirty)
        /\ UNCHANGED <<mem, queue, nb>>
    BY <1>6, <1>n DEF Again
  <2>2. /\ DOMAIN pc' = Procs /\ pc'[Father] = "fork" /\ \A p \in Forked : pc'[p] = "none"
    BY <1>n, <2>1
  <2>3. res' \in Seq(Cells) /\ DOMAIN res' = {} BY <2>1, EmptySeq
  <2>4. ASSUME ~ mine, ~ dirty' PROVE queue = << >>
    <3>1. pc[Father] = "end" /\ ~ failed BY <1>s, <2>1, <2>4 DEF Alive
    <3>2. CASE one
      <4>1. Carried(res, queue, T) BY <1>q, <2>1, <2>4, <3>2
      <4>2. Len(res) = 1 BY <1>n, <1>s, <3>1, <3>2
      <4>3. DOMAIN res = 1 .. Len(res) /\ DOMAIN queue = 1 .. Len(queue) /\ Len(queue) \in Nat
        BY <1>t, LenProperties
      <4>4. 1 \in DOMAIN res BY <4>2, <4>3
      <4>5. \A x, y \in T : x = y BY <1>T, <1>n, <3>2
      <4>6. ~ (1 \in DOMAIN queue) BY <4>1, <4>4, <4>5 DEF Carried
      <4>7. Len(queue) = 0 BY <4>3, <4>6
      <4> QED BY <1>t, <4>7, EmptySeq
    <3>3. CASE ~ one
      <4>1. program = "fileMSG" BY <2>4, <3>3 DEF Persistent, Segments
      <4> QED BY <1>q, <2>4, <3>1, <4>1
    <3> QED BY <3>2, <3>3
  <2>5. ASSUME ~ mine, ~ dirty' PROVE Carried(res', queue', T2)
    <3>1. DOMAIN queue' = {}
      <4>1. queue' = << >> BY <2>1, <2>4, <2>5
      <4> QED BY <4>1
    <3> QED BY <2>3, <3>1 DEF Carried
  <2>6. round' \in Nat \ {0} BY <1>t, <2>1
  <2> HIDE DEF T2
  <2> QED BY <1>g, <1>t, <2>1, <2>2, <2>3, <2>5, <2>6
<1> QED BY <1>1, <1>2, <1>3, <1>4, <1>5, <1>6 DEF PersistentStep

(* A value that was not sent yet, sent to the father, is under way once.   *)
LEMMA CarriedSent ==
  ASSUME NEW S, pending \in [Procs -> Seq(S)], NEW s, NEW T, Carried(s, CarriedBy(pending), T),
         NEW v, v \notin T, <<"RTMIN", v>> \in S, pending' = Sigqueue(pending, Father, "RTMIN", v)
  PROVE  pending' \in [Procs -> Seq(S)] /\ Carried(s, CarriedBy(pending'), T \cup {v})
<1> DEFINE t == Sigqueue(pending, Father, "RTMIN", v)
           e == CarriedBy(pending)
           e2 == CarriedBy(t)
<1>1. /\ t \in [Procs -> Seq(S)]
      /\ \E k : /\ k \notin DOMAIN e
                /\ \A n \in DOMAIN e2 : \/ n \in DOMAIN e /\ e2[n] = e[n]
                                        \/ n = k /\ "RTMIN" = "RTMIN" /\ e2[n] = v
  BY CarriedQueued
<1> HIDE DEF t, e, e2
<1>2. PICK k : /\ k \notin DOMAIN e
               /\ \A n \in DOMAIN e2 : \/ n \in DOMAIN e /\ e2[n] = e[n]
                                       \/ n = k /\ e2[n] = v
  BY <1>1
<1>3. Carried(s, e, T) BY DEF e
<1>4. /\ \A n \in DOMAIN e2 : (n \in DOMAIN e /\ e2[n] = e[n]) \/ e2[n] = v
      /\ \A m, n \in DOMAIN e2 : e2[m] = v /\ e2[n] = v => m = n
  BY <1>2, <1>3 DEF Carried
<1>5. Carried(s, e2, T \cup {v}) BY <1>3, <1>4, CarriedMore
<1> QED BY <1>1, <1>5 DEF t, e2

(* Every step of ex6 preserves the invariant of its signals.               *)
LEMMA Ex6StepInv ==
  ASSUME program = "ex6", program' = program, Ex6, GatherTypeOK, Ex6Inv
  PROVE  GatherTypeOK' /\ Ex6Inv'
<1> DEFINE S == ({"RTMIN"} \X Cells) \cup ({"CHLD"} \X {0})
           T == SentBy({"sent", "end"})
           e == CarriedBy(pending)
           T2 == {<<round', p>> : p \in {q \in Forked : pc'[q] \in {"sent", "end"}}}
           e2 == CarriedBy(pending')
           Good == GatherTypeOK' /\ Ex6Inv'
<1>n. /\ N \in Nat /\ N >= 2 /\ Forked \subseteq Sons /\ Sons \subseteq Procs
      /\ Father \in Procs /\ Father \notin Sons /\ Father \notin Forked
      /\ Cardinality(Forked) = N
  BY ForkedOnes DEF GatherPrograms
<1>f. Forked' = Forked BY DEF Forked
<1>t. /\ DOMAIN pc = Procs /\ round \in Nat \ {0} /\ mem \in [Sons -> Cells]
      /\ res \in Seq(Cells) /\ queue \in Seq(Cells) /\ nb \in Nat
  BY DEF GatherTypeOK
<1>e. WithSignal = e /\ WithSignal' = e2 BY DEF WithSignal, CarriedBy
<1> HIDE DEF e, e2
<1>0. /\ pending \in [Procs -> Seq(S)] /\ Carried(res, e, T)
      /\ nb = Len(res) /\ (pc[Father] = "end" /\ ~ failed => nb >= N)
  BY <1>e DEF Ex6Inv
<1>T. T = {<<round, p>> : p \in {q \in Forked : pc[q] \in {"sent", "end"}}}
  BY DEF SentBy, MyValue
<1>S. /\ \A v \in Cells : <<"RTMIN", v>> \in S
      /\ <<"CHLD", 0>> \in S
      /\ \A x \in S : x[1] = "RTMIN" => x[2] \in Cells
  OBVIOUS
<1>x. S = ({"RTMIN"} \X Cells) \cup ({"CHLD"} \X {0}) OBVIOUS
<1> HIDE DEF T, S
<1>g. ASSUME /\ DOMAIN pc' = Procs /\ UNCHANGED <<round, mem, queue>>
             /\ res' \in Seq(Cells) /\ nb' \in Nat /\ pending' \in [Procs -> Seq(S)]
             /\ Carried(res', e2, T2) /\ nb' = Len(res')
             /\ pc'[Father] = "end" /\ ~ failed' => nb' >= N
      PROVE  Good
  <2>1. GatherTypeOK' BY <1>g, <1>t DEF GatherTypeOK
  <2>2. SentBy({"sent", "end"})' = T2 BY <1>f DEF SentBy, MyValue
  <2>3. Ex6Inv'
    <3> HIDE DEF T2
    <3> QED BY <1>e, <1>g, <1>x, <2>2 DEF Ex6Inv
  <2> QED BY <2>1, <2>3
<1>1. CASE (Forking \/ EndFork("sigwait")) /\ UNCHANGED <<store, res, nb>>
  <2>1. UNCHANGED <<round, mem, queue, res, nb, pending>>
    BY <1>1 DEF Forking, Fork, ForkFailure, EndFork, store
  <2>2. /\ DOMAIN pc' = Procs /\ (pc'[Father] = "end" => failed')
        /\ \A p \in Forked : pc'[p] = pc[p] \/ (pc[p] = "none" /\ pc'[p] = "start")
    <3>1. CASE Fork
      <4>1. pc[Father] = "fork" /\ \E p \in Forked : pc[p] = "none" /\ pc' = [pc EXCEPT ![p] = "start"]
        BY <3>1 DEF Fork
      <4> QED BY <1>n, <1>t, <4>1
    <3>2. CASE ForkFailure
      <4>1. failed' = TRUE /\ pc' = [pc EXCEPT ![Father] = "end"]
        BY <3>2 DEF ForkFailure, Goto
      <4> QED BY <1>n, <1>t, <4>1
    <3>3. CASE EndFork("sigwait")
      <4>1. pc' = [pc EXCEPT ![Father] = "sigwait"] BY <3>3 DEF EndFork, Goto
      <4> QED BY <1>n, <1>t, <4>1
    <3> QED BY <1>1, <3>1, <3>2, <3>3 DEF Forking
  <2>3. T2 = T BY <1>T, <2>1, <2>2
  <2> HIDE DEF T2
  <2>4. e2 = e BY <2>1 DEF e, e2
  <2> QED BY <1>0, <1>g, <1>t, <2>1, <2>2, <2>3, <2>4
<1>2. CASE AddValue
  <2> DEFINE v == SigValue(Father, "RTMIN")
             o == Oldest(Father, "RTMIN")
  <2>1. /\ Has(Father, "RTMIN") /\ Alive(Father) /\ res' = Append(res, v) /\ nb' = nb + 1
        /\ pending' = Taken(pending, Father, "RTMIN")
        /\ UNCHANGED <<pc, failed, round, mem, queue>>
    BY <1>2 DEF AddValue, store
  <2>2. /\ pending' \in [Procs -> Seq(S)]
        /\ pending[Father][o] \in S /\ pending[Father][o][1] = "RTMIN"
        /\ o \in DOMAIN e /\ e[o] = v
        /\ \E a \in [DOMAIN e2 -> DOMAIN e \ {o}] :
             /\ \A n \in DOMAIN e2 : e2[n] = e[a[n]]
             /\ \A m, n \in DOMAIN e2 : a[m] = a[n] => m = n
    <3> DEFINE t == Taken(pending, Father, "RTMIN")
               d == CarriedBy(pending)
    <3>1. /\ t \in [Procs -> Seq(S)]
          /\ pending[Father][o] \in S /\ pending[Father][o][1] = "RTMIN"
          /\ o \in DOMAIN d /\ d[o] = v
          /\ \E a \in [DOMAIN CarriedBy(t) -> DOMAIN d \ {o}] :
               /\ \A n \in DOMAIN CarriedBy(t) : CarriedBy(t)[n] = d[a[n]]
               /\ \A m, n \in DOMAIN CarriedBy(t) : a[m] = a[n] => m = n
      BY <1>0, <2>1, CarriedTaken
    <3>2. pending' = t /\ e = d BY <2>1 DEF e
    <3> HIDE DEF t, d, o, v
    <3> QED BY <3>1, <3>2 DEF e2
  <2>3. v \in Cells BY <1>S, <2>2 DEF SigValue
  <2> HIDE DEF v, o
  <2>4. PICK a \in [DOMAIN e2 -> DOMAIN e \ {o}] :
             /\ \A n \in DOMAIN e2 : e2[n] = e[a[n]]
             /\ \A m, n \in DOMAIN e2 : a[m] = a[n] => m = n
    BY <2>2
  <2>5. Carried(Append(res, e[o]), e2, T)
    <3>1. e[o] \in Cells BY <2>2, <2>3
    <3> QED BY <1>0, <1>t, <2>2, <2>4, <3>1, CarriedRead
  <2>6. T2 = T BY <1>T, <2>1
  <2> HIDE DEF T2
  <2>7. Carried(res', e2, T2) BY <2>1, <2>2, <2>5, <2>6
  <2>8. res' \in Seq(Cells) /\ Len(res') = Len(res) + 1 BY <1>t, <2>1, <2>3, AppendProperties
  <2>9. nb' \in Nat /\ nb' = Len(res') BY <1>0, <1>t, <2>1, <2>8
  <2>10. pc'[Father] = "end" => FALSE BY <2>1 DEF Alive
  <2> QED BY <1>g, <1>t, <2>1, <2>2, <2>7, <2>8, <2>9, <2>10
<1>3. CASE SigwaitChild
  <2>1. /\ Has(Father, "CHLD") /\ pc' = [pc EXCEPT ![Father] = "test"]
        /\ pending' = Taken(pending, Father, "CHLD")
        /\ UNCHANGED <<failed, round, mem, queue, res, nb>>
    BY <1>3 DEF SigwaitChild, Goto, store
  <2>2. /\ DOMAIN pc' = Procs /\ pc'[Father] = "test" /\ \A p \in Forked : pc'[p] = pc[p]
    BY <1>n, <1>t, <2>1
  <2> DEFINE o == Oldest(Father, "CHLD")
  <2>3. /\ pending' \in [Procs -> Seq(S)]
        /\ \E a \in [DOMAIN e2 -> DOMAIN e \ {o}] :
             /\ \A n \in DOMAIN e2 : e2[n] = e[a[n]]
             /\ \A m, n \in DOMAIN e2 : a[m] = a[n] => m = n
    <3> DEFINE t == Taken(pending, Father, "CHLD")
               d == CarriedBy(pending)
    <3>1. /\ t \in [Procs -> Seq(S)]
          /\ \E a \in [DOMAIN CarriedBy(t) -> DOMAIN d \ {o}] :
               /\ \A n \in DOMAIN CarriedBy(t) : CarriedBy(t)[n] = d[a[n]]
               /\ \A m, n \in DOMAIN CarriedBy(t) : a[m] = a[n] => m = n
      BY <1>0, <2>1, CarriedTaken
    <3>2. pending' = t /\ e = d BY <2>1 DEF e
    <3> HIDE DEF t, d, o
    <3> QED BY <3>1, <3>2 DEF e2
  <2>4. PICK a \in [DOMAIN e2 -> DOMAIN e \ {o}] :
             /\ \A n \in DOMAIN e2 : e2[n] = e[a[n]]
             /\ \A m, n \in DOMAIN e2 : a[m] = a[n] => m = n
    BY <2>3
  <2>5. a \in [DOMAIN e2 -> DOMAIN e] OBVIOUS
  <2>6. T2 = T BY <1>T, <2>1, <2>2
  <2> HIDE DEF T2
  <2>7. Carried(res, e2, T2)
    <3>1. T \subseteq T2 BY <2>6
    <3> QED BY <1>0, <2>4, <2>5, <3>1, CarriedFewer
  <2> QED BY <1>0, <1>g, <1>t, <2>1, <2>2, <2>3, <2>7
<1>4. CASE TestCount
  <2>1. /\ pc' = [pc EXCEPT ![Father] = IF Enough THEN "end" ELSE "sigwait"]
        /\ UNCHANGED <<failed, round, mem, queue, res, nb, pending>>
    BY <1>4 DEF TestCount, Goto, store
  <2>2. /\ DOMAIN pc' = Procs /\ \A p \in Forked : pc'[p] = pc[p]
        /\ pc'[Father] = "end" => Enough
    BY <1>n, <1>t, <2>1
  <2>3. T2 = T BY <1>T, <2>1, <2>2
  <2> HIDE DEF T2
  <2>4. e2 = e BY <2>1 DEF e, e2
  <2>5. pc'[Father] = "end" => nb' >= N BY <1>n, <2>1, <2>2 DEF Enough
  <2> QED BY <1>0, <1>g, <1>t, <2>1, <2>2, <2>3, <2>4, <2>5
<1>5. ASSUME NEW p \in Forked, SendValue(p) PROVE Good
  <2> DEFINE v == <<round, p>>
  <2>1. /\ pc[p] = "start" /\ pc' = [pc EXCEPT ![p] = "sent"]
        /\ UNCHANGED <<round, mem, queue, res, nb>>
        /\ \/ pending' = Sigqueue(pending, Father, "RTMIN", v) /\ failed' = failed
           \/ pending' = pending /\ failed' = TRUE
    BY <1>5 DEF SendValue, Goto, store, MyValue
  <2>2. /\ DOMAIN pc' = Procs /\ pc'[Father] = pc[Father] /\ pc'[p] = "sent"
        /\ \A q \in Forked : q # p => pc'[q] = pc[q]
    BY <1>n, <1>t, <2>1
  <2>3. v \in Cells BY <1>n, <1>t DEF Cells
  <2>4. v \notin T BY <1>T, <2>1
  <2>5. T2 = T \cup {v} BY <1>T, <2>1, <2>2
  <2> HIDE DEF T2, v
  <2>6. pending' \in [Procs -> Seq(S)] /\ Carried(res, e2, T2)
    <3>1. CASE pending' = pending
      <4>1. e2 = e BY <3>1 DEF e, e2
      <4>2. Carried(res, e, T \cup {v}) BY <1>0 DEF Carried
      <4> QED BY <1>0, <2>5, <3>1, <4>1, <4>2
    <3>2. CASE pending' = Sigqueue(pending, Father, "RTMIN", v)
      <4>1. <<"RTMIN", v>> \in S BY <1>S, <2>3
      <4>2. Carried(res, CarriedBy(pending), T) BY <1>0 DEF e
      <4>3. pending' \in [Procs -> Seq(S)] /\ Carried(res, CarriedBy(pending'), T \cup {v})
        BY <1>0, <2>4, <3>2, <4>1, <4>2, CarriedSent
      <4>4. Carried(res, e2, T \cup {v}) BY <4>3 DEF e2
      <4> QED BY <2>5, <4>3, <4>4
    <3> QED BY <2>1, <3>1, <3>2
  <2>7. pc'[Father] = "end" /\ ~ failed' => nb' >= N BY <1>0, <2>1, <2>2
  <2> QED BY <1>0, <1>g, <1>t, <2>1, <2>2, <2>6, <2>7
<1>6. ASSUME NEW p \in Forked, EndSon(p) PROVE Good
  <2>1. /\ pc[p] = "sent" /\ pc' = [pc EXCEPT ![p] = "end"]
        /\ UNCHANGED <<failed, round, mem, queue, res, nb>>
        /\ pending' = Kill(pending, Father, "CHLD")
    BY <1>6 DEF EndSon, Goto, store
  <2>2. /\ DOMAIN pc' = Procs /\ pc'[Father] = pc[Father] /\ pc'[p] = "end"
        /\ \A q \in Forked : q # p => pc'[q] = pc[q]
    BY <1>n, <1>t, <2>1
  <2>3. T2 = T
    <3>1. \A q \in Forked : pc'[q] \in {"sent", "end"} <=> pc[q] \in {"sent", "end"}
      BY <2>1, <2>2
    <3> QED BY <1>T, <2>1, <3>1
  <2> HIDE DEF T2
  <2>4. pending' \in [Procs -> Seq(S)] /\ Carried(res, e2, T)
    <3>1. CASE pending' = pending
      <4>1. e2 = e BY <3>1 DEF e, e2
      <4> QED BY <1>0, <3>1, <4>1
    <3>2. CASE pending' = Sigqueue(pending, Father, "CHLD", 0)
      <4>1. /\ pending' \in [Procs -> Seq(S)]
            /\ \E k : /\ k \notin DOMAIN e
                      /\ \A n \in DOMAIN e2 :
                           \/ n \in DOMAIN e /\ e2[n] = e[n]
                           \/ n = k /\ "CHLD" = "RTMIN" /\ e2[n] = 0
        BY <1>0, <1>S, <3>2, CarriedQueued DEF e, e2
      <4>2. \A n \in DOMAIN e2 : n \in DOMAIN e /\ e2[n] = e[n] BY <4>1
      <4>3. Carried(res, e2, T) BY <1>0, <4>2 DEF Carried
      <4> QED BY <4>1, <4>3
    <3> QED BY <2>1, <3>1, <3>2 DEF Kill
  <2> QED BY <1>0, <1>g, <1>t, <2>1, <2>2, <2>3, <2>4
<1> QED BY <1>1, <1>2, <1>3, <1>4, <1>5, <1>6 DEF Ex6

(* Only the signals of the father count for what it is sent. *)
LEMMA CarriedSame ==
  ASSUME NEW q, NEW t, q[Father] = t[Father]
  PROVE  CarriedBy(q) = CarriedBy(t)
BY DEF CarriedBy

(* What is under way once a signal is taken was under way before. *)
LEMMA CarriedBefore ==
  ASSUME NEW S, pending \in [Procs -> Seq(S)], NEW sig, Has(Father, sig),
         pending' = Taken(pending, Father, sig)
  PROVE  LET o == Oldest(Father, sig)
         IN  /\ pending' \in [Procs -> Seq(S)] /\ pending[Father][o] \in S
             /\ sig = "RTMIN" => /\ o \in DOMAIN CarriedBy(pending)
                                /\ CarriedBy(pending)[o] = SigValue(Father, sig)
             /\ \A n \in DOMAIN CarriedBy(pending') :
                  \E m \in DOMAIN CarriedBy(pending) : CarriedBy(pending')[n] = CarriedBy(pending)[m]
<1> DEFINE t == Taken(pending, Father, sig)
           e == CarriedBy(pending)
           o == Oldest(Father, sig)
           v == SigValue(Father, sig)
<1>1. /\ t \in [Procs -> Seq(S)] /\ pending[Father][o] \in S
      /\ sig = "RTMIN" => o \in DOMAIN e /\ e[o] = v
      /\ \E a \in [DOMAIN CarriedBy(t) -> DOMAIN e \ {o}] :
           /\ \A n \in DOMAIN CarriedBy(t) : CarriedBy(t)[n] = e[a[n]]
           /\ \A m, n \in DOMAIN CarriedBy(t) : a[m] = a[n] => m = n
  BY CarriedTaken
<1>2. pending' = t OBVIOUS
<1> HIDE DEF t, e, o, v
<1>3. \A n \in DOMAIN CarriedBy(t) : \E m \in DOMAIN e : CarriedBy(t)[n] = e[m] BY <1>1
<1> QED BY <1>1, <1>2, <1>3 DEF e, o, v

(* Every step of ex3 preserves the invariant of its cells and its          *)
(* notifications.                                                          *)
LEMMA Ex3StepInv ==
  ASSUME program = "ex3", program' = program, Ex3, GatherTypeOK, Ex3Inv
  PROVE  GatherTypeOK' /\ Ex3Inv'
<1> DEFINE S == {"RTMIN", "RTMIN+1"} \X Sons
           e == CarriedBy(pending)
           e2 == CarriedBy(pending')
           own(p) == <<round, p>>
           Good == GatherTypeOK' /\ Ex3Inv'
<1>n. /\ N \in Nat /\ N >= 2 /\ Forked \subseteq Sons /\ Sons \subseteq Procs
      /\ Father \in Procs /\ Father \notin Sons /\ Father \notin Forked
      /\ Forked = 0 .. N - 1 /\ Cardinality(Forked) = N
  BY ForkedOnes DEF GatherPrograms
<1>f. Forked' = Forked BY DEF Forked
<1>t. /\ DOMAIN pc = Procs /\ round \in Nat \ {0} /\ mem \in [Sons -> Cells]
      /\ res \in Seq(Cells) /\ queue \in Seq(Cells) /\ nb \in Nat
  BY DEF GatherTypeOK
<1>e. WithSignal = e /\ WithSignal' = e2 BY DEF WithSignal, CarriedBy
<1> HIDE DEF e, e2
<1>0. /\ pending \in [Procs -> Seq(S)] /\ order \in Seq(Sons)
      /\ \A p \in Forked : /\ mem[p] = Zero \/ mem[p] = own(p)
                           /\ pc[p] \in {"written", "end"} => mem[p] = own(p)
      /\ \A n \in DOMAIN e : e[n] \in Forked /\ mem[e[n]] = own(e[n])
      /\ \A k \in DOMAIN order : order[k] \in Forked /\ mem[order[k]] = own(order[k])
      /\ nb = Len(order) /\ nb <= N /\ (pc[Father] \in {"fork", "sigwait"} => nb < N)
      /\ Len(res) = IF pc[Father] = "reading" THEN nb - 1 ELSE nb
      /\ \A k \in DOMAIN res : \/ res[k] = own(k - 1)
                               \/ res[k] = Zero /\ \A n \in 1 .. k : order[n] # k - 1
  BY <1>e DEF Ex3Inv, Written, MyValue
<1>S. /\ \A v \in Sons : <<"RTMIN", v>> \in S /\ <<"RTMIN+1", v>> \in S
      /\ \A x \in S : x[2] \in Sons
      /\ 0 \in Sons
  BY <1>n DEF Sons
<1>x. S = {"RTMIN", "RTMIN+1"} \X Sons OBVIOUS
<1>l. /\ Len(res) \in Nat /\ DOMAIN res = 1 .. Len(res)
      /\ Len(order) \in Nat /\ DOMAIN order = 1 .. Len(order)
  BY <1>0, <1>t, LenProperties
<1> HIDE DEF S
<1>g. ASSUME /\ DOMAIN pc' = Procs /\ round' = round /\ queue' = queue /\ mem' \in [Sons -> Cells]
             /\ res' \in Seq(Cells) /\ nb' \in Nat
             /\ pending' \in [Procs -> Seq(S)] /\ order' \in Seq(Sons)
             /\ \A p \in Forked : /\ mem'[p] = Zero \/ mem'[p] = own(p)
                                  /\ pc'[p] \in {"written", "end"} => mem'[p] = own(p)
             /\ \A n \in DOMAIN e2 : e2[n] \in Forked /\ mem'[e2[n]] = own(e2[n])
             /\ \A k \in DOMAIN order' : order'[k] \in Forked /\ mem'[order'[k]] = own(order'[k])
             /\ nb' = Len(order') /\ nb' <= N /\ (pc'[Father] \in {"fork", "sigwait"} => nb' < N)
             /\ Len(res') = IF pc'[Father] = "reading" THEN nb' - 1 ELSE nb'
             /\ \A k \in DOMAIN res' : \/ res'[k] = own(k - 1)
                                       \/ res'[k] = Zero /\ \A n \in 1 .. k : order'[n] # k - 1
      PROVE  Good
  <2>1. GatherTypeOK' BY <1>g, <1>t DEF GatherTypeOK
  <2>2. Zero' = Zero BY DEF Zero
  <2>3. Ex3Inv' BY <1>e, <1>f, <1>g, <1>x, <2>2 DEF Ex3Inv, Written, MyValue
  <2> QED BY <2>1, <2>3
<1>1. CASE (Forking \/ EndFork("sigwait")) /\ UNCHANGED <<store, res, nb>>
  <2>1. UNCHANGED <<round, mem, queue, order, res, nb, pending>>
    BY <1>1 DEF Forking, Fork, ForkFailure, EndFork, store
  <2>2. /\ DOMAIN pc' = Procs /\ pc[Father] = "fork" /\ pc'[Father] \in {"fork", "end", "sigwait"}
        /\ \A p \in Forked : pc'[p] = pc[p] \/ (pc[p] = "none" /\ pc'[p] = "start")
    <3>1. CASE Fork
      <4>1. pc[Father] = "fork" /\ \E p \in Forked : pc[p] = "none" /\ pc' = [pc EXCEPT ![p] = "start"]
        BY <3>1 DEF Fork
      <4> QED BY <1>n, <1>t, <4>1
    <3>2. CASE ForkFailure
      <4>1. pc[Father] = "fork" /\ pc' = [pc EXCEPT ![Father] = "end"]
        BY <3>2 DEF ForkFailure, Goto
      <4> QED BY <1>n, <1>t, <4>1
    <3>3. CASE EndFork("sigwait")
      <4>1. pc[Father] = "fork" /\ pc' = [pc EXCEPT ![Father] = "sigwait"]
        BY <3>3 DEF EndFork, Goto
      <4> QED BY <1>n, <1>t, <4>1
    <3> QED BY <1>1, <3>1, <3>2, <3>3 DEF Forking
  <2>3. e2 = e BY <2>1 DEF e, e2
  <2>4. \A p \in Forked : pc'[p] \in {"written", "end"} => pc[p] \in {"written", "end"} BY <2>2
  <2> QED BY <1>0, <1>g, <1>t, <2>1, <2>2, <2>3, <2>4
<1>2. ASSUME NEW p \in Forked, StartWrite(p) PROVE Good
  <2>1. /\ pc[p] = "start" /\ pc' = [pc EXCEPT ![p] = "writing"]
        /\ UNCHANGED <<round, mem, queue, order, res, nb, pending>>
    BY <1>2 DEF StartWrite, Goto, store
  <2>2. /\ DOMAIN pc' = Procs /\ pc'[Father] = pc[Father]
        /\ \A q \in Forked : pc'[q] \in {"written", "end"} => pc[q] \in {"written", "end"}
    BY <1>n, <1>t, <2>1
  <2>3. e2 = e BY <2>1 DEF e, e2
  <2> QED BY <1>0, <1>g, <1>t, <2>1, <2>2, <2>3
<1>3. ASSUME NEW p \in Forked, EndWrite(p) PROVE Good
  <2>1. /\ pc[p] = "writing" /\ pc' = [pc EXCEPT ![p] = "written"]
        /\ mem' = [mem EXCEPT ![p] = own(p)] /\ pending' = Sigqueue(pending, p, "RTMIN", 0)
        /\ UNCHANGED <<round, queue, order, res, nb>>
    BY <1>3 DEF EndWrite, Goto, MyValue
  <2>2. /\ DOMAIN pc' = Procs /\ pc'[Father] = pc[Father]
        /\ \A q \in Forked : q # p => pc'[q] = pc[q]
    BY <1>n, <1>t, <2>1
  <2>3. own(p) \in Cells BY <1>n, <1>t DEF Cells
  <2> HIDE DEF own
  <2>4. /\ mem' \in [Sons -> Cells] /\ mem'[p] = own(p)
        /\ \A q \in Sons : q # p => mem'[q] = mem[q]
    BY <1>n, <1>t, <2>1, <2>3
  <2>5. \A q \in Forked : mem[q] = own(q) => mem'[q] = own(q) BY <1>n, <2>4
  <2>6. pending' \in [Procs -> Seq(S)] /\ pending'[Father] = pending[Father]
    <3>1. p \in Procs /\ p # Father /\ <<"RTMIN", 0>> \in S BY <1>S, <1>n
    <3>2. pending' \in [Procs -> Seq(S)] BY <1>0, <2>1, <3>1, QueuedHas
    <3> QED BY <1>0, <1>n, <2>1, <3>1, <3>2 DEF Sigqueue
  <2>7. e2 = e BY <2>6, CarriedSame DEF e, e2
  <2>8. ASSUME NEW q \in Forked
        PROVE  /\ mem'[q] = Zero \/ mem'[q] = own(q)
               /\ pc'[q] \in {"written", "end"} => mem'[q] = own(q)
    <3>1. CASE q = p BY <2>4, <3>1
    <3>2. CASE q # p BY <1>0, <1>n, <2>2, <2>4, <3>2
    <3> QED BY <3>1, <3>2
  <2>9. \A n \in DOMAIN e2 : e2[n] \in Forked /\ mem'[e2[n]] = own(e2[n]) BY <1>0, <2>5, <2>7
  <2>10. \A k \in DOMAIN order' : order'[k] \in Forked /\ mem'[order'[k]] = own(order'[k])
    BY <1>0, <2>1, <2>5
  <2> QED BY <1>0, <1>g, <1>t, <2>1, <2>2, <2>4, <2>6, <2>8, <2>9, <2>10
<1>4. ASSUME NEW p \in Forked, NotifyFather(p) PROVE Good
  <2> DEFINE rest == Taken(pending, p, "RTMIN")
  <2>1. /\ Has(p, "RTMIN") /\ pc[p] = "written" /\ pc' = [pc EXCEPT ![p] = "end"]
        /\ pending' = rest \/ pending' = Sigqueue(rest, Father, "RTMIN", p)
        /\ UNCHANGED <<round, mem, queue, order, res, nb>>
    BY <1>4 DEF NotifyFather, Goto, store
  <2>2. /\ DOMAIN pc' = Procs /\ pc'[Father] = pc[Father]
        /\ \A q \in Forked : pc'[q] \in {"written", "end"} => pc[q] \in {"written", "end"}
    BY <1>n, <1>t, <2>1
  <2>3. rest \in [Procs -> Seq(S)] /\ rest[Father] = pending[Father]
    <3>1. p \in Procs /\ p # Father BY <1>n
    <3>2. rest \in [Procs -> Seq(S)] BY <1>0, <2>1, <3>1, SignalTaken
    <3>3. \A r \in Procs : r # p => rest[r] = pending[r] BY <1>0, <2>1, <3>1, SignalTaken
    <3> QED BY <1>n, <3>1, <3>2, <3>3
  <2>4. CarriedBy(rest) = e BY <2>3, CarriedSame DEF e
  <2> HIDE DEF rest
  <2>5. /\ pending' \in [Procs -> Seq(S)]
        /\ \A n \in DOMAIN e2 : (n \in DOMAIN e /\ e2[n] = e[n]) \/ e2[n] = p
    <3>0. CASE pending' = rest
      <4>1. e2 = e BY <2>4, <3>0 DEF e2
      <4> QED BY <2>3, <3>0, <4>1
    <3> DEFINE t == Sigqueue(rest, Father, "RTMIN", p)
               d == CarriedBy(rest)
    <3>1. <<"RTMIN", p>> \in S BY <1>S, <1>n
    <3>2. /\ t \in [Procs -> Seq(S)]
          /\ \E k : /\ k \notin DOMAIN d
                    /\ \A n \in DOMAIN CarriedBy(t) :
                         \/ n \in DOMAIN d /\ CarriedBy(t)[n] = d[n]
                         \/ n = k /\ "RTMIN" = "RTMIN" /\ CarriedBy(t)[n] = p
      BY <2>3, <3>1, CarriedQueued
    <3>3. d = e BY <2>4
    <3>4. CASE pending' = t
      <4> HIDE DEF t, d
      <4> QED BY <3>2, <3>3, <3>4 DEF e2
    <3> QED BY <2>1, <3>0, <3>4
  <2>6. mem[p] = own(p) BY <1>0, <2>1
  <2>7. \A n \in DOMAIN e2 : e2[n] \in Forked /\ mem'[e2[n]] = own(e2[n])
    BY <1>0, <2>1, <2>5, <2>6
  <2> QED BY <1>0, <1>g, <1>t, <2>1, <2>2, <2>5, <2>7
<1>5. CASE ReadFather
  <2> DEFINE v == SigValue(Father, "RTMIN")
             o == Oldest(Father, "RTMIN")
  <2>1. /\ Has(Father, "RTMIN") /\ pc[Father] = "sigwait" /\ pc' = [pc EXCEPT ![Father] = "reading"]
        /\ order' = Append(order, v) /\ nb' = nb + 1
        /\ pending' = Taken(pending, Father, "RTMIN")
        /\ UNCHANGED <<round, mem, queue, res>>
    BY <1>5 DEF ReadFather, Goto
  <2>2. /\ DOMAIN pc' = Procs /\ pc'[Father] = "reading" /\ \A q \in Forked : pc'[q] = pc[q]
    BY <1>n, <1>t, <2>1
  <2>3. /\ pending' \in [Procs -> Seq(S)]
        /\ pending[Father][o] \in S /\ o \in DOMAIN e /\ e[o] = v
        /\ \A n \in DOMAIN e2 : \E m \in DOMAIN e : e2[n] = e[m]
    <3> DEFINE d == CarriedBy(pending)
               d2 == CarriedBy(pending')
    <3>1. pending \in [Procs -> Seq(S)] BY <1>0
    <3>2. Has(Father, "RTMIN") /\ pending' = Taken(pending, Father, "RTMIN") BY <2>1
    <3>3. /\ pending' \in [Procs -> Seq(S)] /\ pending[Father][o] \in S
          /\ o \in DOMAIN d /\ d[o] = v
          /\ \A n \in DOMAIN d2 : \E m \in DOMAIN d : d2[n] = d[m]
      BY <3>1, <3>2, CarriedBefore
    <3> HIDE DEF o, v
    <3> QED BY <3>3 DEF e, e2
  <2>4. v \in Sons BY <1>S, <2>3 DEF SigValue
  <2> HIDE DEF v, o
  <2>5. /\ order' \in Seq(Sons) /\ Len(order') = Len(order) + 1
        /\ \A k \in 1 .. Len(order) : order'[k] = order[k]
        /\ order'[Len(order) + 1] = v
    BY <1>0, <2>1, <2>4, AppendProperties
  <2>6. DOMAIN order' = 1 .. Len(order') BY <2>5, LenProperties
  <2>7. v \in Forked /\ mem[v] = own(v) BY <1>0, <2>3
  <2>8. \A k \in DOMAIN order' : order'[k] \in Forked /\ mem'[order'[k]] = own(order'[k])
    <3>1. \A k \in DOMAIN order' : (k \in DOMAIN order /\ order'[k] = order[k]) \/ order'[k] = v
      <4>1. \A k \in DOMAIN order' : k \in 1 .. Len(order) \/ k = Len(order) + 1
        BY <1>l, <2>5, <2>6
      <4> QED BY <1>l, <2>5, <4>1
    <3> QED BY <1>0, <2>1, <2>7, <3>1
  <2>9. \A n \in DOMAIN e2 : e2[n] \in Forked /\ mem'[e2[n]] = own(e2[n])
    BY <1>0, <2>1, <2>3
  <2>10. /\ nb' = Len(order') /\ nb' <= N /\ nb' \in Nat /\ Len(res') = nb' - 1
    <3>1. nb < N /\ Len(res) = nb /\ nb = Len(order) BY <1>0, <2>1
    <3> QED BY <1>n, <1>t, <2>1, <2>5, <3>1
  <2>11. ASSUME NEW k \in DOMAIN res'
         PROVE  \/ res'[k] = own(k - 1)
                \/ res'[k] = Zero /\ \A n \in 1 .. k : order'[n] # k - 1
    <3>1. k \in DOMAIN res /\ res' = res BY <2>1
    <3>2. Len(res) = Len(order) BY <1>0, <2>1
    <3>3. \A n \in 1 .. k : n \in 1 .. Len(order) BY <1>l, <3>1, <3>2
    <3>4. \A n \in 1 .. k : order'[n] = order[n] BY <2>5, <3>3
    <3> QED BY <1>0, <3>1, <3>4
  <2> QED BY <1>0, <1>g, <1>t, <2>1, <2>2, <2>3, <2>5, <2>8, <2>9, <2>10, <2>11
<1>6. CASE EndRead
  <2> DEFINE v == mem[nb - 1]
  <2>1. /\ pc[Father] = "reading" /\ pc' = [pc EXCEPT ![Father] = "read"]
        /\ res' = Append(res, v) /\ pending' = Sigqueue(pending, Father, "RTMIN+1", 0)
        /\ UNCHANGED <<round, mem, queue, order, nb>>
    BY <1>6 DEF EndRead, Goto, store
  <2>2. /\ DOMAIN pc' = Procs /\ pc'[Father] = "read" /\ \A q \in Forked : pc'[q] = pc[q]
    BY <1>n, <1>t, <2>1
  <2>3. Len(res) = nb - 1 /\ nb = Len(order) /\ nb <= N BY <1>0, <2>1
  <2>4. nb - 1 \in Forked /\ nb - 1 + 1 = nb BY <1>l, <1>n, <2>3
  <2>5. v \in Cells /\ (v = Zero \/ v = own(nb - 1)) BY <1>0, <1>n, <1>t, <2>4
  <2>6. v = Zero => \A n \in 1 .. nb : order[n] # nb - 1
    <3> SUFFICES ASSUME v = Zero, NEW n \in 1 .. nb, order[n] = nb - 1 PROVE FALSE
      OBVIOUS
    <3>1. v = own(nb - 1) BY <1>0, <1>l, <2>3
    <3> QED BY <1>t, <3>1 DEF Zero
  <2> HIDE DEF v
  <2>7. /\ res' \in Seq(Cells) /\ Len(res') = Len(res) + 1
        /\ \A k \in 1 .. Len(res) : res'[k] = res[k]
        /\ res'[Len(res) + 1] = v
    BY <1>t, <2>1, <2>5, AppendProperties
  <2>8. DOMAIN res' = 1 .. Len(res') BY <2>7, LenProperties
  <2>9. ASSUME NEW k \in DOMAIN res'
        PROVE  \/ res'[k] = own(k - 1)
               \/ res'[k] = Zero /\ \A n \in 1 .. k : order'[n] # k - 1
    <3>1. k \in 1 .. Len(res) \/ k = Len(res) + 1 BY <1>l, <2>7, <2>8
    <3>2. CASE k \in 1 .. Len(res)
      <4>1. k \in DOMAIN res /\ res'[k] = res[k] /\ order' = order BY <1>l, <2>1, <2>7, <3>2
      <4> QED BY <1>0, <4>1
    <3>3. CASE k = Len(res) + 1
      <4>1. k = nb /\ res'[k] = v /\ order' = order BY <1>t, <2>1, <2>3, <2>7, <3>3
      <4> QED BY <2>5, <2>6, <4>1
    <3> QED BY <3>1, <3>2, <3>3
  <2>10. /\ pending' \in [Procs -> Seq(S)]
         /\ \A n \in DOMAIN e2 : n \in DOMAIN e /\ e2[n] = e[n]
    <3> DEFINE t == Sigqueue(pending, Father, "RTMIN+1", 0)
               d == CarriedBy(pending)
    <3>1. <<"RTMIN+1", 0>> \in S /\ pending \in [Procs -> Seq(S)] BY <1>0, <1>S
    <3>2. /\ t \in [Procs -> Seq(S)]
          /\ \E k : /\ k \notin DOMAIN d
                    /\ \A n \in DOMAIN CarriedBy(t) :
                         \/ n \in DOMAIN d /\ CarriedBy(t)[n] = d[n]
                         \/ n = k /\ "RTMIN+1" = "RTMIN" /\ CarriedBy(t)[n] = 0
      BY <3>1, CarriedQueued
    <3>3. pending' = t /\ d = e BY <2>1 DEF e
    <3> HIDE DEF t, d
    <3> QED BY <3>2, <3>3 DEF e2
  <2>11. \A n \in DOMAIN e2 : e2[n] \in Forked /\ mem'[e2[n]] = own(e2[n])
    BY <1>0, <2>1, <2>10
  <2>12. Len(res') = nb' /\ nb' \in Nat BY <1>t, <2>1, <2>3, <2>7
  <2> QED BY <1>0, <1>g, <1>t, <2>1, <2>2, <2>7, <2>9, <2>10, <2>11, <2>12
<1>7. CASE PrintFather
  <2>1. /\ Has(Father, "RTMIN+1") /\ pc[Father] = "read"
        /\ pc' = [pc EXCEPT ![Father] = IF nb >= N THEN "end" ELSE "sigwait"]
        /\ pending' = Taken(pending, Father, "RTMIN+1")
        /\ UNCHANGED <<round, mem, queue, order, res, nb>>
    BY <1>7, <1>n DEF PrintFather, Goto, store
  <2>2. /\ DOMAIN pc' = Procs /\ \A q \in Forked : pc'[q] = pc[q]
        /\ pc'[Father] = "end" \/ (pc'[Father] = "sigwait" /\ ~ (nb >= N))
    BY <1>n, <1>t, <2>1
  <2>3. /\ pending' \in [Procs -> Seq(S)]
        /\ \A n \in DOMAIN e2 : \E m \in DOMAIN e : e2[n] = e[m]
    <3> DEFINE d == CarriedBy(pending)
               d2 == CarriedBy(pending')
    <3>1. pending \in [Procs -> Seq(S)] BY <1>0
    <3>2. Has(Father, "RTMIN+1") /\ pending' = Taken(pending, Father, "RTMIN+1") BY <2>1
    <3>3. /\ pending' \in [Procs -> Seq(S)]
          /\ \A n \in DOMAIN d2 : \E m \in DOMAIN d : d2[n] = d[m]
      BY <3>1, <3>2, CarriedBefore
    <3> QED BY <3>3 DEF e, e2
  <2>4. \A n \in DOMAIN e2 : e2[n] \in Forked /\ mem'[e2[n]] = own(e2[n])
    BY <1>0, <2>1, <2>3
  <2>5. pc'[Father] \in {"fork", "sigwait"} => nb' < N BY <1>n, <1>t, <2>1, <2>2
  <2>6. Len(res') = nb' /\ pc'[Father] # "reading" BY <1>0, <2>1, <2>2
  <2> QED BY <1>0, <1>g, <1>t, <2>1, <2>2, <2>3, <2>4, <2>5, <2>6
<1> QED BY <1>1, <1>2, <1>3, <1>4, <1>5, <1>6, <1>7 DEF Ex3

(* Every step of these programs preserves their invariant.                 *)
LEMMA GatherStepInv == GatherInv /\ [Next]_vars => GatherInv'
<1> SUFFICES ASSUME GatherInv, [Next]_vars PROVE GatherInv' OBVIOUS
<1>p. program' = program BY ProgramKept
<1>1. CASE program \notin GatherPrograms
  BY <1>1, <1>p DEF GatherInv, GatherPrograms, Persistent, Segments
<1>2. CASE program \in Persistent
  <2>1. /\ program \in GatherPrograms /\ program \notin {"ex6", "ex3"}
    BY <1>2 DEF GatherPrograms, Persistent
  <2>2. GatherTypeOK /\ Summed /\ (program \in Segments => SegmentInv)
        /\ (program \in Persistent \ Segments => QueueInv)
    BY <1>2, <2>1 DEF GatherInv
  <2>3. CASE PersistentStep \/ CtrlC \/ Again
    <3>1. /\ GatherTypeOK' /\ Summed' /\ (program \in Segments => SegmentInv')
          /\ (program \in Persistent \ Segments => QueueInv')
      BY <1>2, <1>p, <2>2, <2>3, PersistentStepInv
    <3> QED BY <1>p, <2>1, <3>1 DEF GatherInv
  <2>4. CASE UNCHANGED vars
    <3>1. UNCHANGED <<program, pc, pending, reaped, failed, round, mem, queue, res, nb, order, dirty>>
      BY <2>4 DEF vars, processes, gather
    <3>2. GatherTypeOK' BY <2>2, <3>1 DEF GatherTypeOK
    <3>3. Summed' BY <2>2, <3>1 DEF Summed, Forked
    <3>4. program \in Segments => SegmentInv'
      BY <2>2, <3>1 DEF SegmentInv, MyValue, Forked
    <3>5. program \in Persistent \ Segments => QueueInv'
      BY <2>2, <3>1 DEF QueueInv, SentBy, MyValue, Forked
    <3> QED BY <1>p, <2>1, <3>2, <3>3, <3>4, <3>5 DEF GatherInv
  <2>5. PersistentStep \/ CtrlC \/ Again \/ UNCHANGED vars
    BY <2>1, GatherOnly DEF GatherStep, GatherEvent
  <2> QED BY <2>3, <2>4, <2>5
<1>3. CASE program = "ex6"
  <2>1. program \in GatherPrograms /\ program \notin Persistent /\ program \notin Segments
    BY <1>3 DEF GatherPrograms, Persistent, Segments
  <2>2. GatherTypeOK /\ Ex6Inv BY <1>3, <2>1 DEF GatherInv
  <2>3. Ex6 \/ UNCHANGED vars
    BY <1>3, <2>1, GatherOnly DEF GatherStep, GatherEvent
  <2>4. GatherTypeOK' /\ Ex6Inv'
    <3>1. CASE Ex6 BY <1>3, <1>p, <2>2, <3>1, Ex6StepInv
    <3>2. CASE UNCHANGED vars
      <4>1. UNCHANGED <<program, pc, pending, reaped, failed, round, mem, queue, res, nb>>
        BY <3>2 DEF vars, processes, gather
      <4> QED BY <2>2, <4>1 DEF GatherTypeOK, Ex6Inv, WithSignal, SentBy, MyValue, Forked
    <3> QED BY <2>3, <3>1, <3>2
  <2> QED BY <1>3, <1>p, <2>1, <2>4 DEF GatherInv
<1>4. CASE program = "ex3"
  <2>1. program \in GatherPrograms /\ program \notin Persistent /\ program \notin Segments
    BY <1>4 DEF GatherPrograms, Persistent, Segments
  <2>2. GatherTypeOK /\ Ex3Inv BY <1>4, <2>1 DEF GatherInv
  <2>3. Ex3 \/ UNCHANGED vars
    BY <1>4, <2>1, GatherOnly DEF GatherStep, GatherEvent
  <2>4. GatherTypeOK' /\ Ex3Inv'
    <3>1. CASE Ex3 BY <1>4, <1>p, <2>2, <3>1, Ex3StepInv
    <3>2. CASE UNCHANGED vars
      <4>1. UNCHANGED <<program, pc, pending, reaped, failed, round, mem, queue, res, nb, order>>
        BY <3>2 DEF vars, processes, gather
      <4> QED BY <2>2, <4>1 DEF GatherTypeOK, Ex3Inv, WithSignal, Written, MyValue, Forked, Zero
    <3> QED BY <2>3, <3>1, <3>2
  <2> QED BY <1>4, <1>p, <2>1, <2>4 DEF GatherInv
<1>5. program \in GatherPrograms => program \in Persistent \cup {"ex6", "ex3"}
  BY DEF GatherPrograms, Persistent
<1> QED BY <1>1, <1>2, <1>3, <1>4, <1>5

(* What was produced, read and left stays as GatherInv describes, for any  *)
(* number of sons and of executions.                                       *)
THEOREM GatherInvariance == Spec => []GatherInv
<1>1. Init => GatherInv BY GatherInitInv
<1>2. GatherInv /\ [Next]_vars => GatherInv' BY GatherStepInv
<1> QED BY <1>1, <1>2, PTL DEF Spec

(* The values of one execution are as many as its sons, and those that     *)
(* were sent are among them.                                               *)
LEMMA OwnValues ==
  /\ IsFiniteSet(Own) /\ Cardinality(Own) = Cardinality(Forked)
  /\ \A S : SentBy(S) \subseteq Own
<1> DEFINE f == [p \in Forked |-> MyValue(p)]
<1>1. f \in [Forked -> Own] BY DEF Own
<1>2. \A p, q \in Forked : f[p] = f[q] => p = q BY DEF MyValue
<1>3. \A v \in Own : \E p \in Forked : f[p] = v BY DEF Own
<1>4. f \in Bijection(Forked, Own)
  BY <1>1, <1>2, <1>3 DEF Bijection, Injection, Surjection, IsInjective
<1>5. ExistsBijection(Forked, Own) BY <1>4 DEF ExistsBijection
<1>6. IsFiniteSet(Own) /\ Cardinality(Own) = Cardinality(Forked)
  BY <1>5, ForkedOnes, FS_Bijection
<1> QED BY <1>6 DEF SentBy, Own

(* The father that ends has added the value of each son once and nothing   *)
(* else, for any number of sons and of executions, wherever Ctrl-C fell,   *)
(* when nothing was left in a queue.                                       *)
THEOREM EveryValueSummed == Spec => []SumComplete
<1>1. ASSUME GatherInv PROVE SumComplete
  <2> SUFFICES ASSUME program \in GatherPrograms \ {"ex3"}, dirty => program \in Segments,
                      pc[Father] = "end", ~ failed
               PROVE  Len(res) = Cardinality(Own) /\ Range(res) = Own
    BY DEF SumComplete
  <2>1. res \in Seq(Cells) BY <1>1 DEF GatherInv, GatherTypeOK
  <2>2. /\ IsFiniteSet(Own) /\ Cardinality(Own) = Cardinality(Forked)
        /\ \A S : SentBy(S) \subseteq Own
    BY OwnValues
  <2>3. ASSUME \A n \in DOMAIN res : res[n] \in Own,
               \A m, n \in DOMAIN res : res[m] = res[n] => m = n,
               Len(res) = Cardinality(Own) \/ Len(res) >= Cardinality(Own)
        PROVE  Len(res) = Cardinality(Own) /\ Range(res) = Own
    <3>1. Len(res) <= Cardinality(Own) /\ (Len(res) = Cardinality(Own) => Range(res) = Own)
      BY <2>1, <2>2, <2>3, AllOfThem
    <3>2. Len(res) \in Nat /\ Cardinality(Own) \in Nat BY <2>1, <2>2, LenProperties, ForkedOnes
    <3>3. Len(res) = Cardinality(Own) BY <2>3, <3>1, <3>2
    <3> QED BY <3>1, <3>3
  <2>4. ASSUME NEW e, NEW S, Carried(res, e, SentBy(S))
        PROVE  /\ \A n \in DOMAIN res : res[n] \in Own
               /\ \A m, n \in DOMAIN res : res[m] = res[n] => m = n
    BY <2>2, <2>4 DEF Carried
  <2>5. CASE program \in Segments
    <3>1. SegmentInv /\ Summed BY <1>1, <2>5 DEF GatherInv, Segments, Persistent
    <3>2. Len(res) = Cardinality(Forked) BY <3>1 DEF Summed
    <3>3. Forked = 0 .. N - 1 /\ Cardinality(Forked) = N /\ N \in Nat
      BY <2>5, ForkedOnes DEF Segments
    <3>4. DOMAIN res = 1 .. N BY <2>1, <3>2, <3>3, LenProperties
    <3>5. \A n \in DOMAIN res : n - 1 \in Forked /\ res[n] = MyValue(n - 1)
      BY <3>1, <3>3, <3>4 DEF SegmentInv
    <3>6. \A n \in DOMAIN res : res[n] \in Own BY <3>5 DEF Own
    <3>7. \A m, n \in DOMAIN res : res[m] = res[n] => m = n
      <4>1. \A m, n \in DOMAIN res : res[m] = res[n] => m - 1 = n - 1 BY <3>5 DEF MyValue
      <4>2. \A m, n \in DOMAIN res : m \in Int /\ n \in Int BY <3>3, <3>4
      <4>3. \A m, n \in Int : m - 1 = n - 1 => m = n OBVIOUS
      <4> QED BY <4>1, <4>2, <4>3
    <3> QED BY <2>2, <2>3, <3>2, <3>6, <3>7
  <2>6. CASE program \in Persistent \ Segments
    <3>1. QueueInv /\ Summed BY <1>1, <2>6 DEF GatherInv
    <3>2. Carried(res, queue, SentBy({"end"})) BY <2>6, <3>1 DEF QueueInv
    <3>3. Len(res) = Cardinality(Forked) BY <3>1 DEF Summed
    <3> QED BY <2>2, <2>3, <2>4, <3>2, <3>3
  <2>7. CASE program = "ex6"
    <3>1. Ex6Inv BY <1>1, <2>7 DEF GatherInv
    <3>2. Carried(res, WithSignal, SentBy({"sent", "end"})) BY <3>1 DEF Ex6Inv
    <3>3. Cardinality(Forked) = N BY <2>7, ForkedOnes
    <3>4. Len(res) >= Cardinality(Own) BY <2>2, <3>1, <3>3 DEF Ex6Inv
    <3> QED BY <2>3, <2>4, <3>2, <3>4
  <2>8. program \in Persistent \cup {"ex6"} BY DEF GatherPrograms, Persistent
  <2> QED BY <2>5, <2>6, <2>7, <2>8
<1> QED BY <1>1, GatherInvariance, PTL

(* The k-th value the father of ex3 prints is that of the k-th son, or is  *)
(* missing and that son was not among the first k to notify, for any       *)
(* number of sons.                                                         *)
THEOREM ReadOrNotNotified == Spec => []ReadOrUnnotified
<1>1. ASSUME GatherInv PROVE ReadOrUnnotified
  <2> SUFFICES ASSUME program = "ex3", NEW k \in DOMAIN res
               PROVE  \/ res[k] = MyValue(k - 1)
                      \/ res[k] = Zero /\ k - 1 \notin Range(SubSeq(order, 1, k))
    BY DEF ReadOrUnnotified
  <2>1. Ex3Inv /\ GatherTypeOK BY <1>1 DEF GatherInv, GatherPrograms
  <2>2. /\ res \in Seq(Cells) /\ order \in Seq(Sons)
        /\ nb = Len(order)
        /\ Len(res) = IF pc[Father] = "reading" THEN nb - 1 ELSE nb
        /\ \/ res[k] = MyValue(k - 1)
           \/ res[k] = Zero /\ \A n \in 1 .. k : order[n] # k - 1
    BY <2>1 DEF Ex3Inv, GatherTypeOK
  <2>3. k \in 1 .. Len(res) /\ Len(res) \in Nat /\ Len(order) \in Nat
    BY <2>2, LenProperties
  <2>4. k \in Nat /\ 1 <= k /\ k <= Len(order) BY <2>2, <2>3
  <2>5. ASSUME \A n \in 1 .. k : order[n] # k - 1
        PROVE  k - 1 \notin Range(SubSeq(order, 1, k))
    <3> DEFINE s == SubSeq(order, 1, k)
    <3>1. /\ s \in Seq(Sons)
          /\ Len(s) = IF 1 <= k THEN k - 1 + 1 ELSE 0
          /\ \A n \in 1 .. k - 1 + 1 : s[n] = order[1 + n - 1]
      <4>1. 1 \in 1 .. Len(order) + 1 /\ k \in 0 .. Len(order) BY <2>3, <2>4
      <4> QED BY <2>2, <4>1, SubSeqProperties
    <3>2. Len(s) = k /\ \A n \in 1 .. k : s[n] = order[n] BY <2>4, <3>1
    <3>3. DOMAIN s = 1 .. k BY <3>1, <3>2, LenProperties
    <3> HIDE DEF s
    <3>4. \A n \in DOMAIN s : s[n] # k - 1 BY <2>5, <3>2, <3>3
    <3>5. k - 1 \notin Range(s) BY <3>4 DEF Range
    <3> QED BY <3>5 DEF s
  <2> QED BY <2>2, <2>5
<1> QED BY <1>1, GatherInvariance, PTL
-----------------------------------------------------------------------------
(* The programs that write a file backwards (FileReverse) *)

(* A step of these programs is one of ReverseNext.                         *)
LEMMA ReverseOnly ==
  ASSUME Next, program \in ReversePrograms
  PROVE  ReverseNext
BY DEF Next, Step, Event, ChainPrograms, GatherPrograms, BarrierPrograms, ThreadPrograms,
  JobPrograms, EnvPrograms, ReversePrograms, AcceptPrograms

(* The place k of the target, in block m and of rank r in its block.       *)
LEMMA BlockOf ==
  ASSUME NEW d \in Nat \ {0}, NEW m \in Nat, NEW r \in 1 .. d
  PROVE  /\ (m * d + r - 1) \div d = m
         /\ (m * d + r - 1) % d = r - 1
<1> DEFINE k == m * d + r - 1
<1>1. m * d \in Nat
  OBVIOUS
<1>2. k \in Nat
  BY <1>1
<1>3. PICK q, t : q = k \div d /\ t = k % d
  OBVIOUS
<1>4. q \in Nat /\ t \in Nat /\ t < d /\ k = q * d + t
  BY <1>2, <1>3, SMTT(30)
<1>5. (m - q) * d = t - (r - 1)
  BY <1>1, <1>4
<1>6. m - q \in Int /\ t - (r - 1) < d /\ t - (r - 1) > -d
  BY <1>4
<1>7. m - q >= 1 => (m - q) * d >= d
  BY <1>6
<1>8. m - q <= -1 => (m - q) * d <= -d
  BY <1>6
<1>9. m = q
  BY <1>4, <1>5, <1>6, <1>7, <1>8
<1>10. t = r - 1
  BY <1>4, <1>5, <1>9
<1> QED BY <1>3, <1>9, <1>10

(* A file of known characters.                                             *)
LEMMA SourceTyped ==
  ASSUME NEW s \in Sources
  PROVE  s \in Seq(Characters) /\ Len(s) \in Nat /\ DOMAIN s = 1 .. Len(s)
<1>1. s \in Seq(Characters)
  BY ReverseAssumption
<1> QED BY <1>1

(* A block of the file.                                                    *)
LEMMA BlockFacts ==
  ASSUME NEW S, source \in Seq(S), NEW from \in Nat, NEW n \in Nat, from + n <= Len(source)
  PROVE  /\ Block(from, n) \in Seq(S) /\ Len(Block(from, n)) = n
         /\ \A k \in 1 .. n : Block(from, n)[k] = source[from + k]
<1>1. Len(source) \in Nat
  OBVIOUS
<1>2. from + 1 \in 1 .. Len(source) + 1 /\ from + n \in 0 .. Len(source)
  BY <1>1
<1>3. /\ SubSeq(source, from + 1, from + n) \in Seq(S)
      /\ Len(SubSeq(source, from + 1, from + n)) = n
      /\ \A k \in 1 .. n : SubSeq(source, from + 1, from + n)[k] = source[from + k]
  BY <1>1, <1>2
<1> QED BY <1>3 DEF Block

(* The invariant holds before a file is opened.                            *)
LEMMA ReverseInitInv == Init => ReverseInv
<1> SUFFICES ASSUME Init, program \in ReversePrograms PROVE ReverseInv
  BY DEF ReverseInv
<1>1. Father \in Procs /\ pc[Father] = "fork" /\ ~ failed
  BY DEF Init, ProcessesInit, Father, Procs
<1>2. pc \in [Procs -> {"fork", "none", "loop", "suspend", "end"}]
  BY DEF Init, ProcessesInit
<1>3. ReverseTypeOK
  BY <1>2 DEF Init, ReverseInit, ReverseTypeOK
<1> QED BY <1>1, <1>3 DEF Init, ReverseInit, ReverseInv, BlocksWritten, CharsRead

(* One character more is written: the one before those already there, or   *)
(* none if it is an end of line.                                           *)
LEMMA CharWritten ==
  ASSUME NEW S, NEW s \in Seq(S), NEW t \in Seq(S), NEW u \in 1 .. Len(s),
         Backwards(s, t, u)
  PROVE  Backwards(s, IF s[u] = Newline THEN t ELSE Append(t, s[u]), u - 1)
<1>1. /\ DOMAIN s = 1 .. Len(s) /\ Len(s) \in Nat /\ s[u] \in S
      /\ DOMAIN t = 1 .. Len(t) /\ Len(t) \in Nat
  OBVIOUS
<1>2. PICK k : k = Len(t)
  OBVIOUS
<1>3. PICK place \in [DOMAIN t -> DOMAIN s] :
        /\ \A m, n \in DOMAIN t : m < n => place[m] > place[n]
        /\ \A n \in DOMAIN t : t[n] = s[place[n]]
        /\ \A c \in DOMAIN s : c > u /\ s[c] # Newline <=> \E n \in DOMAIN t : place[n] = c
  BY DEF Backwards
<1>4. CASE s[u] = Newline
  <2>1. \A c \in DOMAIN s : c > u - 1 /\ s[c] # Newline <=> c > u /\ s[c] # Newline
    <3>1. \A c \in DOMAIN s : c > u - 1 <=> c > u \/ c = u
      BY <1>1
    <3> QED BY <1>4, <3>1
  <2>2. \A c \in DOMAIN s : c > u - 1 /\ s[c] # Newline <=> \E n \in DOMAIN t : place[n] = c
    BY <1>3, <2>1
  <2>3. Backwards(s, t, u - 1)
    BY <1>3, <2>2 DEF Backwards
  <2> QED BY <1>4, <2>3
<1>5. CASE s[u] # Newline
  <2>1. PICK w : w = Append(t, s[u])
    OBVIOUS
  <2>2. /\ DOMAIN w = 1 .. k + 1 /\ w[k + 1] = s[u]
        /\ \A n \in 1 .. k : w[n] = t[n]
    BY <1>1, <1>2, <2>1
  <2>3. PICK p : p = [n \in 1 .. k + 1 |-> IF n <= k THEN place[n] ELSE u]
    OBVIOUS
  <2>4. \A n \in 1 .. k : p[n] = place[n] /\ place[n] \in DOMAIN s
    BY <1>1, <1>2, <1>3, <2>3
  <2>5. p[k + 1] = u /\ p \in [1 .. k + 1 -> DOMAIN s]
    BY <1>1, <1>2, <1>3, <2>3
  <2>6. \A n \in 1 .. k : place[n] > u
    BY <1>1, <1>2, <1>3, <2>4
  <2>7. /\ \A n \in 1 .. k + 1 : n \in 1 .. k \/ n = k + 1
        /\ \A n \in 1 .. k : n \in 1 .. k + 1
        /\ k + 1 \in 1 .. k + 1
    BY <1>1, <1>2
  <2>8. ASSUME NEW m \in 1 .. k + 1, NEW n \in 1 .. k + 1, m < n
        PROVE  p[m] > p[n]
    <3>1. m \in 1 .. k
      BY <1>1, <1>2, <2>8
    <3>2. CASE n \in 1 .. k
      BY <1>1, <1>2, <1>3, <2>4, <2>8, <3>1, <3>2
    <3>3. CASE n = k + 1
      BY <2>4, <2>5, <2>6, <3>1, <3>3
    <3> QED BY <2>7, <3>2, <3>3
  <2>9. ASSUME NEW n \in 1 .. k + 1
        PROVE  w[n] = s[p[n]]
    <3>1. CASE n \in 1 .. k
      BY <1>1, <1>2, <1>3, <2>2, <2>4, <3>1
    <3>2. CASE n = k + 1
      BY <2>2, <2>5, <3>2
    <3> QED BY <2>7, <3>1, <3>2
  <2>10. ASSUME NEW c \in 1 .. Len(s)
         PROVE  c > u - 1 /\ s[c] # Newline <=> \E n \in 1 .. k + 1 : p[n] = c
    <3>1. CASE c = u
      <4>1. c > u - 1 /\ s[c] # Newline
        BY <1>1, <1>5, <3>1
      <4> QED BY <2>5, <2>7, <3>1, <4>1
    <3>2. CASE c # u
      <4>1. c > u - 1 <=> c > u
        BY <1>1, <3>2
      <4>2. c > u /\ s[c] # Newline <=> \E n \in 1 .. k : place[n] = c
        BY <1>1, <1>2, <1>3
      <4>3. (\E n \in 1 .. k : place[n] = c) <=> \E n \in 1 .. k + 1 : p[n] = c
        BY <2>4, <2>5, <2>7, <3>2
      <4> QED BY <4>1, <4>2, <4>3
    <3> QED BY <3>1, <3>2
  <2>11. /\ p \in [DOMAIN w -> DOMAIN s]
         /\ \A m, n \in DOMAIN w : m < n => p[m] > p[n]
         /\ \A n \in DOMAIN w : w[n] = s[p[n]]
    BY <2>2, <2>5, <2>8, <2>9
  <2>12. \A c \in DOMAIN s : c > u - 1 /\ s[c] # Newline <=> \E n \in DOMAIN w : p[n] = c
    BY <1>1, <2>2, <2>10
  <2>13. Backwards(s, w, u - 1)
    BY <2>11, <2>12 DEF Backwards
  <2> QED BY <1>5, <2>1, <2>13
<1> QED BY <1>4, <1>5

(* A step of the two programs that read one character at a time.           *)
LEMMA CharsStep ==
  ASSUME ReverseTypeOK, program \in {"lseekInv", "preadInv"},
         program' = program, CharsRead, ~ failed, ReverseChar \/ EndChars
  PROVE  ReverseTypeOK' /\ CharsRead' /\ ~ failed' /\ pc'[Father] # "fork"
<1>0. /\ pc \in [Procs -> {"fork", "none", "loop", "suspend", "end"}] /\ Father \in Procs
      /\ source \in Seq(Characters) /\ target \in Seq(Characters) /\ at \in Int
      /\ num_reading \in Nat /\ signals \in Nat /\ left \in Nat
      /\ Size \in Nat /\ DOMAIN source = 1 .. Size
  BY DEF ReverseTypeOK, Procs, Size
<1>1. CASE ReverseChar
  <2>1. /\ pc[Father] = "loop" /\ InFile /\ at' = at - 1
        /\ target' = IF Char = Newline THEN target ELSE Append(target, Char)
        /\ pc' = pc /\ failed' = failed /\ source' = source
        /\ num_reading' = num_reading /\ signals' = signals /\ left' = left
    BY <1>1 DEF ReverseChar, processes
  <2>2. PICK u : u = Unread
    OBVIOUS
  <2>3. /\ u \in 1 .. Size /\ Char = source[u] /\ Unread' = u - 1 /\ Size' = Size
    BY <1>0, <2>1, <2>2 DEF CharsRead, Unread, InFile, Char, Size
  <2>4. Backwards(source, target, u)
    BY <2>1, <2>2 DEF CharsRead
  <2>5. source[u] \in Characters
    BY <1>0, <2>3
  <2>6. target' = IF source[u] = Newline THEN target ELSE Append(target, source[u])
    BY <2>1, <2>3
  <2>7. Backwards(source, IF source[u] = Newline THEN target ELSE Append(target, source[u]), u - 1)
    BY <1>0, <2>3, <2>4, CharWritten DEF Size
  <2>8. Backwards(source', target', Unread')
    <3>1. \A t : t = target' => Backwards(source, t, u - 1)
      BY <2>6, <2>7
    <3>2. Backwards(source, target', u - 1)
      BY <3>1
    <3> QED BY <2>1, <2>3, <3>2
  <2>9. target' \in Seq(Characters)
    BY <1>0, <2>1, <2>3, <2>5
  <2>10. ReverseTypeOK'
    BY <1>0, <2>1, <2>9 DEF ReverseTypeOK
  <2>11. Unread' \in 0 .. Size'
    BY <1>0, <2>3
  <2>12. CharsRead'
    BY <2>1, <2>8, <2>11 DEF CharsRead
  <2> QED BY <2>1, <2>10, <2>12
<1>2. CASE EndChars
  <2>1. /\ ~ InFile /\ pc[Father] = "loop" /\ pc' = [pc EXCEPT ![Father] = "end"]
        /\ failed' = failed /\ source' = source /\ target' = target /\ at' = at
        /\ num_reading' = num_reading /\ signals' = signals /\ left' = left
    BY <1>2 DEF EndChars, Goto
  <2>2. pc'[Father] = "end" /\ ReverseTypeOK'
    BY <1>0, <2>1 DEF ReverseTypeOK
  <2>3. Unread = 0 /\ Unread' = 0 /\ Unread' \in 0 .. Size'
    BY <1>0, <2>1 DEF CharsRead, Unread, InFile, Size
  <2>4. Backwards(source, target, 0)
    BY <2>1, <2>3 DEF CharsRead
  <2>5. Backwards(source', target', Unread')
    BY <2>1, <2>3, <2>4
  <2>6. CharsRead'
    BY <2>3, <2>5 DEF CharsRead
  <2> QED BY <2>1, <2>2, <2>6
<1> QED BY <1>1, <1>2

(* The place k of the target of ex4, in block m and of rank r in its block. *)
LEMMA ReorderedPlace ==
  ASSUME NEW m \in Nat, NEW r \in 1 .. DISPLACEMENT,
         NEW start, start = (Size - 1) - (m + 1) * DISPLACEMENT
  PROVE  Reordered(m * DISPLACEMENT + r) =
           IF start >= 0 THEN source[start + r] ELSE source[r]
<1>1. DISPLACEMENT \in Nat \ {0}
  BY ReverseAssumption
<1>2. PICK e : e = m * DISPLACEMENT
  OBVIOUS
<1>3. e \in Nat
  BY <1>1, <1>2
<1>4. (e + r - 1) \div DISPLACEMENT = m /\ (e + r - 1) % DISPLACEMENT = r - 1
  BY <1>1, <1>2, BlockOf
<1>5. (e + r) - 1 = e + r - 1 /\ 1 + (r - 1) = r
  BY <1>3
<1>6. Reordered(e + r) = IF start >= 0 THEN source[start + r] ELSE source[r]
  BY <1>4, <1>5 DEF Reordered
<1> QED BY <1>2, <1>6

\* the numbers of characters in whole blocks
WholeBlocks == {n * DISPLACEMENT : n \in Nat}

(* Characters of the source written after whole blocks, e characters: a    *)
(* block, or the rest of the file when no block is left.                   *)
LEMMA PartWritten ==
  ASSUME source \in Seq(Characters), NEW e \in WholeBlocks, e \in Nat,
         NEW t \in Seq(Characters), t = Rearranged(e),
         NEW d \in Nat, d <= DISPLACEMENT, NEW from \in Nat, from + d <= Len(source),
         IF Len(source) < DISPLACEMENT + 1 + e THEN from = 0
         ELSE from + DISPLACEMENT + 1 + e = Len(source)
  PROVE  t \o Block(from, d) \in Seq(Characters) /\ t \o Block(from, d) = Rearranged(e + d)
<1>1. DISPLACEMENT \in Nat \ {0} /\ Size = Len(source) /\ Size \in Nat
  BY ReverseAssumption DEF Size
<1>2. PICK n \in Nat : e = n * DISPLACEMENT /\ (n + 1) * DISPLACEMENT = e + DISPLACEMENT
  <2>1. PICK n \in Nat : e = n * DISPLACEMENT
    BY DEF WholeBlocks
  <2>2. (n + 1) * DISPLACEMENT = e + DISPLACEMENT
    BY <1>1, <2>1
  <2> QED BY <2>1, <2>2
<1>3. PICK b : b = Block(from, d)
  OBVIOUS
<1>4. /\ b \in Seq(Characters) /\ Len(b) = d
      /\ \A k \in 1 .. d : b[k] = source[from + k]
  BY <1>1, <1>3, BlockFacts
<1>5. Len(t) = e /\ \A k \in 1 .. e : t[k] = Reordered(k)
  BY DEF Rearranged
<1>6. PICK w : w = t \o b
  OBVIOUS
<1>7. /\ w \in Seq(Characters) /\ Len(w) = e + d
      /\ \A k \in 1 .. e + d : w[k] = IF k <= e THEN t[k] ELSE b[k - e]
  <2>1. /\ w \in Seq(Characters) /\ Len(w) = Len(t) + Len(b)
        /\ \A k \in 1 .. Len(t) + Len(b) : w[k] = IF k <= Len(t) THEN t[k] ELSE b[k - Len(t)]
    BY <1>4, <1>6, ConcatProperties
  <2> QED BY <1>4, <1>5, <2>1, Zenon
<1>8. ASSUME NEW k \in 1 .. e + d
      PROVE  w[k] = Reordered(k)
  <2>1. CASE k <= e
    <3>1. w[k] = t[k]
      BY <1>7, <2>1
    <3> QED BY <1>5, <2>1, <3>1
  <2>2. CASE ~ k <= e
    <3>1. PICK j : j = k - e
      OBVIOUS
    <3>2. j \in 1 .. d /\ j \in 1 .. DISPLACEMENT /\ k = n * DISPLACEMENT + j
      BY <1>1, <1>2, <2>2, <3>1
    <3>3. w[k] = source[from + j]
      BY <1>4, <1>7, <2>2, <3>1, <3>2
    <3>4. PICK start : start = (Size - 1) - (e + DISPLACEMENT)
      OBVIOUS
    <3>5. IF start >= 0 THEN start = from ELSE from = 0
      BY <1>1, <3>4
    <3>6. Reordered(k) = IF start >= 0 THEN source[start + j] ELSE source[j]
      <4>1. \A s : s = (Size - 1) - (n + 1) * DISPLACEMENT =>
              Reordered(n * DISPLACEMENT + j) = IF s >= 0 THEN source[s + j] ELSE source[j]
        BY <3>2, ReorderedPlace
      <4> QED BY <1>2, <3>2, <3>4, <4>1
    <3> QED BY <3>2, <3>3, <3>5, <3>6
  <2> QED BY <2>1, <2>2
<1>9. w = [k \in 1 .. e + d |-> Reordered(k)]
  <2>1. w = [k \in 1 .. e + d |-> w[k]]
    BY <1>7
  <2> QED BY <1>8, <2>1
<1> QED BY <1>3, <1>6, <1>7, <1>9 DEF Rearranged

(* What the program that writes by blocks has written once the block read  *)
(* next is.                                                                *)
LEMMA NextBlock ==
  ASSUME ReverseTypeOK, BlocksWritten, pc[Father] = "loop",
         NEW e \in Nat, e = num_reading * DISPLACEMENT
  PROVE  /\ at \in Nat /\ Size = at + DISPLACEMENT + 1 + e /\ Size = Len(source)
         /\ e + DISPLACEMENT = (num_reading + 1) * DISPLACEMENT
         /\ e + DISPLACEMENT \in WholeBlocks
         /\ target \o Block(at, DISPLACEMENT) \in Seq(Characters)
         /\ target \o Block(at, DISPLACEMENT) = Rearranged(e + DISPLACEMENT)
<1>1. /\ source \in Seq(Characters) /\ num_reading \in Nat /\ DISPLACEMENT \in Nat
  BY ReverseAssumption DEF ReverseTypeOK
<1>2. /\ at \in Nat /\ Size = at + DISPLACEMENT + 1 + e /\ Size = Len(source)
      /\ target = Rearranged(e)
  BY DEF BlocksWritten, Size
<1>3. e \in WholeBlocks
  BY <1>1 DEF WholeBlocks
<1>4. PICK n \in Nat : n = num_reading
  BY <1>1
<1>5. e + DISPLACEMENT = (n + 1) * DISPLACEMENT
  BY <1>1, <1>4
<1>6. e + DISPLACEMENT \in WholeBlocks
  BY <1>4, <1>5 DEF WholeBlocks
<1>7. PICK a, t, d : a = at /\ t = target /\ d = DISPLACEMENT
  OBVIOUS
<1>8. a \in Nat
  BY <1>2, <1>7
<1>9. t \in Seq(Characters)
  BY <1>7 DEF ReverseTypeOK
<1>10. t = Rearranged(e)
  BY <1>2, <1>7
<1>11. d \in Nat
  BY <1>1, <1>7
<1>12. d <= DISPLACEMENT
  BY <1>1, <1>7
<1>13. source \in Seq(Characters) /\ e \in Nat
  BY <1>1
<1>14. a + d <= Len(source)
  BY <1>1, <1>2, <1>7
<1>15. IF Len(source) < DISPLACEMENT + 1 + e THEN a = 0
       ELSE a + DISPLACEMENT + 1 + e = Len(source)
  BY <1>1, <1>2, <1>7
<1>16. t \o Block(a, d) \in Seq(Characters) /\ t \o Block(a, d) = Rearranged(e + d)
  BY <1>3, <1>8, <1>9, <1>10, <1>11, <1>12, <1>13, <1>14, <1>15, PartWritten
<1> QED BY <1>2, <1>4, <1>5, <1>6, <1>7, <1>16

(* And what it has written in the end, with the rest of the file.          *)
LEMMA LastBlock ==
  ASSUME ReverseTypeOK, BlocksWritten, pc[Father] = "loop", at < DISPLACEMENT
  PROVE  /\ target \o Block(at, DISPLACEMENT) \o Block(0, at) \in Seq(Characters)
         /\ target \o Block(at, DISPLACEMENT) \o Block(0, at) = Rearranged(Size - 1)
<1>1. /\ source \in Seq(Characters) /\ num_reading \in Nat /\ DISPLACEMENT \in Nat
  BY ReverseAssumption DEF ReverseTypeOK
<1>2. PICK m \in Nat : m = num_reading * DISPLACEMENT
  BY <1>1
<1>3. PICK e \in Nat : e = m + DISPLACEMENT
  BY <1>1
<1>4. PICK t, d : t = target \o Block(at, DISPLACEMENT) /\ d = at
  OBVIOUS
<1>5. /\ at \in Nat /\ Size = at + DISPLACEMENT + 1 + m /\ Size = Len(source)
      /\ m + DISPLACEMENT \in WholeBlocks /\ t \in Seq(Characters)
      /\ t = Rearranged(m + DISPLACEMENT)
  BY <1>2, <1>4, NextBlock
<1>6. PICK from : from = 0
  OBVIOUS
<1>7. e \in WholeBlocks
  BY <1>3, <1>5
<1>8. t \in Seq(Characters)
  BY <1>5
<1>9. t = Rearranged(e)
  BY <1>3, <1>5
<1>10. d \in Nat /\ d <= DISPLACEMENT
  BY <1>1, <1>4, <1>5
<1>11. from \in Nat
  BY <1>6
<1>12. from + d <= Len(source)
  BY <1>1, <1>4, <1>5, <1>6
<1>13. IF Len(source) < DISPLACEMENT + 1 + e THEN from = 0
       ELSE from + DISPLACEMENT + 1 + e = Len(source)
  BY <1>1, <1>3, <1>4, <1>5, <1>6
<1>14. t \o Block(from, d) \in Seq(Characters) /\ t \o Block(from, d) = Rearranged(e + d)
  BY <1>1, <1>7, <1>8, <1>9, <1>10, <1>11, <1>12, <1>13, PartWritten
<1>15. e + d = Size - 1
  BY <1>1, <1>3, <1>4, <1>5
<1> QED BY <1>4, <1>6, <1>14, <1>15

(* What has been written when a list fails.                                *)
LEMMA PartTyped ==
  ASSUME ReverseTypeOK, BlocksWritten, pc[Father] = "loop"
  PROVE  /\ \A n \in 0 .. DISPLACEMENT : target \o Block(at, n) \in Seq(Characters)
         /\ \A n \in 0 .. at :
              target \o Block(at, DISPLACEMENT) \o Block(0, n) \in Seq(Characters)
<1>1. source \in Seq(Characters) /\ target \in Seq(Characters) /\ Len(source) \in Nat
  BY LenProperties DEF ReverseTypeOK
<1>2. PICK e \in Nat : e = num_reading * DISPLACEMENT
  BY ReverseAssumption DEF ReverseTypeOK
<1>3. at \in Nat /\ DISPLACEMENT \in Nat /\ Len(source) = at + DISPLACEMENT + 1 + e
  BY <1>1, <1>2, ReverseAssumption DEF BlocksWritten, Size
<1>4. ASSUME NEW from \in Nat, NEW n \in Nat, from + n <= Len(source)
      PROVE  Block(from, n) \in Seq(Characters)
  <2>1. from + 1 \in 1 .. Len(source) + 1 /\ from + n \in (from + 1) - 1 .. Len(source)
    BY <1>1, <1>4
  <2> QED BY <1>1, <2>1, SubSeqProperties DEF Block
<1>5. \A s, t \in Seq(Characters) : s \o t \in Seq(Characters)
  BY ConcatProperties
<1>6. \A n \in 0 .. DISPLACEMENT : Block(at, n) \in Seq(Characters)
  BY <1>3, <1>4
<1>7. \A n \in 0 .. at : Block(0, n) \in Seq(Characters)
  BY <1>3, <1>4
<1>8. target \o Block(at, DISPLACEMENT) \in Seq(Characters)
  BY <1>1, <1>3, <1>5, <1>6
<1> QED BY <1>1, <1>5, <1>6, <1>7, <1>8

(* A step of the program that writes by blocks.                            *)
LEMMA BlocksStep ==
  ASSUME ReverseTypeOK, program = "ex4", program' = program, BlocksWritten,
         pc[Father] # "fork",
         WriteBlock \/ WriteRest \/ ListFails \/ Sigsuspend \/ EndBlocks
  PROVE  ReverseTypeOK' /\ BlocksWritten' /\ pc'[Father] # "fork"
<1>0. /\ pc \in [Procs -> {"fork", "none", "loop", "suspend", "end"}] /\ Father \in Procs
      /\ source \in Seq(Characters) /\ target \in Seq(Characters) /\ at \in Int
      /\ num_reading \in Nat /\ signals \in Nat /\ left \in Nat
      /\ Size \in Nat /\ DISPLACEMENT \in Nat \ {0} /\ MaxPending \in Nat
  BY ReverseAssumption DEF ReverseTypeOK, Procs, Size
<1>1. CASE WriteBlock
  <2>1. /\ pc[Father] = "loop" /\ at >= DISPLACEMENT /\ at' = at - DISPLACEMENT
        /\ target' = target \o Block(at, DISPLACEMENT)
        /\ num_reading' = num_reading + 1 /\ signals' = signals + DISPLACEMENT
        /\ pc' = pc /\ failed' = failed /\ source' = source /\ left' = left
    BY <1>1 DEF WriteBlock, Notified, processes
  <2>2. PICK e \in Nat : e = num_reading * DISPLACEMENT
    BY <1>0
  <2>3. /\ at \in Nat /\ Size = at + DISPLACEMENT + 1 + e
        /\ e + DISPLACEMENT = (num_reading + 1) * DISPLACEMENT
        /\ target' \in Seq(Characters) /\ target' = Rearranged(e + DISPLACEMENT)
    BY <2>1, <2>2, NextBlock
  <2>4. Size' = Size /\ \A k : Rearranged(k)' = Rearranged(k)
    BY <2>1 DEF Size, Reordered, Rearranged
  <2>5. e + DISPLACEMENT = num_reading' * DISPLACEMENT
    BY <2>1, <2>3
  <2>6. at' \in Nat /\ Size' = at' + DISPLACEMENT + 1 + (e + DISPLACEMENT)
    BY <1>0, <2>1, <2>3, <2>4
  <2>7. BlocksWritten'
    BY <2>1, <2>3, <2>4, <2>5, <2>6 DEF BlocksWritten
  <2>8. signals' \in Nat
    BY <1>0, <2>1
  <2> QED BY <1>0, <2>1, <2>3, <2>6, <2>7, <2>8 DEF ReverseTypeOK
<1>2. CASE WriteRest
  <2>1. /\ pc[Father] = "loop" /\ at < DISPLACEMENT
        /\ pc' = [pc EXCEPT ![Father] = "suspend"]
        /\ target' = target \o Block(at, DISPLACEMENT) \o Block(0, at)
        /\ num_reading' = num_reading + 1 /\ signals' = signals + (DISPLACEMENT + at)
        /\ at' = at /\ failed' = failed /\ source' = source /\ left' = num_reading' + 1
    BY <1>2 DEF WriteRest, Notified, Goto
  <2>2. target' \in Seq(Characters) /\ target' = Rearranged(Size - 1)
    BY <2>1, LastBlock
  <2>3. Size' = Size /\ \A k : Rearranged(k)' = Rearranged(k)
    BY <2>1 DEF Size, Reordered, Rearranged
  <2>4. pc'[Father] = "suspend" /\ pc' \in [Procs -> {"fork", "none", "loop", "suspend", "end"}]
    BY <1>0, <2>1
  <2>5. BlocksWritten'
    BY <2>2, <2>3, <2>4 DEF BlocksWritten
  <2>6. signals' \in Nat
    BY <1>0, <2>1 DEF BlocksWritten
  <2> QED BY <1>0, <2>1, <2>2, <2>4, <2>5, <2>6 DEF ReverseTypeOK
<1>3. CASE Sigsuspend
  <2>1. /\ pc[Father] = "suspend" /\ left > 0 /\ signals > 0
        /\ signals' = signals - 1 /\ left' = left - 1
        /\ pc' = pc /\ failed' = failed /\ source' = source /\ target' = target
        /\ at' = at /\ num_reading' = num_reading
    BY <1>3 DEF Sigsuspend, processes
  <2>2. Size' = Size /\ \A k : Rearranged(k)' = Rearranged(k)
    BY <2>1 DEF Size, Reordered, Rearranged
  <2>3. BlocksWritten'
    BY <2>1, <2>2 DEF BlocksWritten
  <2> QED BY <1>0, <2>1, <2>3 DEF ReverseTypeOK
<1>4. CASE EndBlocks
  <2>1. /\ pc[Father] = "suspend" /\ pc' = [pc EXCEPT ![Father] = "end"]
        /\ failed' = failed /\ source' = source /\ target' = target /\ at' = at
        /\ num_reading' = num_reading /\ signals' = signals /\ left' = left
    BY <1>4 DEF EndBlocks, Goto
  <2>2. pc'[Father] = "end" /\ pc' \in [Procs -> {"fork", "none", "loop", "suspend", "end"}]
    BY <1>0, <2>1
  <2>3. Size' = Size /\ \A k : Rearranged(k)' = Rearranged(k)
    BY <2>1 DEF Size, Reordered, Rearranged
  <2>4. BlocksWritten'
    BY <2>1, <2>2, <2>3 DEF BlocksWritten
  <2> QED BY <1>0, <2>1, <2>2, <2>4 DEF ReverseTypeOK
<1>5. CASE ListFails
  <2>1. /\ pc[Father] = "loop" /\ pc' = [pc EXCEPT ![Father] = "end"] /\ failed' = TRUE
        /\ \/ \E n \in 0 .. DISPLACEMENT : target' = target \o Block(at, n)
           \/ \E n \in 0 .. at : target' = target \o Block(at, DISPLACEMENT) \o Block(0, n)
        /\ num_reading' \in {num_reading, num_reading + 1}
        /\ source' = source /\ at' = at /\ signals' = signals /\ left' = left
    BY <1>5 DEF ListFails, Goto
  <2>2. target' \in Seq(Characters) BY <2>1, PartTyped
  <2>3. pc'[Father] = "end" /\ pc' \in [Procs -> {"fork", "none", "loop", "suspend", "end"}]
    BY <1>0, <2>1
  <2>4. BlocksWritten' BY <2>1, <2>3 DEF BlocksWritten
  <2>5. num_reading' \in Nat BY <1>0, <2>1
  <2> QED BY <1>0, <2>1, <2>2, <2>3, <2>4, <2>5 DEF ReverseTypeOK
<1> QED BY <1>1, <1>2, <1>3, <1>4, <1>5

(* The files are opened.                                                   *)
LEMMA OpenStep ==
  ASSUME program \in ReversePrograms, program' = program, ReverseTypeOK,
         target = << >>, num_reading = 0, OpenFiles
  PROVE  ReverseInv'
<1>1. /\ source' \in Sources /\ target' = << >> /\ num_reading' = 0
      /\ signals' = signals /\ left' = left
      /\ at' = CASE program = "lseekInv" -> -1
                 [] program = "preadInv" -> Len(source') - 1
                 [] program = "ex4" -> Len(source') - (DISPLACEMENT + 1)
      /\ failed' = (program = "ex4" /\ at' < 0)
      /\ pc' = [pc EXCEPT ![Father] = IF failed' THEN "end" ELSE "loop"]
  BY DEF OpenFiles
<1>2. /\ source' \in Seq(Characters) /\ Len(source') \in Nat
      /\ DOMAIN source' = 1 .. Len(source') /\ Size' = Len(source')
      /\ DISPLACEMENT \in Nat \ {0}
  BY <1>1, SourceTyped, ReverseAssumption DEF Size
<1>3. at' \in Int
  BY <1>1, <1>2 DEF ReversePrograms
<1>4. /\ pc' \in [Procs -> {"fork", "none", "loop", "suspend", "end"}]
      /\ pc'[Father] = IF failed' THEN "end" ELSE "loop"
  BY <1>1 DEF ReverseTypeOK, Procs
<1>5. ReverseTypeOK'
  BY <1>1, <1>2, <1>3, <1>4 DEF ReverseTypeOK
<1>6. CASE program \in {"lseekInv", "preadInv"}
  <2>1. ~ failed' /\ pc'[Father] = "loop"
    BY <1>1, <1>4, <1>6
  <2>2. Unread' = Len(source')
    <3>1. program = "lseekInv" => at' = -1
      BY <1>1
    <3>2. program = "preadInv" => at' = Len(source') - 1
      BY <1>1
    <3>3. Unread' = IF program = "lseekInv" THEN Len(source') + at' + 1 ELSE at' + 1
      BY <1>2 DEF Unread
    <3>4. CASE program = "lseekInv"
      BY <1>2, <3>1, <3>3, <3>4
    <3>5. CASE program = "preadInv"
      BY <1>2, <3>2, <3>3, <3>5
    <3> QED BY <1>6, <3>4, <3>5
  <2>3. \A s, t : t = << >> /\ DOMAIN s = 1 .. Len(s) /\ Len(s) \in Nat => Backwards(s, t, Len(s))
    <3> SUFFICES ASSUME NEW s, NEW t, t = << >>, DOMAIN s = 1 .. Len(s), Len(s) \in Nat
                 PROVE  Backwards(s, t, Len(s))
      OBVIOUS
    <3>1. DOMAIN t = {}
      OBVIOUS
    <3>2. PICK place : place = [n \in {} |-> 1]
      OBVIOUS
    <3>3. place \in [DOMAIN t -> DOMAIN s]
      BY <3>1, <3>2
    <3>4. \A k \in DOMAIN s : ~ k > Len(s)
      OBVIOUS
    <3> QED BY <3>1, <3>3, <3>4 DEF Backwards
  <2>4. Backwards(source', target', Unread')
    BY <1>1, <1>2, <2>2, <2>3
  <2>5. CharsRead'
    BY <1>2, <2>1, <2>2, <2>4 DEF CharsRead
  <2> QED BY <1>5, <1>6, <2>1, <2>5 DEF ReverseInv
<1>7. CASE program = "ex4"
  <2>1. CASE at' < 0
    <3>1. failed' /\ pc'[Father] = "end"
      BY <1>1, <1>4, <1>7, <2>1
    <3> QED BY <1>5, <1>7, <3>1 DEF ReverseInv, BlocksWritten
  <2>2. CASE ~ at' < 0
    <3>1. ~ failed' /\ pc'[Father] = "loop"
      BY <1>1, <1>4, <2>2
    <3>2. at' \in Nat /\ Size' = at' + DISPLACEMENT + 1 + num_reading' * DISPLACEMENT
      BY <1>1, <1>2, <1>3, <1>7, <2>2
    <3>3. num_reading' * DISPLACEMENT = 0
      BY <1>1, <1>2
    <3>4. target' = Rearranged(0)'
      BY <1>1 DEF Rearranged
    <3> QED BY <1>5, <1>7, <3>1, <3>2, <3>3, <3>4 DEF ReverseInv, BlocksWritten
  <2> QED BY <2>1, <2>2
<1> QED BY <1>6, <1>7 DEF ReversePrograms

(* Each step keeps the invariant.                                          *)
LEMMA ReverseStepInv == ReverseInv /\ [Next]_vars => ReverseInv'
<1> SUFFICES ASSUME ReverseInv, [Next]_vars, program' \in ReversePrograms
             PROVE  ReverseInv'
  BY DEF ReverseInv
<1>1. program' = program /\ program \in ReversePrograms
  BY ProgramKept
<1>2. /\ ReverseTypeOK
      /\ pc[Father] = "fork" => target = << >> /\ num_reading = 0 /\ ~ failed
      /\ program = "ex4" => BlocksWritten
      /\ program # "ex4" => CharsRead /\ ~ failed
  BY <1>1 DEF ReverseInv
<1>3. CASE OpenFiles
  BY <1>1, <1>2, <1>3, OpenStep DEF OpenFiles
<1>4. CASE program # "ex4" /\ (ReverseChar \/ EndChars)
  <2>1. ReverseTypeOK' /\ CharsRead' /\ ~ failed' /\ pc'[Father] # "fork"
    BY <1>1, <1>2, <1>4, CharsStep DEF ReversePrograms
  <2> QED BY <1>1, <1>4, <2>1 DEF ReverseInv
<1>5. CASE program = "ex4" /\ (WriteBlock \/ WriteRest \/ ListFails \/ Sigsuspend \/ EndBlocks)
  <2>1. pc[Father] # "fork"
    BY <1>5 DEF WriteBlock, WriteRest, ListFails, Sigsuspend, EndBlocks, Goto
  <2>2. ReverseTypeOK' /\ BlocksWritten' /\ pc'[Father] # "fork"
    BY <1>1, <1>2, <1>5, <2>1, BlocksStep
  <2> QED BY <1>1, <1>5, <2>2 DEF ReverseInv
<1>6. CASE UNCHANGED vars
  BY <1>2, <1>6 DEF vars, processes, reversal, ReverseInv, ReverseTypeOK, BlocksWritten,
    CharsRead, Unread, Size, Rearranged, Reordered
<1>7. Next => ReverseNext
  BY <1>1, ReverseOnly
<1> QED BY <1>3, <1>4, <1>5, <1>6, <1>7 DEF ReverseNext

(* The invariant of the programs that write a file backwards holds in      *)
(* every execution: what they have written at each moment is what they     *)
(* have read, backwards.                                                   *)
THEOREM ReverseInvariance == Spec => []ReverseInv
<1>1. Init => ReverseInv
  BY ReverseInitInv
<1> QED BY <1>1, ReverseStepInv, PTL DEF Spec

(* When lseekInv, preadInv or ex4 ends, the file it has written is its     *)
(* source backwards: character by character without the ends of line, or   *)
(* block by block without the last character.                              *)
THEOREM ReversedFiles == Spec => []Reversed
<1>1. ReverseInv => Reversed
  <2> SUFFICES ASSUME ReverseInv, program \in ReversePrograms, pc[Father] = "end", ~ failed
               PROVE  IF program = "ex4" THEN target = Rearranged(Size - 1)
                      ELSE Backwards(source, target, 0)
    BY DEF Reversed
  <2>1. CASE program = "ex4"
    BY <2>1 DEF ReverseInv, BlocksWritten
  <2>2. CASE program # "ex4"
    <3>1. Backwards(source, target, Unread) /\ Unread = 0
      BY <2>2 DEF ReverseInv, CharsRead
    <3> QED BY <2>2, <3>1
  <2> QED BY <2>1, <2>2
<1> QED BY <1>1, ReverseInvariance, PTL
=============================================================================
