------------------------------ MODULE FileJobs ------------------------------
(***************************************************************************)
(* pool.c and unlimited.c of TME03 with common.c: threads that put files   *)
(* in upper case, in place.  In "pool" a fixed number of threads pop the   *)
(* names from the arguments under mutex_files_jobs; in "unlimited" there   *)
(* is a thread per argument.  The same file may be named twice.            *)
(* main is the Father, a thread is a son.  A file is the function from its *)
(* positions to "lower" or "upper"; a character is read and put back in    *)
(* upper case in one step, since what is written depends on nothing else.  *)
(***************************************************************************)
EXTENDS Processes

CONSTANTS Jobs,      \* the files named by the arguments, a sequence
          FileSize   \* the characters of each file

\* there is a son for each thread
ASSUME JobsAssumption ==
  Jobs \in Seq(Range(Jobs)) /\ Len(Jobs) <= N + 1 /\ FileSize \in Nat

VARIABLES first_pos_undone, mutex_jobs,
          job, pos,  \* each thread's: place in the arguments, position in the file
          files

jobs == <<first_pos_undone, mutex_jobs, job, pos, files>>
JobPrograms == {"pool", "unlimited"}
NoOwner == Father
Positions == 0 .. FileSize - 1

JobInit ==
  /\ first_pos_undone = 0 /\ mutex_jobs = NoOwner
  /\ job = [p \in Sons |-> 0] /\ pos = [p \in Sons |-> 0]
  /\ files = [f \in Range(Jobs) |-> [k \in Positions |-> "lower"]]

\* unlimited has a thread for each name
Threads == IF program = "pool" THEN {0, 1} ELSE 0 .. Len(Jobs) - 1

StartThread(p) ==
  /\ pc[Father] = "fork" /\ p \in Threads
  /\ \A q \in Threads : q < p => pc[q] # "none"
  /\ Goto(p, "none", IF program = "pool" THEN "lock" ELSE "open")
  /\ job' = [job EXCEPT ![p] = p]
  /\ UNCHANGED <<program, pending, reaped, failed, first_pos_undone, mutex_jobs, pos, files>>

\* pthread_create or fopen failed: exit
ExitAll ==
  /\ \/ pc[Father] = "fork" /\ \E p \in Threads : pc[p] = "none"
     \/ \E p \in Threads : pc[p] = "open"
  /\ failed' = TRUE
  /\ pc' = AllKilled
  /\ UNCHANGED <<program, pending, reaped, first_pos_undone, mutex_jobs, job, pos, files>>

\* fault: no mutex
LockJobs_missing(p) ==
  /\ Goto(p, "lock", "test")
  /\ UNCHANGED <<program, pending, reaped, failed, first_pos_undone, mutex_jobs, job, pos, files>>
LockJobs(p) ==
  /\ mutex_jobs = NoOwner /\ mutex_jobs' = p
  /\ Goto(p, "lock", "test")
  /\ UNCHANGED <<program, pending, reaped, failed, first_pos_undone, job, pos, files>>

\* est_vide, and the end of the thread
NoMore(p) ==
  /\ first_pos_undone >= Len(Jobs)
  /\ Goto(p, "test", "end") /\ mutex_jobs' = NoOwner
  /\ UNCHANGED <<program, pending, reaped, failed, first_pos_undone, job, pos, files>>

\* pop reads the name, then moves on
PopName(p) ==
  /\ first_pos_undone < Len(Jobs)
  /\ Goto(p, "test", "pop")
  /\ job' = [job EXCEPT ![p] = first_pos_undone]
  /\ UNCHANGED <<program, pending, reaped, failed, first_pos_undone, mutex_jobs, pos, files>>

PopNext(p) ==
  /\ Goto(p, "pop", "open")
  /\ first_pos_undone' = first_pos_undone + 1 /\ mutex_jobs' = NoOwner
  /\ UNCHANGED <<program, pending, reaped, failed, job, pos, files>>

OpenBoth(p) ==
  /\ Goto(p, "open", "getc")
  /\ pos' = [pos EXCEPT ![p] = 0]
  /\ UNCHANGED <<program, pending, reaped, failed, first_pos_undone, mutex_jobs, job, files>>

\* one turn of the loop: fgetc, toupper, fputc
Convert(p) ==
  /\ pc[p] = "getc" /\ pos[p] < FileSize
  /\ files' = [files EXCEPT ![Jobs[job[p] + 1]][pos[p]] = "upper"]
  /\ pos' = [pos EXCEPT ![p] = @ + 1]
  /\ UNCHANGED <<processes, first_pos_undone, mutex_jobs, job>>

AtEof(p) ==
  /\ pos[p] = FileSize
  /\ Goto(p, "getc", IF program = "pool" THEN "lock" ELSE "end")
  /\ UNCHANGED <<program, pending, reaped, failed, first_pos_undone, mutex_jobs, job, pos, files>>

JoinThreads ==
  /\ \A p \in Threads : pc[p] = "end"
  /\ Goto(Father, "fork", "end")
  /\ UNCHANGED <<program, pending, reaped, failed, first_pos_undone, mutex_jobs, job, pos, files>>

JobStep ==
  \/ JoinThreads
  \/ \E p \in Threads : \/ StartThread(p) \/ LockJobs(p) \/ NoMore(p) \/ PopName(p)
                        \/ PopNext(p) \/ OpenBoth(p) \/ Convert(p) \/ AtEof(p)
-----------------------------------------------------------------------------
(* When main ends, every file named has been converted to its end, though  *)
(* the threads share the place in the arguments and may share a file.      *)
AllConverted ==
  program \in JobPrograms /\ pc[Father] = "end" =>
    \A f \in DOMAIN files : \A k \in Positions : files[f][k] = "upper"

(* The inductive invariant of the proof: every name popped is converted or *)
(* in the hands of a thread, and no other thread pops while one does.      *)
Ranks == 0 .. Len(Jobs) - 1
Upper(n, k) == files[Jobs[n + 1]][k] = "upper"
Converted(n) == \A k \in Positions : Upper(n, k)

JobTypeOK ==
  /\ pc \in [Procs -> {"fork", "none", "lock", "test", "pop", "open", "getc",
                       "end", "killed"}]
  /\ pc[Father] \in {"fork", "end", "killed"}
  /\ first_pos_undone \in Nat
  /\ job \in [Sons -> Nat] /\ pos \in [Sons -> 0 .. FileSize]
  /\ files \in [Range(Jobs) -> [Positions -> {"lower", "upper"}]]
JobMutex == \A p \in Threads : pc[p] \in {"test", "pop"} => mutex_jobs = p
JobProgress == \A p \in Threads :
  /\ pc[p] \in {"pop", "open", "getc"} => job[p] \in Ranks
  /\ pc[p] = "pop" => job[p] = first_pos_undone
  /\ pc[p] = "getc" => \A k \in 0 .. pos[p] - 1 : Upper(job[p], k)
PoolProgress == program = "pool" =>
  /\ \A p \in Threads : pc[p] = "end" => first_pos_undone >= Len(Jobs)
  /\ pc[Father] # "killed" => \A n \in Ranks : n < first_pos_undone =>
       Converted(n) \/ \E p \in Threads : pc[p] \in {"open", "getc"} /\ job[p] = n
UnlimitedProgress == program = "unlimited" => \A p \in Threads :
  /\ pc[p] \notin {"lock", "test", "pop"}
  /\ pc[p] \in {"open", "getc"} => job[p] = p
  /\ pc[p] = "end" => Converted(p)
Joined == pc[Father] = "end" => \A p \in Threads : pc[p] = "end"

JobInv == program \in JobPrograms =>
  JobTypeOK /\ JobMutex /\ JobProgress /\ PoolProgress /\ UnlimitedProgress /\ Joined

(* main ends. *)
JobsEnd == program \in JobPrograms ~> pc[Father] = "end" \/ failed
=============================================================================
