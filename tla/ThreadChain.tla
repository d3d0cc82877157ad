----------------------------- MODULE ThreadChain ----------------------------
(***************************************************************************)
(* chaine.c of TME03.  Each thread creates the next and joins it.  The     *)
(* last one signals cond_dernier_thread, on which main waits, and waits    *)
(* on cond_libere, which main signals once Ctrl-C was pressed.  Neither    *)
(* wait has a predicate; the first signal is sent under mutex_libere and   *)
(* waited for under mutex_dernier_thread, which only main ever takes.      *)
(* main is the Father; thread p has nb = N - p.                            *)
(***************************************************************************)
EXTENDS Processes

CONSTANT MaxInts     \* bound on the Ctrl-C pressed

VARIABLES mutex_libere,   \* its owner, or Nobody
          spurious,       \* a wait ended without a signal
          ints,           \* Ctrl-C pressed
          handled,        \* handler_sigint has run
          unheard         \* cond_libere was signalled with nobody waiting

threads == <<mutex_libere, spurious, ints, handled, unheard>>
ThreadPrograms == {"chaine"}
Nobody == N
LastThread == N - 1

ThreadInit == 
  /\ mutex_libere = Nobody /\ spurious = FALSE /\ ints = 0
  /\ handled = FALSE /\ unheard = FALSE

\* a creation that fails ends all the threads
CreateThread(p, by, from, to) ==
  /\ pc[by] = from
  /\ \/ pc' = [pc EXCEPT ![by] = to, ![p] = "start"] /\ UNCHANGED failed
     \/ pc' = AllKilled /\ failed' = TRUE
  /\ UNCHANGED <<program, pending, reaped, mutex_libere, spurious, ints, handled, unheard>>

\* pthread_join, and the end of the thread
JoinNext(p) ==
  /\ p # LastThread /\ pc[p + 1] = "end"
  /\ Goto(p, "join", "end")
  /\ UNCHANGED <<program, pending, reaped, failed, mutex_libere, spurious, ints, handled, unheard>>
-----------------------------------------------------------------------------
(* The last thread *)

LockLibere(p, from, to) ==
  /\ mutex_libere = Nobody /\ mutex_libere' = p
  /\ Goto(p, from, to)
  /\ UNCHANGED <<program, pending, reaped, failed, spurious, ints, handled, unheard>>

\* fault: the mutex is released between the signal and the wait
SignalDernier_unlocked ==
  /\ pc[LastThread] = "signal"
  /\ pc' = [pc EXCEPT ![LastThread] = "wait",
                      ![Father] = IF @ = "waiting" THEN "created" ELSE @]
  /\ mutex_libere' = Nobody
  /\ UNCHANGED <<program, pending, reaped, failed, spurious, ints, handled, unheard>>

\* main is woken if it waits
SignalDernier ==
  /\ pc[LastThread] = "signal"
  /\ pc' = [pc EXCEPT ![LastThread] = "wait",
                      ![Father] = IF @ = "waiting" THEN "created" ELSE @]
  /\ UNCHANGED <<program, pending, reaped, failed, mutex_libere, spurious, ints, handled, unheard>>

WaitLibere ==
  /\ Goto(LastThread, "wait", "waiting")
  /\ mutex_libere' = Nobody
  /\ UNCHANGED <<program, pending, reaped, failed, spurious, ints, handled, unheard>>

EndLast ==
  /\ Goto(LastThread, "freed", "end")
  /\ mutex_libere' = Nobody
  /\ UNCHANGED <<program, pending, reaped, failed, spurious, ints, handled, unheard>>

\* a wait may end without a signal
WakeSpuriously(p, to) ==
  /\ Goto(p, "waiting", to)
  /\ spurious' = TRUE
  /\ UNCHANGED <<program, pending, reaped, failed, mutex_libere, ints, handled, unheard>>
-----------------------------------------------------------------------------
(* main: all signals are blocked until the threads are created *)

WaitDernier ==
  /\ Goto(Father, "lock", "waiting")
  /\ UNCHANGED <<program, pending, reaped, failed, mutex_libere, spurious, ints, handled, unheard>>

\* the handler is installed and SIGINT unblocked before pause
Unblock ==
  /\ Goto(Father, "created", "unblocked")
  /\ UNCHANGED <<program, pending, reaped, failed, mutex_libere, spurious, ints, handled, unheard>>

Pause ==
  /\ ~ Has(Father, "INT") /\ Goto(Father, "unblocked", "pause")
  /\ UNCHANGED <<program, pending, reaped, failed, mutex_libere, spurious, ints, handled, unheard>>

\* a signal handled before pause does not end it
Unblocked == {"unblocked", "pause", "release", "signal", "join"}
HandleSigint ==
  /\ Has(Father, "INT") /\ pc[Father] \in Unblocked
  /\ ~ handled /\ handled' = TRUE
  /\ pending' = Taken(pending, Father, "INT")
  /\ pc' = [pc EXCEPT ![Father] = IF @ = "pause" THEN "release" ELSE @]
  /\ UNCHANGED <<program, reaped, failed, mutex_libere, spurious, ints, unheard>>

\* under _XOPEN_SOURCE, signal installs a handler for one signal only
SecondSigint ==
  /\ Has(Father, "INT") /\ pc[Father] \in Unblocked
  /\ handled
  /\ pending' = Taken(pending, Father, "INT")
  /\ pc' = AllKilled
  /\ UNCHANGED <<program, reaped, failed, mutex_libere, spurious, ints, handled, unheard>>

SignalLibere ==
  /\ pc[Father] = "signal"
  /\ pc' = [pc EXCEPT ![Father] = "join",
                      ![LastThread] = IF @ = "waiting" THEN "woken" ELSE @]
  /\ mutex_libere' = Nobody
  /\ unheard' = (pc[LastThread] # "waiting")
  /\ UNCHANGED <<program, pending, reaped, failed, spurious, ints, handled>>

JoinFirst ==
  /\ pc[0] = "end" /\ Goto(Father, "join", "end")
  /\ UNCHANGED <<program, pending, reaped, failed, mutex_libere, spurious, ints, handled, unheard>>

PressCtrlC ==
  /\ ints < MaxInts /\ ints' = ints + 1
  /\ Alive(Father)
  /\ pending' = Kill(pending, Father, "INT")
  /\ UNCHANGED <<program, pc, reaped, failed, mutex_libere, spurious, handled, unheard>>

ThreadStep ==
  \/ CreateThread(0, Father, "fork", "lock")
  \/ WaitDernier \/ Unblock \/ Pause \/ HandleSigint \/ SecondSigint
  \/ LockLibere(Father, "release", "signal") \/ SignalLibere \/ JoinFirst
  \/ \E p \in 0 .. N - 2 : CreateThread(p + 1, p, "start", "join") \/ JoinNext(p)
  \/ LockLibere(LastThread, "start", "signal") \/ SignalDernier \/ WaitLibere
  \/ LockLibere(LastThread, "woken", "freed") \/ EndLast

ThreadEvent ==
  \/ PressCtrlC
  \/ WakeSpuriously(Father, "created") \/ WakeSpuriously(LastThread, "woken")
-----------------------------------------------------------------------------
(* main announces that all the threads are created (line 79) only when     *)
(* they are, and its signal finds the last thread waiting, though neither  *)
(* wait has a predicate: unless a wait has ended without a signal.         *)
ChainHeard ==
  program = "chaine" /\ ~ spurious /\ ~ failed =>
    /\ pc[Father] \notin {"fork", "lock", "waiting"} => pc[LastThread] # "none"
    /\ ~ unheard

(* The inductive invariant of the proof, while no wait ends of itself: a   *)
(* thread is created by the one before it, each signal is sent under       *)
(* mutex_libere, and main goes on only on that of the last thread, which   *)
(* holds the mutex until it waits.                                         *)
MainStates == {"fork", "lock", "waiting", "created", "unblocked", "pause", "release",
               "signal", "join", "end"}
LastStates == {"none", "start", "signal", "wait", "waiting", "woken", "freed", "end"}
ChainTypeOK ==
  /\ DOMAIN pc = Procs
  /\ pc[Father] \in MainStates /\ pc[LastThread] \in LastStates
  /\ \A p \in 0 .. N - 2 : pc[p] \in {"none", "start", "join", "end"}
CreatedInOrder ==
  /\ pc[Father] = "fork" => pc[0] = "none"
  /\ \A p \in 0 .. N - 2 : pc[p] \in {"none", "start"} => pc[p + 1] = "none"
LibereHeld ==
  /\ pc[Father] = "signal" => mutex_libere = Father
  /\ pc[LastThread] \in {"signal", "wait", "freed"} => mutex_libere = LastThread
MainBehind ==
  /\ pc[Father] \notin {"fork", "lock", "waiting"} =>
       pc[LastThread] \in {"wait", "waiting", "woken", "freed", "end"}
  /\ pc[Father] \notin {"join", "end"} => pc[LastThread] \notin {"woken", "freed", "end"}

\* the second Ctrl-C comes when all the threads exist
AllDead == pc[LastThread] = "killed" /\ \A p \in Procs : pc[p] \in {"none", "killed"}

ChainInv == program = "chaine" /\ ~ spurious /\ ~ failed =>
  /\ ~ unheard
  /\ AllDead \/ (ChainTypeOK /\ CreatedInOrder /\ LibereHeld /\ MainBehind)

\* the last thread has signalled cond_dernier_thread before main waited
Missed == pc[Father] = "waiting" /\ pc[LastThread] \notin {"none", "start", "signal"}

(* main comes to pause, unless it has missed the signal of the last thread,*)
(* and once out of pause it ends, unless its own was unheard; and unless a *)
(* second Ctrl-C, which has no handler, has killed the program.            *)
KilledAgain == ints > 1 /\ pc[Father] = "killed"
ThreadsEnd ==
  /\ program = "chaine" /\ pc[Father] = "fork" ~>
       pc[Father] = "pause" \/ Missed \/ KilledAgain \/ failed
  /\ program = "chaine" /\ pc[Father] = "release" ~>
       pc[Father] = "end" \/ unheard \/ KilledAgain \/ failed
=============================================================================
