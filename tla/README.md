# A TLA+ model of PR-MI014

PR-MI014 is the course work of a systems programming course: nine sets of C
programs (`TME01` to `TME09`) that exercise processes, signals, threads,
semaphores, message queues, shared memory, files, sockets and real-time signals
under POSIX and System V.  There is no library at its centre; each program is a
small system of its own.  This directory models those in which several processes
or threads share a protocol, checks the models with TLC on small instances and
proves the main safety properties with TLAPS for every instance.

`PROJECT.json` is the index: components, runs, the lines each definition stands
for, findings, hazards and theorems.  Every definition follows the C code at the
lines its entry names, and keeps its names.  A few definitions are called
`X_late`, `X_missing`, `X_any`...: they are faulty variants of `X`, used to see
that the properties notice the fault.  No specification uses them.

## 1. The system

| Part | Programs | State | Operations | What is hard |
|---|---|---|---|---|
| Stack, condition variable (TME03) | `thread_stack.c`, `produc.c`, `producS.c` | `mutex_pile`, `pile`, `stack_size` | `Push`, `Pop` | broadcast only if the stack was empty on entry; spurious wakeups; a full stack drops the character |
| Stack, semaphores (TME04) | `thread_stack.c`, `produc.c` | two System V semaphores, `stack_pointer`, `nb_endormis` | `Push`, `Pop` | sleepers counted under the lock, tokens taken outside it; a sleeper returns NUL |
| Chat (TME05) | `skipShare.c`, `skipClient.c` | segment `stock` with four semaphores and one request; a segment per client; the server's tables | connect, broadcast, disconnect, Ctrl-C | two processes per client, requests from signal handlers, names reused, partial failures |
| Barrier (TME04, TME05) | `rdvSem.c` (two) | two counting semaphores | arrive, collect, release, reap, destroy | no child passes early; semaphores destroyed in time; fork failure |
| Dining philosophers (TME05) | `nietzscheBrot.c` | `baguettes` in shared memory, one regulator, one semaphore per chopstick | take, put back, wait | test and set, stale flags, death while eating |
| Sum of threads (TME02) | `daemon.c`, `daemonBIS.c`, `synchro.c`, `exclusion.c` | `somme`, `alive_count`, two mutexes, a condition | add, count out, signal, join, print | condition waited on without a predicate; two mutexes |
| Message server (TME04) | `serverUniq.c` | one message queue | ask, answer, remove on SIGINT | all sons share one queue; results of `msgrcv` ignored |
| File transfer (TME07, TME08) | `ftpServer.c`, `ftpServerThread.c`, `ftpClient.c` (two) | a TCP connection, the files of both sides, `data_dir` | DOWNLOAD, LIST, UPLOAD | unframed messages: each side counts reads; path built in place |
| Accept loop (TME08) | `main` of `ftpServerThread.c` | `scom`, the threads | accept, create a thread, read `scom` | `scom` is read through a pointer after the next `accept` may have overwritten it |
| Signals (TME01) | `kill.c`, `signaux.c`, `synchro.c` | processes, pending signals, stopped processes | fork the next, tell the father, stop, continue | a signal before the wait for it; the order of two senders |
| Thread chain (TME03) | `chaine.c` | two conditions, `mutex_libere`, SIGINT pending | create the next, signal, wait, join | signal under another mutex than main waits with; no predicate |
| Conversion of files (TME03) | `pool.c`, `unlimited.c`, `common.c` | `first_pos_undone`, the files | take a name, convert in place | shared index; one file named twice |
| Partial sums (TME04, TME05) | `memoryMSG.c`, `shareMemory.c`, `fileMSG.c`, `mq_example.c` | a segment or a queue that outlives the processes | produce, wait, collect, remove, run again | what an interrupted execution leaves |
| Environment server (TME07) | `serverENV.c`, `clientENV.c` | the environment, `arg1` and `arg2`, datagrams | SET, GET, answer | lost datagrams, no timeout, buffers never cleared |
| File reversal (TME06, TME09) | `lseekInv.c`, `preadInv.c`, `ex4.c` | place in the source, what is written, queued signals | read back, write, wait for notifications | indices at both ends; signals dropped at the system's limit |
| Real-time signals (TME09) | `ex3.c`, `ex5.c`, `ex6.c`, `ex7.c` | queued signals with values, counters | send, wake the next, count, notify | queued against unqueued signals, handler against `sigwait` |
| Not modelled | `sleep.c`, `chfork.c`, `nfork.c`, `max_*.c` (TME01), `create.c`, `broadcast.c` (TME02), `serverMultiFile.c` (TME04), the other programs of TME06 and TME07, sockets, ping and multicast (TME08), `ex1.c`, `ex2.c` (TME09) | | | see the last section |

What makes each modelled part correct:

- both stacks: every character read from the standard input is in exactly one
  place, is popped in LIFO order, and is lost only on a full stack; nobody
  sleeps beside a stack that is not empty;
- the chat: one request at a time, never overwritten while it is served; every
  broadcast is shown exactly once by every member; the server's count of members
  is the number of slots it writes to; a session is removed only if it asked;
- the barrier: nobody leaves before all have arrived, and the semaphores are
  destroyed when unused;
- the philosophers: neighbours exclude each other, and somebody always eats;
- the sum: what is printed is final, and the last thread is recognised once;
- the message server: each son adds up its own answers, all of them, once;
- file transfer: what is received is what was sent, nothing remains in the
  stream for the next command, and each command ends; every client accepted is
  served unless `scom` was overwritten;
- signals: they are announced in the order of the chain, and the chain goes all
  the way round;
- the thread chain: main announces the last thread only when it exists, and
  wakes it;
- conversions and reversals: every file named is converted to its end, the
  target holds every character of the source once and in reverse order;
- partial sums: the value of each son is added once, and none of an earlier
  execution;
- the signal barrier: nobody passes before the number awaited has arrived;
- the environment server: all the answers about a variable agree.

## 2. Modules

| Module | Models | Abstract specification |
|---|---|---|
| `CondStack` | `TME03/src/thread_stack.c` with both mains | `LifoStack` |
| `SemStack` | `TME04/src/thread_stack.c` with `produc.c` | `LifoStack` |
| `SkipChat` | `TME05`: server, clients, Ctrl-C | `ChatRoom` |
| `SemBarrier` | both `rdvSem.c` | `Barrier` |
| `Philosophers` | `TME05/src/nietzscheBrot.c` | |
| `FinalSum` | the four sums of `TME02` | |
| `MsgServer` | `TME04/src/serverUniq.c` | |
| `FtpSession` | the client and its server, `TME07` and `TME08` | |
| `Processes` | father, sons, fork, wait, pending signals: what the modules below share | |
| `SignalChains` | `ex5.c` (TME09), `kill.c`, `signaux.c`, `synchro.c` (TME01) | |
| `Gather` | the four partial sums of TME04 and TME05, `ex3.c` and `ex6.c` (TME09) | |
| `SignalBarrier` | `ex7.c` (TME09) | |
| `ThreadChain` | `chaine.c` (TME03) | |
| `FileJobs` | `pool.c` and `unlimited.c` with `common.c` (TME03) | |
| `EnvServer` | `serverENV.c` with any set of `clientENV.c` (TME07) | |
| `FileReverse` | `lseekInv.c`, `preadInv.c` (TME06), `ex4.c` (TME09) | |
| `AcceptLoop` | `main` of `ftpServerThread.c` (TME08) | |
| `Exercises` | the composition of the nine modules above | |

`MC*` modules extend these and give the constants their values; `*_proofs`
modules extend them with `TLAPS`.  The abstract modules are tied to the code by
`Lifo`, `Room` and `Rendezvous`, which are instances with a refinement mapping.

### State and steps

*CondStack.*  A thread is a program counter and the character it holds, `c`.  A
character is the rank at which it was read, so that two equal characters remain
two.  `PushLock`, `PushStore`, `PushUnlock` are the parts of `Push` under
`mutex_pile`; the broadcast (lines 37 to 43) belongs to the last.
`pthread_cond_wait` is three steps: `PopWait` releases the mutex and sleeps, the
broadcast or a `SpuriousWakeup` sends the thread back to `PopLock`, and `PopLock`
takes the mutex before the test is repeated.  Nothing between a lock and the
matching unlock can be seen by others, so splitting it further would add
nothing.  Two threads' `getchar` and `putchar` are atomic: stdio locks its
stream.

*SemStack.*  Every `semop` is a step of its own: `PushWake` is one turn of the
loop that wakes the sleepers, `PopSleep` leaves the lock, and `PopWake` is the
later `P(0)` after which `Pop` returns NUL without looking at the stack.

*SkipChat.*  A session is two processes: `"out"` connects, forks and then
displays; `"in"` reads the keyboard.  A session opens the server's segment
(`Start`), finds its name free (`Verify`, line 143), opens or creates its segment
(`Create`, line 153, without `O_EXCL`), gives it its size and maps it (`Truncate`),
and initialises `autoris_diff` (`InitSegment`).  Each is a step: two sessions of one
name may pass the test together, share one segment and initialise its semaphore
twice.  A segment is known by the session that created it, `shm` says which one a
name leads to now and `requete` which one a session has mapped.  Any of the connection, the keyboard
process and the SIGINT handler may post a request: `Acquire` (`sem_wait` of
`poster_message`), `Submit` (write and post `prevenir_server`).  Only the server
gives `poster_message` back (`Release`).  Ctrl-C (`Interrupt`) makes a signal
pending for both processes and `TakeSignal` delivers it at any later point; a
process caught between `sem_wait` and `sem_post` goes to `"keep"`: its handler
waits for the very semaphore it holds.  After a failed fork `handler` is called by
main and not by the kernel, so that Ctrl-C interrupts it like any other code
(`Interrupted`).  `Connexion`, `DiffuseSlot` (one turn of
the first loop of `diffusion`), `Collect` (one turn of the second) and
`Deconnexion` are the server's.  A slot is named before its segment is opened and
stays named if that fails, as on lines 66 to 85.  `deco_sem` is never passed to
`sem_init` and holds the zeros of `ftruncate`.

*SemBarrier.*  `Arrive` posts `sem_pere`, `Pass` takes `sem_fils`; the father
does `Collect` and `ReleaseOne` once per child, then `Reap` and `Destroy`.  The
two C programs are the same algorithm on two semaphore interfaces.  A fork that
fails ends the father and leaves the children it has.

*Philosophers.*  `Enter` to `Take` or `Refuse` is the region under
`regulator_terminator`; `gauche` and `droite` are the flags of each process,
raised in that region and used after it.  A refused philosopher passes through
(`Through`) the semaphores of the chopsticks it found taken.  `Handler` ends a
mortal philosopher at any point.

*FinalSum.*  The variable `program` says which of the programs runs: they
share the threads and differ in who waits for what.  The sum is the set of
threads whose value is in it; in `exclusion` `Load` and `Store` are not
protected and an addition may be overwritten.  `daemon.c` prints after a
`pthread_cond_wait` without a predicate: `Check` sends the signal, which is
recorded as `missed` if nobody was waiting, and `SpuriousWakeup` ends the wait
without one.

*MsgServer.*  The queue is a sequence of typed messages; `Msgrcv` takes the
oldest of a type and leaves the buffer as it was when the queue was removed,
since the program does not look at the result.  The queue is not bounded in the
model: 5 sons and at most 10 values each stay far below the limit of the system.

*FtpSession.*  Each stream is the sequence of what was written to it.  A file is
a sequence of units of which `BUFFER_SIZE` fit in a buffer.  The client counts
`size / BUFFER_SIZE + 1` reads (`Rounds`), the server as many for an upload,
while each side writes only as many buffers as the file has.  A read that would
take something else than what it expects, or less, or more (TCP may merge and
split at will) ends the account of the session: `Garble` sets `garbled` and
nothing follows.  `data_dir` is a variable because `strcat` changes it in place.
`srv` and `cli` say where the server and the client are in their loops; an `open`
with `O_CREAT` and `O_TRUNC` is `Create`.

*Processes and Exercises.*  The small programs are made of the same things: a
father that forks, sons that end, signals pending and taken.  `Processes` has
these once.  A signal pending is a pair of its number and its value; real-time
signals are appended (`Sigqueue`), the others are lost while one is pending
(`Kill`).  That a signal is blocked shows in the guards of the actions that take
it.  The variable `program` says which of the programs runs, each in the module
of its kind, and `Exercises` leaves the variables of the other modules alone.
`failed` records that a `fork`, a creation or a `sigqueue` has failed.

*SignalChains.*  In `ex5` each son waits in `sigsuspend` for the one after it
(`Suspend`, `PassOn`, `WakeNext`).  In `kill` and `signaux` process `p` forks
`p + 1`.  A stopped process is continued only if it had stopped
(`Continued`): `sleep` orders nothing in the model.  Between `fork` and the
assignment of `child_pid` the handler of the first process does `kill(0, ...)`,
which reaches the whole group (`HandleFirst`).  In `synchro` SIGUSR2 is held,
released inside the handler of SIGUSR1 and held again when that handler returns,
since the return restores the mask (`Held`, `ReturnHandler`).

*Gather.*  A value is the pair of the execution and the son, so that a value of
an earlier execution is told from one of this.  Segments and queues survive the
processes: `CtrlC` ends an execution at any point and `Again` starts the next
on what is left.  `mq_example.c` opens one queue and unlinks another, so its
queue is never removed (`Left`).  In `ex6` and `ex3` values and notifications
travel as queued signals, the end of a son as a SIGCHLD that is not queued.

*SignalBarrier.*  `EnterSigwait` and `TakeOne` are the father's `sigwait`;
`CountArrival` is its handler, which may run before `sigwait` and inside `wait`,
and sets the `i` the loop of main uses.  The loop that forks makes `NB + 1` sons
because `&` evaluates `fork()` once more.

*ThreadChain.*  Thread `p` creates `p + 1`.  A wait on a condition is a step that
releases the mutex, a wake by a signal or a spurious one, and a step that
takes the mutex again.  `mutex_dernier_thread` is taken by main only and has no
variable.  `signal` on line 81, under `_XOPEN_SOURCE` (line 1), installs its
handler for one signal: `handled` records that it has run, and the next SIGINT
kills the process (`SecondSigint`).

*FileJobs.*  `PopName` and `PopNext` are the two halves of `pop`; a file is
converted character by character by whoever has it open, two threads at once
if it was named twice.

*EnvServer.*  The clients are any set `Clients` of processes, and the server starts
with whatever of the variables its shell had.  `Type` is a line of a client, `SetVariable`, `GetVariable` and
`ServerEnds` what the server makes of it.  `arg2` keeps what an earlier query
left there.  A datagram may be lost on either way; a client's own datagrams are
not reordered, as they travel inside one machine.

*FileReverse.*  A character is its place in the source.  `ex4` writes a block per
`lio_listio`, each of whose requests queues a signal (`Notified`, up to
`MaxPending`).  A list may fail, after part of it is written, and always does when
a signal cannot be queued: `ListFails`, after which main exits with 0.  `Backwards` says what it is to read a text backwards without its
ends of line: the characters of the target have decreasing places in the source,
and these are all the places of other characters.  `Reordered` tells for `ex4` the
character at each place of the target.

*AcceptLoop.*  `Accept` overwrites `scom`; the thread created for a connection
reads it at some later point (`ReadScom`).  After the last one main joins four
threads (`JoinServers`).  `EndServer` is all that ends the process: a failed `accept`,
an `exit` of any thread on an error or an unknown request, and the return of main,
whose joins may fail since the identifiers are kept in `int`s.

### Abstractions and bounds

| Bound | Where | Why it is enough |
|---|---|---|
| 2 producers, 2 consumers, `Size` 2, `Input` 3 | the stacks | two sleepers at once, two threads racing for one element, a full stack that drops, an empty one refilled |
| 2 sessions of two names, `MaxTab` 2, one leaver | `skip_live`, `skip_fd` | a broadcast with another member in every state, requests of all kinds crossing |
| 2 sessions of one name, both leavers, `MaxTab` 1, the server stops | `skip_quit` | a segment of one session or shared by both, a full table, a name taken again before and after its slot is freed, three or four processes on one `deco_sem` |
| `MaxLines` 1 or 2 | the chat | two lines of one session: the next broadcast while a member is late with the last |
| `MaxFd` 9, or 1 | the chat | descriptors the server may open; 9 is never reached with these sessions, 1 makes the second `shm_open` fail |
| 4 children | the barrier | more than one waiting on each side of each semaphore |
| 4 philosophers, 1 mortal | the diner | two may eat at once, and two share no chopstick |
| 3 threads | the sum | one before, one after and the last |
| 2 sons, `MaxVal` 2 | message server | answers for both in the queue, in either order; 0, 1 and 2 answers |
| sizes 1, 2, 3, 4 with `BUFFER_SIZE` 2, 3 commands | file transfer | below, at, above and at twice the buffer; a missing file, then two more commands |
| `N` 3 | the exercises | a first, a last and one between; a barrier with one son in excess |
| `MaxRound` 3 | partial sums | an execution after an interrupted one, and one after that |
| `MaxInts` 2 | thread chain | Ctrl-C before and after `pause`; a second one, which has no handler |
| 3 names of 2 files of 2 characters | conversions | one file named twice, two threads inside it |
| 2 clients, `MaxQueries` 2, one variable, two contents | environment server | every pair of queries of both clients, the variable inherited or not |
| sources of 0 to 7 characters, `DISPLACEMENT` 2, `MaxPending` 5 | reversal | empty, shorter than a block, whole blocks and one more; ends of line; lists that are notified and a last one that cannot be |

Nothing else is bounded.  Not modelled in these programs: a `semget`, `msgget`,
`shm_open` of the server or `pthread_mutex_init` that fails, since it ends the
program before anything is shared, and the wording of what is printed.

## 3. Runs

Every configuration turns deadlock checking off: these systems stop.  Consumers
wait for ever after the end of the input, clients whose user types nothing wait,
a program that has ended takes no step.  What must not stop is stated as a
liveness property instead.

| Run | Checks | What it shows |
|---|---|---|
| `cond_stack` (8,842 states) | `NoLostWakeup`, `Conservation`, `EverythingConsumed`, `ImplementsLifo` | broadcasting only on the transition from empty loses no wakeup, because the broadcast reaches every sleeper and the test is under the mutex |
| `sem_stack` (20,026) | `MutualExclusion`, `SleepersAccounted`, `NoSleeperForgotten`, `EverythingConsumed`, `ImplementsLifo` | a token may be taken by a consumer that came later, yet each sleeper has one or is counted; the NUL of a woken consumer costs no character |
| `skip_live` (80,416) | `EveryLineEchoed`, `OnlyLeaversBlock`, `OnlyLeaversLeave`, `ImplementsRoom` | with distinct names and Ctrl-C at any point, the abstract room is implemented, two lines of a session after each other included; only a member whose display process is gone while its slot is still taken keeps the server waiting; nobody is removed who did not leave |
| `skip_quit` (1,189,252) | `OneToken`, `CountedSlots`, `NullSlots`, `RequestStable` | with a shared name, a shared segment, a full table, leavers and the end of the server: requests are exclusive and stable, and the ways to a slot without a segment, descriptors apart, are those where a process of that name has unlinked it before the connection is served |
| `skip_fd` | `ServerSurvives`, violated | see the findings |
| `barrier` (640) | `DestroyedUnused`, `ImplementsBarrier`, `Termination` | two semaphores and no counter make a barrier, with forks that may fail |
| `philosophers` (106,086) | `Neighbours`, `NoStaleFlag`, `SomebodyEats` | exclusion even when a philosopher is killed; progress while nobody is |
| `final_sum` (11,890) | `SumIsFinal`, `LastOneSignals`, `EndsUnlessMissed` | the printed sum is final; only a signal sent before the wait keeps the program from ending |
| `msg_server` (734,784) | `OwnAnswers`, `EndsClean` | types keep the answers apart; Ctrl-C at any point still ends everybody |
| `ftp_session` (11,025) | `DownloadExact`, `UploadExact`, `Answered` | transfers are exact and commands end, but for the cases the properties name |
| `ftp_refused` | `RefusedMeansMissing`, violated | see the findings |
| `exercises` (243,864) | `InOrder`, `SumComplete`, `ReadOrUnnotified`, `BarrierHolds`, `ChainHeard`, `AllConverted`, `AnswersAgree`, `Reversed`, `Ends` | nineteen small programs, one per initial state: what each is to compute it computes, and `Ends` states for each the end it comes to and names why it may not |

No run checks a type invariant: they are proved for every instance (section 5),
but for the two variables of `AcceptLoop`, whose types `Exercises` does not state.

### Fairness

Weak fairness is given to the steps of every thread or process: the kernel
schedules whoever can run.  Strong fairness is given to the acquisition of a
lock that others take again and again (`PushLock`, `PopLock`, `PopWake`,
`Acquire`, a step of a philosopher): System V queues the callers, and neither the
POSIX mutexes nor the futex-based semaphores pass over the same waiter for ever
when threads run at the same priority.  In `FinalSum` each mutex is taken a
bounded number of times and weak fairness is enough.  In `Exercises` one weak
fairness for the steps of all the processes is enough: every program but the
server of `serverENV.c` takes finitely many steps of its own, and that server
takes as many as there are datagrams, so nobody is passed over for ever.

None is given to what the environment owes nobody: a user who types a line, asks
for a file or presses Ctrl-C, a fork or a thread creation that fails, a spurious
wakeup, a read that TCP merges, a lost datagram, a client that connects, an
execution interrupted or started again.  None is given to `WaitDeco`: `deco_sem` was
never initialised, and a waiter on it may not be woken.

## 4. Findings

- **A refused connection leaves a slot that crashes the server** (`skip_fd`,
  `TME05/src/skipShare.c:66`).  `connexion` names the slot first, and leaves it
  named when `shm_open` or `mmap` fails.  The server says "Connexion FAILED
  [skipShare still running...]" and runs on, but the next `diffusion` finds the
  slot named and dereferences its null link.  Descriptors are never closed after
  a connection, so that enough connections are one way to get there.
- **After one missing file the server refuses every download** (`ftp_refused`,
  `TME08/src/ftpServerThread.c:83`).  `strcat` appends the name to `data_dir`
  itself and the `continue` of the refusal skips the `strcpy` that restores it;
  the client then prints that the server has never heard of a file it has.

Seen while modelling, and left without a run because no document promises
otherwise:

- `daemon.c`: if the last thread signals before `print_thread` waits, the sum is
  never printed and main never ends (`missed` in `EndsUnlessMissed`).
- `skipClient.c`: a process whose handler interrupts it between `sem_wait` and
  `sem_post` of `poster_message` waits for itself, and everybody with it; a
  client whose display process is ended before its disconnection is served
  stops the broadcast that comes in between; a client that finds the table full
  is not told and never leaves; at the end of the keyboard's input the client
  floods the server with empty messages (not modelled).
- Two sessions with the same name: the test that the name is free
  (`skipClient.c` line 143) and the creation (line 153) are two calls, and nothing
  asks for `O_EXCL`.  Two sessions started together share one segment, each
  message is displayed by whichever takes the token, and the first to leave
  unlinks the segment of both.
- Two sessions with the same name, one after the other: until the parent has installed its own
  handler, Ctrl-C makes both processes of a client ask to leave, and the second
  request may remove a later client of that name.  `OnlyLeaversLeave` is for
  distinct names.
- `deco_sem` is one for all: a session may take the answer to another's
  departure and unlink its own name before its own slot is freed; a client of
  the same name that was connecting then has its segment unlinked before the
  server opens it, and the null slot of the finding above appears without any
  shortage of descriptors (`NullSlots`).  A session of that name that has just
  created its segment may instead have it opened for the other, before it has its
  size: the next broadcast is then a bus error.  When such a slot is freed,
  `nb_connect` falls below the members (`CountedSlots`).
- `nietzscheBrot.c`: one philosopher may starve, since a refused one waits for
  semaphores nobody holds; a philosopher that is killed leaves its chopsticks
  marked.
- `rdvSem.c`: a fork that fails leaves the children already forked at the
  barrier for ever.
- `ftpServerThread.c`: at the end of the stream `read` returns 0 and the last
  request is executed again; after an upload this truncates the file just
  received.  Transfers of a whole number of buffers count one read too many,
  on either side (`Fits` and `Hopeless` in the properties name these cases), and
  LIST of TME07 announces entries it does not send.
- `ftpServerThread.c`: `scom` is overwritten by an `accept` that comes before the
  thread has read it (line 40); the first client is then served by nobody and
  two threads share the second.  An `exit` in the thread of one client (an unknown
  request, line 157, a failed read or write) ends the server for all of them, and
  main returns after four joins.
- `chaine.c`: when the last thread signals before main waits (line 26 against the
  wait in main) main waits for ever with every signal blocked (`Missed`).  The
  handler of Ctrl-C is good for one signal: a second one, while main signals or
  joins, kills the program (`KilledAgain`).
- `signaux.c`: a SIGCONT that comes before the SIGSTOP is lost and the chain
  stays stopped (`Overtaken`).  `synchro.c`: SIGUSR2 is held again once
  `handle_P3_creation` returns, so that the end of P3 is announced only if it
  comes while that handler runs; and the wait that the handler interrupts is
  not repeated, so "Processus P2 terminé" is printed while P2 may be alive.
- `ex7.c`: one son too many is forked (`&` on line 81) and waits for ever, or
  makes up for the arrival that `sigwait` takes from the handler.  If instead the
  handler counts all the `NB + 1` arrivals after the signals are unblocked (line 94)
  and before `sigwait` (line 98), every son recorded passes but the father waits in
  `sigwait` for ever (`Exhausted`).  `TME09/README` line 72 says of this exercise
  "L'exercice 7 - NOT OK", without saying why; the model has these two reasons.
  `ex3.c` reads
  the cell of its counter and not of the notifier.  `ex4.c` queues a signal for each
  character it writes and takes one per block: where the system queues no more,
  `lio_listio` fails and the program exits with 0 and a truncated target, which
  `Reversed` leaves out (`failed`); and it writes `buffer[10]`, one past its end.
- `fileMSG.c`: the messages of an interrupted execution are added to the sum of
  the next one; `mq_example.c` unlinks `/file:0`, which is not the queue it
  opened.
- `serverENV.c`: a SET with one argument uses what an earlier query left in
  `arg2`; a GET of an unset variable is `strdup(NULL)` and ends the server, as
  does any line that starts with another letter; `clientENV.c` waits for ever
  for a lost datagram.

## 5. Proofs

All theorems are about the specification without fairness, and assume only the
named assumptions of the modules: the sets of threads are disjoint (and finite
where they are counted), the bounds are naturals, a placeholder is not a member.
Each proof module has the same shape: `InitIInv`, one lemma per action or group
of actions, `Invariance` (`Spec => []IInv`), and a corollary per property.

| Module | Theorems | The inductive invariant, and why |
|---|---|---|
| `CondStack_proofs` | `Typing`, `NoWakeupIsLost`, `CharactersConserved`, `RefinesLifo` | `NoLostWakeup` alone is not inductive: a `Pop` may go to sleep while a producer is about to store.  `Owner` (a thread is between lock and unlock iff it owns the mutex) excludes it, `EntryTest` says that what `Push` read on entry is still so when it stores, and `Holding` ties the character in hand to the program counter, which `Conservation` needs.  For the refinement the cells below the pointer are a sequence, of which a store appends the last and a `Pop` removes it |
| `SemStack_proofs` | `Typing`, `Exclusion`, `Accounting`, `NobodyForgotten`, `CharactersConserved`, `RefinesLifo` | the accounting `sleepers = sem[0] + nb_endormis - i` needs `LoopIndex` (only a thread inside `Push` has a nonzero index) and `CountedOnlyWhenEmpty`, from which `NoSleeperForgotten` follows.  `Conservation` (a character is on the stack, in one hand, dropped or written) is inductive beside it, and gives the refinement: a NUL returned by a woken consumer is no step of the abstract stack |
| `SkipChat_proofs` | `Typing`, `TokenUnique`, `RequestKept`, `NullSlotsExplained`, `SlotsCounted`, `NobodyEvicted`, `RefinesRoom`, `OnlyShortageCrashes` | the token is in one of two semaphores, with one process or with the server; `RequestFormed` and `HasTyped` give the type of what the server handles.  `RequestKept` is an action property: with `Busy` nobody is a holder, so nobody writes.  `TableInv` and `RoomInv` are explained below |
| `SemBarrier_proofs` | `Typing`, `Refinement`, `NoUseAfterDestroy` | `Accounted`: each semaphore is what one side posted less what the other took.  When `sem_fils` is positive the father has collected everyone, hence all have arrived: the guard of the abstract `Leave` |
| `Philosophers_proofs` | `Typing`, `NeighboursExclude`, `UseIsFlagged`, `FlagsAreFresh` | `Region` (the regulator is a lock, kept by a dead holder) and `Seen` (chopsticks found free stay free until they are taken) |
| `FinalSum_proofs` | `Typing`, `FinalSumPrinted`, `SignalIsLast` | `Holding`, `Added`, `Counted`, `Signalled`, `Woken`: what is in the sum and in `alive_count` is a function of the program counters, so that a count of one means that everybody has added |
| `Servers_proofs`, on `MsgServer` | `Typing`, `EachItsAnswers` | `Orderly`: until Ctrl-C, what a son has read followed by the messages of its type in the queue is what it was sent (`Delivered`), and `Account`: a son has one request at most, is sent no more than it asked for, and has as many left to read as it has not read.  When it ends nothing is left, so nothing of its own is in the queue.  `Delivered` names the places of those messages by an increasing function (`Enumerates`); the lemmas say what becomes of it when a message is appended, when one of another type is taken, and when the first of the type is |
| `Servers_proofs`, on `FtpSession` | `SessionTyping`, `DownloadsExact`, `UploadsExact` | `SessionInv`, explained below: what is in a stream is told by what its reader is about to read |
| `Exercises_proofs` | `EveryFileConverted`, `NothingOverwritten`, `NobodyPassesEarly`, `SignalsHeard`, `AnnouncedInOrder`, `EveryValueSummed`, `ReadOrNotNotified`, `ReversedFiles` | one invariant per component, below; `ProgramKept` and one lemma per component reduce a step of `Exercises` to a step of the component or none |

The four refinements, of the barrier, of the two stacks and of the room, are
proved step by step: each step of the detailed specification is a step of the
abstract one or leaves its variables alone.  Counting arguments cite the
cardinality theorems of the library (one element added or removed, a subset of
the same cardinality, a bijection).

*The table of the chat.*  That a slot has a segment depends on who has unlinked
what.  Sessions may share a name, and two that pass the test of the name together
share a segment, so that a segment may be lost to a session that is alone in
having a slot.  `TableInv` needs little of this: a name is `Usurped` once two
sessions have it and a process of one of them has run `handler` to its end
(`Unlinkers`), which alone unlinks a segment.  A session that has passed the test
and not yet joined finds a segment under its name, its own or not, or the name is
usurped (`Found`, in `Joining`, and in `JoinTold` when the request is with the
server); a request to leave comes from a process that is in `handler`, and beside a
slot without a segment another one has run it (`LeaveTold`).  `NamesKept` says that
segments, mappings and slots carry the name of their session.  `NullSlots` and
`CountedSlots` follow.  They are about the table: what is displayed by sessions
that share a segment is not stated anywhere.

`NobodyEvicted`, `RefinesRoom` and `OnlyShortageCrashes` assume that names tell the
sessions apart (`DistinctNames`), the last two also that a descriptor is left
(`[](fds # MaxFd)`).  Without these the statements are false and not only
unproved: the server looks clients up by name, a connection without a
descriptor leaves a null slot, and a null slot that is freed makes `nb_connect`
too small, so that a broadcast may end early (section 4).  With them the table is
exact (`Exact`), and `RoomInv` is inductive: a session has one slot and asks for
it once (`OneSlot`), a line is sent once (`SentOnce`), a member the broadcast has
reached has its token or has displayed the line (`Tokens`), it has mapped its own
segment (`Mapped`), and `fin_diffusion`
with what was collected is the number that have (`AnswersCounted`).  So when
`nb_connect` answers are collected all the members have displayed the line: the
guard of the abstract `Delivered`.

*The file transfer.*  No message of a session says what it is, so that the
invariant must say it.  While the client is connected the two sides are in one
of three situations.  In `Uploading` nothing is on its way to the client, and
what is in `up` leads, one message after another, from what the server reads next
to what the client writes next: a request, then the size, then the chunks from
one position of the file to the next (`Carries`, `Stream`).  In `Answering` `up` is
empty and `down` is the answer to the request, as far as the server has written
it and the client has not read it: for a file, the buffers between the position
of the writer and that of the reader (`Buffers`, `Offering`).  In `Lost` the server
has read one message too many, after an upload whose size is a multiple of the
buffer: it never finds a request at the head of the stream again.  What ties the
number of reads to the positions is `Partial`: of what is left of a file,
`Rounds` reads are left, so that one read of a full buffer leaves one read less
(`RoundsFacts`, from the facts of division), and a reader at the end of its reads
has the whole file.  Only a file that `Fits` has no read left over, which is why
`UploadExact` names it, and why a download of another leaves the client waiting
and never at its prompt with a wrong file.  `SizesAssumption` asks that the server
starts with finitely many files, since it counts them for `LIST`.

*The exercises.*  `JobInv`: every name popped is converted or in the hands of a
thread that will do it, and while one thread is between the two halves of `pop`
no other takes a name.  `EnvInv`: a client has one query or answer under way, and
an answer under way is still the value of its variable, for any set `Clients` of
processes (`ClientsAssumption`).  `BarrierInv`: what the
handler has counted, the signals queued and the one `sigwait` took are the
arrivals.  `ChainInv`: signals are sent under `mutex_libere`, which a waiter holds
until it waits, and a second Ctrl-C, which finds all the threads created, leaves
them all dead (`AllDead`).  `ChainsInv`: the processes that have announced themselves are the
last of the chain.  `GatherInv`: of the values read and under way none is there
twice, and each is that of a son of this execution.  `ReverseInv`: one character
at a time, what lies after the place read next (`Unread`) is in the target
backwards, so that at the end the whole source is; by blocks, the target is
`Rearranged` as far as it is written, and what is left before the place read next
is the size less the blocks written and one character, which is why the last
character is never written.  `JobsAssumption`, `ProgramsAssumption`,
`ClientsAssumption` and `ReverseAssumption` (a block has a character, the files are sequences) are all they
assume beyond the types of the bounds.

Only model-checked: the liveness properties (`EverythingConsumed`,
`EveryLineEchoed`, `OnlyLeaversBlock`, `Termination`, `SomebodyEats`,
`EndsUnlessMissed`, `EndsClean`, `Answered`, `Ends`), as liveness under fairness and
`ENABLED` are out of the reach of the prover.  Every invariant, every action
property and every refinement that a passing run checks is stated by a theorem.

## 6. What is not modelled, and the plan

The order was the order of difficulty of the protocols: the two stacks, the
chat, the barrier, the philosophers, the sum, the message server, the file
transfer, then the small programs together.

Not modelled, for good:

- `serverMultiFile.c` (TME04): its sends and receives give the size of the whole
  array of messages, so that each receive writes past the array, and what
  follows depends on the layout the compiler chose;
- the end of file on a chat client's keyboard: `read` returns 0, the test lets
  it pass and the client posts empty messages for ever, which is an ordinary
  line repeated without bound;
- what follows a read of the file transfer that TCP has merged or split; the
  client interrupted in the middle of a transfer, or whose keyboard is at its end
  (`fgets` on `ftpClient.c` line 99 leaves the last request, which is sent again);
  and, in the number of entries that LIST counts, the file of a concatenated name
  that an upload after a refused download creates (`ftpServerThread.c` lines 72
  and 83, then the upload);
- a `pthread_create` or `fork` that fails while the stacks are started, which ends
  the program (TME03 `produc.c` lines 52 to 56 and 62 to 66, `producS.c` lines 44 to 48
  and 53 to 57, TME04 `produc.c` lines 48 to 61);
- the start of the chat's server: `SkipChat` begins when its semaphores are
  initialised (`skipShare.c` lines 160 to 202), and a client interrupted before it
  has mapped `stock` dies of a null pointer without having touched anything;
- what `signaux.c` would do with the `child_pid` of -1 that a failed fork leaves
  (lines 50 and 59): the chain is then short of its last process, which alone
  sends the first one its SIGUSR1, so nobody gets as far;
- `sleep.c`, `chfork.c`, `nfork.c` and the maximum of TME01, `create.c` (TME02),
  `sendfile.c`, `recvfile.c` and `ex1.c` (TME07), `ex1.c` and the filters of
  TME06: one process, or processes that share nothing of their own;
- `broadcast.c` (TME02), `ex1.c` and `ex2.c` (TME09): their one rendezvous is the
  pthread barrier, or the asynchronous I/O of the library;
- `sonar.c`, `ponger.c`, `warmChat.c`, `connectServer.c` and `connectClient.c`
  (TME08): they pass on what they read, and the kernel answers a ping.

Without a theorem: the types of `AcceptLoop`, whose one property is a liveness
property.

## 7. Running

    tlc -config MCCondStack.cfg MCCondStack
    tlapm CondStack_proofs.tla

`MCSkipChat` has three configurations and `MCFtpSession` two; the others have one
of their module's name.  The longest runs are `exercises`, about two minutes on two
cores, and `skip_live`, about one.
