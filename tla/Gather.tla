------------------------------- MODULE Gather -------------------------------
(***************************************************************************)
(* Sons that produce one value each and a father that collects them.       *)
(*   "memoryMSG"  (TME04) and "shareMemory" (TME05): a cell of a shared    *)
(*                segment per son, read after every son has ended;         *)
(*   "fileMSG"    (TME04) a System V message queue, read after they have;  *)
(*   "mq_example" (TME05) one son and a POSIX queue, read at once; the     *)
(*                queue unlinked at the end is not the one opened;         *)
(*   "ex6"        (TME09) the value travels with SIGRTMIN, whose handler   *)
(*                counts and adds while the father sigwaits for the other  *)
(*                signals: for SIGCHLD, that is;                           *)
(*   "ex3"        (TME09) the values are written to a file by asynchronous *)
(*                I/O and the father is notified by SIGRTMIN.              *)
(*                                                                         *)
(* The segment and the queues outlive the processes.  Ctrl-C ends the      *)
(* programs of TME04 and TME05, which have no handler, and they can be run *)
(* again.  A value is the pair of the execution and the son; the sum is    *)
(* the sequence of the values added.                                       *)
(***************************************************************************)
EXTENDS Processes

CONSTANT MaxRound     \* bound on the executions

VARIABLES round,      \* the execution
          mem,        \* cells of the segment, or of the file of ex3
          queue,      \* messages of the queue
          res,        \* what the father has read, in order
          nb,         \* nb_rec of ex6, nb_lect of ex3
          order,      \* ex3: the sons whose notification was taken
          dirty       \* an execution that did not end may have left messages

gather == <<round, mem, queue, res, nb, order, dirty>>
store == <<round, mem, queue, order, dirty>>
GatherPrograms == {"memoryMSG", "shareMemory", "fileMSG", "mq_example", "ex6", "ex3"}
Persistent == {"memoryMSG", "shareMemory", "fileMSG", "mq_example"}
Segments == {"memoryMSG", "shareMemory"}

Zero == <<0, 0>>
MyValue(p) == <<round, p>>
Forking == Fork \/ ForkFailure

GatherInit ==
  /\ round = 1
  /\ mem = [p \in Sons |-> Zero] /\ queue = << >> /\ res = << >>
  /\ nb = 0 /\ order = << >> /\ dirty = FALSE
-----------------------------------------------------------------------------
(* The segments and the queues *)

Produce(p) ==
  /\ Goto(p, "start", "end")
  /\ IF program \in Segments
     THEN mem' = [mem EXCEPT ![p] = MyValue(p)] /\ UNCHANGED queue
     ELSE queue' = Append(queue, MyValue(p)) /\ UNCHANGED mem
  /\ UNCHANGED <<program, pending, reaped, failed, round, res, nb, order, dirty>>

\* the father of mq_example does not wait for its son
WaitProducers ==
  /\ program # "mq_example" /\ pc[Father] = "wait"
  /\ IF reaped = Forked THEN Goto(Father, "wait", "collect") /\ UNCHANGED reaped
     ELSE (\E p \in Forked : Reap(p)) /\ UNCHANGED pc
  /\ UNCHANGED <<program, pending, failed, store, res, nb>>

ToCollect == IF program = "mq_example" THEN "collect" ELSE "wait"

\* mq_example takes a fork that fails for the father's side of one that does not
ForkNone ==
  /\ program = "mq_example"
  /\ Goto(Father, "fork", "collect")
  /\ failed' = TRUE
  /\ UNCHANGED <<program, pending, reaped, store, res, nb>>

\* one turn of the loop that reads and adds
Collect ==
  /\ pc[Father] = "collect" /\ Len(res) < Cardinality(Forked)
  /\ IF program \in Segments
     THEN res' = Append(res, mem[Len(res)]) /\ UNCHANGED queue
     ELSE queue # << >> /\ res' = Append(res, Head(queue)) /\ queue' = Tail(queue)
  /\ UNCHANGED <<processes, round, mem, nb, order, dirty>>

\* fault: the queue of fileMSG is left, as that of mq_example is
Left_queues == {"fileMSG", "mq_example"}
Left == {"mq_example"}

\* IPC_RMID, or shm_unlink, and the end
RemoveObject ==
  /\ Len(res) = Cardinality(Forked)
  /\ Goto(Father, "collect", "end")
  /\ mem' = [p \in Sons |-> Zero]
  /\ queue' = IF program \in Left THEN queue ELSE << >>
  /\ UNCHANGED <<program, pending, reaped, failed, round, res, nb, order, dirty>>

\* Ctrl-C, to all the processes; what the kernel holds stays
CtrlC ==
  /\ Alive(Father)
  /\ pc' = [p \in Procs |-> IF Alive(p) THEN "killed" ELSE pc[p]]
  /\ UNCHANGED <<program, pending, reaped, failed, store, res, nb>>

\* the next execution, once no process of this one is left
Again ==
  /\ round < MaxRound /\ round' = round + 1
  /\ ~ \E p \in Procs : Alive(p)
  /\ pc' = [p \in Procs |-> IF p = Father THEN "fork" ELSE "none"]
  /\ reaped' = {} /\ res' = << >> /\ failed' = FALSE
  /\ dirty' = (pc[Father] = "killed" \/ failed \/ (program = "mq_example" /\ dirty))
  /\ UNCHANGED <<program, pending, mem, queue, nb, order>>

PersistentStep ==
  \/ (Fork \/ EndFork(ToCollect)) /\ UNCHANGED <<store, res, nb>>
  \/ program # "mq_example" /\ ForkFailure /\ UNCHANGED <<store, res, nb>>
  \/ ForkNone \/ WaitProducers \/ Collect \/ RemoveObject
  \/ \E p \in Forked : Produce(p)
-----------------------------------------------------------------------------
(* ex6 *)

\* sigqueue, and the SIGCHLD of its end; a failure ends the son as well
SendValue(p) ==
  /\ Goto(p, "start", "sent")
  /\ \/ pending' = Sigqueue(pending, Father, "RTMIN", MyValue(p)) /\ UNCHANGED failed
     \/ UNCHANGED pending /\ failed' = TRUE
  /\ UNCHANGED <<program, reaped, store, res, nb>>

EndSon(p) ==
  /\ Goto(p, "sent", "end")
  /\ pending' = Kill(pending, Father, "CHLD")
  /\ UNCHANGED <<program, reaped, failed, store, res, nb>>

AddValue ==
  /\ Has(Father, "RTMIN") /\ Alive(Father)
  /\ res' = Append(res, SigValue(Father, "RTMIN"))
  /\ nb' = nb + 1
  /\ pending' = Taken(pending, Father, "RTMIN")
  /\ UNCHANGED <<program, pc, reaped, failed, store>>

SigwaitChild ==
  /\ Has(Father, "CHLD") /\ Goto(Father, "sigwait", "test")
  /\ pending' = Taken(pending, Father, "CHLD")
  /\ UNCHANGED <<program, reaped, failed, store, res, nb>>

Enough == nb >= Cardinality(Forked)

\* the signals that came before SIGCHLD have been handled
TestCount ==
  /\ ~ Has(Father, "RTMIN")
  /\ Goto(Father, "test", IF Enough THEN "end" ELSE "sigwait")
  /\ UNCHANGED <<program, pending, reaped, failed, store, res, nb>>

Ex6 ==
  \/ (Forking \/ EndFork("sigwait")) /\ UNCHANGED <<store, res, nb>>
  \/ AddValue \/ SigwaitChild \/ TestCount
  \/ \E p \in Forked : SendValue(p) \/ EndSon(p)
-----------------------------------------------------------------------------
(* ex3 *)

\* aio_write: the cell is written some time later, then SIGRTMIN sent
\* fault: the father is told when the write is started
StartWrite_notify(p) ==
  /\ Goto(p, "start", "writing")
  /\ pending' = [pending EXCEPT ![Father] = Append(@, <<"RTMIN", p>>)]
  /\ UNCHANGED <<program, reaped, failed, store, res, nb>>
StartWrite(p) ==
  /\ Goto(p, "start", "writing")
  /\ UNCHANGED <<program, pending, reaped, failed, store, res, nb>>

EndWrite(p) ==
  /\ Goto(p, "writing", "written")
  /\ mem' = [mem EXCEPT ![p] = MyValue(p)]
  /\ pending' = Sigqueue(pending, p, "RTMIN", 0)
  /\ UNCHANGED <<program, reaped, failed, round, queue, res, nb, order, dirty>>

\* the handler notify_father, run in sigsuspend; then return, or exit
NotifyFather(p) ==
  /\ Has(p, "RTMIN") /\ Goto(p, "written", "end")
  /\ LET rest == Taken(pending, p, "RTMIN")
     IN  \/ pending' = Sigqueue(rest, Father, "RTMIN", p) /\ UNCHANGED failed
         \/ pending' = rest /\ failed' = TRUE
  /\ UNCHANGED <<program, reaped, store, res, nb>>

\* sigwait, and aio_read of the cell nb_lect whoever has notified
ReadFather ==
  /\ Has(Father, "RTMIN") /\ Goto(Father, "sigwait", "reading")
  /\ order' = Append(order, SigValue(Father, "RTMIN"))
  /\ pending' = Taken(pending, Father, "RTMIN")
  /\ nb' = nb + 1
  /\ UNCHANGED <<program, reaped, failed, round, mem, queue, res, dirty>>

EndRead ==
  /\ Goto(Father, "reading", "read")
  /\ res' = Append(res, mem[nb - 1])
  /\ pending' = Sigqueue(pending, Father, "RTMIN+1", 0)
  /\ UNCHANGED <<program, reaped, failed, store, nb>>

\* sigsuspend returns with print_father
PrintFather ==
  /\ Has(Father, "RTMIN+1")
  /\ Goto(Father, "read", IF nb >= Cardinality(Forked) THEN "end" ELSE "sigwait")
  /\ pending' = Taken(pending, Father, "RTMIN+1")
  /\ UNCHANGED <<program, reaped, failed, store, res, nb>>

Ex3 ==
  \/ (Forking \/ EndFork("sigwait")) /\ UNCHANGED <<store, res, nb>>
  \/ ReadFather \/ EndRead \/ PrintFather
  \/ \E p \in Forked : StartWrite(p) \/ EndWrite(p) \/ NotifyFather(p)
-----------------------------------------------------------------------------
GatherStep ==
  \/ program \in Persistent /\ PersistentStep
  \/ program = "ex6" /\ Ex6
  \/ program = "ex3" /\ Ex3

GatherEvent == program \in Persistent /\ (CtrlC \/ Again)
-----------------------------------------------------------------------------
Own == {MyValue(p) : p \in Forked}

(* The father that ends has added the value of each of its sons once and   *)
(* nothing else, whatever an execution that was interrupted has left in    *)
(* the segment; but a queue keeps what was left, that of mq_example for    *)
(* ever since another one is unlinked (line 61).                           *)
SumComplete ==
  /\ program \in GatherPrograms \ {"ex3"} /\ (dirty => program \in Segments)
  /\ pc[Father] = "end" /\ ~ failed
  => Len(res) = Cardinality(Own) /\ Range(res) = Own

(* The k-th value that the father of ex3 prints is that of the k-th son,   *)
(* and is missing only if that son was not among the first k to notify:    *)
(* it reads a cell for each notification, but not the cell of its sender.  *)
ReadOrUnnotified ==
  program = "ex3" => \A k \in DOMAIN res :
    \/ res[k] = MyValue(k - 1)
    \/ res[k] = Zero /\ k - 1 \notin Range(SubSeq(order, 1, k))

(* The inductive invariant of the proofs.  A cell of the segment is that   *)
(* of its son once the son has ended.  Of the values that were sent none   *)
(* is twice, among those read (s) and those under way (e).  A notification *)
(* of ex3 comes after its cell is written, and the father has read once    *)
(* for each notification it has taken, and at most N times.                *)
Cells == Nat \X Sons
GatherTypeOK ==
  /\ DOMAIN pc = Procs /\ round \in Nat \ {0} /\ mem \in [Sons -> Cells]
  /\ res \in Seq(Cells) /\ queue \in Seq(Cells) /\ nb \in Nat
Summed ==
  /\ pc[Father] \in {"fork", "wait", "collect", "end", "killed"}
  /\ program # "mq_example" => /\ \A p \in reaped : p \in Forked /\ pc[p] = "end"
                               /\ pc[Father] = "collect" => \A p \in Forked : pc[p] = "end"
  /\ pc[Father] = "end" /\ ~ failed => Len(res) = Cardinality(Forked)
SegmentInv ==
  /\ \A n \in DOMAIN res : res[n] = MyValue(n - 1)
  /\ pc[Father] # "end" => \A p \in Forked : pc[p] = "end" => mem[p] = MyValue(p)

SentBy(S) == {MyValue(p) : p \in {q \in Forked : pc[q] \in S}}
Carried(s, e, T) ==
  /\ (\A m \in DOMAIN s : s[m] \in T) /\ (\A n \in DOMAIN e : e[n] \in T)
  /\ \A m, n \in DOMAIN s : s[m] = s[n] => m = n
  /\ \A m, n \in DOMAIN e : e[m] = e[n] => m = n
  /\ \A m \in DOMAIN s, n \in DOMAIN e : s[m] # e[n]
QueueInv ==
  /\ ~ dirty => Carried(res, queue, SentBy({"end"}))
  /\ program = "fileMSG" /\ pc[Father] = "end" /\ ~ failed =>
       queue = << >> /\ \A p \in Forked : pc[p] = "end"

WithSignal == [n \in {m \in DOMAIN pending[Father] : pending[Father][m][1] = "RTMIN"} |->
                 pending[Father][n][2]]
Ex6Inv ==
  /\ pending \in [Procs -> Seq(({"RTMIN"} \X Cells) \cup ({"CHLD"} \X {0}))]
  /\ Carried(res, WithSignal, SentBy({"sent", "end"}))
  /\ nb = Len(res) /\ (pc[Father] = "end" /\ ~ failed => nb >= N)

Written(p) == p \in Forked /\ mem[p] = MyValue(p)
Ex3Inv ==
  /\ pending \in [Procs -> Seq({"RTMIN", "RTMIN+1"} \X Sons)] /\ order \in Seq(Sons)
  /\ \A p \in Forked : /\ mem[p] = Zero \/ Written(p)
                       /\ pc[p] \in {"written", "end"} => Written(p)
  /\ \A n \in DOMAIN WithSignal : Written(WithSignal[n])
  /\ \A k \in DOMAIN order : Written(order[k])
  /\ nb = Len(order) /\ nb <= N /\ (pc[Father] \in {"fork", "sigwait"} => nb < N)
  /\ Len(res) = IF pc[Father] = "reading" THEN nb - 1 ELSE nb
  /\ \A k \in DOMAIN res : \/ res[k] = MyValue(k - 1)
                           \/ res[k] = Zero /\ \A n \in 1 .. k : order[n] # k - 1

GatherInv ==
  /\ program \in GatherPrograms => GatherTypeOK
  /\ program \in Persistent => Summed
  /\ program \in Segments => SegmentInv
  /\ program \in Persistent \ Segments => QueueInv
  /\ program = "ex6" => Ex6Inv
  /\ program = "ex3" => Ex3Inv

(* The father ends, unless a call has failed: in ex6 it sleeps until       *)
(* SIGCHLD, which is not queued, but the last one comes after every value. *)
GatherEnds == program \in GatherPrograms /\ pc[Father] = "fork" ~>
  pc[Father] \in {"end", "killed"} \/ failed
=============================================================================
