------------------------------ MODULE MsgServer -----------------------------
(***************************************************************************)
(* serverUniq.c of TME04: a father and its sons over one System V message  *)
(* queue.  A son asks for a number of values with a message of type        *)
(* NB_PROCS + 1; the father answers with as many messages of the type of   *)
(* that son.  No return value of msgsnd or msgrcv is looked at, and every  *)
(* process has the handler of SIGINT, which removes the queue.             *)
(* The queue is unbounded: NB_PROCS is 5 and a son asks for at most 10     *)
(* values, far below the 2048 messages of 8 bytes a queue holds.           *)
(***************************************************************************)
EXTENDS Naturals, FiniteSets, Sequences, SequencesExt

CONSTANTS Sons,      \* the children; a son stands for its num_file and its type
          Father,    \* the type NB_PROCS + 1
          MaxVal     \* bound of the random values

ASSUME SonsAssumption == IsFiniteSet(Sons) /\ Sons # {} /\ Father \notin Sons
ASSUME MaxValAssumption == MaxVal \in Nat

VARIABLES
  queue, removed,          \* the messages, and whether IPC_RMID was done
  fpc, served, todo, fbuf, \* father: requests served, answers left, msgUniq[NB_PROCS]
  spc, left, sbuf, got,    \* sons: answers left, msgUniq[i], the values added to res
  want, sent,              \* what each son asked for, and what it was sent
  pending, interrupted     \* processes with SIGINT pending; it was sent

father == <<fpc, served, todo, fbuf>>
sons == <<spc, left, sbuf, got>>
vars == <<queue, removed, father, sons, want, sent, pending, interrupted>>

Message == [type : Sons \cup {Father}, mess : 0 .. MaxVal, num_file : Sons \cup {Father}]
Msg(type, mess, file) == [type |-> type, mess |-> mess, num_file |-> file]

Init ==
  /\ queue = <<>> /\ removed = FALSE
  /\ fpc = "fork" /\ served = 0 /\ todo = 0
  /\ fbuf = Msg(Father, 0, Father)
  /\ spc = [s \in Sons |-> "none"] /\ left = [s \in Sons |-> 0]
  /\ sbuf = [s \in Sons |-> Msg(s, 0, Father)]
  /\ got = [s \in Sons |-> <<>>]
  /\ want = [s \in Sons |-> 0] /\ sent = [s \in Sons |-> <<>>]
  /\ pending = {} /\ interrupted = FALSE

\* msgsnd fails once the queue is removed
Msgsnd(m) == queue' = IF removed THEN queue ELSE Append(queue, m)

\* msgrcv takes the oldest message of a type
\* fault: the type is not looked at
OfType_any(type) == DOMAIN queue
OfType(type) == {i \in DOMAIN queue : queue[i].type = type}
Oldest(type) == CHOOSE i \in OfType(type) : \A j \in OfType(type) : i <= j

\* it waits for one, and fails without touching the buffer once the queue is removed
Msgrcv(type) ==
  /\ removed \/ OfType(type) # {}
  /\ queue' = IF removed THEN queue ELSE RemoveAt(queue, Oldest(type))
Received(type, buf) == IF removed THEN buf ELSE queue[Oldest(type)]

Running(p) == IF p = Father THEN fpc \in {"fork", "receive", "send", "wait"}
              ELSE spc[p] \in {"ask", "receive"}
-----------------------------------------------------------------------------
(* The father *)

\* a fork is restarted after the handler, so none succeeds with a signal pending
Fork(s) ==
  /\ fpc = "fork" /\ Father \notin pending
  /\ spc[s] = "none" /\ spc' = [spc EXCEPT ![s] = "ask"]
  /\ \E n \in 0 .. MaxVal :
       /\ want' = [want EXCEPT ![s] = n] /\ left' = [left EXCEPT ![s] = n]
       /\ sbuf' = [sbuf EXCEPT ![s] = Msg(Father, n, s)]
  /\ UNCHANGED <<queue, removed, father, got, sent, pending, interrupted>>

ForkFailure ==
  /\ fpc = "fork" /\ \E s \in Sons : spc[s] = "none"
  /\ fpc' = "exited"
  /\ UNCHANGED <<queue, removed, served, todo, fbuf, sons, want, sent, pending, interrupted>>

EndFork ==
  /\ fpc = "fork" /\ \A s \in Sons : spc[s] # "none"
  /\ fpc' = "receive"
  /\ UNCHANGED <<queue, removed, served, todo, fbuf, sons, want, sent, pending, interrupted>>

More == served < Cardinality(Sons)

Receive ==
  /\ fpc = "receive" /\ More
  /\ Msgrcv(Father)
  /\ fbuf' = Received(Father, fbuf) /\ todo' = fbuf'.mess
  /\ fpc' = "send"
  /\ UNCHANGED <<removed, served, sons, want, sent, pending, interrupted>>

\* fault: the buffer is sent as it was received
Answer_asked == fbuf.type
Answer == fbuf.num_file

Send ==
  /\ fpc = "send" /\ todo > 0
  /\ \E v \in 0 .. MaxVal :
       /\ fbuf' = Msg(Answer, v, fbuf.num_file)
       /\ sent' = [sent EXCEPT ![fbuf.num_file] = Append(@, v)]
  /\ Msgsnd(fbuf')
  /\ todo' = todo - 1
  /\ UNCHANGED <<removed, fpc, served, sons, want, pending, interrupted>>

EndSend ==
  /\ fpc = "send" /\ todo = 0
  /\ served' = served + 1 /\ fpc' = "receive"
  /\ UNCHANGED <<queue, removed, todo, fbuf, sons, want, sent, pending, interrupted>>

EndReceive ==
  /\ fpc = "receive" /\ ~ More
  /\ fpc' = "wait"
  /\ UNCHANGED <<queue, removed, served, todo, fbuf, sons, want, sent, pending, interrupted>>

\* wait(NULL) NB_PROCS times, then IPC_RMID
Finish ==
  /\ fpc = "wait" /\ \A s \in Sons : ~ Running(s)
  /\ fpc' = "done" /\ removed' = TRUE
  /\ UNCHANGED <<queue, served, todo, fbuf, sons, want, sent, pending, interrupted>>
-----------------------------------------------------------------------------
(* A son *)

Ask(s) ==
  /\ spc[s] = "ask" /\ spc' = [spc EXCEPT ![s] = "receive"]
  /\ Msgsnd(sbuf[s])
  /\ UNCHANGED <<removed, father, left, sbuf, got, want, sent, pending, interrupted>>

\* the value in the buffer is added to res, received or not
Value(s) ==
  /\ spc[s] = "receive" /\ left[s] > 0
  /\ Msgrcv(s)
  /\ sbuf' = [sbuf EXCEPT ![s] = Received(s, @)]
  /\ got' = [got EXCEPT ![s] = Append(@, sbuf'[s].mess)]
  /\ left' = [left EXCEPT ![s] = @ - 1]
  /\ UNCHANGED <<removed, father, spc, want, sent, pending, interrupted>>

EndSon(s) ==
  /\ spc[s] = "receive" /\ left[s] = 0
  /\ spc' = [spc EXCEPT ![s] = "done"]
  /\ UNCHANGED <<queue, removed, father, left, sbuf, got, want, sent, pending, interrupted>>
-----------------------------------------------------------------------------
\* Ctrl-C reaches every process of the terminal, once
Interrupt ==
  /\ ~ interrupted /\ interrupted' = TRUE
  /\ pending' = {p \in Sons \cup {Father} : Running(p)}
  /\ UNCHANGED <<queue, removed, father, sons, want, sent>>

Handler(p) == removed' = TRUE

TakeSignal(p) ==
  /\ p \in pending /\ pending' = pending \ {p}
  /\ Running(p)
  /\ Handler(p)
  /\ IF p = Father THEN fpc' = "killed" /\ UNCHANGED spc
     ELSE spc' = [spc EXCEPT ![p] = "killed"] /\ UNCHANGED fpc
  /\ UNCHANGED <<queue, served, todo, fbuf, left, sbuf, got, want, sent, interrupted>>

FatherStep == EndFork \/ Receive \/ Send \/ EndSend \/ EndReceive \/ Finish
SonStep(s) == Ask(s) \/ Value(s) \/ EndSon(s)

Next ==
  \/ FatherStep \/ ForkFailure \/ Interrupt
  \/ \E s \in Sons : Fork(s) \/ SonStep(s)
  \/ \E p \in Sons \cup {Father} : TakeSignal(p)

Spec == Init /\ [][Next]_vars

(* Processes run, and a pending signal is delivered; nobody has to press    *)
(* Ctrl-C and no fork has to fail.                                         *)
Fairness ==
  /\ WF_vars(FatherStep)
  /\ \A s \in Sons : WF_vars(Fork(s)) /\ WF_vars(SonStep(s)) /\ WF_vars(TakeSignal(s))
  /\ WF_vars(TakeSignal(Father))

FairSpec == Spec /\ Fairness
-----------------------------------------------------------------------------
(* The type invariant. *)
TypeOK ==
  /\ queue \in Seq(Message) /\ removed \in BOOLEAN
  /\ fpc \in {"fork", "receive", "send", "wait", "done", "exited", "killed"}
  /\ served \in 0 .. Cardinality(Sons) /\ todo \in 0 .. MaxVal /\ fbuf \in Message
  /\ spc \in [Sons -> {"none", "ask", "receive", "done", "killed"}]
  /\ left \in [Sons -> 0 .. MaxVal] /\ want \in [Sons -> 0 .. MaxVal]
  /\ sbuf \in [Sons -> Message]
  /\ got \in [Sons -> Seq(0 .. MaxVal)] /\ sent \in [Sons -> Seq(0 .. MaxVal)]
  /\ pending \subseteq Sons \cup {Father} /\ interrupted \in BOOLEAN

(* Over the one queue, every son adds up the values sent to it, each once  *)
(* and in order, and as many as it asked for, unless the queue was removed *)
(* by the handler (serverUniq.c line 72 adds whatever is in the buffer).   *)
OwnAnswers ==
  \A s \in Sons : spc[s] = "done" /\ ~ interrupted =>
    got[s] = sent[s] /\ Len(got[s]) = want[s]

(* Every process ends and the queue is removed, also when Ctrl-C comes in  *)
(* the middle: no process waits for ever on a queue another has removed.   *)
(* A fork that fails leaves the sons and the queue (line 59).              *)
EndsClean ==
  <>(\/ fpc = "exited"
     \/ removed /\ \A p \in Sons \cup {Father} : ~ Running(p))
-----------------------------------------------------------------------------
(* The inductive invariant of the proofs: until Ctrl-C is pressed, what a  *)
(* son has read and the answers in the queue are together what it was      *)
(* sent, and it is sent no more than it asked for.                         *)

\* f gives the places in q of its k messages of a type, in order
Enumerates(f, k, q, type) ==
  /\ \A a, b \in 1 .. k : a < b => f[a] < f[b]
  /\ \A a \in 1 .. k : q[f[a]].type = type
  /\ \A i \in DOMAIN q : q[i].type = type => \E a \in 1 .. k : f[a] = i

Enumerable(q, type) == \E k \in Nat : \E f \in [1 .. k -> DOMAIN q] : Enumerates(f, k, q, type)

\* the values read and then those in q are the values sent
Delivered(q, s, read, values) ==
  \E k \in Nat : \E f \in [1 .. k -> DOMAIN q] :
    /\ Enumerates(f, k, q, s)
    /\ Len(values) = Len(read) + k
    /\ \A n \in 1 .. Len(read) : values[n] = read[n]
    /\ \A a \in 1 .. k : values[Len(read) + a] = q[f[a]].mess

Requests(s) == {i \in DOMAIN queue : queue[i].type = Father /\ queue[i].num_file = s}
Serving(s) == fpc = "send" /\ fbuf.num_file = s

Unasked(s) == sent[s] = <<>> /\ ~ Serving(s)

\* a request in the queue is the only one of its son and not answered yet
Requested(s) ==
  \A i \in Requests(s) :
    queue[i].mess = want[s] /\ Unasked(s) /\ \A j \in Requests(s) : i = j

Account(s) ==
  /\ spc[s] \in {"none", "ask"} => Unasked(s) /\ Requests(s) = {} /\ got[s] = <<>>
  /\ spc[s] = "ask" => sbuf[s] = Msg(Father, want[s], s) /\ left[s] = want[s]
  /\ Requested(s)
  /\ Serving(s) => Len(sent[s]) + todo = want[s]
  /\ Len(sent[s]) <= want[s]
  /\ spc[s] \in {"receive", "done"} => Len(got[s]) + left[s] = want[s]
  /\ spc[s] = "done" => left[s] = 0

Orderly ==
  /\ pending = {}
  /\ removed => fpc = "done" /\ \A s \in Sons : ~ Running(s)
  /\ fpc = "send" => fbuf.num_file \in Sons
  /\ \A i \in DOMAIN queue : queue[i].type = Father => queue[i].num_file \in Sons
  /\ \A s \in Sons : Account(s) /\ Delivered(queue, s, got[s], sent[s])

IInv ==
  /\ TypeOK
  /\ fpc = "send" => More
  /\ \A type \in Sons \cup {Father} : Enumerable(queue, type)
  /\ interrupted \/ Orderly
=============================================================================
