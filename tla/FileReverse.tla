----------------------------- MODULE FileReverse ----------------------------
(***************************************************************************)
(* Programs that write a file backwards into another.                      *)
(*   "lseekInv", "preadInv"  (TME06) one character at a time, leaving out  *)
(*        the ends of line, with lseek from the end or with pread;         *)
(*   "ex4"  (TME09) in blocks of DISPLACEMENT characters whose order is    *)
(*        reversed, each written by one lio_listio, whose requests are all *)
(*        notified by SIGRTMIN; at the end main waits for one signal per   *)
(*        block and one more.  A request whose signal cannot be queued has *)
(*        failed, for the C library, and a list with it.                   *)
(* The program is the Father; a character is its place in the source, or   *)
(* Newline.                                                                *)
(***************************************************************************)
EXTENDS Processes

CONSTANTS DISPLACEMENT,
          Sources,     \* the files reversed, sequences
          Newline,
          MaxPending   \* the signals the system queues for a process

Characters == UNION {Range(s) : s \in Sources}
ASSUME ReverseAssumption ==
  DISPLACEMENT \in Nat \ {0} /\ MaxPending \in Nat /\ Sources \subseteq Seq(Characters)

VARIABLES source, target,
          at,            \* the place read next; in lseekInv from the end
          num_reading,
          signals,       \* SIGRTMIN queued
          left           \* the sigsuspend still to do

reversal == <<source, target, at, num_reading, signals, left>>
ReversePrograms == {"lseekInv", "preadInv", "ex4"}
Size == Len(source)

ReverseInit ==
  /\ source = << >> /\ target = << >> /\ at = 0
  /\ num_reading = 0 /\ signals = 0 /\ left = 0

\* ex4 refuses a file shorter than a block and one character
OpenFiles ==
  /\ pc[Father] = "fork"
  /\ source' \in Sources
  /\ at' = CASE program = "lseekInv" -> -1
            [] program = "preadInv" -> Len(source') - 1
            [] program = "ex4" -> Len(source') - (DISPLACEMENT + 1)
  /\ failed' = (program = "ex4" /\ at' < 0)
  /\ pc' = [pc EXCEPT ![Father] = IF failed' THEN "end" ELSE "loop"]
  /\ UNCHANGED <<program, pending, reaped, target, num_reading, signals, left>>
-----------------------------------------------------------------------------
(* lseekInv and preadInv *)

\* fault: the first character is left out
InFile_short == IF program = "lseekInv" THEN at > -Size ELSE at >= 0
InFile == IF program = "lseekInv" THEN at >= -Size ELSE at >= 0
Char == source[1 + IF program = "lseekInv" THEN Size + at ELSE at]

ReverseChar ==
  /\ pc[Father] = "loop" /\ InFile
  /\ target' = IF Char = Newline THEN target ELSE Append(target, Char)
  /\ at' = at - 1
  /\ UNCHANGED <<processes, source, num_reading, signals, left>>

EndChars ==
  /\ ~ InFile /\ Goto(Father, "loop", "end")
  /\ UNCHANGED <<program, pending, reaped, failed, source, target, at, num_reading, signals, left>>
-----------------------------------------------------------------------------
(* ex4 *)

Block(from, n) == SubSeq(source, from + 1, from + n)
\* each request of a list is notified, and fails if its signal cannot be
Notified(n) == signals + n <= MaxPending /\ signals' = signals + n

WriteBlock ==
  /\ pc[Father] = "loop" /\ at >= DISPLACEMENT
  /\ target' = target \o Block(at, DISPLACEMENT)
  /\ at' = at - DISPLACEMENT
  /\ num_reading' = num_reading + 1
  /\ Notified(DISPLACEMENT)
  /\ UNCHANGED <<processes, source, left>>

\* the last block and what is left before it
WriteRest ==
  /\ at < DISPLACEMENT /\ Goto(Father, "loop", "suspend")
  /\ target' = target \o Block(at, DISPLACEMENT) \o Block(0, at)
  /\ num_reading' = num_reading + 1
  /\ Notified(DISPLACEMENT + at)
  /\ left' = num_reading' + 1
  /\ UNCHANGED <<program, pending, reaped, failed, source, at>>

\* lio_listio fails, in any list: main exits, and says that it has succeeded
ListFails ==
  /\ Goto(Father, "loop", "end") /\ failed' = TRUE
  /\ \/ /\ \E n \in 0 .. DISPLACEMENT : target' = target \o Block(at, n)
        /\ UNCHANGED num_reading
     \/ /\ at < DISPLACEMENT
        /\ \E n \in 0 .. at : target' = target \o Block(at, DISPLACEMENT) \o Block(0, n)
        /\ num_reading' = num_reading + 1
  /\ UNCHANGED <<program, pending, reaped, source, at, signals, left>>

Sigsuspend ==
  /\ pc[Father] = "suspend" /\ left > 0
  /\ signals > 0 /\ signals' = signals - 1
  /\ left' = left - 1
  /\ UNCHANGED <<processes, source, target, at, num_reading>>

EndBlocks ==
  /\ left = 0 /\ Goto(Father, "suspend", "end")
  /\ UNCHANGED <<program, pending, reaped, failed, source, target, at, num_reading, signals, left>>

ReverseNext ==
  \/ OpenFiles
  \/ program # "ex4" /\ (ReverseChar \/ EndChars)
  \/ program = "ex4" /\ (WriteBlock \/ WriteRest \/ ListFails \/ Sigsuspend \/ EndBlocks)
-----------------------------------------------------------------------------
\* ex4 leaves the last character out; the character at place k of its target
Reordered(k) ==
  LET start == (Size - 1) - ((k - 1) \div DISPLACEMENT + 1) * DISPLACEMENT
      rank == 1 + ((k - 1) % DISPLACEMENT)
  IN  IF start >= 0 THEN source[start + rank] ELSE source[rank]
Rearranged(n) == [k \in 1 .. n |-> Reordered(k)]

\* the characters of s after a place, without its ends of line, are written
\* backwards in t: place tells where each comes from
Backwards(s, t, after) ==
  \E place \in [DOMAIN t -> DOMAIN s] :
    /\ \A m, n \in DOMAIN t : m < n => place[m] > place[n]
    /\ \A n \in DOMAIN t : t[n] = s[place[n]]
    /\ \A k \in DOMAIN s : k > after /\ s[k] # Newline <=> \E n \in DOMAIN t : place[n] = k

(* What is written at the end is the source read backwards, without its    *)
(* ends of line or, in ex4, block by block and without its last character. *)
Reversed ==
  program \in ReversePrograms /\ pc[Father] = "end" /\ ~ failed =>
    IF program = "ex4" THEN target = Rearranged(Size - 1)
    ELSE Backwards(source, target, 0)

(* The inductive invariant of the proof: one character at a time, what is  *)
(* after the place read next is in the target backwards; by blocks, those  *)
(* written are in the target, and the others lie before the place read     *)
(* next but for one character.                                             *)
ReverseTypeOK ==
  /\ pc \in [Procs -> {"fork", "none", "loop", "suspend", "end"}]
  /\ source \in Seq(Characters) /\ target \in Seq(Characters) /\ at \in Int
  /\ num_reading \in Nat /\ signals \in Nat /\ left \in Nat
Unread == IF program = "lseekInv" THEN Size + at + 1 ELSE at + 1
CharsRead ==
  pc[Father] \in {"loop", "end"} =>
    /\ Unread \in 0 .. Size
    /\ Backwards(source, target, Unread)
    /\ pc[Father] = "end" => Unread = 0
BlocksWritten ==
  /\ pc[Father] = "loop" =>
       /\ at \in Nat /\ Size = at + DISPLACEMENT + 1 + num_reading * DISPLACEMENT
       /\ target = Rearranged(num_reading * DISPLACEMENT)
  /\ pc[Father] \in {"suspend", "end"} /\ ~ failed =>
       target = Rearranged(Size - 1)

ReverseInv == program \in ReversePrograms =>
  /\ ReverseTypeOK
  /\ pc[Father] = "fork" => target = << >> /\ num_reading = 0 /\ ~ failed
  /\ IF program = "ex4" THEN BlocksWritten ELSE CharsRead /\ ~ failed

(* The program ends: ex4 has been sent as many signals as it waits for,    *)
(* since a list it cannot be told of has ended it before.                  *)
ReverseEnds == program \in ReversePrograms ~> pc[Father] = "end"
=============================================================================
