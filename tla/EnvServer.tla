------------------------------ MODULE EnvServer -----------------------------
(***************************************************************************)
(* serverENV.c and its clients clientENV.c of TME07: variables of the      *)
(* environment of the server, set and read by datagrams.  A SET is not     *)
(* acknowledged, and a client that sends a GET waits for the answer        *)
(* without a timeout.  The server is the Father, a client is a son.        *)
(* A datagram may be lost, when it is sent or because nobody receives it;  *)
(* over the local interface they are neither reordered nor duplicated.     *)
(***************************************************************************)
EXTENDS Processes

CONSTANTS Variables,   \* names of variables
          Contents,    \* what a variable is set to
          Clients,     \* the sons that are clients
          MaxQueries   \* bound on the lines a client types

ASSUME ClientsAssumption == Clients \subseteq Sons

VARIABLES env,         \* the environment of the server
          arg1, arg2,  \* its buffers, which keep what an earlier query left in them
          inbox,       \* datagrams of the server: query, and the client that sent it
          answer,      \* datagrams of each client
          queries,     \* lines typed by each
          told,        \* the answers received: client, variable, content
          asked,       \* what each client waits for
          lost         \* clients whose query or answer was lost

network == <<inbox, answer, queries, told, asked, lost>>
environment == <<env, arg1, arg2, network>>
EnvPrograms == {"env"}
Unset == "unset"
Junk == "junk"       \* of an uninitialized buffer

\* a line is well formed, or has an argument less, or neither an S nor a G
Queries == {<<"S", v, c>> : v \in Variables, c \in Contents}
             \cup {<<"S", v>> : v \in Variables} \cup {<<"G", v>> : v \in Variables}
             \cup {<<"S">>, <<"G">>, <<"other">>}

\* the server inherits the variables of its shell
EnvInit ==
  /\ env \in IF program \in EnvPrograms THEN [Variables -> Contents \cup {Unset}]
             ELSE {[v \in Variables |-> Unset]}
  /\ arg1 = Junk /\ arg2 = Junk
  /\ inbox = << >> /\ answer = [p \in Clients |-> << >>]
  /\ queries = [p \in Clients |-> 0] /\ told = {}
  /\ asked = [p \in Clients |-> Unset] /\ lost = {}

\* the server and the clients are started by hand; only a GET is waited for
Type(p) ==
  /\ pc[p] \in {"none", "start"} /\ queries[p] < MaxQueries
  /\ queries' = [queries EXCEPT ![p] = @ + 1]
  /\ \E q \in Queries :
       /\ \/ inbox' = Append(inbox, <<q, p>>) /\ UNCHANGED lost
          \/ lost' = lost \cup {p} /\ UNCHANGED inbox
       /\ pc' = [pc EXCEPT ![p] = IF q[1] = "G" THEN "receive" ELSE "start"]
       /\ asked' = [asked EXCEPT ![p] = IF q \in {"G"} \X Variables THEN q[2] ELSE Unset]
  /\ UNCHANGED <<program, pending, reaped, failed, env, arg1, arg2, answer, told>>

ReceiveAnswer(p) ==
  /\ answer[p] # << >> /\ Goto(p, "receive", "start")
  /\ told' = told \cup {<<p, asked[p], Head(answer[p])>>}
  /\ answer' = [answer EXCEPT ![p] = Tail(@)]
  /\ UNCHANGED <<program, pending, reaped, failed, env, arg1, arg2, inbox, queries, asked, lost>>

Query == Head(inbox)[1]
Recvfrom(type) ==
  /\ pc[Father] = "fork" /\ inbox # << >> /\ Query[1] = type
  /\ inbox' = Tail(inbox)

\* setenv with overwrite = 0; arg2 may be that of an earlier query
\* fault: a variable is overwritten
Setenv_over(v, c) == [env EXCEPT ![v] = c]
Setenv(v, c) == IF env[v] = Unset THEN [env EXCEPT ![v] = c] ELSE env

SetVariable ==
  /\ Recvfrom("S") /\ Len(Query) > 1
  /\ arg1' = Query[2]
  /\ arg2' = IF Len(Query) > 2 THEN Query[3] ELSE arg2
  /\ env' = Setenv(arg1', arg2')
  /\ UNCHANGED <<processes, answer, queries, told, asked, lost>>

GetVariable ==
  /\ Recvfrom("G") /\ Len(Query) > 1 /\ env[Query[2]] # Unset
  /\ arg1' = Query[2]
  /\ LET p == Head(inbox)[2]
     IN  \/ answer' = [answer EXCEPT ![p] = Append(@, env[arg1'])] /\ UNCHANGED lost
         \/ lost' = lost \cup {p} /\ UNCHANGED answer
  /\ UNCHANGED <<processes, env, arg2, queries, told, asked>>

\* strdup of a variable that is not set, sscanf that finds no argument, and
\* "Kernel panic!" all end the server
ServerEnds ==
  /\ \/ Recvfrom("G") /\ (Len(Query) > 1 => env[Query[2]] = Unset)
     \/ Recvfrom("S") /\ Len(Query) = 1
     \/ Recvfrom("other")
  /\ pc' = [pc EXCEPT ![Father] = "end"]
  /\ UNCHANGED <<program, pending, reaped, failed, env, arg1, arg2, answer, queries, told, asked, lost>>

\* Ctrl-C is the only signal the server does not block
StopServer ==
  /\ Goto(Father, "fork", "end")
  /\ UNCHANGED <<program, pending, reaped, failed, env, arg1, arg2, network>>

EnvStep == SetVariable \/ GetVariable \/ ServerEnds \/ \E p \in Clients : ReceiveAnswer(p)
EnvEvent == StopServer \/ \E p \in Clients : Type(p)
-----------------------------------------------------------------------------
(* A variable is created and never overwritten (line 80): all the answers  *)
(* about it agree, to whichever client and however the queries interleave, *)
(* even when it was given what an earlier query had left in arg2.          *)
AnswersAgree ==
  program = "env" => \A a, b \in told : a[2] = b[2] => a[3] = b[3]

(* The inductive invariant of the proof: a client has at most one GET or   *)
(* answer under way, and every answer, under way or received, is still the *)
(* value of the variable it was about.                                     *)
IsGet(n) == inbox[n][1][1] = "G"
Values == {env[v] : v \in Variables}
EnvTypeOK ==
  /\ pc \in [Procs -> {"fork", "none", "start", "receive", "end"}]
  /\ DOMAIN env = Variables
  /\ inbox \in Seq(Queries \X Clients)
  /\ answer \in [Clients -> Seq(Values)]
  /\ DOMAIN asked = Clients
  /\ told \subseteq Clients \X Variables \X Values
OneGet == \A n \in DOMAIN inbox : IsGet(n) =>
  /\ pc[inbox[n][2]] = "receive" /\ answer[inbox[n][2]] = << >>
  /\ Len(inbox[n][1]) > 1 =>
       asked[inbox[n][2]] = inbox[n][1][2] /\ inbox[n][1][2] \in Variables
  /\ \A m \in DOMAIN inbox : IsGet(m) /\ inbox[m][2] = inbox[n][2] => m = n
AnswerCurrent == \A p \in Clients : answer[p] # << >> =>
  /\ pc[p] = "receive" /\ asked[p] \in Variables
  /\ env[asked[p]] # Unset /\ answer[p] = <<env[asked[p]]>>
ToldCurrent == \A t \in told : env[t[2]] # Unset /\ t[3] = env[t[2]]

EnvInv == program = "env" => EnvTypeOK /\ OneGet /\ AnswerCurrent /\ ToldCurrent

(* A client that waits for an answer gets it, unless a datagram of its was *)
(* lost or the server has ended.                                           *)
EnvAnswers == \A p \in Clients :
  program = "env" /\ pc[p] = "receive" ~> pc[p] # "receive" \/ p \in lost \/ pc[Father] = "end"
=============================================================================
