------------------------------ MODULE SkipChat ------------------------------
(***************************************************************************)
(* The chat of TME05: the server skipShare.c and its clients skipClient.c. *)
(* All share one memory segment `stock` that holds a request and four      *)
(* semaphores; each client owns a segment with the message to display and  *)
(* the semaphore autoris_diff.  A client is two processes after its fork:  *)
(* the child ("in") reads the keyboard and posts requests, the parent      *)
(* ("out") displays what the server broadcasts.  Ctrl-C interrupts both.   *)
(*                                                                         *)
(* A session is one execution of skipClient; two sessions may be given the *)
(* same client name.  A segment is known by the session that created it: a *)
(* name may be given to a new one while the old one is still mapped.  A    *)
(* line typed is the pair of its session and rank.                         *)
(***************************************************************************)
EXTENDS Integers, Sequences, FiniteSets

CONSTANTS Sessions,
          NameOf,       \* the client name given to each session
          Quitters,     \* sessions that may be interrupted or fail to fork
          ServerStops,  \* may the server be interrupted?
          MaxTab,       \* NB_CONNECT_MAX
          MaxFd,        \* descriptors the server may open
          MaxLines,     \* bound on the lines a session types
          None

ASSUME SessionAssumption == None \notin Sessions /\ Quitters \subseteq Sessions
ASSUME NameAssumption == \A s \in Sessions : NameOf[s] # None
ASSUME BoundAssumption ==
  MaxTab \in Nat /\ MaxFd \in Nat /\ MaxLines \in Nat /\ ServerStops \in BOOLEAN

VARIABLES sem,         \* the semaphores of stock
          req,         \* stock->req
          shm,         \* the client segments that exist, by name
          requete,     \* the segment each session maps
          autoris_diff, box,   \* each segment: its semaphore, its message
          up,          \* is the server "up", "stopped" by SIGINT or "crashed"?
          srv, tab, nb_connect, i, fds,   \* the server and its tables
          pc,          \* the two processes of each session
          lines,       \* lines typed so far
          pending,     \* processes with a pending SIGINT
          armed,       \* sessions that can still be interrupted
          shown        \* what each session has displayed

stock == <<sem, req>>
server == <<up, srv, tab, nb_connect, i, fds>>
client == <<shm, requete, pc, lines, pending, armed, shown>>
segment == <<autoris_diff, box>>
user == <<lines, pending, armed, shown>>
vars == <<stock, server, client, segment>>

Semaphores == {"fin_diffusion", "poster_message", "prevenir_server", "deco_sem"}
Names == {NameOf[s] : s \in Sessions}
Lines == Sessions \X (1 .. MaxLines)
Contents == Names \cup Lines \cup {None}
Slots == 0 .. MaxTab - 1
Procs == Sessions \X {"in", "out"}
Unsized == 0 - 1   \* a segment that ftruncate has not given its pages
Empty == [name |-> None, link |-> None]

Init ==
  \* deco_sem is never initialised: it is the zero that ftruncate wrote
  /\ sem = [x \in Semaphores |-> IF x = "poster_message" THEN 1 ELSE 0]
  /\ req = [type |-> 0, content |-> None]
  /\ shm = [n \in Names |-> None]
  /\ requete = [s \in Sessions |-> None]
  /\ autoris_diff = [s \in Sessions |-> Unsized]
  /\ box = [s \in Sessions |-> None]
  /\ up = "up" /\ srv = "wait" /\ tab = [k \in Slots |-> Empty]
  /\ nb_connect = 0 /\ i = 0 /\ fds = 0
  /\ pc = [p \in Procs |-> "off"]
  /\ lines = [s \in Sessions |-> 0]
  /\ pending = {} /\ armed = Quitters
  /\ shown = [s \in Sessions |-> << >>]

P(x) == sem[x] > 0 /\ sem' = [sem EXCEPT ![x] = @ - 1]
V(x) == sem' = [sem EXCEPT ![x] = @ + 1]
Goto(p, from, to) == pc[p] = from /\ pc' = [pc EXCEPT ![p] = to]
First(S) == CHOOSE k \in S : \A j \in S : k <= j
-----------------------------------------------------------------------------
(* The client *)

\* A missing server ends the client at once,
Start(s) ==
  /\ Goto(<<s, "out">>, "off", IF up = "stopped" THEN "refused" ELSE "verify")
  /\ UNCHANGED <<stock, server, shm, requete, segment, user>>

\* and so does a name in use.
Verify(s) ==
  /\ Goto(<<s, "out">>, "verify", IF shm[NameOf[s]] # None THEN "refused" ELSE "create")
  /\ UNCHANGED <<stock, server, shm, requete, segment, user>>

\* shm_open without O_EXCL: what another session of that name has created
\* since the test is opened and shared.
Create(s) ==
  /\ Goto(<<s, "out">>, "create", "truncate")
  /\ shm' = [shm EXCEPT ![NameOf[s]] = IF @ = None THEN s ELSE @]
  /\ requete' = [requete EXCEPT ![s] = shm'[NameOf[s]]]
  /\ UNCHANGED <<stock, server, segment, user>>

\* ftruncate, which leaves a segment that has its size alone
Truncate(s) ==
  /\ Goto(<<s, "out">>, "truncate", "init")
  /\ autoris_diff' = [autoris_diff EXCEPT ![requete[s]] = IF @ = Unsized THEN 0 ELSE @]
  /\ UNCHANGED <<stock, server, shm, requete, box, user>>

\* sem_init, over whatever tokens a shared segment holds
InitSegment(s) ==
  /\ Goto(<<s, "out">>, "init", "connect")
  /\ autoris_diff' = [autoris_diff EXCEPT ![requete[s]] = 0]
  /\ UNCHANGED <<stock, server, shm, requete, box, user>>

\* sem_wait(poster_message), by whoever wants to post a request
Wanting == {"connect", "post", "quit", "keep"}
\* fault: the request is written without waiting for poster_message
Acquire_missing(p) ==
  /\ pc[p] \in Wanting
  /\ pc' = [pc EXCEPT ![p] = CASE pc[p] = "connect" -> "connecting"
                               [] pc[p] = "post" -> "posting"
                               [] OTHER -> "quitting"]
  /\ UNCHANGED <<stock, server, shm, requete, segment, user>>

Acquire(p) ==
  /\ pc[p] \in Wanting
  /\ P("poster_message")
  /\ pc' = [pc EXCEPT ![p] = CASE pc[p] = "connect" -> "connecting"
                               [] pc[p] = "post" -> "posting"
                               [] OTHER -> "quitting"]
  /\ UNCHANGED <<req, server, shm, requete, segment, user>>

\* The request is written and the server told; only the server posts
\* poster_message again.
Writing == {"connecting", "posting", "quitting"}
Submit(p) ==
  LET s == p[1] IN
  /\ pc[p] \in Writing
  /\ req' = CASE pc[p] = "connecting" -> [type |-> 0, content |-> NameOf[s]]
              [] pc[p] = "posting" -> [type |-> 1, content |-> <<s, lines[s]>>]
              [] pc[p] = "quitting" -> [type |-> 2, content |-> NameOf[s]]
  /\ V("prevenir_server")
  /\ pc' = [pc EXCEPT ![p] = CASE pc[p] = "connecting" -> "fork"
                               [] pc[p] = "posting" -> "read"
                               [] pc[p] = "quitting" -> "deco"]
  /\ UNCHANGED <<server, shm, requete, segment, user>>

Fork(s) ==
  /\ pc[<<s, "out">>] = "fork"
  /\ \/ pc' = [pc EXCEPT ![<<s, "out">>] = "install", ![<<s, "in">>] = "read"]
     \/ s \in Quitters /\ pc' = [pc EXCEPT ![<<s, "out">>] = "quit"]
  /\ UNCHANGED <<stock, server, shm, requete, segment, user>>

\* until here the parent still has the child's handler
InstallHandler(s) ==
  /\ Goto(<<s, "out">>, "install", "await")
  /\ UNCHANGED <<stock, server, shm, requete, segment, user>>

\* an empty line is not posted
TypeLine(s) ==
  /\ lines[s] < MaxLines
  /\ Goto(<<s, "in">>, "read", "post")
  /\ lines' = [lines EXCEPT ![s] = @ + 1]
  /\ UNCHANGED <<stock, server, shm, requete, segment, pending, armed, shown>>

Await(s) ==
  /\ Goto(<<s, "out">>, "await", "show")
  /\ autoris_diff[requete[s]] > 0
  /\ autoris_diff' = [autoris_diff EXCEPT ![requete[s]] = @ - 1]
  /\ UNCHANGED <<stock, server, shm, requete, box, user>>

Show(s) ==
  /\ Goto(<<s, "out">>, "show", "await")
  /\ shown' = [shown EXCEPT ![s] = Append(@, box[requete[s]])]
  /\ V("fin_diffusion")
  /\ UNCHANGED <<req, server, shm, requete, segment, lines, pending, armed>>

Ended == {"refused", "left", "gone"}
\* Ctrl-C signals both processes of the session.
Interrupt(s) ==
  /\ s \in armed
  /\ pc[<<s, "out">>] # "off"
  /\ armed' = armed \ {s}
  /\ pending' = pending \cup
                  {p \in {s} \X {"in", "out"} : pc[p] \notin {"off"} \cup Ended}
  /\ UNCHANGED <<stock, server, shm, requete, segment, pc, lines, shown>>

\* handler_fils just exits; handler starts a disconnection, which needs
\* poster_message even when the code interrupted had taken it ("keep").
\* Called by main after a failed fork, handler is itself interrupted: it
\* starts again, or finds `stock` unmapped and dies.
InHandler == {"quit", "keep", "quitting", "deco", "bye", "left", "gone"}
Interrupted(q) == CASE q \in {"await", "show"} -> {"left"}
                    [] q \in Writing \cup {"keep"} -> {"keep"}
                    [] q = "bye" -> {"quit", "left"}
                    [] q \in Ended -> {q}
                    [] OTHER -> {"quit"}
TakeSignal(p) ==
  /\ p \in pending
  /\ pending' = pending \ {p}
  /\ \E q \in Interrupted(pc[p]) : Goto(p, pc[p], q)
  /\ UNCHANGED <<stock, server, shm, requete, segment, lines, armed, shown>>

WaitDeco(p) ==
  /\ Goto(p, "deco", "bye")
  /\ P("deco_sem")
  /\ UNCHANGED <<req, server, shm, requete, segment, user>>

\* shm_unlink removes whatever has the name now
Exit(p) ==
  /\ Goto(p, "bye", "gone")
  /\ shm' = [shm EXCEPT ![NameOf[p[1]]] = None]
  /\ UNCHANGED <<stock, server, requete, segment, user>>
-----------------------------------------------------------------------------
(* The server *)

Taken(k) == tab[k].name # None
Serve(type, next) == srv = "serve" /\ req.type = type /\ srv' = next

TakeRequest ==
  /\ srv = "wait" /\ srv' = "serve"
  /\ P("prevenir_server")
  /\ UNCHANGED <<req, up, tab, nb_connect, i, fds, client, segment>>

\* the slot is named before the segment is opened, and stays so on failure
Connexion ==
  /\ Serve(0, "release")
  /\ LET free == {k \in Slots : ~ Taken(k)}
         link == IF fds < MaxFd THEN shm[req.content] ELSE None
     IN  IF free = {} THEN UNCHANGED <<tab, nb_connect, fds>>
         ELSE /\ tab' = [tab EXCEPT ![First(free)] =
                                      [name |-> req.content, link |-> link]]
              /\ IF link = None THEN UNCHANGED <<nb_connect, fds>>
                 ELSE nb_connect' = nb_connect + 1 /\ fds' = fds + 1
  /\ UNCHANGED <<stock, up, i, client, segment>>

BeginDiffusion ==
  /\ Serve(1, "diffuse")
  /\ i' = 0
  /\ UNCHANGED <<stock, up, tab, nb_connect, fds, client, segment>>

\* one turn of diffusion's first loop; a named slot without a link is a
\* null pointer, a segment that has no size yet a bus error
DiffuseSlot ==
  /\ srv = "diffuse" /\ i < MaxTab
  /\ LET link == tab[i].link
         mapped == link # None /\ autoris_diff[link] # Unsized
     IN  \/ ~ Taken(i) /\ UNCHANGED <<up, segment>>
         \/ Taken(i) /\ ~ mapped /\ up' = "crashed" /\ UNCHANGED segment
         \/ /\ Taken(i) /\ mapped
            /\ box' = [box EXCEPT ![link] = req.content]
            /\ autoris_diff' = [autoris_diff EXCEPT ![link] = @ + 1]
            /\ up' = up
  /\ i' = i + 1
  /\ UNCHANGED <<stock, srv, tab, nb_connect, fds, client>>

EndDiffuse ==
  /\ srv = "diffuse" /\ i = MaxTab
  /\ srv' = "collect" /\ i' = 0
  /\ UNCHANGED <<stock, up, tab, nb_connect, fds, client, segment>>

\* one sem_wait(fin_diffusion)
Collect ==
  /\ srv = "collect" /\ i < nb_connect
  /\ P("fin_diffusion")
  /\ i' = i + 1
  /\ UNCHANGED <<up, srv, req, tab, nb_connect, fds, client, segment>>

\* faults: the second loop of diffusion ends one turn early, one turn late
EndCollect_early ==
  /\ srv = "collect" /\ i + 1 >= nb_connect
  /\ srv' = "release"
  /\ UNCHANGED <<stock, up, tab, nb_connect, i, fds, client, segment>>
EndCollect_late ==
  /\ srv = "collect" /\ i > nb_connect
  /\ srv' = "release"
  /\ UNCHANGED <<stock, up, tab, nb_connect, i, fds, client, segment>>

EndCollect ==
  /\ srv = "collect" /\ i >= nb_connect
  /\ srv' = "release"
  /\ UNCHANGED <<stock, up, tab, nb_connect, i, fds, client, segment>>

\* fault: any client matches the name
Named_any(n) == {k \in Slots : Taken(k)}
Named(n) == {k \in Slots : tab[k].name = n}

\* faults: the client is still counted, or its name stays in the table
FreeSlot_counted(k) == tab' = [tab EXCEPT ![k] = Empty] /\ nb_connect' = nb_connect
FreeSlot_named(k) ==
  tab' = [tab EXCEPT ![k].link = None] /\ nb_connect' = nb_connect - 1
FreeSlot(k) == tab' = [tab EXCEPT ![k] = Empty] /\ nb_connect' = nb_connect - 1

\* an unknown client is not answered; the descriptor is never closed
Deconnexion ==
  /\ Serve(2, "release")
  /\ LET same == Named(req.content)
     IN  IF same = {} THEN UNCHANGED <<sem, tab, nb_connect>>
         ELSE V("deco_sem") /\ FreeSlot(First(same))
  /\ UNCHANGED <<req, up, i, fds, client, segment>>

\* fault: poster_message is not posted, as on the path of an unknown request
Release_missing ==
  /\ srv = "release" /\ srv' = "wait"
  /\ UNCHANGED <<stock, up, tab, nb_connect, i, fds, client, segment>>

Release ==
  /\ srv = "release" /\ srv' = "wait"
  /\ V("poster_message")
  /\ UNCHANGED <<req, up, tab, nb_connect, i, fds, client, segment>>

\* SIGINT: the segment is unlinked, the clients keep their mapping
ServerQuit ==
  /\ ServerStops
  /\ up = "up" /\ up' = "stopped"
  /\ UNCHANGED <<stock, srv, tab, nb_connect, i, fds, client, segment>>
-----------------------------------------------------------------------------
Server ==
  /\ up = "up"
  /\ \/ TakeRequest \/ Connexion \/ BeginDiffusion \/ DiffuseSlot
     \/ EndDiffuse \/ Collect \/ EndCollect \/ Deconnexion \/ Release

Process(p) == Acquire(p) \/ Submit(p) \/ TakeSignal(p) \/ Exit(p)
Session(s) == \/ Verify(s) \/ Create(s) \/ Truncate(s) \/ InitSegment(s)
              \/ Fork(s) \/ InstallHandler(s) \/ Await(s) \/ Show(s)
User(s) == Start(s) \/ TypeLine(s) \/ Interrupt(s)

Next == \/ Server \/ ServerQuit
        \/ \E s \in Sessions : Session(s) \/ User(s)
        \/ \E p \in Procs : Process(p) \/ WaitDeco(p)

Spec == Init /\ [][Next]_vars

(* Processes run and poster_message is not refused for ever to the same    *)
(* process.  The user owes nothing.  WaitDeco has no fairness: deco_sem    *)
(* was never passed to sem_init, and a waiter may not be woken.  For the   *)
(* same reason a session has it only while it shares its segment with no   *)
(* other: the second sem_init of autoris_diff forgets who waits on it.     *)
Alone(s) == requete[s] # None => \A t \in Sessions \ {s} : requete[t] # requete[s]
Fairness ==
  /\ WF_vars(Server)
  /\ \A s \in Sessions : WF_vars(Alone(s) /\ Session(s))
  /\ \A p \in Procs : WF_vars(Process(p)) /\ SF_vars(Acquire(p))

FairSpec == Spec /\ Fairness
-----------------------------------------------------------------------------
Entry == {"verify", "create", "truncate", "init", "connect"}

(* The type invariant. *)
TypeOK ==
  /\ sem \in [Semaphores -> Nat]
  /\ req \in [type : 0 .. 2, content : Contents]
  /\ shm \in [Names -> Sessions \cup {None}]
  /\ requete \in [Sessions -> Sessions \cup {None}]
  /\ autoris_diff \in [Sessions -> Nat \cup {Unsized}]
  /\ box \in [Sessions -> Contents]
  /\ up \in {"up", "stopped", "crashed"}
  /\ srv \in {"wait", "serve", "diffuse", "collect", "release"}
  /\ tab \in [Slots -> [name : Contents, link : Sessions \cup {None}]]
  /\ nb_connect \in Int /\ i \in Nat /\ fds \in 0 .. MaxFd
  /\ pc \in [Procs -> Entry \cup {"off", "refused", "connecting", "fork", "install",
                       "await", "show", "read", "post", "posting"} \cup InHandler]
  /\ lines \in [Sessions -> 0 .. MaxLines]
  /\ pending \subseteq Procs /\ armed \subseteq Quitters
  /\ shown \in [Sessions -> Seq(Contents)]

Busy == srv # "wait"
Holders == {p \in Procs : pc[p] \in Writing \cup {"keep"}}

(* poster_message and prevenir_server pass one token around: it is in one  *)
(* of the semaphores, with one process, or with the server, and never in   *)
(* two places, whatever is interrupted.                                    *)
OneToken ==
  /\ sem["poster_message"] + sem["prevenir_server"] <= 1
  /\ Holders # {} \/ Busy => sem["poster_message"] + sem["prevenir_server"] = 0
  /\ Holders # {} => ~ Busy
  /\ \A p, q \in Holders : p = q

(* While the server works on a request nobody overwrites it. *)
RequestStable == [][Busy /\ Busy' => req' = req]_vars

Members == {tab[k].link : k \in Slots} \ {None}

\* two sessions have the name
Shared(n) == \E s, t \in Sessions : s # t /\ NameOf[s] = n /\ NameOf[t] = n
\* the processes of its sessions that have run handler to its end, which
\* unlinks the segment; those that are in it or have left by it
Unlinkers(n) == {p \in Procs : NameOf[p[1]] = n /\ pc[p] = "gone"}
Leavers(n) == {p \in Procs : NameOf[p[1]] = n /\ pc[p] \in InHandler}

(* A slot named without a segment, which crashes diffusion, is there only  *)
(* because the server has no descriptor left, or because two sessions have *)
(* that name and one of them has unlinked the segment, the other's or one  *)
(* that both have opened, before the connection was served.                *)
NullSlots == \A k \in Slots : Taken(k) /\ tab[k].link = None =>
  fds = MaxFd \/ (Shared(tab[k].name) /\ Unlinkers(tab[k].name) # {})

(* nb_connect, the number of answers diffusion waits for, is the number of *)
(* segments it writes to.  Were it larger, the server would wait for an    *)
(* answer nobody sends; it is smaller, and an answer is left over for the  *)
(* next broadcast, only if a slot without a segment was freed: a second    *)
(* process of that name has then asked to leave after the one that has     *)
(* unlinked the segment.                                                   *)
CountedSlots == LET linked == Cardinality({k \in Slots : tab[k].link # None}) IN
  /\ nb_connect <= linked
  /\ nb_connect < linked => fds = MaxFd \/ \E n \in Names :
       Shared(n) /\ \E p \in Unlinkers(n) : Leavers(n) \ {p} # {}

(* Where names tell the sessions apart, the server implements the abstract *)
(* room, Ctrl-C included: a broadcast ends only when every member has      *)
(* displayed it once, from the content of that broadcast and not of        *)
(* another one.                                                            *)
Room == INSTANCE ChatRoom
  WITH Messages <- Lines,
       members <- Members,
       current <- IF srv \in {"diffuse", "collect"} THEN req.content ELSE None,
       pending <- IF srv \in {"diffuse", "collect"}
                  THEN {s \in Members : \A n \in DOMAIN shown[s] : shown[s][n] # req.content}
                  ELSE {}
ImplementsRoom == Room!Spec

(* While nobody leaves every line that is typed is displayed by the client *)
(* it was typed on, and so by everyone: ImplementsRoom ends no broadcast   *)
(* before.                                                                 *)
EveryLineEchoed == \A m \in Lines :
  (lines[m[1]] >= m[2]) ~> \/ \E n \in DOMAIN shown[m[1]] : shown[m[1]][n] = m
                           \/ pending # {} \/ \E p \in Procs : pc[p] \in InHandler

(* Nothing but a member that is leaving, its display process interrupted   *)
(* or never forked but its slot still taken, keeps the server waiting for  *)
(* fin_diffusion.                                                          *)
OnlyLeaversBlock ==
  (srv = "collect") ~> \/ srv # "collect"
                       \/ \E s \in Members : pc[<<s, "out">>] \in InHandler

(* A member leaves the room only after one of its own processes asked to:  *)
(* deconnexion looks clients up by name, and does not know the session.    *)
OnlyLeaversLeave == [][\A s \in Members :
  s \notin Members' => \E p \in {s} \X {"in", "out"} : pc[p] \in InHandler]_vars

(* A request the server is told of is a line, or names a client. *)
RequestFormed == sem["prevenir_server"] > 0 \/ Busy =>
                   req.content \in IF req.type = 1 THEN Lines ELSE Names

HasTyped == \A p \in Procs : pc[p] \in {"post", "posting"} => lines[p[1]] > 0

\* a session without a segment has not got to its creation, or ends
Opened == \A s \in Sessions : requete[s] = None =>
            pc[<<s, "out">>] \in {"off", "verify", "create", "refused"} \cup InHandler

(* The inductive invariant of the proofs. *)
IInv == TypeOK /\ OneToken /\ RequestFormed /\ HasTyped /\ Opened

(* What the table of the server owes to the segments of the sessions, for  *)
(* the induction.  A name is Usurped once another session of that name has *)
(* run handler to its end: only then may the segment be gone before the    *)
(* connection of a session is served.                                      *)
Usurped(n) == Shared(n) /\ Unlinkers(n) # {}
Null(k) == Taken(k) /\ tab[k].link = None

Roles == \A s \in Sessions :
  /\ pc[<<s, "in">>] \in {"off", "read", "post", "posting"} \cup InHandler
  /\ pc[<<s, "out">>] \in Entry \cup {"off", "refused", "connecting", "fork", "install",
                                      "await", "show"} \cup InHandler
  /\ pc[<<s, "out">>] \in Entry \cup {"off", "refused", "connecting", "fork"}
       => pc[<<s, "in">>] = "off"
NotOff == \A p \in pending : pc[p] # "off"

\* segments and slots carry the name of the session they belong to
NamesKept ==
  /\ \A n \in Names : shm[n] # None => NameOf[shm[n]] = n
  /\ \A s \in Sessions : requete[s] # None => NameOf[requete[s]] = NameOf[s]
  /\ \A k \in Slots : /\ tab[k].name \in Names \cup {None}
                      /\ tab[k].link # None => tab[k].name = NameOf[tab[k].link]

\* a session that asks for its slot finds a segment, or the name is Usurped
Found(n) == shm[n] # None \/ Usurped(n)
Joining == \A s \in Sessions :
  pc[<<s, "out">>] \in {"truncate", "init", "connect", "connecting"} => Found(NameOf[s])

\* the request the server has been told of and has not served yet
Told == sem["prevenir_server"] > 0 \/ srv = "serve"
JoinTold == Told /\ req.type = 0 => \E s \in Sessions :
  /\ NameOf[s] = req.content
  /\ \A p \in {s} \X {"in", "out"} : pc[p] \notin {"deco", "bye"}
  /\ Found(req.content)
LeaveTold == Told /\ req.type = 2 => \E p \in Leavers(req.content) :
  \A k \in Slots : Null(k) /\ tab[k].name = req.content =>
    fds = MaxFd \/ (Shared(req.content) /\ Unlinkers(req.content) \ {p} # {})

TableInv == /\ Roles /\ NotOff /\ NamesKept /\ Joining
            /\ JoinTold /\ LeaveTold /\ NullSlots /\ CountedSlots

(* The names of the clients tell the sessions apart. *)
DistinctNames == \A s, t \in Sessions : NameOf[s] = NameOf[t] => s = t

(* The invariant of the refinement, as long as the names are distinct and  *)
(* the server can open the segments.  A session has one slot at most, and  *)
(* asks for it once; no line is sent twice; a member that the broadcast    *)
(* has reached either has its token, in autoris_diff or in its hands, or   *)
(* has displayed the line; and the server has as many answers, collected   *)
(* or waiting, as members have displayed it.                               *)
Broadcasting == srv \in {"diffuse", "collect"}
Shown(s, m) == \E n \in DOMAIN shown[s] : shown[s][n] = m
Reached == {tab[k].link : k \in {j \in Slots : \/ srv = "diffuse" /\ j < i
                                               \/ srv = "collect"}} \ {None}
Displayed == {s \in Reached : Shown(s, req.content)}
Sent(m) == /\ m \in Lines /\ m[2] <= lines[m[1]]
           /\ m[2] = lines[m[1]] => pc[<<m[1], "in">>] \notin {"post", "posting"}

Entering(s) == Told /\ req.type = 0 /\ req.content = NameOf[s]
Asking(s) == s \in Members \/ Entering(s)
Mapped == \A s \in Sessions :
  /\ requete[s] \in {s, None}
  /\ pc[<<s, "out">>] \in {"init", "connect", "connecting"} => autoris_diff[s] # Unsized
OneSlot ==
  /\ \A j, k \in Slots : tab[j].link = tab[k].link /\ tab[k].link # None => j = k
  /\ \A s \in Sessions :
       /\ ~ (s \in Members /\ Entering(s))
       /\ Asking(s) => /\ pc[<<s, "out">>] \notin Entry \cup {"off", "refused", "connecting"}
                       /\ autoris_diff[s] # Unsized
SentOnce ==
  /\ \A s \in Sessions : \A n \in DOMAIN shown[s] : Sent(shown[s][n])
  /\ (Told /\ req.type = 1) \/ Broadcasting => req.type = 1 /\ Sent(req.content)
  /\ Told /\ req.type = 1 => \A s \in Sessions : ~ Shown(s, req.content)
Tokens == \A s \in Sessions :
  /\ s \in Reached \ Displayed => /\ box[s] = req.content /\ autoris_diff[s] <= 1
                                  /\ pc[<<s, "out">>] = "show" => autoris_diff[s] = 0
  /\ s \notin Reached \ Displayed => autoris_diff[s] <= 0 /\ pc[<<s, "out">>] # "show"
  /\ Broadcasting /\ Shown(s, req.content) => s \in Reached
AnswersCounted ==
  /\ srv = "diffuse" => i <= MaxTab
  /\ srv = "collect" => i <= nb_connect
  /\ sem["fin_diffusion"] + (IF srv = "collect" THEN i ELSE 0) = Cardinality(Displayed)
RoomInv == Mapped /\ OneSlot /\ SentOnce /\ Tokens /\ AnswersCounted

(* A refused connection leaves the server running, as it announces itself  *)
(* on skipShare.c line 211.                                                *)
ServerSurvives == up # "crashed"
=============================================================================
