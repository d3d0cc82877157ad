--------------------------- MODULE SkipChat_proofs ---------------------------
(* Proofs about SkipChat, for any number of clients, sessions of the same  *)
(* name, interruptions, and any size of the table.                         *)
EXTENDS SkipChat, FiniteSetTheorems, TLAPS

LEMMA InitIInv == Init => IInv
<1> SUFFICES ASSUME Init PROVE IInv
    OBVIOUS
<1> USE SessionAssumption, NameAssumption, BoundAssumption DEF Init
<1>1. TypeOK
  BY DEF TypeOK, Semaphores, Contents, Names, Lines, Slots, Procs, Empty, Entry
<1>2. Holders = {} /\ ~ Busy
  BY DEF Holders, Busy, Writing, Procs
<1>3. OneToken /\ RequestFormed /\ HasTyped /\ Opened
  BY <1>2 DEF OneToken, RequestFormed, Semaphores, HasTyped, Opened, Procs
<1> QED BY <1>1, <1>3 DEF IInv

(* A step that moves neither the token's semaphores, nor the server in or  *)
(* out of its work, nor a process into Holders, keeps the token in place.  *)
LEMMA TokenUntouched ==
  ASSUME TypeOK, OneToken, RequestFormed,
         sem'["poster_message"] = sem["poster_message"],
         sem'["prevenir_server"] = sem["prevenir_server"],
         Busy' <=> Busy, req' = req,
         \A p \in Procs : pc'[p] \in Writing \cup {"keep"}
                            => pc[p] \in Writing \cup {"keep"}
  PROVE  OneToken' /\ RequestFormed'
<1>1. Holders' \subseteq Holders
  BY DEF Holders
<1> QED BY <1>1 DEF OneToken, RequestFormed

(* Semaphore operations. *)
LEMMA Posted ==
  ASSUME TypeOK, NEW x \in Semaphores, V(x)
  PROVE  /\ sem' \in [Semaphores -> Nat]
         /\ sem'[x] = sem[x] + 1
         /\ \A y \in Semaphores \ {x} : sem'[y] = sem[y]
BY DEF TypeOK, V

LEMMA Waited ==
  ASSUME TypeOK, NEW x \in Semaphores, P(x)
  PROVE  /\ sem' \in [Semaphores -> Nat]
         /\ sem[x] > 0 /\ sem'[x] = sem[x] - 1
         /\ \A y \in Semaphores \ {x} : sem'[y] = sem[y]
BY DEF TypeOK, P

LEMMA ClientStep ==
  ASSUME IInv, NEW s \in Sessions, Session(s) \/ User(s)
  PROVE  IInv'
<1> USE SessionAssumption, NameAssumption, BoundAssumption
<1>0. TypeOK /\ OneToken /\ RequestFormed /\ HasTyped /\ Opened
  BY DEF IInv
<1>p. <<s, "in">> \in Procs /\ <<s, "out">> \in Procs /\ <<s, "in">> # <<s, "out">>
      /\ (\A t \in Sessions : <<t, "out">> \in Procs /\ <<t, "out">> # <<s, "in">>)
      /\ \A p \in Procs : p[1] \in Sessions /\ p = <<p[1], p[2]>>
  BY DEF Procs
<1>1. CASE Start(s) \/ Verify(s)
  <2>1. pc[<<s, "out">>] \in {"off", "verify"} /\ \E to \in {"refused", "verify", "create"} :
          pc' = [pc EXCEPT ![<<s, "out">>] = to]
    BY <1>1 DEF Start, Verify, Goto
  <2>2. sem' = sem /\ req' = req /\ (Busy' <=> Busy) /\ lines' = lines /\ requete' = requete
    BY <1>1 DEF Start, Verify, stock, server, user, Busy
  <2>3. TypeOK'
    BY <1>0, <1>1, <1>p, <2>1 DEF Start, Verify, TypeOK, Entry, stock, server, segment, user
  <2>4. OneToken' /\ RequestFormed'
    BY <1>0, <1>p, <2>1, <2>2, TokenUntouched DEF TypeOK, Writing
  <2>5. HasTyped' /\ Opened'
    BY <1>0, <1>p, <2>1, <2>2 DEF HasTyped, Opened, TypeOK
  <2> QED BY <2>3, <2>4, <2>5 DEF IInv
<1>2. CASE Create(s)
  <2>1. pc' = [pc EXCEPT ![<<s, "out">>] = "truncate"]
        /\ shm' = [shm EXCEPT ![NameOf[s]] = IF @ = None THEN s ELSE @]
        /\ requete' = [requete EXCEPT ![s] = shm'[NameOf[s]]]
    BY <1>2 DEF Create, Goto
  <2>2. sem' = sem /\ req' = req /\ (Busy' <=> Busy) /\ lines' = lines
    BY <1>2 DEF Create, stock, server, user, Busy
  <2>3. /\ shm' \in [Names -> Sessions \cup {None}]
        /\ shm'[NameOf[s]] \in Sessions
    BY <1>0, <2>1 DEF TypeOK, Names
  <2>4. requete' \in [Sessions -> Sessions \cup {None}] /\ requete'[s] # None
        /\ \A t \in Sessions \ {s} : requete'[t] = requete[t]
    BY <1>0, <2>1, <2>3 DEF TypeOK
  <2>5. TypeOK'
    BY <1>0, <1>2, <1>p, <2>1, <2>3, <2>4
    DEF Create, TypeOK, Entry, stock, server, segment, user
  <2>6. OneToken' /\ RequestFormed'
    BY <1>0, <1>p, <2>1, <2>2, TokenUntouched DEF TypeOK, Writing
  <2>7. HasTyped'
    BY <1>0, <1>p, <2>1, <2>2 DEF HasTyped, TypeOK
  <2>8. Opened'
    BY <1>0, <1>p, <2>1, <2>4 DEF Opened, TypeOK
  <2> QED BY <2>5, <2>6, <2>7, <2>8 DEF IInv
<1>3. CASE Truncate(s) \/ InitSegment(s)
  <2>1. pc[<<s, "out">>] \in {"truncate", "init"} /\ \E to \in {"init", "connect"} :
          pc' = [pc EXCEPT ![<<s, "out">>] = to]
    BY <1>3 DEF Truncate, InitSegment, Goto
  <2>2. sem' = sem /\ req' = req /\ (Busy' <=> Busy) /\ lines' = lines /\ requete' = requete
    BY <1>3 DEF Truncate, InitSegment, stock, server, user, Busy
  <2>r. requete[s] \in Sessions
    BY <1>0, <1>p, <2>1 DEF TypeOK, Opened, InHandler
  <2>a. \E n \in Nat \cup {Unsized} : autoris_diff' = [autoris_diff EXCEPT ![requete[s]] = n]
    <3>1. CASE Truncate(s)
      <4>1. (IF autoris_diff[requete[s]] = Unsized THEN 0 ELSE autoris_diff[requete[s]])
              \in Nat \cup {Unsized}
        BY <1>0, <2>r DEF TypeOK
      <4> QED BY <3>1, <4>1 DEF Truncate
    <3>2. CASE InitSegment(s) BY <3>2 DEF InitSegment
    <3> QED BY <1>3, <3>1, <3>2
  <2>3. autoris_diff' \in [Sessions -> Nat \cup {Unsized}]
    BY <1>0, <2>r, <2>a DEF TypeOK
  <2>4. TypeOK'
    BY <1>0, <1>3, <1>p, <2>1, <2>3
    DEF Truncate, InitSegment, TypeOK, Entry, stock, server, user
  <2>5. OneToken' /\ RequestFormed'
    BY <1>0, <1>p, <2>1, <2>2, TokenUntouched DEF TypeOK, Writing
  <2>6. HasTyped' /\ Opened'
    BY <1>0, <1>p, <2>1, <2>2 DEF HasTyped, Opened, TypeOK, InHandler
  <2> QED BY <2>4, <2>5, <2>6 DEF IInv
<1>4. CASE Fork(s)
  <2>1. sem' = sem /\ req' = req /\ (Busy' <=> Busy) /\ lines' = lines /\ requete' = requete
    BY <1>4 DEF Fork, stock, server, user, Busy
  <2>2. /\ pc' \in [Procs -> Entry \cup {"off", "refused", "connecting", "fork", "install",
                       "await", "show", "read", "post", "posting"} \cup InHandler]
        /\ \A p \in Procs : pc'[p] = pc[p] \/ pc'[p] \in {"install", "read", "quit"}
        /\ \A t \in Sessions \ {s} : pc'[<<t, "out">>] = pc[<<t, "out">>]
        /\ pc[<<s, "out">>] = "fork"
    <3>1. \A t \in Sessions \ {s} : <<t, "out">> # <<s, "out">> /\ <<t, "out">> # <<s, "in">>
      OBVIOUS
    <3>2. CASE pc' = [pc EXCEPT ![<<s, "out">>] = "install", ![<<s, "in">>] = "read"]
      BY <1>0, <1>4, <1>p, <3>1, <3>2 DEF Fork, TypeOK
    <3>3. CASE pc' = [pc EXCEPT ![<<s, "out">>] = "quit"]
      BY <1>0, <1>4, <1>p, <3>1, <3>3 DEF Fork, TypeOK, InHandler
    <3> QED BY <1>4, <3>2, <3>3 DEF Fork
  <2>3. TypeOK'
    BY <1>0, <1>4, <2>2 DEF Fork, TypeOK, stock, server, segment, user
  <2>4. OneToken' /\ RequestFormed'
    BY <1>0, <2>1, <2>2, TokenUntouched DEF Writing
  <2>5. HasTyped'
    BY <1>0, <1>p, <2>1, <2>2 DEF HasTyped
  <2>6. Opened'
    BY <1>0, <2>1, <2>2 DEF Opened, InHandler
  <2> QED BY <2>3, <2>4, <2>5, <2>6 DEF IInv
<1>5. CASE InstallHandler(s)
  <2>1. pc' = [pc EXCEPT ![<<s, "out">>] = "await"] /\ pc[<<s, "out">>] = "install"
    BY <1>5 DEF InstallHandler, Goto
  <2>2. sem' = sem /\ req' = req /\ (Busy' <=> Busy) /\ lines' = lines /\ requete' = requete
    BY <1>5 DEF InstallHandler, stock, server, user, Busy
  <2>3. TypeOK'
    BY <1>0, <1>5, <2>1 DEF InstallHandler, TypeOK, stock, server, segment, user
  <2>4. OneToken' /\ RequestFormed'
    BY <1>0, <2>1, <2>2, TokenUntouched DEF TypeOK, Writing
  <2>5. HasTyped' /\ Opened'
    BY <1>0, <1>p, <2>1, <2>2 DEF HasTyped, Opened, TypeOK, InHandler
  <2> QED BY <2>3, <2>4, <2>5 DEF IInv
<1>6. CASE TypeLine(s)
  <2>1. pc' = [pc EXCEPT ![<<s, "in">>] = "post"] /\ lines' = [lines EXCEPT ![s] = @ + 1]
        /\ lines[s] < MaxLines
    BY <1>6 DEF TypeLine, Goto
  <2>2. sem' = sem /\ req' = req /\ (Busy' <=> Busy) /\ requete' = requete
    BY <1>6 DEF TypeLine, stock, server, Busy
  <2>3. lines' \in [Sessions -> 0 .. MaxLines]
    BY <1>0, <2>1 DEF TypeOK
  <2>4. TypeOK'
    BY <1>0, <1>6, <2>1, <2>3 DEF TypeLine, TypeOK, stock, server, segment
  <2>5. OneToken' /\ RequestFormed'
    BY <1>0, <2>1, <2>2, TokenUntouched DEF TypeOK, Writing
  <2>6. HasTyped' /\ Opened'
    BY <1>0, <1>p, <2>1, <2>2, <2>3 DEF HasTyped, Opened, TypeOK
  <2> QED BY <2>4, <2>5, <2>6 DEF IInv
<1>7. CASE Await(s)
  <2>1. pc' = [pc EXCEPT ![<<s, "out">>] = "show"] /\ pc[<<s, "out">>] = "await"
        /\ autoris_diff[requete[s]] > 0
        /\ autoris_diff' = [autoris_diff EXCEPT ![requete[s]] = @ - 1]
    BY <1>7 DEF Await, Goto
  <2>2. sem' = sem /\ req' = req /\ (Busy' <=> Busy) /\ lines' = lines /\ requete' = requete
    BY <1>7 DEF Await, stock, server, user, Busy
  <2>3. requete[s] \in Sessions
    BY <1>0, <2>1 DEF TypeOK, Opened, InHandler
  <2>4. autoris_diff' \in [Sessions -> Nat \cup {Unsized}]
    <3>1. autoris_diff[requete[s]] \in Nat /\ autoris_diff[requete[s]] - 1 \in Nat
      BY <1>0, <2>1, <2>3 DEF TypeOK, Unsized
    <3>2. PICK n \in Nat : autoris_diff' = [autoris_diff EXCEPT ![requete[s]] = n]
      BY <2>1, <3>1
    <3> QED BY <1>0, <2>3, <3>2 DEF TypeOK
  <2>5. TypeOK'
    BY <1>0, <1>7, <2>1, <2>4 DEF Await, TypeOK, stock, server, user
  <2>6. OneToken' /\ RequestFormed'
    BY <1>0, <2>1, <2>2, TokenUntouched DEF TypeOK, Writing
  <2>7. HasTyped' /\ Opened'
    BY <1>0, <1>p, <2>1, <2>2 DEF HasTyped, Opened, TypeOK, InHandler
  <2> QED BY <2>5, <2>6, <2>7 DEF IInv
<1>8. CASE Show(s)
  <2>1. pc' = [pc EXCEPT ![<<s, "out">>] = "await"] /\ pc[<<s, "out">>] = "show"
        /\ shown' = [shown EXCEPT ![s] = Append(shown[s], box[requete[s]])]
    BY <1>8 DEF Show, Goto
  <2>2. req' = req /\ (Busy' <=> Busy) /\ lines' = lines /\ requete' = requete
    BY <1>8 DEF Show, server, Busy
  <2>3. /\ sem' \in [Semaphores -> Nat]
        /\ sem'["poster_message"] = sem["poster_message"]
        /\ sem'["prevenir_server"] = sem["prevenir_server"]
    BY <1>0, <1>8, Posted DEF Show, Semaphores
  <2>4. shown' \in [Sessions -> Seq(Contents)]
    <3>1. requete[s] \in Sessions
      BY <1>0, <2>1 DEF TypeOK, Opened, InHandler
    <3>2. Append(shown[s], box[requete[s]]) \in Seq(Contents) BY <1>0, <3>1 DEF TypeOK
    <3> QED BY <1>0, <2>1, <3>2 DEF TypeOK
  <2>5. TypeOK'
    BY <1>0, <1>8, <2>1, <2>3, <2>4 DEF Show, TypeOK, server, segment
  <2>6. OneToken' /\ RequestFormed'
    BY <1>0, <2>1, <2>2, <2>3, TokenUntouched DEF TypeOK, Writing
  <2>7. HasTyped' /\ Opened'
    BY <1>0, <1>p, <2>1, <2>2 DEF HasTyped, Opened, TypeOK, InHandler
  <2> QED BY <2>5, <2>6, <2>7 DEF IInv
<1>9. CASE Interrupt(s)
  <2>1. pc' = pc /\ sem' = sem /\ req' = req /\ (Busy' <=> Busy) /\ lines' = lines
        /\ requete' = requete
    BY <1>9 DEF Interrupt, stock, server, Busy
  <2>2. TypeOK'
    <3>1. pending' \subseteq Procs /\ armed' \subseteq Quitters
      BY <1>0, <1>9 DEF Interrupt, TypeOK, Procs
    <3> QED BY <1>0, <1>9, <3>1 DEF Interrupt, TypeOK, stock, server, segment
  <2>3. OneToken' /\ RequestFormed'
    BY <1>0, <2>1, TokenUntouched
  <2>4. HasTyped' /\ Opened' BY <1>0, <2>1 DEF HasTyped, Opened
  <2> QED BY <2>2, <2>3, <2>4 DEF IInv
<1> QED BY <1>1, <1>2, <1>3, <1>4, <1>5, <1>6, <1>7, <1>8, <1>9 DEF Session, User

LEMMA ProcessStep ==
  ASSUME IInv, NEW p \in Procs,
         Acquire(p) \/ Submit(p) \/ TakeSignal(p) \/ WaitDeco(p) \/ Exit(p)
  PROVE  IInv'
<1> USE SessionAssumption, NameAssumption, BoundAssumption
<1>0. TypeOK /\ OneToken /\ RequestFormed /\ HasTyped /\ Opened
  BY DEF IInv
<1>p. /\ \A q \in Procs : q[1] \in Sessions
      /\ \A t \in Sessions : <<t, "out">> \in Procs
  BY DEF Procs
<1>1. CASE Acquire(p)
  <2>1. pc' = [pc EXCEPT ![p] = CASE pc[p] = "connect" -> "connecting"
                               [] pc[p] = "post" -> "posting"
                               [] OTHER -> "quitting"]
        /\ pc[p] \in Wanting /\ P("poster_message")
    BY <1>1 DEF Acquire
  <2>2. req' = req /\ (Busy' <=> Busy) /\ lines' = lines /\ requete' = requete
    BY <1>1 DEF Acquire, server, user, Busy
  <2>3. /\ sem' \in [Semaphores -> Nat]
        /\ sem["poster_message"] > 0
        /\ sem'["poster_message"] = sem["poster_message"] - 1
        /\ sem'["prevenir_server"] = sem["prevenir_server"]
    BY <1>0, <2>1, Waited DEF Semaphores
  <2>4. /\ sem["poster_message"] = 1 /\ sem["prevenir_server"] = 0
        /\ Holders = {} /\ ~ Busy
    BY <1>0, <2>3 DEF OneToken, TypeOK, Semaphores
  <2>5. pc'[p] \in Writing /\ \A q \in Procs \ {p} : pc'[q] = pc[q]
    BY <1>0, <2>1 DEF TypeOK, Writing
  <2>6. Holders' = {p}
    BY <2>4, <2>5 DEF Holders
  <2>7. TypeOK'
    BY <1>0, <1>1, <2>1, <2>3 DEF Acquire, TypeOK, server, segment, user, Entry, InHandler
  <2>8. OneToken' /\ RequestFormed'
    BY <2>2, <2>3, <2>4, <2>6 DEF OneToken, RequestFormed
  <2>9. HasTyped' /\ Opened'
    BY <1>0, <1>p, <2>1, <2>2 DEF HasTyped, Opened, TypeOK, InHandler
  <2> QED BY <2>7, <2>8, <2>9 DEF IInv
<1>2. CASE Submit(p)
  <2> DEFINE s == p[1]
  <2>1. pc' = [pc EXCEPT ![p] = CASE pc[p] = "connecting" -> "fork"
                               [] pc[p] = "posting" -> "read"
                               [] pc[p] = "quitting" -> "deco"]
        /\ pc[p] \in Writing /\ V("prevenir_server")
    BY <1>2 DEF Submit
  <2>2. (Busy' <=> Busy) /\ lines' = lines /\ requete' = requete
    BY <1>2 DEF Submit, server, user, Busy
  <2>3. p \in Holders
    BY <2>1 DEF Holders
  <2>4. sem["poster_message"] = 0 /\ sem["prevenir_server"] = 0 /\ ~ Busy /\ Holders = {p}
    BY <1>0, <2>3 DEF OneToken, TypeOK, Semaphores
  <2>5. /\ sem' \in [Semaphores -> Nat]
        /\ sem'["poster_message"] = 0
        /\ sem'["prevenir_server"] = 1
    BY <1>0, <2>1, <2>4, Posted DEF Semaphores
  <2>6. pc'[p] \in {"fork", "read", "deco"} /\ \A q \in Procs \ {p} : pc'[q] = pc[q]
    BY <1>0, <2>1 DEF TypeOK, Writing
  <2>7. Holders' = {}
    BY <2>4, <2>6 DEF Holders, Writing
  <2>8. req' \in [type : 0 .. 2, content : Contents]
        /\ req'.content \in IF req'.type = 1 THEN Lines ELSE Names
    <3>1. s \in Sessions /\ NameOf[s] \in Names
      BY <1>p DEF Names
    <3>2. CASE pc[p] = "connecting"
      BY <1>2, <3>1, <3>2 DEF Submit, Contents
    <3>3. CASE pc[p] = "quitting"
      BY <1>2, <3>1, <3>3 DEF Submit, Contents
    <3>4. CASE pc[p] = "posting"
      <4>1. lines[s] \in 1 .. MaxLines
        BY <1>0, <3>1, <3>4 DEF HasTyped, Opened, TypeOK, InHandler
      <4>2. req' = [type |-> 1, content |-> <<s, lines[s]>>]
        BY <1>2, <3>4 DEF Submit
      <4> QED BY <3>1, <4>1, <4>2 DEF Lines, Contents
    <3> QED BY <2>1, <3>2, <3>3, <3>4 DEF Writing
  <2>9. TypeOK'
    BY <1>0, <1>2, <2>1, <2>5, <2>8 DEF Submit, TypeOK, server, segment, user, Entry, InHandler, Writing
  <2>10. OneToken' /\ RequestFormed'
    BY <2>2, <2>4, <2>5, <2>7, <2>8 DEF OneToken, RequestFormed
  <2>11. HasTyped' /\ Opened'
    <3>1. HasTyped' BY <1>0, <2>2, <2>6 DEF HasTyped
    <3>2. pc[p] \notin {"off", "verify", "create", "refused"}
          /\ (pc[p] \in InHandler => pc'[p] \in InHandler)
      BY <1>0, <2>1 DEF Writing, InHandler, TypeOK
    <3>3. Opened' BY <1>0, <1>p, <2>2, <2>6, <3>2 DEF Opened
    <3> QED BY <3>1, <3>3
  <2> QED BY <2>9, <2>10, <2>11 DEF IInv
<1>3. CASE TakeSignal(p)
  <2>1. pending' \subseteq pending
        /\ \E q \in Interrupted(pc[p]) : pc' = [pc EXCEPT ![p] = q]
    BY <1>3 DEF TakeSignal, Goto
  <2>a. PICK to \in Interrupted(pc[p]) : pc' = [pc EXCEPT ![p] = to]
    BY <2>1
  <2>b. /\ to \in InHandler \cup {"refused"}
        /\ to = "keep" => pc[p] \in Writing \cup {"keep"}
        /\ to = "refused" => pc[p] = "refused"
        /\ to \notin Writing
    BY <2>a DEF Interrupted, InHandler, Ended, Writing
  <2>2. sem' = sem /\ req' = req /\ (Busy' <=> Busy) /\ lines' = lines /\ requete' = requete
    BY <1>3 DEF TakeSignal, stock, server, user, Busy
  <2>3. TypeOK'
    BY <1>0, <1>3, <2>1, <2>a, <2>b DEF TakeSignal, TypeOK, stock, server, segment, user, Entry, InHandler
  <2>4. \A q \in Procs : pc'[q] \in Writing \cup {"keep"} => pc[q] \in Writing \cup {"keep"}
    BY <1>0, <2>a, <2>b DEF TypeOK
  <2>5. OneToken' /\ RequestFormed'
    BY <1>0, <2>2, <2>4, TokenUntouched
  <2>6. HasTyped' /\ Opened'
    BY <1>0, <1>p, <2>2, <2>a, <2>b DEF HasTyped, Opened, TypeOK, InHandler
  <2> QED BY <2>3, <2>5, <2>6 DEF IInv
<1>4. CASE WaitDeco(p)
  <2>1. pc' = [pc EXCEPT ![p] = "bye"]
    BY <1>4 DEF WaitDeco, Goto
  <2>2. req' = req /\ (Busy' <=> Busy) /\ lines' = lines /\ requete' = requete
    BY <1>4 DEF WaitDeco, server, user, Busy
  <2>3. /\ sem' \in [Semaphores -> Nat]
        /\ sem'["poster_message"] = sem["poster_message"]
        /\ sem'["prevenir_server"] = sem["prevenir_server"]
    BY <1>0, <1>4, Waited DEF WaitDeco, Semaphores
  <2>4. TypeOK'
    BY <1>0, <1>4, <2>1, <2>3 DEF WaitDeco, TypeOK, server, segment, user, Entry, InHandler
  <2>5. OneToken' /\ RequestFormed'
    BY <1>0, <2>1, <2>2, <2>3, TokenUntouched DEF TypeOK, Writing
  <2>6. HasTyped' /\ Opened'
    BY <1>0, <1>p, <2>1, <2>2 DEF HasTyped, Opened, TypeOK, InHandler
  <2> QED BY <2>4, <2>5, <2>6 DEF IInv
<1>5. CASE Exit(p)
  <2>1. pc' = [pc EXCEPT ![p] = "gone"] /\ shm' = [shm EXCEPT ![NameOf[p[1]]] = None]
    BY <1>5 DEF Exit, Goto
  <2>2. sem' = sem /\ req' = req /\ (Busy' <=> Busy) /\ lines' = lines /\ requete' = requete
    BY <1>5 DEF Exit, stock, server, user, Busy
  <2>3. TypeOK'
    BY <1>0, <1>5, <2>1 DEF Exit, TypeOK, stock, server, segment, user, Entry, InHandler
  <2>4. OneToken' /\ RequestFormed'
    BY <1>0, <2>1, <2>2, TokenUntouched DEF TypeOK, Writing
  <2>5. HasTyped' /\ Opened'
    BY <1>0, <1>p, <2>1, <2>2 DEF HasTyped, Opened, TypeOK, InHandler
  <2> QED BY <2>3, <2>4, <2>5 DEF IInv
<1> QED BY <1>1, <1>2, <1>3, <1>4, <1>5

LEMMA ServerStep ==
  ASSUME IInv, Server \/ ServerQuit
  PROVE  IInv'
<1> USE SessionAssumption, NameAssumption, BoundAssumption
<1>0. TypeOK /\ OneToken /\ RequestFormed /\ HasTyped /\ Opened
  BY DEF IInv
<1>1. CASE TakeRequest
  <2>1. srv' = "serve" /\ srv = "wait" /\ req' = req /\ pc' = pc /\ lines' = lines /\ requete' = requete
    BY <1>1 DEF TakeRequest, client, segment
  <2>2. /\ sem' \in [Semaphores -> Nat]
        /\ sem["prevenir_server"] > 0
        /\ sem'["poster_message"] = sem["poster_message"]
        /\ sem'["prevenir_server"] = sem["prevenir_server"] - 1
    BY <1>0, <1>1, Waited DEF TakeRequest, Semaphores
  <2>3. TypeOK'
    BY <1>0, <1>1, <2>2 DEF TakeRequest, TypeOK, client, segment
  <2>4. Holders' = Holders
    BY <2>1 DEF Holders
  <2>5. OneToken' /\ RequestFormed'
    BY <1>0, <2>1, <2>2, <2>4 DEF OneToken, RequestFormed, Busy, TypeOK, Semaphores
  <2>6. HasTyped' /\ Opened' BY <1>0, <2>1 DEF HasTyped, Opened
  <2> QED BY <2>3, <2>5, <2>6 DEF IInv
<1>2. CASE Connexion
  <2>1. srv = "serve" /\ srv' = "release" /\ sem' = sem /\ req' = req /\ pc' = pc
        /\ lines' = lines /\ requete' = requete /\ req.type = 0
    BY <1>2 DEF Connexion, Serve, client, stock, segment
  <2>2. req.content \in Names
    BY <1>0, <2>1 DEF RequestFormed, Busy
  <2> DEFINE free == {k \in Slots : ~ Taken(k)}
             link == IF fds < MaxFd THEN shm[req.content] ELSE None
  <2>3. link \in Sessions \cup {None}
    BY <1>0, <2>2 DEF TypeOK
  <2>4. tab' \in [Slots -> [name : Contents, link : Sessions \cup {None}]]
    <3>1. CASE free = {} BY <1>0, <1>2, <3>1 DEF Connexion, TypeOK
    <3>2. CASE free # {}
      <4>1. tab' = [tab EXCEPT ![First(free)] = [name |-> req.content, link |-> link]]
        BY <1>2, <3>2 DEF Connexion
      <4>2. [name |-> req.content, link |-> link]
               \in [name : Contents, link : Sessions \cup {None}]
        BY <2>2, <2>3 DEF Contents
      <4> HIDE DEF link, free
      <4> QED BY <1>0, <4>1, <4>2 DEF TypeOK
    <3> QED BY <3>1, <3>2
  <2>5. nb_connect' \in Int /\ fds' \in 0 .. MaxFd
    <3>1. CASE free = {} \/ link = None
      BY <1>0, <1>2, <3>1 DEF Connexion, TypeOK
    <3>2. CASE free # {} /\ link # None
      <4>1. fds < MaxFd BY <3>2
      <4>2. nb_connect' = nb_connect + 1 /\ fds' = fds + 1
        BY <1>2, <3>2 DEF Connexion
      <4> QED BY <1>0, <4>1, <4>2 DEF TypeOK
    <3> QED BY <3>1, <3>2
  <2>6. TypeOK'
    BY <1>0, <1>2, <2>1, <2>4, <2>5 DEF Connexion, TypeOK, client, stock, segment
  <2>7. OneToken' /\ RequestFormed'
    BY <1>0, <2>1, TokenUntouched DEF Busy
  <2>8. HasTyped' /\ Opened' BY <1>0, <2>1 DEF HasTyped, Opened
  <2> QED BY <2>6, <2>7, <2>8 DEF IInv
<1>3. CASE BeginDiffusion \/ EndDiffuse \/ EndCollect
  <2>1. sem' = sem /\ req' = req /\ pc' = pc /\ lines' = lines /\ requete' = requete /\ (Busy' <=> Busy)
    BY <1>3 DEF BeginDiffusion, EndDiffuse, EndCollect, Serve, client, stock, segment, Busy
  <2>2. TypeOK'
    BY <1>0, <1>3
    DEF BeginDiffusion, EndDiffuse, EndCollect, Serve, client, stock, segment, TypeOK
  <2>3. OneToken' /\ RequestFormed'
    BY <1>0, <2>1, TokenUntouched
  <2>4. HasTyped' /\ Opened' BY <1>0, <2>1 DEF HasTyped, Opened
  <2> QED BY <2>2, <2>3, <2>4 DEF IInv
<1>4. CASE DiffuseSlot
  <2>1. sem' = sem /\ req' = req /\ pc' = pc /\ lines' = lines /\ requete' = requete /\ (Busy' <=> Busy)
        /\ i' = i + 1
    BY <1>4 DEF DiffuseSlot, client, stock, segment, Busy
  <2>2. box' \in [Sessions -> Contents] /\ autoris_diff' \in [Sessions -> Nat \cup {Unsized}]
        /\ up' \in {"up", "stopped", "crashed"}
    <3>1. CASE UNCHANGED <<autoris_diff, box>>
      BY <1>0, <1>4, <3>1 DEF DiffuseSlot, TypeOK, segment
    <3>2. CASE /\ tab[i].link # None /\ autoris_diff[tab[i].link] # Unsized
               /\ box' = [box EXCEPT ![tab[i].link] = req.content]
               /\ autoris_diff' = [autoris_diff EXCEPT ![tab[i].link] = @ + 1]
               /\ up' = up
      <4>1. i \in Slots BY <1>0, <1>4 DEF DiffuseSlot, TypeOK, Slots
      <4>2. tab[i].link \in Sessions BY <1>0, <3>2, <4>1 DEF TypeOK
      <4>3. req.content \in Contents BY <1>0 DEF TypeOK
      <4>4. box' \in [Sessions -> Contents] BY <1>0, <3>2, <4>3 DEF TypeOK
      <4>5. autoris_diff' \in [Sessions -> Nat \cup {Unsized}]
        BY <1>0, <3>2, <4>2 DEF TypeOK
      <4> QED BY <1>0, <3>2, <4>4, <4>5 DEF TypeOK
    <3> QED BY <1>4, <3>1, <3>2 DEF DiffuseSlot, segment
  <2>3. TypeOK'
    BY <1>0, <1>4, <2>1, <2>2 DEF DiffuseSlot, client, stock, segment, TypeOK
  <2>4. OneToken' /\ RequestFormed'
    BY <1>0, <2>1, TokenUntouched
  <2>5. HasTyped' /\ Opened' BY <1>0, <2>1 DEF HasTyped, Opened
  <2> QED BY <2>3, <2>4, <2>5 DEF IInv
<1>5. CASE Collect
  <2>1. req' = req /\ pc' = pc /\ lines' = lines /\ requete' = requete /\ (Busy' <=> Busy) /\ i' = i + 1
    BY <1>5 DEF Collect, client, segment, Busy
  <2>2. /\ sem' \in [Semaphores -> Nat]
        /\ sem'["poster_message"] = sem["poster_message"]
        /\ sem'["prevenir_server"] = sem["prevenir_server"]
    BY <1>0, <1>5, Waited DEF Collect, Semaphores
  <2>3. TypeOK'
    BY <1>0, <1>5, <2>1, <2>2 DEF Collect, client, segment, TypeOK
  <2>4. OneToken' /\ RequestFormed'
    BY <1>0, <2>1, <2>2, TokenUntouched
  <2>5. HasTyped' /\ Opened' BY <1>0, <2>1 DEF HasTyped, Opened
  <2> QED BY <2>3, <2>4, <2>5 DEF IInv
<1>6. CASE Deconnexion
  <2> DEFINE same == {k \in Slots : tab[k].name = req.content}
  <2>1. req' = req /\ pc' = pc /\ lines' = lines /\ requete' = requete /\ srv = "serve" /\ srv' = "release"
    BY <1>6 DEF Deconnexion, Named, FreeSlot, client, segment, Serve
  <2>2. /\ sem' \in [Semaphores -> Nat]
        /\ sem'["poster_message"] = sem["poster_message"]
        /\ sem'["prevenir_server"] = sem["prevenir_server"]
        /\ tab' \in [Slots -> [name : Contents, link : Sessions \cup {None}]]
        /\ nb_connect' \in Int
    <3>1. CASE same = {}
      BY <1>0, <1>6, <3>1 DEF Deconnexion, Named, FreeSlot, TypeOK
    <3>2. CASE same # {}
      <4>1. V("deco_sem") /\ tab' = [tab EXCEPT ![First(same)] = Empty]
            /\ nb_connect' = nb_connect - 1
        BY <1>6, <3>2 DEF Deconnexion, Named, FreeSlot
      <4>2. Empty \in [name : Contents, link : Sessions \cup {None}]
        BY DEF Empty, Contents
      <4>3. /\ sem' \in [Semaphores -> Nat]
            /\ sem'["poster_message"] = sem["poster_message"]
            /\ sem'["prevenir_server"] = sem["prevenir_server"]
        BY <1>0, <4>1, Posted DEF Semaphores
      <4> HIDE DEF same
      <4>4. tab' \in [Slots -> [name : Contents, link : Sessions \cup {None}]]
        BY <1>0, <4>1, <4>2 DEF TypeOK
      <4>5. nb_connect' \in Int BY <1>0, <4>1 DEF TypeOK
      <4> QED BY <4>3, <4>4, <4>5
    <3> QED BY <3>1, <3>2
  <2>3. TypeOK'
    BY <1>0, <1>6, <2>1, <2>2 DEF Deconnexion, Named, FreeSlot, client, segment, TypeOK
  <2>4. OneToken' /\ RequestFormed'
    BY <1>0, <2>1, <2>2, TokenUntouched DEF Busy
  <2>5. HasTyped' /\ Opened' BY <1>0, <2>1 DEF HasTyped, Opened
  <2> QED BY <2>3, <2>4, <2>5 DEF IInv
<1>7. CASE Release
  <2>1. req' = req /\ pc' = pc /\ lines' = lines /\ requete' = requete /\ srv = "release" /\ srv' = "wait"
    BY <1>7 DEF Release, client, segment
  <2>2. sem["poster_message"] = 0 /\ sem["prevenir_server"] = 0 /\ Holders = {}
    BY <1>0, <2>1 DEF OneToken, Busy, TypeOK, Semaphores
  <2>3. /\ sem' \in [Semaphores -> Nat]
        /\ sem'["poster_message"] = 1
        /\ sem'["prevenir_server"] = 0
    BY <1>0, <1>7, <2>2, Posted DEF Release, Semaphores
  <2>4. TypeOK'
    BY <1>0, <1>7, <2>1, <2>3 DEF Release, client, segment, TypeOK
  <2>5. Holders' = {}
    BY <2>1, <2>2 DEF Holders
  <2>6. OneToken' /\ RequestFormed'
    BY <2>1, <2>3, <2>5 DEF OneToken, RequestFormed, Busy
  <2>7. HasTyped' /\ Opened' BY <1>0, <2>1 DEF HasTyped, Opened
  <2> QED BY <2>4, <2>6, <2>7 DEF IInv
<1>8. CASE ServerQuit
  <2>1. sem' = sem /\ req' = req /\ pc' = pc /\ lines' = lines /\ requete' = requete /\ (Busy' <=> Busy)
    BY <1>8 DEF ServerQuit, client, stock, segment, Busy
  <2>2. TypeOK' BY <1>0, <1>8 DEF ServerQuit, client, stock, segment, TypeOK
  <2>3. OneToken' /\ RequestFormed'
    BY <1>0, <2>1, TokenUntouched
  <2>4. HasTyped' /\ Opened' BY <1>0, <2>1 DEF HasTyped, Opened
  <2> QED BY <2>2, <2>3, <2>4 DEF IInv
<1> QED BY <1>1, <1>2, <1>3, <1>4, <1>5, <1>6, <1>7, <1>8 DEF Server

LEMMA StutterStep == IInv /\ UNCHANGED vars => IInv'
BY DEF IInv, vars, stock, server, client, segment, TypeOK, OneToken, RequestFormed,
   HasTyped, Opened, Holders, Busy

LEMMA Step == IInv /\ [Next]_vars => IInv'
BY ClientStep, ProcessStep, ServerStep, StutterStep DEF Next, Process

(* IInv is inductive, so it holds in every reachable state. *)
THEOREM Invariance == Spec => []IInv
BY InitIInv, Step, PTL DEF Spec

(* Types are preserved. *)
THEOREM Typing == Spec => []TypeOK
<1>1. IInv => TypeOK BY DEF IInv
<1> QED BY Invariance, <1>1, PTL

(* poster_message and prevenir_server hand one token around, whoever is    *)
(* interrupted and whenever.                                               *)
THEOREM TokenUnique == Spec => []OneToken
<1>1. IInv => OneToken BY DEF IInv
<1> QED BY Invariance, <1>1, PTL

(* Only a process that holds the token writes the request, so nobody does  *)
(* while the server works on one.                                          *)
THEOREM RequestKept == Spec => RequestStable
<1>1. IInv /\ [Next]_vars => [Busy /\ Busy' => req' = req]_vars
  <2> SUFFICES ASSUME IInv, Next, Busy PROVE req' = req
    BY DEF vars, stock
  <2>1. Holders = {} BY DEF IInv, OneToken
  <2>2. ASSUME NEW p \in Procs, Submit(p) PROVE FALSE
    BY <2>1, <2>2 DEF Submit, Holders
  <2>3. CASE Server \/ ServerQuit
    BY <2>3 DEF Server, ServerQuit, TakeRequest, Connexion, BeginDiffusion, DiffuseSlot,
      EndDiffuse, Collect, EndCollect, Deconnexion, Release, stock
  <2>4. ASSUME NEW s \in Sessions, Session(s) \/ User(s) PROVE req' = req
    BY <2>4 DEF Session, User, Start, Verify, Create, Truncate, InitSegment, Fork,
      InstallHandler, Await, Show, TypeLine, Interrupt, stock
  <2>5. ASSUME NEW p \in Procs, Process(p) \/ WaitDeco(p) PROVE req' = req
    BY <2>2, <2>5 DEF Process, WaitDeco, Acquire, TakeSignal, Exit, stock
  <2> QED BY <2>3, <2>4, <2>5 DEF Next
<1> QED BY Invariance, <1>1, PTL DEF Spec, RequestStable
-----------------------------------------------------------------------------

(* A process that has run handler to its end stays so, and one in it does  *)
(* not leave it alive: what follows from it stays too.                     *)
Staying == \A p \in Procs : /\ pc[p] = "gone" => pc'[p] = "gone"
                            /\ pc[p] \in InHandler => pc'[p] \in InHandler
Joins == {"truncate", "init", "connect", "connecting"}

LEMMA GoneStays ==
  ASSUME Staying
  PROVE  /\ \A n : Unlinkers(n) \subseteq Unlinkers(n)'
         /\ \A n : Leavers(n) \subseteq Leavers(n)'
         /\ \A n : Usurped(n) => Usurped(n)'
<1>1. \A n : Unlinkers(n) \subseteq Unlinkers(n)' BY DEF Staying, Unlinkers
<1>2. \A n : Leavers(n) \subseteq Leavers(n)' BY DEF Staying, Leavers
<1>3. \A n : Usurped(n) => Usurped(n)' BY <1>1 DEF Usurped
<1> QED BY <1>1, <1>2, <1>3

(* While the table and the number of descriptors stay, what they owe to    *)
(* the processes that leave stays due.                                     *)
LEMMA TableKept ==
  ASSUME TableInv, UNCHANGED <<tab, nb_connect, fds>>, Staying
  PROVE  NullSlots' /\ CountedSlots'
<1>g. /\ \A n : Unlinkers(n) \subseteq Unlinkers(n)'
      /\ \A n : Leavers(n) \subseteq Leavers(n)'
  BY GoneStays
<1>1. NullSlots'
  <2> SUFFICES ASSUME NEW k \in Slots, tab[k].name # None, tab[k].link = None
               PROVE  fds = MaxFd \/ (Shared(tab[k].name) /\ Unlinkers(tab[k].name)' # {})
    BY DEF NullSlots, Taken, Unlinkers
  <2>1. fds = MaxFd \/ (Shared(tab[k].name) /\ Unlinkers(tab[k].name) # {})
    BY DEF TableInv, NullSlots, Taken
  <2>2. PICK n : n = tab[k].name OBVIOUS
  <2>3. Unlinkers(n) \subseteq Unlinkers(n)' BY <1>g
  <2>4. Unlinkers(n)' = Unlinkers(tab[k].name)' BY <2>2 DEF Unlinkers
  <2> QED BY <2>1, <2>2, <2>3, <2>4
<1>2. (\E n \in Names : Shared(n) /\ \E p \in Unlinkers(n) : Leavers(n) \ {p} # {})
        => \E n \in Names : Shared(n) /\ \E p \in Unlinkers(n)' : Leavers(n)' \ {p} # {}
  <2> SUFFICES ASSUME NEW n \in Names, Shared(n), NEW p \in Unlinkers(n),
                      Leavers(n) \ {p} # {}
               PROVE  p \in Unlinkers(n)' /\ Leavers(n)' \ {p} # {}
    OBVIOUS
  <2> QED BY <1>g
<1>3. CountedSlots' BY <1>2 DEF TableInv, CountedSlots
<1> QED BY <1>1, <1>3

(* A step that leaves the table alone and tells the server nothing keeps   *)
(* the table's invariant, once the segments that are asked for are found.  *)
LEMMA TableUntouched ==
  ASSUME TypeOK, TableInv, UNCHANGED <<tab, nb_connect, fds, req>>, Told' => Told,
         Roles', NotOff', NamesKept', Staying,
         \A p \in Procs : pc'[p] \in {"deco", "bye"} => pc[p] \in {"deco", "bye"},
         \A s \in Sessions : pc'[<<s, "out">>] \in Joins
                               => pc[<<s, "out">>] \in Joins \/ Found(NameOf[s])',
         \A s \in Sessions :
           /\ \A p \in {s} \X {"in", "out"} : pc[p] \notin {"deco", "bye"}
           /\ Found(NameOf[s])
           => Found(NameOf[s])'
  PROVE  TableInv'
<1>0. /\ \A s \in Sessions : <<s, "in">> \in Procs /\ <<s, "out">> \in Procs
      /\ \A s \in Sessions : \A p \in {s} \X {"in", "out"} :
           p \in Procs /\ (p = <<s, "in">> \/ p = <<s, "out">>)
  BY DEF Procs
<1>g. /\ \A n : Unlinkers(n) \subseteq Unlinkers(n)'
      /\ \A n : Leavers(n) \subseteq Leavers(n)'
  BY GoneStays
<1>1. Joining'
  <2> SUFFICES ASSUME NEW s \in Sessions, pc'[<<s, "out">>] \in Joins
               PROVE  Found(NameOf[s])'
    BY DEF Joining, Joins
  <2>1. CASE pc[<<s, "out">>] \in Joins
    <3>1. Found(NameOf[s]) BY <2>1 DEF TableInv, Joining, Joins
    <3>2. pc[<<s, "in">>] = "off"
      BY <2>1 DEF TableInv, Roles, Joins, Entry
    <3>3. \A p \in {s} \X {"in", "out"} : pc[p] \notin {"deco", "bye"}
      BY <1>0, <2>1, <3>2 DEF Joins
    <3> QED BY <3>1, <3>3
  <2> QED BY <2>1
<1>2. JoinTold'
  <2> SUFFICES ASSUME Told, req.type = 0
               PROVE  \E s \in Sessions :
                 /\ NameOf[s] = req.content
                 /\ \A p \in {s} \X {"in", "out"} : pc'[p] \notin {"deco", "bye"}
                 /\ Found(req.content)'
    BY DEF JoinTold
  <2>1. PICK s \in Sessions :
          /\ NameOf[s] = req.content
          /\ \A p \in {s} \X {"in", "out"} : pc[p] \notin {"deco", "bye"}
          /\ Found(req.content)
    BY DEF TableInv, JoinTold
  <2>2. \A p \in {s} \X {"in", "out"} : pc'[p] \notin {"deco", "bye"}
    BY <1>0, <2>1
  <2>3. Found(NameOf[s])' BY <2>1
  <2>4. Found(req.content)' BY <2>1, <2>3 DEF Found, Usurped, Shared, Unlinkers
  <2> QED BY <2>1, <2>2, <2>4
<1>3. LeaveTold'
  <2> SUFFICES ASSUME Told, req.type = 2
               PROVE  \E p \in Leavers(req.content)' :
                 \A k \in Slots : Null(k) /\ tab[k].name = req.content =>
                   fds = MaxFd \/ (Shared(req.content)
                                     /\ Unlinkers(req.content)' \ {p} # {})
    BY DEF LeaveTold, Null, Taken
  <2>1. PICK p \in Leavers(req.content) :
          \A k \in Slots : Null(k) /\ tab[k].name = req.content =>
            fds = MaxFd \/ (Shared(req.content) /\ Unlinkers(req.content) \ {p} # {})
    BY DEF TableInv, LeaveTold
  <2>2. PICK n : n = req.content OBVIOUS
  <2>3. /\ Unlinkers(n) \subseteq Unlinkers(n)' /\ Leavers(n) \subseteq Leavers(n)'
    BY <1>g
  <2>4. Unlinkers(n)' = Unlinkers(req.content)' /\ Leavers(n)' = Leavers(req.content)'
    BY <2>2 DEF Unlinkers, Leavers
  <2> QED BY <2>1, <2>2, <2>3, <2>4
<1>4. NullSlots' /\ CountedSlots' BY TableKept
<1> QED BY <1>1, <1>2, <1>3, <1>4 DEF TableInv

(* Every step keeps each process in the states of its role: the child of   *)
(* a session exists only once the parent has forked.                       *)
LEMMA RolesStep == TypeOK /\ Roles /\ NotOff /\ [Next]_vars => Roles' /\ NotOff'
<1> SUFFICES ASSUME TypeOK, Roles, NotOff, [Next]_vars PROVE Roles' /\ NotOff'
    OBVIOUS
<1>0. \A s \in Sessions : /\ <<s, "in">> \in Procs /\ <<s, "out">> \in Procs
                          /\ <<s, "in">> # <<s, "out">>
  BY DEF Procs
<1>p. \A p \in Procs : /\ p = <<p[1], "in">> \/ p = <<p[1], "out">>
                       /\ p[1] \in Sessions
  BY DEF Procs
<1>1. ASSUME NEW s \in Sessions, Session(s) \/ User(s) PROVE Roles' /\ NotOff'
  <2>1. CASE Fork(s)
    <3>1. Roles' BY <1>0, <2>1 DEF Fork, Roles, TypeOK, InHandler, Entry
    <3>2. NotOff' BY <1>0, <2>1 DEF Fork, NotOff, TypeOK, user
    <3> QED BY <3>1, <3>2
  <2>2. CASE Interrupt(s)
    <3>1. pc' = pc /\ \A p \in pending' : p \in pending \/ pc[p] # "off"
      BY <2>2 DEF Interrupt
    <3> QED BY <3>1 DEF Roles, NotOff
  <2>3. CASE TypeLine(s)
    <3>1. /\ pc[<<s, "in">>] = "read" /\ pc' = [pc EXCEPT ![<<s, "in">>] = "post"]
          /\ pending' = pending
      BY <2>3 DEF TypeLine, Goto
    <3>2. Roles' BY <1>0, <3>1 DEF Roles, TypeOK
    <3>3. NotOff' BY <1>0, <3>1 DEF NotOff, TypeOK
    <3> QED BY <3>2, <3>3
  <2>4. CASE InstallHandler(s) \/ Await(s) \/ Show(s)
    <3>1. /\ pending' = pending
          /\ pc[<<s, "out">>] \in {"install", "await", "show"}
          /\ \E to \in {"await", "show"} : pc' = [pc EXCEPT ![<<s, "out">>] = to]
      BY <2>4 DEF InstallHandler, Await, Show, Goto, user
    <3>2. Roles' BY <1>0, <3>1 DEF Roles, TypeOK, InHandler, Entry
    <3>3. NotOff' BY <1>0, <3>1 DEF NotOff, TypeOK
    <3> QED BY <3>2, <3>3
  <2>5. CASE Start(s) \/ Verify(s) \/ Create(s) \/ Truncate(s) \/ InitSegment(s)
    <3>1. /\ pending' = pending
          /\ pc[<<s, "out">>] \in Entry \cup {"off"}
          /\ \E to \in Entry \cup {"refused"} : pc' = [pc EXCEPT ![<<s, "out">>] = to]
      BY <2>5 DEF Start, Verify, Create, Truncate, InitSegment, Goto, user, Entry
    <3>2. Roles'
      <4>1. PICK to \in Entry \cup {"refused"} : pc' = [pc EXCEPT ![<<s, "out">>] = to]
        BY <3>1
      <4>2. /\ pc'[<<s, "out">>] = to /\ pc'[<<s, "in">>] = pc[<<s, "in">>]
            /\ \A t \in Sessions : t # s => /\ pc'[<<t, "out">>] = pc[<<t, "out">>]
                                          /\ pc'[<<t, "in">>] = pc[<<t, "in">>]
        BY <1>0, <4>1 DEF TypeOK
      <4>3. pc[<<s, "in">>] = "off" BY <3>1 DEF Roles
      <4> QED BY <4>1, <4>2, <4>3 DEF Roles
    <3>3. NotOff' BY <1>0, <3>1 DEF NotOff, TypeOK, Entry
    <3> QED BY <3>2, <3>3
  <2> QED BY <1>1, <2>1, <2>2, <2>3, <2>4, <2>5 DEF Session, User
<1>2. ASSUME NEW p \in Procs, Process(p) \/ WaitDeco(p) PROVE Roles' /\ NotOff'
  <2>1. /\ pending' \subseteq pending /\ pc[p] # "off"
        /\ \/ pc' = pc
           \/ pc[p] = "connect" /\ pc' = [pc EXCEPT ![p] = "connecting"]
           \/ pc[p] = "post" /\ pc' = [pc EXCEPT ![p] = "posting"]
           \/ pc[p] = "connecting" /\ pc' = [pc EXCEPT ![p] = "fork"]
           \/ pc[p] = "posting" /\ pc' = [pc EXCEPT ![p] = "read"]
           \/ \E to \in InHandler : pc' = [pc EXCEPT ![p] = to]
    <3>1. CASE Acquire(p) BY <3>1 DEF Acquire, Wanting, InHandler, user
    <3>2. CASE Submit(p) BY <3>2 DEF Submit, Writing, InHandler, user
    <3>3. CASE TakeSignal(p)
      <4>1. /\ pending' \subseteq pending /\ pc[p] # "off"
            /\ \E to \in Interrupted(pc[p]) : pc' = [pc EXCEPT ![p] = to]
        BY <3>3 DEF TakeSignal, Goto, NotOff
      <4>2. PICK to \in Interrupted(pc[p]) : pc' = [pc EXCEPT ![p] = to] BY <4>1
      <4>3. to \in InHandler \/ to = pc[p]
        BY <4>2 DEF Interrupted, Ended, Writing, InHandler
      <4>4. to = pc[p] => pc' = pc BY <4>2 DEF TypeOK
      <4> QED BY <4>1, <4>2, <4>3, <4>4
    <3>4. CASE WaitDeco(p) BY <3>4 DEF WaitDeco, Goto, InHandler, user
    <3>5. CASE Exit(p) BY <3>5 DEF Exit, Goto, InHandler, user
    <3> QED BY <1>2, <3>1, <3>2, <3>3, <3>4, <3>5 DEF Process
  <2>2. Roles'
    <3>0. pc \in [Procs -> Entry \cup {"off", "refused", "connecting", "fork", "install",
                       "await", "show", "read", "post", "posting"} \cup InHandler]
      BY DEF TypeOK
    <3>1. CASE pc[p] = "connect" /\ pc' = [pc EXCEPT ![p] = "connecting"]
      BY <1>0, <1>p, <3>0, <3>1 DEF Roles, InHandler, Entry
    <3>2. CASE pc[p] = "post" /\ pc' = [pc EXCEPT ![p] = "posting"]
      BY <1>0, <1>p, <3>0, <3>2 DEF Roles, InHandler, Entry
    <3>3. CASE pc[p] = "connecting" /\ pc' = [pc EXCEPT ![p] = "fork"]
      BY <1>0, <1>p, <3>0, <3>3 DEF Roles, InHandler, Entry
    <3>4. CASE pc[p] = "posting" /\ pc' = [pc EXCEPT ![p] = "read"]
      BY <1>0, <1>p, <3>0, <3>4 DEF Roles, InHandler, Entry
    <3>5. ASSUME NEW to \in InHandler, pc' = [pc EXCEPT ![p] = to] PROVE Roles'
      BY <1>0, <1>p, <2>1, <3>0, <3>5 DEF Roles, InHandler, Entry
    <3>6. CASE pc' = pc BY <3>6 DEF Roles
    <3> QED BY <2>1, <3>1, <3>2, <3>3, <3>4, <3>5, <3>6
  <2>3. NotOff' BY <1>0, <2>1 DEF NotOff, TypeOK, InHandler
  <2> QED BY <2>2, <2>3
<1>3. CASE Server \/ ServerQuit \/ UNCHANGED vars
  <2>1. pc' = pc /\ pending' = pending
    BY <1>3 DEF Server, ServerQuit, vars, client, TakeRequest, Connexion, BeginDiffusion,
      DiffuseSlot, EndDiffuse, Collect, EndCollect, Deconnexion, Release
  <2> QED BY <2>1 DEF Roles, NotOff
<1> QED BY <1>1, <1>2, <1>3 DEF Next

(* What the token says of a request that is being written: the server has  *)
(* been told of no other one.                                              *)
LEMMA WriterAlone ==
  ASSUME TypeOK, OneToken, NEW p \in Procs, pc[p] \in Writing \cup {"keep"}
  PROVE  ~ Told /\ sem["prevenir_server"] = 0
BY DEF OneToken, Holders, Told, Busy, TypeOK, Semaphores

\* what such a step does to the processes, and what it leaves alone
Kept == /\ Staying
        /\ \A p \in Procs : pc'[p] \in {"deco", "bye"} => pc[p] \in {"deco", "bye"}
        /\ \A s \in Sessions : pc'[<<s, "out">>] \in Joins => pc[<<s, "out">>] \in Joins
Frame == UNCHANGED <<shm, requete, tab, nb_connect, fds, req>> /\ (Told' => Told)

LEMMA EasySession ==
  ASSUME IInv, TableInv, NEW s \in Sessions,
         \/ Start(s) \/ Verify(s) \/ Truncate(s) \/ InitSegment(s)
         \/ Fork(s) \/ InstallHandler(s) \/ Await(s) \/ Show(s)
         \/ TypeLine(s) \/ Interrupt(s)
  PROVE  Kept /\ Frame
<1>0. TypeOK /\ Roles BY DEF IInv, TableInv
<1>p. \A t \in Sessions : <<t, "in">> \in Procs /\ <<t, "out">> \in Procs
  BY DEF Procs
<1>1. Frame
  <2>1. CASE Show(s)
    <3>1. sem'["prevenir_server"] = sem["prevenir_server"]
      BY <1>0, <2>1, Posted DEF Show, Semaphores
    <3> QED BY <2>1, <3>1 DEF Show, server, Told, Frame
  <2> QED BY <2>1
      DEF Start, Verify, Truncate, InitSegment, Fork, InstallHandler, Await, TypeLine,
        Interrupt, stock, server, Told, Frame
<1>2. CASE Fork(s)
  BY <1>0, <1>1, <1>2, <1>p DEF Fork, TypeOK, Kept, Staying, Joins, InHandler, Roles
<1>3. CASE Interrupt(s)
  BY <1>1, <1>3 DEF Interrupt, Kept, Staying
<1>4. CASE TypeLine(s)
  BY <1>0, <1>1, <1>4, <1>p DEF TypeLine, Goto, TypeOK, Kept, Staying, Joins, InHandler
<1>5. CASE \/ InstallHandler(s) \/ Await(s) \/ Show(s) \/ Start(s) \/ Verify(s)
           \/ Truncate(s) \/ InitSegment(s)
  <2>1. /\ \/ pc[<<s, "out">>] \in {"off", "verify", "install", "await", "show"}
           \/ pc[<<s, "out">>] \in Joins
        /\ \E to \in {"refused", "verify", "create", "init", "connect", "await", "show"} :
             /\ pc' = [pc EXCEPT ![<<s, "out">>] = to]
             /\ to \in Joins => pc[<<s, "out">>] \in Joins
    BY <1>5 DEF InstallHandler, Await, Show, Start, Verify, Truncate, InitSegment, Goto, Joins
  <2>2. PICK to \in {"refused", "verify", "create", "init", "connect", "await", "show"} :
          /\ pc' = [pc EXCEPT ![<<s, "out">>] = to]
          /\ to \in Joins => pc[<<s, "out">>] \in Joins
    BY <2>1
  <2>3. /\ \A p \in Procs : p # <<s, "out">> => pc'[p] = pc[p]
        /\ pc'[<<s, "out">>] = to /\ pc[<<s, "out">>] \notin InHandler
        /\ to \notin {"deco", "bye"}
    BY <1>0, <1>p, <2>1, <2>2 DEF TypeOK, InHandler, Joins
  <2>4. Kept BY <1>p, <2>2, <2>3 DEF Kept, Staying, InHandler
  <2> QED BY <1>1, <2>4
<1> QED BY <1>2, <1>3, <1>4, <1>5

LEMMA EasyProcess ==
  ASSUME IInv, TableInv, NEW p \in Procs, Acquire(p) \/ TakeSignal(p) \/ WaitDeco(p)
  PROVE  Kept /\ Frame
<1>0. TypeOK /\ NotOff BY DEF IInv, TableInv
<1>p. \A t \in Sessions : <<t, "in">> \in Procs /\ <<t, "out">> \in Procs
  BY DEF Procs
<1>1. Frame
  <2>1. CASE Acquire(p)
    <3>1. sem'["prevenir_server"] = sem["prevenir_server"]
      BY <1>0, <2>1, Waited DEF Acquire, Semaphores
    <3> QED BY <2>1, <3>1 DEF Acquire, server, Told, Frame
  <2>2. CASE WaitDeco(p)
    <3>1. sem'["prevenir_server"] = sem["prevenir_server"]
      BY <1>0, <2>2, Waited DEF WaitDeco, Semaphores
    <3> QED BY <2>2, <3>1 DEF WaitDeco, server, Told, Frame
  <2> QED BY <2>1, <2>2 DEF TakeSignal, stock, server, Told, Frame
<1>2. \E to \in {"connecting", "posting"} \cup InHandler \cup {pc[p]} :
        /\ pc' = [pc EXCEPT ![p] = to]
        /\ pc[p] = "gone" => to = "gone"
        /\ pc[p] \in InHandler => to \in InHandler
        /\ to \in {"deco", "bye"} => pc[p] \in {"deco", "bye"}
        /\ to \in Joins => pc[p] \in Joins
  <2>1. CASE Acquire(p)
    <3>1. CASE pc[p] = "connect" BY <2>1, <3>1 DEF Acquire, InHandler, Joins
    <3>2. CASE pc[p] = "post" BY <2>1, <3>2 DEF Acquire, InHandler, Joins
    <3>3. CASE pc[p] \in {"quit", "keep"}
      <4>1. pc' = [pc EXCEPT ![p] = "quitting"] BY <2>1, <3>3 DEF Acquire
      <4> QED BY <3>3, <4>1 DEF InHandler, Joins
    <3> QED BY <2>1, <3>1, <3>2, <3>3 DEF Acquire, Wanting
  <2>2. CASE TakeSignal(p)
    <3>1. PICK to \in Interrupted(pc[p]) : pc' = [pc EXCEPT ![p] = to]
      BY <2>2 DEF TakeSignal, Goto
    <3>2. /\ to \in InHandler \/ to = pc[p]
          /\ pc[p] = "gone" => to = "gone"
          /\ pc[p] \in InHandler => to \in InHandler
          /\ to \notin {"deco", "bye"}
          /\ to \in Joins => pc[p] \in Joins
      BY <3>1 DEF Interrupted, Ended, Writing, InHandler, Joins
    <3> QED BY <3>1, <3>2
  <2>3. CASE WaitDeco(p) BY <2>3 DEF WaitDeco, Goto, InHandler, Joins
  <2> QED BY <2>1, <2>2, <2>3
<1>3. Kept BY <1>0, <1>2, <1>p DEF TypeOK, Kept, Staying
<1> QED BY <1>1, <1>3

LEMMA EasyServer ==
  ASSUME IInv, TableInv,
         \/ TakeRequest \/ BeginDiffusion \/ DiffuseSlot \/ EndDiffuse
         \/ Collect \/ EndCollect \/ Release \/ ServerQuit \/ UNCHANGED vars
  PROVE  Kept /\ Frame
<1>0. TypeOK BY DEF IInv
<1>1. pc' = pc /\ UNCHANGED <<shm, requete, tab, nb_connect, fds, req>>
  BY DEF TakeRequest, BeginDiffusion, DiffuseSlot, EndDiffuse, Collect, EndCollect,
    Release, ServerQuit, vars, stock, server, client
<1>2. Told' => Told
  <2>1. CASE TakeRequest BY <2>1 DEF TakeRequest, P, Told
  <2>2. CASE Collect \/ Release
    <3>1. sem'["prevenir_server"] = sem["prevenir_server"]
      BY <1>0, <2>2, Waited, Posted DEF Collect, Release, Semaphores
    <3> QED BY <2>2, <3>1 DEF Collect, Release, Told
  <2>3. CASE BeginDiffusion \/ DiffuseSlot \/ EndDiffuse \/ EndCollect \/ ServerQuit
             \/ UNCHANGED vars
    BY <2>3 DEF BeginDiffusion, Serve, DiffuseSlot, EndDiffuse, EndCollect, ServerQuit,
      vars, stock, server, Told
  <2> QED BY <2>1, <2>2, <2>3
<1>3. Kept BY <1>1 DEF Kept, Staying
<1> QED BY <1>1, <1>2, <1>3 DEF Frame

LEMMA EasyTable ==
  ASSUME IInv, TableInv, Roles', NotOff', Kept, Frame
  PROVE  TableInv'
<1>0. TypeOK /\ NamesKept BY DEF IInv, TableInv
<1>1. NamesKept' BY <1>0 DEF Frame, NamesKept
<1>2. \A s \in Sessions : Found(NameOf[s]) => Found(NameOf[s])'
  <2>1. \A n : Usurped(n) => Usurped(n)' BY GoneStays DEF Kept
  <2> QED BY <2>1 DEF Frame, Found
<1> QED BY <1>0, <1>1, <1>2, TableUntouched DEF Kept, Frame

(* A segment that is created is found. *)
LEMMA CreateTable ==
  ASSUME IInv, TableInv, NEW s \in Sessions, Create(s), Roles', NotOff'
  PROVE  TableInv'
<1> USE SessionAssumption
<1>0. TypeOK /\ NamesKept BY DEF IInv, TableInv
<1>p. /\ \A t \in Sessions : <<t, "out">> \in Procs /\ NameOf[t] \in Names
      /\ \A t \in Sessions : t # s => <<t, "out">> # <<s, "out">>
  BY DEF Procs, Names
<1>1. /\ UNCHANGED <<tab, nb_connect, fds, req>> /\ (Told' => Told)
      /\ pc[<<s, "out">>] = "create" /\ pc' = [pc EXCEPT ![<<s, "out">>] = "truncate"]
      /\ shm' = [shm EXCEPT ![NameOf[s]] = IF @ = None THEN s ELSE @]
      /\ requete' = [requete EXCEPT ![s] = shm'[NameOf[s]]]
  BY DEF Create, Goto, stock, server, Told
<1>2. /\ \A p \in Procs : p # <<s, "out">> => pc'[p] = pc[p]
      /\ pc'[<<s, "out">>] = "truncate"
  BY <1>0, <1>1, <1>p DEF TypeOK
<1>3. /\ Staying
      /\ \A p \in Procs : pc'[p] \in {"deco", "bye"} => pc[p] \in {"deco", "bye"}
  BY <1>1, <1>2 DEF Staying, InHandler
<1>4. /\ shm'[NameOf[s]] = IF shm[NameOf[s]] = None THEN s ELSE shm[NameOf[s]]
      /\ \A n \in Names : n # NameOf[s] => shm'[n] = shm[n]
  BY <1>0, <1>1, <1>p DEF TypeOK
<1>5. NamesKept'
  <2>1. NameOf[shm'[NameOf[s]]] = NameOf[s] /\ shm'[NameOf[s]] # None
    BY <1>0, <1>4, <1>p DEF NamesKept
  <2>2. requete'[s] = shm'[NameOf[s]] /\ \A t \in Sessions : t # s => requete'[t] = requete[t]
    BY <1>0, <1>1 DEF TypeOK
  <2> QED BY <1>0, <1>1, <1>4, <2>1, <2>2 DEF NamesKept
<1>6. \A n \in Names : Found(n) => Found(n)'
  <2>1. \A n : Usurped(n) => Usurped(n)' BY <1>3, GoneStays
  <2>2. \A n \in Names : shm[n] # None => shm'[n] # None BY <1>4
  <2> QED BY <2>1, <2>2 DEF Found
<1>7. Found(NameOf[s])' BY <1>4 DEF Found
<1>8. /\ \A t \in Sessions : pc'[<<t, "out">>] \in Joins
                               => pc[<<t, "out">>] \in Joins \/ Found(NameOf[t])'
      /\ \A t \in Sessions :
           /\ \A p \in {t} \X {"in", "out"} : pc[p] \notin {"deco", "bye"}
           /\ Found(NameOf[t])
           => Found(NameOf[t])'
  BY <1>2, <1>6, <1>7, <1>p
<1> QED BY <1>0, <1>1, <1>3, <1>5, <1>8, TableUntouched

(* The name that a process unlinks is Usurped for the other sessions of it. *)
LEMMA ExitTable ==
  ASSUME IInv, TableInv, NEW p \in Procs, Exit(p), Roles', NotOff'
  PROVE  TableInv'
<1> USE SessionAssumption
<1> DEFINE u == p[1]
           n == NameOf[u]
<1>0. TypeOK /\ NamesKept BY DEF IInv, TableInv
<1>p. /\ \A s \in Sessions : <<s, "in">> \in Procs /\ <<s, "out">> \in Procs
      /\ u \in Sessions /\ p \in {u} \X {"in", "out"}
      /\ \A s \in Sessions : NameOf[s] \in Names
      /\ \A s \in Sessions : <<s, "out">> \in {s} \X {"in", "out"}
  BY DEF Procs, Names
<1>1. /\ UNCHANGED <<tab, nb_connect, fds, req, requete>> /\ (Told' => Told)
      /\ pc[p] = "bye" /\ pc' = [pc EXCEPT ![p] = "gone"]
      /\ shm' = [shm EXCEPT ![n] = None]
  BY DEF Exit, Goto, stock, server, segment, user, Told
<1>2. \A q \in Procs : pc'[q] = IF q = p THEN "gone" ELSE pc[q]
  BY <1>0, <1>1 DEF TypeOK
<1>3. /\ Staying
      /\ \A q \in Procs : pc'[q] \in {"deco", "bye"} => pc[q] \in {"deco", "bye"}
      /\ \A s \in Sessions : pc'[<<s, "out">>] \in Joins => pc[<<s, "out">>] \in Joins
  BY <1>2, <1>p DEF Staying, InHandler, Joins
<1>4. \A m \in Names : shm'[m] = IF m = n THEN None ELSE shm[m]
  BY <1>0, <1>1, <1>p DEF TypeOK
<1>5. NamesKept' BY <1>0, <1>1, <1>4 DEF NamesKept
<1>6. p \in Unlinkers(n)' BY <1>2 DEF Unlinkers
<1>7. ASSUME NEW s \in Sessions, Found(NameOf[s]),
             \A q \in {s} \X {"in", "out"} : pc[q] \notin {"deco", "bye"}
      PROVE  Found(NameOf[s])'
  <2>1. s # u BY <1>1, <1>7, <1>p
  <2>2. CASE NameOf[s] = n
    <3>1. Shared(n) BY <1>p, <2>1, <2>2 DEF Shared
    <3>2. Unlinkers(NameOf[s])' = Unlinkers(n)' BY <2>2 DEF Unlinkers
    <3>3. Shared(NameOf[s]) BY <2>2, <3>1
    <3> QED BY <1>6, <3>2, <3>3 DEF Found, Usurped
  <2>3. CASE NameOf[s] # n
    <3>1. \A m : Usurped(m) => Usurped(m)' BY <1>3, GoneStays
    <3>2. shm'[NameOf[s]] = shm[NameOf[s]] BY <1>4, <1>p, <2>3
    <3> QED BY <1>7, <3>1, <3>2 DEF Found
  <2> QED BY <2>2, <2>3
<1> HIDE DEF u, n
<1> QED BY <1>0, <1>1, <1>3, <1>5, <1>7, TableUntouched

LEMMA SubmitTable ==
  ASSUME IInv, TableInv, NEW p \in Procs, Submit(p), Roles', NotOff'
  PROVE  TableInv'
<1> DEFINE u == p[1]
<1>0. TypeOK /\ NamesKept /\ Roles /\ Joining /\ NullSlots
  BY DEF IInv, TableInv
<1>p. /\ \A s \in Sessions : <<s, "in">> \in Procs /\ <<s, "out">> \in Procs
      /\ u \in Sessions /\ (p = <<u, "in">> \/ p = <<u, "out">>)
  BY DEF Procs
<1>1. /\ UNCHANGED <<shm, requete, tab, nb_connect, fds>>
      /\ \/ /\ pc[p] = "connecting" /\ pc' = [pc EXCEPT ![p] = "fork"]
            /\ req' = [type |-> 0, content |-> NameOf[u]]
         \/ /\ pc[p] = "posting" /\ pc' = [pc EXCEPT ![p] = "read"] /\ req'.type = 1
         \/ /\ pc[p] = "quitting" /\ pc' = [pc EXCEPT ![p] = "deco"]
            /\ req' = [type |-> 2, content |-> NameOf[u]]
  BY DEF Submit, server, Writing
<1>2. /\ Staying
      /\ \A q \in Procs : pc'[q] \in Joins => pc[q] \in Joins
  BY <1>0, <1>1 DEF TypeOK, Staying, InHandler, Joins
<1>g. \A m : Usurped(m) => Usurped(m)' BY <1>2, GoneStays
<1>3. NullSlots' /\ CountedSlots' BY <1>1, <1>2, TableKept
<1>4. NamesKept' BY <1>0, <1>1 DEF NamesKept
<1>5. \A s \in Sessions : Found(NameOf[s]) => Found(NameOf[s])'
  BY <1>1, <1>g DEF Found
<1>6. Joining'
  <2> SUFFICES ASSUME NEW s \in Sessions, pc'[<<s, "out">>] \in Joins
               PROVE  Found(NameOf[s])'
    BY DEF Joining, Joins
  <2> QED BY <1>0, <1>2, <1>5, <1>p DEF Joining, Joins
<1>7. JoinTold'
  <2> SUFFICES ASSUME req'.type = 0
               PROVE  \E s \in Sessions :
                 /\ NameOf[s] = req'.content
                 /\ \A q \in {s} \X {"in", "out"} : pc'[q] \notin {"deco", "bye"}
                 /\ Found(req.content)'
    BY DEF JoinTold
  <2>1. /\ pc[p] = "connecting" /\ pc' = [pc EXCEPT ![p] = "fork"]
        /\ req'.content = NameOf[u]
    BY <1>1
  <2>2. p = <<u, "out">> BY <1>0, <1>p, <2>1 DEF Roles, InHandler
  <2>3. pc'[<<u, "out">>] = "fork" /\ pc'[<<u, "in">>] = "off"
    BY <1>0, <1>p, <2>1, <2>2 DEF Roles, TypeOK
  <2>4. Found(NameOf[u])'
    BY <1>0, <1>5, <1>p, <2>1, <2>2 DEF Joining
  <2>5. \A q \in {u} \X {"in", "out"} : pc'[q] \notin {"deco", "bye"} BY <2>3
  <2>6. Found(req.content)'
    BY <2>1, <2>4 DEF Found, Usurped, Shared, Unlinkers
  <2> QED BY <1>p, <2>1, <2>5, <2>6
<1>8. LeaveTold'
  <2> SUFFICES ASSUME req'.type = 2
               PROVE  \E q \in Leavers(req.content)' :
                 \A k \in Slots : Null(k) /\ tab[k].name = req'.content =>
                   fds = MaxFd \/ (Shared(req'.content)
                                     /\ Unlinkers(req.content)' \ {q} # {})
    BY <1>1 DEF LeaveTold, Null, Taken
  <2>1. /\ pc[p] = "quitting" /\ pc' = [pc EXCEPT ![p] = "deco"]
        /\ req'.content = NameOf[u]
    BY <1>1
  <2>2. p \in Leavers(req.content)'
    BY <1>0, <2>1 DEF Leavers, TypeOK, InHandler
  <2>3. ASSUME NEW k \in Slots, Null(k), tab[k].name = req'.content, fds # MaxFd
        PROVE  Shared(req'.content) /\ Unlinkers(req.content)' \ {p} # {}
    <3>1. Shared(tab[k].name) /\ Unlinkers(tab[k].name) # {}
      BY <1>0, <2>3 DEF NullSlots, Null
    <3>2. PICK q \in Procs : NameOf[q[1]] = tab[k].name /\ pc[q] = "gone"
      BY <3>1 DEF Unlinkers
    <3>3. q # p /\ pc'[q] = "gone" BY <1>0, <2>1, <3>2 DEF TypeOK
    <3>4. q \in Unlinkers(req.content)' BY <2>3, <3>2, <3>3 DEF Unlinkers
    <3>5. Shared(req'.content) BY <2>3, <3>1
    <3> QED BY <3>3, <3>4, <3>5
  <2> QED BY <2>2, <2>3
<1> QED BY <1>3, <1>4, <1>6, <1>7, <1>8 DEF TableInv

(* A set of slots has a first one.  The library orders finite sets by      *)
(* inclusion, and 0 .. n grows with n.                                     *)
LEMMA FirstIsLeast ==
  ASSUME NEW S \in SUBSET Nat, S # {}
  PROVE  First(S) \in S /\ \A j \in S : First(S) <= j
<1> DEFINE T == {0 .. n : n \in S}
<1>1. IsWellFoundedOn(StrictSubsetOrdering(Nat), FiniteSubsetsOf(Nat))
  BY FS_StrictSubsetOrderingWellFounded
<1>2. T \subseteq FiniteSubsetsOf(Nat) /\ T # {}
  <2>1. \A n \in S : 0 .. n \in SUBSET Nat OBVIOUS
  <2>2. \A n \in S : IsFiniteSet(0 .. n) BY FS_Interval
  <2> QED BY <2>1, <2>2 DEF FiniteSubsetsOf
<1>3. PICK x \in T : \A y \in T : ~ (<<y, x>> \in StrictSubsetOrdering(Nat))
  <2> HIDE DEF T
  <2> QED BY <1>1, <1>2, WFMin
<1>4. PICK k \in S : x = 0 .. k
  OBVIOUS
<1>5. ASSUME NEW j \in S, j < k PROVE FALSE
  <2>1. /\ 0 .. j \in SUBSET Nat /\ 0 .. k \in SUBSET Nat
        /\ 0 .. j \subseteq 0 .. k /\ k \in 0 .. k /\ k \notin 0 .. j
    BY <1>5
  <2>2. <<0 .. j, 0 .. k>> \in StrictSubsetOrdering(Nat)
    BY <2>1 DEF StrictSubsetOrdering
  <2> QED BY <1>3, <1>4, <2>2
<1>6. \E l \in S : \A j \in S : l <= j BY <1>5
<1> QED BY <1>6 DEF First

(* The slots that have a segment are finitely many. *)
Linked == {k \in Slots : tab[k].link # None}

LEMMA LinkedFinite == IsFiniteSet(Linked) /\ Cardinality(Linked) \in Nat
<1>1. IsFiniteSet(Slots) BY BoundAssumption, FS_Interval DEF Slots
<1>2. Linked \in SUBSET Slots BY DEF Linked
<1> QED BY <1>1, <1>2, FS_Subset, FS_CardinalityType

(* Why nb_connect may be below the number of segments. *)
Behind == fds = MaxFd \/ \E n \in Names :
  Shared(n) /\ \E p \in Unlinkers(n) : Leavers(n) \ {p} # {}

LEMMA CountedMeans ==
  /\ CountedSlots => nb_connect <= Cardinality(Linked)
                     /\ (nb_connect < Cardinality(Linked) => Behind)
  /\ nb_connect <= Cardinality(Linked) /\ (nb_connect < Cardinality(Linked) => Behind)
       => CountedSlots
BY DEF CountedSlots, Linked, Behind

(* While the server is at work nobody has told it of another request. *)
LEMMA Served ==
  ASSUME TypeOK, OneToken, Busy, srv' # "serve",
         sem'["prevenir_server"] = sem["prevenir_server"]
  PROVE  ~ Told'
BY DEF OneToken, TypeOK, Told, Semaphores

\* why a slot of that name may have no segment
Excused(n) == fds = MaxFd \/ (Shared(n) /\ Unlinkers(n) # {})

LEMMA ConnexionTable ==
  ASSUME IInv, TableInv, Connexion, Roles', NotOff'
  PROVE  TableInv'
<1> USE SessionAssumption, BoundAssumption
<1> DEFINE free == {k \in Slots : ~ Taken(k)}
           link == IF fds < MaxFd THEN shm[req.content] ELSE None
           entry == [name |-> req.content, link |-> link]
<1>0. TypeOK /\ OneToken /\ RequestFormed /\ NamesKept /\ Joining /\ JoinTold
      /\ NullSlots /\ CountedSlots
  BY DEF IInv, TableInv
<1>1. /\ srv = "serve" /\ srv' = "release" /\ req.type = 0
      /\ UNCHANGED <<sem, req, pc, shm, requete>>
  BY DEF Connexion, Serve, stock, client
<1>2. req.content \in Names /\ req.content # None /\ link \in Sessions \cup {None}
  <2>1. req.content \in Names BY <1>0, <1>1 DEF RequestFormed, Busy
  <2> QED BY <1>0, <2>1, NameAssumption DEF TypeOK, Names
<1>3. ~ Told' BY <1>0, <1>1, Served DEF Busy
<1>4. JoinTold' /\ LeaveTold' BY <1>3 DEF JoinTold, LeaveTold
<1>u. \A n : Unlinkers(n)' = Unlinkers(n) BY <1>1 DEF Unlinkers
<1>v. \A n : Leavers(n)' = Leavers(n) BY <1>1 DEF Leavers
<1>6. Joining' BY <1>0, <1>1, <1>u DEF Joining, Found, Usurped
<1>7. link = None => Excused(req.content)
  <2>1. CASE fds < MaxFd /\ shm[req.content] = None
    <3>1. Found(req.content) BY <1>0, <1>1 DEF JoinTold, Told
    <3> QED BY <2>1, <3>1 DEF Found, Usurped, Excused
  <2>2. CASE ~ (fds < MaxFd) BY <1>0, <2>2 DEF TypeOK, Excused
  <2> QED BY <2>1, <2>2
<1>b. Behind /\ fds' = fds => Behind' BY <1>u, <1>v DEF Behind
<1>8. CASE free = {}
  <2>1. UNCHANGED <<tab, nb_connect, fds>> BY <1>8 DEF Connexion
  <2>2. NamesKept' BY <1>0, <1>1, <2>1 DEF NamesKept
  <2>3. Staying BY <1>1 DEF Staying
  <2>4. NullSlots' /\ CountedSlots' BY <2>1, <2>3, TableKept
  <2> QED BY <1>4, <1>6, <2>2, <2>4 DEF TableInv
<1>9. CASE free # {}
  <2> DEFINE k0 == First(free)
  <2>1. k0 \in Slots /\ tab[k0].name = None
    <3>1. free \in SUBSET Nat BY DEF Slots
    <3>2. k0 \in free BY <1>9, <3>1, FirstIsLeast
    <3> QED BY <3>2 DEF Taken
  <2>2. /\ tab' = [tab EXCEPT ![k0] = entry]
        /\ IF link = None THEN UNCHANGED <<nb_connect, fds>>
           ELSE nb_connect' = nb_connect + 1 /\ fds' = fds + 1
    BY <1>9 DEF Connexion
  <2>l. tab[k0].link = None
    <3>1. tab[k0].link # None => tab[k0].link \in Sessions BY <1>0, <2>1 DEF TypeOK
    <3> QED BY <1>0, <2>1, <3>1, NameAssumption DEF NamesKept
  <2> HIDE DEF k0, link, free
  <2>3. \A k \in Slots : tab'[k] = IF k = k0 THEN entry ELSE tab[k]
    BY <1>0, <2>2 DEF TypeOK
  <2>4. entry.name = req.content /\ entry.link = link OBVIOUS
  <2>5. NamesKept'
    <3>1. link # None => link = shm[req.content] BY DEF link
    <3>2. link # None => NameOf[link] = req.content
      BY <1>0, <1>2, <3>1 DEF NamesKept
    <3> QED BY <1>0, <1>1, <1>2, <2>3, <2>4, <3>2 DEF NamesKept
  <2>f. fds = MaxFd => fds' = MaxFd
    <3>1. fds = MaxFd => link = None BY <1>0 DEF link, TypeOK
    <3> QED BY <2>2, <3>1
  <2>6. NullSlots'
    <3> SUFFICES ASSUME NEW k \in Slots, tab'[k].name # None, tab'[k].link = None
                 PROVE  fds' = MaxFd
                          \/ (Shared(tab'[k].name) /\ Unlinkers(tab[k].name)' # {})
      BY DEF NullSlots, Taken
    <3>1. CASE k = k0
      <4>1. tab'[k].name = req.content /\ link = None BY <2>3, <2>4, <3>1
      <4>2. Excused(tab'[k].name) BY <1>7, <4>1
      <4>3. Unlinkers(tab[k].name)' = Unlinkers(tab'[k].name)
        BY <1>1 DEF Unlinkers
      <4> QED BY <2>f, <4>2, <4>3 DEF Excused
    <3>2. CASE k # k0
      <4>1. tab'[k] = tab[k] BY <2>3, <3>2
      <4>2. Excused(tab'[k].name)
        BY <1>0, <4>1 DEF NullSlots, Taken, Excused
      <4>3. Unlinkers(tab[k].name)' = Unlinkers(tab'[k].name)
        BY <1>1 DEF Unlinkers
      <4> QED BY <2>f, <4>2, <4>3 DEF Excused
    <3> QED BY <3>1, <3>2
  <2>7. CountedSlots'
    <3>0. nb_connect \in Int /\ nb_connect' \in Int BY <1>0, <2>2 DEF TypeOK
    <3>1. CASE link = None
      <4>1. Linked' = Linked BY <2>1, <2>3, <2>4, <2>l, <3>1 DEF Linked
      <4>2. UNCHANGED <<nb_connect, fds>> BY <2>2, <3>1
      <4>3. nb_connect' <= Cardinality(Linked')
            /\ (nb_connect' < Cardinality(Linked') => Behind')
        BY <1>0, <1>b, <4>1, <4>2, CountedMeans
      <4> QED BY <4>3 DEF CountedSlots, Linked, Behind
    <3>2. CASE link # None
      <4>1. Linked' = Linked \cup {k0} /\ k0 \notin Linked
        BY <2>1, <2>3, <2>4, <2>l, <3>2 DEF Linked
      <4>2. Cardinality(Linked') = Cardinality(Linked) + 1
        BY <4>1, LinkedFinite, FS_AddElement
      <4>3. fds # MaxFd BY <1>0, <3>2 DEF link, TypeOK
      <4>4. nb_connect <= Cardinality(Linked) /\ (nb_connect < Cardinality(Linked) => Behind)
        BY <1>0, CountedMeans
      <4>5. Behind => Behind' BY <1>u, <1>v, <4>3 DEF Behind
      <4>6. nb_connect' <= Cardinality(Linked') /\ (nb_connect' < Cardinality(Linked') => Behind')
        BY <2>2, <3>0, <3>2, <4>2, <4>4, <4>5, LinkedFinite
      <4> QED BY <4>6 DEF CountedSlots, Linked, Behind
    <3> QED BY <3>1, <3>2
  <2> QED BY <1>4, <1>6, <2>5, <2>6, <2>7 DEF TableInv
<1> QED BY <1>8, <1>9

LEMMA DeconnexionTable ==
  ASSUME IInv, TableInv, Deconnexion, Roles', NotOff'
  PROVE  TableInv'
<1> USE SessionAssumption, BoundAssumption
<1> DEFINE same == Named(req.content)
<1>0. TypeOK /\ OneToken /\ RequestFormed /\ NamesKept /\ Joining /\ LeaveTold
      /\ NullSlots /\ CountedSlots
  BY DEF IInv, TableInv
<1>1. /\ srv = "serve" /\ srv' = "release" /\ req.type = 2
      /\ UNCHANGED <<req, pc, shm, requete, fds>>
      /\ sem'["prevenir_server"] = sem["prevenir_server"]
  <2>1. sem' = sem \/ V("deco_sem") BY DEF Deconnexion
  <2>2. sem'["prevenir_server"] = sem["prevenir_server"]
    BY <1>0, <2>1, Posted DEF Semaphores
  <2> QED BY <2>2 DEF Deconnexion, Serve, client
<1>2. req.content \in Names /\ req.content # None
  <2>1. req.content \in Names BY <1>0, <1>1 DEF RequestFormed, Busy
  <2> QED BY <2>1, NameAssumption DEF Names
<1>3. ~ Told' BY <1>0, <1>1, Served DEF Busy
<1>4. JoinTold' /\ LeaveTold' BY <1>3 DEF JoinTold, LeaveTold
<1>u. \A n : Unlinkers(n)' = Unlinkers(n) BY <1>1 DEF Unlinkers
<1>v. \A n : Leavers(n)' = Leavers(n) BY <1>1 DEF Leavers
<1>6. Joining' BY <1>0, <1>1, <1>u DEF Joining, Found, Usurped
<1>b. Behind => Behind' BY <1>1, <1>u, <1>v DEF Behind
<1>8. CASE same = {}
  <2>1. UNCHANGED <<tab, nb_connect>> BY <1>8 DEF Deconnexion
  <2>2. NamesKept' BY <1>0, <1>1, <2>1 DEF NamesKept
  <2>3. Staying BY <1>1 DEF Staying
  <2>4. NullSlots' /\ CountedSlots' BY <1>1, <2>1, <2>3, TableKept
  <2> QED BY <1>4, <1>6, <2>2, <2>4 DEF TableInv
<1>9. CASE same # {}
  <2> DEFINE k0 == First(same)
  <2>1. k0 \in Slots /\ tab[k0].name = req.content
    <3>1. same \in SUBSET Nat BY DEF Slots, Named
    <3>2. k0 \in same BY <1>9, <3>1, FirstIsLeast
    <3> QED BY <3>2 DEF Named
  <2>2. tab' = [tab EXCEPT ![k0] = Empty] /\ nb_connect' = nb_connect - 1
    BY <1>9 DEF Deconnexion, FreeSlot
  <2> HIDE DEF k0, same
  <2>3. \A k \in Slots : tab'[k] = IF k = k0 THEN Empty ELSE tab[k]
    BY <1>0, <2>2 DEF TypeOK
  <2>4. Empty.name = None /\ Empty.link = None BY DEF Empty
  <2>5. NamesKept' BY <1>0, <1>1, <2>3, <2>4 DEF NamesKept
  <2>6. NullSlots'
    <3> SUFFICES ASSUME NEW k \in Slots, tab'[k].name # None, tab'[k].link = None
                 PROVE  fds = MaxFd
                          \/ (Shared(tab'[k].name) /\ Unlinkers(tab[k].name)' # {})
      BY <1>1 DEF NullSlots, Taken
    <3>1. tab'[k] = tab[k] BY <2>3, <2>4
    <3>2. Excused(tab'[k].name) BY <1>0, <3>1 DEF NullSlots, Taken, Excused
    <3>3. Unlinkers(tab[k].name)' = Unlinkers(tab'[k].name) BY <1>1 DEF Unlinkers
    <3> QED BY <3>2, <3>3 DEF Excused
  <2>7. CountedSlots'
    <3>0. nb_connect \in Int /\ nb_connect' \in Int BY <1>0, <2>2 DEF TypeOK
    <3>1. nb_connect <= Cardinality(Linked) /\ (nb_connect < Cardinality(Linked) => Behind)
      BY <1>0, CountedMeans
    <3>2. Linked' = Linked \ {k0} BY <2>1, <2>3, <2>4 DEF Linked
    <3>3. CASE tab[k0].link # None
      <4>1. Cardinality(Linked') = Cardinality(Linked) - 1
        BY <2>1, <3>2, <3>3, LinkedFinite, FS_RemoveElement DEF Linked
      <4>2. nb_connect' <= Cardinality(Linked')
            /\ (nb_connect' < Cardinality(Linked') => Behind')
        BY <1>b, <2>2, <3>0, <3>1, <4>1, LinkedFinite
      <4> QED BY <4>2 DEF CountedSlots, Linked, Behind
    <3>4. CASE tab[k0].link = None
      <4>1. Linked' = Linked BY <3>2, <3>4 DEF Linked
      <4>2. Null(k0) BY <1>2, <2>1, <3>4 DEF Null, Taken
      <4>3. PICK p \in Leavers(req.content) :
              fds = MaxFd \/ (Shared(req.content) /\ Unlinkers(req.content) \ {p} # {})
        BY <1>0, <1>1, <2>1, <4>2 DEF LeaveTold, Told
      <4>4. Behind
        <5>1. CASE fds = MaxFd BY <5>1 DEF Behind
        <5>2. CASE Shared(req.content) /\ Unlinkers(req.content) \ {p} # {}
          <6>1. PICK q \in Unlinkers(req.content) : q # p BY <5>2
          <6>2. p \in Leavers(req.content) \ {q} BY <4>3, <6>1
          <6> QED BY <1>2, <5>2, <6>1, <6>2 DEF Behind
        <5> QED BY <4>3, <5>1, <5>2
      <4>5. nb_connect' <= Cardinality(Linked')
        BY <2>2, <3>0, <3>1, <4>1, LinkedFinite
      <4> QED BY <1>b, <4>4, <4>5 DEF CountedSlots, Linked, Behind
    <3> QED BY <3>3, <3>4
  <2> QED BY <1>4, <1>6, <2>5, <2>6, <2>7 DEF TableInv
<1> QED BY <1>8, <1>9

LEMMA InitTable == Init => TableInv
<1> SUFFICES ASSUME Init PROVE TableInv
    OBVIOUS
<1> USE DEF Init
<1>0. \A s \in Sessions : pc[<<s, "in">>] = "off" /\ pc[<<s, "out">>] = "off"
  BY DEF Procs
<1>1. Roles /\ NotOff /\ Joining
  BY <1>0 DEF Roles, NotOff, Joining
<1>2. ~ Told BY DEF Told, Semaphores
<1>3. NamesKept /\ NullSlots /\ JoinTold /\ LeaveTold
  BY <1>2 DEF NamesKept, NullSlots, Taken, JoinTold, LeaveTold, Empty
<1>4. Linked = {} BY DEF Linked, Empty
<1>5. Cardinality(Linked) = 0 BY <1>4, FS_EmptySet
<1>6. CountedSlots BY <1>5, CountedMeans
<1> QED BY <1>1, <1>3, <1>6 DEF TableInv

LEMMA TableStep == IInv /\ TableInv /\ [Next]_vars => TableInv'
<1> SUFFICES ASSUME IInv, TableInv, [Next]_vars PROVE TableInv'
    OBVIOUS
<1>1. Roles' /\ NotOff' BY RolesStep DEF IInv, TableInv
<1> QED
  BY <1>1, EasySession, EasyProcess, EasyServer, EasyTable, CreateTable, ExitTable,
     SubmitTable, ConnexionTable, DeconnexionTable DEF Next, Server, Session, User, Process

(* TableInv is inductive relative to IInv. *)
THEOREM TableInvariance == Spec => []TableInv
BY Invariance, InitTable, TableStep, PTL DEF Spec

(* A slot is named without a segment only when the server is out of        *)
(* descriptors, or when two sessions have the name and one of them has     *)
(* unlinked the segment: for any number of sessions, of names and of       *)
(* interruptions, also when two sessions pass the test of the name         *)
(* together and share one segment.                                         *)
THEOREM NullSlotsExplained == Spec => []NullSlots
<1>1. TableInv => NullSlots BY DEF TableInv
<1> QED BY TableInvariance, <1>1, PTL

(* Diffusion never waits for more answers than it has asked for, and for   *)
(* fewer only after a slot without a segment was freed.                    *)
THEOREM SlotsCounted == Spec => []CountedSlots
<1>1. TableInv => CountedSlots BY DEF TableInv
<1> QED BY TableInvariance, <1>1, PTL

(* Where names tell sessions apart, nobody is put out of the room but by a *)
(* disconnection one of its own processes has asked for.                   *)
THEOREM NobodyEvicted == DistinctNames => (Spec => OnlyLeaversLeave)
<1> SUFFICES ASSUME DistinctNames PROVE Spec => OnlyLeaversLeave
    OBVIOUS
<1> DEFINE Asked(s) == \E p \in {s} \X {"in", "out"} : pc[p] \in InHandler
           Evicts == \A s \in Members : s \notin Members' => Asked(s)
<1>1. ASSUME IInv, TableInv, Next PROVE Evicts
  <2>0. TypeOK /\ RequestFormed /\ NamesKept /\ LeaveTold BY <1>1 DEF IInv, TableInv
  <2>1. CASE UNCHANGED tab BY <2>1 DEF Members
  <2>2. CASE Connexion
    <3>1. \A s \in Members : s \in Members'
      <4> DEFINE free == {k \in Slots : ~ Taken(k)}
      <4>1. CASE free = {} BY <2>2, <4>1 DEF Connexion, Members
      <4>2. CASE free # {}
        <5>1. PICK e : tab' = [tab EXCEPT ![First(free)] = e]
          BY <2>2, <4>2 DEF Connexion
        <5>2. First(free) \in free
          <6>1. free \in SUBSET Nat BY BoundAssumption DEF Slots
          <6> QED BY <4>2, <6>1, FirstIsLeast
        <5>3. tab[First(free)].name = None BY <5>2 DEF Taken
        <5>4. tab[First(free)].link = None
          <6>1. tab[First(free)].link # None => tab[First(free)].link \in Sessions
            BY <2>0, <5>2 DEF TypeOK
          <6> QED BY <2>0, <5>2, <5>3, <6>1, NameAssumption DEF NamesKept
        <5> HIDE DEF free
        <5> QED BY <2>0, <5>1, <5>4 DEF Members, TypeOK
      <4> QED BY <4>1, <4>2
    <3> QED BY <3>1
  <2>3. CASE Deconnexion
    <3> DEFINE same == Named(req.content)
    <3>1. CASE same = {} BY <2>1, <2>3, <3>1 DEF Deconnexion
    <3>2. CASE same # {}
      <4>1. tab' = [tab EXCEPT ![First(same)] = Empty]
        BY <2>3, <3>2 DEF Deconnexion, FreeSlot
      <4>2. First(same) \in same
        <5>1. same \in SUBSET Nat BY BoundAssumption DEF Slots, Named
        <5> QED BY <3>2, <5>1, FirstIsLeast
      <4>3. First(same) \in Slots /\ tab[First(same)].name = req.content
        BY <4>2 DEF Named
      <4>4. PICK p \in Procs : NameOf[p[1]] = req.content /\ pc[p] \in InHandler
        BY <2>0, <2>3 DEF LeaveTold, Leavers, Told, Deconnexion, Serve
      <4>5. ASSUME NEW s \in Members, s \notin Members' PROVE Asked(s)
        <5>1. PICK k \in Slots : tab[k].link = s BY <4>5 DEF Members
        <5>2. s \in Sessions /\ s # None BY <2>0, <4>5, <5>1 DEF Members, TypeOK
        <5>3. k = First(same)
          <6> HIDE DEF same
          <6>1. k # First(same) => tab'[k] = tab[k] BY <2>0, <4>1, <5>1 DEF TypeOK
          <6> QED BY <4>5, <5>1, <5>2, <6>1 DEF Members
        <5>4. NameOf[s] = req.content
          <6>1. tab[k].name = req.content BY <4>3, <5>3
          <6>2. \A j \in Slots : tab[j].link # None => tab[j].name = NameOf[tab[j].link]
            BY <2>0 DEF NamesKept
          <6> HIDE DEF same
          <6>3. tab[k].name = NameOf[s] BY <5>1, <5>2, <6>2
          <6> QED BY <6>1, <6>3
        <5>5. p[1] = s BY <4>4, <5>2, <5>4, <1>1 DEF DistinctNames, Procs
        <5>6. p \in {s} \X {"in", "out"} BY <5>5 DEF Procs
        <5> QED BY <4>4, <5>5, <5>6
      <4> QED BY <4>5
    <3> QED BY <3>1, <3>2
  <2> QED
    BY <1>1, <2>1, <2>2, <2>3
    DEF Next, Server, ServerQuit, Session, User, Process, TakeRequest, BeginDiffusion,
      DiffuseSlot, EndDiffuse, Collect, EndCollect, Release, Start, Verify, Create,
      Truncate, InitSegment, Fork, InstallHandler, Await, Show, TypeLine, Interrupt,
      Acquire, Submit, TakeSignal, Exit, WaitDeco, server, stock
<1>2. IInv /\ TableInv /\ [Next]_vars => [Evicts]_vars BY <1>1
<1> QED BY Invariance, TableInvariance, <1>2, PTL DEF Spec, OnlyLeaversLeave
-----------------------------------------------------------------------------

(* Where names tell sessions apart and the server has a descriptor left,   *)
(* the table is exact: a slot that is named has a segment, diffusion waits *)
(* for as many answers as there are segments, and the client that asks to  *)
(* join has its own.                                                       *)
LEMMA Exact ==
  ASSUME DistinctNames, TypeOK, TableInv, fds # MaxFd
  PROVE  /\ \A k \in Slots : Taken(k) <=> tab[k].link # None
         /\ nb_connect = Cardinality(Linked)
         /\ Told /\ req.type = 0 =>
              \E s \in Sessions : NameOf[s] = req.content /\ shm[req.content] = s
<1>1. \A n : ~ Shared(n)
  BY DEF Shared, DistinctNames
<1>2. \A n : ~ Usurped(n)
  BY <1>1 DEF Usurped
<1>3. ~ Behind
  BY <1>1 DEF Behind
<1>4. \A k \in Slots : Taken(k) => tab[k].link # None
  BY <1>1 DEF TableInv, NullSlots
<1>5. ASSUME NEW k \in Slots, tab[k].link # None PROVE Taken(k)
  <2>1. tab[k].link \in Sessions BY <1>5 DEF TypeOK
  <2>2. tab[k].name = NameOf[tab[k].link] BY <1>5 DEF TableInv, NamesKept
  <2> QED BY <2>1, <2>2, NameAssumption DEF Taken
<1>6. nb_connect = Cardinality(Linked)
  <2>1. nb_connect \in Int BY DEF TypeOK
  <2>2. nb_connect <= Cardinality(Linked) /\ ~ (nb_connect < Cardinality(Linked))
    BY <1>3, CountedMeans DEF TableInv
  <2> QED BY <2>1, <2>2, LinkedFinite
<1>7. Told /\ req.type = 0 =>
        \E s \in Sessions : NameOf[s] = req.content /\ shm[req.content] = s
  <2> SUFFICES ASSUME Told, req.type = 0
               PROVE  \E s \in Sessions : NameOf[s] = req.content /\ shm[req.content] = s
    OBVIOUS
  <2>1. PICK s \in Sessions : NameOf[s] = req.content /\ Found(req.content)
    BY DEF TableInv, JoinTold
  <2>2. shm[req.content] # None BY <1>2, <2>1 DEF Found
  <2>3. req.content \in Names BY <2>1 DEF Names
  <2>4. shm[req.content] \in Sessions BY <2>2, <2>3 DEF TypeOK
  <2>5. NameOf[shm[req.content]] = req.content BY <2>2, <2>3 DEF TableInv, NamesKept
  <2> QED BY <2>1, <2>4, <2>5 DEF DistinctNames
<1> QED BY <1>4, <1>5, <1>6, <1>7

(* A member has one slot, so there are as many members as segments. *)
LEMMA MembersCounted ==
  ASSUME TypeOK, OneSlot
  PROVE  IsFiniteSet(Members) /\ Cardinality(Members) = Cardinality(Linked)
<1> DEFINE f == [k \in Linked |-> tab[k].link]
<1>1. f \in [Linked -> Members]
  BY DEF Linked, Members
<1>2. \A j, k \in Linked : f[j] = f[k] => j = k
  BY DEF Linked, OneSlot
<1>3. \A s \in Members : \E k \in Linked : f[k] = s
  BY DEF Linked, Members
<1>4. f \in Bijection(Linked, Members)
  BY <1>1, <1>2, <1>3 DEF Bijection, Injection, Surjection, IsInjective
<1>5. ExistsBijection(Linked, Members)
  BY <1>4 DEF ExistsBijection
<1> QED BY <1>5, LinkedFinite, FS_Bijection

(* The members a broadcast has reached are finitely many. *)
LEMMA ReachedFinite ==
  ASSUME TypeOK, OneSlot
  PROVE  /\ Reached \subseteq Members /\ Displayed \subseteq Reached
         /\ IsFiniteSet(Displayed) /\ Cardinality(Displayed) \in Nat
<1>1. Reached \subseteq Members BY DEF Reached, Members
<1>2. Displayed \subseteq Reached BY DEF Displayed
<1>3. Displayed \in SUBSET Members BY <1>1, <1>2
<1> QED BY <1>1, <1>2, <1>3, MembersCounted, FS_Subset, FS_CardinalityType

\* before a session asks for its slot; while it does with a segment of its size
Outside == Entry \cup {"off", "refused", "connecting"}
Sized == {"init", "connect", "connecting"}

(* A step that touches neither the table nor the request nor what the      *)
(* members display, and hands no line on, is invisible to the room: it may *)
(* prepare the segment of a session that is not in it.                     *)
LEMMA RoomStays ==
  ASSUME TypeOK, RoomInv,
         UNCHANGED <<tab, nb_connect, i, req, box, shown>>,
         sem'["fin_diffusion"] = sem["fin_diffusion"],
         srv' = srv \/ {srv, srv'} \subseteq {"wait", "serve", "release"},
         Told' => Told,
         \A s \in Sessions :
           /\ requete'[s] \in {s, requete[s]}
           /\ \/ autoris_diff'[s] = autoris_diff[s]
              \/ pc[<<s, "out">>] \in Outside /\ autoris_diff'[s] = 0
           /\ pc'[<<s, "out">>] \in Sized => pc[<<s, "out">>] \in Sized \/ autoris_diff'[s] = 0
           /\ pc'[<<s, "out">>] \in Outside => pc[<<s, "out">>] \in Outside
           /\ pc'[<<s, "out">>] = "show" => pc[<<s, "out">>] = "show",
         \A m : Sent(m) => Sent(m)'
  PROVE  RoomInv' /\ [Room!Next]_Room!vars
<1>1. /\ Broadcasting' = Broadcasting
      /\ (srv' = "collect") <=> (srv = "collect")
      /\ (srv' = "diffuse") <=> (srv = "diffuse")
  BY DEF Broadcasting
<1>2. Reached' = Reached /\ Members' = Members
  BY <1>1 DEF Reached, Members
<1>3. \A s, m : Shown(s, m)' <=> Shown(s, m)
  BY DEF Shown
<1>4. Displayed' = Displayed
  BY <1>2, <1>3 DEF Displayed
<1>z. 0 # Unsized BY DEF Unsized
<1>5. Mapped'
  BY <1>z DEF RoomInv, Mapped, Sized
<1>6. OneSlot'
  <2>1. \A s \in Sessions : /\ Entering(s)' => Entering(s)
                            /\ (s \in Members' <=> s \in Members)
    BY <1>2 DEF Entering
  <2>2. \A s \in Sessions : Asking(s)' => Asking(s) BY <2>1 DEF Asking
  <2>3. ASSUME NEW s \in Sessions, Asking(s)
        PROVE  pc'[<<s, "out">>] \notin Outside /\ autoris_diff'[s] # Unsized
    BY <1>z, <2>3 DEF RoomInv, OneSlot, Outside
  <2> QED BY <2>1, <2>2, <2>3 DEF RoomInv, OneSlot, Outside
<1>7. SentOnce'
  BY <1>1, <1>3 DEF RoomInv, SentOnce
<1>8. Tokens'
  <2>1. ASSUME NEW s \in Sessions
        PROVE  /\ s \in Reached \ Displayed => autoris_diff'[s] = autoris_diff[s]
               /\ autoris_diff'[s] \in {autoris_diff[s], 0}
    <3>1. s \in Reached => s \in Members BY DEF Reached, Members
    <3>2. s \in Members => pc[<<s, "out">>] \notin Outside
      BY DEF RoomInv, OneSlot, Asking, Outside
    <3> QED BY <3>1, <3>2
  <2>2. \A s \in Sessions : Shown(s, req.content)' <=> Shown(s, req.content)
    BY DEF Shown
  <2>3. ASSUME NEW s \in Sessions
        PROVE  /\ s \in Reached \ Displayed =>
                     /\ box[s] = req.content /\ autoris_diff'[s] <= 1
                     /\ pc'[<<s, "out">>] = "show" => autoris_diff'[s] = 0
               /\ s \notin Reached \ Displayed =>
                     autoris_diff'[s] <= 0 /\ pc'[<<s, "out">>] # "show"
    <3>1. CASE s \in Reached \ Displayed BY <2>1, <3>1 DEF RoomInv, Tokens
    <3>2. CASE s \notin Reached \ Displayed
      <4>1. autoris_diff[s] <= 0 /\ pc[<<s, "out">>] # "show"
        BY <3>2 DEF RoomInv, Tokens
      <4> QED BY <2>1, <3>2, <4>1
    <3> QED BY <3>1, <3>2
  <2> QED BY <1>1, <1>2, <1>4, <2>2, <2>3 DEF RoomInv, Tokens
<1>9. AnswersCounted'
  BY <1>1, <1>4 DEF RoomInv, AnswersCounted
<1>10. [Room!Next]_Room!vars
  <2>1. UNCHANGED <<req, shown, Members>> /\ Broadcasting' = Broadcasting
    BY <1>1, <1>2
  <2> QED BY <2>1 DEF Room!vars, Broadcasting
<1> QED BY <1>5, <1>6, <1>7, <1>8, <1>9, <1>10 DEF RoomInv

(* Connecting, typing, signals and exits change nothing the room shows.    *)
LEMMA QuietSteps ==
  ASSUME DistinctNames, IInv, TableInv, RoomInv,
         \/ \E s \in Sessions : \/ Start(s) \/ Verify(s) \/ Create(s) \/ Truncate(s)
                                \/ InitSegment(s) \/ Fork(s) \/ InstallHandler(s)
                                \/ TypeLine(s) \/ Interrupt(s)
         \/ \E p \in Procs : Acquire(p) \/ TakeSignal(p) \/ WaitDeco(p) \/ Exit(p)
         \/ TakeRequest \/ Release \/ ServerQuit \/ UNCHANGED vars
  PROVE  RoomInv' /\ [Room!Next]_Room!vars
<1> USE SessionAssumption
<1>0. TypeOK /\ NotOff /\ NamesKept /\ Opened /\ Mapped
  BY DEF IInv, TableInv, RoomInv
<1>p. /\ \A s \in Sessions : /\ <<s, "in">> \in Procs /\ <<s, "out">> \in Procs
                             /\ <<s, "in">> # <<s, "out">> /\ NameOf[s] \in Names
      /\ \A s, t \in Sessions : s # t => /\ <<s, "out">> # <<t, "out">>
                                         /\ <<s, "in">> # <<t, "in">>
  BY DEF Procs, Names
<1> DEFINE Tame == \A p \in Procs :
             /\ pc'[p] \in Outside => pc[p] \in Outside
             /\ pc'[p] = "show" => pc[p] = "show"
             /\ pc'[p] \in {"post", "posting"} => pc[p] \in {"post", "posting"}
           Calm == \A p \in Procs : pc'[p] \in Sized => pc[p] \in Sized
           Kin == \A m : Sent(m) => Sent(m)'
           Still == /\ UNCHANGED <<tab, nb_connect, i, req, box, shown>>
                    /\ sem'["fin_diffusion"] = sem["fin_diffusion"]
                    /\ srv' = srv \/ {srv, srv'} \subseteq {"wait", "serve", "release"}
                    /\ Told' => Told
           Safe == \A s \in Sessions :
             /\ requete'[s] \in {s, requete[s]}
             /\ \/ autoris_diff'[s] = autoris_diff[s]
                \/ pc[<<s, "out">>] \in Outside /\ autoris_diff'[s] = 0
             /\ pc'[<<s, "out">>] \in Sized => pc[<<s, "out">>] \in Sized \/ autoris_diff'[s] = 0
             /\ pc'[<<s, "out">>] \in Outside => pc[<<s, "out">>] \in Outside
             /\ pc'[<<s, "out">>] = "show" => pc[<<s, "out">>] = "show"
<1>k. lines' = lines /\ Tame => Kin
  BY <1>p DEF Sent, Lines
<1>s. Tame /\ Calm /\ UNCHANGED <<requete, autoris_diff>> => Safe
  BY <1>p
<1>1. ASSUME NEW s \in Sessions,
             \/ Start(s) \/ Verify(s) \/ Create(s) \/ Truncate(s) \/ InitSegment(s)
             \/ Fork(s) \/ InstallHandler(s) \/ TypeLine(s) \/ Interrupt(s)
      PROVE  Still /\ Kin /\ Safe
  <2>1. Still
    BY <1>1 DEF Start, Verify, Create, Truncate, InitSegment, Fork, InstallHandler, TypeLine,
      Interrupt, stock, server, segment, user, Told
  <2>2. CASE Start(s) \/ Verify(s) \/ Create(s) \/ Truncate(s) \/ InitSegment(s)
    <3>1. PICK to \in Entry \cup {"refused"} : pc' = [pc EXCEPT ![<<s, "out">>] = to]
      BY <2>2 DEF Start, Verify, Create, Truncate, InitSegment, Goto, Entry
    <3>2. /\ pc[<<s, "out">>] \in Entry \cup {"off"} /\ lines' = lines
          /\ to \in Sized => Truncate(s) \/ InitSegment(s)
      <4>1. pc[<<s, "out">>] \in Entry \cup {"off"} /\ lines' = lines
        BY <2>2 DEF Start, Verify, Create, Truncate, InitSegment, Goto, Entry, user
      <4>2. pc'[<<s, "out">>] = to BY <1>0, <1>p, <3>1 DEF TypeOK
      <4>3. CASE Start(s) \/ Verify(s) \/ Create(s)
        <5>1. pc'[<<s, "out">>] \in {"refused", "verify", "create", "truncate"}
          BY <1>0, <1>p, <4>3 DEF Start, Verify, Create, Goto, TypeOK
        <5> QED BY <4>1, <4>2, <5>1 DEF Sized
      <4> QED BY <2>2, <4>1, <4>3
    <3>3. Tame
      BY <1>0, <3>1, <3>2 DEF TypeOK, Outside, Entry
    <3>4. \A u \in Sessions : u # s => pc'[<<u, "out">>] = pc[<<u, "out">>]
      BY <1>0, <1>p, <3>1 DEF TypeOK
    <3>5. pc[<<s, "out">>] \in Outside BY <3>2 DEF Outside
    <3>6. pc'[<<s, "out">>] = to BY <1>0, <1>p, <3>1 DEF TypeOK
    <3>7. CASE Start(s) \/ Verify(s)
      <4>1. UNCHANGED <<requete, autoris_diff>> /\ to \notin Sized
        BY <1>0, <1>p, <3>6, <3>7 DEF Start, Verify, Goto, TypeOK, segment, Sized
      <4>2. Calm BY <1>0, <3>1, <4>1 DEF TypeOK
      <4> QED BY <1>k, <1>s, <2>1, <3>2, <3>3, <4>1, <4>2
    <3>8. CASE Create(s)
      <4>1. /\ shm' = [shm EXCEPT ![NameOf[s]] = IF @ = None THEN s ELSE @]
            /\ requete' = [requete EXCEPT ![s] = shm'[NameOf[s]]]
            /\ autoris_diff' = autoris_diff /\ to = "truncate"
        BY <1>0, <1>p, <3>6, <3>8 DEF Create, Goto, TypeOK, segment
      <4>2. shm'[NameOf[s]] = IF shm[NameOf[s]] = None THEN s ELSE shm[NameOf[s]]
        BY <1>0, <1>p, <4>1 DEF TypeOK
      <4>3. shm[NameOf[s]] # None => shm[NameOf[s]] = s
        <5>1. shm[NameOf[s]] \in Sessions \cup {None} BY <1>0, <1>p DEF TypeOK
        <5>2. shm[NameOf[s]] # None => NameOf[shm[NameOf[s]]] = NameOf[s]
          BY <1>0, <1>p DEF NamesKept
        <5> QED BY <5>1, <5>2 DEF DistinctNames
      <4>4. \A u \in Sessions : requete'[u] \in {u, requete[u]}
        BY <1>0, <4>1, <4>2, <4>3 DEF TypeOK
      <4>5. Calm BY <1>0, <3>1, <4>1 DEF TypeOK, Sized
      <4>6. Safe BY <1>p, <3>3, <4>1, <4>4, <4>5
      <4> QED BY <1>k, <2>1, <3>2, <3>3, <4>6
    <3>9. CASE Truncate(s) \/ InitSegment(s)
      <4>1. requete[s] = s
        <5>1. pc[<<s, "out">>] \in {"truncate", "init"}
          BY <3>9 DEF Truncate, InitSegment, Goto
        <5> QED BY <1>0, <5>1 DEF Opened, Mapped, InHandler
      <4>2. autoris_diff[s] <= 0 /\ autoris_diff[s] \in {0, Unsized}
        <5>1. s \notin Reached
          <6>1. s \notin Members
            BY <3>5 DEF RoomInv, OneSlot, Asking, Outside
          <6> QED BY <6>1 DEF Reached, Members
        <5>2. autoris_diff[s] <= 0 BY <5>1 DEF RoomInv, Tokens
        <5> QED BY <1>0, <5>2 DEF TypeOK
      <4>3. autoris_diff' = [autoris_diff EXCEPT ![s] = 0] /\ requete' = requete
        <5>1. CASE Truncate(s) BY <4>1, <4>2, <5>1 DEF Truncate
        <5>2. CASE InitSegment(s) BY <4>1, <5>2 DEF InitSegment
        <5> QED BY <3>9, <5>1, <5>2
      <4>4. /\ autoris_diff'[s] = 0
            /\ \A u \in Sessions : u # s => autoris_diff'[u] = autoris_diff[u]
        BY <1>0, <4>3 DEF TypeOK
      <4>5. Safe
        <5> SUFFICES ASSUME NEW u \in Sessions
                     PROVE
             /\ requete'[u] \in {u, requete[u]}
             /\ \/ autoris_diff'[u] = autoris_diff[u]
                \/ pc[<<u, "out">>] \in Outside /\ autoris_diff'[u] = 0
             /\ pc'[<<u, "out">>] \in Sized => pc[<<u, "out">>] \in Sized \/ autoris_diff'[u] = 0
             /\ pc'[<<u, "out">>] \in Outside => pc[<<u, "out">>] \in Outside
             /\ pc'[<<u, "out">>] = "show" => pc[<<u, "out">>] = "show"
          OBVIOUS
        <5>1. CASE u = s BY <1>p, <3>3, <3>5, <4>3, <4>4, <5>1
        <5>2. CASE u # s BY <1>p, <3>3, <3>4, <4>3, <4>4, <5>2
        <5> QED BY <5>1, <5>2
      <4> QED BY <1>k, <2>1, <3>2, <3>3, <4>5
    <3> QED BY <2>2, <3>7, <3>8, <3>9
  <2>3. CASE Fork(s) \/ InstallHandler(s) \/ Interrupt(s)
    <3>1. \A p \in Procs : pc'[p] = pc[p] \/ pc'[p] \in {"install", "read", "quit", "await"}
      BY <1>0, <1>p, <2>3 DEF Fork, InstallHandler, Interrupt, Goto, TypeOK
    <3>2. Tame /\ Calm BY <3>1 DEF Outside, Sized, Entry
    <3>3. UNCHANGED <<lines, requete, autoris_diff>>
      BY <2>3 DEF Fork, InstallHandler, Interrupt, user, segment
    <3> QED BY <1>k, <1>s, <2>1, <3>2, <3>3
  <2>4. CASE TypeLine(s)
    <3>1. /\ pc' = [pc EXCEPT ![<<s, "in">>] = "post"]
          /\ lines' = [lines EXCEPT ![s] = @ + 1]
          /\ UNCHANGED <<requete, autoris_diff>>
      BY <2>4 DEF TypeLine, Goto, segment
    <3>2. Kin
      <4> SUFFICES ASSUME NEW m, Sent(m) PROVE Sent(m)'
        OBVIOUS
      <4>1. m \in Lines /\ m[1] \in Sessions /\ m[2] \in Nat BY DEF Sent, Lines
      <4>2. CASE m[1] = s
        BY <1>0, <3>1, <4>1, <4>2 DEF Sent, TypeOK, Lines
      <4>3. CASE m[1] # s
        <5>1. <<m[1], "in">> # <<s, "in">> /\ <<m[1], "in">> \in Procs
          BY <1>p, <4>1, <4>3
        <5>2. pc'[<<m[1], "in">>] = pc[<<m[1], "in">>] /\ lines'[m[1]] = lines[m[1]]
          BY <1>0, <3>1, <4>1, <4>3, <5>1 DEF TypeOK
        <5> QED BY <5>2 DEF Sent, Lines
      <4> QED BY <4>2, <4>3
    <3>3. \A u \in Sessions : pc'[<<u, "out">>] = pc[<<u, "out">>]
      <4>1. \A u \in Sessions : <<u, "out">> # <<s, "in">> OBVIOUS
      <4> QED BY <1>0, <1>p, <3>1, <4>1 DEF TypeOK
    <3>4. Safe BY <3>1, <3>3
    <3> QED BY <2>1, <3>2, <3>4
  <2> QED BY <1>1, <2>2, <2>3, <2>4
<1>2. ASSUME NEW p \in Procs, Acquire(p) \/ TakeSignal(p) \/ WaitDeco(p) \/ Exit(p)
      PROVE  Still /\ Tame /\ Calm /\ UNCHANGED <<lines, requete, autoris_diff>>
  <2>1. Still /\ UNCHANGED <<lines, requete, autoris_diff>>
    <3>1. CASE Acquire(p)
      <4>1. /\ sem'["prevenir_server"] = sem["prevenir_server"]
            /\ sem'["fin_diffusion"] = sem["fin_diffusion"]
        BY <1>0, <3>1, Waited DEF Acquire, Semaphores
      <4> QED BY <3>1, <4>1 DEF Acquire, server, segment, user, Told
    <3>2. CASE WaitDeco(p)
      <4>1. /\ sem'["prevenir_server"] = sem["prevenir_server"]
            /\ sem'["fin_diffusion"] = sem["fin_diffusion"]
        BY <1>0, <3>2, Waited DEF WaitDeco, Semaphores
      <4> QED BY <3>2, <4>1 DEF WaitDeco, server, segment, user, Told
    <3> QED BY <1>2, <3>1, <3>2 DEF TakeSignal, Exit, stock, server, segment, user, Told
  <2>2. \E to \in InHandler \cup {"connecting", "posting", pc[p]} :
          /\ pc' = [pc EXCEPT ![p] = to]
          /\ to = "connecting" => pc[p] \in {"connect", "connecting"}
          /\ to = "posting" => pc[p] \in {"post", "posting"}
    <3>1. CASE Acquire(p)
      <4>1. CASE pc[p] = "connect"
        <5> WITNESS "connecting" \in InHandler \cup {"connecting", "posting", pc[p]}
        <5> QED BY <3>1, <4>1 DEF Acquire
      <4>2. CASE pc[p] = "post"
        <5> WITNESS "posting" \in InHandler \cup {"connecting", "posting", pc[p]}
        <5> QED BY <3>1, <4>2 DEF Acquire
      <4>3. CASE pc[p] \notin {"connect", "post"}
        <5>1. pc' = [pc EXCEPT ![p] = "quitting"] BY <3>1, <4>3 DEF Acquire
        <5> QED BY <5>1 DEF InHandler
      <4> QED BY <4>1, <4>2, <4>3
    <3>2. CASE TakeSignal(p)
      <4>1. PICK to \in Interrupted(pc[p]) : pc' = [pc EXCEPT ![p] = to]
        BY <3>2 DEF TakeSignal, Goto
      <4>2. to \in InHandler \/ to = pc[p]
        BY <4>1 DEF Interrupted, Ended, Writing, InHandler
      <4>3. /\ to = "connecting" => pc[p] \in {"connect", "connecting"}
            /\ to = "posting" => pc[p] \in {"post", "posting"}
        BY <4>2 DEF InHandler
      <4> QED BY <4>1, <4>2, <4>3
    <3>3. CASE WaitDeco(p) \/ Exit(p) BY <3>3 DEF WaitDeco, Exit, Goto, InHandler
    <3> QED BY <1>2, <3>1, <3>2, <3>3
  <2>3. PICK to \in InHandler \cup {"connecting", "posting", pc[p]} :
          /\ pc' = [pc EXCEPT ![p] = to]
          /\ to = "connecting" => pc[p] \in {"connect", "connecting"}
          /\ to = "posting" => pc[p] \in {"post", "posting"}
    BY <2>2
  <2>4. \A q \in Procs : pc'[q] = IF q = p THEN to ELSE pc[q]
    BY <1>0, <2>3 DEF TypeOK
  <2>5. Tame /\ Calm
    BY <2>3, <2>4 DEF Outside, Sized, InHandler, Entry
  <2> QED BY <2>1, <2>5
<1>3. ASSUME TakeRequest \/ Release \/ ServerQuit \/ UNCHANGED vars
      PROVE  Still /\ UNCHANGED <<pc, lines, requete, autoris_diff>>
  <2>1. UNCHANGED <<pc, tab, nb_connect, i, req, requete, autoris_diff, box, shown, lines>>
    BY <1>3 DEF TakeRequest, Release, ServerQuit, vars, stock, server, client, segment
  <2>2. sem'["fin_diffusion"] = sem["fin_diffusion"]
    <3>1. CASE TakeRequest \/ Release
      BY <1>0, <3>1, Waited, Posted DEF TakeRequest, Release, Semaphores
    <3>2. CASE ServerQuit \/ UNCHANGED vars
      BY <3>2 DEF ServerQuit, vars, stock
    <3> QED BY <1>3, <3>1, <3>2
  <2>3. (Told' => Told)
        /\ (srv' = srv \/ {srv, srv'} \subseteq {"wait", "serve", "release"})
    <3>1. CASE TakeRequest BY <3>1 DEF TakeRequest, P, Told
    <3>2. CASE Release
      <4>1. sem'["prevenir_server"] = sem["prevenir_server"]
        BY <1>0, <3>2, Posted DEF Release, Semaphores
      <4> QED BY <3>2, <4>1 DEF Release, Told
    <3>3. CASE ServerQuit \/ UNCHANGED vars
      BY <3>3 DEF ServerQuit, vars, stock, server, Told
    <3> QED BY <1>3, <3>1, <3>2, <3>3
  <2> QED BY <2>1, <2>2, <2>3
<1>4. Still /\ Kin /\ Safe
  <2>1. CASE \E s \in Sessions :
               \/ Start(s) \/ Verify(s) \/ Create(s) \/ Truncate(s) \/ InitSegment(s)
               \/ Fork(s) \/ InstallHandler(s) \/ TypeLine(s) \/ Interrupt(s)
    BY <1>1, <2>1
  <2>2. CASE \E p \in Procs : Acquire(p) \/ TakeSignal(p) \/ WaitDeco(p) \/ Exit(p)
    <3>1. Still /\ Tame /\ Calm /\ UNCHANGED <<lines, requete, autoris_diff>>
      BY <1>2, <2>2
    <3> QED BY <1>k, <1>s, <3>1
  <2>3. CASE TakeRequest \/ Release \/ ServerQuit \/ UNCHANGED vars
    <3>1. Still /\ UNCHANGED <<pc, lines, requete, autoris_diff>> BY <1>3, <2>3
    <3>2. Tame /\ Calm BY <3>1
    <3> QED BY <1>k, <1>s, <3>1, <3>2
  <2> QED BY <2>1, <2>2, <2>3
<1> QED BY <1>0, <1>4, RoomStays

(* A display process that takes its token is about to display the line.    *)
LEMMA AwaitStep ==
  ASSUME IInv, RoomInv, NEW s \in Sessions, Await(s)
  PROVE  RoomInv' /\ [Room!Next]_Room!vars
<1>0. TypeOK /\ Mapped /\ OneSlot /\ SentOnce /\ Tokens /\ AnswersCounted
  BY DEF IInv, RoomInv
<1>r. requete[s] = s
  <2>1. requete[s] # None BY DEF IInv, Opened, Await, Goto, InHandler
  <2> QED BY <1>0, <2>1 DEF Mapped
<1>p. \A u \in Sessions : /\ <<u, "in">> \in Procs /\ <<u, "out">> \in Procs
                          /\ <<u, "in">> # <<s, "out">>
  BY DEF Procs
<1>1. /\ UNCHANGED <<tab, nb_connect, i, req, box, shown, sem, srv, lines, requete>>
      /\ autoris_diff[s] > 0
      /\ pc[<<s, "out">>] = "await" /\ pc' = [pc EXCEPT ![<<s, "out">>] = "show"]
      /\ autoris_diff' = [autoris_diff EXCEPT ![s] = @ - 1]
  BY <1>r DEF Await, Goto, stock, server, user
<1>2. UNCHANGED <<Reached, Displayed, Members, Broadcasting, Told>>
  BY <1>1 DEF Reached, Displayed, Shown, Members, Broadcasting, Told
<1>3. \A u \in Sessions : /\ pc'[<<u, "in">>] = pc[<<u, "in">>]
                          /\ u # s => /\ pc'[<<u, "out">>] = pc[<<u, "out">>]
                                      /\ autoris_diff'[u] = autoris_diff[u]
  BY <1>0, <1>1, <1>p DEF TypeOK
<1>4. pc'[<<s, "out">>] = "show" /\ autoris_diff'[s] = autoris_diff[s] - 1
  BY <1>0, <1>1, <1>p DEF TypeOK
<1>a. autoris_diff[s] \in Nat BY <1>0, <1>1 DEF TypeOK, Unsized
<1>b. \A u \in Sessions : autoris_diff[u] # Unsized => autoris_diff'[u] # Unsized
  BY <1>1, <1>3, <1>4, <1>a DEF Unsized
<1>c. pc'[<<s, "out">>] \notin Outside BY <1>4 DEF Outside, Entry
<1>m. Mapped'
  BY <1>0, <1>1, <1>3, <1>4, <1>b DEF Mapped
<1>5. OneSlot'
  BY <1>0, <1>1, <1>2, <1>3, <1>b, <1>c DEF OneSlot, Asking, Entering, Outside
<1>6. SentOnce'
  <2>1. \A m : Sent(m)' <=> Sent(m) BY <1>1, <1>3 DEF Sent, Lines
  <2>2. \A u, m : Shown(u, m)' <=> Shown(u, m) BY <1>1 DEF Shown
  <2> QED BY <1>0, <1>1, <1>2, <2>1, <2>2 DEF SentOnce
<1>7. Tokens'
  <2>2. s \in Reached \ Displayed BY <1>0, <1>1, <1>a DEF Tokens
  <2>3. autoris_diff[s] = 1 /\ box[s] = req.content
    BY <1>0, <1>1, <1>a, <2>2 DEF Tokens
  <2>4. \A u \in Sessions : Shown(u, req.content)' <=> Shown(u, req.content)
    BY <1>1 DEF Shown
  <2>5. ASSUME NEW u \in Sessions
        PROVE  /\ u \in Reached \ Displayed =>
                     /\ box[u] = req.content /\ autoris_diff'[u] <= 1
                     /\ pc'[<<u, "out">>] = "show" => autoris_diff'[u] = 0
               /\ u \notin Reached \ Displayed =>
                     autoris_diff'[u] <= 0 /\ pc'[<<u, "out">>] # "show"
    <3>1. CASE u = s BY <1>4, <2>2, <2>3, <3>1
    <3>2. CASE u # s BY <1>0, <1>3, <3>2 DEF Tokens
    <3> QED BY <3>1, <3>2
  <2> QED BY <1>0, <1>1, <1>2, <2>4, <2>5 DEF Tokens
<1>8. AnswersCounted' BY <1>0, <1>1, <1>2 DEF AnswersCounted
<1>9. [Room!Next]_Room!vars
  BY <1>1, <1>2 DEF Room!vars
<1> QED BY <1>m, <1>5, <1>6, <1>7, <1>8, <1>9 DEF RoomInv

(* Displaying is the room's Display: the line shown is the one broadcast.  *)
LEMMA ShowStep ==
  ASSUME IInv, RoomInv, NEW s \in Sessions, Show(s)
  PROVE  RoomInv' /\ [Room!Next]_Room!vars
<1>0. TypeOK /\ OneToken /\ Mapped /\ OneSlot /\ SentOnce /\ Tokens /\ AnswersCounted
  BY DEF IInv, RoomInv
<1>r. requete[s] = s
  <2>1. requete[s] # None BY DEF IInv, Opened, Show, Goto, InHandler
  <2> QED BY <1>0, <2>1 DEF Mapped
<1>p. \A u \in Sessions : /\ <<u, "in">> \in Procs /\ <<u, "out">> \in Procs
                          /\ <<u, "in">> # <<s, "out">>
  BY DEF Procs
<1>1. /\ UNCHANGED <<tab, nb_connect, i, req, box, autoris_diff, srv, lines, requete>>
      /\ pc[<<s, "out">>] = "show" /\ pc' = [pc EXCEPT ![<<s, "out">>] = "await"]
      /\ shown' = [shown EXCEPT ![s] = Append(@, box[s])]
      /\ V("fin_diffusion")
  BY <1>r DEF Show, Goto, server, segment
<1>2. s \in Reached \ Displayed /\ box[s] = req.content /\ autoris_diff[s] = 0
  BY <1>0, <1>1 DEF Tokens, TypeOK
<1>3. Broadcasting
  BY <1>2 DEF Reached, Broadcasting
<1>4. /\ sem'["fin_diffusion"] = sem["fin_diffusion"] + 1
      /\ sem'["prevenir_server"] = sem["prevenir_server"]
  BY <1>0, <1>1, Posted DEF Semaphores
<1>5. ~ Told /\ ~ Told'
  BY <1>0, <1>1, <1>3, <1>4 DEF Told, Broadcasting, OneToken, Busy, TypeOK, Semaphores
<1>6. UNCHANGED <<Reached, Members, Broadcasting>>
  BY <1>1 DEF Reached, Members, Broadcasting
<1>7. \A u \in Sessions : /\ pc'[<<u, "in">>] = pc[<<u, "in">>]
                          /\ u # s => /\ pc'[<<u, "out">>] = pc[<<u, "out">>]
                                      /\ shown'[u] = shown[u]
  BY <1>0, <1>1, <1>p DEF TypeOK
<1>8. pc'[<<s, "out">>] = "await"
  BY <1>0, <1>1, <1>p DEF TypeOK
<1>9. /\ shown[s] \in Seq(Contents) /\ req.content \in Contents
      /\ shown'[s] = Append(shown[s], req.content)
  BY <1>0, <1>1, <1>2 DEF TypeOK
<1>10. /\ \A n \in DOMAIN shown'[s] :
         \/ shown'[s][n] = req.content
         \/ n \in DOMAIN shown[s] /\ shown'[s][n] = shown[s][n]
       /\ \A m : Shown(s, m)' <=> Shown(s, m) \/ m = req.content
  <2> DEFINE q == shown[s]
  <2> HIDE DEF q
  <2>1. q \in Seq(Contents) /\ shown'[s] = Append(q, req.content) BY <1>9 DEF q
  <2>2. /\ DOMAIN shown'[s] = 1 .. Len(q) + 1 /\ DOMAIN q = 1 .. Len(q) /\ Len(q) \in Nat
        /\ shown'[s][Len(q) + 1] = req.content
        /\ \A n \in 1 .. Len(q) : shown'[s][n] = q[n]
    BY <1>9, <2>1
  <2>3. \A n \in 1 .. Len(q) + 1 : n \in 1 .. Len(q) \/ n = Len(q) + 1
    BY <2>2
  <2>4. /\ Len(q) + 1 \in 1 .. Len(q) + 1
        /\ \A n \in 1 .. Len(q) : n \in 1 .. Len(q) + 1
    BY <2>2
  <2> QED BY <2>2, <2>3, <2>4 DEF Shown, q
<1>11. Displayed' = Displayed \cup {s}
  <2>1. \A u \in Sessions : u # s => (Shown(u, req.content)' <=> Shown(u, req.content))
    BY <1>1, <1>7 DEF Shown
  <2>2. Reached \subseteq Sessions BY <1>0 DEF Reached, TypeOK
  <2> QED BY <1>1, <1>2, <1>6, <1>10, <2>1, <2>2 DEF Displayed
<1>m. Mapped'
  BY <1>0, <1>1, <1>7, <1>8 DEF Mapped
<1>12. OneSlot'
  <2>1. pc'[<<s, "out">>] \notin Outside BY <1>8 DEF Outside, Entry
  <2>2. \A u \in Sessions : ~ Entering(u)' BY <1>5 DEF Entering
  <2>3. \A u \in Members : pc'[<<u, "out">>] \notin Outside /\ autoris_diff[u] # Unsized
    <3>1. Members \subseteq Sessions BY <1>0 DEF Members, TypeOK
    <3> QED BY <1>0, <1>7, <2>1, <3>1 DEF OneSlot, Asking, Outside
  <2> QED BY <1>0, <1>1, <1>6, <2>2, <2>3 DEF OneSlot, Asking, Outside
<1>13. SentOnce'
  <2>1. \A m : Sent(m)' <=> Sent(m) BY <1>1, <1>7 DEF Sent, Lines
  <2>2. req.type = 1 /\ Sent(req.content) BY <1>0, <1>3 DEF SentOnce
  <2>3. \A u \in Sessions : \A n \in DOMAIN shown'[u] : Sent(shown'[u][n])
    BY <1>0, <1>7, <1>10, <2>2 DEF SentOnce
  <2> QED BY <1>1, <1>5, <2>1, <2>2, <2>3 DEF SentOnce
<1>14. Tokens'
  <2>1. ASSUME NEW u \in Sessions
        PROVE  /\ u \in Reached' \ Displayed' =>
                     /\ box[u] = req.content /\ autoris_diff[u] <= 1
                     /\ pc'[<<u, "out">>] = "show" => autoris_diff[u] = 0
               /\ u \notin Reached' \ Displayed' =>
                     autoris_diff[u] <= 0 /\ pc'[<<u, "out">>] # "show"
               /\ Shown(u, req.content)' => u \in Reached'
    <3>1. CASE u = s BY <1>2, <1>6, <1>8, <1>11, <3>1
    <3>2. CASE u # s
      <4>1. Shown(u, req.content)' => Shown(u, req.content) BY <1>1, <1>7, <3>2 DEF Shown
      <4> QED BY <1>0, <1>3, <1>6, <1>7, <1>11, <3>2, <4>1 DEF Tokens
    <3> QED BY <3>1, <3>2
  <2> QED BY <1>1, <2>1 DEF Tokens
<1>15. AnswersCounted'
  <2>1. IsFiniteSet(Displayed) /\ Cardinality(Displayed) \in Nat BY <1>0, ReachedFinite
  <2>2. Cardinality(Displayed') = Cardinality(Displayed) + 1
    BY <1>2, <1>11, <2>1, FS_AddElement
  <2>3. sem["fin_diffusion"] \in Nat /\ i \in Nat BY <1>0 DEF TypeOK, Semaphores
  <2>4. sem'["fin_diffusion"] + (IF srv' = "collect" THEN i' ELSE 0) = Cardinality(Displayed')
    BY <1>0, <1>1, <1>4, <2>1, <2>2, <2>3 DEF AnswersCounted
  <2> QED BY <1>0, <1>1, <2>4 DEF AnswersCounted
<1>16. Room!Display(s)
  <2> DEFINE Left == {u \in Members : \A n \in DOMAIN shown[u] : shown[u][n] # req.content}
  <2>1. Left = {u \in Members : ~ Shown(u, req.content)} BY DEF Shown
  <2>2. Left' = {u \in Members : ~ Shown(u, req.content)'} BY <1>1, <1>6 DEF Shown
  <2>3. s \in Left
    <3>1. s \in Members BY <1>0, <1>2, ReachedFinite
    <3>2. ~ Shown(s, req.content) BY <1>2 DEF Displayed
    <3> QED BY <2>1, <3>1, <3>2
  <2>4. Left' = Left \ {s}
    <3>1. \A u \in Members : u # s => (Shown(u, req.content)' <=> Shown(u, req.content))
      <4>1. Members \subseteq Sessions BY <1>0 DEF Members, TypeOK
      <4> QED BY <1>1, <1>7, <4>1 DEF Shown
    <3> QED BY <1>1, <1>10, <2>1, <2>2, <3>1
  <2> HIDE DEF Left
  <2>5. shown' = [shown EXCEPT ![s] = Append(shown[s], req.content)]
    BY <1>1, <1>2
  <2>6. srv \in {"diffuse", "collect"} /\ srv' \in {"diffuse", "collect"}
    BY <1>1, <1>3 DEF Broadcasting
  <2> QED BY <1>1, <1>6, <2>3, <2>4, <2>5, <2>6 DEF Room!Display, Left
<1>17. [Room!Next]_Room!vars BY <1>16 DEF Room!Next
<1> QED BY <1>m, <1>12, <1>13, <1>14, <1>15, <1>17 DEF RoomInv

(* Where the server does not broadcast before nor after a step, nobody has *)
(* a token and no answer is owed.                                          *)
LEMMA QuietTokens ==
  ASSUME RoomInv, ~ Broadcasting, ~ Broadcasting',
         UNCHANGED autoris_diff,
         \A s \in Sessions : pc'[<<s, "out">>] = "show" => pc[<<s, "out">>] = "show",
         sem'["fin_diffusion"] = sem["fin_diffusion"]
  PROVE  Tokens' /\ AnswersCounted'
<1>1. Reached = {} /\ Displayed = {} /\ Reached' = {} /\ Displayed' = {}
  BY DEF Reached, Displayed, Broadcasting
<1>2. Tokens' BY <1>1 DEF RoomInv, Tokens
<1>3. AnswersCounted' BY <1>1 DEF RoomInv, AnswersCounted, Broadcasting
<1> QED BY <1>2, <1>3

(* A request starts nothing in the room, and a line it carries is new.     *)
LEMMA SubmitStep ==
  ASSUME DistinctNames, IInv, TableInv, RoomInv, NEW p \in Procs, Submit(p)
  PROVE  RoomInv' /\ [Room!Next]_Room!vars
<1> DEFINE u == p[1]
<1>0. /\ TypeOK /\ OneToken /\ HasTyped /\ Roles
      /\ Mapped /\ OneSlot /\ SentOnce /\ Tokens /\ AnswersCounted
  BY DEF IInv, TableInv, RoomInv
<1>p. /\ \A s \in Sessions : <<s, "in">> \in Procs /\ <<s, "out">> \in Procs
      /\ u \in Sessions /\ (p = <<u, "in">> \/ p = <<u, "out">>)
      /\ \A s \in Sessions : <<s, "in">> # <<u, "out">>
      /\ \A s \in Sessions : s # u => p # <<s, "in">> /\ p # <<s, "out">>
  BY DEF Procs
<1>1. /\ UNCHANGED <<tab, nb_connect, i, srv, box, autoris_diff, shown, lines, requete>>
      /\ pc[p] \in Writing /\ V("prevenir_server")
      /\ \/ /\ pc[p] = "connecting" /\ pc' = [pc EXCEPT ![p] = "fork"]
            /\ req' = [type |-> 0, content |-> NameOf[u]]
         \/ /\ pc[p] = "posting" /\ pc' = [pc EXCEPT ![p] = "read"]
            /\ req' = [type |-> 1, content |-> <<u, lines[u]>>]
         \/ /\ pc[p] = "quitting" /\ pc' = [pc EXCEPT ![p] = "deco"] /\ req'.type = 2
  BY DEF Submit, server, segment, user, Writing
<1>2. ~ Told /\ ~ Broadcasting /\ ~ Broadcasting'
  <2>1. p \in Holders BY <1>1 DEF Holders
  <2>2. ~ Busy BY <1>0, <2>1 DEF OneToken
  <2> QED BY <1>0, <1>1, <2>2, WriterAlone DEF Broadcasting, Busy
<1>3. sem'["fin_diffusion"] = sem["fin_diffusion"]
  BY <1>0, <1>1, Posted DEF Semaphores
<1>4. /\ pc'[p] \in {"fork", "read", "deco"} /\ \A q \in Procs : q # p => pc'[q] = pc[q]
      /\ pc[p] = "connecting" => pc'[p] = "fork"
      /\ pc[p] = "posting" => pc'[p] = "read"
  BY <1>0, <1>1 DEF TypeOK
<1>5. Tokens' /\ AnswersCounted'
  <2>1. \A s \in Sessions : pc'[<<s, "out">>] = "show" => pc[<<s, "out">>] = "show"
    BY <1>4, <1>p
  <2> QED BY <1>1, <1>2, <1>3, <2>1, QuietTokens
<1>6. Members' = Members BY <1>1 DEF Members
<1>7. \A m : Sent(m) => Sent(m)'
  BY <1>1, <1>4, <1>p DEF Sent, Lines
<1>8. \A s, m : Shown(s, m)' <=> Shown(s, m)
  BY <1>1 DEF Shown
<1>m. Mapped'
  <2>1. \A s \in Sessions : pc'[<<s, "out">>] \in {"init", "connect", "connecting"} =>
                            pc'[<<s, "out">>] = pc[<<s, "out">>]
    BY <1>4, <1>p
  <2> QED BY <1>0, <1>1, <2>1 DEF Mapped
<1>9. OneSlot'
  <2>1. \A j, k \in Slots : tab'[j].link = tab'[k].link /\ tab'[k].link # None => j = k
    BY <1>0, <1>1 DEF OneSlot
  <2>2. ASSUME NEW s \in Sessions
        PROVE  /\ ~ (s \in Members /\ Entering(s)')
               /\ s \in Members \/ Entering(s)' =>
                    pc'[<<s, "out">>] \notin Outside /\ autoris_diff[s] # Unsized
    <3>0. "fork" \notin Outside /\ "read" \notin Outside /\ "deco" \notin Outside
      BY DEF Outside, Entry
    <3>1. s \in Members => pc[<<s, "out">>] \notin Outside /\ autoris_diff[s] # Unsized
      BY <1>0 DEF OneSlot, Asking, Outside
    <3>2. s \in Members => pc'[<<s, "out">>] \notin Outside
      BY <1>4, <1>p, <3>0, <3>1
    <3>3. ASSUME Entering(s)'
          PROVE  s = u /\ p = <<u, "out">> /\ pc[p] = "connecting"
      <4>1. pc[p] = "connecting" /\ NameOf[s] = NameOf[u] BY <1>1, <3>3 DEF Entering
      <4>2. s = u BY <1>p, <4>1 DEF DistinctNames
      <4>3. p = <<u, "out">> BY <1>0, <1>p, <4>1 DEF Roles, InHandler
      <4> QED BY <4>1, <4>2, <4>3
    <3>4. "connecting" \in Outside BY DEF Outside
    <3>5. Entering(s)' => autoris_diff[s] # Unsized
      BY <1>0, <3>3 DEF Mapped
    <3> QED BY <1>4, <3>0, <3>1, <3>2, <3>3, <3>4, <3>5
  <2> QED BY <1>1, <1>6, <2>1, <2>2 DEF OneSlot, Asking, Outside
<1>10. SentOnce'
  <2>1. \A s \in Sessions : \A n \in DOMAIN shown'[s] : Sent(shown[s][n])'
    BY <1>0, <1>1, <1>7 DEF SentOnce
  <2>2. ASSUME req'.type = 1
        PROVE  Sent(req.content)' /\ \A s \in Sessions : ~ Shown(s, req.content)'
    <3>1. pc[p] = "posting" /\ req'.content = <<u, lines[u]>> BY <1>1, <2>2
    <3>2. p = <<u, "in">> BY <1>0, <1>p, <3>1 DEF Roles, Entry, InHandler
    <3>3. lines[u] \in 1 .. MaxLines
      BY <1>0, <1>p, <3>1, BoundAssumption DEF HasTyped, TypeOK
    <3>4. Sent(req.content)'
      <4>1. <<u, lines[u]>> \in Lines BY <1>p, <3>3 DEF Lines
      <4>2. pc'[<<u, "in">>] = "read" BY <1>4, <3>1, <3>2
      <4> QED BY <1>1, <3>1, <3>3, <4>1, <4>2 DEF Sent, Lines
    <3>5. ~ Sent(<<u, lines[u]>>) BY <3>1, <3>2 DEF Sent
    <3>6. ASSUME NEW s \in Sessions, Shown(s, req.content)' PROVE FALSE
      <4>1. Shown(s, <<u, lines[u]>>) BY <1>1, <3>1, <3>6 DEF Shown
      <4> QED BY <1>0, <3>5, <4>1 DEF Shown, SentOnce
    <3> QED BY <3>4, <3>6
  <2> QED BY <1>2, <2>1, <2>2 DEF SentOnce
<1>11. [Room!Next]_Room!vars
  BY <1>1, <1>2, <1>6 DEF Room!vars, Broadcasting
<1> QED BY <1>m, <1>5, <1>9, <1>10, <1>11 DEF RoomInv

(* Serving a connection or a disconnection tells nobody anything, so that  *)
(* only the members can change.                                            *)
LEMMA ServedStep ==
  ASSUME TypeOK, OneToken, RoomInv, Busy, srv' = "release", srv = "serve",
         UNCHANGED <<req, pc, lines, shown, requete, autoris_diff>>,
         sem'["fin_diffusion"] = sem["fin_diffusion"],
         sem'["prevenir_server"] = sem["prevenir_server"]
  PROVE  Mapped' /\ SentOnce' /\ Tokens' /\ AnswersCounted' /\ ~ Told'
<1>1. ~ Told' BY Served
<1>2. ~ Broadcasting /\ ~ Broadcasting' BY DEF Broadcasting
<1>3. Tokens' /\ AnswersCounted' BY <1>2, QuietTokens
<1>4. \A m : Sent(m)' <=> Sent(m) BY DEF Sent
<1>5. SentOnce' BY <1>1, <1>2, <1>4 DEF RoomInv, SentOnce
<1>6. Mapped' BY DEF RoomInv, Mapped
<1> QED BY <1>1, <1>3, <1>5, <1>6

LEMMA ConnexionRoom ==
  ASSUME DistinctNames, fds # MaxFd, IInv, TableInv, RoomInv, Connexion
  PROVE  RoomInv' /\ [Room!Next]_Room!vars
<1> USE SessionAssumption, BoundAssumption
<1> DEFINE free == {k \in Slots : ~ Taken(k)}
           link == IF fds < MaxFd THEN shm[req.content] ELSE None
           entry == [name |-> req.content, link |-> link]
<1>0. TypeOK /\ OneToken /\ OneSlot
  BY DEF IInv, RoomInv
<1>1. /\ srv = "serve" /\ srv' = "release" /\ req.type = 0
      /\ UNCHANGED <<sem, req, pc, lines, shown, requete, autoris_diff>>
  BY DEF Connexion, Serve, stock, client, segment
<1>2. Mapped' /\ SentOnce' /\ Tokens' /\ AnswersCounted' /\ ~ Told'
  BY <1>0, <1>1, ServedStep DEF Busy
<1>3. PICK s \in Sessions : NameOf[s] = req.content /\ shm[req.content] = s
  BY <1>0, <1>1, Exact DEF IInv, Told
<1>4. link = s /\ s # None
  BY <1>0, <1>3 DEF TypeOK
<1>5. Entering(s) BY <1>1, <1>3 DEF Entering, Told
<1>6. /\ s \notin Members /\ pc[<<s, "out">>] \notin Outside
      /\ autoris_diff[s] # Unsized
  BY <1>0, <1>5 DEF OneSlot, Asking, Outside
<1>7. \A t \in Sessions : ~ Entering(t)'
  BY <1>2 DEF Entering
<1>8. CASE free = {}
  <2>1. tab' = tab BY <1>8 DEF Connexion
  <2>2. Members' = Members BY <2>1 DEF Members
  <2>3. OneSlot' BY <1>0, <1>1, <1>7, <2>1, <2>2 DEF OneSlot, Asking
  <2>4. [Room!Next]_Room!vars BY <1>1, <2>2 DEF Room!vars
  <2> QED BY <1>2, <2>3, <2>4 DEF RoomInv
<1>9. CASE free # {}
  <2> DEFINE k0 == First(free)
  <2>1. k0 \in Slots /\ ~ Taken(k0)
    <3>1. free \in SUBSET Nat BY DEF Slots
    <3>2. k0 \in free BY <1>9, <3>1, FirstIsLeast
    <3> QED BY <3>2
  <2>2. tab' = [tab EXCEPT ![k0] = entry] BY <1>9 DEF Connexion
  <2>3. tab[k0].link = None BY <1>0, <2>1, Exact
  <2>4. entry.link = s BY <1>4
  <2> HIDE DEF k0, link, free, entry
  <2>5. \A k \in Slots : tab'[k] = IF k = k0 THEN entry ELSE tab[k]
    BY <1>0, <2>2 DEF TypeOK
  <2>6. Members' = Members \cup {s}
    BY <1>4, <2>1, <2>3, <2>4, <2>5 DEF Members
  <2>7. OneSlot'
    <3>1. ASSUME NEW j \in Slots, NEW k \in Slots,
                 tab'[j].link = tab'[k].link, tab'[k].link # None
          PROVE  j = k
      <4>1. \A l \in Slots : tab[l].link # s BY <1>4, <1>6 DEF Members
      <4> QED BY <1>0, <2>4, <2>5, <3>1, <4>1 DEF OneSlot
    <3>2. \A t \in Sessions : t \in Members' =>
            pc'[<<t, "out">>] \notin Outside /\ autoris_diff'[t] # Unsized
      BY <1>0, <1>1, <1>6, <2>6 DEF OneSlot, Asking, Outside
    <3> QED BY <1>7, <3>1, <3>2 DEF OneSlot, Asking, Outside
  <2>8. Room!Join(s)
    BY <1>1, <1>6, <2>6 DEF Room!Join
  <2>9. [Room!Next]_Room!vars BY <2>8 DEF Room!Next
  <2> QED BY <1>2, <2>7, <2>9 DEF RoomInv
<1> QED BY <1>8, <1>9

LEMMA DeconnexionRoom ==
  ASSUME DistinctNames, fds # MaxFd, IInv, TableInv, RoomInv, Deconnexion
  PROVE  RoomInv' /\ [Room!Next]_Room!vars
<1> USE SessionAssumption, BoundAssumption
<1> DEFINE same == Named(req.content)
<1>0. TypeOK /\ OneToken /\ RequestFormed /\ OneSlot
  BY DEF IInv, RoomInv
<1>1. /\ srv = "serve" /\ srv' = "release" /\ req.type = 2
      /\ UNCHANGED <<req, pc, lines, shown, requete, autoris_diff>>
      /\ sem'["prevenir_server"] = sem["prevenir_server"]
      /\ sem'["fin_diffusion"] = sem["fin_diffusion"]
  <2>1. sem' = sem \/ V("deco_sem") BY DEF Deconnexion
  <2>2. /\ sem'["prevenir_server"] = sem["prevenir_server"]
        /\ sem'["fin_diffusion"] = sem["fin_diffusion"]
    BY <1>0, <2>1, Posted DEF Semaphores
  <2> QED BY <2>2 DEF Deconnexion, Serve, client, segment
<1>2. Mapped' /\ SentOnce' /\ Tokens' /\ AnswersCounted' /\ ~ Told'
  BY <1>0, <1>1, ServedStep DEF Busy
<1>3. req.content # None
  <2>1. req.content \in Names BY <1>0, <1>1 DEF RequestFormed, Busy
  <2> QED BY <2>1, NameAssumption DEF Names
<1>7. \A t \in Sessions : ~ Entering(t)'
  BY <1>2 DEF Entering
<1>8. CASE same = {}
  <2>1. tab' = tab BY <1>8 DEF Deconnexion
  <2>2. Members' = Members BY <2>1 DEF Members
  <2>3. OneSlot' BY <1>0, <1>1, <1>7, <2>1, <2>2 DEF OneSlot, Asking
  <2>4. [Room!Next]_Room!vars BY <1>1, <2>2 DEF Room!vars
  <2> QED BY <1>2, <2>3, <2>4 DEF RoomInv
<1>9. CASE same # {}
  <2> DEFINE k0 == First(same)
             s == tab[k0].link
  <2>1. k0 \in Slots /\ tab[k0].name = req.content
    <3>1. same \in SUBSET Nat BY DEF Slots, Named
    <3>2. k0 \in same BY <1>9, <3>1, FirstIsLeast
    <3> QED BY <3>2 DEF Named
  <2>2. tab' = [tab EXCEPT ![k0] = Empty] BY <1>9 DEF Deconnexion, FreeSlot
  <2> HIDE DEF k0, same
  <2>3. s # None /\ s \in Sessions
    BY <1>0, <1>3, <2>1, Exact DEF Taken, TypeOK
  <2>4. Empty.link = None BY DEF Empty
  <2>5. \A k \in Slots : tab'[k] = IF k = k0 THEN Empty ELSE tab[k]
    BY <1>0, <2>2 DEF TypeOK
  <2>6. s \in Members BY <2>1, <2>3 DEF Members
  <2>7. Members' = Members \ {s}
    <3>1. \A k \in Slots : tab[k].link = s => k = k0
      BY <1>0, <2>1, <2>3 DEF OneSlot
    <3> QED BY <2>1, <2>4, <2>5, <3>1 DEF Members
  <2>8. OneSlot'
    <3>1. ASSUME NEW j \in Slots, NEW k \in Slots,
                 tab'[j].link = tab'[k].link, tab'[k].link # None
          PROVE  j = k
      BY <1>0, <2>4, <2>5, <3>1 DEF OneSlot
    <3>2. \A t \in Sessions : t \in Members' =>
            pc'[<<t, "out">>] \notin Outside /\ autoris_diff'[t] # Unsized
      BY <1>0, <1>1, <2>7 DEF OneSlot, Asking, Outside
    <3> QED BY <1>7, <3>1, <3>2 DEF OneSlot, Asking, Outside
  <2>9. Room!Leave(s)
    BY <1>1, <2>6, <2>7 DEF Room!Leave
  <2> HIDE DEF s
  <2>10. [Room!Next]_Room!vars BY <2>3, <2>9 DEF Room!Next
  <2> QED BY <1>2, <2>8, <2>10 DEF RoomInv
<1> QED BY <1>8, <1>9

(* A step of the server that leaves the members and what they display, the *)
(* request and the table.                                                  *)
LEMMA ServerFrame ==
  ASSUME RoomInv, UNCHANGED <<tab, req, pc, lines, shown, requete>>, ~ Told',
         \A s \in Sessions : autoris_diff[s] # Unsized => autoris_diff'[s] # Unsized
  PROVE  Mapped' /\ OneSlot' /\ Members' = Members
         /\ (\A m : Sent(m)' <=> Sent(m))
         /\ \A s, m : Shown(s, m)' <=> Shown(s, m)
<1>1. Members' = Members BY DEF Members
<1>2. OneSlot' BY <1>1 DEF RoomInv, OneSlot, Asking, Entering
<1>3. \A m : Sent(m)' <=> Sent(m) BY DEF Sent
<1>4. \A s, m : Shown(s, m)' <=> Shown(s, m) BY DEF Shown
<1>5. Mapped' BY DEF RoomInv, Mapped
<1> QED BY <1>5, <1>1, <1>2, <1>3, <1>4

LEMMA BeginRoom ==
  ASSUME IInv, RoomInv, BeginDiffusion
  PROVE  RoomInv' /\ [Room!Next]_Room!vars
<1>0. TypeOK /\ OneToken /\ RequestFormed /\ SentOnce /\ Tokens /\ AnswersCounted
  BY DEF IInv, RoomInv
<1>1. /\ srv = "serve" /\ srv' = "diffuse" /\ req.type = 1 /\ i' = 0
      /\ UNCHANGED <<tab, nb_connect, sem, req, pc, lines, shown, requete, autoris_diff, box>>
  BY DEF BeginDiffusion, Serve, stock, client, segment
<1>2. Told /\ ~ Told'
  BY <1>0, <1>1, Served DEF Told, Busy
<1>3. /\ Mapped' /\ OneSlot' /\ Members' = Members /\ \A m : Sent(m)' <=> Sent(m)
      /\ \A s, m : Shown(s, m)' <=> Shown(s, m)
  BY <1>1, <1>2, ServerFrame
<1>4. \A s \in Sessions : ~ Shown(s, req.content)
  BY <1>0, <1>1, <1>2 DEF SentOnce
<1>5. Displayed = {} /\ Displayed' = {} /\ Reached' = {} /\ Reached = {}
  <2>1. \A j \in Slots : ~ (j < 0) BY DEF Slots
  <2> QED BY <1>1, <2>1 DEF Reached, Displayed
<1>6. SentOnce' BY <1>0, <1>1, <1>2, <1>3 DEF SentOnce
<1>7. Tokens' BY <1>0, <1>1, <1>3, <1>4, <1>5 DEF Tokens
<1>8. AnswersCounted'
  BY <1>0, <1>1, <1>5, BoundAssumption DEF AnswersCounted
<1>9. ASSUME NEW m \in Lines, m = req.content PROVE Room!Speak(m)
  <2>1. Members \subseteq Sessions BY <1>0 DEF Members, TypeOK
  <2>2. {u \in Members : \A n \in DOMAIN shown[u] : shown[u][n] # req.content} = Members
    BY <1>4, <2>1 DEF Shown
  <2> QED BY <1>1, <1>3, <1>9, <2>2 DEF Room!Speak
<1>10. \E m \in Lines : m = req.content BY <1>0, <1>1 DEF RequestFormed, Busy
<1>11. [Room!Next]_Room!vars BY <1>9, <1>10 DEF Room!Next
<1> QED BY <1>3, <1>6, <1>7, <1>8, <1>11 DEF RoomInv

(* No request is told of while the server broadcasts another one.          *)
LEMMA BroadcastQuiet ==
  ASSUME TypeOK, OneToken, Broadcasting, srv' # "serve",
         sem'["prevenir_server"] = sem["prevenir_server"]
  PROVE  ~ Told /\ ~ Told'
BY DEF Told, Broadcasting, OneToken, Busy, TypeOK, Semaphores

(* A turn of the first loop hands the line to one member more.             *)
LEMMA DiffuseRoom ==
  ASSUME DistinctNames, fds # MaxFd, IInv, TableInv, RoomInv, DiffuseSlot
  PROVE  RoomInv' /\ [Room!Next]_Room!vars
<1>0. TypeOK /\ OneToken /\ Mapped /\ OneSlot /\ SentOnce /\ Tokens /\ AnswersCounted
  BY DEF IInv, RoomInv
<1>1. /\ srv = "diffuse" /\ srv' = "diffuse" /\ i' = i + 1 /\ i < MaxTab
      /\ UNCHANGED <<tab, nb_connect, sem, req, pc, lines, shown, requete>>
  BY DEF DiffuseSlot, stock, client
<1>2. i \in Slots /\ i \in Nat
  BY <1>0, <1>1, BoundAssumption DEF TypeOK, Slots
<1>3. Broadcasting /\ Broadcasting' BY <1>1 DEF Broadcasting
<1>4. ~ Told /\ ~ Told' BY <1>0, <1>1, <1>3, BroadcastQuiet
<1>s. \A s \in Sessions : autoris_diff[s] # Unsized => autoris_diff'[s] # Unsized
  <2>1. \/ autoris_diff' = autoris_diff
        \/ autoris_diff' = [autoris_diff EXCEPT ![tab[i].link] = @ + 1]
    BY DEF DiffuseSlot, segment
  <2>2. ASSUME NEW s \in Sessions, autoris_diff[s] # Unsized PROVE autoris_diff'[s] # Unsized
    <3>1. autoris_diff[s] \in Nat BY <1>0, <2>2 DEF TypeOK
    <3>2. autoris_diff'[s] \in {autoris_diff[s], autoris_diff[s] + 1}
      BY <1>0, <2>1 DEF TypeOK
    <3> QED BY <3>1, <3>2 DEF Unsized
  <2> QED BY <2>2
<1>5. /\ Mapped' /\ OneSlot' /\ Members' = Members /\ \A m : Sent(m)' <=> Sent(m)
      /\ \A s, m : Shown(s, m)' <=> Shown(s, m)
  BY <1>1, <1>4, <1>s, ServerFrame
<1>6. SentOnce' BY <1>0, <1>1, <1>3, <1>4, <1>5 DEF SentOnce
<1>7. \A k \in Slots : k < i + 1 <=> k < i \/ k = i
  BY <1>2 DEF Slots
<1>8. [Room!Next]_Room!vars
  BY <1>1, <1>5 DEF Room!vars
<1> DEFINE link == tab[i].link
<1>9. CASE link = None
  <2>1. UNCHANGED <<autoris_diff, box>>
    BY <1>0, <1>2, <1>9, Exact DEF DiffuseSlot, segment
  <2>2. Reached' = Reached
    BY <1>1, <1>7, <1>9 DEF Reached
  <2>3. Displayed' = Displayed BY <1>1, <1>5, <2>2 DEF Displayed
  <2>4. Tokens' BY <1>0, <1>1, <1>3, <1>5, <2>1, <2>2, <2>3 DEF Tokens
  <2>5. AnswersCounted'
    BY <1>0, <1>1, <1>2, <2>3, BoundAssumption DEF AnswersCounted
  <2> QED BY <1>5, <1>6, <1>8, <2>4, <2>5 DEF RoomInv
<1>10. CASE link # None
  <2>1. link \in Sessions BY <1>0, <1>2, <1>10 DEF TypeOK
  <2>2. /\ box' = [box EXCEPT ![link] = req.content]
        /\ autoris_diff' = [autoris_diff EXCEPT ![link] = @ + 1]
    <3>1. Taken(i) BY <1>0, <1>2, <1>10, Exact
    <3>2. autoris_diff[link] # Unsized
      <4>1. link \in Members BY <1>2, <1>10 DEF Members
      <4> QED BY <1>0, <2>1, <4>1 DEF OneSlot, Asking
    <3> QED BY <1>10, <3>1, <3>2 DEF DiffuseSlot
  <2>3. link \notin Reached
    <3>1. \A k \in Slots : k < i => k # i BY <1>2 DEF Slots
    <3> QED BY <1>0, <1>1, <1>2, <1>10, <3>1 DEF OneSlot, Reached
  <2>4. Reached' = Reached \cup {link}
    BY <1>1, <1>2, <1>7, <1>10 DEF Reached
  <2> HIDE DEF link
  <2>5. autoris_diff[link] = 0 /\ pc[<<link, "out">>] # "show"
        /\ ~ Shown(link, req.content)
    <3>1. autoris_diff[link] <= 0 /\ autoris_diff[link] # Unsized
      <4>1. link \in Members BY <1>2, <1>10 DEF Members, link
      <4> QED BY <1>0, <2>1, <2>3, <4>1 DEF OneSlot, Asking, Tokens
    <3>2. autoris_diff[link] \in Nat \cup {Unsized} BY <1>0, <2>1 DEF TypeOK
    <3> QED BY <1>0, <1>3, <2>1, <2>3, <3>1, <3>2 DEF Tokens
  <2>6. Displayed' = Displayed
    BY <1>1, <1>5, <2>4, <2>5 DEF Displayed
  <2>7. /\ box'[link] = req.content /\ autoris_diff'[link] = 1
        /\ \A s \in Sessions : s # link => box'[s] = box[s] /\ autoris_diff'[s] = autoris_diff[s]
    BY <1>0, <2>1, <2>2, <2>5 DEF TypeOK
  <2>8. Tokens'
    <3>1. ASSUME NEW s \in Sessions
          PROVE  /\ s \in Reached' \ Displayed' =>
                      /\ box'[s] = req.content /\ autoris_diff'[s] <= 1
                      /\ pc[<<s, "out">>] = "show" => autoris_diff'[s] = 0
                 /\ s \notin Reached' \ Displayed' =>
                      autoris_diff'[s] <= 0 /\ pc[<<s, "out">>] # "show"
                 /\ Shown(s, req.content) => s \in Reached'
      <4>1. CASE s = link
        <5>1. s \in Reached' \ Displayed' BY <2>3, <2>4, <2>6, <4>1 DEF Displayed
        <5> QED BY <2>5, <2>7, <4>1, <5>1
      <4>2. CASE s # link BY <1>0, <1>3, <2>4, <2>6, <2>7, <4>2 DEF Tokens
      <4> QED BY <4>1, <4>2
    <3> QED BY <1>1, <1>5, <3>1 DEF Tokens
  <2>9. AnswersCounted'
    BY <1>0, <1>1, <1>2, <2>6, BoundAssumption DEF AnswersCounted
  <2> QED BY <1>5, <1>6, <1>8, <2>8, <2>9 DEF RoomInv
<1> QED BY <1>9, <1>10

LEMMA EndDiffuseRoom ==
  ASSUME DistinctNames, fds # MaxFd, IInv, TableInv, RoomInv, EndDiffuse
  PROVE  RoomInv' /\ [Room!Next]_Room!vars
<1>0. TypeOK /\ OneToken /\ SentOnce /\ Tokens /\ AnswersCounted
  BY DEF IInv, RoomInv
<1>1. /\ srv = "diffuse" /\ srv' = "collect" /\ i' = 0 /\ i = MaxTab
      /\ UNCHANGED <<tab, nb_connect, sem, req, pc, lines, shown, requete, autoris_diff,
                     box>>
  BY DEF EndDiffuse, stock, client, segment
<1>2. Broadcasting /\ Broadcasting' BY <1>1 DEF Broadcasting
<1>3. ~ Told /\ ~ Told' BY <1>0, <1>1, <1>2, BroadcastQuiet
<1>4. /\ Mapped' /\ OneSlot' /\ Members' = Members /\ \A m : Sent(m)' <=> Sent(m)
      /\ \A s, m : Shown(s, m)' <=> Shown(s, m)
  BY <1>1, <1>3, ServerFrame
<1>5. Reached' = Reached
  <2>1. \A k \in Slots : k < MaxTab BY BoundAssumption DEF Slots
  <2> QED BY <1>1, <2>1 DEF Reached
<1>6. Displayed' = Displayed BY <1>1, <1>4, <1>5 DEF Displayed
<1>7. SentOnce' BY <1>0, <1>1, <1>2, <1>3, <1>4 DEF SentOnce
<1>8. Tokens' BY <1>0, <1>1, <1>2, <1>4, <1>5, <1>6 DEF Tokens
<1>9. AnswersCounted'
  <2>1. 0 <= nb_connect
    <3>1. nb_connect = Cardinality(Linked) BY <1>0, Exact
    <3> QED BY <3>1, LinkedFinite
  <2> QED BY <1>0, <1>1, <1>6, <2>1 DEF AnswersCounted
<1>10. [Room!Next]_Room!vars BY <1>1, <1>4 DEF Room!vars
<1> QED BY <1>4, <1>7, <1>8, <1>9, <1>10 DEF RoomInv

LEMMA CollectRoom ==
  ASSUME IInv, RoomInv, Collect
  PROVE  RoomInv' /\ [Room!Next]_Room!vars
<1>0. TypeOK /\ OneToken /\ SentOnce /\ Tokens /\ AnswersCounted
  BY DEF IInv, RoomInv
<1>1. /\ srv = "collect" /\ srv' = "collect" /\ i' = i + 1 /\ i < nb_connect
      /\ P("fin_diffusion")
      /\ UNCHANGED <<tab, nb_connect, req, pc, lines, shown, requete, autoris_diff, box>>
  BY DEF Collect, client, segment
<1>2. /\ sem["fin_diffusion"] > 0 /\ sem'["fin_diffusion"] = sem["fin_diffusion"] - 1
      /\ sem'["prevenir_server"] = sem["prevenir_server"]
  BY <1>0, <1>1, Waited DEF Semaphores
<1>3. Broadcasting /\ Broadcasting' BY <1>1 DEF Broadcasting
<1>4. ~ Told /\ ~ Told' BY <1>0, <1>1, <1>2, <1>3, BroadcastQuiet
<1>5. /\ Mapped' /\ OneSlot' /\ Members' = Members /\ \A m : Sent(m)' <=> Sent(m)
      /\ \A s, m : Shown(s, m)' <=> Shown(s, m)
  BY <1>1, <1>4, ServerFrame
<1>6. Reached' = Reached BY <1>1 DEF Reached
<1>7. Displayed' = Displayed BY <1>1, <1>5, <1>6 DEF Displayed
<1>8. SentOnce' BY <1>0, <1>1, <1>3, <1>4, <1>5 DEF SentOnce
<1>9. Tokens' BY <1>0, <1>1, <1>3, <1>5, <1>6, <1>7 DEF Tokens
<1>10. AnswersCounted'
  <2>1. i \in Nat /\ nb_connect \in Int /\ sem["fin_diffusion"] \in Nat
    BY <1>0 DEF TypeOK, Semaphores
  <2> QED BY <1>0, <1>1, <1>2, <1>7, <2>1 DEF AnswersCounted
<1>11. [Room!Next]_Room!vars BY <1>1, <1>5 DEF Room!vars
<1> QED BY <1>5, <1>8, <1>9, <1>10, <1>11 DEF RoomInv

(* Diffusion ends only when all the members have displayed the line.       *)
LEMMA EndCollectRoom ==
  ASSUME DistinctNames, fds # MaxFd, IInv, TableInv, RoomInv, EndCollect
  PROVE  RoomInv' /\ [Room!Next]_Room!vars
<1>0. TypeOK /\ OneToken /\ OneSlot /\ SentOnce /\ Tokens /\ AnswersCounted
  BY DEF IInv, RoomInv
<1>1. /\ srv = "collect" /\ srv' = "release" /\ i >= nb_connect
      /\ UNCHANGED <<tab, nb_connect, i, sem, req, pc, lines, shown, requete, autoris_diff,
                     box>>
  BY DEF EndCollect, stock, client, segment
<1>2. Broadcasting /\ ~ Broadcasting' BY <1>1 DEF Broadcasting
<1>3. ~ Told /\ ~ Told' BY <1>0, <1>1, <1>2, BroadcastQuiet
<1>4. /\ Mapped' /\ OneSlot' /\ Members' = Members /\ \A m : Sent(m)' <=> Sent(m)
      /\ \A s, m : Shown(s, m)' <=> Shown(s, m)
  BY <1>1, <1>3, ServerFrame
<1>5. Displayed = Members /\ sem["fin_diffusion"] = 0
  <2>1. Displayed \in SUBSET Members /\ IsFiniteSet(Displayed)
        /\ Cardinality(Displayed) \in Nat
    BY <1>0, ReachedFinite
  <2>2. IsFiniteSet(Members) /\ Cardinality(Members) = nb_connect
    BY <1>0, MembersCounted, Exact
  <2>3. /\ Cardinality(Displayed) <= nb_connect
        /\ nb_connect = Cardinality(Displayed) => Members = Displayed
    BY <2>1, <2>2, FS_Subset
  <2>4. sem["fin_diffusion"] \in Nat /\ i \in Nat /\ nb_connect \in Int
    BY <1>0 DEF TypeOK, Semaphores
  <2>5. sem["fin_diffusion"] + i = Cardinality(Displayed)
    BY <1>0, <1>1 DEF AnswersCounted
  <2>6. sem["fin_diffusion"] = 0 /\ nb_connect = Cardinality(Displayed)
    BY <1>1, <2>1, <2>3, <2>4, <2>5
  <2> QED BY <2>3, <2>6
<1>6. Reached' = {} /\ Displayed' = {} BY <1>1 DEF Reached, Displayed
<1>7. SentOnce' BY <1>0, <1>1, <1>2, <1>3, <1>4 DEF SentOnce
<1>8. Tokens'
  <2>1. Reached \ Displayed = {} BY <1>0, <1>5, ReachedFinite
  <2> QED BY <1>0, <1>1, <1>2, <1>6, <2>1 DEF Tokens
<1>9. AnswersCounted'
  BY <1>1, <1>5, <1>6, FS_EmptySet DEF AnswersCounted
<1>10. [Room!Next]_Room!vars
  <2>1. {u \in Members : \A n \in DOMAIN shown[u] : shown[u][n] # req.content} = {}
    BY <1>5 DEF Displayed, Shown
  <2>2. CASE req.content = None
    BY <1>1, <1>4, <2>1, <2>2 DEF Room!vars
  <2>3. CASE req.content # None
    <3>1. Room!Delivered BY <1>1, <1>4, <2>1, <2>3 DEF Room!Delivered
    <3> QED BY <3>1 DEF Room!Next
  <2> QED BY <2>2, <2>3
<1> QED BY <1>4, <1>7, <1>8, <1>9, <1>10 DEF RoomInv

LEMMA InitRoom == Init => RoomInv /\ Room!Init
<1> SUFFICES ASSUME Init PROVE RoomInv /\ Room!Init
    OBVIOUS
<1> USE DEF Init
<1>1. ~ Told /\ ~ Broadcasting BY DEF Told, Broadcasting, Semaphores
<1>2. Members = {} BY DEF Members, Empty
<1>3. Reached = {} /\ Displayed = {} BY <1>1 DEF Reached, Displayed, Broadcasting
<1>m. Mapped BY DEF Mapped, Procs
<1>4. OneSlot BY <1>1, <1>2 DEF OneSlot, Asking, Entering, Empty
<1>5. SentOnce BY <1>1 DEF SentOnce
<1>6. Tokens BY <1>1, <1>3 DEF Tokens, Procs, Unsized
<1>7. AnswersCounted BY <1>3, FS_EmptySet DEF AnswersCounted, Semaphores
<1>8. Room!Init BY <1>2 DEF Room!Init
<1> QED BY <1>m, <1>4, <1>5, <1>6, <1>7, <1>8 DEF RoomInv

LEMMA RoomStep ==
  ASSUME DistinctNames, fds # MaxFd, IInv, TableInv, RoomInv, [Next]_vars
  PROVE  RoomInv' /\ [Room!Next]_Room!vars
BY QuietSteps, AwaitStep, ShowStep, SubmitStep, ConnexionRoom, DeconnexionRoom, BeginRoom,
   DiffuseRoom, EndDiffuseRoom, CollectRoom, EndCollectRoom
   DEF Next, Server, Session, User, Process

(* Where names tell the sessions apart, and as long as the server has a    *)
(* descriptor left, the server and its clients are the room they promise:  *)
(* for any number of sessions, of lines and of slots, and whoever leaves,  *)
(* a broadcast ends only when every member has displayed it once.          *)
THEOREM RefinesRoom ==
  DistinctNames => (Spec /\ [](fds # MaxFd) => ImplementsRoom)
<1> SUFFICES ASSUME DistinctNames PROVE Spec /\ [](fds # MaxFd) => ImplementsRoom
    OBVIOUS
<1>1. Init => RoomInv /\ Room!Init BY InitRoom
<1>2. IInv /\ TableInv /\ fds # MaxFd /\ RoomInv /\ [Next]_vars
        => RoomInv' /\ [Room!Next]_Room!vars
  BY RoomStep
<1> QED
  BY Invariance, TableInvariance, <1>1, <1>2, PTL
  DEF Spec, ImplementsRoom, Room!Spec

(* A slot without a segment is the only null pointer of the server: where  *)
(* names tell the sessions apart it takes the last descriptor to crash it. *)
THEOREM OnlyShortageCrashes ==
  DistinctNames => (Spec /\ [](fds # MaxFd) => []ServerSurvives)
<1> SUFFICES ASSUME DistinctNames PROVE Spec /\ [](fds # MaxFd) => []ServerSurvives
    OBVIOUS
<1>1. Init => ServerSurvives BY DEF Init, ServerSurvives
<1>2. IInv /\ TableInv /\ RoomInv /\ fds # MaxFd /\ ServerSurvives /\ [Next]_vars => ServerSurvives'
  <2> SUFFICES ASSUME IInv, TableInv, RoomInv, fds # MaxFd, ServerSurvives, [Next]_vars
               PROVE  up' # "crashed"
    BY DEF ServerSurvives
  <2>1. CASE DiffuseSlot
    <3>1. TypeOK BY DEF IInv
    <3>2. i \in Slots BY <2>1, <3>1, BoundAssumption DEF DiffuseSlot, TypeOK, Slots
    <3>3. Taken(i) => tab[i].link # None BY <3>1, <3>2, Exact
    <3>4. tab[i].link # None => autoris_diff[tab[i].link] # Unsized
      <4>1. tab[i].link # None => tab[i].link \in Members /\ tab[i].link \in Sessions
        BY <3>1, <3>2 DEF Members, TypeOK
      <4> QED BY <4>1 DEF RoomInv, OneSlot, Asking
    <3> QED BY <2>1, <3>3, <3>4 DEF DiffuseSlot, ServerSurvives
  <2> QED
    BY <2>1
    DEF Next, Server, ServerQuit, Session, User, Process, TakeRequest, Connexion,
      BeginDiffusion, EndDiffuse, Collect, EndCollect, Deconnexion, Release, Verify,
      Create, Truncate, InitSegment, Fork,
      InstallHandler, Await, Show, Start, TypeLine, Interrupt, Acquire, Submit, TakeSignal,
      Exit, WaitDeco, vars, server, ServerSurvives
<1>3. IInv /\ TableInv /\ fds # MaxFd /\ RoomInv /\ [Next]_vars => RoomInv'
  BY RoomStep
<1>4. Init => RoomInv BY InitRoom
<1> QED BY Invariance, TableInvariance, <1>1, <1>2, <1>3, <1>4, PTL DEF Spec
=============================================================================
