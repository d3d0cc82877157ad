-------------------------- MODULE Servers_proofs ----------------------------
(* Proofs about the two servers that answer one request after another:     *)
(* MsgServer, for any number of sons and any values, and FtpSession, for   *)
(* any files on both sides, any buffer and any number of commands.         *)
EXTENDS MsgServer, FtpSession, FiniteSetTheorems, SequenceTheorems, TLAPS
-----------------------------------------------------------------------------
(* MsgServer *)

SomeType == Sons \cup {Father}
-----------------------------------------------------------------------------
(* Sequences of messages, and the enumeration of those of a type. *)

\* the enumeration once a message of the type is added at n, once another is
\* removed at o, and once the first of the type is removed
Extended(f, k, n) == [a \in 1 .. k + 1 |-> IF a <= k THEN f[a] ELSE n]
Shifted(f, k, o) == [a \in 1 .. k |-> IF f[a] < o THEN f[a] ELSE f[a] - 1]
Shortened(f, k) == [a \in 1 .. k - 1 |-> f[a + 1] - 1]

\* what is left of a queue without its message at o
LEMMA RemoveAtFacts ==
  ASSUME NEW S, NEW q \in Seq(S), NEW o \in DOMAIN q
  PROVE  /\ RemoveAt(q, o) \in Seq(S)
         /\ Len(RemoveAt(q, o)) = Len(q) - 1
         /\ \A i \in 1 .. Len(q) - 1 :
              RemoveAt(q, o)[i] = IF i < o THEN q[i] ELSE q[i + 1]
<1>1. o \in 1 .. Len(q) /\ Len(q) \in Nat
  OBVIOUS
<1> DEFINE a == SubSeq(q, 1, o - 1)
           b == SubSeq(q, o + 1, Len(q))
<1>2. a \in Seq(S) /\ Len(a) = o - 1 /\ \A i \in 1 .. o - 1 : a[i] = q[i]
  BY <1>1
<1>3. b \in Seq(S) /\ Len(b) = Len(q) - o /\ \A i \in 1 .. Len(q) - o : b[i] = q[o + i]
  BY <1>1
<1>4. RemoveAt(q, o) = a \o b
  BY DEF RemoveAt
<1> HIDE DEF a, b
<1>5. /\ a \o b \in Seq(S) /\ Len(a \o b) = Len(a) + Len(b)
      /\ \A i \in 1 .. Len(a) + Len(b) : (a \o b)[i] = IF i <= Len(a) THEN a[i] ELSE b[i - Len(a)]
  BY <1>2, <1>3, ConcatProperties
<1>6. Len(a) + Len(b) = Len(q) - 1
  BY <1>1, <1>2, <1>3
<1>7. ASSUME NEW i \in 1 .. Len(q) - 1
      PROVE  (a \o b)[i] = IF i < o THEN q[i] ELSE q[i + 1]
  <2>1. (a \o b)[i] = IF i <= o - 1 THEN a[i] ELSE b[i - (o - 1)]
    BY <1>2, <1>5, <1>6
  <2>2. CASE i < o
    BY <1>1, <1>2, <2>1, <2>2
  <2>3. CASE ~ (i < o)
    <3>1. i - (o - 1) \in 1 .. Len(q) - o /\ o + (i - (o - 1)) = i + 1
      BY <1>1, <2>3
    <3>2. b[i - (o - 1)] = q[i + 1]
      BY <1>3, <3>1
    <3> QED BY <1>1, <2>1, <2>3, <3>2
  <2> QED BY <2>2, <2>3
<1> QED BY <1>4, <1>5, <1>6, <1>7

\* a queue with one message more
LEMMA AppendFacts ==
  ASSUME NEW S, NEW q \in Seq(S), NEW m \in S
  PROVE  /\ Append(q, m) \in Seq(S)
         /\ Len(Append(q, m)) = Len(q) + 1
         /\ DOMAIN Append(q, m) = 1 .. Len(q) + 1
         /\ \A i \in 1 .. Len(q) : Append(q, m)[i] = q[i]
         /\ Append(q, m)[Len(q) + 1] = m
<1> DEFINE r == Append(q, m)
<1>1. r \in Seq(S) /\ Len(r) = Len(q) + 1
  OBVIOUS
<1>2. DOMAIN r = 1 .. Len(q) + 1
  BY <1>1
<1>3. (\A i \in 1 .. Len(q) : r[i] = q[i]) /\ r[Len(q) + 1] = m
  OBVIOUS
<1> QED BY <1>1, <1>2, <1>3

\* a message of another type changes no enumeration
LEMMA EnumAppendOther ==
  ASSUME NEW q \in Seq(Message), NEW m \in Message, NEW t, m.type # t,
         NEW k \in Nat, NEW f \in [1 .. k -> DOMAIN q], Enumerates(f, k, q, t)
  PROVE  f \in [1 .. k -> DOMAIN Append(q, m)] /\ Enumerates(f, k, Append(q, m), t)
<1> DEFINE q2 == Append(q, m)
<1>1. DOMAIN q = 1 .. Len(q) /\ Len(q) \in Nat
  OBVIOUS
<1>2. DOMAIN q2 = 1 .. Len(q) + 1 /\ (\A i \in 1 .. Len(q) : q2[i] = q[i]) /\ q2[Len(q) + 1] = m
  BY AppendFacts
<1> HIDE DEF q2
<1>3. f \in [1 .. k -> DOMAIN q2]
  BY <1>1, <1>2
<1>4. \A i \in DOMAIN q2 : q2[i].type = t => i \in DOMAIN q
  BY <1>1, <1>2
<1>5. Enumerates(f, k, q2, t)
  BY <1>1, <1>2, <1>4 DEF Enumerates
<1> QED BY <1>3, <1>5 DEF q2

\* a message of the type comes last in the enumeration
LEMMA EnumAppendOwn ==
  ASSUME NEW q \in Seq(Message), NEW m \in Message,
         NEW k \in Nat, NEW f \in [1 .. k -> DOMAIN q], Enumerates(f, k, q, m.type)
  PROVE  Extended(f, k, Len(q) + 1) \in [1 .. k + 1 -> DOMAIN Append(q, m)] /\ Enumerates(Extended(f, k, Len(q) + 1), k + 1, Append(q, m), m.type)
<1> DEFINE g == Extended(f, k, Len(q) + 1)
           q2 == Append(q, m)
<1> USE DEF Extended
<1>1. DOMAIN q = 1 .. Len(q) /\ Len(q) \in Nat
  OBVIOUS
<1>2. DOMAIN q2 = 1 .. Len(q) + 1 /\ (\A i \in 1 .. Len(q) : q2[i] = q[i]) /\ q2[Len(q) + 1] = m
  BY AppendFacts
<1> HIDE DEF q2
<1>3. \A a \in 1 .. k : a \in 1 .. k + 1 /\ g[a] = f[a] /\ f[a] \in 1 .. Len(q)
  BY <1>1
<1>4. g[k + 1] = Len(q) + 1 /\ k + 1 \in 1 .. k + 1
  OBVIOUS
<1>5. \A a \in 1 .. k + 1 : a \in 1 .. k \/ a = k + 1
  OBVIOUS
<1>6. g \in [1 .. k + 1 -> DOMAIN q2]
  BY <1>1, <1>2
<1>7. \A a, b \in 1 .. k + 1 : a < b => g[a] < g[b]
  BY <1>1, <1>3, <1>4, <1>5 DEF Enumerates
<1>8. \A a \in 1 .. k + 1 : q2[g[a]].type = m.type
  BY <1>2, <1>3, <1>4, <1>5, <1>1 DEF Enumerates
<1>9. ASSUME NEW i \in DOMAIN q2, q2[i].type = m.type
      PROVE  \E a \in 1 .. k + 1 : g[a] = i
  <2>1. CASE i = Len(q) + 1
    BY <1>4, <2>1
  <2>2. CASE i \in DOMAIN q
    <3>1. q[i].type = m.type
      BY <1>1, <1>2, <1>9, <2>2
    <3>2. PICK a \in 1 .. k : f[a] = i
      BY <2>2, <3>1 DEF Enumerates
    <3> QED BY <1>3, <3>2
  <2> QED BY <1>1, <1>2, <2>1, <2>2
<1> QED BY <1>6, <1>7, <1>8, <1>9 DEF Enumerates, q2

\* a message of another type, removed, shifts the enumeration
LEMMA EnumRemoveOther ==
  ASSUME NEW q \in Seq(Message), NEW o \in DOMAIN q, NEW t, q[o].type # t,
         NEW k \in Nat, NEW f \in [1 .. k -> DOMAIN q], Enumerates(f, k, q, t)
  PROVE  /\ Shifted(f, k, o) \in [1 .. k -> DOMAIN RemoveAt(q, o)]
         /\ Enumerates(Shifted(f, k, o), k, RemoveAt(q, o), t)
         /\ \A a \in 1 .. k : RemoveAt(q, o)[Shifted(f, k, o)[a]] = q[f[a]]
<1> DEFINE g == Shifted(f, k, o)
           q2 == RemoveAt(q, o)
<1> USE DEF Shifted
<1>1. DOMAIN q = 1 .. Len(q) /\ Len(q) \in Nat /\ o \in 1 .. Len(q)
  OBVIOUS
<1>2. /\ DOMAIN q2 = 1 .. Len(q) - 1
      /\ \A i \in 1 .. Len(q) - 1 : q2[i] = IF i < o THEN q[i] ELSE q[i + 1]
  <2>1. q2 \in Seq(Message) /\ Len(q2) = Len(q) - 1
    BY RemoveAtFacts
  <2>2. DOMAIN q2 = 1 .. Len(q2)
    BY <2>1
  <2> QED BY <2>1, <2>2, RemoveAtFacts
<1> HIDE DEF q2
<1>3. \A a \in 1 .. k : f[a] \in 1 .. Len(q) /\ f[a] # o
  BY <1>1 DEF Enumerates
<1>4. \A a \in 1 .. k : g[a] \in 1 .. Len(q) - 1 /\ q2[g[a]] = q[f[a]]
  <2> TAKE a \in 1 .. k
  <2>1. CASE f[a] < o
    <3>1. g[a] = f[a] /\ g[a] \in 1 .. Len(q) - 1
      BY <1>1, <1>3, <2>1
    <3> QED BY <1>2, <3>1, <2>1
  <2>2. CASE f[a] > o
    <3>1. g[a] = f[a] - 1 /\ g[a] \in 1 .. Len(q) - 1 /\ ~ (g[a] < o) /\ g[a] + 1 = f[a]
      BY <1>1, <1>3, <2>2
    <3>2. q2[g[a]] = q[g[a] + 1]
      BY <1>2, <3>1
    <3> QED BY <3>1, <3>2
  <2> QED BY <1>1, <1>3, <2>1, <2>2
<1>5. g \in [1 .. k -> DOMAIN q2]
  BY <1>2, <1>4
<1>6. \A a, b \in 1 .. k : a < b => g[a] < g[b]
  BY <1>1, <1>3 DEF Enumerates
<1>7. \A a \in 1 .. k : q2[g[a]].type = t
  BY <1>4 DEF Enumerates
<1>8. ASSUME NEW i \in DOMAIN q2, q2[i].type = t
      PROVE  \E a \in 1 .. k : g[a] = i
  <2>1. CASE i < o
    <3>0. i \in 1 .. Len(q) - 1 /\ q2[i] = q[i]
      BY <1>2, <1>8, <2>1
    <3>1. i \in DOMAIN q /\ q[i].type = t
      BY <1>1, <1>8, <3>0
    <3>2. PICK a \in 1 .. k : f[a] = i
      BY <3>1 DEF Enumerates
    <3> QED BY <2>1, <3>2
  <2>2. CASE ~ (i < o)
    <3>0. i \in 1 .. Len(q) - 1 /\ q2[i] = q[i + 1]
      BY <1>2, <1>8, <2>2
    <3>1. i + 1 \in DOMAIN q /\ q[i + 1].type = t
      BY <1>1, <1>8, <3>0
    <3>2. PICK a \in 1 .. k : f[a] = i + 1
      BY <3>1 DEF Enumerates
    <3>3. i \in Nat /\ ~ (i + 1 < o) /\ (i + 1) - 1 = i
      BY <1>1, <2>2, <3>0
    <3> QED BY <3>2, <3>3
  <2> QED BY <2>1, <2>2
<1> QED BY <1>4, <1>5, <1>6, <1>7, <1>8 DEF Enumerates, q2

\* the first message of the type, removed, shortens the enumeration
LEMMA EnumRemoveFirst ==
  ASSUME NEW q \in Seq(Message), NEW t,
         NEW k \in Nat, k >= 1, NEW f \in [1 .. k -> DOMAIN q], Enumerates(f, k, q, t)
  PROVE  /\ Shortened(f, k) \in [1 .. k - 1 -> DOMAIN RemoveAt(q, f[1])]
         /\ Enumerates(Shortened(f, k), k - 1, RemoveAt(q, f[1]), t)
         /\ \A a \in 1 .. k - 1 : RemoveAt(q, f[1])[Shortened(f, k)[a]] = q[f[a + 1]]
<1> DEFINE g == Shortened(f, k)
           o == f[1]
           q2 == RemoveAt(q, o)
<1> USE DEF Shortened
<1>1. DOMAIN q = 1 .. Len(q) /\ Len(q) \in Nat /\ o \in 1 .. Len(q) /\ 1 \in 1 .. k
  OBVIOUS
<1>2. /\ DOMAIN q2 = 1 .. Len(q) - 1
      /\ \A i \in 1 .. Len(q) - 1 : q2[i] = IF i < o THEN q[i] ELSE q[i + 1]
  <2>1. o \in DOMAIN q
    BY <1>1
  <2>2. q2 \in Seq(Message) /\ Len(q2) = Len(q) - 1
    BY <2>1, RemoveAtFacts
  <2>3. DOMAIN q2 = 1 .. Len(q2)
    BY <2>2
  <2> QED BY <2>1, <2>2, <2>3, RemoveAtFacts
<1> HIDE DEF q2
<1>3. \A a \in 1 .. k - 1 : a + 1 \in 1 .. k /\ f[a + 1] \in 1 .. Len(q) /\ f[a + 1] > o
  BY <1>1 DEF Enumerates
<1> HIDE DEF o
<1>4. \A a \in 1 .. k - 1 : g[a] \in 1 .. Len(q) - 1 /\ q2[g[a]] = q[f[a + 1]]
  <2> TAKE a \in 1 .. k - 1
  <2>1. g[a] = f[a + 1] - 1 /\ g[a] \in 1 .. Len(q) - 1 /\ ~ (g[a] < o) /\ g[a] + 1 = f[a + 1]
    BY <1>1, <1>3
  <2>2. q2[g[a]] = q[g[a] + 1]
    BY <1>2, <2>1
  <2> QED BY <2>1, <2>2
<1>5. g \in [1 .. k - 1 -> DOMAIN q2]
  BY <1>2, <1>4
<1>6. \A a, b \in 1 .. k - 1 : a < b => g[a] < g[b]
  <2> TAKE a, b \in 1 .. k - 1
  <2> HAVE a < b
  <2>1. f[a + 1] < f[b + 1]
    BY <1>3 DEF Enumerates
  <2> QED BY <1>3, <2>1
<1>7. \A a \in 1 .. k - 1 : q2[g[a]].type = t
  BY <1>3, <1>4 DEF Enumerates
<1>8. ASSUME NEW i \in DOMAIN q2, q2[i].type = t
      PROVE  \E a \in 1 .. k - 1 : g[a] = i
  <2>1. \A j \in DOMAIN q : q[j].type = t => j >= o
    <3> TAKE j \in DOMAIN q
    <3> HAVE q[j].type = t
    <3>1. PICK a \in 1 .. k : f[a] = j
      BY DEF Enumerates
    <3>2. a = 1 \/ f[1] < f[a]
      BY <1>1 DEF Enumerates
    <3> QED BY <1>1, <3>1, <3>2 DEF o
  <2>2. ~ (i < o)
    <3> SUFFICES ASSUME i < o PROVE FALSE
      OBVIOUS
    <3>1. q2[i] = q[i]
      BY <1>2
    <3>2. i \in DOMAIN q
      BY <1>1, <1>2
    <3> QED BY <1>1, <1>8, <2>1, <3>1, <3>2
  <2>3. i + 1 \in DOMAIN q /\ q[i + 1].type = t /\ i \in Nat
    BY <1>1, <1>2, <1>8, <2>2
  <2>4. PICK a \in 1 .. k : f[a] = i + 1
    BY <2>3 DEF Enumerates
  <2>5. a # 1
    BY <1>1, <2>2, <2>3, <2>4 DEF o
  <2>6. a - 1 \in 1 .. k - 1 /\ (a - 1) + 1 = a
    BY <2>5
  <2>7. g[a - 1] = i
    <3>1. g[a - 1] = f[(a - 1) + 1] - 1
      BY <2>6
    <3> QED BY <2>3, <2>4, <2>6, <3>1
  <2> QED BY <2>6, <2>7
<1> QED BY <1>4, <1>5, <1>6, <1>7, <1>8 DEF Enumerates, q2, o

(* The message msgrcv takes is the first of its type. *)
LEMMA OldestIsFirst ==
  ASSUME NEW t, OfType(t) # {},
         NEW k \in Nat, NEW f \in [1 .. k -> DOMAIN queue], Enumerates(f, k, queue, t),
         queue \in Seq(Message)
  PROVE  k >= 1 /\ Oldest(t) = f[1] /\ Oldest(t) \in DOMAIN queue /\ queue[Oldest(t)].type = t
<1>1. DOMAIN queue = 1 .. Len(queue) /\ Len(queue) \in Nat
  OBVIOUS
<1>2. PICK i \in DOMAIN queue : queue[i].type = t
  BY DEF OfType
<1>3. PICK a \in 1 .. k : f[a] = i
  BY <1>2 DEF Enumerates
<1>4. k >= 1 /\ 1 \in 1 .. k
  BY <1>3
<1>5. f[1] \in OfType(t)
  BY <1>4 DEF OfType, Enumerates
<1>6. \A j \in OfType(t) : f[1] <= j
  <2> TAKE j \in OfType(t)
  <2>1. PICK b \in 1 .. k : f[b] = j
    BY DEF OfType, Enumerates
  <2>2. b = 1 \/ f[1] < f[b]
    BY <1>4 DEF Enumerates
  <2> QED BY <1>1, <1>4, <2>1, <2>2
<1>7. \A x, y \in OfType(t) : x <= y /\ y <= x => x = y
  BY <1>1 DEF OfType
<1>8. Oldest(t) \in OfType(t) /\ \A j \in OfType(t) : Oldest(t) <= j
  BY <1>5, <1>6 DEF Oldest
<1>9. Oldest(t) = f[1]
  BY <1>5, <1>6, <1>7, <1>8
<1> QED BY <1>4, <1>8, <1>9 DEF OfType

\* the messages of every type stay enumerable when one is added
LEMMA EnumerableAppend ==
  ASSUME NEW q \in Seq(Message), NEW m \in Message, NEW t, Enumerable(q, t)
  PROVE  Enumerable(Append(q, m), t)
<1>0. PICK k \in Nat : \E f \in [1 .. k -> DOMAIN q] : Enumerates(f, k, q, t)
  BY DEF Enumerable
<1>1. PICK f \in [1 .. k -> DOMAIN q] : Enumerates(f, k, q, t)
  BY <1>0
<1>2. CASE m.type # t
  BY <1>1, <1>2, EnumAppendOther DEF Enumerable
<1>3. CASE m.type = t
  <2> DEFINE g == Extended(f, k, Len(q) + 1)
  <2>1. g \in [1 .. k + 1 -> DOMAIN Append(q, m)] /\ Enumerates(g, k + 1, Append(q, m), t)
    BY <1>1, <1>3, EnumAppendOwn
  <2>2. k + 1 \in Nat
    OBVIOUS
  <2> QED BY <2>1, <2>2 DEF Enumerable
<1> QED BY <1>2, <1>3

\* and when the oldest of a type is removed
LEMMA EnumerableRemove ==
  ASSUME NEW t, NEW u, queue \in Seq(Message), OfType(u) # {},
         Enumerable(queue, t), Enumerable(queue, u)
  PROVE  /\ Enumerable(RemoveAt(queue, Oldest(u)), t)
         /\ Oldest(u) \in DOMAIN queue /\ queue[Oldest(u)].type = u
<1>0. PICK k \in Nat : \E f \in [1 .. k -> DOMAIN queue] : Enumerates(f, k, queue, u)
  BY DEF Enumerable
<1>1. PICK f \in [1 .. k -> DOMAIN queue] : Enumerates(f, k, queue, u)
  BY <1>0
<1>2. k >= 1 /\ Oldest(u) = f[1] /\ Oldest(u) \in DOMAIN queue /\ queue[Oldest(u)].type = u
  BY <1>1, OldestIsFirst
<1>3. CASE t = u
  <2> DEFINE g == Shortened(f, k)
  <2>1. g \in [1 .. k - 1 -> DOMAIN RemoveAt(queue, f[1])] /\ Enumerates(g, k - 1, RemoveAt(queue, f[1]), u)
    BY <1>1, <1>2, EnumRemoveFirst
  <2>2. k - 1 \in Nat
    BY <1>2
  <2> QED BY <1>2, <1>3, <2>1, <2>2 DEF Enumerable
<1>4. CASE t # u
  <2>0. PICK n \in Nat : \E h \in [1 .. n -> DOMAIN queue] : Enumerates(h, n, queue, t)
    BY DEF Enumerable
  <2>1. PICK h \in [1 .. n -> DOMAIN queue] : Enumerates(h, n, queue, t)
    BY <2>0
  <2> DEFINE o == Oldest(u)
             g == Shifted(h, n, o)
  <2> HIDE DEF o
  <2>2. o \in DOMAIN queue /\ queue[o].type # t
    BY <1>2, <1>4 DEF o
  <2>3. g \in [1 .. n -> DOMAIN RemoveAt(queue, o)] /\ Enumerates(g, n, RemoveAt(queue, o), t)
    BY <2>1, <2>2, EnumRemoveOther
  <2> QED BY <1>2, <2>3 DEF Enumerable, o
<1> QED BY <1>2, <1>3, <1>4

\* what a son has and is to get, when another is answered
LEMMA DeliveredAppendOther ==
  ASSUME NEW q \in Seq(Message), NEW m \in Message, NEW s, m.type # s,
         NEW read, NEW values, Delivered(q, s, read, values)
  PROVE  Delivered(Append(q, m), s, read, values)
<1>0. PICK k \in Nat : \E f \in [1 .. k -> DOMAIN q] :
        /\ Enumerates(f, k, q, s)
        /\ Len(values) = Len(read) + k
        /\ \A n \in 1 .. Len(read) : values[n] = read[n]
        /\ \A a \in 1 .. k : values[Len(read) + a] = q[f[a]].mess
  BY DEF Delivered
<1>1. PICK f \in [1 .. k -> DOMAIN q] :
        /\ Enumerates(f, k, q, s)
        /\ Len(values) = Len(read) + k
        /\ \A n \in 1 .. Len(read) : values[n] = read[n]
        /\ \A a \in 1 .. k : values[Len(read) + a] = q[f[a]].mess
  BY <1>0
<1>2. f \in [1 .. k -> DOMAIN Append(q, m)] /\ Enumerates(f, k, Append(q, m), s)
  BY <1>1, EnumAppendOther
<1>3. \A a \in 1 .. k : Append(q, m)[f[a]] = q[f[a]]
  BY AppendFacts
<1>4. \A a \in 1 .. k : values[Len(read) + a] = Append(q, m)[f[a]].mess
  BY <1>1, <1>3
<1> QED BY <1>1, <1>2, <1>4 DEF Delivered

\* when it is answered itself
LEMMA DeliveredAppendOwn ==
  ASSUME NEW q \in Seq(Message), NEW m \in Message, NEW s, m.type = s, NEW S, m.mess \in S,
         NEW read \in Seq(S), NEW values \in Seq(S), Delivered(q, s, read, values)
  PROVE  Delivered(Append(q, m), s, read, Append(values, m.mess))
<1>0. PICK k \in Nat : \E f \in [1 .. k -> DOMAIN q] :
        /\ Enumerates(f, k, q, s)
        /\ Len(values) = Len(read) + k
        /\ \A n \in 1 .. Len(read) : values[n] = read[n]
        /\ \A a \in 1 .. k : values[Len(read) + a] = q[f[a]].mess
  BY DEF Delivered
<1>1. PICK f \in [1 .. k -> DOMAIN q] :
        /\ Enumerates(f, k, q, s)
        /\ Len(values) = Len(read) + k
        /\ \A n \in 1 .. Len(read) : values[n] = read[n]
        /\ \A a \in 1 .. k : values[Len(read) + a] = q[f[a]].mess
  BY <1>0
<1> DEFINE g == Extended(f, k, Len(q) + 1)
           v2 == Append(values, m.mess)
           q2 == Append(q, m)
<1>2. g \in [1 .. k + 1 -> DOMAIN q2] /\ Enumerates(g, k + 1, q2, s)
  BY <1>1, EnumAppendOwn
<1>3. /\ Len(v2) = Len(values) + 1
      /\ \A i \in 1 .. Len(values) : v2[i] = values[i]
      /\ v2[Len(values) + 1] = m.mess
  BY AppendFacts
<1>4. (\A i \in 1 .. Len(q) : q2[i] = q[i]) /\ q2[Len(q) + 1] = m
  BY AppendFacts
<1>5. (\A a \in 1 .. k : g[a] = f[a] /\ f[a] \in 1 .. Len(q)) /\ g[k + 1] = Len(q) + 1
  BY DEF Extended
<1>6. Len(read) \in Nat /\ Len(values) \in Nat /\ k + 1 \in Nat
  OBVIOUS
<1> HIDE DEF g, v2, q2
<1>7. Len(v2) = Len(read) + (k + 1)
  BY <1>1, <1>3, <1>6
<1>8. \A n \in 1 .. Len(read) : v2[n] = read[n]
  BY <1>1, <1>3, <1>6
<1>9. ASSUME NEW a \in 1 .. k + 1 PROVE v2[Len(read) + a] = q2[g[a]].mess
  <2>1. CASE a = k + 1
    BY <1>1, <1>3, <1>4, <1>5, <1>6, <2>1
  <2>2. CASE a \in 1 .. k
    <3>1. v2[Len(read) + a] = values[Len(read) + a]
      BY <1>1, <1>3, <1>6, <2>2
    <3> QED BY <1>1, <1>4, <1>5, <2>2, <3>1
  <2> QED BY <2>1, <2>2
<1> QED BY <1>2, <1>6, <1>7, <1>8, <1>9 DEF Delivered, q2, v2

\* when a message of another type is taken
LEMMA DeliveredRemoveOther ==
  ASSUME NEW q \in Seq(Message), NEW o \in DOMAIN q, NEW s, q[o].type # s,
         NEW read, NEW values, Delivered(q, s, read, values)
  PROVE  Delivered(RemoveAt(q, o), s, read, values)
<1>0. PICK k \in Nat : \E f \in [1 .. k -> DOMAIN q] :
        /\ Enumerates(f, k, q, s)
        /\ Len(values) = Len(read) + k
        /\ \A n \in 1 .. Len(read) : values[n] = read[n]
        /\ \A a \in 1 .. k : values[Len(read) + a] = q[f[a]].mess
  BY DEF Delivered
<1>1. PICK f \in [1 .. k -> DOMAIN q] :
        /\ Enumerates(f, k, q, s)
        /\ Len(values) = Len(read) + k
        /\ \A n \in 1 .. Len(read) : values[n] = read[n]
        /\ \A a \in 1 .. k : values[Len(read) + a] = q[f[a]].mess
  BY <1>0
<1> DEFINE g == Shifted(f, k, o)
<1>2. /\ g \in [1 .. k -> DOMAIN RemoveAt(q, o)] /\ Enumerates(g, k, RemoveAt(q, o), s)
      /\ \A a \in 1 .. k : RemoveAt(q, o)[g[a]] = q[f[a]]
  BY <1>1, EnumRemoveOther
<1>3. \A a \in 1 .. k : values[Len(read) + a] = RemoveAt(q, o)[g[a]].mess
  BY <1>1, <1>2
<1> HIDE DEF g
<1> QED BY <1>1, <1>2, <1>3 DEF Delivered

\* when it takes the oldest of its own type
LEMMA DeliveredRemoveOldest ==
  ASSUME NEW s, queue \in Seq(Message), OfType(s) # {},
         NEW S, NEW read \in Seq(S), NEW values \in Seq(S), Delivered(queue, s, read, values),
         queue[Oldest(s)].mess \in S
  PROVE  Delivered(RemoveAt(queue, Oldest(s)), s, Append(read, queue[Oldest(s)].mess), values)
<1>0. PICK k \in Nat : \E f \in [1 .. k -> DOMAIN queue] :
        /\ Enumerates(f, k, queue, s)
        /\ Len(values) = Len(read) + k
        /\ \A n \in 1 .. Len(read) : values[n] = read[n]
        /\ \A a \in 1 .. k : values[Len(read) + a] = queue[f[a]].mess
  BY DEF Delivered
<1>1. PICK f \in [1 .. k -> DOMAIN queue] :
        /\ Enumerates(f, k, queue, s)
        /\ Len(values) = Len(read) + k
        /\ \A n \in 1 .. Len(read) : values[n] = read[n]
        /\ \A a \in 1 .. k : values[Len(read) + a] = queue[f[a]].mess
  BY <1>0
<1>2. k >= 1 /\ Oldest(s) = f[1]
  BY <1>1, OldestIsFirst
<1> DEFINE g == Shortened(f, k)
           q2 == RemoveAt(queue, f[1])
           r2 == Append(read, queue[f[1]].mess)
<1>3. /\ g \in [1 .. k - 1 -> DOMAIN q2] /\ Enumerates(g, k - 1, q2, s)
      /\ \A a \in 1 .. k - 1 : q2[g[a]] = queue[f[a + 1]]
  BY <1>1, <1>2, EnumRemoveFirst
<1>4. /\ Len(r2) = Len(read) + 1
      /\ \A i \in 1 .. Len(read) : r2[i] = read[i]
      /\ r2[Len(read) + 1] = queue[f[1]].mess
  BY <1>2, AppendFacts
<1>5. Len(read) \in Nat /\ k - 1 \in Nat
  BY <1>2
<1> HIDE DEF g, q2, r2
<1>6. Len(values) = Len(r2) + (k - 1)
  BY <1>1, <1>4, <1>5
<1>7. ASSUME NEW n \in 1 .. Len(r2) PROVE values[n] = r2[n]
  <2>1. CASE n \in 1 .. Len(read)
    BY <1>1, <1>4, <2>1
  <2>2. CASE n = Len(read) + 1
    <3>1. 1 \in 1 .. k
      BY <1>2
    <3>2. values[Len(read) + 1] = queue[f[1]].mess
      BY <1>1, <3>1
    <3> QED BY <1>4, <2>2, <3>2
  <2> QED BY <1>4, <1>5, <2>1, <2>2
<1>8. ASSUME NEW a \in 1 .. k - 1 PROVE values[Len(r2) + a] = q2[g[a]].mess
  <2>1. a + 1 \in 1 .. k /\ Len(r2) + a = Len(read) + (a + 1)
    BY <1>4, <1>5
  <2>2. values[Len(read) + (a + 1)] = queue[f[a + 1]].mess
    BY <1>1, <2>1
  <2> QED BY <1>3, <2>1, <2>2
<1>9. Delivered(q2, s, r2, values)
  BY <1>3, <1>5, <1>6, <1>7, <1>8 DEF Delivered
<1> QED BY <1>2, <1>9 DEF q2, r2
-----------------------------------------------------------------------------
(* The invariant *)

\* the fields of a message
LEMMA MsgFields ==
  ASSUME NEW t \in SomeType, NEW v \in 0 .. MaxVal, NEW n \in SomeType
  PROVE  /\ Msg(t, v, n) \in Message
         /\ Msg(t, v, n).type = t /\ Msg(t, v, n).mess = v /\ Msg(t, v, n).num_file = n
BY DEF Msg, Message, SomeType

\* the number of sons
LEMMA CountType == Cardinality(Sons) \in Nat
BY SonsAssumption, FS_CardinalityType

\* an empty queue
LEMMA NoMessage ==
  ASSUME NEW t
  PROVE  Enumerable(<<>>, t) /\ Delivered(<<>>, t, <<>>, <<>>)
<1> DEFINE f == [a \in 1 .. 0 |-> 0]
<1>1. 0 \in Nat /\ Len(<<>>) = 0 /\ 1 .. 0 = {}
  BY EmptySeq
<1>2. f \in [1 .. 0 -> DOMAIN <<>>]
  BY <1>1
<1>3. Enumerates(f, 0, <<>>, t)
  BY <1>1 DEF Enumerates
<1> HIDE DEF f
<1>4. Enumerable(<<>>, t)
  BY <1>1, <1>2, <1>3 DEF Enumerable
<1>5. /\ Len(<<>>) = Len(<<>>) + 0
      /\ \A n \in 1 .. Len(<<>>) : <<>>[n] = <<>>[n]
      /\ \A a \in 1 .. 0 : <<>>[Len(<<>>) + a] = <<>>[f[a]].mess
  BY <1>1
<1>6. Delivered(<<>>, t, <<>>, <<>>)
  BY <1>1, <1>2, <1>3, <1>5 DEF Delivered
<1> QED BY <1>4, <1>6

\* the invariant holds before the first fork
LEMMA InitIInv == Init => IInv
<1> SUFFICES ASSUME Init PROVE IInv
  OBVIOUS
<1> USE SonsAssumption, MaxValAssumption, CountType DEF Init
<1>1. Msg(Father, 0, Father) \in Message /\ \A s \in Sons : Msg(s, 0, Father) \in Message
  BY MsgFields DEF SomeType
<1>2. TypeOK
  <2>0. <<>> \in Seq(Message) /\ <<>> \in Seq(0 .. MaxVal)
    BY EmptySeq
  <2>1. queue \in Seq(Message) /\ got \in [Sons -> Seq(0 .. MaxVal)] /\ sent \in [Sons -> Seq(0 .. MaxVal)]
    BY <2>0
  <2>2. served \in 0 .. Cardinality(Sons) /\ todo \in 0 .. MaxVal
    OBVIOUS
  <2>3. left \in [Sons -> 0 .. MaxVal] /\ want \in [Sons -> 0 .. MaxVal]
    OBVIOUS
  <2>4. /\ spc \in [Sons -> {"none", "ask", "receive", "done", "killed"}]
        /\ sbuf \in [Sons -> Message] /\ fbuf \in Message
    BY <1>1
  <2>5. pending \subseteq Sons \cup {Father} /\ interrupted \in BOOLEAN /\ removed \in BOOLEAN
    OBVIOUS
  <2> QED BY <2>1, <2>2, <2>3, <2>4, <2>5 DEF TypeOK
<1>3. \A t \in SomeType : Enumerable(queue, t)
  BY NoMessage
<1>4. Orderly
  <2>1. \A s \in Sons : Account(s)
    BY DEF Account, Unasked, Serving, Requests, Requested
  <2>2. \A s \in Sons : Delivered(queue, s, got[s], sent[s])
    BY NoMessage
  <2> QED BY <2>1, <2>2 DEF Orderly
<1> QED BY <1>2, <1>3, <1>4 DEF IInv, SomeType

(* What msgrcv takes is a message of its type. *)
LEMMA Taking ==
  ASSUME TypeOK, NEW u \in SomeType, \A t \in SomeType : Enumerable(queue, t), OfType(u) # {}
  PROVE  /\ Oldest(u) \in DOMAIN queue
         /\ queue[Oldest(u)] \in Message /\ queue[Oldest(u)].type = u
         /\ RemoveAt(queue, Oldest(u)) \in Seq(Message)
         /\ \A t \in SomeType : Enumerable(RemoveAt(queue, Oldest(u)), t)
<1>1. queue \in Seq(Message)
  BY DEF TypeOK
<1>2. \A t \in SomeType : /\ Enumerable(RemoveAt(queue, Oldest(u)), t)
                          /\ Oldest(u) \in DOMAIN queue /\ queue[Oldest(u)].type = u
  BY <1>1, EnumerableRemove
<1>3. Oldest(u) \in DOMAIN queue /\ queue[Oldest(u)].type = u
  BY <1>2
<1> QED BY <1>1, <1>2, <1>3, RemoveAtFacts

(* The queue and the buffers stay typed, whatever was removed. *)
LEMMA Receiving ==
  ASSUME TypeOK, NEW u \in SomeType, \A t \in SomeType : Enumerable(queue, t),
         Msgrcv(u), NEW buf \in Message
  PROVE  /\ queue' \in Seq(Message) /\ Received(u, buf) \in Message
         /\ \A t \in SomeType : Enumerable(queue', t)
<1>1. CASE removed
  BY <1>1 DEF Msgrcv, Received, TypeOK
<1>2. CASE ~ removed
  <2>1. OfType(u) # {}
    BY <1>2 DEF Msgrcv
  <2> QED BY <1>2, <2>1, Taking DEF Msgrcv, Received
<1> QED BY <1>1, <1>2

\* a queue with a message more is a queue of messages
LEMMA Sending ==
  ASSUME TypeOK, \A t \in SomeType : Enumerable(queue, t), NEW m \in Message, Msgsnd(m)
  PROVE  queue' \in Seq(Message) /\ \A t \in SomeType : Enumerable(queue', t)
<1>1. queue \in Seq(Message)
  BY DEF TypeOK
<1>2. Append(queue, m) \in Seq(Message) /\ \A t \in SomeType : Enumerable(Append(queue, m), t)
  BY <1>1, EnumerableAppend, AppendFacts
<1> QED BY <1>1, <1>2 DEF Msgsnd

Typed ==
  /\ TypeOK
  /\ fpc = "send" => More
  /\ \A t \in SomeType : Enumerable(queue, t)

\* every step keeps the types
LEMMA StepTyped ==
  ASSUME Typed, [Next]_vars
  PROVE  Typed'
<1>0. TypeOK /\ (fpc = "send" => More) /\ \A t \in SomeType : Enumerable(queue, t)
  BY DEF Typed
<1> USE SonsAssumption, MaxValAssumption, CountType DEF More
<1>1. CASE EndFork \/ EndReceive \/ Finish \/ ForkFailure \/ UNCHANGED vars \/ Interrupt
  BY <1>0, <1>1 DEF EndFork, EndReceive, Finish, ForkFailure, Interrupt, vars, father, sons, Typed, TypeOK
<1>2. ASSUME NEW s \in Sons, Fork(s) PROVE Typed'
  <2>1. PICK n \in 0 .. MaxVal :
          /\ want' = [want EXCEPT ![s] = n] /\ left' = [left EXCEPT ![s] = n]
          /\ sbuf' = [sbuf EXCEPT ![s] = Msg(Father, n, s)]
    BY <1>2 DEF Fork
  <2>2. Msg(Father, n, s) \in Message
    BY MsgFields DEF SomeType
  <2> QED BY <1>0, <1>2, <2>1, <2>2 DEF Fork, father, Typed, TypeOK
<1>3. CASE Receive
  <2>1. fbuf' \in Message /\ queue' \in Seq(Message) /\ \A t \in SomeType : Enumerable(queue', t)
    BY <1>0, <1>3, Receiving DEF Receive, SomeType, TypeOK
  <2>2. todo' \in 0 .. MaxVal
    BY <1>3, <2>1 DEF Receive, Message
  <2> QED BY <1>0, <1>3, <2>1, <2>2 DEF Receive, sons, Typed, TypeOK
<1>4. CASE Send
  <2>1. PICK v \in 0 .. MaxVal :
          /\ fbuf' = Msg(Answer, v, fbuf.num_file)
          /\ sent' = [sent EXCEPT ![fbuf.num_file] = Append(@, v)]
    BY <1>4 DEF Send
  <2>2. fbuf.num_file \in SomeType
    BY <1>0 DEF TypeOK, Message, SomeType
  <2>3. fbuf' \in Message
    BY <2>1, <2>2, MsgFields DEF Answer
  <2>4. queue' \in Seq(Message) /\ \A t \in SomeType : Enumerable(queue', t)
    BY <1>0, <1>4, <2>3, Sending DEF Send
  <2>5. sent' \in [Sons -> Seq(0 .. MaxVal)]
    <3>1. \A n \in Sons : Append(sent[n], v) \in Seq(0 .. MaxVal)
      BY <1>0, AppendFacts DEF TypeOK
    <3>2. sent \in [Sons -> Seq(0 .. MaxVal)]
      BY <1>0 DEF TypeOK
    <3> QED BY <2>1, <3>1, <3>2
  <2>6. todo' \in 0 .. MaxVal
    BY <1>0, <1>4 DEF Send, TypeOK
  <2> QED BY <1>0, <1>4, <2>3, <2>4, <2>5, <2>6 DEF Send, sons, Typed, TypeOK
<1>5. CASE EndSend
  BY <1>0, <1>5 DEF EndSend, sons, Typed, TypeOK
<1>6. ASSUME NEW s \in Sons, Ask(s) PROVE Typed'
  <2>1. queue' \in Seq(Message) /\ \A t \in SomeType : Enumerable(queue', t)
    BY <1>0, <1>6, Sending DEF Ask, TypeOK
  <2> QED BY <1>0, <1>6, <2>1 DEF Ask, father, Typed, TypeOK
<1>7. ASSUME NEW s \in Sons, Value(s) PROVE Typed'
  <2>1. /\ Received(s, sbuf[s]) \in Message /\ queue' \in Seq(Message)
        /\ \A t \in SomeType : Enumerable(queue', t)
    BY <1>0, <1>7, Receiving DEF Value, SomeType, TypeOK
  <2>2. sbuf' \in [Sons -> Message] /\ sbuf'[s] \in Message
    BY <1>0, <1>7, <2>1 DEF Value, TypeOK
  <2>3. got' \in [Sons -> Seq(0 .. MaxVal)]
    <3>1. sbuf'[s].mess \in 0 .. MaxVal
      BY <2>2 DEF Message
    <3> QED BY <1>0, <1>7, <3>1 DEF Value, TypeOK
  <2>4. left' \in [Sons -> 0 .. MaxVal]
    BY <1>0, <1>7 DEF Value, TypeOK
  <2> QED BY <1>0, <1>7, <2>1, <2>2, <2>3, <2>4 DEF Value, father, Typed, TypeOK
<1>8. ASSUME NEW s \in Sons, EndSon(s) PROVE Typed'
  BY <1>0, <1>8 DEF EndSon, father, Typed, TypeOK
<1>9. ASSUME NEW p \in Sons \cup {Father}, TakeSignal(p) PROVE Typed'
  BY <1>0, <1>9 DEF TakeSignal, Handler, Typed, TypeOK
<1> QED
  BY <1>1, <1>2, <1>3, <1>4, <1>5, <1>6, <1>7, <1>8, <1>9 DEF Next, FatherStep, SonStep
-----------------------------------------------------------------------------
(* Requests in the queue, when a message is added to it or taken from it. *)

\* where the message at i was before the one at o was taken
Was(i, o) == IF i < o THEN i ELSE i + 1

\* the requests in the queue, once a message is added
LEMMA RequestsAdd ==
  ASSUME queue \in Seq(Message), NEW m \in Message, queue' = Append(queue, m),
         NEW s, ~ (m.type = Father /\ m.num_file = s)
  PROVE  Requests(s)' = Requests(s) /\ \A i \in Requests(s) : queue'[i] = queue[i]
<1>1. DOMAIN queue = 1 .. Len(queue) /\ Len(queue) \in Nat
  OBVIOUS
<1>2. /\ DOMAIN queue' = 1 .. Len(queue) + 1
      /\ \A i \in 1 .. Len(queue) : queue'[i] = queue[i]
      /\ queue'[Len(queue) + 1] = m
  BY AppendFacts
<1>3. \A i \in 1 .. Len(queue) + 1 : i \in 1 .. Len(queue) \/ i = Len(queue) + 1
  BY <1>1
<1>4. \A i \in 1 .. Len(queue) : i \in 1 .. Len(queue) + 1
  BY <1>1
<1> QED BY <1>1, <1>2, <1>3, <1>4 DEF Requests

\* the requests in the queue, once one of type 1 is taken
LEMMA RequestsTake ==
  ASSUME queue \in Seq(Message), NEW o \in DOMAIN queue, queue' = RemoveAt(queue, o)
  PROVE  /\ \A i \in DOMAIN queue' :
              /\ Was(i, o) \in DOMAIN queue /\ Was(i, o) # o /\ queue'[i] = queue[Was(i, o)]
              /\ \A j \in DOMAIN queue' : Was(i, o) = Was(j, o) => i = j
         /\ \A s : \A i \in Requests(s)' : Was(i, o) \in Requests(s)
<1>1. DOMAIN queue = 1 .. Len(queue) /\ Len(queue) \in Nat /\ o \in 1 .. Len(queue)
  OBVIOUS
<1>2. /\ queue' \in Seq(Message) /\ Len(queue') = Len(queue) - 1
      /\ \A i \in 1 .. Len(queue) - 1 : queue'[i] = IF i < o THEN queue[i] ELSE queue[i + 1]
  BY RemoveAtFacts
<1>3. DOMAIN queue' = 1 .. Len(queue) - 1
  BY <1>2
<1>4. \A i \in DOMAIN queue' : /\ Was(i, o) \in DOMAIN queue /\ Was(i, o) # o
                               /\ \A j \in DOMAIN queue' : Was(i, o) = Was(j, o) => i = j
  BY <1>1, <1>3 DEF Was
<1>5. \A i \in DOMAIN queue' : queue'[i] = queue[Was(i, o)]
  BY <1>1, <1>2, <1>3 DEF Was
<1>6. \A s : \A i \in Requests(s)' : Was(i, o) \in Requests(s)
  BY <1>4, <1>5 DEF Requests
<1> QED BY <1>4, <1>5, <1>6

\* whether a son has a request in the queue, once a message is taken
LEMMA RequestedTake ==
  ASSUME queue \in Seq(Message), NEW o \in DOMAIN queue, queue' = RemoveAt(queue, o),
         NEW s, Requested(s), want'[s] = want[s], Unasked(s) => Unasked(s)'
  PROVE  Requested(s)'
<1> SUFFICES ASSUME NEW i \in Requests(s)'
             PROVE  /\ queue'[i].mess = want'[s] /\ Unasked(s)'
                    /\ \A j \in Requests(s)' : i = j
  BY DEF Requested
<1>1. i \in DOMAIN queue' /\ \A j \in Requests(s)' : j \in DOMAIN queue'
  BY DEF Requests
<1>2. Was(i, o) \in Requests(s) /\ queue'[i] = queue[Was(i, o)]
  BY <1>1, RequestsTake
<1>3. \A j \in Requests(s)' : Was(i, o) = Was(j, o)
  BY <1>2, RequestsTake DEF Requested
<1>4. \A j \in Requests(s)' : i = j
  BY <1>1, <1>3, RequestsTake
<1> QED BY <1>2, <1>4 DEF Requested

\* whether a son has a request in the queue, once a message is added
LEMMA RequestedAdd ==
  ASSUME queue \in Seq(Message), NEW m \in Message, queue' = Append(queue, m),
         NEW s, ~ (m.type = Father /\ m.num_file = s),
         Requested(s), want'[s] = want[s], Unasked(s) => Unasked(s)'
  PROVE  Requested(s)'
BY RequestsAdd DEF Requested
-----------------------------------------------------------------------------
(* Each step keeps the account, as long as nobody pressed Ctrl-C. *)

\* what the steps below start from
Before == Typed /\ Orderly

\* before Ctrl-C the queue is there and nobody is killed
LEMMA Alive ==
  ASSUME Before, fpc # "done" \/ \E s \in Sons : Running(s)
  PROVE  ~ removed
BY DEF Before, Orderly

\* a step that touches neither the queue nor the account
LEMMA QuietOrderly ==
  ASSUME Before,
         EndFork \/ EndReceive \/ EndSend \/ Finish \/ ForkFailure \/ UNCHANGED vars
           \/ \E s \in Sons : EndSon(s)
  PROVE  Orderly'
<1> USE DEF Before, vars, father, sons
<1>0. queue' = queue /\ got' = got /\ sent' = sent /\ want' = want /\ left' = left
        /\ sbuf' = sbuf /\ pending' = pending
  BY DEF EndFork, EndReceive, EndSend, Finish, ForkFailure, EndSon
<1>1. pending' = {}
  BY <1>0 DEF Orderly
<1>2. removed' => fpc' = "done" /\ \A s \in Sons : ~ Running(s)'
  BY SonsAssumption DEF EndFork, EndReceive, EndSend, Finish, ForkFailure, EndSon, Orderly, Running, Typed, TypeOK
<1>3. fpc' = "send" => fpc = "send" /\ fbuf' = fbuf /\ todo' = todo
  BY DEF EndFork, EndReceive, EndSend, Finish, ForkFailure, EndSon
<1>4. \A i \in DOMAIN queue' : queue'[i].type = Father => queue'[i].num_file \in Sons
  BY <1>0 DEF Orderly
<1>5. ASSUME NEW s \in Sons PROVE Account(s)' /\ Delivered(queue, s, got[s], sent[s])'
  <2>1. Requests(s)' = Requests(s) /\ (Serving(s)' => Serving(s)) /\ (Unasked(s) => Unasked(s)')
    BY <1>0, <1>3 DEF Requests, Serving, Unasked
  <2>2. Requested(s)'
    BY <1>0, <2>1 DEF Requested, Orderly, Account
  <2>3. spc'[s] = spc[s] \/ (spc[s] = "receive" /\ spc'[s] = "done" /\ left[s] = 0)
    BY DEF EndFork, EndReceive, EndSend, Finish, ForkFailure, EndSon, Typed, TypeOK
  <2>4. Account(s)'
    BY <1>0, <1>3, <2>1, <2>2, <2>3 DEF Orderly, Account, Serving
  <2> QED BY <1>0, <2>4 DEF Orderly, Delivered
<1> QED BY <1>1, <1>2, <1>3, <1>4, <1>5 DEF Orderly

\* the father forks a son
LEMMA ForkOrderly ==
  ASSUME Before, NEW c \in Sons, Fork(c)
  PROVE  Orderly'
<1> USE DEF Before, father
<1>0. /\ queue' = queue /\ got' = got /\ sent' = sent /\ pending' = pending
      /\ fpc' = fpc /\ fbuf' = fbuf /\ todo' = todo /\ removed' = removed
      /\ fpc = "fork" /\ spc[c] = "none"
  BY DEF Fork
<1>1. ~ removed
  BY <1>0, Alive
<1>2. ASSUME NEW s \in Sons PROVE Account(s)' /\ Delivered(queue, s, got[s], sent[s])'
  <2>1. Requests(s)' = Requests(s) /\ Serving(s)' = Serving(s) /\ Unasked(s)' = Unasked(s) /\ ~ Serving(s)
    BY <1>0 DEF Requests, Serving, Unasked
  <2>2. CASE s # c
    <3>1. /\ spc'[s] = spc[s] /\ left'[s] = left[s] /\ want'[s] = want[s] /\ sbuf'[s] = sbuf[s]
      BY <2>2 DEF Fork, Typed, TypeOK
    <3>2. Account(s) /\ Delivered(queue, s, got[s], sent[s])
      BY DEF Orderly
    <3>3. Requested(s)'
      BY <1>0, <2>1, <3>1, <3>2 DEF Account, Requested
    <3>4. Account(s)'
      BY <1>0, <2>1, <3>1, <3>2, <3>3 DEF Account
    <3> QED BY <1>0, <3>2, <3>4 DEF Delivered
  <2>3. CASE s = c
    <3>1. spc'[s] = "ask" /\ left'[s] = want'[s] /\ sbuf'[s] = Msg(Father, want'[s], s) /\ want'[s] \in Nat
      BY <2>3, MaxValAssumption DEF Fork, Typed, TypeOK
    <3>2. Unasked(s) /\ Requests(s) = {} /\ got[s] = <<>> /\ sent[s] = <<>>
      BY <1>0, <2>3 DEF Orderly, Account, Unasked
    <3>3. Len(sent[s]) = 0
      BY <3>2, EmptySeq
    <3>4. Account(s)'
      BY <1>0, <2>1, <3>1, <3>2, <3>3 DEF Account, Requested
    <3> QED BY <1>0, <3>4 DEF Orderly, Delivered
  <2> QED BY <2>2, <2>3
<1> QED BY <1>0, <1>1, <1>2 DEF Orderly

\* the father takes a request
LEMMA ReceiveOrderly ==
  ASSUME Before, Receive
  PROVE  Orderly'
<1> USE DEF Before, sons
<1> DEFINE o == Oldest(Father)
           n == queue[o].num_file
<1>1. ~ removed
  BY Alive DEF Receive
<1>2. OfType(Father) # {} /\ queue' = RemoveAt(queue, o) /\ fbuf' = queue[o]
  BY <1>1 DEF Receive, Msgrcv, Received
<1>3. o \in DOMAIN queue /\ queue[o] \in Message /\ queue[o].type = Father /\ queue \in Seq(Message)
  BY <1>2, Taking DEF Typed, SomeType, TypeOK
<1> HIDE DEF o
<1>4. n \in Sons /\ o \in Requests(n)
  BY <1>3 DEF Orderly, Requests
<1>5. /\ fpc = "receive" /\ fpc' = "send" /\ todo' = queue[o].mess /\ removed' = removed
      /\ spc' = spc /\ left' = left /\ sbuf' = sbuf /\ got' = got
      /\ want' = want /\ sent' = sent /\ pending' = pending
  BY <1>2 DEF Receive
<1>6. \A i \in DOMAIN queue' : queue'[i].type = Father => queue'[i].num_file \in Sons
  BY <1>2, <1>3, RequestsTake DEF Orderly
<1>7. \A s \in Sons : Serving(s)' <=> s = n
  BY <1>2, <1>5 DEF Serving
<1> HIDE DEF n
<1>8. ASSUME NEW s \in Sons PROVE Account(s)'
  <2>1. Account(s) /\ Requested(s)
    BY DEF Orderly, Account
  <2>2. CASE s = n
    <3>1. Requests(s)' = {}
      <4> SUFFICES ASSUME NEW i \in Requests(s)' PROVE FALSE
        OBVIOUS
      <4>1. i \in DOMAIN queue' /\ Was(i, o) \in Requests(s) /\ Was(i, o) # o
        BY <1>2, <1>3, RequestsTake DEF Requests
      <4> QED BY <1>4, <2>1, <2>2, <4>1 DEF Requested
    <3>2. queue[o].mess = want[s] /\ sent[s] = <<>>
      BY <1>4, <2>1, <2>2 DEF Requested, Unasked
    <3>3. Len(sent[s]) + todo' = want[s]
      <4>1. Len(sent[s]) = 0 /\ want[s] \in Nat
        BY <3>2, MaxValAssumption, EmptySeq DEF Typed, TypeOK
      <4> QED BY <1>5, <3>2, <4>1
    <3>4. ~ (spc[s] \in {"none", "ask"})
      BY <1>4, <2>1, <2>2 DEF Account
    <3> QED BY <1>5, <2>1, <3>1, <3>3, <3>4 DEF Account, Requested
  <2>3. CASE s # n
    <3>1. ~ Serving(s)' /\ (Unasked(s) => Unasked(s)')
      BY <1>5, <1>7, <2>3 DEF Unasked
    <3>2. Requested(s)'
      BY <1>2, <1>3, <1>5, <2>1, <3>1, RequestedTake
    <3>3. Requests(s) = {} => Requests(s)' = {}
      BY <1>2, <1>3, RequestsTake
    <3> QED BY <1>5, <2>1, <3>1, <3>2, <3>3 DEF Account
  <2> QED BY <2>2, <2>3
<1>9. ASSUME NEW s \in Sons PROVE Delivered(queue, s, got[s], sent[s])'
  <2>1. Delivered(queue, s, got[s], sent[s]) /\ queue[o].type # s
    BY <1>3, SonsAssumption DEF Orderly
  <2>2. Delivered(RemoveAt(queue, o), s, got[s], sent[s])
    BY <1>3, <2>1, DeliveredRemoveOther
  <2> QED BY <1>2, <1>5, <2>2
<1>10. fbuf'.num_file \in Sons
  BY <1>2, <1>4 DEF n
<1>11. pending' = {} /\ ~ removed'
  BY <1>1, <1>5 DEF Orderly
<1> QED BY <1>6, <1>8, <1>9, <1>10, <1>11 DEF Orderly

\* the father sends a value
LEMMA SendOrderly ==
  ASSUME Before, Send
  PROVE  Orderly'
<1> USE DEF Before, sons
<1> DEFINE n == fbuf.num_file
<1>1. ~ removed
  BY Alive DEF Send
<1>2. PICK v \in 0 .. MaxVal : /\ fbuf' = Msg(n, v, n)
                               /\ sent' = [sent EXCEPT ![n] = Append(@, v)]
  BY DEF Send, Answer
<1>3. n \in Sons /\ Serving(n)
  BY DEF Orderly, Send, Serving
<1>4. fbuf' \in Message /\ fbuf'.type = n /\ fbuf'.mess = v /\ fbuf'.num_file = n
  BY <1>2, <1>3, MsgFields DEF SomeType
<1>5. queue' = Append(queue, fbuf') /\ queue \in Seq(Message)
  BY <1>1 DEF Send, Msgsnd, Typed, TypeOK
<1>6. /\ fpc = "send" /\ fpc' = fpc /\ todo' = todo - 1 /\ todo > 0 /\ removed' = removed
      /\ spc' = spc /\ left' = left /\ sbuf' = sbuf /\ got' = got
      /\ want' = want /\ pending' = pending
  BY DEF Send
<1>7. /\ sent[n] \in Seq(0 .. MaxVal) /\ sent'[n] = Append(sent[n], v)
      /\ \A s \in Sons : s # n => sent'[s] = sent[s]
  BY <1>2, <1>3 DEF Typed, TypeOK
<1>8. n # Father
  BY <1>3, SonsAssumption
<1>9. \A i \in DOMAIN queue' : queue'[i].type = Father => queue'[i].num_file \in Sons
  <2>1. /\ \A i \in 1 .. Len(queue) : queue'[i] = queue[i]
        /\ queue'[Len(queue) + 1] = fbuf' /\ DOMAIN queue' = 1 .. Len(queue) + 1
    BY <1>4, <1>5, AppendFacts
  <2>2. \A i \in DOMAIN queue' : i \in DOMAIN queue \/ i = Len(queue) + 1
    BY <1>5, <2>1
  <2>3. \A i \in DOMAIN queue : i \in 1 .. Len(queue)
    BY <1>5
  <2> QED BY <1>4, <1>8, <2>1, <2>2, <2>3 DEF Orderly
<1>10. \A s \in Sons : (Serving(s)' <=> s = n) /\ (Serving(s) <=> s = n)
  BY <1>4, <1>6 DEF Serving
<1> HIDE DEF n
<1>11. ASSUME NEW s \in Sons PROVE Account(s)'
  <2>1. Account(s) /\ Requested(s)
    BY DEF Orderly, Account
  <2>2. Unasked(s) => Unasked(s)'
    BY <1>7, <1>10 DEF Unasked
  <2>3. Requested(s)'
    BY <1>4, <1>5, <1>6, <1>8, <2>1, <2>2, RequestedAdd
  <2>4. Requests(s)' = Requests(s)
    BY <1>4, <1>5, <1>8, RequestsAdd
  <2>5. CASE s = n
    <3>1. ~ (spc[s] \in {"none", "ask"}) /\ Len(sent[s]) + todo = want[s]
      BY <1>3, <2>1, <2>5 DEF Account, Unasked
    <3>2. Len(sent'[s]) = Len(sent[s]) + 1 /\ Len(sent[s]) \in Nat
      BY <1>7, <2>5, AppendFacts
    <3>3. todo \in Nat
      BY MaxValAssumption DEF Typed, TypeOK
    <3>4. Len(sent'[s]) + todo' = want[s] /\ Len(sent'[s]) <= want[s]
      BY <1>6, <3>1, <3>2, <3>3
    <3> QED BY <1>6, <2>1, <2>3, <3>1, <3>4 DEF Account
  <2>6. CASE s # n
    BY <1>6, <1>7, <1>10, <2>1, <2>2, <2>3, <2>4, <2>6 DEF Account
  <2> QED BY <2>5, <2>6
<1>12. ASSUME NEW s \in Sons PROVE Delivered(queue, s, got[s], sent[s])'
  <2>1. Delivered(queue, s, got[s], sent[s])
    BY DEF Orderly
  <2>2. CASE s = n
    <3>1. got[s] \in Seq(0 .. MaxVal) /\ sent[s] \in Seq(0 .. MaxVal)
      BY DEF Typed, TypeOK
    <3>2. Delivered(Append(queue, fbuf'), s, got[s], Append(sent[s], fbuf'.mess))
      BY <1>4, <1>5, <2>1, <2>2, <3>1, DeliveredAppendOwn
    <3> QED BY <1>4, <1>5, <1>6, <1>7, <2>2, <3>2
  <2>3. CASE s # n
    <3>1. Delivered(Append(queue, fbuf'), s, got[s], sent[s])
      BY <1>4, <1>5, <2>1, <2>3, DeliveredAppendOther
    <3> QED BY <1>5, <1>6, <1>7, <2>3, <3>1
  <2> QED BY <2>2, <2>3
<1>13. fbuf'.num_file \in Sons /\ pending' = {} /\ ~ removed'
  BY <1>1, <1>3, <1>4, <1>6 DEF Orderly
<1> QED BY <1>9, <1>11, <1>12, <1>13 DEF Orderly

\* a son sends its request
LEMMA AskOrderly ==
  ASSUME Before, NEW c \in Sons, Ask(c)
  PROVE  Orderly'
<1> USE DEF Before, father
<1> DEFINE m == Msg(Father, want[c], c)
           last == Len(queue) + 1
<1>1. spc[c] = "ask" /\ ~ removed
  <2>1. Running(c)
    BY SonsAssumption DEF Ask, Running
  <2> QED BY <2>1, Alive DEF Ask
<1>2. /\ Account(c) /\ sbuf[c] = m /\ left[c] = want[c]
      /\ Unasked(c) /\ Requests(c) = {} /\ got[c] = <<>>
  BY <1>1 DEF Orderly, Account
<1>3. m \in Message /\ m.type = Father /\ m.mess = want[c] /\ m.num_file = c
  <2>1. want[c] \in 0 .. MaxVal
    BY DEF Typed, TypeOK
  <2> QED BY <2>1, MsgFields DEF SomeType
<1>4. queue' = Append(queue, m) /\ queue \in Seq(Message)
  BY <1>1, <1>2 DEF Ask, Msgsnd, Typed, TypeOK
<1> HIDE DEF m
<1>5. /\ fpc' = fpc /\ fbuf' = fbuf /\ todo' = todo /\ removed' = removed /\ left' = left
      /\ sbuf' = sbuf /\ got' = got /\ sent' = sent /\ want' = want /\ pending' = pending
      /\ spc'[c] = "receive" /\ \A s \in Sons : s # c => spc'[s] = spc[s]
  BY DEF Ask, Typed, TypeOK
<1>6. /\ \A i \in DOMAIN queue : queue'[i] = queue[i]
      /\ queue'[last] = m /\ last \in DOMAIN queue'
      /\ \A i \in DOMAIN queue' : i \in DOMAIN queue \/ i = last
  <2>1. /\ \A i \in 1 .. Len(queue) : queue'[i] = queue[i]
        /\ queue'[last] = m /\ DOMAIN queue' = 1 .. last
    BY <1>3, <1>4, AppendFacts
  <2>2. DOMAIN queue = 1 .. Len(queue) /\ Len(queue) \in Nat
    BY <1>4
  <2> QED BY <2>1, <2>2
<1> HIDE DEF last
<1>7. \A i \in DOMAIN queue' : queue'[i].type = Father => queue'[i].num_file \in Sons
  BY <1>3, <1>6 DEF Orderly
<1>8. \A s \in Sons : (Serving(s)' => Serving(s)) /\ (Unasked(s) => Unasked(s)')
  BY <1>5 DEF Unasked, Serving
<1>9. ASSUME NEW s \in Sons PROVE Account(s)'
  <2>1. Account(s) /\ Requested(s)
    BY DEF Orderly, Account
  <2>2. CASE s = c
    <3>1. \A i \in Requests(s)' : i = last
      BY <1>2, <1>6, <2>2 DEF Requests
    <3>2. Requested(s)'
      BY <1>2, <1>3, <1>5, <1>6, <1>8, <2>2, <3>1 DEF Requested
    <3>3. Len(got'[s]) + left'[s] = want'[s]
      <4>1. Len(got'[s]) = 0 /\ want[s] \in Nat
        BY <1>2, <1>5, <2>2, EmptySeq, MaxValAssumption DEF Typed, TypeOK
      <4> QED BY <1>2, <1>5, <2>2, <4>1
    <3> QED BY <1>5, <1>8, <2>1, <2>2, <3>2, <3>3 DEF Account, Serving
  <2>3. CASE s # c
    <3>1. Requests(s)' = Requests(s)
      BY <1>3, <1>4, <2>3, RequestsAdd
    <3>2. Requested(s)'
      BY <1>3, <1>4, <1>5, <1>8, <2>1, <2>3, RequestedAdd
    <3> QED BY <1>5, <1>8, <2>1, <2>3, <3>1, <3>2 DEF Account
  <2> QED BY <2>2, <2>3
<1>10. ASSUME NEW s \in Sons PROVE Delivered(queue, s, got[s], sent[s])'
  <2>1. Delivered(queue, s, got[s], sent[s]) /\ m.type # s
    BY <1>3, SonsAssumption DEF Orderly
  <2>2. Delivered(Append(queue, m), s, got[s], sent[s])
    BY <1>3, <1>4, <2>1, DeliveredAppendOther
  <2> QED BY <1>4, <1>5, <2>2
<1>11. pending' = {} /\ ~ removed' /\ (fpc' = "send" => fbuf'.num_file \in Sons)
  BY <1>1, <1>5 DEF Orderly
<1> QED BY <1>7, <1>9, <1>10, <1>11 DEF Orderly

\* a son takes a value
LEMMA ValueOrderly ==
  ASSUME Before, NEW c \in Sons, Value(c)
  PROVE  Orderly'
<1> USE DEF Before, father
<1> DEFINE o == Oldest(c)
           v == queue[o].mess
<1>1. spc[c] = "receive" /\ left[c] > 0 /\ ~ removed
  <2>1. Running(c)
    BY SonsAssumption DEF Value, Running
  <2> QED BY <2>1, Alive DEF Value
<1>2. OfType(c) # {} /\ queue' = RemoveAt(queue, o) /\ sbuf' = [sbuf EXCEPT ![c] = queue[o]]
  BY <1>1 DEF Value, Msgrcv, Received
<1>3. o \in DOMAIN queue /\ queue[o] \in Message /\ queue[o].type = c /\ queue \in Seq(Message)
  BY <1>2, Taking DEF Typed, SomeType, TypeOK
<1>4. v \in 0 .. MaxVal
  BY <1>3 DEF Message
<1>5. /\ fpc' = fpc /\ fbuf' = fbuf /\ todo' = todo /\ removed' = removed
      /\ spc' = spc /\ sent' = sent /\ want' = want /\ pending' = pending
      /\ got'[c] = Append(got[c], v) /\ left'[c] = left[c] - 1
      /\ \A s \in Sons : s # c => got'[s] = got[s] /\ left'[s] = left[s] /\ sbuf'[s] = sbuf[s]
  BY <1>2 DEF Value, Typed, TypeOK
<1>6. /\ got[c] \in Seq(0 .. MaxVal) /\ sent[c] \in Seq(0 .. MaxVal)
      /\ left[c] \in Nat /\ want[c] \in Nat
  BY MaxValAssumption DEF Typed, TypeOK
<1>7. \A s \in Sons : Delivered(queue, s, got[s], sent[s])
  BY DEF Orderly
<1>8. Delivered(queue, c, got[c], sent[c])'
  <2>1. Delivered(RemoveAt(queue, o), c, Append(got[c], v), sent[c])
    BY <1>2, <1>3, <1>4, <1>6, <1>7, DeliveredRemoveOldest
  <2> QED BY <1>2, <1>5, <2>1
<1> HIDE DEF o
<1>9. ASSUME NEW s \in Sons, s # c PROVE Delivered(queue, s, got[s], sent[s])'
  <2>1. Delivered(RemoveAt(queue, o), s, got[s], sent[s])
    BY <1>3, <1>7, <1>9, DeliveredRemoveOther
  <2> QED BY <1>2, <1>5, <1>9, <2>1
<1>10. \A i \in DOMAIN queue' : queue'[i].type = Father => queue'[i].num_file \in Sons
  BY <1>2, <1>3, RequestsTake DEF Orderly
<1>11. ASSUME NEW s \in Sons PROVE Account(s)'
  <2>1. Account(s) /\ Requested(s)
    BY DEF Orderly, Account
  <2>2. (Serving(s)' <=> Serving(s)) /\ (Unasked(s) => Unasked(s)')
    BY <1>5 DEF Unasked, Serving
  <2>3. Requested(s)'
    BY <1>2, <1>3, <1>5, <2>1, <2>2, RequestedTake
  <2>4. Requests(s) = {} => Requests(s)' = {}
    BY <1>2, <1>3, RequestsTake
  <2>5. CASE s = c
    <3>1. Len(got'[s]) = Len(got[s]) + 1 /\ Len(got[s]) \in Nat
      BY <1>4, <1>5, <1>6, <2>5, AppendFacts
    <3>2. Len(got'[s]) + left'[s] = want'[s]
      <4>1. Len(got[s]) + left[s] = want[s]
        BY <1>1, <2>1, <2>5 DEF Account
      <4>2. left'[s] = left[s] - 1 /\ left[s] \in Nat /\ want'[s] = want[s]
        BY <1>5, <1>6, <2>5
      <4> QED BY <3>1, <4>1, <4>2
    <3>3. spc'[s] = "receive"
      BY <1>1, <1>5, <2>5
    <3>4. Serving(s)' => Len(sent'[s]) + todo' = want'[s]
      BY <1>5, <2>1, <2>2 DEF Account
    <3>5. Len(sent'[s]) <= want'[s]
      BY <1>5, <2>1 DEF Account
    <3> QED BY <2>3, <3>2, <3>3, <3>4, <3>5 DEF Account
  <2>6. CASE s # c
    BY <1>5, <2>1, <2>2, <2>3, <2>4, <2>6 DEF Account
  <2> QED BY <2>5, <2>6
<1>12. pending' = {} /\ ~ removed' /\ (fpc' = "send" => fbuf'.num_file \in Sons)
  BY <1>1, <1>5 DEF Orderly
<1> QED BY <1>8, <1>9, <1>10, <1>11, <1>12 DEF Orderly

(* Every step before Ctrl-C is one of those above. *)
LEMMA StepOrderly ==
  ASSUME Before, [Next]_vars, ~ interrupted'
  PROVE  Orderly'
<1>1. ~ Interrupt /\ \A p \in Sons \cup {Father} : ~ TakeSignal(p)
  BY DEF Interrupt, TakeSignal, Before, Orderly
<1>2. \/ EndFork \/ EndReceive \/ EndSend \/ Finish \/ ForkFailure \/ UNCHANGED vars
      \/ Receive \/ Send
      \/ \E s \in Sons : Fork(s) \/ Ask(s) \/ Value(s) \/ EndSon(s)
  BY <1>1 DEF Next, FatherStep, SonStep
<1> QED
  BY <1>2, QuietOrderly, ReceiveOrderly, SendOrderly, ForkOrderly, AskOrderly, ValueOrderly

\* every step keeps the invariant, Ctrl-C and the ones after it included
LEMMA StepIInv ==
  ASSUME IInv, [Next]_vars
  PROVE  IInv'
<1>1. Typed
  BY DEF IInv, Typed, SomeType
<1>2. Typed'
  BY <1>1, StepTyped
<1>3. interrupted => interrupted'
  BY DEF Next, FatherStep, SonStep, vars, Fork, ForkFailure, EndFork, Receive, Send, EndSend,
         EndReceive, Finish, Ask, Value, EndSon, Interrupt, TakeSignal
<1>4. interrupted' \/ Orderly'
  BY <1>1, <1>3, StepOrderly DEF IInv, Before
<1> QED BY <1>2, <1>4 DEF IInv, Typed, SomeType
-----------------------------------------------------------------------------
(* Until Ctrl-C is pressed, what a son has read and the answers of its     *)
(* type in the queue are together what the father sent it, in order, for   *)
(* any number of sons asking for any number of values at any moment        *)
(* (serverUniq.c lines 62 to 72 and 81 to 91).                            *)
THEOREM Invariance == Spec => []IInv
<1>1. Init => IInv
  BY InitIInv
<1>2. IInv /\ [Next]_vars => IInv'
  BY StepIInv
<1> QED BY <1>1, <1>2, PTL DEF Spec

(* The messages, the counters and the states of the processes keep their   *)
(* types, also when the queue is removed under a process that reads it and *)
(* adds the value left in its buffer (line 72).                            *)
THEOREM Typing == Spec => []TypeOK
<1>1. IInv => TypeOK
  BY DEF IInv
<1> QED BY <1>1, Invariance, PTL

(* A son that has ended before any Ctrl-C has added up exactly the values  *)
(* sent to it, each once, in order, and as many as it asked for: the one   *)
(* queue never gives a son the answer of another (lines 70 and 89).        *)
THEOREM EachItsAnswers == Spec => []OwnAnswers
<1>1. IInv => OwnAnswers
  <2> SUFFICES ASSUME IInv, ~ interrupted, NEW s \in Sons, spc[s] = "done"
               PROVE  got[s] = sent[s] /\ Len(got[s]) = want[s]
    BY DEF OwnAnswers
  <2>1. Account(s) /\ Delivered(queue, s, got[s], sent[s])
    BY DEF IInv, Orderly
  <2>2. got[s] \in Seq(0 .. MaxVal) /\ sent[s] \in Seq(0 .. MaxVal) /\ want[s] \in Nat
    BY MaxValAssumption DEF IInv, TypeOK
  <2>3. Len(got[s]) \in Nat /\ Len(sent[s]) \in Nat
    BY <2>2
  <2>4. Len(got[s]) = want[s] /\ Len(sent[s]) <= want[s]
    BY <2>1, <2>2, <2>3 DEF Account
  <2>5. PICK k \in Nat : /\ Len(sent[s]) = Len(got[s]) + k
                         /\ \A n \in 1 .. Len(got[s]) : sent[s][n] = got[s][n]
    BY <2>1 DEF Delivered
  <2>6. Len(sent[s]) = Len(got[s])
    BY <2>2, <2>3, <2>4, <2>5
  <2>7. got[s] = sent[s]
    BY <2>2, <2>5, <2>6, SeqEqual
  <2> QED BY <2>4, <2>7
<1> QED BY <1>1, Invariance, PTL
-----------------------------------------------------------------------------
(* FtpSession: files and the reads they take. *)

\* what the remainder is
LEMMA DivMod ==
  ASSUME NEW n \in Nat, NEW b \in Nat \ {0}
  PROVE  /\ n \div b \in Nat /\ n % b \in Nat
         /\ n % b = n - (n \div b) * b
<1>1. n \div b \in Nat
  OBVIOUS
<1>2. n % b \in Nat
  OBVIOUS
<1>3. n % b = n - (n \div b) * b
  BY SMTT(30)
<1> QED BY <1>1, <1>2, <1>3

\* a file shorter than a buffer takes one read, one buffer less one read less
LEMMA RoundsFacts ==
  ASSUME NEW n \in Nat
  PROVE  /\ Rounds(n) \in Nat \ {0}
         /\ n < BUFFER_SIZE => Rounds(n) = 1 /\ (Fits(n) <=> n # 0)
         /\ n >= BUFFER_SIZE => /\ Rounds(n) = Rounds(n - BUFFER_SIZE) + 1
                                /\ Fits(n) <=> Fits(n - BUFFER_SIZE)
<1> DEFINE b == BUFFER_SIZE
<1>0. b \in Nat \ {0}
  BY BoundsAssumption
<1> HIDE DEF b
<1>1. n \div b \in Nat
  BY <1>0, DivMod
<1>2. ASSUME n < b PROVE n \div b = 0 /\ n % b = n
  BY <1>0, <1>2
<1>3. ASSUME n >= b PROVE n \div b = (n - b) \div b + 1 /\ n % b = (n - b) % b
  <2>1. n - b \in Nat
    BY <1>0, <1>3
  <2>2. n \div b = (n - b) \div b + 1
    BY <1>0, <1>3
  <2>3. PICK q \in Nat : q = (n - b) \div b /\ (n - b) % b = (n - b) - q * b
    BY <1>0, <2>1, DivMod
  <2>4. n % b = n - (q + 1) * b
    BY <1>0, <2>2, <2>3, DivMod
  <2>5. (q + 1) * b = q * b + b /\ q * b \in Nat
    BY <1>0
  <2>6. n - (q + 1) * b = (n - b) - q * b
    BY <1>0, <2>5
  <2> QED BY <2>2, <2>3, <2>4, <2>6
<1>4. Rounds(n) = n \div b + 1 /\ (Fits(n) <=> n % b # 0)
  BY DEF Rounds, Fits, b
<1>5. ASSUME n >= b
      PROVE  Rounds(n - b) = (n - b) \div b + 1 /\ (Fits(n - b) <=> (n - b) % b # 0)
  BY DEF Rounds, Fits, b
<1>6. n >= b => Rounds(n) = Rounds(n - b) + 1 /\ (Fits(n) <=> Fits(n - b))
  BY <1>3, <1>4, <1>5
<1>7. n < b => Rounds(n) = 1 /\ (Fits(n) <=> n # 0)
  BY <1>2, <1>4
<1>8. Rounds(n) \in Nat \ {0}
  BY <1>1, <1>4
<1> QED BY <1>6, <1>7, <1>8 DEF b

\* a chunk, and what it completes
LEMMA ChunkFacts ==
  ASSUME NEW S, NEW file \in Seq(S), NEW from \in Nat, from < Len(file)
  PROVE  /\ Chunk(file, from) \in Seq(S)
         /\ SubSeq(file, 1, from) \in Seq(S) /\ Len(SubSeq(file, 1, from)) = from
         /\ LET to == IF from + BUFFER_SIZE < Len(file) THEN from + BUFFER_SIZE ELSE Len(file) IN
            /\ to \in Nat
            /\ SubSeq(file, 1, from) \o Chunk(file, from) = SubSeq(file, 1, to)
            /\ Len(SubSeq(file, 1, to)) = to
<1> DEFINE to == IF from + BUFFER_SIZE < Len(file) THEN from + BUFFER_SIZE ELSE Len(file)
           a == SubSeq(file, 1, from)
           c == SubSeq(file, from + 1, to)
           d == SubSeq(file, 1, to)
<1>1. to \in Nat /\ from <= to /\ to <= Len(file) /\ Len(file) \in Nat
  BY BoundsAssumption
<1> HIDE DEF to
<1>2. a \in Seq(S) /\ Len(a) = from /\ \A i \in 1 .. from : a[i] = file[i]
  BY <1>1
<1>3. c \in Seq(S) /\ Len(c) = to - from /\ \A i \in 1 .. to - from : c[i] = file[from + i]
  BY <1>1
<1>4. d \in Seq(S) /\ Len(d) = to /\ \A i \in 1 .. to : d[i] = file[i]
  BY <1>1
<1> HIDE DEF a, c, d
<1>a. /\ a \o c \in Seq(S) /\ Len(a \o c) = Len(a) + Len(c)
      /\ \A i \in 1 .. Len(a) + Len(c) :
           (a \o c)[i] = IF i <= Len(a) THEN a[i] ELSE c[i - Len(a)]
  BY <1>2, <1>3, ConcatProperties
<1>b. Len(a) + Len(c) = to
  BY <1>1, <1>2, <1>3
<1>5. /\ a \o c \in Seq(S) /\ Len(a \o c) = to
      /\ \A i \in 1 .. to : (a \o c)[i] = IF i <= from THEN a[i] ELSE c[i - from]
  BY <1>2, <1>a, <1>b
<1>6. ASSUME NEW i \in 1 .. to PROVE (a \o c)[i] = d[i]
  <2>0. i \in Nat /\ (i <= from \/ i > from)
    BY <1>1
  <2>1. CASE i <= from
    BY <1>1, <1>2, <1>4, <1>5, <2>1
  <2>2. CASE i > from
    <3>1. i - from \in 1 .. to - from /\ from + (i - from) = i
      BY <1>1, <2>2
    <3> QED BY <1>1, <1>3, <1>4, <1>5, <2>2, <3>1
  <2> QED BY <2>0, <2>1, <2>2
<1>7. a \o c = d
  BY <1>4, <1>5, <1>6, SeqEqual
<1>8. Chunk(file, from) = c
  BY DEF Chunk, c, to
<1> QED BY <1>1, <1>2, <1>3, <1>4, <1>7, <1>8 DEF a, c, d, to

\* nothing is read of a file that is just opened
LEMMA PartialInit ==
  ASSUME NEW S, NEW file \in Seq(S)
  PROVE  Partial(<<>>, file, Rounds(Len(file)))
<1>1. Len(file) \in Nat /\ Len(<<>>) = 0 /\ SubSeq(file, 1, 0) = <<>>
  OBVIOUS
<1>2. Len(file) - 0 = Len(file)
  BY <1>1
<1>3. Len(file) = 0 => ~ Fits(Len(file)) /\ Rounds(Len(file)) = 1
  BY <1>1, BoundsAssumption, RoundsFacts
<1> QED BY <1>1, <1>2, <1>3 DEF Partial

\* reads are left until the file is complete, and after it only when it does not fit
LEMMA PartialReads ==
  ASSUME NEW S, NEW file \in Seq(S), NEW part \in Seq(S), NEW reads, Partial(part, file, reads)
  PROVE  /\ reads \in Nat
         /\ Len(part) < Len(file) => reads > 0
         /\ Len(part) >= Len(file) => part = file
         /\ reads = 0 => Fits(Len(file))
         /\ reads > 0 /\ Len(part) >= Len(file) => ~ Fits(Len(file)) /\ reads = 1
<1>1. Len(file) \in Nat /\ Len(part) \in Nat /\ Len(part) <= Len(file)
      /\ part = SubSeq(file, 1, Len(part))
  BY DEF Partial
<1>2. CASE Len(part) < Len(file)
  <2>1. Len(file) - Len(part) \in Nat
    BY <1>1, <1>2
  <2>2. reads = Rounds(Len(file) - Len(part))
    BY <1>2 DEF Partial
  <2>3. reads \in Nat \ {0}
    BY <2>1, <2>2, RoundsFacts
  <2> QED BY <1>1, <1>2, <2>3
<1>3. CASE ~ (Len(part) < Len(file))
  <2>1. Len(part) = Len(file)
    BY <1>1, <1>3
  <2>2. SubSeq(file, 1, Len(file)) = file
    OBVIOUS
  <2>3. reads = IF Fits(Len(file)) THEN 0 ELSE 1
    BY <1>3 DEF Partial
  <2> QED BY <1>1, <1>3, <2>1, <2>2, <2>3
<1> QED BY <1>2, <1>3

\* one read of the next chunk
LEMMA PartialStep ==
  ASSUME NEW S, NEW file \in Seq(S), NEW part \in Seq(S), NEW reads,
         Partial(part, file, reads), Len(part) < Len(file)
  PROVE  LET next == part \o Chunk(file, Len(part)) IN
         /\ Partial(next, file, reads - 1)
         /\ next \in Seq(S)
         /\ \/ Len(next) = Len(part) + BUFFER_SIZE
            \/ Len(next) = Len(file) /\ Len(part) + BUFFER_SIZE >= Len(file)
<1> DEFINE from == Len(part)
           to == IF from + BUFFER_SIZE < Len(file) THEN from + BUFFER_SIZE ELSE Len(file)
           next == part \o Chunk(file, from)
           rest == Len(file) - from
<1>0. BUFFER_SIZE \in Nat \ {0}
  BY BoundsAssumption
<1>1. from \in Nat /\ Len(file) \in Nat /\ part = SubSeq(file, 1, from) /\ rest \in Nat \ {0}
  BY DEF Partial
<1>2. /\ reads = Rounds(rest) /\ (Fits(rest) <=> Fits(Len(file)))
  BY DEF Partial
<1>3. to \in Nat /\ next = SubSeq(file, 1, to) /\ Len(SubSeq(file, 1, to)) = to
  BY <1>1, ChunkFacts
<1>4. next \in Seq(S)
  BY <1>1, ChunkFacts, ConcatProperties
<1>5. Len(next) = to /\ next = SubSeq(file, 1, Len(next))
  BY <1>3
<1> HIDE DEF next
<1>6. CASE from + BUFFER_SIZE < Len(file)
  <2>1. to = from + BUFFER_SIZE /\ rest >= BUFFER_SIZE /\ Len(file) - to = rest - BUFFER_SIZE
    BY <1>0, <1>1, <1>6
  <2>2. Rounds(rest) = Rounds(rest - BUFFER_SIZE) + 1 /\ (Fits(rest) <=> Fits(rest - BUFFER_SIZE))
    BY <1>1, <2>1, RoundsFacts
  <2>a. rest - BUFFER_SIZE \in Nat
    BY <1>0, <1>1, <2>1
  <2>3. Rounds(rest - BUFFER_SIZE) \in Nat
    BY <2>a, RoundsFacts
  <2>4. reads - 1 = Rounds(Len(file) - to)
    BY <1>2, <2>1, <2>2, <2>3
  <2>5. to < Len(file) /\ (Fits(Len(file) - to) <=> Fits(Len(file)))
    BY <1>2, <1>6, <2>1, <2>2
  <2>6. Partial(next, file, reads - 1)
    BY <1>1, <1>5, <2>4, <2>5 DEF Partial
  <2> QED BY <1>4, <1>5, <2>1, <2>6 DEF next
<1>7. CASE ~ (from + BUFFER_SIZE < Len(file))
  <2>1. to = Len(file) /\ rest <= BUFFER_SIZE
    BY <1>0, <1>1, <1>7
  <2>2. reads - 1 = IF Fits(Len(file)) THEN 0 ELSE 1
    <3>1. CASE rest < BUFFER_SIZE
      BY <1>1, <1>2, <3>1, RoundsFacts
    <3>2. CASE rest = BUFFER_SIZE
      <4>1. rest - BUFFER_SIZE = 0 /\ 0 < BUFFER_SIZE
        BY <1>0, <3>2
      <4>2. Rounds(rest) = Rounds(0) + 1 /\ (Fits(rest) <=> Fits(0))
        BY <1>1, <3>2, <4>1, RoundsFacts
      <4>3. Rounds(0) = 1 /\ ~ Fits(0)
        BY <4>1, RoundsFacts
      <4> QED BY <1>2, <4>2, <4>3
    <3> QED BY <1>0, <1>1, <2>1, <3>1, <3>2
  <2>3. ~ (to < Len(file)) /\ to <= Len(file)
    BY <1>1, <2>1
  <2>4. Partial(next, file, reads - 1)
    BY <1>5, <2>2, <2>3 DEF Partial
  <2>a. Len(next) = Len(file)
    BY <1>5, <2>1
  <2>b. Len(part) + BUFFER_SIZE >= Len(file)
    BY <1>0, <1>1, <1>7
  <2>5. Len(next) = Len(file) /\ Len(part) + BUFFER_SIZE >= Len(file)
    BY <2>a, <2>b
  <2> QED BY <1>4, <2>4, <2>5 DEF next
<1> QED BY <1>6, <1>7
-----------------------------------------------------------------------------
(* FtpSession: sequences of messages. *)

\* a sequence without its first element
LEMMA TailFacts ==
  ASSUME NEW S, NEW s \in Seq(S), s # <<>>
  PROVE  /\ Head(s) = s[1] /\ Head(s) \in S /\ Tail(s) \in Seq(S)
         /\ Len(s) \in Nat \ {0} /\ Len(Tail(s)) = Len(s) - 1
         /\ \A i \in 1 .. Len(s) - 1 : Tail(s)[i] = s[i + 1]
  OBVIOUS

\* a reply of one message
LEMMA ConcatOne ==
  ASSUME NEW S, NEW q \in Seq(S), NEW m \in S
  PROVE  q \o <<m>> = Append(q, m)
  OBVIOUS

\* what is written last is not what is read first
LEMMA AppendTail ==
  ASSUME NEW S, NEW q \in Seq(S), NEW m \in S, q # <<>>
  PROVE  /\ Tail(Append(q, m)) = Append(Tail(q), m)
         /\ Head(Append(q,m)) = Head(q)
  OBVIOUS
-----------------------------------------------------------------------------
(* Streams to the server. *)

\* nothing is in the stream: what is due is what comes next
LEMMA StreamEmpty ==
  ASSUME NEW files, NEW d \in Dues, NEW e
  PROVE  Stream(files, <<>>, d, e) <=> d = e
<1>1. Len(<<>>) = 0
  OBVIOUS
<1>2. ASSUME Stream(files, <<>>, d, e) PROVE d = e
  BY <1>1, <1>2 DEF Stream
<1>3. ASSUME d = e PROVE Stream(files, <<>>, d, e)
  <2> DEFINE due == [i \in 1 .. 1 |-> d]
  <2>1. due \in [1 .. Len(<<>>) + 1 -> Dues] /\ due[1] = d
    BY <1>1
  <2> HIDE DEF due
  <2> QED BY <1>1, <1>3, <2>1 DEF Stream
<1> QED BY <1>2, <1>3

\* what is read is due, and the rest of the stream is due after it
LEMMA StreamRead ==
  ASSUME NEW files, NEW s \in Seq(Written), NEW d, NEW e, s # <<>>, Stream(files, s, d, e)
  PROVE  \E c \in Dues : Carries(files, Head(s), d, c) /\ Stream(files, Tail(s), c, e)
<1> DEFINE n == Len(s)
<1>0. /\ Head(s) = s[1] /\ n \in Nat \ {0} /\ Len(Tail(s)) = n - 1
      /\ \A i \in 1 .. n - 1 : Tail(s)[i] = s[i + 1]
  BY TailFacts
<1>1. PICK due \in [1 .. n + 1 -> Dues] :
        /\ due[1] = d /\ due[n + 1] = e
        /\ \A i \in 1 .. n : Carries(files, s[i], due[i], due[i + 1])
  BY DEF Stream
<1> DEFINE next == [i \in 1 .. n |-> due[i + 1]]
<1> HIDE DEF n
<1>2. due[2] \in Dues /\ Carries(files, Head(s), d, due[2])
  <2>1. 1 \in 1 .. n /\ 2 \in 1 .. n + 1 /\ 1 + 1 = 2
    BY <1>0
  <2> QED BY <1>0, <1>1, <2>1
<1>3. n - 1 + 1 = n /\ 1 \in 1 .. n /\ n \in 1 .. n
  BY <1>0
<1>4. next \in [1 .. n -> Dues] /\ next[1] = due[2] /\ next[n] = e
  BY <1>0, <1>1, <1>3
<1>5. ASSUME NEW i \in 1 .. n - 1
      PROVE  Carries(files, Tail(s)[i], next[i], next[i + 1])
  <2>1. i + 1 \in 1 .. n /\ i \in 1 .. n
    BY <1>0
  <2>2. Carries(files, s[i + 1], due[i + 1], due[i + 1 + 1])
    BY <1>1, <2>1
  <2> QED BY <1>0, <2>1, <2>2
<1> HIDE DEF next
<1>6. Stream(files, Tail(s), due[2], e)
  BY <1>0, <1>3, <1>4, <1>5 DEF Stream
<1> QED BY <1>2, <1>6

\* what is due at the end of the stream may be written
LEMMA StreamWrite ==
  ASSUME NEW files, NEW s \in Seq(Written), NEW d, NEW e, NEW m \in Written, NEW f \in Dues,
         Stream(files, s, d, e), Carries(files, m, e, f)
  PROVE  Stream(files, Append(s, m), d, f)
<1> DEFINE n == Len(s)
           t == Append(s, m)
<1>0. n \in Nat /\ Len(t) = n + 1 /\ (\A i \in 1 .. n : t[i] = s[i]) /\ t[n + 1] = m
  BY AppendFacts
<1>1. PICK due \in [1 .. n + 1 -> Dues] :
        /\ due[1] = d /\ due[n + 1] = e
        /\ \A i \in 1 .. n : Carries(files, s[i], due[i], due[i + 1])
  BY DEF Stream
<1> DEFINE next == [i \in 1 .. n + 2 |-> IF i <= n + 1 THEN due[i] ELSE f]
<1> HIDE DEF n, t
<1>2. /\ 1 \in 1 .. n + 1 /\ n + 1 \in 1 .. n + 1 /\ 1 \in 1 .. n + 2
      /\ n + 2 \in 1 .. n + 2 /\ n + 1 \in 1 .. n + 2 /\ n + 1 + 1 = n + 2 /\ ~ (n + 2 <= n + 1)
  BY <1>0
<1>3. next \in [1 .. n + 1 + 1 -> Dues] /\ next[1] = d /\ next[n + 1 + 1] = f /\ next[n + 1] = e
  BY <1>0, <1>1, <1>2
<1>4. ASSUME NEW i \in 1 .. n + 1
      PROVE  Carries(files, t[i], next[i], next[i + 1])
  <2>1. CASE i = n + 1
    BY <1>0, <1>3, <2>1
  <2>2. CASE i # n + 1
    <3>1. i \in 1 .. n /\ i \in 1 .. n + 2 /\ i + 1 \in 1 .. n + 2 /\ i <= n + 1 /\ i + 1 <= n + 1
      BY <1>0, <2>2
    <3>2. next[i] = due[i] /\ next[i + 1] = due[i + 1]
      BY <3>1
    <3> QED BY <1>0, <1>1, <3>1, <3>2
  <2> QED BY <2>1, <2>2
<1> HIDE DEF next
<1>5. Stream(files, t, d, f)
  BY <1>0, <1>3, <1>4 DEF Stream
<1> QED BY <1>5 DEF t
-----------------------------------------------------------------------------
(* Buffers to the client. *)

\* no buffer, and nothing between its two positions
LEMMA BuffersNone ==
  ASSUME NEW file, NEW from \in Nat
  PROVE  Buffers(file, <<>>, from, from)
<1> DEFINE at == [i \in 1 .. 1 |-> from]
<1>1. Len(<<>>) = 0 /\ at \in [1 .. Len(<<>>) + 1 -> Nat] /\ at[1] = from
  OBVIOUS
<1> HIDE DEF at
<1> QED BY <1>1 DEF Buffers

\* the first buffer is the chunk at the first position
LEMMA BuffersRead ==
  ASSUME NEW file, NEW s \in Seq(Written), NEW from, NEW to, s # <<>>,
         Buffers(file, s, from, to)
  PROVE  /\ from \in Nat /\ from < Len(file) /\ Head(s) = Data(Chunk(file, from))
         /\ Buffers(file, Tail(s), from + BUFFER_SIZE, to)
<1> DEFINE n == Len(s)
<1>0. /\ Head(s) = s[1] /\ n \in Nat \ {0} /\ Len(Tail(s)) = n - 1
      /\ \A i \in 1 .. n - 1 : Tail(s)[i] = s[i + 1]
  BY TailFacts
<1>1. PICK at \in [1 .. n + 1 -> Nat] :
        /\ at[1] = from /\ at[n + 1] = to
        /\ \A i \in 1 .. n : /\ at[i] < Len(file) /\ at[i + 1] = at[i] + BUFFER_SIZE
                             /\ s[i] = Data(Chunk(file, at[i]))
  BY DEF Buffers
<1> DEFINE next == [i \in 1 .. n |-> at[i + 1]]
<1> HIDE DEF n
<1>2. /\ from \in Nat /\ from < Len(file) /\ Head(s) = Data(Chunk(file, from))
      /\ at[2] = from + BUFFER_SIZE
  <2>1. 1 \in 1 .. n /\ 1 \in 1 .. n + 1 /\ 2 \in 1 .. n + 1 /\ 1 + 1 = 2
    BY <1>0
  <2> QED BY <1>0, <1>1, <2>1
<1>3. n - 1 + 1 = n /\ 1 \in 1 .. n /\ n \in 1 .. n
  BY <1>0
<1>4. next \in [1 .. n -> Nat] /\ next[1] = from + BUFFER_SIZE /\ next[n] = to
  BY <1>0, <1>1, <1>2, <1>3
<1>5. ASSUME NEW i \in 1 .. n - 1
      PROVE  /\ next[i] < Len(file) /\ next[i + 1] = next[i] + BUFFER_SIZE
             /\ Tail(s)[i] = Data(Chunk(file, next[i]))
  <2>1. i + 1 \in 1 .. n /\ i \in 1 .. n
    BY <1>0
  <2>2. /\ at[i + 1] < Len(file) /\ at[i + 1 + 1] = at[i + 1] + BUFFER_SIZE
        /\ s[i + 1] = Data(Chunk(file, at[i + 1]))
    BY <1>1, <2>1
  <2> QED BY <1>0, <2>1, <2>2
<1> HIDE DEF next
<1>6. Buffers(file, Tail(s), from + BUFFER_SIZE, to)
  BY <1>0, <1>3, <1>4, <1>5 DEF Buffers
<1> QED BY <1>2, <1>6

\* the chunk at the last position may be written
LEMMA BuffersWrite ==
  ASSUME NEW file, NEW s \in Seq(Written), NEW from, NEW to, to < Len(file),
         Data(Chunk(file, to)) \in Written, Buffers(file, s, from, to)
  PROVE  Buffers(file, Append(s, Data(Chunk(file, to))), from, to + BUFFER_SIZE)
<1> DEFINE n == Len(s)
           t == Append(s, Data(Chunk(file, to)))
<1>0. n \in Nat /\ Len(t) = n + 1 /\ (\A i \in 1 .. n : t[i] = s[i])
      /\ t[n + 1] = Data(Chunk(file, to))
  BY AppendFacts
<1>1. PICK at \in [1 .. n + 1 -> Nat] :
        /\ at[1] = from /\ at[n + 1] = to
        /\ \A i \in 1 .. n : /\ at[i] < Len(file) /\ at[i + 1] = at[i] + BUFFER_SIZE
                             /\ s[i] = Data(Chunk(file, at[i]))
  BY DEF Buffers
<1> DEFINE next == [i \in 1 .. n + 2 |-> IF i <= n + 1 THEN at[i] ELSE to + BUFFER_SIZE]
<1> HIDE DEF n, t
<1>2. /\ 1 \in 1 .. n + 1 /\ n + 1 \in 1 .. n + 1 /\ 1 \in 1 .. n + 2
      /\ n + 2 \in 1 .. n + 2 /\ n + 1 \in 1 .. n + 2 /\ n + 1 + 1 = n + 2 /\ ~ (n + 2 <= n + 1)
  BY <1>0
<1>3. to \in Nat /\ to + BUFFER_SIZE \in Nat
  BY <1>1, <1>2, BoundsAssumption
<1>4. /\ next \in [1 .. n + 1 + 1 -> Nat] /\ next[1] = from
      /\ next[n + 1 + 1] = to + BUFFER_SIZE /\ next[n + 1] = to
  BY <1>0, <1>1, <1>2, <1>3
<1>5. ASSUME NEW i \in 1 .. n + 1
      PROVE  /\ next[i] < Len(file) /\ next[i + 1] = next[i] + BUFFER_SIZE
             /\ t[i] = Data(Chunk(file, next[i]))
  <2>1. CASE i = n + 1
    BY <1>0, <1>4, <2>1
  <2>2. CASE i # n + 1
    <3>1. i \in 1 .. n /\ i \in 1 .. n + 2 /\ i + 1 \in 1 .. n + 2 /\ i <= n + 1 /\ i + 1 <= n + 1
      BY <1>0, <2>2
    <3>2. next[i] = at[i] /\ next[i + 1] = at[i + 1]
      BY <3>1
    <3> QED BY <1>0, <1>1, <3>1, <3>2
  <2> QED BY <2>1, <2>2
<1> HIDE DEF next
<1>6. Buffers(file, t, from, to + BUFFER_SIZE)
  BY <1>0, <1>4, <1>5 DEF Buffers
<1> QED BY <1>6 DEF t

\* nothing can follow the end of the file
LEMMA BuffersOver ==
  ASSUME NEW file, Len(file) \in Nat, NEW s \in Seq(Written), NEW from \in Nat, NEW to,
         from >= Len(file), Buffers(file, s, from, to)
  PROVE  s = <<>> /\ to = from
<1>1. s = <<>>
  BY BuffersRead
<1>2. Len(<<>>) = 0
  OBVIOUS
<1> QED BY <1>1, <1>2 DEF Buffers
-----------------------------------------------------------------------------
(* FtpSession: messages and files keep their types. *)

\* a request is one of the messages, and may even end up in a file
LEMMA QueryFacts ==
  /\ \A op \in verif_message, f \in Names : Op(op, f) \in Asking({op})
  /\ \A ops : Asking(ops) \subseteq Query
  /\ Query \subseteq Control /\ Control \subseteq Written /\ Control \subseteq Unit
  BY DEF Op, Asking, Query, Control, Written, Unit, verif_message

\* what the two sides write are messages
LEMMA MessageFacts ==
  /\ \A n \in Nat : Size(n) \in Written /\ Size(n).n = n /\ Size(n).k = "size"
  /\ \A b \in BOOLEAN : Found(b) \in Written
  /\ \A k \in {"entry", "eof"} : Item(k) \in Written
  /\ \A u \in Seq(Unit) : Data(u) \in Written /\ Data(u).k = "data" /\ Data(u).units = u
  BY DEF Size, Found, Item, Data, Control, Written

\* the kind of a message tells its fields
LEMMA KindFacts ==
  ASSUME NEW m \in Written
  PROVE  /\ m.k = "query" <=> m \in Query
         /\ m.k = "query" => m.op \in verif_message /\ m.name \in Names /\ m \in Asking({m.op})
         /\ m.k = "size" => m.n \in Nat
         /\ Units(m) \in Seq(Unit)
<1>1. m \in Control \/ m \in [k : {"data"}, units : Seq(Unit)]
  BY DEF Written
<1>2. ASSUME m \in Control PROVE m.k # "data" /\ <<m>> \in Seq(Unit)
  <2>1. m.k # "data"
    BY <1>2 DEF Control, Query
  <2>2. m \in Unit
    BY <1>2, QueryFacts
  <2> QED BY <2>1, <2>2
<1>3. Units(m) \in Seq(Unit)
  BY <1>1, <1>2 DEF Units
<1>4. m.k = "query" <=> m \in Query
  BY <1>1 DEF Control, Query
<1>5. m.k = "size" => m.n \in Nat
  BY <1>1 DEF Control, Query
<1>6. m \in Query => m.op \in verif_message /\ m.name \in Names /\ m \in Asking({m.op})
  BY DEF Query, Asking
<1> QED BY <1>3, <1>4, <1>5, <1>6

\* a directory has a number of entries, "." and ".." at least
LEMMA EntriesFacts ==
  ASSUME IsFiniteSet(DOMAIN sfiles)
  PROVE  Entries \in Nat /\ Entries >= 2
<1> DEFINE D == {p \in DOMAIN sfiles : Len(p) = 1}
<1>1. IsFiniteSet(D)
  BY FS_Subset
<1>2. Cardinality(D) \in Nat
  BY <1>1, FS_CardinalityType
<1> QED BY <1>2 DEF Entries

\* a reply keeps the type of the stream to the client
LEMMA ReplyTyped ==
  ASSUME SessionTypeOK, NEW items \in Seq(Written), Reply(items)
  PROVE  Connected /\ down' \in Seq(Written) /\ Len(down') = Len(down) + Len(items)
  BY ConcatProperties DEF Reply, SessionTypeOK

\* a reply of two messages
LEMMA TwoTyped ==
  ASSUME NEW S, NEW a \in S, NEW b \in S
  PROVE  <<a, b>> \in Seq(S) /\ Len(<<a, b>>) = 2
  OBVIOUS

\* the types at the beginning of a session
LEMMA SessionTypeInit == SessionInit => SessionTypeOK
<1> SUFFICES ASSUME SessionInit PROVE SessionTypeOK
  OBVIOUS
<1> USE DEF SessionInit
<1>1. \A owner \in {"server", "client"}, f \in Names, n \in Nat : Content(owner, f, n) \in Seq(Unit)
  BY DEF Content, Unit
<1>2. NoOp.op = "none" /\ Root \in Path /\ <<"noslash">> \in Path /\ <<>> \in Seq(Written)
      /\ <<>> \in Seq(Unit)
  BY DEF NoOp, Op, Root, Path
<1> DEFINE D == {<<f>> : f \in DOMAIN Stored}
<1>3. sfiles \in [D -> Seq(Unit)] /\ DOMAIN sfiles = D
  <2>1. ASSUME NEW f \in DOMAIN Stored PROVE <<f>>[1] = f /\ f \in Names /\ Stored[f] \in Nat
    BY SizesAssumption
  <2>2. \A p \in D : Content("server", p[1], Stored[p[1]]) \in Seq(Unit)
    BY <1>1, <2>1
  <2> QED BY <2>2
<1>4. D \subseteq Path
  <2>1. ASSUME NEW f \in DOMAIN Stored PROVE <<f>> \in Path
    <3>1. f \in Names \cup {"noslash"}
      BY SizesAssumption
    <3> QED BY <3>1 DEF Path
  <2> QED BY <2>1
<1>5. IsFiniteSet(D)
  <2>1. IsFiniteSet(DOMAIN Stored)
    BY SizesAssumption
  <2> DEFINE g == [f \in DOMAIN Stored |-> <<f>>]
  <2>2. g \in Surjection(DOMAIN Stored, D)
    BY DEF Surjection
  <2> QED BY <2>1, <2>2, FS_Surjection
<1>6. cfiles \in [DOMAIN Held -> Seq(Unit)] /\ DOMAIN cfiles = DOMAIN Held
  BY <1>1, SizesAssumption
<1>7. ServerTypeOK
  BY <1>2, <1>3, <1>4, <1>5 DEF ServerTypeOK
<1>8. ClientTypeOK
  BY <1>6, BoundsAssumption, SizesAssumption DEF ClientTypeOK
<1> QED BY <1>2, <1>7, <1>8 DEF SessionTypeOK

\* the parts of the type invariant a step may have to restore
LEMMA ServerTyped ==
  ASSUME SessionTypeOK, Traitement_requete
  PROVE  SessionTypeOK'
<1>0. /\ program \in Programs /\ garbled \in BOOLEAN
      /\ up \in Seq(Written) /\ down \in Seq(Written) /\ offered \in Seq(Unit)
      /\ ServerTypeOK /\ ClientTypeOK
  BY DEF SessionTypeOK
<1>a. client' = client => ClientTypeOK'
  BY <1>0 DEF client, ClientTypeOK
<1>b. up # <<>> => Head(up) \in Written /\ Tail(up) \in Seq(Written)
  BY <1>0
<1>c. srv \in {"open", "size"} => Append(data_dir, requete.name) \in Path
  <2>1. srv \in {"open", "size"} => data_dir \in Path /\ requete.name \in Names
    BY <1>0 DEF ServerTypeOK, Asking, Query
  <2> QED BY <2>1 DEF Path
<1>d. srv \in {"send", "receive"} => sfiles[fusion] \in Seq(Unit)
  BY <1>0 DEF ServerTypeOK
<1>1. CASE ReadQuery
  <2>1. requete' \in Query \cup {NoOp} /\ up' \in Seq(Written)
    BY <1>0, <1>1, <1>b, KindFacts DEF ReadQuery, ServerTypeOK
  <2>2. /\ srv' \in {"query", "open", "send", "list", "size", "receive", "exit"}
        /\ srv' \notin {"send", "receive"}
        /\ srv' = "open" => requete'.op = "D"
        /\ srv' = "list" => requete'.op = "L"
        /\ srv' = "size" => requete'.op = "U"
    BY <1>1 DEF ReadQuery
  <2>3. NoOp.op = "none"
    BY DEF NoOp, Op
  <2>4. ServerTypeOK'
    BY <1>0, <1>1, <2>1, <2>2, <2>3 DEF ReadQuery, ServerTypeOK, Asking
  <2> QED BY <1>0, <1>1, <1>a, <2>1, <2>4 DEF ReadQuery, SessionTypeOK
<1>2. CASE DownloadMissing
  <2>1. Found(FALSE) \in Written /\ Size(0) \in Written
    BY MessageFacts
  <2>a. <<Found(FALSE), Size(0)>> \in Seq(Written)
    BY <2>1, TwoTyped
  <2>2. down' \in Seq(Written)
    BY <1>0, <1>2, <2>a, ConcatProperties DEF DownloadMissing, Reply
  <2>3. ServerTypeOK'
    BY <1>0, <1>2, <1>c DEF DownloadMissing, ServerTypeOK
  <2> QED BY <1>0, <1>2, <1>a, <2>2, <2>3 DEF DownloadMissing, SessionTypeOK
<1>3. CASE DownloadFound
  <2>1. offered' \in Seq(Unit)
    BY <1>0, <1>3 DEF DownloadFound, ServerTypeOK
  <2>2. Len(offered') \in Nat
    BY <2>1
  <2>3. PICK n \in Nat : n = Len(offered')
    BY <2>2
  <2>a. Found(TRUE) \in Written /\ Size(n) \in Written
    BY MessageFacts
  <2>b. <<Found(TRUE), Size(n)>> \in Seq(Written)
    BY <2>a, TwoTyped
  <2>c. down' = down \o <<Found(TRUE), Size(n)>>
    BY <1>3, <2>3 DEF DownloadFound, Reply
  <2>4. down' \in Seq(Written)
    BY <1>0, <2>b, <2>c, ConcatProperties
  <2>5. ServerTypeOK'
    BY <1>0, <1>3, <1>c DEF DownloadFound, ServerTypeOK
  <2> QED BY <1>0, <1>3, <1>a, <2>1, <2>4, <2>5 DEF DownloadFound, SessionTypeOK
<1>4. CASE DownloadChunk
  <2>1. sfiles[fusion] \in Seq(Unit) /\ pos \in Nat /\ pos < Len(sfiles[fusion])
    BY <1>0, <1>4, <1>d DEF DownloadChunk, ServerTypeOK
  <2>2. Chunk(sfiles[fusion], pos) \in Seq(Unit)
    BY <2>1, ChunkFacts
  <2>3. /\ Reply(<<Data(Chunk(sfiles[fusion], pos))>>)
        /\ <<Data(Chunk(sfiles[fusion], pos))>> \in Seq(Written)
    BY <1>4, <2>2, MessageFacts DEF DownloadChunk
  <2>4. down' \in Seq(Written)
    BY <2>3, ReplyTyped
  <2>5. pos' \in Nat
    BY <1>4, <2>1, BoundsAssumption DEF DownloadChunk
  <2>6. ServerTypeOK'
    BY <1>0, <1>4, <2>5 DEF DownloadChunk, ServerTypeOK
  <2> QED BY <1>0, <1>4, <1>a, <2>4, <2>6 DEF DownloadChunk, SessionTypeOK
<1>5. CASE DownloadEnd
  <2>1. Root \in Path
    BY DEF Root, Path
  <2>2. ServerTypeOK'
    BY <1>0, <1>5, <2>1 DEF DownloadEnd, ServerTypeOK
  <2> QED BY <1>0, <1>5, <1>a, <2>2 DEF DownloadEnd, SessionTypeOK
<1>6. CASE List
  <2>1. Entries \in Nat
    BY <1>0, EntriesFacts DEF ServerTypeOK
  <2> DEFINE k == IF program = "TME07" THEN 1 ELSE Entries
             items == [i \in 1 .. k |-> Item("entry")]
  <2>2. /\ <<Size(Entries)>> \in Seq(Written) /\ items \in Seq(Written)
        /\ <<Item("eof")>> \in Seq(Written)
    BY <2>1, MessageFacts
  <2>3. <<Size(Entries)>> \o items \o <<Item("eof")>> \in Seq(Written)
    BY <2>2, ConcatProperties
  <2>4. Reply(<<Size(Entries)>> \o items \o <<Item("eof")>>)
    BY <1>6 DEF List
  <2>5. down' \in Seq(Written)
    BY <2>3, <2>4, ReplyTyped
  <2>6. ServerTypeOK'
    BY <1>0, <1>6 DEF List, ServerTypeOK
  <2> QED BY <1>0, <1>6, <1>a, <2>5, <2>6 DEF List, SessionTypeOK
<1>7. CASE UploadOpen
  <2>1. size' \in Nat /\ up' \in Seq(Written)
    BY <1>0, <1>7, <1>b, KindFacts DEF UploadOpen, ServerTypeOK
  <2>2. rounds' \in Nat
    BY <1>7, <2>1, RoundsFacts DEF UploadOpen
  <2>3. fusion' \in Path /\ data_dir' \in Path
    BY <1>7, <1>c DEF UploadOpen
  <2>4. PICK path : path = fusion'
    OBVIOUS
  <2>a. sfiles' = Create(sfiles, path, <<>>) /\ <<>> \in Seq(Unit)
    BY <1>7, <2>4 DEF UploadOpen, Opened
  <2>b. sfiles \in [DOMAIN sfiles -> Seq(Unit)]
    BY <1>0 DEF ServerTypeOK
  <2>5. /\ DOMAIN sfiles' = DOMAIN sfiles \cup {fusion'}
        /\ sfiles' \in [DOMAIN sfiles \cup {fusion'} -> Seq(Unit)]
    BY <2>4, <2>a, <2>b DEF Create
  <2>6. IsFiniteSet(DOMAIN sfiles \cup {fusion'})
    BY <1>0, FS_AddElement DEF ServerTypeOK
  <2>7. ServerTypeOK'
    BY <1>0, <1>7, <2>1, <2>2, <2>3, <2>5, <2>6 DEF UploadOpen, ServerTypeOK
  <2> QED BY <1>0, <1>7, <1>a, <2>1, <2>7 DEF UploadOpen, SessionTypeOK
<1>8. CASE UploadChunk
  <2>1. rounds' \in Nat /\ fusion \in DOMAIN sfiles
    BY <1>0, <1>8 DEF UploadChunk, ServerTypeOK
  <2>2. up' \in Seq(Written)
    BY <1>0, <1>8, <1>b DEF UploadChunk
  <2>3. sfiles' \in [DOMAIN sfiles -> Seq(Unit)] /\ DOMAIN sfiles' = DOMAIN sfiles
    <3>1. up # <<>> => sfiles[fusion] \o Units(Head(up)) \in Seq(Unit)
      BY <1>8, <1>b, <1>d, KindFacts, ConcatProperties DEF UploadChunk
    <3> QED BY <1>0, <1>8, <2>1, <3>1 DEF UploadChunk, ServerTypeOK
  <2>4. ServerTypeOK'
    BY <1>0, <1>8, <2>1, <2>3 DEF UploadChunk, ServerTypeOK
  <2> QED BY <1>0, <1>8, <1>a, <2>2, <2>4 DEF UploadChunk, SessionTypeOK
<1>9. CASE UploadEnd
  <2>1. Root \in Path
    BY DEF Root, Path
  <2>2. ServerTypeOK'
    BY <1>0, <1>9, <2>1 DEF UploadEnd, ServerTypeOK
  <2> QED BY <1>0, <1>9, <1>a, <2>2 DEF UploadEnd, SessionTypeOK
<1>10. CASE Killed
  <2>1. ServerTypeOK'
    BY <1>0, <1>10 DEF Killed, ServerTypeOK
  <2> QED BY <1>0, <1>10, <1>a, <2>1 DEF Killed, SessionTypeOK
<1> QED BY <1>1, <1>2, <1>3, <1>4, <1>5, <1>6, <1>7, <1>8, <1>9, <1>10 DEF Traitement_requete

\* the client, the user and the end of the account keep the types
LEMMA ClientTyped ==
  ASSUME SessionTypeOK, ClientStep \/ Command \/ Quit \/ Garble
  PROVE  SessionTypeOK'
<1>0. /\ program \in Programs /\ garbled \in BOOLEAN
      /\ up \in Seq(Written) /\ down \in Seq(Written) /\ offered \in Seq(Unit)
      /\ ServerTypeOK /\ ClientTypeOK
  BY DEF SessionTypeOK
<1>a. server' = server => ServerTypeOK'
  BY <1>0 DEF server, ServerTypeOK
<1>b. down # <<>> => Head(down) \in Written /\ Tail(down) \in Seq(Written)
  BY <1>0
<1>c. cli \in {"chunks", "send"} => cfiles[message.name] \in Seq(Unit)
  BY <1>0 DEF ClientTypeOK
<1>1. CASE Command
  <2>1. PICK op \in verif_message, f \in Names :
          /\ message' = Op(op, f) /\ up' = Append(up, Op(op, f))
          /\ cli' = CASE op = "D" -> "rep" [] op = "L" -> "count" [] op = "U" -> "stat"
    BY <1>1 DEF Command
  <2>2. message' \in Asking({op}) /\ message' \in Query /\ Op(op, f) \in Written
    BY <2>1, QueryFacts
  <2>3. up' \in Seq(Written)
    BY <1>0, <2>1, <2>2
  <2>4. typed' \in 0 .. MaxCmds
    BY <1>0, <1>1, BoundsAssumption DEF Command, ClientTypeOK
  <2>5. \/ op = "D" /\ cli' = "rep"
        \/ op = "L" /\ cli' = "count"
        \/ op = "U" /\ cli' = "stat"
    BY <2>1 DEF verif_message
  <2>6. ClientTypeOK'
    BY <1>0, <1>1, <2>2, <2>4, <2>5 DEF Command, ClientTypeOK
  <2> QED BY <1>0, <1>1, <1>a, <2>3, <2>6 DEF Command, SessionTypeOK
<1>2. CASE Quit
  <2>1. ClientTypeOK'
    BY <1>0, <1>2 DEF Quit, ClientTypeOK
  <2> QED BY <1>0, <1>2, <1>a, <2>1 DEF Quit, SessionTypeOK
<1>3. CASE ReadRep
  <2> DEFINE rest == Tail(down)
  <2>a. down' = Tail(rest) /\ Len(down) >= 2 /\ down # <<>>
    BY <1>3 DEF ReadRep
  <2>b. Len(rest) = Len(down) - 1 /\ rest \in Seq(Written) /\ Len(down) \in Nat
    BY <1>0, <2>a, TailFacts
  <2>c. 2 \in 1 .. Len(down)
    BY <2>a, <2>b
  <2> HIDE DEF rest
  <2>d. rest # <<>>
    BY <2>a, <2>b
  <2>1. down' \in Seq(Written) /\ down[2] \in Written
    BY <1>0, <2>a, <2>b, <2>c, <2>d
  <2>2. csize' \in Nat
    BY <1>3, <2>1, KindFacts DEF ReadRep
  <2>3. Rounds(csize') \in Nat
    BY <2>2, RoundsFacts
  <2>4. message \in Asking({"D"}) /\ message.name \in Names
    BY <1>0, <1>3 DEF ReadRep, ClientTypeOK, Asking, Query
  <2>5. CASE down[1].found
    <3>1. <<>> \in Seq(Unit) /\ cfiles \in [DOMAIN cfiles -> Seq(Unit)]
      BY <1>0 DEF ClientTypeOK
    <3>a. cfiles' = Create(cfiles, message.name, <<>>)
      BY <1>3, <2>5 DEF ReadRep
    <3>2. /\ DOMAIN cfiles' = DOMAIN cfiles \cup {message.name}
          /\ cfiles' \in [DOMAIN cfiles \cup {message.name} -> Seq(Unit)]
      BY <3>1, <3>a DEF Create
    <3>3. ClientTypeOK'
      BY <1>0, <1>3, <2>2, <2>3, <2>4, <2>5, <3>2 DEF ReadRep, ClientTypeOK
    <3> QED BY <1>0, <1>3, <1>a, <2>1, <3>3 DEF ReadRep, SessionTypeOK
  <2>6. CASE ~ down[1].found
    <3>3. ClientTypeOK'
      BY <1>0, <1>3, <2>2, <2>6 DEF ReadRep, ClientTypeOK
    <3> QED BY <1>0, <1>3, <1>a, <2>1, <3>3 DEF ReadRep, SessionTypeOK
  <2> QED BY <2>5, <2>6
<1>4. CASE ReadChunk
  <2>1. down' \in Seq(Written) /\ message.name \in DOMAIN cfiles /\ crounds' \in Nat
    BY <1>0, <1>4, <1>b DEF ReadChunk, ClientTypeOK
  <2>2. cfiles[message.name] \o Units(Head(down)) \in Seq(Unit)
    BY <1>4, <1>b, <1>c, KindFacts, ConcatProperties DEF ReadChunk
  <2>3. cfiles' \in [DOMAIN cfiles -> Seq(Unit)] /\ DOMAIN cfiles' = DOMAIN cfiles
    BY <1>0, <1>4, <2>1, <2>2 DEF ReadChunk, ClientTypeOK
  <2>4. ClientTypeOK'
    BY <1>0, <1>4, <2>1, <2>3 DEF ReadChunk, ClientTypeOK
  <2> QED BY <1>0, <1>4, <1>a, <2>1, <2>4 DEF ReadChunk, SessionTypeOK
<1>5. CASE ReadEnd
  <2>1. ClientTypeOK'
    BY <1>0, <1>5 DEF ReadEnd, ClientTypeOK
  <2> QED BY <1>0, <1>5, <1>a, <2>1 DEF ReadEnd, SessionTypeOK
<1>6. CASE ReadCount
  <2>1. csize' \in Nat /\ crounds' \in Nat \ {0} /\ down' \in Seq(Written)
    <3>1. Head(down).n \in Nat
      BY <1>6, <1>b, KindFacts DEF ReadCount
    <3> QED BY <1>6, <1>b, <3>1 DEF ReadCount
  <2>2. ClientTypeOK'
    BY <1>0, <1>6, <2>1 DEF ReadCount, ClientTypeOK
  <2> QED BY <1>0, <1>6, <1>a, <2>1, <2>2 DEF ReadCount, SessionTypeOK
<1>7. CASE ReadEntry
  <2>1. crounds' \in Nat /\ down' \in Seq(Written)
    BY <1>0, <1>7, <1>b DEF ReadEntry, ClientTypeOK
  <2>2. ClientTypeOK'
    BY <1>0, <1>7, <2>1 DEF ReadEntry, ClientTypeOK
  <2> QED BY <1>0, <1>7, <1>a, <2>1, <2>2 DEF ReadEntry, SessionTypeOK
<1>8. CASE SendSize
  <2>1. Len(cfiles[message.name]) \in Nat
    BY <1>0, <1>8 DEF SendSize, ClientTypeOK
  <2>2. up' \in Seq(Written)
    BY <1>0, <1>8, <2>1, MessageFacts DEF SendSize
  <2>3. ClientTypeOK'
    BY <1>0, <1>8 DEF SendSize, ClientTypeOK
  <2> QED BY <1>0, <1>8, <1>a, <2>2, <2>3 DEF SendSize, SessionTypeOK
<1>9. CASE StatFailure
  <2>1. ClientTypeOK'
    BY <1>0, <1>9 DEF StatFailure, ClientTypeOK
  <2> QED BY <1>0, <1>9, <1>a, <2>1 DEF StatFailure, SessionTypeOK
<1>10. CASE SendChunk
  <2>1. Chunk(cfiles[message.name], cpos) \in Seq(Unit)
    BY <1>0, <1>10, <1>c, ChunkFacts DEF SendChunk, ClientTypeOK
  <2>2. up' \in Seq(Written)
    BY <1>0, <1>10, <2>1, MessageFacts DEF SendChunk
  <2>3. cpos' \in Nat
    BY <1>0, <1>10, BoundsAssumption DEF SendChunk, ClientTypeOK
  <2>4. ClientTypeOK'
    BY <1>0, <1>10, <2>3 DEF SendChunk, ClientTypeOK
  <2> QED BY <1>0, <1>10, <1>a, <2>2, <2>4 DEF SendChunk, SessionTypeOK
<1>11. CASE SendEnd
  <2>1. ClientTypeOK'
    BY <1>0, <1>11 DEF SendEnd, ClientTypeOK
  <2> QED BY <1>0, <1>11, <1>a, <2>1 DEF SendEnd, SessionTypeOK
<1>12. CASE Garble
  <2>1. ClientTypeOK'
    BY <1>0, <1>12 DEF Garble, client, ClientTypeOK
  <2> QED BY <1>0, <1>12, <1>a, <2>1 DEF Garble, SessionTypeOK
<1> QED BY <1>1, <1>2, <1>3, <1>4, <1>5, <1>6, <1>7, <1>8, <1>9, <1>10, <1>11, <1>12 DEF ClientStep
-----------------------------------------------------------------------------
(* FtpSession: what is due, and where the two sides are. *)

\* what SessionTypeOK says of the files
LEMMA FilesTyped ==
  ASSUME SessionTypeOK
  PROVE  /\ up \in Seq(Written) /\ down \in Seq(Written) /\ offered \in Seq(Unit)
         /\ \A p \in DOMAIN sfiles : sfiles[p] \in Seq(Unit)
         /\ \A n \in DOMAIN cfiles : cfiles[n] \in Seq(Unit)
         /\ srv \in {"send", "receive"} => fusion \in DOMAIN sfiles
         /\ cli \in {"chunks", "send"} => message.name \in DOMAIN cfiles
         /\ pos \in Nat /\ cpos \in Nat /\ size \in Nat
         /\ ~ Connected <=> cli = "gone"
  BY DEF SessionTypeOK, ServerTypeOK, ClientTypeOK, Connected

\* what is due is one of Dues
LEMMA DueFacts ==
  /\ QueryDue \in Dues /\ QueryDue.k = "query"
  /\ \A k \in {"D", "L", "U"}, n \in Names :
       Due(k, n, 0) \in Dues /\ Due(k, n, 0).k = k /\ Due(k, n, 0).name = n
  BY DEF QueryDue, Due, Dues, verif_message

\* data is due until the end of the file, and then a request
LEMMA DataDueFacts ==
  ASSUME NEW files, NEW n \in Names, NEW at \in Nat
  PROVE  /\ DataDue(files, n, at) \in Dues
         /\ DataDue(files, n, at).k \in {"query", "data"}
         /\ DataDue(files, n, at).k = "query" => DataDue(files, n, at) = QueryDue
         /\ at < Len(files[n]) =>
              /\ DataDue(files, n, at).k = "data" /\ DataDue(files, n, at).name = n
              /\ DataDue(files, n, at).at = at
         /\ ~ (at < Len(files[n])) => DataDue(files, n, at) = QueryDue
  BY DEF DataDue, QueryDue, Due, Dues

\* the client waits for the answer to what is read last
LEMMA StreamAnswer ==
  ASSUME NEW files, NEW s \in Seq(Written), NEW d \in Dues, NEW e,
         d.k \in {"D", "L"}, Stream(files, s, d, e)
  PROVE  s = <<>> /\ e = d
<1>1. \A m, c : ~ Carries(files, m, d, c)
  BY DueFacts DEF Carries
<1>2. s = <<>>
  BY <1>1, StreamRead
<1> QED BY <1>2, StreamEmpty

\* what is due tells what is carried
LEMMA CarriesFacts ==
  ASSUME NEW files, NEW m, NEW d, NEW e, Carries(files, m, d, e)
  PROVE  /\ d.k = "query" => d = QueryDue /\ m \in Query /\ e = Due(m.op, m.name, 0)
         /\ d.k = "U" => /\ d.name \in DOMAIN files /\ m = Size(Len(files[d.name]))
                         /\ e = DataDue(files, d.name, 0) /\ m.k = "size"
         /\ d.k = "data" => /\ d.name \in DOMAIN files /\ m = Data(Chunk(files[d.name], d.at))
                            /\ e = DataDue(files, d.name, d.at + BUFFER_SIZE)
         /\ d.k \in {"query", "U", "data"}
         /\ m \in Query => d = QueryDue
<1>1. QueryDue.k = "query"
  BY DueFacts
<1>2. \A n, u : Size(n) \notin Query /\ Data(u) \notin Query
  BY DEF Size, Data, Query
<1>3. \A n : Size(n).k = "size"
  BY DEF Size
<1> QED BY <1>1, <1>2, <1>3 DEF Carries

\* where the client is
LEMMA ClientAtFacts ==
  ASSUME SessionTypeOK, NEW e, ClientAt(e)
  PROVE  /\ cli \in {"prompt", "stat", "rep", "count", "send"}
         /\ cli = "prompt" => e = QueryDue
         /\ cli = "stat" => e = Due("U", message.name, 0) /\ e.k = "U"
         /\ cli = "rep" => e = Due("D", message.name, 0) /\ e.k = "D"
         /\ cli = "count" => e = Due("L", message.name, 0) /\ e.k = "L"
         /\ cli = "send" => e = DataDue(cfiles, message.name, cpos) /\ e.k \in {"query", "data"}
<1>1. /\ cli = "stat" => message \in Asking({"U"})
      /\ cli = "rep" => message \in Asking({"D"})
      /\ cli = "count" => message \in Asking({"L"})
      /\ cli = "send" => message.name \in Names /\ cpos \in Nat
  BY DEF SessionTypeOK, ClientTypeOK
<1>2. \A k, n : Due(k, n, 0).k = k
  BY DEF Due
<1>3. cli = "send" => DataDue(cfiles, message.name, cpos).k \in {"query", "data"}
  BY <1>1, DataDueFacts
<1> QED BY <1>1, <1>2, <1>3 DEF ClientAt, Asking
-----------------------------------------------------------------------------
(* FtpSession: Uploading. *)

\* from Uploading the server gets on with the upload, begins an answer, or
\* reads one message too many
LEMMA UploadingServer ==
  ASSUME SessionTypeOK, SessionTypeOK', Connected, Uploading, Traitement_requete
  PROVE  (Uploading \/ Answering \/ Lost)'
<1>0. /\ up \in Seq(Written) /\ down = <<>> /\ cli # "gone"
      /\ cli = "prompt" /\ message.op # "U" => up = <<>>
      /\ cli = "prompt" /\ message.op = "D" /\ csize > 0 => cfiles[message.name] = offered
  BY FilesTyped DEF Uploading
<1>1. PICK d \in Dues, e \in Dues : Stream(cfiles, up, d, e) /\ ServerAt(d) /\ ClientAt(e)
  BY DEF Uploading
<1>2. client' = client => ClientAt(e)'
  BY <1>1 DEF ClientAt, client
<1>3. ASSUME up # <<>>
      PROVE  \E c \in Dues : Carries(cfiles, Head(up), d, c) /\ Stream(cfiles, Tail(up), c, e)
  BY <1>0, <1>1, <1>3, StreamRead
<1>4. ClientAt(e)
  BY <1>1
<1>5. client' = client => cli' = cli /\ message' = message /\ cfiles' = cfiles /\ csize' = csize
  BY DEF client
<1>6. srv \in {"query", "send", "size", "receive"}
  BY <1>1 DEF ServerAt
\* the server reads on, without losing count
<1>7. ASSUME NEW c \in Dues, Stream(cfiles, up', c, e), ServerAt(c)', client' = client,
             down' = down, offered' = offered, up = <<>> => up' = <<>>
      PROVE  Uploading'
  <2>1. ClientAt(e)' /\ Stream(cfiles', up', c, e)
    BY <1>2, <1>5, <1>7
  <2>2. down' = <<>>
    BY <1>0, <1>7
  <2>3. cli' = "prompt" /\ message'.op # "U" => up' = <<>>
    BY <1>0, <1>5, <1>7
  <2>4. cli' = "prompt" /\ message'.op = "D" /\ csize' > 0 => cfiles'[message'.name] = offered'
    BY <1>0, <1>5, <1>7
  <2> QED BY <1>7, <2>1, <2>2, <2>3, <2>4 DEF Uploading
<1>8. CASE ReadQuery
  <2>0. client' = client /\ down' = down /\ offered' = offered
    BY <1>8 DEF ReadQuery
  <2>1. up # <<>> /\ Head(up).k = "query" /\ requete' = Head(up) /\ up' = Tail(up)
    BY <1>8, <1>0 DEF ReadQuery, Connected
  <2>2. PICK c \in Dues : Carries(cfiles, Head(up), d, c) /\ Stream(cfiles, Tail(up), c, e)
    BY <1>3, <2>1
  <2>3. Head(up) \in Written /\ Tail(up) \in Seq(Written)
    BY <1>0, <2>1
  <2>4. Head(up) \in Query /\ Head(up).op \in verif_message /\ Head(up).name \in Names
    BY <2>1, <2>3, KindFacts
  <2>5. c = Due(requete'.op, requete'.name, 0) /\ requete'.op \in {"D", "L", "U"}
    BY <2>1, <2>2, <2>4, CarriesFacts, DueFacts DEF verif_message
  <2>6. ASSUME requete'.op \in {"D", "L"} PROVE Answering'
    <3>1. c.k = requete'.op
      BY <2>5 DEF Due
    <3>2. up' = <<>> /\ e = c
      <4>1. c.k \in {"D", "L"}
        BY <2>6, <3>1
      <4> DEFINE rest == Tail(up)
      <4>2. rest \in Seq(Written) /\ Stream(cfiles, rest, c, e)
        BY <2>2, <2>3
      <4> HIDE DEF rest
      <4>3. rest = <<>> /\ e = c
        BY <4>1, <4>2, StreamAnswer
      <4> QED BY <2>1, <4>3 DEF rest
    <3>3. e.k = requete'.op
      BY <3>1, <3>2
    <3>4. /\ requete'.op = "D" => cli = "rep"
          /\ requete'.op = "L" => cli = "count"
      BY <1>4, <2>6, <3>3, ClientAtFacts, DueFacts
    <3>5. /\ requete'.op = "D" => srv' = "open"
          /\ requete'.op = "L" => srv' = "list"
      BY <1>8 DEF ReadQuery
    <3> QED BY <1>0, <1>5, <2>0, <2>6, <3>2, <3>4, <3>5
            DEF Answering, AnswerToDownload, AnswerToList
  <2>7. ASSUME requete'.op = "U" PROVE Uploading'
    <3>1. srv' = "size"
      BY <1>8, <2>7 DEF ReadQuery
    <3>2. ServerAt(c)'
      BY <2>5, <2>7, <3>1 DEF ServerAt
    <3> QED BY <1>7, <2>0, <2>1, <2>2, <3>2
  <2> QED BY <2>5, <2>6, <2>7
<1>9. CASE DownloadMissing \/ DownloadFound \/ List
  <2>1. srv \in {"open", "list"}
    BY <1>9 DEF DownloadMissing, DownloadFound, List
  <2> QED BY <1>6, <2>1
<1>10. CASE DownloadChunk
  <2>1. srv = "send" /\ pos < Len(sfiles[fusion])
    BY <1>10 DEF DownloadChunk
  <2>2. pos >= Len(sfiles[fusion])
    BY <1>1, <2>1 DEF ServerAt
  <2>3. pos \in Nat /\ Len(sfiles[fusion]) \in Nat
    BY <2>1, FilesTyped
  <2> QED BY <2>1, <2>2, <2>3
<1>11. CASE DownloadEnd
  <2>1. /\ client' = client /\ down' = down /\ offered' = offered /\ up' = up /\ requete' = requete
        /\ srv = "send" /\ srv' = "query"
    BY <1>11 DEF DownloadEnd
  <2>2. d = QueryDue
    BY <1>1, <2>1 DEF ServerAt
  <2>3. requete.op = "D"
    BY <2>1 DEF SessionTypeOK, ServerTypeOK, Asking
  <2>4. ServerAt(d)'
    BY <2>1, <2>2, <2>3 DEF ServerAt
  <2> QED BY <1>1, <1>7, <2>1, <2>4
<1>12. CASE UploadOpen
  <2>1. /\ client' = client /\ down' = down /\ offered' = offered /\ requete' = requete
        /\ srv = "size" /\ srv' = "receive"
        /\ up # <<>> /\ Head(up).k = "size" /\ size' = Head(up).n /\ up' = Tail(up)
        /\ rounds' = Rounds(size') /\ sfiles' = Create(sfiles, fusion', <<>>)
    BY <1>0, <1>12 DEF UploadOpen, Connected, Opened
  <2>2. PICK c \in Dues : Carries(cfiles, Head(up), d, c) /\ Stream(cfiles, Tail(up), c, e)
    BY <1>3, <2>1
  <2>3. d.k = "U" /\ d.name = requete.name
    BY <1>1, <2>1 DEF ServerAt, Due
  <2>4. /\ requete.name \in DOMAIN cfiles /\ Head(up) = Size(Len(cfiles[requete.name]))
        /\ c = DataDue(cfiles, requete.name, 0)
    BY <2>2, <2>3, CarriesFacts
  <2>5. size' = Len(cfiles[requete.name]) /\ cfiles[requete.name] \in Seq(Unit)
    BY <2>1, <2>4, FilesTyped DEF Size
  <2>6. sfiles'[fusion'] = <<>> /\ Len(<<>>) = 0
    BY <2>1 DEF Create
  <2>7. Partial(<<>>, cfiles[requete.name], rounds')
    BY <2>1, <2>5, PartialInit
  <2>8. ServerAt(c)'
    BY <1>5, <2>1, <2>4, <2>5, <2>6, <2>7 DEF ServerAt
  <2> QED BY <1>7, <2>1, <2>2, <2>8
<1>13. CASE UploadChunk
  <2>1. /\ client' = client /\ down' = down /\ offered' = offered /\ requete' = requete
        /\ srv = "receive" /\ srv' = "receive" /\ size' = size /\ fusion' = fusion
        /\ up # <<>> /\ up' = Tail(up) /\ rounds > 0 /\ rounds' = rounds - 1
        /\ sfiles' = [sfiles EXCEPT ![fusion] = @ \o Units(Head(up))]
    BY <1>0, <1>13 DEF UploadChunk, Connected
  <2> DEFINE file == cfiles[requete.name]
             part == sfiles[fusion]
  <2>2. /\ requete.name \in DOMAIN cfiles /\ size = Len(file) /\ Partial(part, file, rounds)
        /\ d = DataDue(cfiles, requete.name, Len(part))
    BY <1>1, <2>1 DEF ServerAt
  <2>3. file \in Seq(Unit) /\ part \in Seq(Unit) /\ Len(part) \in Nat /\ Len(file) \in Nat
        /\ fusion \in DOMAIN sfiles
    BY <2>1, <2>2, FilesTyped
  <2>4. requete.name \in Names /\ requete.op = "U"
    BY <2>1 DEF SessionTypeOK, ServerTypeOK, Asking, Query
  <2>5. PICK c \in Dues : Carries(cfiles, Head(up), d, c) /\ Stream(cfiles, Tail(up), c, e)
    BY <1>3, <2>1
  <2>6. sfiles'[fusion'] = part \o Units(Head(up))
    BY <2>1, <2>3
  <2>7. CASE Len(part) < Len(file)
    <3>1. d.k = "data" /\ d.name = requete.name /\ d.at = Len(part)
      BY <2>2, <2>3, <2>4, <2>7, DataDueFacts
    <3>2. /\ Head(up) = Data(Chunk(file, Len(part)))
          /\ c = DataDue(cfiles, requete.name, Len(part) + BUFFER_SIZE)
      BY <2>5, <3>1, CarriesFacts
    <3> DEFINE next == part \o Chunk(file, Len(part))
    <3>3. Units(Head(up)) = Chunk(file, Len(part))
      BY <3>2 DEF Units, Data
    <3>4. sfiles'[fusion'] = next
      BY <2>6, <3>3
    <3>5. /\ Partial(next, file, rounds - 1) /\ next \in Seq(Unit)
          /\ \/ Len(next) = Len(part) + BUFFER_SIZE
             \/ Len(next) = Len(file) /\ Len(part) + BUFFER_SIZE >= Len(file)
      BY <2>2, <2>3, <2>7, PartialStep
    <3> HIDE DEF next
    <3>6. c = DataDue(cfiles, requete.name, Len(next))
      <4>1. CASE Len(next) = Len(part) + BUFFER_SIZE
        BY <3>2, <4>1
      <4>2. CASE Len(next) = Len(file) /\ Len(part) + BUFFER_SIZE >= Len(file)
        <5>1. ~ (Len(part) + BUFFER_SIZE < Len(file)) /\ ~ (Len(next) < Len(file))
              /\ Len(part) + BUFFER_SIZE \in Nat /\ Len(next) \in Nat
          BY <2>3, <4>2, BoundsAssumption
        <5> QED BY <2>4, <3>2, <5>1, DataDueFacts
      <4> QED BY <3>5, <4>1, <4>2
    <3>7. ServerAt(c)'
      BY <1>5, <2>1, <2>2, <3>4, <3>5, <3>6 DEF ServerAt
    <3> QED BY <1>7, <2>1, <2>5, <3>7
  <2>8. CASE ~ (Len(part) < Len(file))
    <3>1. d = QueryDue
      BY <2>2, <2>3, <2>4, <2>8, DataDueFacts
    <3>2. ~ Fits(size) /\ rounds = 1
      BY <2>1, <2>2, <2>3, <2>8, PartialReads
    <3>3. Head(up) \in Query /\ c = Due(Head(up).op, Head(up).name, 0)
      BY <2>5, <3>1, CarriesFacts, DueFacts
    <3>4. c.k = Head(up).op /\ Head(up).op \in {"D", "L", "U"}
      BY <3>3 DEF Due, Query, verif_message
    <3>5. Tail(up) \in Seq(Written)
      BY <1>0, <2>1
    <3>6. ASSUME up' = <<>> PROVE cli' \in {"stat", "rep", "count"}
      <4>1. e = c
        <5>1. Stream(cfiles, <<>>, c, e)
          BY <2>1, <2>5, <3>6
        <5> QED BY <5>1, StreamEmpty
      <4> QED BY <1>4, <1>5, <2>1, <3>4, <4>1, ClientAtFacts, DueFacts
    <3>7. ASSUME up' # <<>> PROVE Head(up').k # "query"
      <4>1. PICK b \in Dues : Carries(cfiles, Head(Tail(up)), c, b)
        BY <2>1, <2>5, <3>5, <3>7, StreamRead
      <4>2. c.k = "U"
        BY <3>4, <4>1, CarriesFacts
      <4>4. Head(Tail(up)).k = "size"
        BY <4>1, <4>2, CarriesFacts
      <4> QED BY <2>1, <4>4
    <3>8. cli' = "prompt" => message'.op = "U"
      BY <1>0, <1>5, <2>1
    <3>9. cli' \in {"prompt", "stat", "send", "rep", "count"}
      BY <1>4, <1>5, <2>1, ClientAtFacts
    <3> QED BY <1>0, <2>1, <2>4, <3>2, <3>6, <3>7, <3>8, <3>9 DEF Lost
  <2> QED BY <2>7, <2>8
<1>14. CASE UploadEnd
  <2>1. /\ client' = client /\ down' = down /\ offered' = offered /\ up' = up /\ requete' = requete
        /\ srv = "receive" /\ srv' = "query" /\ rounds = 0 /\ size' = size
        /\ sfiles' = sfiles /\ fusion' = fusion
    BY <1>14 DEF UploadEnd
  <2> DEFINE file == cfiles[requete.name]
             part == sfiles[fusion]
  <2>2. /\ requete.name \in DOMAIN cfiles /\ size = Len(file) /\ Partial(part, file, rounds)
        /\ d = DataDue(cfiles, requete.name, Len(part))
    BY <1>1, <2>1 DEF ServerAt
  <2>3. file \in Seq(Unit) /\ part \in Seq(Unit) /\ Len(part) \in Nat /\ Len(file) \in Nat
    BY <2>1, <2>2, FilesTyped
  <2>4. ~ (Len(part) < Len(file)) /\ part = file
    BY <2>1, <2>2, <2>3, PartialReads
  <2>5. requete.name \in Names
    BY <2>1 DEF SessionTypeOK, ServerTypeOK, Asking, Query
  <2>6. d = QueryDue
    BY <2>2, <2>3, <2>4, <2>5, DataDueFacts
  <2>7. ServerAt(d)'
    BY <1>5, <2>1, <2>4, <2>6 DEF ServerAt
  <2> QED BY <1>1, <1>7, <2>1, <2>7
<1>15. CASE Killed
  BY <1>0, <1>15 DEF Killed, Connected
<1> QED BY <1>8, <1>9, <1>10, <1>11, <1>12, <1>13, <1>14, <1>15 DEF Traitement_requete

\* from Uploading the client writes what is due
LEMMA UploadingClient ==
  ASSUME SessionTypeOK, SessionTypeOK', Connected, Connected', Uploading,
         ClientStep \/ Command \/ Quit \/ Garble
  PROVE  Uploading'
<1>0. /\ up \in Seq(Written) /\ down = <<>>
      /\ cli = "prompt" /\ message.op # "U" => up = <<>>
      /\ cli = "prompt" /\ message.op = "D" /\ csize > 0 => cfiles[message.name] = offered
  BY FilesTyped DEF Uploading
<1>1. PICK d \in Dues, e \in Dues : Stream(cfiles, up, d, e) /\ ServerAt(d) /\ ClientAt(e)
  BY DEF Uploading
<1>2. /\ cli \in {"prompt", "stat", "rep", "count", "send"}
      /\ cli = "prompt" => e = QueryDue
      /\ cli = "stat" => e = Due("U", message.name, 0)
      /\ cli = "send" => e = DataDue(cfiles, message.name, cpos)
  BY <1>1, ClientAtFacts
<1>3. server' = server /\ cfiles' = cfiles => ServerAt(d)'
  BY <1>1 DEF ServerAt, server
<1>4. cli \in {"stat", "send"} => message.op = "U" /\ message.name \in Names
  BY DEF SessionTypeOK, ClientTypeOK, Asking, Query
\* the client writes what is due after what it has written
<1>5. ASSUME NEW m \in Written, NEW f \in Dues, Carries(cfiles, m, e, f), ClientAt(f)',
             up' = Append(up, m), server' = server, cfiles' = cfiles, down' = down,
             cli' # "prompt"
      PROVE  Uploading'
  <2>1. Stream(cfiles, Append(up, m), d, f)
    BY <1>0, <1>1, <1>5, StreamWrite
  <2>2. Stream(cfiles', up', d, f)
    BY <1>5, <2>1
  <2> QED BY <1>0, <1>3, <1>5, <2>2 DEF Uploading
<1>6. CASE Command
  <2>1. PICK op \in verif_message, f \in Names :
          /\ message' = Op(op, f) /\ up' = Append(up, Op(op, f))
          /\ cli' = CASE op = "D" -> "rep" [] op = "L" -> "count" [] op = "U" -> "stat"
    BY <1>6 DEF Command
  <2>2. /\ server' = server /\ cfiles' = cfiles /\ down' = down /\ e = QueryDue
    BY <1>2, <1>6 DEF Command
  <2>3. Op(op, f) \in Query /\ Op(op, f) \in Written /\ Op(op, f).op = op /\ Op(op, f).name = f
    BY QueryFacts DEF Op
  <2>4. Due(op, f, 0) \in Dues
    BY DueFacts DEF verif_message
  <2>5. Carries(cfiles, Op(op, f), e, Due(op, f, 0))
    BY <2>2, <2>3 DEF Carries
  <2>6. cli' \in {"stat", "rep", "count"}
    BY <2>1 DEF verif_message
  <2>7. ClientAt(Due(op, f, 0))'
    BY <2>1, <2>3, <2>6 DEF ClientAt
  <2> QED BY <1>5, <2>1, <2>2, <2>3, <2>4, <2>5, <2>6, <2>7
<1>7. CASE SendSize
  <2>1. /\ cli = "stat" /\ message.name \in DOMAIN cfiles
        /\ up' = Append(up, Size(Len(cfiles[message.name]))) /\ cpos' = 0 /\ cli' = "send"
        /\ server' = server /\ cfiles' = cfiles /\ down' = down /\ message' = message
    BY <1>7 DEF SendSize
  <2>a. Len(cfiles[message.name]) \in Nat
    BY <2>1, FilesTyped
  <2>2. Size(Len(cfiles[message.name])) \in Written
    BY <2>a, MessageFacts
  <2>3. PICK f \in Dues : f = DataDue(cfiles, message.name, 0)
    BY <1>4, <2>1, DataDueFacts
  <2>4. e.k = "U" /\ e.name = message.name
    BY <1>2, <2>1 DEF Due
  <2>5. Carries(cfiles, Size(Len(cfiles[message.name])), e, f)
    BY <2>1, <2>3, <2>4 DEF Carries
  <2>6. ClientAt(f)'
    BY <2>1, <2>3 DEF ClientAt
  <2> QED BY <1>5, <2>1, <2>2, <2>3, <2>5, <2>6
<1>8. CASE SendChunk
  <2>1. /\ cli = "send" /\ cpos < Len(cfiles[message.name])
        /\ up' = Append(up, Data(Chunk(cfiles[message.name], cpos)))
        /\ cpos' = cpos + BUFFER_SIZE /\ cli' = "send"
        /\ server' = server /\ cfiles' = cfiles /\ down' = down /\ message' = message
    BY <1>8 DEF SendChunk
  <2> DEFINE file == cfiles[message.name]
  <2>2. file \in Seq(Unit) /\ cpos \in Nat /\ message.name \in DOMAIN cfiles
        /\ cpos + BUFFER_SIZE \in Nat
    BY <2>1, FilesTyped, BoundsAssumption
  <2>3. Data(Chunk(file, cpos)) \in Written
    BY <2>1, <2>2, ChunkFacts, MessageFacts
  <2>4. PICK f \in Dues : f = DataDue(cfiles, message.name, cpos + BUFFER_SIZE)
    BY <1>4, <2>1, <2>2, DataDueFacts
  <2>5. e.k = "data" /\ e.name = message.name /\ e.at = cpos
    BY <1>2, <1>4, <2>1, <2>2, DataDueFacts
  <2>6. Carries(cfiles, Data(Chunk(file, cpos)), e, f)
    BY <2>2, <2>4, <2>5 DEF Carries
  <2>7. ClientAt(f)'
    BY <2>1, <2>4 DEF ClientAt
  <2> QED BY <1>5, <2>1, <2>3, <2>4, <2>6, <2>7
<1>9. CASE SendEnd
  <2>1. /\ cli = "send" /\ cpos >= Len(cfiles[message.name]) /\ cli' = "prompt"
        /\ up' = up /\ server' = server /\ cfiles' = cfiles /\ down' = down /\ message' = message
    BY <1>9 DEF SendEnd
  <2>2. cpos \in Nat /\ Len(cfiles[message.name]) \in Nat
    BY <2>1, FilesTyped
  <2>3. e = QueryDue
    BY <1>2, <1>4, <2>1, <2>2, DataDueFacts
  <2>4. ClientAt(e)'
    BY <2>1, <2>3 DEF ClientAt
  <2>5. Stream(cfiles', up', d, e)
    BY <1>1, <2>1
  <2> QED BY <1>0, <1>3, <1>4, <2>1, <2>4, <2>5 DEF Uploading
<1>10. CASE Garble
  <2>1. /\ cli' = cli /\ up' = up /\ server' = server /\ cfiles' = cfiles /\ down' = down
        /\ message' = message /\ csize' = csize /\ offered' = offered /\ cpos' = cpos
    BY <1>10 DEF Garble, client
  <2>2. ClientAt(e)'
    BY <1>1, <2>1 DEF ClientAt
  <2>3. Stream(cfiles', up', d, e)
    BY <1>1, <2>1
  <2> QED BY <1>0, <1>3, <2>1, <2>2, <2>3 DEF Uploading
<1>11. CASE ReadRep \/ ReadCount \/ ReadChunk \/ ReadEnd \/ ReadEntry
  <2>1. Len(<<>>) = 0
    OBVIOUS
  <2> QED BY <1>0, <1>2, <1>11, <2>1 DEF ReadRep, ReadCount, ReadChunk, ReadEnd, ReadEntry
<1>12. CASE Quit \/ StatFailure
  BY <1>12 DEF Quit, StatFailure, Connected
<1> QED BY <1>6, <1>7, <1>8, <1>9, <1>10, <1>11, <1>12 DEF ClientStep
-----------------------------------------------------------------------------
(* FtpSession: Answering. *)

\* only the empty sequence has no element
LEMMA LengthFacts ==
  ASSUME NEW S, NEW s \in Seq(S)
  PROVE  Len(s) \in Nat /\ (s = <<>> <=> Len(s) = 0)
  OBVIOUS

\* what is written after two messages at least
LEMMA AppendTail2 ==
  ASSUME NEW S, NEW q \in Seq(S), NEW m \in S, Len(q) >= 2
  PROVE  /\ Tail(Tail(Append(q, m))) = Append(Tail(Tail(q)), m)
         /\ Append(q, m)[1] = q[1] /\ Append(q, m)[2] = q[2] /\ Len(Append(q, m)) >= 2
         /\ Tail(Tail(q)) \in Seq(S)
<1> DEFINE r == Tail(q)
<1>1. q # <<>> /\ Len(q) \in Nat
  OBVIOUS
<1>2. r \in Seq(S) /\ Len(r) = Len(q) - 1
  BY <1>1, TailFacts
<1>3. Tail(Append(q, m)) = Append(r, m)
  BY <1>1, AppendTail
<1>4. 1 \in 1 .. Len(q) /\ 2 \in 1 .. Len(q)
  BY <1>1
<1>5. Append(q, m)[1] = q[1] /\ Append(q, m)[2] = q[2] /\ Len(Append(q, m)) = Len(q) + 1
  BY <1>4, AppendFacts
<1> HIDE DEF r
<1>6. r # <<>>
  BY <1>1, <1>2
<1>7. Tail(Append(r, m)) = Append(Tail(r), m) /\ Tail(r) \in Seq(S)
  BY <1>2, <1>6, AppendTail, TailFacts
<1>8. Len(Append(q, m)) >= 2
  BY <1>1, <1>5
<1>9. Tail(Tail(Append(q, m))) = Append(Tail(r), m)
  BY <1>3, <1>7
<1> QED BY <1>5, <1>7, <1>8, <1>9 DEF r

\* the server has one buffer more in the stream
LEMMA OfferingWrite ==
  ASSUME SessionTypeOK, DownloadChunk, NEW b \in Seq(Written), NEW r, Offering(b, r)
  PROVE  /\ Data(Chunk(sfiles[fusion], pos)) \in Written
         /\ \A c : c = Append(b, Data(Chunk(sfiles[fusion], pos))) => Offering(c, r)'
<1>1. /\ srv = "send" /\ pos < Len(sfiles[fusion]) /\ pos' = pos + BUFFER_SIZE
      /\ srv' = srv /\ sfiles' = sfiles /\ fusion' = fusion /\ offered' = offered
  BY DEF DownloadChunk
<1>2. sfiles[fusion] = offered /\ offered \in Seq(Unit) /\ pos \in Nat
  BY <1>1, FilesTyped DEF Offering
<1>3. Data(Chunk(offered, pos)) \in Written
  BY <1>1, <1>2, ChunkFacts, MessageFacts
<1>4. PICK from \in Nat : /\ r = IF from < Len(offered) THEN from ELSE Len(offered)
                          /\ Buffers(offered, b, from, pos)
  BY DEF Offering
<1>5. ASSUME NEW c, c = Append(b, Data(Chunk(offered, pos)))
      PROVE  Buffers(offered, c, from, pos + BUFFER_SIZE)
  BY <1>1, <1>2, <1>3, <1>4, <1>5, BuffersWrite
<1>6. ASSUME NEW c, c = Append(b, Data(Chunk(offered, pos)))
      PROVE  Offering(c, r)'
  <2>1. Buffers(offered', c, from, pos')
    BY <1>1, <1>5, <1>6
  <2> QED BY <1>1, <1>2, <1>4, <2>1 DEF Offering
<1> QED BY <1>2, <1>3, <1>6

\* the server goes on with its answer
LEMMA AnsweringServer ==
  ASSUME SessionTypeOK, SessionTypeOK', Connected, Answering, Traitement_requete
  PROVE  Answering'
<1>a. down \in Seq(Written)
  BY FilesTyped
<1>b. /\ up = <<>>
      /\ (requete.op = "D" /\ AnswerToDownload) \/ (requete.op = "L" /\ AnswerToList)
  BY DEF Answering
<1>0. /\ up = <<>> /\ down \in Seq(Written)
      /\ requete.op = "D" => AnswerToDownload
      /\ requete.op = "L" => AnswerToList
      /\ requete.op \in {"D", "L"}
  BY <1>a, <1>b
<1>1. /\ srv \in {"open", "send"} => requete.op = "D"
      /\ srv = "list" => requete.op = "L"
      /\ srv \in {"size", "receive"} => requete.op = "U"
  BY DEF SessionTypeOK, ServerTypeOK, Asking
<1>2. client' = client => cli' = cli /\ message' = message /\ cfiles' = cfiles /\ csize' = csize
                          /\ crounds' = crounds
  BY DEF client
<1>3. CASE ReadQuery \/ UploadOpen \/ UploadChunk \/ UploadEnd \/ Killed
  BY <1>0, <1>1, <1>3 DEF ReadQuery, UploadOpen, UploadChunk, UploadEnd, Killed, Connected
<1>4. CASE DownloadMissing
  <2>1. /\ client' = client /\ up' = up /\ requete' = requete /\ srv = "open" /\ srv' = "query"
        /\ down' = down \o <<Found(FALSE), Size(0)>>
    BY <1>4 DEF DownloadMissing, Reply
  <2>2. down = <<>> /\ cli = "rep" /\ requete.op = "D"
    BY <1>0, <1>1, <2>1 DEF AnswerToDownload, Offering
  <2>3. down' = <<Found(FALSE), Size(0)>>
    <3>1. <<Found(FALSE), Size(0)>> \in Seq(Written)
      BY MessageFacts, TwoTyped
    <3> QED BY <2>1, <2>2, <3>1, ConcatEmptySeq
  <2> QED BY <1>0, <1>2, <2>1, <2>2, <2>3 DEF Answering, AnswerToDownload
<1>5. CASE DownloadFound
  <2>1. /\ client' = client /\ up' = up /\ requete' = requete /\ srv = "open" /\ srv' = "send"
        /\ down' = down \o <<Found(TRUE), Size(Len(offered'))>> /\ pos' = 0
        /\ offered' = sfiles[fusion'] /\ sfiles' = sfiles
    BY <1>5 DEF DownloadFound, Reply
  <2>2. down = <<>> /\ cli = "rep" /\ requete.op = "D"
    BY <1>0, <1>1, <2>1 DEF AnswerToDownload, Offering
  <2>3. PICK n \in Nat : n = Len(offered')
    BY FilesTyped DEF SessionTypeOK
  <2>4. Found(TRUE) \in Written /\ Size(n) \in Written
    BY MessageFacts
  <2>5. PICK m : m = <<Found(TRUE), Size(n)>>
    OBVIOUS
  <2>6. m \in Seq(Written) /\ Len(m) = 2 /\ m[1] = Found(TRUE) /\ m[2] = Size(n)
    BY <2>4, <2>5, TwoTyped
  <2>7. Tail(Tail(m)) = <<>>
    BY <2>4, <2>5
  <2>8. down' = m
    BY <2>1, <2>2, <2>3, <2>5, <2>6, ConcatEmptySeq
  <2>9. PICK o : o = offered'
    OBVIOUS
  <2>10. Buffers(o, <<>>, 0, 0) /\ 0 \in Nat
    BY BuffersNone
  <2>11. 0 = IF 0 < n THEN 0 ELSE n
    BY <2>3
  <2>12. Offering(Tail(Tail(down)), 0)'
    BY <2>1, <2>3, <2>7, <2>8, <2>9, <2>10, <2>11 DEF Offering
  <2>13. AnswerToDownload'
    BY <1>2, <2>1, <2>2, <2>3, <2>6, <2>8, <2>12 DEF AnswerToDownload
  <2> QED BY <1>0, <2>1, <2>2, <2>13 DEF Answering
<1>6. CASE DownloadChunk
  <2>1. /\ client' = client /\ up' = up /\ requete' = requete /\ srv = "send" /\ srv' = "send"
        /\ offered' = offered /\ down' = down \o <<Data(Chunk(sfiles[fusion], pos))>>
    BY <1>6 DEF DownloadChunk, Reply
  <2>2. requete.op = "D" /\ AnswerToDownload
    BY <1>0, <1>1, <2>1
  <2>3. PICK m : m = Data(Chunk(sfiles[fusion], pos))
    OBVIOUS
  <2>4. CASE /\ cli = "rep" /\ Len(down) >= 2
             /\ down[1] = Found(TRUE) /\ down[2] = Size(Len(offered))
             /\ Offering(Tail(Tail(down)), 0)
    <3>1. PICK b : b = Tail(Tail(down))
      OBVIOUS
    <3>2. b \in Seq(Written)
      <4> DEFINE rest == Tail(down)
      <4>1. down # <<>> /\ Len(down) \in Nat
        BY <1>0, <2>4
      <4>2. rest \in Seq(Written) /\ Len(rest) = Len(down) - 1
        BY <1>0, <4>1, TailFacts
      <4> HIDE DEF rest
      <4>3. rest # <<>>
        BY <2>4, <4>1, <4>2
      <4>4. Tail(rest) \in Seq(Written)
        BY <4>2, <4>3, TailFacts
      <4> QED BY <3>1, <4>4 DEF rest
    <3>3. m \in Written /\ \A c : c = Append(b, m) => Offering(c, 0)'
      BY <1>6, <2>3, <2>4, <3>1, <3>2, OfferingWrite
    <3>4. down' = Append(down, m)
      BY <1>0, <2>1, <2>3, <3>3, ConcatOne
    <3>5. /\ Tail(Tail(down')) = Append(b, m) /\ Len(down') >= 2
          /\ down'[1] = down[1] /\ down'[2] = down[2]
      BY <1>0, <2>4, <3>1, <3>3, <3>4, AppendTail2
    <3>6. PICK c : c = Append(b, m)
      OBVIOUS
    <3>7. Offering(c, 0)' /\ Tail(Tail(down')) = c
      BY <3>3, <3>5, <3>6
    <3>8. AnswerToDownload'
      BY <1>2, <2>1, <2>4, <3>5, <3>7 DEF AnswerToDownload, Offering
    <3> QED BY <1>0, <2>1, <2>2, <3>8 DEF Answering
  <2>5. CASE /\ cli = "chunks" /\ csize = Len(offered)
             /\ Partial(cfiles[message.name], offered, crounds)
             /\ Offering(down, Len(cfiles[message.name]))
    <3>1. PICK b, r : b = down /\ r = Len(cfiles[message.name])
      OBVIOUS
    <3>2. b \in Seq(Written) /\ Offering(b, r)
      BY <1>0, <2>5, <3>1
    <3>3. m \in Written /\ \A c : c = Append(b, m) => Offering(c, r)'
      BY <1>6, <2>3, <3>2, OfferingWrite
    <3>4. PICK c : c = Append(b, m)
      OBVIOUS
    <3>5. down' = c
      BY <1>0, <2>1, <2>3, <3>1, <3>3, <3>4, ConcatOne
    <3>6. Offering(c, r)'
      BY <3>3, <3>4
    <3>7. AnswerToDownload'
      BY <1>2, <2>1, <2>5, <3>1, <3>5, <3>6 DEF AnswerToDownload, Offering
    <3> QED BY <1>0, <2>1, <2>2, <3>7 DEF Answering
  <2> QED BY <2>1, <2>2, <2>4, <2>5 DEF AnswerToDownload
<1>7. CASE DownloadEnd
  <2>1. /\ client' = client /\ up' = up /\ requete' = requete /\ srv = "send" /\ srv' = "query"
        /\ offered' = offered /\ down' = down /\ sfiles' = sfiles /\ fusion' = fusion /\ pos' = pos
        /\ pos >= Len(sfiles[fusion])
    BY <1>7 DEF DownloadEnd
  <2>2. requete.op = "D" /\ AnswerToDownload
    BY <1>0, <1>1, <2>1
  <2>3. AnswerToDownload'
    BY <1>2, <2>1, <2>2 DEF AnswerToDownload, Offering
  <2> QED BY <1>0, <2>1, <2>2, <2>3 DEF Answering
<1>8. CASE List
  <2> DEFINE k == IF program = "TME07" THEN 1 ELSE Entries
             items == [i \in 1 .. k |-> Item("entry")]
  <2>1. /\ client' = client /\ up' = up /\ requete' = requete /\ srv = "list" /\ srv' = "query"
        /\ down' = down \o (<<Size(Entries)>> \o items \o <<Item("eof")>>)
    BY <1>8 DEF List, Reply
  <2>2. requete.op = "L" /\ cli = "count" /\ down = <<>>
    BY <1>0, <1>1, <2>1 DEF AnswerToList
  <2>3. Entries \in Nat /\ Entries >= 2
    BY EntriesFacts DEF SessionTypeOK, ServerTypeOK
  <2>4. k \in Nat /\ k <= Entries
    BY <2>3
  <2>5. Size(Entries) \in Written /\ Size(Entries).k = "size" /\ Size(Entries).n = Entries
    BY <2>3, MessageFacts
  <2> HIDE DEF k
  <2>6. items \in Seq(Written) /\ Len(items) = k /\ Item("eof") \in Written
    BY <2>4, MessageFacts
  <2> HIDE DEF items
  <2>7. PICK a, b : a = <<Size(Entries)>> \o items /\ b = <<Item("eof")>>
    OBVIOUS
  <2>8. /\ <<Size(Entries)>> \in Seq(Written) /\ Len(<<Size(Entries)>>) = 1
        /\ <<Size(Entries)>>[1] = Size(Entries) /\ b \in Seq(Written) /\ Len(b) = 1
    BY <2>5, <2>6, <2>7
  <2>9. a \in Seq(Written) /\ Len(a) = 1 + k /\ a[1] = Size(Entries)
    BY <2>4, <2>6, <2>7, <2>8, ConcatProperties
  <2>10. a \o b \in Seq(Written) /\ Len(a \o b) = 1 + k + 1 /\ (a \o b)[1] = Size(Entries)
    <3>1. a \o b \in Seq(Written) /\ Len(a \o b) = Len(a) + Len(b)
      BY <2>8, <2>9, ConcatProperties
    <3>2. 1 \in 1 .. Len(a) + Len(b) /\ 1 <= Len(a)
      BY <2>4, <2>8, <2>9
    <3>3. (a \o b)[1] = a[1]
      BY <2>8, <2>9, <3>2, ConcatProperties
    <3> QED BY <2>4, <2>8, <2>9, <3>1, <3>3
  <2>11. down' = a \o b
    BY <2>1, <2>2, <2>7, <2>10, ConcatEmptySeq
  <2>12. PICK w : w = a \o b
    OBVIOUS
  <2>13. w # <<>> /\ Head(w) = Size(Entries) /\ Len(w) <= Entries + 2
    BY <2>3, <2>4, <2>10, <2>12
  <2> QED BY <1>0, <1>2, <2>1, <2>2, <2>5, <2>11, <2>12, <2>13 DEF Answering, AnswerToList
<1> QED BY <1>3, <1>4, <1>5, <1>6, <1>7, <1>8 DEF Traitement_requete

\* the client is back at its prompt, and the server expects a request
LEMMA PromptAgain ==
  ASSUME SessionTypeOK', up' = <<>>, down' = <<>>, cli' = "prompt",
         \/ srv' = "query" /\ requete'.op # "U"
         \/ srv' = "send" /\ pos' >= Len(sfiles'[fusion']),
         message'.op = "D" /\ csize' > 0 => cfiles'[message'.name] = offered'
  PROVE  Uploading'
<1>1. QueryDue \in Dues
  BY DueFacts
<1>2. PICK files : files = cfiles'
  OBVIOUS
<1>3. Stream(files, <<>>, QueryDue, QueryDue)
  BY <1>1, StreamEmpty
<1>4. ServerAt(QueryDue)' /\ ClientAt(QueryDue)'
  BY DEF ServerAt, ClientAt
<1>5. Stream(cfiles, up, QueryDue, QueryDue)'
  BY <1>2, <1>3
<1> QED BY <1>1, <1>4, <1>5 DEF Uploading

\* the client reads on, to the end of the answer and its prompt
LEMMA AnsweringClient ==
  ASSUME SessionTypeOK, SessionTypeOK', Connected, Connected', Answering,
         ClientStep \/ Command \/ Quit \/ Garble
  PROVE  (Uploading \/ Answering)'
<1>a. down \in Seq(Written)
  BY FilesTyped
<1>b. /\ up = <<>>
      /\ (requete.op = "D" /\ AnswerToDownload) \/ (requete.op = "L" /\ AnswerToList)
  BY DEF Answering
<1>0. /\ up = <<>> /\ down \in Seq(Written)
      /\ requete.op = "D" => AnswerToDownload
      /\ requete.op = "L" => AnswerToList
      /\ requete.op \in {"D", "L"}
  BY <1>a, <1>b
<1>1. /\ requete.op = "D" <=> cli \in {"rep", "chunks"}
      /\ requete.op = "L" <=> cli \in {"count", "entries"}
  BY <1>0 DEF AnswerToDownload, AnswerToList
<1>2. server' = server => /\ srv' = srv /\ requete' = requete /\ sfiles' = sfiles
                          /\ fusion' = fusion /\ pos' = pos
  BY DEF server
<1>3. /\ cli \in {"rep", "chunks"} => message \in Asking({"D"})
      /\ cli \in {"count", "entries"} => message \in Asking({"L"})
      /\ cli \in {"chunks", "send"} => message.name \in DOMAIN cfiles
  BY DEF SessionTypeOK, ClientTypeOK
<1>4. CASE ReadRep
  <2>1. /\ cli = "rep" /\ Len(down) >= 2 /\ csize' = down[2].n /\ down' = Tail(Tail(down))
        /\ server' = server /\ up' = up /\ offered' = offered /\ message' = message
    BY <1>4 DEF ReadRep
  <2>2. requete.op = "D" /\ AnswerToDownload /\ message.op = "D"
    BY <1>0, <1>1, <1>3, <2>1 DEF Asking
  <2>3. down # <<>>
    BY <1>0, <2>1, LengthFacts
  <2>4. CASE srv = "query" /\ down = <<Found(FALSE), Size(0)>>
    <3>1. down[1] = Found(FALSE) /\ down[2] = Size(0)
      BY <2>4
    <3>2. ~ down[1].found /\ down[2].n = 0
      BY <3>1 DEF Found, Size
    <3>3. Tail(Tail(down)) = <<>>
      BY <2>4
    <3>4. cli' = "prompt"
      BY <1>4, <3>2 DEF ReadRep
    <3>5. Uploading'
      BY <1>0, <1>2, <2>1, <2>2, <2>4, <3>2, <3>3, <3>4, PromptAgain
    <3> QED BY <3>5
  <2>5. CASE /\ down[1] = Found(TRUE) /\ down[2] = Size(Len(offered))
             /\ Offering(Tail(Tail(down)), 0)
    <3>1. down[1].found /\ csize' = Len(offered)
      BY <2>1, <2>5 DEF Found, Size
    <3>2. /\ cfiles' = Create(cfiles, message.name, <<>>)
          /\ crounds' = Rounds(csize') /\ cli' = "chunks"
      BY <1>4, <3>1 DEF ReadRep
    <3>3. cfiles'[message.name] = <<>> /\ Len(<<>>) = 0
      BY <3>2 DEF Create
    <3>4. Partial(<<>>, offered, Rounds(Len(offered)))
      BY FilesTyped, PartialInit
    <3>5. PICK b : b = Tail(Tail(down)) /\ Offering(b, 0)
      BY <2>5
    <3>6. Offering(b, 0)'
      BY <1>2, <2>1, <3>5 DEF Offering
    <3>7. AnswerToDownload'
      BY <2>1, <3>1, <3>2, <3>3, <3>4, <3>5, <3>6 DEF AnswerToDownload
    <3> QED BY <1>0, <1>2, <2>1, <2>2, <3>7 DEF Answering
  <2> QED BY <2>1, <2>2, <2>3, <2>4, <2>5 DEF AnswerToDownload
<1>5. CASE ReadChunk
  <2>1. /\ cli = "chunks" /\ crounds > 0 /\ crounds' = crounds - 1
        /\ down # <<>> /\ down' = Tail(down) /\ cli' = cli /\ csize' = csize
        /\ cfiles' = [cfiles EXCEPT ![message.name] = @ \o Units(Head(down))]
        /\ server' = server /\ up' = up /\ offered' = offered /\ message' = message
    BY <1>5 DEF ReadChunk
  <2> DEFINE part == cfiles[message.name]
             next == part \o Chunk(offered, Len(part))
  <2>2. /\ requete.op = "D" /\ csize = Len(offered)
        /\ Partial(part, offered, crounds) /\ Offering(down, Len(part))
    BY <1>0, <1>1, <2>1 DEF AnswerToDownload
  <2>3. part \in Seq(Unit) /\ offered \in Seq(Unit) /\ message.name \in DOMAIN cfiles
        /\ Len(offered) \in Nat /\ Len(part) \in Nat
    BY <2>1, FilesTyped
  <2>4. PICK from \in Nat : /\ Len(part) = IF from < Len(offered) THEN from ELSE Len(offered)
                            /\ Buffers(offered, down, from, pos)
    BY <2>2 DEF Offering
  <2>5. /\ from < Len(offered) /\ Head(down) = Data(Chunk(offered, from))
        /\ Buffers(offered, Tail(down), from + BUFFER_SIZE, pos)
    BY <1>0, <2>1, <2>4, BuffersRead
  <2>6. Len(part) = from
    BY <2>4, <2>5
  <2>7. Units(Head(down)) = Chunk(offered, Len(part))
    BY <2>5, <2>6 DEF Units, Data
  <2>8. cfiles'[message.name] = next
    BY <2>1, <2>3, <2>7
  <2>9. /\ Partial(next, offered, crounds - 1) /\ next \in Seq(Unit)
        /\ \/ Len(next) = from + BUFFER_SIZE
           \/ Len(next) = Len(offered) /\ from + BUFFER_SIZE >= Len(offered)
    BY <2>2, <2>3, <2>5, <2>6, PartialStep
  <2> HIDE DEF next
  <2>a. from + BUFFER_SIZE \in Nat
    BY BoundsAssumption
  <2>b. Len(next) \in Nat
    BY <2>9
  <2>c. Len(next) <= Len(offered)
    BY <2>9 DEF Partial
  <2>10. /\ from + BUFFER_SIZE \in Nat
         /\ Len(next) <= Len(offered) /\ Len(next) \in Nat
    BY <2>a, <2>b, <2>c
  <2>11. Len(next) = IF from + BUFFER_SIZE < Len(offered) THEN from + BUFFER_SIZE ELSE Len(offered)
    BY <2>3, <2>9, <2>10
  <2>12. Offering(down, Len(cfiles[message.name]))'
    <3>1. \/ srv' = "send" /\ sfiles'[fusion'] = offered'
          \/ srv' = "query" /\ pos' >= Len(offered')
      BY <1>2, <2>1, <2>2 DEF Offering
    <3>2. Buffers(offered', down', from + BUFFER_SIZE, pos')
      BY <1>2, <2>1, <2>5
    <3>3. Len(cfiles'[message'.name]) = IF from + BUFFER_SIZE < Len(offered')
                                        THEN from + BUFFER_SIZE ELSE Len(offered')
      BY <2>1, <2>8, <2>11
    <3> QED BY <2>10, <3>1, <3>2, <3>3 DEF Offering
  <2>13. AnswerToDownload'
    BY <2>1, <2>2, <2>8, <2>9, <2>12 DEF AnswerToDownload
  <2> QED BY <1>0, <1>2, <2>1, <2>2, <2>13 DEF Answering
<1>6. CASE ReadEnd
  <2>1. /\ cli = "chunks" /\ crounds = 0 /\ cli' = "prompt" /\ down' = down /\ cfiles' = cfiles
        /\ server' = server /\ up' = up /\ offered' = offered /\ message' = message
    BY <1>6 DEF ReadEnd
  <2> DEFINE part == cfiles[message.name]
  <2>2. /\ requete.op = "D" /\ Partial(part, offered, crounds) /\ Offering(down, Len(part))
    BY <1>0, <1>1, <2>1 DEF AnswerToDownload
  <2>3. part \in Seq(Unit) /\ offered \in Seq(Unit) /\ Len(offered) \in Nat /\ Len(part) \in Nat
    BY <2>1, FilesTyped
  <2>4. ~ (Len(part) < Len(offered)) /\ part = offered
    BY <2>1, <2>2, <2>3, PartialReads
  <2>5. PICK from \in Nat : /\ Len(part) = IF from < Len(offered) THEN from ELSE Len(offered)
                            /\ Buffers(offered, down, from, pos)
    BY <2>2 DEF Offering
  <2>6. from >= Len(offered)
    BY <2>3, <2>4, <2>5
  <2>7. down = <<>> /\ pos = from
    BY <1>0, <2>3, <2>5, <2>6, BuffersOver
  <2>8. \/ srv = "query"
        \/ srv = "send" /\ pos >= Len(sfiles[fusion])
    BY <2>2, <2>6, <2>7 DEF Offering
  <2>9. Uploading'
    BY <1>0, <1>2, <2>1, <2>2, <2>4, <2>7, <2>8, PromptAgain
  <2> QED BY <2>9
<1>7. CASE ReadCount
  <2>1. /\ cli = "count" /\ down # <<>> /\ crounds' = Head(down).n + 1 /\ down' = Tail(down)
        /\ Head(down).k = "size" /\ cli' = "entries" /\ server' = server /\ up' = up
    BY <1>7 DEF ReadCount
  <2>2. requete.op = "L" /\ srv = "query" /\ Len(down) <= Head(down).n + 2
    BY <1>0, <1>1, <2>1 DEF AnswerToList
  <2>3. Head(down).n \in Nat
    BY <1>0, <2>1, TailFacts, KindFacts
  <2>4. Len(Tail(down)) = Len(down) - 1 /\ Len(down) \in Nat
    BY <1>0, <2>1, TailFacts
  <2>5. Len(down') <= crounds'
    BY <2>1, <2>2, <2>3, <2>4
  <2> QED BY <1>0, <1>2, <2>1, <2>2, <2>5 DEF Answering, AnswerToList
<1>8. CASE ReadEntry
  <2>1. /\ cli = "entries" /\ down # <<>> /\ crounds' = crounds - 1 /\ down' = Tail(down)
        /\ cli' = (IF crounds' = 0 THEN "prompt" ELSE "entries") /\ server' = server /\ up' = up
        /\ message' = message
    BY <1>8 DEF ReadEntry
  <2>2. requete.op = "L" /\ srv = "query" /\ Len(down) <= crounds
    BY <1>0, <1>1, <2>1 DEF AnswerToList
  <2>3. crounds \in Nat
    BY DEF SessionTypeOK, ClientTypeOK
  <2>4. Len(Tail(down)) = Len(down) - 1 /\ Len(down) \in Nat \ {0} /\ Tail(down) \in Seq(Written)
    BY <1>0, <2>1, TailFacts
  <2>5. Len(down') <= crounds'
    BY <2>1, <2>2, <2>3, <2>4
  <2>6. CASE crounds' = 0
    <3>1. PICK w : w = Tail(down)
      OBVIOUS
    <3>2. Len(w) = 0 /\ w \in Seq(Written)
      BY <2>1, <2>4, <2>5, <2>6, <3>1
    <3>3. down' = <<>>
      BY <2>1, <3>1, <3>2, LengthFacts
    <3>4. message'.op = "L"
      BY <1>3, <2>1 DEF Asking
    <3>5. Uploading'
      BY <1>0, <1>2, <2>1, <2>2, <2>6, <3>3, <3>4, PromptAgain
    <3> QED BY <3>5
  <2>7. CASE crounds' # 0
    BY <1>0, <1>2, <2>1, <2>2, <2>5, <2>7 DEF Answering, AnswerToList
  <2> QED BY <2>6, <2>7
<1>9. CASE Garble
  <2>1. /\ cli' = cli /\ up' = up /\ server' = server /\ cfiles' = cfiles /\ down' = down
        /\ message' = message /\ csize' = csize /\ offered' = offered /\ crounds' = crounds
    BY <1>9 DEF Garble, client
  <2>2. AnswerToDownload => AnswerToDownload'
    BY <1>2, <2>1 DEF AnswerToDownload, Offering
  <2>3. AnswerToList => AnswerToList'
    BY <1>2, <2>1 DEF AnswerToList
  <2> QED BY <1>b, <1>2, <2>1, <2>2, <2>3 DEF Answering
<1>10. CASE Command \/ SendSize \/ SendChunk \/ SendEnd \/ Quit \/ StatFailure
  BY <1>0, <1>1, <1>10 DEF Command, SendSize, SendChunk, SendEnd, Quit, StatFailure
<1> QED BY <1>4, <1>5, <1>6, <1>7, <1>8, <1>9, <1>10 DEF ClientStep

\* a server that has read one message too many finds no request again: the
\* client waits, or writes after what is not one
LEMMA LostKept ==
  ASSUME SessionTypeOK, SessionTypeOK', Connected, Connected', Lost,
         Traitement_requete \/ ClientStep \/ Command \/ Quit \/ Garble
  PROVE  Lost'
<1>0. /\ srv \in {"receive", "query"} /\ requete.op = "U" /\ ~ Fits(size)
      /\ srv = "receive" => rounds = 0
      /\ down = <<>> /\ Len(<<>>) = 0
      /\ cli \in {"prompt", "stat", "send", "rep", "count"}
      /\ cli = "prompt" => message.op = "U"
      /\ up = <<>> => cli \in {"stat", "rep", "count"}
      /\ up # <<>> => Head(up).k # "query"
  BY DEF Lost
<1>1. up \in Seq(Written)
  BY FilesTyped
<1>2. server' = server =>
        /\ srv' = srv /\ requete' = requete /\ size' = size /\ rounds' = rounds
  BY DEF server
\* the client writes, and is not back at its prompt
<1>3. ASSUME NEW m \in Written, up' = Append(up, m), server' = server, down' = down,
             cli' \in {"stat", "rep", "count", "send"}, up = <<>> => m.k # "query"
      PROVE  Lost'
  <2>1. up' # <<>> /\ (up = <<>> => Head(up') = m)
    BY <1>1, <1>3
  <2>2. up # <<>> => Head(up') = Head(up)
    BY <1>1, <1>3, AppendTail
  <2>3. Head(up').k # "query"
    BY <1>0, <1>3, <2>1, <2>2
  <2> QED BY <1>0, <1>2, <1>3, <2>1, <2>3 DEF Lost
<1>4. CASE Traitement_requete
  <2>1. CASE UploadEnd
    BY <1>0, <2>1 DEF UploadEnd, client, Lost
  <2>2. CASE ReadQuery
    BY <1>0, <2>2 DEF ReadQuery
  <2>3. CASE UploadChunk
    BY <1>0, <2>3 DEF UploadChunk
  <2>4. CASE \/ DownloadMissing \/ DownloadFound \/ DownloadChunk \/ DownloadEnd \/ List
            \/ UploadOpen \/ Killed
    BY <1>0, <2>4 DEF DownloadMissing, DownloadFound, DownloadChunk, DownloadEnd, List,
                      UploadOpen, Killed
  <2> QED BY <1>4, <2>1, <2>2, <2>3, <2>4 DEF Traitement_requete
<1>5. CASE Command
  <2>1. PICK op \in verif_message, f \in Names :
          /\ up' = Append(up, Op(op, f))
          /\ cli' = CASE op = "D" -> "rep" [] op = "L" -> "count" [] op = "U" -> "stat"
    BY <1>5 DEF Command
  <2>2. Op(op, f) \in Written /\ up # <<>> /\ server' = server /\ down' = down
    BY <1>0, <1>5, QueryFacts DEF Command
  <2>3. cli' \in {"stat", "rep", "count", "send"}
    BY <2>1 DEF verif_message
  <2> QED BY <1>3, <2>1, <2>2, <2>3
<1>6. CASE SendSize
  <2>1. PICK n \in Nat : n = Len(cfiles[message.name])
    BY <1>6, FilesTyped DEF SendSize
  <2>2. Size(n) \in Written /\ Size(n).k = "size"
    BY MessageFacts
  <2>3. /\ up' = Append(up, Size(n)) /\ server' = server /\ down' = down /\ cli' = "send"
    BY <1>6, <2>1 DEF SendSize
  <2> QED BY <1>3, <2>2, <2>3
<1>7. CASE SendChunk
  <2>1. cli = "send" /\ cpos < Len(cfiles[message.name])
    BY <1>7 DEF SendChunk
  <2>2. PICK m : m = Data(Chunk(cfiles[message.name], cpos))
    OBVIOUS
  <2>3. cfiles[message.name] \in Seq(Unit) /\ cpos \in Nat
    BY <2>1, FilesTyped
  <2>4. m \in Written
    BY <2>1, <2>2, <2>3, ChunkFacts, MessageFacts
  <2>5. /\ up' = Append(up, m) /\ server' = server /\ down' = down /\ cli' = cli /\ up # <<>>
    BY <1>0, <1>7, <2>1, <2>2 DEF SendChunk
  <2> QED BY <1>3, <2>1, <2>4, <2>5
<1>8. CASE SendEnd
  <2>1. message.op = "U" /\ up # <<>>
    BY <1>0, <1>8 DEF SendEnd, SessionTypeOK, ClientTypeOK, Asking
  <2> QED BY <1>0, <1>2, <1>8, <2>1 DEF SendEnd, Lost
<1>9. CASE Garble
  BY <1>0, <1>2, <1>9 DEF Garble, client, Lost
<1>10. CASE ReadRep \/ ReadCount \/ ReadChunk \/ ReadEnd \/ ReadEntry \/ Quit \/ StatFailure
  BY <1>0, <1>10 DEF ReadRep, ReadCount, ReadChunk, ReadEnd, ReadEntry, Quit, StatFailure, Connected
<1> QED BY <1>4, <1>5, <1>6, <1>7, <1>8, <1>9, <1>10 DEF ClientStep
-----------------------------------------------------------------------------
\* the invariant holds at the beginning of a session
LEMMA SessionInvInit == SessionInit => SessionInv
<1> SUFFICES ASSUME SessionInit PROVE SessionInv
  OBVIOUS
<1>1. SessionTypeOK
  BY SessionTypeInit
<1>2. QueryDue \in Dues /\ Stream(cfiles, <<>>, QueryDue, QueryDue)
  BY DueFacts, StreamEmpty
<1>3. ServerAt(QueryDue) /\ ClientAt(QueryDue)
  BY DEF SessionInit, ServerAt, ClientAt, NoOp, Op
<1>4. Uploading
  BY <1>2, <1>3 DEF SessionInit, Uploading
<1> QED BY <1>1, <1>4 DEF SessionInv

\* and every step keeps it: what is left of it is in the lemmas above
LEMMA SessionInvStep == SessionInv /\ [SessionNext]_session => SessionInv'
<1> SUFFICES ASSUME SessionInv, [SessionNext]_session PROVE SessionInv'
  OBVIOUS
<1>0. SessionTypeOK
  BY DEF SessionInv
<1>1. CASE SessionNext
  <2>1. SessionTypeOK'
    BY <1>0, <1>1, ServerTyped, ClientTyped DEF SessionNext
  <2>2. ASSUME Connected' PROVE (Uploading \/ Answering \/ Lost)'
    <3>1. Connected
      BY <1>1, <2>2 DEF SessionNext, Traitement_requete, ClientStep, Command, Quit, Garble,
         ReadQuery, DownloadMissing, DownloadFound, DownloadChunk, DownloadEnd, List, UploadOpen,
         UploadChunk, UploadEnd, Killed, ReadRep, ReadChunk, ReadEnd, ReadCount, ReadEntry,
         SendSize, StatFailure, SendChunk, SendEnd, client, Connected
    <3>2. CASE Uploading
      BY <1>0, <1>1, <2>1, <2>2, <3>1, <3>2, UploadingServer, UploadingClient DEF SessionNext
    <3>3. CASE Answering
      BY <1>0, <1>1, <2>1, <2>2, <3>1, <3>3, AnsweringServer, AnsweringClient DEF SessionNext
    <3>4. CASE Lost
      BY <1>0, <1>1, <2>1, <2>2, <3>1, <3>4, LostKept DEF SessionNext
    <3> QED BY <3>1, <3>2, <3>3, <3>4 DEF SessionInv
  <2> QED BY <2>1, <2>2 DEF SessionInv
<1>2. CASE UNCHANGED session
  <2>1. /\ program' = program /\ garbled' = garbled /\ up' = up /\ down' = down
        /\ offered' = offered /\ server' = server /\ client' = client
    BY <1>2 DEF session
  <2>2. ServerTypeOK' /\ ClientTypeOK'
    BY <1>0, <2>1 DEF SessionTypeOK, ServerTypeOK, ClientTypeOK, server, client
  <2>3. SessionTypeOK'
    BY <1>0, <2>1, <2>2 DEF SessionTypeOK
  <2>4. Uploading => Uploading'
    <3>1. \A d \in Dues : /\ ServerAt(d) => ServerAt(d)'
                          /\ ClientAt(d) => ClientAt(d)'
      BY <2>1 DEF ServerAt, ClientAt, server, client
    <3>2. cfiles' = cfiles /\ cli' = cli /\ message' = message /\ csize' = csize
      BY <2>1 DEF client
    <3>3. ASSUME Uploading PROVE \E d, e \in Dues : (Stream(cfiles, up, d, e) /\ ServerAt(d) /\ ClientAt(e))'
      BY <2>1, <3>1, <3>2, <3>3 DEF Uploading
    <3> QED BY <2>1, <3>2, <3>3 DEF Uploading
  <2>5. Answering => Answering'
    <3>1. AnswerToDownload => AnswerToDownload'
      BY <2>1 DEF AnswerToDownload, Offering, server, client
    <3>2. AnswerToList => AnswerToList'
      BY <2>1 DEF AnswerToList, server, client
    <3> QED BY <2>1, <3>1, <3>2 DEF Answering, server
  <2>6. Lost => Lost'
    BY <2>1 DEF Lost, server, client
  <2>7. Connected' => Connected
    BY <2>1 DEF Connected, client
  <2> QED BY <2>3, <2>4, <2>5, <2>6, <2>7 DEF SessionInv
<1> QED BY <1>1, <1>2

(* As long as the client is connected and every read takes what one write  *)
(* wrote, what is in the stream to the server is what the server is about  *)
(* to read, or what is in the stream to the client is the answer it waits  *)
(* for, or the server has taken a message too many for the end of a file   *)
(* and never finds a request again: for any files, any buffer and any      *)
(* number of commands (ftpServerThread.c lines 55 to 159, TME08            *)
(* ftpClient.c lines 96 to 178).                                           *)
THEOREM SessionInvariance == SessionSpec => []SessionInv
<1> QED BY SessionInvInit, SessionInvStep, PTL DEF SessionSpec

(* The two streams, the files and the counters keep their types, also      *)
(* after a DOWNLOAD that fails has left its name in the path (line 83),    *)
(* after an UPLOAD has read a request into its file (line 150), and after  *)
(* the client has closed the connection.                                   *)
THEOREM SessionTyping == SessionSpec => []SessionTypeOK
<1>1. SessionInv => SessionTypeOK
  BY DEF SessionInv
<1> QED BY <1>1, SessionInvariance, PTL

(* Whenever the client is back at its prompt the stream to it is empty,    *)
(* and the file it has downloaded is the one the server had opened: for    *)
(* any size and any buffer the size / BUFFER_SIZE + 1 reads of the client  *)
(* (TME08 ftpClient.c lines 134 to 140) are never fewer than the writes of *)
(* the server (ftpServerThread.c lines 94 to 97), as long as no read       *)
(* merges or splits them.                                                  *)
THEOREM DownloadsExact == SessionSpec => []DownloadExact
<1>1. SessionInv => DownloadExact
  BY DEF SessionInv, Connected, Uploading, Answering, Lost, AnswerToDownload, AnswerToList,
     DownloadExact
<1> QED BY <1>1, SessionInvariance, PTL

(* While the client is connected, a server that is back at its request     *)
(* after an UPLOAD has written the file of the client, for any size that   *)
(* is not a multiple of the buffer and whatever commands came before       *)
(* (ftpServerThread.c lines 137 to 155).                                   *)
THEOREM UploadsExact == SessionSpec => []UploadExact
<1>1. SessionInv => UploadExact
  BY DEF SessionInv, Uploading, ServerAt, Answering, Lost, UploadExact
<1> QED BY <1>1, SessionInvariance, PTL
=============================================================================
