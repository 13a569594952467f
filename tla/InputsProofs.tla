---------------------------- MODULE InputsProofs ----------------------------
(***************************************************************************)
(* Proofs about the inputs and the diagnostics, for every number of knobs, *)
(* switches and keys, every phase and detent, every depth of the queue and *)
(* of the ring, and any number of complaints and moves.                    *)
(***************************************************************************)
EXTENDS Inputs, FiniteSetTheorems, SequenceTheorems, WellFoundedInduction, TLAPS

-----------------------------------------------------------------------------
(* Sums.  The library's induction takes an operator: here induction is     *)
(* said of a set, and follows from its least element.                      *)

\* A set of naturals with 0 and every successor is all of them.
LEMMA SetInduction ==
  ASSUME NEW S, 0 \in S, \A n \in Nat : n \in S => n + 1 \in S
  PROVE  Nat \subseteq S
PROOF
<1> DEFINE Out == {n \in Nat : n \notin S}
<1> SUFFICES ASSUME Out # {} PROVE FALSE
  OBVIOUS
<1>1. PICK m \in Out : \A n \in Out : ~(<<n, m>> \in OpToRel(<, Nat))
  BY NatLessThanWellFounded, WFMin, Out \subseteq Nat
<1>2. m \in Nat /\ m # 0 /\ m - 1 \in Nat
  OBVIOUS
<1>3. <<m - 1, m>> \in OpToRel(<, Nat)
  BY <1>2 DEF OpToRel
<1>4. m - 1 \in S
  BY <1>1, <1>2, <1>3
<1> QED
  BY <1>2, <1>4

\* What the recursive definition of a sum says of its function.
IsSum(f, w, n) == f = [i \in 0..n |-> IF i = 0 THEN 0 ELSE f[i - 1] + w[i]]

\* There is such a function, for every length.
LEMMA SumExists ==
  ASSUME NEW w PROVE \A n \in Nat : \E f : IsSum(f, w, n)
PROOF
<1> DEFINE S == {n \in Nat : \E f : IsSum(f, w, n)}
<1>1. 0 \in S
  <2> DEFINE f == [i \in 0..0 |-> 0]
  <2>1. IsSum(f, w, 0)
    BY DEF IsSum
  <2> QED
    BY <2>1
<1>2. ASSUME NEW n \in Nat, n \in S PROVE n + 1 \in S
  <2>1. PICK f : IsSum(f, w, n)
    BY <1>2
  <2> DEFINE g == [i \in 0..(n + 1) |-> IF i = n + 1 THEN f[n] + w[n + 1] ELSE f[i]]
  <2>2. \A i \in 0..n : f[i] = IF i = 0 THEN 0 ELSE f[i - 1] + w[i]
    BY <2>1 DEF IsSum
  <2>3. \A i \in 0..(n + 1) : g[i] = IF i = 0 THEN 0 ELSE g[i - 1] + w[i]
    <3> SUFFICES ASSUME NEW i \in 0..(n + 1) PROVE g[i] = IF i = 0 THEN 0 ELSE g[i - 1] + w[i]
      OBVIOUS
    <3>1. CASE i = n + 1
      BY <3>1
    <3>2. CASE i # n + 1
      <4>1. i \in 0..n
        BY <3>2
      <4> QED
        BY <4>1, <2>2
    <3> QED
      BY <3>1, <3>2
  <2>4. IsSum(g, w, n + 1)
    BY <2>3 DEF IsSum
  <2> QED
    BY <2>4
<1> HIDE DEF S
<1>3. Nat \subseteq S
  BY <1>1, <1>2, SetInduction
<1> QED
  BY <1>3 DEF S

\* Two of them agree as far as both go, whatever they sum beyond.
LEMMA SumUnique ==
  ASSUME NEW w, NEW f, NEW g, NEW n \in Nat, NEW m \in Nat, n <= m,
         IsSum(f, w, n), IsSum(g, w, m)
  PROVE  \A i \in 0..n : f[i] = g[i]
PROOF
<1> DEFINE S == {i \in Nat : i <= n => f[i] = g[i]}
<1>1. /\ \A i \in 0..n : f[i] = IF i = 0 THEN 0 ELSE f[i - 1] + w[i]
      /\ \A i \in 0..m : g[i] = IF i = 0 THEN 0 ELSE g[i - 1] + w[i]
  BY DEF IsSum
<1>2. 0 \in S
  BY <1>1
<1>3. ASSUME NEW i \in Nat, i \in S PROVE i + 1 \in S
  <2> SUFFICES ASSUME i + 1 <= n PROVE f[i + 1] = g[i + 1]
    OBVIOUS
  <2>1. i + 1 \in 0..n /\ i + 1 \in 0..m /\ i + 1 # 0 /\ (i + 1) - 1 = i /\ f[i] = g[i]
    BY <1>3
  <2>2. f[i + 1] = f[(i + 1) - 1] + w[i + 1] /\ g[i + 1] = g[(i + 1) - 1] + w[i + 1]
    BY <1>1, <2>1
  <2> QED
    BY <2>1, <2>2
<1> HIDE DEF S
<1>4. Nat \subseteq S
  BY <1>2, <1>3, SetInduction
<1> QED
  BY <1>4 DEF S

\* A sum is nothing at first and grows by one summand at a time.
LEMMA SumGrows ==
  ASSUME NEW w, NEW n \in Nat
  PROVE  SumTo(w, 0) = 0 /\ SumTo(w, n + 1) = SumTo(w, n) + w[n + 1]
PROOF
<1>1. \A m \in Nat : \E f : IsSum(f, w, m) /\ SumTo(w, m) = f[m]
  BY SumExists DEF IsSum, SumTo
<1>2. PICK z : IsSum(z, w, 0) /\ SumTo(w, 0) = z[0]
  BY <1>1
<1>3. PICK f : IsSum(f, w, n) /\ SumTo(w, n) = f[n]
  BY <1>1
<1>4. PICK g : IsSum(g, w, n + 1) /\ SumTo(w, n + 1) = g[n + 1]
  BY <1>1
<1>5. z[0] = 0
  BY <1>2 DEF IsSum
<1>6. f[n] = g[n]
  BY <1>3, <1>4, SumUnique
<1>7. g[n + 1] = g[n] + w[n + 1]
  <2>1. \A i \in 0..(n + 1) : g[i] = IF i = 0 THEN 0 ELSE g[i - 1] + w[i]
    BY <1>4 DEF IsSum
  <2>2. n + 1 \in 0..(n + 1) /\ n + 1 # 0 /\ (n + 1) - 1 = n
    OBVIOUS
  <2> QED
    BY <2>1, <2>2
<1> QED
  BY <1>2, <1>3, <1>4, <1>5, <1>6, <1>7

\* A sum of naturals is one, a sum of integers is one.
LEMMA SumTyped ==
  ASSUME NEW w, NEW n \in Nat, \A i \in 1..n : w[i] \in Int
  PROVE  SumTo(w, n) \in Int /\ ((\A i \in 1..n : w[i] \in Nat) => SumTo(w, n) \in Nat)
PROOF
<1> DEFINE S == {k \in Nat : k <= n => /\ SumTo(w, k) \in Int
                                       /\ (\A i \in 1..n : w[i] \in Nat) => SumTo(w, k) \in Nat}
<1>1. 0 \in S
  BY SumGrows
<1>2. ASSUME NEW k \in Nat, k \in S PROVE k + 1 \in S
  <2> SUFFICES ASSUME k + 1 <= n
               PROVE  /\ SumTo(w, k + 1) \in Int
                      /\ (\A i \in 1..n : w[i] \in Nat) => SumTo(w, k + 1) \in Nat
    OBVIOUS
  <2>1. SumTo(w, k + 1) = SumTo(w, k) + w[k + 1]
    BY SumGrows
  <2>2. k + 1 \in 1..n /\ SumTo(w, k) \in Int /\ w[k + 1] \in Int
    BY <1>2
  <2>3. (\A i \in 1..n : w[i] \in Nat) => SumTo(w, k) \in Nat /\ w[k + 1] \in Nat
    BY <1>2, <2>2
  <2> QED
    BY <2>1, <2>2, <2>3
<1> HIDE DEF S
<1>3. Nat \subseteq S
  BY <1>1, <1>2, SetInduction
<1> QED
  BY <1>3 DEF S

\* u is w to n and then v to m.
Joined(u, l, w, n, v, m) ==
  /\ n \in Nat /\ m \in Nat /\ l = n + m
  /\ \A i \in 1..n : w[i] \in Int /\ u[i] = w[i]
  /\ \A i \in 1..m : v[i] \in Int /\ u[n + i] = v[i]

\* The sum of two stretches, one after the other.
LEMMA SumJoins ==
  ASSUME NEW w, NEW v, NEW u, NEW n, NEW m, NEW l, Joined(u, l, w, n, v, m)
  PROVE  SumTo(u, l) = SumTo(w, n) + SumTo(v, m)
PROOF
<1> USE DEF Joined
<1> DEFINE Same == {k \in Nat : k <= n => SumTo(u, k) = SumTo(w, k)}
           Both == {k \in Nat : k <= m => SumTo(u, n + k) = SumTo(w, n) + SumTo(v, k)}
<1>1. 0 \in Same
  BY SumGrows
<1>2. ASSUME NEW k \in Nat, k \in Same PROVE k + 1 \in Same
  <2>1. SumTo(u, k + 1) = SumTo(u, k) + u[k + 1] /\ SumTo(w, k + 1) = SumTo(w, k) + w[k + 1]
    BY SumGrows
  <2>2. k + 1 <= n => k + 1 \in 1..n
    OBVIOUS
  <2> QED
    BY <1>2, <2>1, <2>2
<1>3. n \in Same
  <2> HIDE DEF Same
  <2> QED
    BY <1>1, <1>2, SetInduction
<1>4. SumTo(w, n) \in Int
  BY SumTyped
<1>5. 0 \in Both
  BY <1>3, <1>4, SumGrows
<1>6. ASSUME NEW k \in Nat, k \in Both PROVE k + 1 \in Both
  <2> SUFFICES ASSUME k + 1 <= m
               PROVE  SumTo(u, n + (k + 1)) = SumTo(w, n) + SumTo(v, k + 1)
    OBVIOUS
  <2>1. PICK h \in Nat : h = n + k
    OBVIOUS
  <2>2. SumTo(u, h + 1) = SumTo(u, h) + u[h + 1] /\ SumTo(v, k + 1) = SumTo(v, k) + v[k + 1]
    BY SumGrows
  <2>3. k + 1 \in 1..m /\ h + 1 = n + (k + 1) /\ u[h + 1] = v[k + 1] /\ v[k + 1] \in Int
    BY <2>1
  <2>4. SumTo(v, k) \in Int
    <3>1. \A i \in 1..k : v[i] \in Int
      OBVIOUS
    <3> QED
      BY <3>1, SumTyped
  <2>5. SumTo(u, h) = SumTo(w, n) + SumTo(v, k)
    BY <1>6, <2>1
  <2> QED
    BY <1>4, <2>2, <2>3, <2>4, <2>5
<1>7. m \in Both
  <2> HIDE DEF Both
  <2> QED
    BY <1>5, <1>6, SetInduction
<1> QED
  BY <1>7

\* Equal summands, equal sums.
LEMMA SumAgrees ==
  ASSUME NEW w, NEW u, NEW n \in Nat, \A i \in 1..n : w[i] \in Int /\ u[i] = w[i]
  PROVE  SumTo(u, n) = SumTo(w, n)
PROOF
<1>0. Joined(u, n, w, n, w, 0)
  BY DEF Joined
<1>1. SumTo(u, n) = SumTo(w, n) + SumTo(w, 0)
  BY <1>0, SumJoins
<1>2. SumTo(w, 0) = 0 /\ SumTo(w, n) \in Int
  BY SumGrows, SumTyped
<1> QED
  BY <1>1, <1>2

\* One summand greater by one, and the sum is.
LEMMA SumBumps ==
  ASSUME NEW w, NEW u, NEW n \in Nat, NEW k \in 1..n,
         \A i \in 1..n : w[i] \in Int /\ u[i] = IF i = k THEN w[i] + 1 ELSE w[i]
  PROVE  SumTo(u, n) = SumTo(w, n) + 1
PROOF
<1> DEFINE S == {j \in Nat : j <= n => SumTo(u, j) = SumTo(w, j) + (IF k <= j THEN 1 ELSE 0)}
<1>1. 0 \in S
  BY SumGrows
<1>2. ASSUME NEW j \in Nat, j \in S PROVE j + 1 \in S
  <2> SUFFICES ASSUME j + 1 <= n
               PROVE  SumTo(u, j + 1) = SumTo(w, j + 1) + (IF k <= j + 1 THEN 1 ELSE 0)
    OBVIOUS
  <2>1. SumTo(u, j + 1) = SumTo(u, j) + u[j + 1] /\ SumTo(w, j + 1) = SumTo(w, j) + w[j + 1]
    BY SumGrows
  <2>2. j + 1 \in 1..n /\ w[j + 1] \in Int
    OBVIOUS
  <2>3. SumTo(w, j) \in Int
    <3>1. \A i \in 1..j : w[i] \in Int
      OBVIOUS
    <3> QED
      BY <3>1, SumTyped
  <2>4. SumTo(u, j) = SumTo(w, j) + (IF k <= j THEN 1 ELSE 0)
    BY <1>2
  <2>5. u[j + 1] = IF j + 1 = k THEN w[j + 1] + 1 ELSE w[j + 1]
    BY <2>2
  <2> QED
    BY <2>1, <2>2, <2>3, <2>4, <2>5
<1>3. n \in S
  <2> HIDE DEF S
  <2> QED
    BY <1>1, <1>2, SetInduction
<1> QED
  BY <1>3

-----------------------------------------------------------------------------
(* Diagnostics. *)

Message == [code : Codes \union {Overflow, Other}, count : Nat]
Messages == Seq(Message)

\* The slots hold one code each.
OneSlotEach == \A i, j \in DOMAIN slots : slots[i].code = slots[j].code => i = j

DiagInv ==
  /\ slots \in Messages /\ control \in Messages /\ overflowed \in Nat
  /\ owed \in Nat /\ told \in Nat /\ missed \in Nat
  /\ Len(control) <= ControlDepth
  /\ OneSlotEach
  /\ ComplaintsAreAccounted

\* A message in a queue is one.
LEMMA InMessages ==
  ASSUME NEW a \in Messages
  PROVE  /\ Len(a) \in Nat /\ DOMAIN a = 1..Len(a)
         /\ \A i \in 1..Len(a) : a[i] \in Message /\ a[i].count \in Nat
PROOF
<1>1. Len(a) \in Nat /\ DOMAIN a = 1..Len(a) /\ \A i \in 1..Len(a) : a[i] \in Message
  BY DEF Messages
<1>2. \A x \in Message : x.count \in Nat
  BY DEF Message
<1> QED
  BY <1>1, <1>2

\* What the messages of a queue count.
LEMMA TotalTyped ==
  ASSUME NEW a \in Messages
  PROVE  Total(a) \in Nat
PROOF
<1> DEFINE w == [i \in DOMAIN a |-> a[i].count]
<1>1. Len(a) \in Nat /\ \A i \in 1..Len(a) : w[i] \in Nat
  BY InMessages
<1> HIDE DEF w
<1>2. SumTo(w, Len(a)) \in Nat
  BY <1>1, SumTyped
<1> QED
  BY <1>2 DEF Total, w

\* Of none.
LEMMA TotalOfNone == Total(<<>>) = 0
PROOF
<1> DEFINE w == [i \in DOMAIN <<>> |-> <<>>[i].count]
<1> HIDE DEF w
<1>1. SumTo(w, 0) = 0
  BY SumGrows
<1>2. Len(<<>>) = 0
  OBVIOUS
<1> QED
  BY <1>1, <1>2 DEF Total, w

\* Of two queues, one after the other.
LEMMA TotalJoins ==
  ASSUME NEW a \in Messages, NEW b \in Messages
  PROVE  a \o b \in Messages /\ Total(a \o b) = Total(a) + Total(b)
PROOF
<1> DEFINE w == [i \in DOMAIN a |-> a[i].count]
           v == [i \in DOMAIN b |-> b[i].count]
           u == [i \in DOMAIN (a \o b) |-> (a \o b)[i].count]
<1>1. a \o b \in Messages
  BY ConcatProperties DEF Messages
<1>2. /\ Len(a \o b) = Len(a) + Len(b)
      /\ \A i \in 1..Len(a) : (a \o b)[i] = a[i]
      /\ \A i \in 1..Len(b) : (a \o b)[Len(a) + i] = b[i]
  BY DEF Messages
<1>3. /\ Len(a) \in Nat /\ DOMAIN a = 1..Len(a) /\ \A i \in 1..Len(a) : a[i].count \in Nat
      /\ Len(b) \in Nat /\ DOMAIN b = 1..Len(b) /\ \A i \in 1..Len(b) : b[i].count \in Nat
  BY InMessages
<1>4. DOMAIN (a \o b) = 1..Len(a \o b)
  BY <1>1, InMessages
<1>5. \A i \in 1..Len(a) : w[i] \in Int /\ u[i] = w[i]
  <2>1. \A i \in 1..Len(a) : i \in DOMAIN a /\ i \in DOMAIN (a \o b)
    BY <1>2, <1>3, <1>4
  <2> QED
    BY <2>1, <1>2, <1>3
<1>6. \A i \in 1..Len(b) : v[i] \in Int /\ u[Len(a) + i] = v[i]
  <2>1. \A i \in 1..Len(b) : i \in DOMAIN b /\ Len(a) + i \in DOMAIN (a \o b)
    BY <1>2, <1>3, <1>4
  <2> QED
    BY <2>1, <1>2, <1>3
<1> HIDE DEF w, v, u
<1>7. Joined(u, Len(a \o b), w, Len(a), v, Len(b))
  BY <1>2, <1>3, <1>5, <1>6 DEF Joined
<1>9. SumTo(u, Len(a \o b)) = SumTo(w, Len(a)) + SumTo(v, Len(b))
  BY <1>7, SumJoins
<1> QED
  BY <1>1, <1>9 DEF Total, w, v, u

\* Of one message.
LEMMA TotalOfOne ==
  ASSUME NEW x \in Message
  PROVE  <<x>> \in Messages /\ Len(<<x>>) = 1 /\ Total(<<x>>) = x.count
PROOF
<1> DEFINE a == <<x>>
           w == [i \in DOMAIN a |-> a[i].count]
<1>1. w[1] = x.count /\ Len(a) = 1 /\ a \in Messages /\ x.count \in Nat
  BY DEF Messages, Message
<1> HIDE DEF w
<1>2. SumTo(w, 0) = 0 /\ SumTo(w, 0 + 1) = SumTo(w, 0) + w[0 + 1]
  BY SumGrows
<1>3. SumTo(w, 1) = x.count
  BY <1>1, <1>2
<1> QED
  BY <1>1, <1>3 DEF Total, w

\* Of a queue cut in two.
LEMMA TotalSplits ==
  ASSUME NEW a \in Messages, NEW n \in 0..Len(a)
  PROVE  /\ SubSeq(a, 1, n) \in Messages /\ SubSeq(a, n + 1, Len(a)) \in Messages
         /\ Len(SubSeq(a, 1, n)) = n /\ Len(SubSeq(a, n + 1, Len(a))) = Len(a) - n
         /\ a = SubSeq(a, 1, n) \o SubSeq(a, n + 1, Len(a))
         /\ Total(a) = Total(SubSeq(a, 1, n)) + Total(SubSeq(a, n + 1, Len(a)))
PROOF
<1> DEFINE b == SubSeq(a, 1, n)
           c == SubSeq(a, n + 1, Len(a))
<1>1. Len(a) \in Nat /\ DOMAIN a = 1..Len(a) /\ \A i \in 1..Len(a) : a[i] \in Message
  BY InMessages
<1>2. b = [i \in 1..n |-> a[i]] /\ b \in Seq(Message) /\ Len(b) = n
  BY <1>1, SubSeqProperties DEF Messages
<1>3. c \in Seq(Message) /\ Len(c) = Len(a) - n /\ \A i \in 1..(Len(a) - n) : c[i] = a[n + i]
  <2>0. n + 1 \in Int /\ Len(a) \in Int /\ n \in Int
    BY <1>1
  <2>1. PICK k \in Int, l \in Int : k = n + 1 /\ l = Len(a)
    BY <2>0, Zenon
  <2>2. \A i \in k..l : a[i] \in Message
    BY <2>1, <1>1
  <2>3. /\ SubSeq(a, k, l) \in Seq(Message)
        /\ Len(SubSeq(a, k, l)) = IF k <= l THEN l - k + 1 ELSE 0
        /\ \A i \in 1..l - k + 1 : SubSeq(a, k, l)[i] = a[k + i - 1]
    BY <2>1, <2>2, SubSeqProperties
  <2>4. \A i \in 1..(Len(a) - n) : i \in 1..l - k + 1 /\ k + i - 1 = n + i
    BY <2>1, <1>1
  <2>5. (IF k <= l THEN l - k + 1 ELSE 0) = Len(a) - n /\ c = SubSeq(a, k, l)
    BY <2>1, <1>1
  <2> HIDE DEF c
  <2> QED
    BY <2>3, <2>4, <2>5
<1>4. a = b \o c
  <2> HIDE DEF b, c
  <2>1. /\ b \o c \in Seq(Message) /\ Len(b \o c) = Len(b) + Len(c)
        /\ \A i \in 1 .. Len(b) + Len(c) : (b \o c)[i] = IF i <= Len(b) THEN b[i] ELSE c[i - Len(b)]
    BY <1>2, <1>3, ConcatProperties
  <2>2. Len(b \o c) = Len(a)
    BY <2>1, <1>1, <1>2, <1>3
  <2>3. \A i \in 1..Len(a) : (b \o c)[i] = a[i]
    <3> SUFFICES ASSUME NEW i \in 1..Len(a) PROVE (b \o c)[i] = a[i]
      OBVIOUS
    <3>1. CASE i <= n
      BY <3>1, <2>1, <1>1, <1>2, <1>3
    <3>2. CASE ~(i <= n)
      <4>1. PICK j \in 1..(Len(a) - n) : j = i - n
        BY <3>2, <1>1
      <4>2. (b \o c)[i] = c[j]
        BY <2>1, <1>1, <1>2, <1>3, <3>2, <4>1
      <4>3. c[j] = a[n + j] /\ n + j = i
        BY <1>1, <1>3, <4>1
      <4> QED
        BY <4>2, <4>3
    <3> QED
      BY <3>1, <3>2
  <2>4. a \in Seq(Message)
    BY DEF Messages
  <2> QED
    BY <2>1, <2>2, <2>3, <2>4, SeqEqual
<1> HIDE DEF b, c
<1>5. b \in Messages /\ c \in Messages
  BY <1>2, <1>3 DEF Messages
<1>6. Total(a) = Total(b) + Total(c)
  BY <1>4, <1>5, TotalJoins
<1> QED
  BY <1>2, <1>3, <1>4, <1>5, <1>6 DEF b, c

\* What all that waits to be reported counts.
LEMMA ReportsCount ==
  ASSUME NEW a \in Messages, NEW o \in Nat
  PROVE  LET r == a \o (IF o = 0 THEN <<>> ELSE <<[code |-> Overflow, count |-> o]>>)
         IN  r \in Messages /\ Total(r) = Total(a) + o
PROOF
<1>1. <<>> \in Messages /\ Total(<<>>) = 0 /\ Total(a) \in Nat
  BY TotalOfNone, TotalTyped DEF Messages
<1> DEFINE x == [code |-> Overflow, count |-> o]
<1>2. x \in Message /\ x.count = o
  BY DEF Message
<1> HIDE DEF x
<1>3. <<x>> \in Messages /\ Total(<<x>>) = o
  BY <1>2, TotalOfOne
<1>4. CASE o = 0
  <2>1. a \o <<>> \in Messages /\ Total(a \o <<>>) = Total(a) + Total(<<>>)
    BY <1>1, TotalJoins
  <2> QED
    BY <1>1, <1>4, <2>1
<1>5. CASE o # 0
  <2>1. a \o <<x>> \in Messages /\ Total(a \o <<x>>) = Total(a) + Total(<<x>>)
    BY <1>3, TotalJoins
  <2> QED
    BY <1>3, <1>5, <2>1 DEF x
<1> QED
  BY <1>4, <1>5

\* A complaint is counted, in a slot or as lost.
LEMMA EmpDiagCounts ==
  ASSUME slots \in Messages, overflowed \in Nat, OneSlotEach,
         NEW code \in Codes, EmpDiag(code)
  PROVE  /\ slots' \in Messages /\ overflowed' \in Nat /\ OneSlotEach'
         /\ Total(Reports)' = Total(Reports) + 1
PROOF
<1>1. /\ Len(slots) \in Nat /\ DOMAIN slots = 1..Len(slots)
      /\ \A i \in 1..Len(slots) : slots[i] \in Message /\ slots[i].count \in Nat
      /\ Total(slots) \in Nat
  BY InMessages, TotalTyped
<1>2. /\ Total(Reports) = Total(slots) + overflowed
  BY ReportsCount DEF Reports
<1>3. ASSUME slots' \in Messages, overflowed' \in Nat
      PROVE  Total(Reports)' = Total(slots') + overflowed'
  BY <1>3, ReportsCount DEF Reports
<1>4. CASE Held(code) # {} /\ slots' = Counted(code) /\ UNCHANGED overflowed
  <2>1. PICK k \in 1..Len(slots) : k \in Held(code) /\ slots[k].code = code
    BY <1>1, <1>4 DEF Held
  <2>2. \A i \in 1..Len(slots) : i \in Held(code) <=> i = k
    BY <1>1, <2>1 DEF Held, OneSlotEach
  <2>3. slots' = [i \in 1..Len(slots) |-> IF i = k THEN [slots[i] EXCEPT !.count = @ + 1] ELSE slots[i]]
    BY <1>1, <1>4, <2>2 DEF Counted
  <2>4. \A x \in Message : /\ [x EXCEPT !.count = @ + 1] \in Message
                           /\ [x EXCEPT !.count = @ + 1].code = x.code
                           /\ [x EXCEPT !.count = @ + 1].count = x.count + 1
    BY DEF Message
  <2>5. \A i \in 1..Len(slots) : /\ slots'[i] \in Message
                                 /\ slots'[i].code = slots[i].code
                                 /\ slots'[i].count = IF i = k THEN slots[i].count + 1
                                                      ELSE slots[i].count
    BY <1>1, <2>3, <2>4
  <2>6. slots' \in Messages /\ Len(slots') = Len(slots) /\ DOMAIN slots' = 1..Len(slots)
    BY <1>1, <2>3, <2>5 DEF Messages
  <2>7. OneSlotEach'
    BY <1>1, <2>5, <2>6 DEF OneSlotEach
  <2>8. Total(slots') = Total(slots) + 1
    <3> DEFINE w == [i \in DOMAIN slots |-> slots[i].count]
               u == [i \in DOMAIN slots' |-> slots'[i].count]
    <3>1. \A i \in 1..Len(slots) : w[i] \in Int /\ u[i] = IF i = k THEN w[i] + 1 ELSE w[i]
      BY <1>1, <2>5, <2>6
    <3> HIDE DEF w, u
    <3>2. SumTo(u, Len(slots)) = SumTo(w, Len(slots)) + 1
      BY <1>1, <3>1, SumBumps
    <3> QED
      BY <2>6, <3>2 DEF Total, w, u
  <2> QED
    BY <1>1, <1>2, <1>3, <1>4, <2>6, <2>7, <2>8
<1>5. CASE /\ Held(code) = {} /\ Len(slots) < DiagSlots
           /\ slots' = Append(slots, [code |-> code, count |-> 1])
           /\ UNCHANGED overflowed
  <2> DEFINE x == [code |-> code, count |-> 1]
  <2>1. x \in Message /\ x.count = 1 /\ x.code = code
    BY DEF Message
  <2> HIDE DEF x
  <2>2. slots' = slots \o <<x>>
    BY <1>5, <2>1 DEF x, Messages
  <2>3. <<x>> \in Messages /\ Total(<<x>>) = 1
    BY <2>1, TotalOfOne
  <2>4. slots' \in Messages /\ Total(slots') = Total(slots) + 1
    BY <2>2, <2>3, TotalJoins
  <2>5. OneSlotEach'
    <3>1. /\ Len(slots') = Len(slots) + 1 /\ DOMAIN slots' = 1..(Len(slots) + 1)
          /\ \A i \in 1..Len(slots) : slots'[i] = slots[i]
          /\ slots'[Len(slots) + 1] = x
      BY <1>5 DEF x, Messages
    <3>2. \A i \in 1..Len(slots) : slots[i].code # code
      BY <1>1, <1>5 DEF Held
    <3> QED
      BY <1>1, <2>1, <3>1, <3>2 DEF OneSlotEach
  <2> QED
    BY <1>1, <1>2, <1>3, <1>5, <2>4, <2>5
<1>6. CASE /\ Held(code) = {} /\ Len(slots) = DiagSlots
           /\ overflowed' = overflowed + 1
           /\ UNCHANGED slots
  <2>1. OneSlotEach'
    BY <1>6 DEF OneSlotEach
  <2> QED
    BY <1>1, <1>2, <1>3, <1>6, <2>1
<1> QED
  BY <1>4, <1>5, <1>6 DEF EmpDiag

\* The ring takes what has room; nothing is counted twice, and nothing not at all.
LEMMA PushControlCounts ==
  ASSUME control \in Messages, Len(control) <= ControlDepth, NEW a \in Messages
  PROVE  /\ Accepted(a) \in Messages /\ Len(Accepted(a)) <= ControlDepth
         /\ Refused(a) \in Messages
         /\ Total(Accepted(a)) + Total(Refused(a)) = Total(control) + Total(a)
PROOF
<1>1. Fitting(a) \in 0..Len(a) /\ Len(control) + Fitting(a) <= ControlDepth
  BY InMessages, DiagSizes DEF Fitting
<1> DEFINE b == SubSeq(a, 1, Fitting(a))
<1>2. /\ b \in Messages /\ Refused(a) \in Messages
      /\ Total(a) = Total(b) + Total(Refused(a)) /\ Len(b) = Fitting(a)
  BY <1>1, TotalSplits DEF Refused
<1> HIDE DEF b
<1>3. Accepted(a) = control \o b
  BY DEF Accepted, b
<1>4. /\ control \o b \in Messages /\ Total(control \o b) = Total(control) + Total(b)
  BY <1>2, TotalJoins
<1>5. Len(control \o b) = Len(control) + Len(b)
  BY <1>2, ConcatProperties DEF Messages
<1>6. Total(control) \in Nat /\ Total(b) \in Nat /\ Total(Refused(a)) \in Nat
  BY <1>2, TotalTyped
<1> QED
  BY <1>1, <1>2, <1>3, <1>4, <1>5, <1>6

-----------------------------------------------------------------------------
(* The steps that only the diagnostics take. *)

\* Nothing is owed before anything happened.
LEMMA DiagStarts == ASSUME DiagInit PROVE DiagInv
PROOF
<1>1. <<>> \in Messages /\ Total(<<>>) = 0 /\ Len(<<>>) = 0
  BY TotalOfNone DEF Messages
<1>2. Total(Reports) = Total(slots) + overflowed
  BY <1>1, ReportsCount DEF DiagInit, Reports
<1>3. OneSlotEach
  BY DEF DiagInit, OneSlotEach
<1> QED
  BY <1>1, <1>2, <1>3, DiagSizes DEF DiagInit, DiagInv, ComplaintsAreAccounted

\* What counts of the slots and what of the ring.
LEMMA DiagCounts ==
  ASSUME DiagInv
  PROVE  /\ Reports \in Messages /\ Total(Reports) \in Nat /\ Total(control) \in Nat
         /\ owed = told + Total(Reports) + Total(control) + missed
PROOF
<1>1. Reports \in Messages
  BY ReportsCount DEF DiagInv, Reports
<1> QED
  BY <1>1, TotalTyped DEF DiagInv, ComplaintsAreAccounted

\* A complaint that was owed is accounted for.
LEMMA ComplaintAccounted ==
  ASSUME DiagInv, NEW code \in Codes, Owed, EmpDiag(code), UNCHANGED ring
  PROVE  DiagInv'
PROOF
<1>1. /\ slots' \in Messages /\ overflowed' \in Nat /\ OneSlotEach'
      /\ Total(Reports)' = Total(Reports) + 1
  BY EmpDiagCounts DEF DiagInv
<1>2. UNCHANGED <<control, told, missed>> /\ owed' = owed + 1
  BY DEF ring, Owed
<1>3. owed = told + Total(Reports) + Total(control) + missed
  BY DEF DiagInv, ComplaintsAreAccounted
<1>4. Total(Reports) \in Nat /\ Total(control) \in Nat
  BY DiagCounts
<1>5. ComplaintsAreAccounted'
  BY <1>1, <1>2, <1>3, <1>4 DEF DiagInv, ComplaintsAreAccounted
<1> QED
  BY <1>1, <1>2, <1>5 DEF DiagInv

\* Another message on the channel counts nothing.
LEMMA SayKeeps == ASSUME DiagInv, Say PROVE DiagInv'
PROOF
<1> DEFINE x == [code |-> Other, count |-> 0]
<1>1. x \in Message /\ x.count = 0 /\ Another = <<x>>
  BY DEF Message, Another
<1> HIDE DEF x
<1>2. Another \in Messages /\ Total(Another) = 0
  BY <1>1, TotalOfOne
<1>3. /\ Accepted(Another) \in Messages /\ Len(Accepted(Another)) <= ControlDepth
      /\ Refused(Another) \in Messages
      /\ Total(Accepted(Another)) + Total(Refused(Another)) = Total(control)
  BY <1>2, PushControlCounts, DiagCounts DEF DiagInv
<1>4. Total(Refused(Another)) = 0
  <2>1. Total(SubSeq(Another, 1, Fitting(Another))) + Total(Refused(Another)) = 0
    <3>1. Fitting(Another) \in 0..Len(Another)
      BY <1>2, InMessages, DiagSizes DEF Fitting, DiagInv
    <3> QED
      BY <1>2, <3>1, TotalSplits DEF Refused
  <2>2. SubSeq(Another, 1, Fitting(Another)) \in Messages
    <3>1. Fitting(Another) \in 0..Len(Another)
      BY <1>2, InMessages, DiagSizes DEF Fitting, DiagInv
    <3> QED
      BY <1>2, <3>1, TotalSplits
  <2> QED
    BY <1>3, <2>1, <2>2, TotalTyped
<1>5. control' = Accepted(Another) /\ UNCHANGED <<slots, overflowed, owed, told, missed>>
  BY DEF Say, complaints
<1>6. Total(control') = Total(control)
  BY <1>3, <1>4, <1>5, TotalTyped
<1>7. Total(Reports)' = Total(Reports) /\ OneSlotEach'
  BY <1>5 DEF Reports, OneSlotEach, DiagInv
<1> QED
  BY <1>3, <1>5, <1>6, <1>7 DEF DiagInv, ComplaintsAreAccounted

\* With the slots forgotten there is nothing to report.
LEMMA Forgotten == ASSUME Forget PROVE Total(Reports)' = 0 /\ OneSlotEach' /\ slots' \in Messages
PROOF
<1>1. <<>> \in Messages /\ Total(<<>>) = 0
  BY TotalOfNone DEF Messages
<1>2. Total(slots' \o (IF overflowed' = 0 THEN <<>> ELSE <<[code |-> Overflow, count |-> overflowed']>>))
        = Total(slots') + overflowed'
  BY <1>1, ReportsCount DEF Forget
<1> QED
  BY <1>1, <1>2 DEF Forget, Reports, OneSlotEach

\* A visit: what was reported is told, waits in the ring or was refused.
LEMMA VisitKeeps == ASSUME DiagInv, NEW n \in 0..ControlDepth, Visit(n) PROVE DiagInv'
PROOF
<1> DEFINE q == Accepted(Reports)
<1>1. /\ q \in Messages /\ Len(q) <= ControlDepth /\ Refused(Reports) \in Messages
      /\ Total(q) + Total(Refused(Reports)) = Total(control) + Total(Reports)
  BY PushControlCounts, DiagCounts DEF DiagInv
<1>2. /\ Forget /\ n <= Len(q)
      /\ control' = SubSeq(q, n + 1, Len(q))
      /\ told' = told + Total(SubSeq(q, 1, n))
      /\ missed' = missed + Total(Refused(Reports)) /\ UNCHANGED owed
  BY DEF Visit
<1> HIDE DEF q
<1>3. n \in 0..Len(q) /\ Len(q) \in Nat
  BY <1>1, <1>2, InMessages
<1>4. /\ SubSeq(q, 1, n) \in Messages /\ control' \in Messages
      /\ Total(q) = Total(SubSeq(q, 1, n)) + Total(control')
      /\ Len(control') = Len(q) - n
  BY <1>1, <1>2, <1>3, TotalSplits
<1>5. /\ Total(SubSeq(q, 1, n)) \in Nat /\ Total(control') \in Nat
      /\ Total(Refused(Reports)) \in Nat /\ Total(q) \in Nat
  BY <1>1, <1>4, TotalTyped
<1>6. Total(Reports)' = 0 /\ OneSlotEach' /\ slots' \in Messages /\ overflowed' = 0
  BY <1>2, Forgotten DEF Forget
<1>7. owed = told + Total(Reports) + Total(control) + missed
  BY DiagCounts
<1>8. owed \in Nat /\ told \in Nat /\ missed \in Nat /\ Total(Reports) \in Nat /\ Total(control) \in Nat
  BY DiagCounts DEF DiagInv
<1>9. owed' = told' + Total(control') + missed' /\ told' \in Nat /\ missed' \in Nat /\ owed' \in Nat
  <2>1. told' = told + Total(SubSeq(q, 1, n)) /\ missed' = missed + Total(Refused(Reports)) /\ owed' = owed
    BY <1>2
  <2>2. Total(SubSeq(q, 1, n)) + Total(control') + Total(Refused(Reports)) = Total(control) + Total(Reports)
    BY <1>1, <1>4, <1>5, <1>8
  <2> QED
    BY <2>1, <2>2, <1>5, <1>7, <1>8
<1>10. Len(control') <= ControlDepth
  BY <1>1, <1>3, <1>4, DiagSizes
<1> QED
  <2>1. ComplaintsAreAccounted'
    BY <1>5, <1>6, <1>9 DEF ComplaintsAreAccounted
  <2> QED
    BY <1>4, <1>6, <1>9, <1>10, <2>1 DEF DiagInv

\* With the host gone all that waited is missed.
LEMMA DropPendingKeeps == ASSUME DiagInv, DropPending PROVE DiagInv'
PROOF
<1>1. Forget /\ control' = <<>>
  BY DEF DropPending
<1>2. Total(Reports)' = 0 /\ OneSlotEach' /\ slots' \in Messages /\ overflowed' = 0
  BY <1>1, Forgotten DEF Forget
<1>3. control' \in Messages /\ Len(control') = 0 /\ Total(control') = 0
  BY <1>1, TotalOfNone DEF Messages
<1>4. owed = told + Total(Reports) + Total(control) + missed
  BY DiagCounts
<1>5. owed \in Nat /\ told \in Nat /\ missed \in Nat /\ Total(Reports) \in Nat /\ Total(control) \in Nat
  BY DiagCounts DEF DiagInv
<1>6. missed' = missed + Total(Reports) + Total(control) /\ owed' = owed /\ told' = told
  BY DEF DropPending
<1>7. missed' \in Nat /\ owed' \in Nat /\ told' \in Nat
  BY <1>5, <1>6
<1>8. owed' = told' + missed'
  BY <1>4, <1>5, <1>6
<1>9. ComplaintsAreAccounted'
  BY <1>2, <1>3, <1>7, <1>8 DEF ComplaintsAreAccounted
<1> QED
  BY <1>2, <1>3, <1>7, <1>9, DiagSizes DEF DiagInv

\* Steps that leave the diagnostics alone.
LEMMA DiagStays ==
  ASSUME DiagInv, UNCHANGED <<slots, overflowed, control, told, missed, owed>>
  PROVE  DiagInv'
BY DEF DiagInv, OneSlotEach, ComplaintsAreAccounted, Reports

\* The session, the cable and the channel's other users.
LEMMA SessionKeeps == ASSUME DiagInv, DiagNext PROVE DiagInv'
PROOF
<1>1. CASE Poll
  BY <1>1, VisitKeeps, DropPendingKeeps DEF Poll
<1>2. CASE Say
  BY <1>2, SayKeeps
<1>3. CASE Unplug \/ Plug
  BY <1>3, DiagStays DEF Unplug, Plug, complaints, ring
<1> QED
  BY <1>1, <1>2, <1>3 DEF DiagNext

-----------------------------------------------------------------------------
(* Rotation. *)

\* A remainder is the one number in its range that differs by a multiple.
LEMMA RemainderIs ==
  ASSUME NEW n \in Nat \ {0}, NEW x \in Int, NEW k \in Int, NEW r \in 0..n - 1, x = n * k + r
  PROVE  x % n = r
PROOF
<1>1. x \div n \in Int /\ x % n \in 0..n - 1 /\ x = n * (x \div n) + (x % n)
  OBVIOUS
<1>2. PICK j \in Int : j = x \div n
  BY <1>1
<1>3. PICK s \in Int : s = x % n
  BY <1>1
<1>4. s \in 0..n - 1 /\ n * k + r = n * j + s
  BY <1>1, <1>2, <1>3
<1>5. PICK d \in Int : d = j - k
  OBVIOUS
<1>6. n * d = r - s
  BY <1>4, <1>5
<1>7. d >= 1 => n * d >= n
  OBVIOUS
<1>8. d <= -1 => n * d <= -n
  OBVIOUS
<1>9. d = 0
  BY <1>4, <1>6, <1>7, <1>8
<1>10. n * d = 0
  BY <1>9
<1> QED
  BY <1>3, <1>4, <1>6, <1>10

\* Less than a turn past either end of a turn.
LEMMA Wraps ==
  ASSUME NEW n \in Nat \ {0}, NEW x \in Int, -n <= x, x < 2 * n
  PROVE  x % n = IF x < 0 THEN x + n ELSE IF n <= x THEN x - n ELSE x
PROOF
<1>1. CASE x < 0
  <2>1. x + n \in 0..n - 1 /\ x = n * (-1) + (x + n)
    BY <1>1
  <2> QED
    BY <1>1, <2>1, RemainderIs
<1>2. CASE 0 <= x /\ x < n
  <2>1. x \in 0..n - 1 /\ x = n * 0 + x
    BY <1>2
  <2> QED
    BY <1>2, <2>1, RemainderIs
<1>3. CASE n <= x
  <2>1. x - n \in 0..n - 1 /\ x = n * 1 + (x - n)
    BY <1>3
  <2> QED
    BY <1>3, <2>1, RemainderIs
<1> QED
  BY <1>1, <1>2, <1>3

\* The phase the two tracks give is where the knob is, at the corners and with
\* a track that reads a little less, too.
LEMMA PhaseIsAngle ==
  ASSUME NEW p \in 0..PerRev - 1, NEW noise \in {0, 1}
  PROVE  PhaseOf(TrackA(p) - noise, TrackB(p)) = p
PROOF
<1>1. /\ Quarter \in Nat \ {0} /\ Beyond \in Nat /\ PerRev = 4 * Quarter
      /\ p \in Int /\ 0 <= p /\ p < 4 * Quarter /\ noise \in {0, 1}
  BY PhaseAssumption DEF PerRev
<1>2. (p + Quarter) % PerRev = IF 3 * Quarter <= p THEN p - 3 * Quarter ELSE p + Quarter
  <2>1. PICK x \in Int, n \in Nat \ {0} : x = p + Quarter /\ n = PerRev
    BY <1>1
  <2>2. -n <= x /\ x < 2 * n
    BY <1>1, <2>1
  <2>3. x % n = IF x < 0 THEN x + n ELSE IF n <= x THEN x - n ELSE x
    BY <2>1, <2>2, Wraps
  <2> QED
    BY <1>1, <2>1, <2>3
<1>3. PICK a \in Int : a = TrackA(p) - noise
  BY <1>1, <1>2 DEF TrackA, Track
<1>4. PICK b \in Int : b = TrackB(p)
  BY <1>1 DEF TrackB, Track
<1>5. CASE p < Quarter
  BY <1>1, <1>2, <1>3, <1>4, <1>5 DEF TrackA, TrackB, Track, PhaseOf
<1>6. CASE p = Quarter
  BY <1>1, <1>2, <1>3, <1>4, <1>6 DEF TrackA, TrackB, Track, PhaseOf
<1>7. CASE Quarter < p /\ p < 3 * Quarter
  <2>1. TrackA(p) = IF p = 2 * Quarter THEN -(Quarter + Beyond)
                    ELSE IF 2 * Quarter < p THEN p - 3 * Quarter ELSE Quarter - p
    BY <1>1, <1>2, <1>7 DEF TrackA, Track
  <2>2. TrackB(p) = 2 * Quarter - p
    BY <1>1, <1>7 DEF TrackB, Track
  <2>3. TrackA(p) - noise < 0
    BY <1>1, <1>7, <2>1
  <2>4. b = 2 * Quarter - p /\ a < 0 /\ -Quarter < b /\ b < Quarter
    BY <1>1, <1>3, <1>4, <1>7, <2>2, <2>3
  <2>5. PhaseOf(a, b) = p
    BY <1>1, <2>4 DEF PhaseOf
  <2> QED
    BY <1>3, <1>4, <2>5
<1>8. CASE p = 3 * Quarter
  <2>1. b = -(Quarter + Beyond)
    BY <1>1, <1>4, <1>8 DEF TrackB, Track
  <2>2. PhaseOf(a, b) = p
    BY <1>1, <1>8, <2>1 DEF PhaseOf, PerRev
  <2> QED
    BY <1>3, <1>4, <2>2
<1>9. CASE 3 * Quarter < p
  BY <1>1, <1>2, <1>3, <1>4, <1>9 DEF TrackA, TrackB, Track, PhaseOf
<1> QED
  BY <1>1, <1>5, <1>6, <1>7, <1>8, <1>9

\* What a knob was turned by less than half a turn is the short way.
LEMMA ShortWayIs ==
  ASSUME NEW a \in 0..PerRev - 1, NEW t \in Int, -PerRev < 2 * t, 2 * t < PerRev
  PROVE  (a + t) % PerRev \in 0..PerRev - 1 /\ ShortWay(((a + t) % PerRev) - a) = t
PROOF
<1>1. PICK n \in Nat \ {0} : n = PerRev
  BY PhaseAssumption DEF PerRev
<1>2. PICK x \in Int : x = a + t
  BY <1>1
<1>3. -n <= x /\ x < 2 * n
  BY <1>1, <1>2
<1>4. x % n = IF x < 0 THEN x + n ELSE IF n <= x THEN x - n ELSE x
  BY <1>3, Wraps
<1> QED
  BY <1>1, <1>2, <1>4 DEF ShortWay

\* C's division leaves less than the divisor, on either side.
LEMMA Towards0Is ==
  ASSUME NEW n \in Int, NEW d \in Nat \ {0}
  PROVE  /\ Towards0(n, d) \in Int
         /\ -d < n - Towards0(n, d) * d /\ n - Towards0(n, d) * d < d
PROOF
<1>1. CASE n >= 0
  <2>1. n \div d \in Int /\ n % d \in 0..d - 1 /\ n = d * (n \div d) + (n % d)
    BY <1>1
  <2>2. Towards0(n, d) = n \div d
    BY <1>1 DEF Towards0
  <2>3. PICK k \in Int : k = n \div d
    BY <2>1
  <2>4. n - d * k \in 0..d - 1
    BY <2>1, <2>3
  <2>5. n - k * d \in 0..d - 1
    BY <2>4
  <2> QED
    BY <2>2, <2>3, <2>5
<1>2. CASE n < 0
  <2>0. PICK m \in Int : m = -n
    OBVIOUS
  <2>1. m \div d \in Int /\ m % d \in 0..d - 1 /\ m = d * (m \div d) + (m % d)
    OBVIOUS
  <2>2. Towards0(n, d) = -(m \div d)
    BY <1>2, <2>0 DEF Towards0
  <2>3. PICK k \in Int : k = m \div d
    BY <2>1
  <2>4. m - d * k \in 0..d - 1
    BY <2>1, <2>3
  <2>5. n - (-k) * d = -(m - d * k)
    BY <2>0
  <2> QED
    BY <2>2, <2>3, <2>4, <2>5
<1> QED
  BY <1>1, <1>2

-----------------------------------------------------------------------------
(* The inductive invariant. *)

Sample == [detents : [Pots -> Int], push : SUBSET Switches, touch : SUBSET Pots]

TypeOK ==
  /\ angle \in [Pots -> 0..PerRev - 1] /\ prev \in [Pots -> Int]
  /\ accum \in [Pots -> Int] /\ slack \in [Pots -> Int]
  /\ gated \in [Pots -> Int] /\ lost \in [Pots -> Int]
  /\ primed \in BOOLEAN /\ edges_primed \in BOOLEAN
  /\ held \in SUBSET Switches /\ bounced \in SUBSET Switches
  /\ settled \in SUBSET Switches /\ pending \in SUBSET Switches
  /\ prev_push \in SUBSET Switches
  /\ stable \in SUBSET Pots
  /\ input_queue \in Seq(Sample)
  /\ unseen \in [Switches -> Int]

\* The last phase read is where the knob is.
Turning == primed => prev = angle

\* What the newest sample says of the switches, and what the contacts read
\* when those that read wrong are put right.
Latest == IF input_queue = <<>> THEN prev_push ELSE Newest.push
Actual == Differ(pending, bounced)

Off(s, a, b) == IF s \in Differ(a, b) THEN 1 ELSE 0

\* Before the first sample nothing was seen.  From then on the edges that wait,
\* and those the changes between the newest sample, the debouncer, the contacts
\* and the hand will yet make, are no more than the hand made.
Meant ==
  /\ ~primed => /\ input_queue = <<>> /\ ~edges_primed /\ bounced = {}
                /\ \A s \in Switches : unseen[s] = 0
  /\ primed /\ ~edges_primed => input_queue # <<>>
  /\ primed => \A s \in Switches :
       Cardinality(Edges(s)) + Off(s, Latest, settled) + Off(s, settled, Actual)
         + Off(s, Actual, held) <= unseen[s]

IInv == TypeOK /\ DiagInv /\ Turning /\ MovementArrives /\ Meant

-----------------------------------------------------------------------------
(* One knob in one sample. *)

\* A step within the dead band is nothing; any other of less than half a turn is
\* all counted, and less than a detent is left.
LEMMA DecodedIs ==
  ASSUME TypeOK, Turning, NEW p \in Pots, NEW t \in Int,
         -PerRev < 2 * t, 2 * t < PerRev,
         -PerDetent < accum[p], accum[p] < PerDetent
  PROVE  LET now == (angle[p] + t) % PerRev
             decoded == Decoded(p, now)
         IN  /\ now \in 0..PerRev - 1
             /\ decoded.ticks \in Int /\ decoded.left \in Int
             /\ -PerDetent < decoded.left /\ decoded.left < PerDetent
             /\ decoded.left + PerDetent * decoded.ticks
                  = accum[p] + (IF primed /\ ~Within(t) THEN t ELSE 0)
PROOF
<1> DEFINE now == (angle[p] + t) % PerRev
           far == ShortWay(now - prev[p])
           sum == accum[p] + far
           ticks == Towards0(sum, PerDetent)
<1>1. /\ PerRev \in Nat \ {0} /\ PerDetent \in Nat \ {0} /\ Deadband \in Nat \ {0}
  BY PhaseAssumption DEF PerRev
<1>3. angle[p] \in 0..PerRev - 1 /\ accum[p] \in Int /\ primed \in BOOLEAN
  BY DEF TypeOK
<1>4. now \in 0..PerRev - 1 /\ ShortWay(now - angle[p]) = t
  BY <1>3, ShortWayIs
<1>5. primed => far = t
  BY <1>4 DEF Turning
<1>6. Decoded(p, now) = IF ~primed \/ Within(far)
                          THEN [ticks |-> 0, left |-> accum[p]]
                          ELSE [ticks |-> ticks, left |-> sum - ticks * PerDetent]
  BY DEF Decoded
<1> HIDE DEF now, far
<1>7. CASE ~primed \/ Within(t)
  <2>1. Decoded(p, now) = [ticks |-> 0, left |-> accum[p]]
    BY <1>3, <1>5, <1>6, <1>7
  <2> QED
    BY <1>1, <1>3, <1>4, <1>7, <2>1 DEF now
<1>8. CASE primed /\ ~Within(t)
  <2>1. Decoded(p, now) = [ticks |-> ticks, left |-> sum - ticks * PerDetent]
    BY <1>3, <1>5, <1>6, <1>8
  <2>2. PICK n \in Int : n = sum /\ n = accum[p] + t
    BY <1>3, <1>5, <1>8
  <2>3. /\ Towards0(n, PerDetent) \in Int
        /\ -PerDetent < n - Towards0(n, PerDetent) * PerDetent
        /\ n - Towards0(n, PerDetent) * PerDetent < PerDetent
    BY <1>1, Towards0Is
  <2>4. PICK k \in Int : k = Towards0(n, PerDetent)
    BY <2>3
  <2>5. -PerDetent < n - k * PerDetent /\ n - k * PerDetent < PerDetent
    BY <2>3, <2>4
  <2>6. Decoded(p, now) = [ticks |-> k, left |-> n - k * PerDetent]
    BY <2>1, <2>2, <2>4
  <2>7. n - k * PerDetent + PerDetent * k = n
    BY <1>1
  <2> QED
    BY <1>1, <1>4, <1>8, <2>2, <2>5, <2>6, <2>7 DEF now
<1> QED
  BY <1>3, <1>7, <1>8

\* What the touch filter takes for touched are knobs.
LEMMA FilterTyped ==
  ASSUME stable \in SUBSET Pots, NEW raw \in SUBSET Pots, NEW moved, NEW dt, NEW detail,
         Filter(raw, moved, dt, detail)
  PROVE  stable' \in SUBSET Pots
PROOF
<1>1. PICK c, d : stable' = IF c THEN {} ELSE (stable \union raw) \ d
  BY DEF Filter
<1> QED
  BY <1>1

\* What a hand may do to the knobs between two samples.
Turn == {turned \in [Pots -> Int] :
           \A p \in Pots : -PerRev < 2 * turned[p] /\ 2 * turned[p] < PerRev}

\* The knobs in one sample: what it gives and what is left is how far they were
\* turned.
LEMMA SampledRotates ==
  ASSUME TypeOK, Turning, MovementArrives, NEW turned \in Turn, NEW noise \in {0, 1},
         NEW bounce \in SUBSET Switches, NEW deaf, NEW detail, NEW gap,
         Sampled(turned, noise, bounce, deaf, detail, gap)
  PROVE  /\ angle' \in [Pots -> 0..PerRev - 1] /\ prev' = angle' /\ primed' = TRUE
         /\ accum' \in [Pots -> Int] /\ slack' \in [Pots -> Int] /\ gated' \in [Pots -> Int]
         /\ stable' \in SUBSET Pots
         /\ \A p \in Pots : -PerDetent < accum'[p] /\ accum'[p] < PerDetent
         /\ \E ticks \in [Pots -> Int] :
              /\ \A p \in Pots :
                   slack'[p] = slack[p] + accum'[p] - accum[p] + gated'[p] - gated[p]
                                 + PerDetent * ticks[p]
              /\ Enqueued([detents |-> ticks, push |-> settled', touch |-> stable'])
PROOF
<1> DEFINE now == [p \in Pots |-> (angle[p] + turned[p]) % PerRev]
           phase == [p \in Pots |-> PhaseOf(TrackA(now[p]) - noise, TrackB(now[p]))]
           decoded == [p \in Pots |-> Decoded(p, phase[p])]
           ticks == [p \in Pots |-> decoded[p].ticks]
           sample == [detents |-> ticks, push |-> settled', touch |-> stable']
<1>1. /\ angle' = now /\ prev' = phase /\ primed' = TRUE
      /\ accum' = [p \in Pots |-> decoded[p].left]
      /\ slack' = [p \in Pots |-> slack[p] + (IF primed THEN turned[p] ELSE 0)]
      /\ gated' = [p \in Pots |->
                     gated[p] + (IF primed /\ Within(turned[p]) THEN turned[p] ELSE 0)]
      /\ Enqueued(sample)
      /\ \E moved, dt : Filter(Reads \ deaf, moved, dt, detail)
  BY DEF Sampled
<1>2. stable' \in SUBSET Pots
  BY <1>1, FilterTyped DEF TypeOK, Reads
<1>3. ASSUME NEW p \in Pots
      PROVE  /\ now[p] \in 0..PerRev - 1 /\ phase[p] = now[p]
             /\ ticks[p] \in Int /\ decoded[p].left \in Int
             /\ -PerDetent < decoded[p].left /\ decoded[p].left < PerDetent
             /\ decoded[p].left + PerDetent * ticks[p]
                  = accum[p] + (IF primed /\ ~Within(turned[p]) THEN turned[p] ELSE 0)
  <2> PICK t \in Int : t = turned[p]
    BY DEF Turn
  <2>1. -PerRev < 2 * t /\ 2 * t < PerRev
    BY DEF Turn
  <2>2. -PerDetent < accum[p] /\ accum[p] < PerDetent
    BY DEF MovementArrives
  <2> DEFINE to == (angle[p] + t) % PerRev
             d == Decoded(p, to)
  <2>3. /\ to \in 0..PerRev - 1
        /\ d.ticks \in Int /\ d.left \in Int
        /\ -PerDetent < d.left /\ d.left < PerDetent
        /\ d.left + PerDetent * d.ticks = accum[p] + (IF primed /\ ~Within(t) THEN t ELSE 0)
    BY <2>1, <2>2, DecodedIs
  <2>4. now[p] = to
    OBVIOUS
  <2>5. phase[p] = PhaseOf(TrackA(to) - noise, TrackB(to))
    BY <2>4
  <2> HIDE DEF to, now, d
  <2>6. PhaseOf(TrackA(to) - noise, TrackB(to)) = to
    BY <2>3, PhaseIsAngle
  <2>7. decoded[p] = d /\ ticks[p] = d.ticks
    BY <2>5, <2>6 DEF d
  <2> HIDE DEF decoded, ticks, phase
  <2> QED
    BY <2>3, <2>4, <2>5, <2>6, <2>7
<1>4. angle' \in [Pots -> 0..PerRev - 1]
  <2>1. \A p \in Pots : now[p] \in 0..PerRev - 1
    BY <1>3
  <2>2. now \in [Pots -> 0..PerRev - 1]
    BY <2>1
  <2> QED
    BY <1>1, <2>2
<1>5. prev' = angle'
  <2>1. \A p \in Pots : phase[p] = now[p]
    BY <1>3
  <2>2. phase = now
    <3> DEFINE f(p) == PhaseOf(TrackA(now[p]) - noise, TrackB(now[p]))
               g(p) == (angle[p] + turned[p]) % PerRev
    <3>1. \A p \in Pots : f(p) = g(p)
      BY <2>1
    <3> HIDE DEF f, g
    <3>2. [p \in Pots |-> f(p)] = [p \in Pots |-> g(p)]
      BY <3>1
    <3> QED
      BY <3>2 DEF f, g
  <2> QED
    BY <1>1, <2>2
<1>6. ticks \in [Pots -> Int]
  <2>1. \A p \in Pots : decoded[p].ticks \in Int
    BY <1>3
  <2> HIDE DEF decoded
  <2> QED
    BY <2>1
<1>7. /\ accum' \in [Pots -> Int]
      /\ \A p \in Pots : accum'[p] = decoded[p].left
  <2> HIDE DEF decoded
  <2> QED
    BY <1>1, <1>3
<1>8. /\ slack' \in [Pots -> Int] /\ gated' \in [Pots -> Int]
      /\ \A p \in Pots :
           /\ slack'[p] = slack[p] + (IF primed THEN turned[p] ELSE 0)
           /\ gated'[p] = gated[p] + (IF primed /\ Within(turned[p]) THEN turned[p] ELSE 0)
  <2>1. \A p \in Pots : turned[p] \in Int /\ slack[p] \in Int /\ gated[p] \in Int
    BY DEF Turn, TypeOK
  <2> QED
    BY <1>1, <2>1
<1> HIDE DEF now, phase, decoded, ticks
<1>9. \A p \in Pots : slack'[p] = slack[p] + accum'[p] - accum[p] + gated'[p] - gated[p]
                                    + PerDetent * ticks[p]
  <2> SUFFICES ASSUME NEW p \in Pots
               PROVE  slack'[p] = slack[p] + accum'[p] - accum[p] + gated'[p] - gated[p]
                                    + PerDetent * ticks[p]
    OBVIOUS
  <2>1. PICK x \in Int, z \in Int :
          /\ x = IF primed /\ ~Within(turned[p]) THEN turned[p] ELSE 0
          /\ z = IF primed /\ Within(turned[p]) THEN turned[p] ELSE 0
    BY DEF Turn
  <2>2. PICK y \in Int : y = PerDetent * ticks[p]
    BY <1>6, PhaseAssumption
  <2>3. turned[p] \in Int /\ slack[p] \in Int /\ gated[p] \in Int /\ accum[p] \in Int
    BY DEF Turn, TypeOK
  <2>4. (IF primed THEN turned[p] ELSE 0) = x + z
    BY <2>1, <2>3
  <2>5. /\ accum'[p] + y = accum[p] + x
        /\ slack'[p] = slack[p] + (x + z) /\ gated'[p] = gated[p] + z
    BY <1>3, <1>7, <1>8, <2>1, <2>2, <2>4
  <2> QED
    BY <1>7, <2>1, <2>2, <2>3, <2>5
<1> QED
  BY <1>1, <1>2, <1>3, <1>4, <1>5, <1>6, <1>7, <1>8, <1>9

-----------------------------------------------------------------------------
(* The queue of samples. *)

\* A sample in the queue is one.
LEMMA InQueue ==
  ASSUME TypeOK
  PROVE  /\ Len(input_queue) \in Nat /\ DOMAIN input_queue = 1..Len(input_queue)
         /\ \A i \in 1..Len(input_queue) :
              /\ input_queue[i] \in Sample /\ input_queue[i].push \in SUBSET Switches
              /\ \A p \in Pots : input_queue[i].detents[p] \in Int
PROOF
<1>1. /\ Len(input_queue) \in Nat /\ DOMAIN input_queue = 1..Len(input_queue)
      /\ \A i \in 1..Len(input_queue) : input_queue[i] \in Sample
  BY DEF TypeOK
<1>2. \A x \in Sample : x.push \in SUBSET Switches /\ \A p \in Pots : x.detents[p] \in Int
  BY DEF Sample
<1> QED
  BY <1>1, <1>2

\* The detents that wait are a number.
LEMMA WaitingTyped == ASSUME TypeOK, NEW p \in Pots PROVE Waiting(p) \in Int
PROOF
<1> DEFINE w == [i \in DOMAIN input_queue |-> input_queue[i].detents[p]]
<1>1. Len(input_queue) \in Nat /\ \A i \in 1..Len(input_queue) : w[i] \in Int
  BY InQueue
<1> HIDE DEF w
<1>2. SumTo(w, Len(input_queue)) \in Int
  BY <1>1, SumTyped
<1> QED
  BY <1>2 DEF Waiting, w

\* None wait in no sample.
LEMMA WaitingNone == ASSUME NEW p, input_queue' = <<>> PROVE Waiting(p)' = 0
PROOF
<1> DEFINE w == [i \in DOMAIN input_queue' |-> input_queue'[i].detents[p]]
<1> HIDE DEF w
<1>1. SumTo(w, 0) = 0
  BY SumGrows
<1>2. Len(input_queue') = 0
  OBVIOUS
<1>3. SumTo(w, Len(input_queue')) = 0
  BY <1>1, <1>2
<1> QED
  BY <1>3 DEF Waiting, w

\* What a sample appended means for the queue.
LEMMA AppendIs ==
  ASSUME TypeOK, NEW x \in Sample, input_queue' = Append(input_queue, x)
  PROVE  /\ input_queue' \in Seq(Sample) /\ input_queue' # <<>>
         /\ Len(input_queue') = Len(input_queue) + 1
         /\ DOMAIN input_queue' = 1..Len(input_queue) + 1
         /\ \A i \in 1..Len(input_queue) : input_queue'[i] = input_queue[i]
         /\ input_queue'[Len(input_queue) + 1] = x
PROOF
<1>1. input_queue \in Seq(Sample)
  BY DEF TypeOK
<1>2. /\ input_queue' \in Seq(Sample) /\ Len(input_queue') = Len(input_queue) + 1
      /\ \A i \in 1..Len(input_queue) : input_queue'[i] = input_queue[i]
      /\ input_queue'[Len(input_queue) + 1] = x
  BY <1>1, AppendProperties
<1>3. Len(input_queue) \in Nat
  BY InQueue
<1> QED
  BY <1>2, <1>3

\* A sample adds its detents to those that wait.
LEMMA WaitingGrows ==
  ASSUME TypeOK, NEW x \in Sample, input_queue' = Append(input_queue, x), NEW p \in Pots
  PROVE  Waiting(p)' = Waiting(p) + x.detents[p]
PROOF
<1> DEFINE w == [i \in DOMAIN input_queue |-> input_queue[i].detents[p]]
           u == [i \in DOMAIN input_queue' |-> input_queue'[i].detents[p]]
<1>1. PICK n \in Nat : n = Len(input_queue)
  BY InQueue
<1>2. /\ Len(input_queue') = n + 1 /\ DOMAIN input_queue' = 1..(n + 1) /\ DOMAIN input_queue = 1..n
      /\ \A i \in 1..n : input_queue'[i] = input_queue[i] /\ input_queue[i].detents[p] \in Int
      /\ input_queue'[n + 1] = x
  BY <1>1, InQueue, AppendIs
<1>3. \A i \in 1..n : w[i] \in Int /\ u[i] = w[i]
  BY <1>2
<1>4. u[n + 1] = x.detents[p]
  BY <1>2
<1> HIDE DEF w, u
<1>5. SumTo(u, n) = SumTo(w, n)
  BY <1>3, SumAgrees
<1>6. SumTo(u, n + 1) = SumTo(u, n) + u[n + 1]
  BY SumGrows
<1>7. Waiting(p) = SumTo(w, n)
  BY <1>1 DEF Waiting, w
<1>8. Waiting(p)' = SumTo(u, n + 1)
  BY <1>2 DEF Waiting, u
<1> QED
  BY <1>4, <1>5, <1>6, <1>7, <1>8

\* A sample that is captured: its detents wait, or are lost and complained of.
LEMMA EnqueuedIs ==
  ASSUME TypeOK, NEW x \in Sample, Enqueued(x)
  PROVE  /\ lost' \in [Pots -> Int] /\ input_queue' \in Seq(Sample)
         /\ \/ /\ input_queue' = input_queue /\ input_queue # <<>>
               /\ Owed /\ EmpDiag(QueueOverflow)
               /\ \A p \in Pots : lost'[p] = lost[p] + PerDetent * x.detents[p]
            \/ /\ input_queue' = Append(input_queue, x)
               /\ UNCHANGED <<lost, slots, overflowed, owed>>
PROOF
<1>1. CASE QueueFull
  <2>1. /\ Owed /\ EmpDiag(QueueOverflow) /\ input_queue' = input_queue
        /\ lost' = [p \in Pots |-> lost[p] + PerDetent * x.detents[p]]
    BY <1>1 DEF Enqueued
  <2>2. \A p \in Pots : lost[p] \in Int /\ PerDetent * x.detents[p] \in Int
    BY PhaseAssumption DEF TypeOK, Sample
  <2>3. input_queue # <<>>
    BY <1>1, QueueAssumption DEF QueueFull
  <2> QED
    BY <2>1, <2>2, <2>3 DEF TypeOK
<1>2. CASE ~QueueFull
  <2>1. input_queue' = Append(input_queue, x) /\ UNCHANGED <<complaints, owed, lost>>
    BY <1>2 DEF Enqueued
  <2> QED
    BY <2>1, AppendIs DEF complaints, TypeOK
<1> QED
  BY <1>1, <1>2

\* Nothing of a movement goes missing in a sample but what the dead band takes.
LEMMA SampledMoves ==
  ASSUME TypeOK, MovementArrives, NEW x \in Sample, Enqueued(x),
         accum' \in [Pots -> Int],
         \A p \in Pots : -PerDetent < accum'[p] /\ accum'[p] < PerDetent,
         gated' \in [Pots -> Int],
         \A p \in Pots : slack'[p] = slack[p] + accum'[p] - accum[p] + gated'[p] - gated[p]
                                    + PerDetent * x.detents[p]
  PROVE  MovementArrives'
PROOF
<1> SUFFICES ASSUME NEW p \in Pots
             PROVE  slack'[p] = accum'[p] + gated'[p] + lost'[p] + PerDetent * Waiting(p)'
  BY DEF MovementArrives
<1>1. PICK t \in Int : t = x.detents[p]
  BY DEF Sample
<1>2. PICK w \in Int : w = Waiting(p)
  BY WaitingTyped
<1>3. slack[p] = accum[p] + gated[p] + lost[p] + PerDetent * w
  BY <1>2 DEF MovementArrives
<1>4. PICK pw \in Int, pt \in Int : pw = PerDetent * w /\ pt = PerDetent * t
  BY PhaseAssumption
<1>5. PICK a \in Int, b \in Int, g \in Int, h \in Int, l \in Int :
         a = accum[p] /\ b = accum'[p] /\ g = gated[p] /\ h = gated'[p] /\ l = lost[p]
  BY DEF TypeOK
<1>6. slack'[p] = b + h + l + pw + pt
  <2>1. slack[p] = a + g + l + pw /\ slack'[p] = slack[p] + b - a + h - g + pt
    BY <1>1, <1>3, <1>4, <1>5
  <2> QED
    BY <1>4, <1>5, <2>1
<1>7. pw + pt = PerDetent * (w + t)
  BY <1>4, PhaseAssumption
<1>8. CASE input_queue' = input_queue /\ lost'[p] = lost[p] + PerDetent * x.detents[p]
  <2>1. Waiting(p)' = w
    BY <1>2, <1>8 DEF Waiting
  <2>2. lost'[p] = l + pt /\ PerDetent * Waiting(p)' = pw
    BY <1>1, <1>4, <1>5, <1>8, <2>1
  <2> QED
    BY <1>4, <1>5, <1>6, <2>2
<1>9. CASE input_queue' = Append(input_queue, x) /\ lost' = lost
  <2>1. Waiting(p)' = w + t
    BY <1>1, <1>2, <1>9, WaitingGrows
  <2>2. PerDetent * Waiting(p)' = pw + pt
    BY <1>7, <2>1
  <2> QED
    BY <1>4, <1>5, <1>6, <1>9, <2>2
<1> QED
  BY <1>8, <1>9, EnqueuedIs

-----------------------------------------------------------------------------
(* Edges. *)

\* The edges that wait are so many.
LEMMA EdgesFinite ==
  ASSUME TypeOK, NEW s
  PROVE  IsFiniteSet(Edges(s)) /\ Cardinality(Edges(s)) \in Nat
PROOF
<1>1. Edges(s) \subseteq 1..Len(input_queue) /\ Len(input_queue) \in Nat
  BY InQueue DEF Edges
<1>2. IsFiniteSet(1..Len(input_queue))
  BY <1>1, FS_Interval
<1> QED
  BY <1>1, <1>2, FS_Subset, FS_CardinalityType

\* None in no sample.
LEMMA EdgesNone == ASSUME NEW s, input_queue' = <<>> PROVE Cardinality(Edges(s)') = 0
PROOF
<1>1. Edges(s)' = {}
  BY DEF Edges
<1> QED
  BY <1>1, FS_EmptySet

\* A sample brings the edge between it and the one before.
LEMMA EdgesGrow ==
  ASSUME TypeOK, NEW x \in Sample, input_queue' = Append(input_queue, x),
         UNCHANGED <<prev_push, edges_primed>>, NEW s
  PROVE  /\ Latest' = x.push
         /\ input_queue = <<>> /\ ~edges_primed => Cardinality(Edges(s)') = 0
         /\ input_queue # <<>> \/ edges_primed =>
              Cardinality(Edges(s)') = Cardinality(Edges(s)) + Off(s, Latest, x.push)
PROOF
<1>1. PICK n \in Nat : n = Len(input_queue)
  BY InQueue
<1>2. /\ Len(input_queue') = n + 1 /\ DOMAIN input_queue' = 1..(n + 1) /\ DOMAIN input_queue = 1..n
      /\ \A i \in 1..n : input_queue'[i] = input_queue[i]
      /\ input_queue'[n + 1] = x /\ input_queue' # <<>>
  BY <1>1, InQueue, AppendIs
<1>3. Latest' = x.push
  BY <1>2 DEF Latest, Newest
<1>4. input_queue = <<>> <=> n = 0
  BY <1>1 DEF TypeOK
<1>5. Head(input_queue') = input_queue'[1] /\ (n # 0 => Head(input_queue) = input_queue[1])
  BY <1>2, <1>4, AppendIs DEF TypeOK
<1>6. CASE n = 0 /\ ~edges_primed
  <2>1. First' = x.push
    BY <1>2, <1>5, <1>6 DEF First
  <2>2. Edges(s)' = {}
    BY <1>2, <1>6, <2>1 DEF Edges, Differ
  <2> QED
    BY <1>3, <1>4, <1>6, <2>2, FS_EmptySet
<1>7. CASE n # 0 \/ edges_primed
  <2>1. n # 0 => First' = First
    BY <1>2, <1>5 DEF First
  <2>2. n = 0 => First' = prev_push /\ Latest = prev_push
    BY <1>4, <1>7 DEF First, Latest
  <2>3. n # 0 => Latest = input_queue[n].push
    BY <1>1, <1>4 DEF Latest, Newest
  <2> DEFINE before(i) == IF i = 1 THEN First ELSE input_queue[i - 1].push
             after(i) == IF i = 1 THEN First' ELSE input_queue'[i - 1].push
  <2>4. \A i \in 1..n : after(i) = before(i) /\ input_queue'[i] = input_queue[i]
    BY <1>2, <2>1
  <2>5. after(n + 1) = Latest
    BY <1>2, <2>2, <2>3
  <2>6. Edges(s) = {i \in 1..n : s \in Differ(input_queue[i].push, before(i))}
    BY <1>2 DEF Edges
  <2>7. Edges(s)' = {i \in 1..(n + 1) : s \in Differ(input_queue'[i].push, after(i))}
    BY <1>2 DEF Edges, Differ
  <2> HIDE DEF before, after
  <2>8. \A i : i \in Edges(s)' <=> i \in Edges(s) \/ (i = n + 1 /\ s \in Differ(x.push, Latest))
    <3> SUFFICES ASSUME NEW i
                 PROVE  i \in Edges(s)' <=> i \in Edges(s) \/ (i = n + 1 /\ s \in Differ(x.push, Latest))
      OBVIOUS
    <3>1. CASE i \in 1..n
      <4>1. i \in 1..(n + 1) /\ i # n + 1
        BY <3>1
      <4>2. after(i) = before(i) /\ input_queue'[i] = input_queue[i]
        BY <3>1, <2>4
      <4>3. i \in Edges(s) <=> s \in Differ(input_queue[i].push, before(i))
        BY <3>1, <2>6
      <4>4. i \in Edges(s)' <=> s \in Differ(input_queue'[i].push, after(i))
        BY <4>1, <2>7
      <4> QED
        BY <4>1, <4>2, <4>3, <4>4
    <3>2. CASE i = n + 1
      BY <3>2, <1>2, <2>5, <2>6, <2>7
    <3>3. CASE ~(i \in 1..n) /\ i # n + 1
      <4>1. i \notin 1..(n + 1)
        BY <3>3
      <4> QED
        BY <3>3, <4>1, <2>6, <2>7
    <3> QED
      BY <3>1, <3>2, <3>3
  <2>9. n + 1 \notin Edges(s)
    BY <2>6
  <2>10. s \in Differ(x.push, Latest) <=> s \in Differ(Latest, x.push)
    BY DEF Differ
  <2>11. CASE s \in Differ(x.push, Latest)
    <3>1. Edges(s)' = Edges(s) \union {n + 1}
      BY <2>8, <2>11
    <3>2. Cardinality(Edges(s)') = Cardinality(Edges(s)) + 1
      BY <2>9, <3>1, EdgesFinite, FS_AddElement
    <3> QED
      BY <1>3, <1>4, <1>7, <2>10, <2>11, <3>2 DEF Off
  <2>12. CASE s \notin Differ(x.push, Latest)
    <3>1. Edges(s)' = Edges(s)
      BY <2>8, <2>12
    <3> QED
      BY <1>3, <1>4, <1>7, <2>10, <2>12, <3>1, EdgesFinite DEF Off
  <2> QED
    BY <2>11, <2>12
<1> QED
  BY <1>6, <1>7

\* What the debouncer makes of a reading takes one change off what is between
\* any earlier state and the hand, or none, and never adds one.
LEMMA DebounceShortens ==
  ASSUME primed, NEW s \in Switches, NEW bounce, bounce \intersect bounced = {}, NEW from
  PROVE  LET read == Differ(held, bounce)
             now == Debounced(read)
         IN  /\ Off(s, from, now) + Off(s, now, Differ(read, bounce)) + Off(s, Differ(read, bounce), held)
                  <= Off(s, from, settled) + Off(s, settled, Actual) + Off(s, Actual, held)
PROOF
<1> DEFINE read == Differ(held, bounce)
           now == Debounced(read)
<1>1. s \in read <=> ((s \in held) # (s \in bounce))
  BY DEF Differ
<1>2. s \in Differ(read, bounce) <=> s \in held
  BY DEF Differ
<1>3. s \in Actual <=> ((s \in pending) # (s \in bounced))
  BY DEF Actual, Differ
<1>4. s \in now <=> IF (s \in read) = (s \in pending) THEN s \in read ELSE s \in settled
  BY DEF Debounced, Differ
<1>5. ~(s \in bounce /\ s \in bounced)
  OBVIOUS
<1>6. \A a, b : Off(s, a, b) = IF (s \in a) = (s \in b) THEN 0 ELSE 1
  BY DEF Off, Differ
<1> HIDE DEF now, read
<1>7. /\ Off(s, from, now) + Off(s, now, Differ(read, bounce)) + Off(s, Differ(read, bounce), held)
           <= Off(s, from, settled) + Off(s, settled, Actual) + Off(s, Actual, held)
  BY <1>1, <1>2, <1>3, <1>4, <1>5, <1>6
<1> QED
  BY <1>7 DEF now, read

\* Nothing is between a state and itself; what is between is 0 or 1, and one
\* that comes between adds to it.
LEMMA OffIs ==
  ASSUME NEW s, NEW a, NEW b
  PROVE  /\ Off(s, a, b) \in {0, 1} /\ Off(s, a, a) = 0
         /\ \A c : Off(s, a, c) <= Off(s, a, b) + Off(s, b, c)
BY DEF Off, Differ

\* What a sample makes of the switches.
LEMMA SampledReads ==
  ASSUME NEW turned, NEW noise, NEW bounce, NEW deaf, NEW detail, NEW gap,
         Sampled(turned, noise, bounce, deaf, detail, gap)
  PROVE  /\ settled' = Debounced(Differ(held, bounce))
         /\ pending' = Differ(held, bounce) /\ bounced' = bounce
BY DEF Sampled

\* The edges of a sample are meant.
LEMMA SampledMeant ==
  ASSUME TypeOK, Meant, NEW x \in Sample, x.push = settled', Enqueued(x), primed' = TRUE,
         NEW bounce \in SUBSET Switches, bounce \intersect bounced = {}, ~primed => bounce = {},
         settled' = Debounced(Differ(held, bounce)),
         pending' = Differ(held, bounce), bounced' = bounce,
         UNCHANGED <<held, prev_push, edges_primed, unseen>>
  PROVE  Meant'
PROOF
<1>1. Actual' = Differ(Differ(held, bounce), bounce) /\ held' = held /\ unseen' = unseen
  BY DEF Actual
<1>2. input_queue' # <<>>
  BY EnqueuedIs, AppendIs
<1>3. ASSUME NEW s \in Switches
      PROVE  Cardinality(Edges(s)') + Off(s, Latest', settled') + Off(s, settled', Actual')
               + Off(s, Actual', held) <= unseen[s]
  <2>0. Cardinality(Edges(s)) \in Nat /\ unseen[s] \in Int
    BY EdgesFinite DEF TypeOK
  <2>1. CASE ~primed
    <3>1. bounce = {} /\ settled' = held /\ Actual' = held
      BY <1>1, <2>1 DEF Debounced, Differ
    <3>2. input_queue' = Append(input_queue, x) /\ input_queue = <<>> /\ ~edges_primed /\ unseen[s] = 0
      BY <2>1, EnqueuedIs DEF Meant
    <3>3. Latest' = settled' /\ Cardinality(Edges(s)') = 0
      BY <3>2, EdgesGrow
    <3> QED
      BY <3>1, <3>2, <3>3, OffIs
  <2>2. CASE primed
    <3>1. Cardinality(Edges(s)) + Off(s, Latest, settled) + Off(s, settled, Actual)
            + Off(s, Actual, held) <= unseen[s]
      BY <2>2 DEF Meant
    <3>2. Off(s, Latest, settled') + Off(s, settled', Actual') + Off(s, Actual', held)
            <= Off(s, Latest, settled) + Off(s, settled, Actual) + Off(s, Actual, held)
      BY <1>1, <2>2, DebounceShortens
    <3>3. /\ Off(s, Latest, settled) \in {0, 1} /\ Off(s, settled, Actual) \in {0, 1}
          /\ Off(s, Actual, held) \in {0, 1} /\ Off(s, Latest, settled') \in {0, 1}
          /\ Off(s, settled', Actual') \in {0, 1} /\ Off(s, Actual', held) \in {0, 1}
      BY OffIs
    <3>4. Cardinality(Edges(s)) + Off(s, Latest, settled') + Off(s, settled', Actual')
            + Off(s, Actual', held) <= unseen[s]
      BY <2>0, <3>1, <3>2, <3>3
    <3>5. CASE input_queue' = input_queue
      <4>1. Edges(s)' = Edges(s) /\ Latest' = Latest
        BY <3>5 DEF Edges, First, Latest, Newest
      <4> QED
        BY <3>4, <4>1
    <3>6. CASE input_queue' = Append(input_queue, x)
      <4>1. Latest' = settled' /\ Off(s, Latest', settled') = 0
        BY <3>6, EdgesGrow, OffIs
      <4>2. Cardinality(Edges(s)') = Cardinality(Edges(s)) + Off(s, Latest, settled')
        BY <2>2, <3>6, EdgesGrow DEF Meant
      <4> QED
        BY <2>0, <3>3, <3>4, <4>1, <4>2
    <3> QED
      BY <3>5, <3>6, EnqueuedIs
  <2> QED
    BY <2>1, <2>2 DEF TypeOK
<1> QED
  BY <1>1, <1>2, <1>3 DEF Meant

-----------------------------------------------------------------------------
(* Every step keeps the invariant. *)

\* A sample.
LEMMA SampledKeeps ==
  ASSUME IInv, NEW turned \in Turn, NEW noise \in {0, 1},
         NEW bounce \in SUBSET Switches, bounce \intersect bounced = {}, ~primed => bounce = {},
         NEW deaf, NEW detail, NEW gap, Sampled(turned, noise, bounce, deaf, detail, gap),
         UNCHANGED <<ring, held, ui, unseen>>
  PROVE  IInv'
PROOF
<1>1. TypeOK /\ DiagInv /\ Turning /\ MovementArrives /\ Meant
  BY DEF IInv
<1>2. UNCHANGED <<control, told, missed, held, prev_push, prev_touch, edges_primed, unseen>>
  BY DEF ring, ui
<1>3. /\ angle' \in [Pots -> 0..PerRev - 1] /\ prev' = angle' /\ primed' = TRUE
      /\ accum' \in [Pots -> Int] /\ slack' \in [Pots -> Int] /\ gated' \in [Pots -> Int]
      /\ stable' \in SUBSET Pots
      /\ \A p \in Pots : -PerDetent < accum'[p] /\ accum'[p] < PerDetent
  BY <1>1, SampledRotates
<1>4. PICK ticks \in [Pots -> Int] :
         /\ \A p \in Pots : slack'[p] = slack[p] + accum'[p] - accum[p] + gated'[p] - gated[p]
                                       + PerDetent * ticks[p]
         /\ Enqueued([detents |-> ticks, push |-> settled', touch |-> stable'])
  BY <1>1, SampledRotates
<1>5. /\ settled' = Debounced(Differ(held, bounce))
      /\ pending' = Differ(held, bounce) /\ bounced' = bounce
  BY SampledReads
<1>6. settled' \in SUBSET Switches /\ pending' \in SUBSET Switches
  BY <1>1, <1>5 DEF Debounced, Differ, TypeOK
<1> DEFINE x == [detents |-> ticks, push |-> settled', touch |-> stable']
<1>7. x \in Sample /\ x.push = settled' /\ x.detents = ticks /\ Enqueued(x)
  BY <1>3, <1>4, <1>6 DEF Sample
<1> HIDE DEF x
<1>8. /\ lost' \in [Pots -> Int] /\ input_queue' \in Seq(Sample)
      /\ \/ Owed /\ EmpDiag(QueueOverflow)
         \/ UNCHANGED <<slots, overflowed, owed>>
  BY <1>1, <1>7, EnqueuedIs
<1>9. TypeOK'
  <2>1. prev' \in [Pots -> Int]
    <3>1. \A p \in Pots : angle'[p] \in Int
      BY <1>3, PhaseAssumption DEF PerRev
    <3> QED
      BY <1>3, <3>1
  <2> QED
    BY <1>1, <1>2, <1>3, <1>5, <1>6, <1>8, <2>1 DEF TypeOK
<1>10. DiagInv'
  <2>1. CASE Owed /\ EmpDiag(QueueOverflow)
    BY <1>1, <2>1, ComplaintAccounted, QueueAssumption
  <2>2. CASE UNCHANGED <<slots, overflowed, owed>>
    BY <1>1, <1>2, <2>2, DiagStays
  <2> QED
    BY <1>8, <2>1, <2>2
<1>11. MovementArrives'
  <2>1. \A p \in Pots : slack'[p] = slack[p] + accum'[p] - accum[p] + gated'[p] - gated[p]
                                    + PerDetent * x.detents[p]
    BY <1>4, <1>7
  <2> QED
    BY <1>1, <1>3, <1>7, <2>1, SampledMoves
<1>12. Meant'
  BY <1>1, <1>2, <1>3, <1>5, <1>7, SampledMeant
<1> QED
  BY <1>3, <1>9, <1>10, <1>11, <1>12 DEF IInv, Turning

\* Every capture is one.
LEMMA CaptureKeeps == ASSUME IInv, Capture PROVE IInv'
PROOF
<1>1. Still \in Turn
  BY PhaseAssumption DEF Still, Turn, PerRev
<1>2. \A p \in Pots, d \in Steps : One(p, d) \in Turn
  <2>1. /\ \A d \in Steps : d \in Int /\ -PerRev < 2 * d /\ 2 * d < PerRev
        /\ PerRev \in Nat \ {0}
    BY PhaseAssumption DEF PerRev
  <2> QED
    BY <2>1 DEF One, Turn
<1>3. CASE CaptureQuiet
  BY <1>1, <1>3, SampledKeeps DEF CaptureQuiet
<1>4. CASE CaptureBusy
  <2>0. UNCHANGED <<ring, held, ui, unseen>>
    BY <1>4 DEF CaptureBusy
  <2>1. ASSUME NEW p \in Pots, NEW d \in Steps, NEW noise \in {0, 1},
               Sampled(One(p, d), noise, {}, {}, TRUE, 1)
        PROVE  IInv'
    BY <1>2, <2>0, <2>1, SampledKeeps
  <2>2. ASSUME primed, NEW s \in Switches \ bounced, Sampled(Still, 0, {s}, {}, TRUE, 1)
        PROVE  IInv'
    <3>1. {s} \in SUBSET Switches /\ {s} \intersect bounced = {}
      OBVIOUS
    <3> QED
      BY <1>1, <2>0, <2>2, <3>1, SampledKeeps
  <2>3. ASSUME NEW deaf, NEW detail, NEW gap, Sampled(Still, 0, {}, deaf, detail, gap)
        PROVE  IInv'
    BY <1>1, <2>0, <2>3, SampledKeeps
  <2> QED
    BY <1>4, <2>1, <2>2, <2>3 DEF CaptureBusy
<1> QED
  BY <1>3, <1>4 DEF Capture

\* The samples that wait are taken apart: their detents and edges are seen.
LEMMA ServiceKeeps == ASSUME IInv, Service PROVE IInv'
PROOF
<1>1. TypeOK /\ DiagInv /\ Turning /\ MovementArrives /\ Meant
  BY DEF IInv
<1>2. /\ input_queue # <<>> /\ input_queue' = <<>>
      /\ slack' = [p \in Pots |-> slack[p] - PerDetent * Waiting(p)]
      /\ prev_push' = Newest.push /\ edges_primed' = TRUE
      /\ unseen' = [s \in Switches |-> unseen[s] - Cardinality(Edges(s))]
  BY DEF Service
<1>3. UNCHANGED <<slots, overflowed, control, told, missed, owed, held, angle, prev, accum,
                  bounced, settled, pending, stable, primed, gated, lost>>
  BY DEF Service, diagVars, complaints, ring, capture, rotation, switches, touch
<1>4. prev_push' \in SUBSET Switches
  <2>1. Len(input_queue) \in 1..Len(input_queue)
    BY <1>1, <1>2, InQueue DEF TypeOK
  <2> QED
    BY <1>1, <1>2, <2>1, InQueue DEF Newest
<1>5. TypeOK'
  <2>1. \A p \in Pots : slack[p] - PerDetent * Waiting(p) \in Int
    <3> SUFFICES ASSUME NEW p \in Pots PROVE slack[p] - PerDetent * Waiting(p) \in Int
      OBVIOUS
    <3>1. PICK w \in Int : w = Waiting(p)
      BY <1>1, WaitingTyped
    <3> QED
      BY <1>1, <3>1, PhaseAssumption DEF TypeOK
  <2>2. \A s \in Switches : unseen[s] - Cardinality(Edges(s)) \in Int
    BY <1>1, EdgesFinite DEF TypeOK
  <2>3. slack' \in [Pots -> Int] /\ unseen' \in [Switches -> Int] /\ input_queue' \in Seq(Sample)
    BY <1>2, <2>1, <2>2
  <2> QED
    BY <1>1, <1>2, <1>3, <1>4, <2>3 DEF TypeOK
<1>6. DiagInv' /\ Turning'
  BY <1>1, <1>3, DiagStays DEF Turning
<1>7. MovementArrives'
  <2> SUFFICES ASSUME NEW p \in Pots
               PROVE  /\ slack'[p] = accum'[p] + gated'[p] + lost'[p] + PerDetent * Waiting(p)'
                      /\ -PerDetent < accum'[p] /\ accum'[p] < PerDetent
    BY DEF MovementArrives
  <2>1. PICK w \in Int : w = PerDetent * Waiting(p)
    <3>1. PICK w \in Int : w = Waiting(p)
      BY <1>1, WaitingTyped
    <3> QED
      BY <3>1, PhaseAssumption
  <2>2. slack[p] = accum[p] + gated[p] + lost[p] + w /\ slack'[p] = slack[p] - w
    BY <1>1, <1>2, <2>1 DEF MovementArrives
  <2>3. PerDetent * Waiting(p)' = 0
    BY <1>2, WaitingNone, PhaseAssumption
  <2>4. slack'[p] = accum'[p] + gated'[p] + lost'[p]
    BY <1>1, <1>3, <2>2 DEF TypeOK
  <2> QED
    BY <1>1, <1>3, <1>5, <2>3, <2>4 DEF MovementArrives, TypeOK
<1>8. Meant'
  <2>0. primed
    BY <1>1, <1>2 DEF Meant, TypeOK
  <2>1. Latest' = Latest /\ Actual' = Actual
    BY <1>2, <1>3 DEF Latest, Actual
  <2>2. ASSUME NEW s \in Switches
        PROVE  Cardinality(Edges(s)') + Off(s, Latest', settled) + Off(s, settled, Actual')
                 + Off(s, Actual', held) <= unseen'[s]
    <3>1. Cardinality(Edges(s)) \in Nat /\ unseen[s] \in Int /\ Cardinality(Edges(s)') = 0
      BY <1>1, <1>2, EdgesFinite, EdgesNone DEF TypeOK
    <3>2. Cardinality(Edges(s)) + Off(s, Latest, settled) + Off(s, settled, Actual)
            + Off(s, Actual, held) <= unseen[s]
      BY <1>1, <2>0 DEF Meant
    <3>3. unseen'[s] = unseen[s] - Cardinality(Edges(s))
      BY <1>2
    <3>4. /\ Off(s, Latest, settled) \in {0, 1} /\ Off(s, settled, Actual) \in {0, 1}
          /\ Off(s, Actual, held) \in {0, 1}
      BY OffIs
    <3> QED
      BY <2>1, <3>1, <3>2, <3>3, <3>4
  <2> QED
    BY <1>2, <1>3, <2>0, <2>2 DEF Meant
<1> QED
  BY <1>5, <1>6, <1>7, <1>8 DEF IInv

\* A switch is changed.
LEMMA FlipKeeps == ASSUME IInv, NEW f \in Switches, Flip(f) PROVE IInv'
PROOF
<1>1. TypeOK /\ DiagInv /\ Turning /\ MovementArrives /\ Meant
  BY DEF IInv
<1>2. /\ held' = Differ(held, {f})
      /\ unseen' = [unseen EXCEPT ![f] = unseen[f] + (IF primed THEN 1 ELSE 0)]
  BY DEF Flip
<1>3. UNCHANGED <<slots, overflowed, control, told, missed, owed, angle, prev, accum,
                  bounced, settled, pending, stable, primed, gated, lost, slack,
                  input_queue, prev_push, edges_primed>>
  BY DEF Flip, diagVars, complaints, ring, capture, rotation, switches, touch, ui
<1>4. TypeOK'
  <2>1. held' \in SUBSET Switches
    BY <1>1, <1>2 DEF Differ, TypeOK
  <2>2. unseen' \in [Switches -> Int]
    BY <1>1, <1>2 DEF TypeOK
  <2> QED
    BY <1>1, <1>3, <2>1, <2>2 DEF TypeOK
<1>5. DiagInv' /\ Turning'
  BY <1>1, <1>3, DiagStays DEF Turning
<1>6. MovementArrives'
  BY <1>1, <1>3 DEF MovementArrives, Waiting
<1>7. Meant'
  <2>1. Latest' = Latest /\ Actual' = Actual
    BY <1>3 DEF Latest, Actual, Newest
  <2>2. ASSUME primed, NEW s \in Switches
        PROVE  Cardinality(Edges(s)') + Off(s, Latest', settled) + Off(s, settled, Actual')
                 + Off(s, Actual', held') <= unseen'[s]
    <3>1. Edges(s)' = Edges(s) /\ Cardinality(Edges(s)) \in Nat /\ unseen[s] \in Int
      BY <1>1, <1>3, EdgesFinite DEF Edges, First, TypeOK
    <3>2. Cardinality(Edges(s)) + Off(s, Latest, settled) + Off(s, settled, Actual)
            + Off(s, Actual, held) <= unseen[s]
      BY <1>1, <2>2 DEF Meant
    <3>3. /\ Off(s, Latest, settled) \in {0, 1} /\ Off(s, settled, Actual) \in {0, 1}
          /\ Off(s, Actual, held) \in {0, 1} /\ Off(s, Actual, held') \in {0, 1}
      BY OffIs
    <3>4. CASE s = f
      <4>1. unseen'[s] = unseen[s] + 1
        BY <1>1, <1>2, <2>2, <3>4 DEF TypeOK
      <4>2. Off(s, Actual, held') <= Off(s, Actual, held) + 1
        BY <3>3
      <4> QED
        BY <2>1, <3>1, <3>2, <3>3, <4>1, <4>2
    <3>5. CASE s # f
      <4>1. unseen'[s] = unseen[s]
        BY <1>1, <1>2, <3>5 DEF TypeOK
      <4>2. Off(s, Actual, held') = Off(s, Actual, held)
        BY <1>2, <3>5 DEF Off, Differ
      <4> QED
        BY <2>1, <3>1, <3>2, <4>1, <4>2
    <3> QED
      BY <3>4, <3>5
  <2>3. ~primed => \A s \in Switches : unseen'[s] = 0
    BY <1>1, <1>2 DEF Meant, TypeOK
  <2> QED
    BY <1>1, <1>3, <2>2, <2>3 DEF Meant
<1> QED
  BY <1>4, <1>5, <1>6, <1>7 DEF IInv

\* Steps that leave the inputs alone.
LEMMA InputsStay ==
  ASSUME IInv, DiagInv',
         UNCHANGED <<angle, prev, accum, primed, held, bounced, settled, pending, stable,
                     input_queue, prev_push, edges_primed, slack, gated, lost, unseen>>
  PROVE  IInv'
PROOF
<1>1. TypeOK'
  BY DEF IInv, TypeOK
<1>2. MovementArrives' /\ Turning'
  BY DEF IInv, MovementArrives, Waiting, Turning
<1>3. /\ Latest' = Latest /\ Actual' = Actual
      /\ \A s : Edges(s)' = Edges(s)
  BY DEF Latest, Newest, Actual, Edges, First
<1>4. Meant'
  BY <1>3 DEF IInv, Meant
<1> QED
  BY <1>1, <1>2, <1>4 DEF IInv

\* Before anything happened.
LEMMA InputsStart == ASSUME Init PROVE IInv
PROOF
<1>1. DiagInv
  BY DiagStarts DEF Init
<1>2. TypeOK
  <2>1. <<>> \in Seq(Sample)
    OBVIOUS
  <2>2. angle \in [Pots -> 0..PerRev - 1]
    BY PhaseAssumption DEF Init
  <2>3. Still \in [Pots -> Int]
    BY DEF Still
  <2>4. /\ prev \in [Pots -> Int] /\ accum \in [Pots -> Int]
        /\ slack \in [Pots -> Int] /\ gated \in [Pots -> Int] /\ lost \in [Pots -> Int]
    BY <2>3 DEF Init
  <2>5. primed \in BOOLEAN /\ edges_primed \in BOOLEAN /\ input_queue \in Seq(Sample)
    BY <2>1 DEF Init
  <2>6. /\ held \in SUBSET Switches /\ bounced \in SUBSET Switches
        /\ settled \in SUBSET Switches /\ pending \in SUBSET Switches
        /\ prev_push \in SUBSET Switches /\ stable \in SUBSET Pots
    BY DEF Init
  <2>7. unseen \in [Switches -> Int]
    BY DEF Init
  <2> QED
    BY <2>2, <2>4, <2>5, <2>6, <2>7 DEF TypeOK
<1>3. MovementArrives
  <2> SUFFICES ASSUME NEW p \in Pots
               PROVE  /\ slack[p] = accum[p] + gated[p] + lost[p] + PerDetent * Waiting(p)
                      /\ -PerDetent < accum[p] /\ accum[p] < PerDetent
    BY DEF MovementArrives
  <2> DEFINE w == [i \in DOMAIN input_queue |-> input_queue[i].detents[p]]
  <2> HIDE DEF w
  <2>1. SumTo(w, 0) = 0
    BY SumGrows
  <2>2. Len(input_queue) = 0
    BY DEF Init
  <2>3. Waiting(p) = 0
    BY <2>1, <2>2 DEF Waiting, w
  <2>4. slack[p] = 0 /\ accum[p] = 0 /\ gated[p] = 0 /\ lost[p] = 0
    BY DEF Init, Still
  <2> QED
    BY <2>3, <2>4, PhaseAssumption
<1>4. Turning /\ Meant
  BY DEF Init, Turning, Meant
<1> QED
  BY <1>1, <1>2, <1>3, <1>4 DEF IInv

\* Every step keeps the invariant.
LEMMA InputsKeep == ASSUME IInv, [Next]_vars PROVE IInv'
PROOF
<1>1. CASE Capture \/ Service
  BY <1>1, CaptureKeeps, ServiceKeeps
<1>2. CASE \E s \in Switches : Flip(s)
  BY <1>2, FlipKeeps
<1>3. CASE \E p \in Pots : Electrode(p)
  <2>1. /\ UNCHANGED <<slots, overflowed, control, told, missed, owed>>
        /\ UNCHANGED <<angle, prev, accum, primed, held, bounced, settled, pending, stable,
                       input_queue, prev_push, edges_primed, slack, gated, lost, unseen>>
    BY <1>3 DEF Electrode, diagVars, complaints, ring, capture, rotation, switches, touch, ui
  <2> QED
    BY <2>1, DiagStays, InputsStay DEF IInv
<1>4. CASE Others \/ Session
  <2>1. UNCHANGED <<angle, prev, accum, primed, held, bounced, settled, pending, stable,
                    input_queue, prev_push, edges_primed, slack, gated, lost, unseen>>
    BY <1>4 DEF Others, Session, inputVars, capture, rotation, switches, touch, ui
  <2>2. DiagInv'
    BY <1>4, SessionKeeps, ComplaintAccounted DEF IInv, Others, Session, Complain
  <2> QED
    BY <2>1, <2>2, InputsStay
<1>5. CASE UNCHANGED vars
  <2>1. /\ UNCHANGED <<slots, overflowed, control, told, missed, owed>>
        /\ UNCHANGED <<angle, prev, accum, primed, held, bounced, settled, pending, stable,
                       input_queue, prev_push, edges_primed, slack, gated, lost, unseen>>
    BY <1>5 DEF vars, diagVars, complaints, ring, capture, rotation, switches, touch, ui
  <2> QED
    BY <2>1, DiagStays, InputsStay DEF IInv
<1> QED
  BY <1>1, <1>2, <1>3, <1>4, <1>5 DEF Next

-----------------------------------------------------------------------------
(* Theorems. *)

\* The invariant holds throughout.
THEOREM IInvHolds == Spec => []IInv
PROOF
<1>1. Init => IInv
  BY InputsStart
<1>2. IInv /\ [Next]_vars => IInv'
  BY InputsKeep
<1> QED
  BY <1>1, <1>2, PTL DEF Spec

\* Whatever knobs are turned, how fast or slowly, and whatever samples are
\* dropped: between the hand and the interface a movement loses what the dead
\* band took of it, sample by sample, and what was in dropped samples, and no more.
THEOREM MovementArrivesHolds == Spec => []MovementArrives
PROOF
<1>1. IInv => MovementArrives
  BY DEF IInv
<1> QED
  BY <1>1, IInvHolds, PTL

\* However contacts bounce and whichever samples are dropped, the interface
\* sees no edge that the hand did not make.
THEOREM EdgesAreMeantHolds == Spec => []EdgesAreMeant
PROOF
<1>1. IInv => EdgesAreMeant
  <2> SUFFICES ASSUME IInv, NEW s \in Switches PROVE unseen[s] >= 0
    BY DEF EdgesAreMeant
  <2>1. Cardinality(Edges(s)) \in Nat /\ unseen[s] \in Int
    BY EdgesFinite DEF IInv, TypeOK
  <2>2. /\ Off(s, Latest, settled) \in {0, 1} /\ Off(s, settled, Actual) \in {0, 1}
        /\ Off(s, Actual, held) \in {0, 1}
    BY OffIs
  <2>3. CASE primed
    <3>1. Cardinality(Edges(s)) + Off(s, Latest, settled) + Off(s, settled, Actual)
            + Off(s, Actual, held) <= unseen[s]
      BY <2>3 DEF IInv, Meant
    <3> QED
      BY <2>1, <2>2, <3>1
  <2>4. CASE ~primed
    BY <2>4 DEF IInv, Meant
  <2> QED
    BY <2>3, <2>4
<1> QED
  BY <1>1, IInvHolds, PTL

\* Of all there was to complain of nothing is lost without a trace.
THEOREM ComplaintsAreAccountedHolds == Spec => []ComplaintsAreAccounted
PROOF
<1>1. IInv => ComplaintsAreAccounted
  BY DEF IInv, DiagInv
<1> QED
  BY <1>1, IInvHolds, PTL
=============================================================================
