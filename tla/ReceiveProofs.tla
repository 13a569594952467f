--------------------------- MODULE ReceiveProofs ---------------------------
(***************************************************************************)
(* Proofs about the receive half of the session, for any messages of any   *)
(* number of fragments, any idle time, and any number of hosts that die    *)
(* and cables that are pulled; and about its transmit half, Link, for      *)
(* messages of any number of chunks, queues and a buffer of any size, and  *)
(* any number of cables pulled.                                            *)
(***************************************************************************)
EXTENDS Receive, Link, SequenceTheorems, WellFoundedInduction, TLAPS

-----------------------------------------------------------------------------
(* Numbers and lists.                                                      *)

\* A set of numbers with 0 in it, and with every number the next, is all.
LEMMA SetInduction ==
  ASSUME NEW S, 0 \in S, \A n \in Nat : n \in S => n + 1 \in S
  PROVE  Nat \subseteq S
PROOF
<1> DEFINE Out == {n \in Nat : n \notin S}
<1> SUFFICES ASSUME Out # {} PROVE FALSE
  OBVIOUS
<1>1. PICK m \in Out : \A n \in Out : ~(<<n, m>> \in OpToRel(<, Nat))
  BY NatLessThanWellFounded, WFMin, Out \subseteq Nat
<1>2. m \in Nat /\ m # 0 /\ m - 1 \in Nat
  OBVIOUS
<1>3. <<m - 1, m>> \in OpToRel(<, Nat)
  BY <1>2 DEF OpToRel
<1>4. m - 1 \in S
  BY <1>1, <1>2, <1>3
<1> QED
  BY <1>2, <1>4

\* What the definition of FlattenSeq says of its function.
IsFlat(f, w, n) == f = [i \in 1..n |-> IF i = 1 THEN w[i] ELSE f[i - 1] \o w[i]]

\* There is such a function, for every length.
LEMMA FlatExists ==
  ASSUME NEW w PROVE \A n \in Nat : \E f : IsFlat(f, w, n)
PROOF
<1> DEFINE S == {n \in Nat : \E f : IsFlat(f, w, n)}
<1>1. 0 \in S
  <2> DEFINE f == [i \in 1..0 |-> 0]
  <2>1. IsFlat(f, w, 0)
    BY DEF IsFlat
  <2> QED
    BY <2>1
<1>2. ASSUME NEW n \in Nat, n \in S PROVE n + 1 \in S
  <2>1. PICK f : IsFlat(f, w, n)
    BY <1>2
  <2>2. PICK t : t = IF n + 1 = 1 THEN w[n + 1] ELSE f[n] \o w[n + 1]
    OBVIOUS
  <2> DEFINE g == [i \in 1..(n + 1) |-> IF i = n + 1 THEN t ELSE f[i]]
  <2>3. \A i \in 1..n : f[i] = IF i = 1 THEN w[i] ELSE f[i - 1] \o w[i]
    BY <2>1 DEF IsFlat
  <2>4. ASSUME NEW i \in 1..(n + 1) PROVE g[i] = IF i = 1 THEN w[i] ELSE g[i - 1] \o w[i]
    <3>1. CASE i = n + 1
      <4>1. CASE n = 0
        BY <2>2, <3>1, <4>1
      <4>2. CASE n # 0
        <5>1. g[n] = f[n] /\ (n + 1) - 1 = n /\ n + 1 # 1
          BY <4>2
        <5> QED
          BY <2>2, <3>1, <5>1
      <4> QED
        BY <4>1, <4>2
    <3>2. CASE i # n + 1
      <4>1. i \in 1..n /\ g[i] = f[i] /\ (i # 1 => i - 1 \in 1..n /\ g[i - 1] = f[i - 1])
        BY <3>2
      <4> QED
        BY <2>3, <4>1
    <3> QED
      BY <3>1, <3>2
  <2>5. g = [i \in 1..(n + 1) |-> g[i]]
    OBVIOUS
  <2> HIDE DEF g
  <2>6. IsFlat(g, w, n + 1)
    BY <2>4, <2>5 DEF IsFlat
  <2> QED
    BY <2>6
<1> HIDE DEF S
<1>3. Nat \subseteq S
  BY <1>1, <1>2, SetInduction
<1> QED
  BY <1>3 DEF S

\* Two of them agree as far as both go, if the lists do.
LEMMA FlatUnique ==
  ASSUME NEW w, NEW v, NEW f, NEW g, NEW n \in Nat, NEW m \in Nat, n <= m,
         IsFlat(f, w, n), IsFlat(g, v, m), \A i \in 1..n : w[i] = v[i]
  PROVE  \A i \in 1..n : f[i] = g[i]
PROOF
<1> DEFINE S == {i \in Nat : i # 0 /\ i <= n => f[i] = g[i]}
<1>1. /\ \A i \in 1..n : f[i] = IF i = 1 THEN w[i] ELSE f[i - 1] \o w[i]
      /\ \A i \in 1..m : g[i] = IF i = 1 THEN v[i] ELSE g[i - 1] \o v[i]
  BY DEF IsFlat
<1>2. 0 \in S
  OBVIOUS
<1>3. ASSUME NEW i \in Nat, i \in S PROVE i + 1 \in S
  <2> SUFFICES ASSUME i + 1 <= n PROVE f[i + 1] = g[i + 1]
    OBVIOUS
  <2>1. PICK j \in Nat : j = i + 1 /\ j \in 1..n /\ j \in 1..m /\ j - 1 = i
    OBVIOUS
  <2>2. i # 0 => f[i] = g[i]
    BY <1>3, <2>1
  <2>3. w[j] = v[j] /\ (j # 1 => i # 0)
    BY <2>1
  <2> QED
    BY <1>1, <2>1, <2>2, <2>3
<1> HIDE DEF S
<1>4. Nat \subseteq S
  BY <1>2, <1>3, SetInduction
<1> QED
  BY <1>4 DEF S

\* A list's flattening is what its function comes to.
LEMMA FlatIs ==
  ASSUME NEW w, NEW n \in Nat \ {0}, Len(w) = n
  PROVE  \E f : IsFlat(f, w, n) /\ FlattenSeq(w) = f[n]
PROOF
<1>1. \E f : IsFlat(f, w, n)
  BY FlatExists
<1>2. Len(w) # 0 /\ n = Len(w)
  OBVIOUS
<1> QED
  BY <1>1, <1>2 DEF FlattenSeq, IsFlat

\* What becomes of a flattened list with one more at its end.
LEMMA FlatGrows ==
  ASSUME NEW w, NEW v, NEW n \in Nat, Len(w) = n, Len(v) = n + 1, \A i \in 1..n : w[i] = v[i]
  PROVE  /\ n = 0 => FlattenSeq(v) = v[1]
         /\ n # 0 => FlattenSeq(v) = FlattenSeq(w) \o v[n + 1]
PROOF
<1>0. PICK j \in Nat \ {0} : j = n + 1 /\ j - 1 = n /\ j \in 1..j /\ Len(v) = j
  OBVIOUS
<1>1. PICK g : IsFlat(g, v, j) /\ FlattenSeq(v) = g[j]
  BY <1>0, FlatIs
<1>2. g[j] = IF j = 1 THEN v[j] ELSE g[n] \o v[j]
  BY <1>0, <1>1 DEF IsFlat
<1>3. CASE n = 0
  BY <1>0, <1>1, <1>2, <1>3
<1>4. CASE n # 0
  <2>1. PICK f : IsFlat(f, w, n) /\ FlattenSeq(w) = f[n]
    BY <1>4, FlatIs
  <2>2. f[n] = g[n]
    BY <1>0, <1>1, <1>4, <2>1, FlatUnique
  <2>0. j # 1
    BY <1>0, <1>4
  <2>3. g[j] = g[n] \o v[j]
    BY <1>2, <2>0, Zenon
  <2>4. FlattenSeq(v) = FlattenSeq(w) \o v[j]
    BY <1>1, <2>1, <2>2, <2>3
  <2> QED
    BY <1>0, <1>4, <2>4
<1> QED
  BY <1>3, <1>4

-----------------------------------------------------------------------------
(* Messages and their fragments.                                           *)

Units == [m : Nat, part : Nat, unit : Nat]
SentTyped == sent \in Seq(Mail)
Parts(m) == Len(sent[m].parts)
Known(m, p) == m \in 1..Len(sent) /\ p \in 1..Parts(m)

\* Every message has fragments, and every fragment units.
LEMMA PartsAre ==
  ASSUME SentTyped, NEW m \in 1..Len(sent)
  PROVE  /\ Parts(m) \in Nat \ {0} /\ DOMAIN sent[m].parts = 1..Parts(m)
         /\ \A p \in 1..Parts(m) : sent[m].parts[p] \in Nat \ {0}
PROOF
<1>1. sent[m] \in Mail
  BY DEF SentTyped
<1>2. sent[m].parts \in Seq(Nat \ {0}) /\ sent[m].parts # <<>>
  BY <1>1, MailIsFragments DEF MailAssumption
<1>3. PICK s \in Seq(Nat \ {0}) : s = sent[m].parts /\ s # <<>>
  BY <1>2
<1>4. Len(s) \in Nat \ {0} /\ DOMAIN s = 1..Len(s) /\ \A p \in 1..Len(s) : s[p] \in Nat \ {0}
  BY <1>3, EmptySeq, LenProperties, ElementOfSeq
<1> QED
  BY <1>3, <1>4 DEF Parts

\* A fragment is its units in order.
LEMMA FragmentIs ==
  ASSUME SentTyped, NEW m, NEW p, Known(m, p)
  PROVE  /\ Fragment(m, p) \in Seq(Units) /\ Fragment(m, p) # <<>>
         /\ Len(Fragment(m, p)) = sent[m].parts[p] /\ sent[m].parts[p] \in Nat \ {0}
         /\ \A i \in 1..sent[m].parts[p] : Fragment(m, p)[i] = [m |-> m, part |-> p, unit |-> i]
PROOF
<1>1. PICK n \in Nat \ {0} : n = sent[m].parts[p]
  BY PartsAre DEF Known
<1>2. m \in Nat /\ p \in Nat
  <2>1. Parts(m) \in Nat /\ Len(sent) \in Nat
    BY PartsAre DEF Known, SentTyped
  <2> QED
    BY <2>1 DEF Known
<1>3. Fragment(m, p) = [u \in 1..n |-> [m |-> m, part |-> p, unit |-> u]]
  BY <1>1 DEF Fragment
<1>4. \A u \in 1..n : [m |-> m, part |-> p, unit |-> u] \in Units
  BY <1>2 DEF Units
<1>5. PICK f : f = Fragment(m, p)
  OBVIOUS
<1>6. f \in Seq(Units) /\ Len(f) = n /\ \A i \in 1..n : f[i] = [m |-> m, part |-> p, unit |-> i]
  BY <1>3, <1>4, <1>5
<1> QED
  BY <1>1, <1>5, <1>6

\* The first fragments of a message, end to end.
Flat(m, k) == FlattenSeq([p \in 1..k |-> Fragment(m, p)])

\* They grow by one fragment at a time, and all of them are the message.
LEMMA FlatSteps ==
  ASSUME SentTyped, NEW m \in 1..Len(sent)
  PROVE  /\ Content(m) = Flat(m, Parts(m)) /\ Flat(m, 1) = Fragment(m, 1)
         /\ \A k \in Nat \ {0} : Flat(m, k + 1) = Flat(m, k) \o Fragment(m, k + 1)
PROOF
<1>1. Content(m) = Flat(m, Parts(m))
  BY PartsAre DEF Content, Flat
<1>2. ASSUME NEW k \in Nat
      PROVE  /\ k = 0 => Flat(m, k + 1) = Fragment(m, k + 1)
             /\ k # 0 => Flat(m, k + 1) = Flat(m, k) \o Fragment(m, k + 1)
  <2>1. PICK w : w = [p \in 1..k |-> Fragment(m, p)]
    OBVIOUS
  <2>2. PICK v : v = [p \in 1..(k + 1) |-> Fragment(m, p)]
    OBVIOUS
  <2>3. /\ Len(w) = k /\ Len(v) = k + 1 /\ \A i \in 1..k : w[i] = v[i]
        /\ v[k + 1] = Fragment(m, k + 1)
    BY <2>1, <2>2
  <2>4. /\ k = 0 => FlattenSeq(v) = v[1]
        /\ k # 0 => FlattenSeq(v) = FlattenSeq(w) \o v[k + 1]
    BY <2>3, FlatGrows
  <2>5. Flat(m, k) = FlattenSeq(w) /\ Flat(m, k + 1) = FlattenSeq(v)
    BY <2>1, <2>2 DEF Flat
  <2> QED
    BY <2>3, <2>4, <2>5
<1>3. Flat(m, 1) = Fragment(m, 1)
  <2>1. PICK k \in Nat : k = 0
    OBVIOUS
  <2>2. Flat(m, k + 1) = Fragment(m, k + 1)
    BY <1>2, <2>1, Zenon
  <2>3. k + 1 = 1
    BY <2>1
  <2> QED
    BY <2>2, <2>3, Zenon
<1>4. \A k \in Nat \ {0} : Flat(m, k + 1) = Flat(m, k) \o Fragment(m, k + 1)
  BY <1>2
<1> QED
  BY <1>1, <1>3, <1>4

\* They are units.
LEMMA FlatTyped ==
  ASSUME SentTyped, NEW m \in 1..Len(sent)
  PROVE  /\ \A k \in 1..Parts(m) : Flat(m, k) \in Seq(Units)
         /\ Content(m) \in Seq(Units)
PROOF
<1>0. Parts(m) \in Nat \ {0}
  BY PartsAre
<1> DEFINE S == {k \in Nat : k # 0 /\ k <= Parts(m) => Flat(m, k) \in Seq(Units)}
<1>1. 0 \in S
  OBVIOUS
<1>2. ASSUME NEW k \in Nat, k \in S PROVE k + 1 \in S
  <2> SUFFICES ASSUME k + 1 <= Parts(m) PROVE Flat(m, k + 1) \in Seq(Units)
    OBVIOUS
  <2>1. Known(m, k + 1)
    BY <1>0 DEF Known
  <2>2. Fragment(m, k + 1) \in Seq(Units)
    BY <2>1, FragmentIs
  <2>3. CASE k = 0
    <3>1. Flat(m, 1) = Fragment(m, 1)
      BY FlatSteps
    <3> QED
      BY <2>2, <2>3, <3>1
  <2>4. CASE k # 0
    <3>1. Flat(m, k) \in Seq(Units)
      BY <1>0, <1>2, <2>4
    <3>2. Flat(m, k + 1) = Flat(m, k) \o Fragment(m, k + 1)
      BY <2>4, FlatSteps
    <3> QED
      BY <2>2, <3>1, <3>2, ConcatProperties
  <2> QED
    BY <2>3, <2>4
<1> HIDE DEF S
<1>3. Nat \subseteq S
  BY <1>1, <1>2, SetInduction
<1>4. \A k \in 1..Parts(m) : Flat(m, k) \in Seq(Units)
  BY <1>0, <1>3 DEF S
<1>5. Content(m) = Flat(m, Parts(m)) /\ Parts(m) \in 1..Parts(m)
  BY <1>0, FlatSteps
<1> QED
  BY <1>4, <1>5

\* What was sent stays sent.
Remembered ==
  /\ SentTyped' /\ Len(sent) <= Len(sent') /\ \A m \in 1..Len(sent) : sent'[m] = sent[m]

\* Then a message stays what it is.
LEMMA ContentStays ==
  ASSUME SentTyped, Remembered, NEW m \in 1..Len(sent)
  PROVE  /\ m \in 1..Len(sent') /\ Parts(m)' = Parts(m) /\ Split(m)' = Split(m)
         /\ Content(m)' = Content(m)
         /\ \A p : /\ Known(m, p)' <=> Known(m, p)
                   /\ Fragment(m, p)' = Fragment(m, p) /\ Flat(m, p)' = Flat(m, p)
PROOF
<1>1. /\ m \in 1..Len(sent') /\ sent'[m] = sent[m]
      /\ Len(sent) \in Nat /\ Len(sent') \in Nat
  BY DEF Remembered, SentTyped
<1>2. \A p : Fragment(m, p)' = Fragment(m, p)
  BY <1>1 DEF Fragment
<1>3. Parts(m)' = Parts(m) /\ Split(m)' = Split(m)
  BY <1>1 DEF Parts, Split
<1>4. \A p : Known(m, p)' <=> Known(m, p)
  BY <1>1, <1>3 DEF Known
<1>5. \A p : Flat(m, p)' = Flat(m, p)
  BY <1>2 DEF Flat
<1>6. Content(m)' = Content(m)
  BY <1>1, <1>2 DEF Content
<1> QED
  BY <1>1, <1>2, <1>3, <1>4, <1>5, <1>6

\* A message of one fragment is that fragment.
LEMMA SingleIs ==
  ASSUME SentTyped, NEW m \in 1..Len(sent), ~Split(m)
  PROVE  Parts(m) = 1 /\ Content(m) = Fragment(m, 1)
PROOF
<1>1. Parts(m) = 1
  <2>1. Parts(m) \in Nat \ {0}
    BY PartsAre
  <2>2. ~(Parts(m) > 1)
    BY DEF Split, Parts
  <2> QED
    BY <2>1, <2>2
<1> QED
  BY <1>1, FlatSteps

\* The first fragments of a message are no longer than all of them.
LEMMA FlatFits ==
  ASSUME SentTyped, NEW m \in 1..Len(sent), NEW k \in 1..Parts(m)
  PROVE  Len(Flat(m, k)) <= Len(Content(m))
PROOF
<1>0. Parts(m) \in Nat \ {0} /\ k \in Nat \ {0} /\ k <= Parts(m)
  BY PartsAre
<1>1. \A j \in 1..Parts(m) : Flat(m, j) \in Seq(Units) /\ Len(Flat(m, j)) \in Nat
  BY FlatTyped, LenProperties
<1> DEFINE S == {j \in Nat : k + j <= Parts(m) => Len(Flat(m, k)) <= Len(Flat(m, k + j))}
<1>2. 0 \in S
  <2>1. k + 0 = k /\ k \in 1..Parts(m)
    BY <1>0
  <2>2. Len(Flat(m, k)) <= Len(Flat(m, k))
    BY <1>1
  <2> QED
    BY <2>1, <2>2
<1>3. ASSUME NEW j \in Nat, j \in S PROVE j + 1 \in S
  <2> SUFFICES ASSUME k + (j + 1) <= Parts(m)
               PROVE  Len(Flat(m, k)) <= Len(Flat(m, k + (j + 1)))
    OBVIOUS
  <2>1. PICK i \in 1..Parts(m) : i = k + j /\ i \in Nat \ {0} /\ i + 1 \in 1..Parts(m)
                                 /\ i + 1 = k + (j + 1)
    BY <1>0
  <2>2. Flat(m, i + 1) = Flat(m, i) \o Fragment(m, i + 1)
    BY <2>1, FlatSteps
  <2>3. Fragment(m, i + 1) \in Seq(Units)
    BY <2>1, FragmentIs DEF Known
  <2>4. Len(Flat(m, i)) <= Len(Flat(m, i + 1))
    BY <1>1, <2>1, <2>2, <2>3, ConcatProperties, LenProperties
  <2>5. Len(Flat(m, k)) <= Len(Flat(m, i))
    BY <1>0, <1>3, <2>1
  <2> QED
    BY <1>1, <2>1, <2>4, <2>5
<1> HIDE DEF S
<1>4. Nat \subseteq S
  BY <1>2, <1>3, SetInduction
<1>5. PICK j \in Nat : k + j = Parts(m)
  BY <1>0
<1>6. Len(Flat(m, k)) <= Len(Flat(m, k + j))
  BY <1>0, <1>4, <1>5 DEF S
<1> QED
  BY <1>5, <1>6, FlatSteps

-----------------------------------------------------------------------------
(* What one complete fragment does.                                        *)

RType == [in_progress : BOOLEAN, of : Nat, buf : Seq(Units)]

\* A reassembly holds no more than was announced, and no more than fits.
Within(r) ==
  r.in_progress \/ r.buf # <<>> =>
    /\ r.of \in 1..Len(sent) /\ Split(r.of)
    /\ Len(r.buf) <= Len(Content(r.of)) /\ Len(Content(r.of)) <= MaxTotal
Held(r) == r \in RType /\ Within(r)

Refuses(t) ==
  t.reasm \in RType /\ ~t.reasm.in_progress /\ t.reasm.buf = <<>> /\ t.message = <<>>
Singles(t, r, frag, m, p) ==
  Known(m, p) /\ p = 1 /\ ~Split(m) /\ t.reasm = r /\ t.message = frag
Begins(t, frag, m, p) ==
  /\ Known(m, p) /\ p = 1 /\ Split(m)
  /\ Len(frag) <= Len(Content(m)) /\ Len(Content(m)) <= MaxTotal
  /\ t.reasm = [in_progress |-> TRUE, of |-> m, buf |-> frag] /\ t.message = <<>>
GoesOn(t, r, frag, m, p) ==
  /\ Known(m, p) /\ p # 1 /\ p # Parts(m) /\ r.in_progress
  /\ Len(r.buf) + Len(frag) <= Len(Content(r.of))
  /\ t.reasm = [in_progress |-> TRUE, of |-> r.of, buf |-> r.buf \o frag] /\ t.message = <<>>
Ends(t, r, frag, m, p) ==
  /\ Known(m, p) /\ p # 1 /\ p = Parts(m) /\ r.in_progress
  /\ r.buf \o frag = Content(r.of)
  /\ t.reasm = [in_progress |-> FALSE, of |-> r.of, buf |-> r.buf \o frag]
  /\ t.message = Content(r.of)

\* What is refused.
LEMMA RefuseIs == ASSUME NEW r \in RType, NEW t, t = Refuse(r) PROVE Refuses(t)
PROOF
<1>1. PICK b : b = <<>>
  OBVIOUS
<1>2. b \in Seq(Units)
  BY <1>1
<1>3. PICK f : f = [r EXCEPT !.in_progress = FALSE, !.buf = b]
  OBVIOUS
<1>4. f \in RType /\ ~f.in_progress /\ f.buf = b
  BY <1>2, <1>3 DEF RType
<1>5. t.reasm = f /\ t.message = b
  BY <1>1, <1>3 DEF Refuse, Failed
<1> QED
  BY <1>1, <1>4, <1>5 DEF Refuses

\* What is collected.
Collects(t, r, frag, last) ==
  LET all == r.buf \o frag
  IN  /\ Len(r.buf) + Len(frag) <= Len(Content(r.of))
      /\ last => all = Content(r.of)
      /\ t.reasm = [in_progress |-> r.in_progress /\ ~last, of |-> r.of, buf |-> all]
      /\ t.message = IF last THEN all ELSE <<>>

\* Otherwise what comes is kept behind what there is.
LEMMA CollectIs ==
  ASSUME NEW r \in RType, Content(r.of) \in Seq(Units), NEW frag \in Seq(Units),
         NEW last \in BOOLEAN, NEW t, t = Collect(r, frag, last)
  PROVE  Refuses(t) \/ Collects(t, r, frag, last)
PROOF
<1>1. PICK all : all = r.buf \o frag
  OBVIOUS
<1>2. /\ r.buf \in Seq(Units) /\ Len(r.buf) \in Nat /\ Len(frag) \in Nat
      /\ Len(Content(r.of)) \in Nat /\ r.in_progress \in BOOLEAN
  BY LenProperties DEF RType
<1>3. all \in Seq(Units)
  BY <1>1, <1>2, ConcatProperties
<1>4. PICK g : g = [r EXCEPT !.buf = all]
  OBVIOUS
<1>5. g = [in_progress |-> r.in_progress, of |-> r.of, buf |-> all] /\ g \in RType
  BY <1>3, <1>4 DEF RType
<1>6. CASE t = Refuse(r)
  BY <1>6, RefuseIs
<1>7. CASE t # Refuse(r)
  <2>1. ~TooLong(r, frag)
    BY <1>7 DEF Collect
  <2>2. Len(r.buf) + Len(frag) <= Len(Content(r.of))
    BY <1>2, <2>1 DEF TooLong
  <2>3. CASE ~last
    <3>1. t = Keep(g)
      BY <1>1, <1>4, <2>1, <2>3 DEF Collect
    <3>2. t.reasm = g /\ t.message = <<>>
      BY <3>1 DEF Keep
    <3>3. g = [in_progress |-> r.in_progress /\ ~last, of |-> r.of, buf |-> all]
      BY <1>2, <1>5, <2>3
    <3> QED
      BY <1>1, <2>2, <2>3, <3>2, <3>3 DEF Collects
  <2>4. CASE last
    <3>1. Matches(g.buf, r.of)
      BY <1>1, <1>4, <1>7, <2>1, <2>4 DEF Collect
    <3>2. all = Content(r.of)
      BY <1>5, <3>1 DEF Matches
    <3>3. PICK h : h = [g EXCEPT !.in_progress = FALSE]
      OBVIOUS
    <3>4. t.reasm = h /\ t.message = g.buf
      BY <1>1, <1>4, <2>1, <2>4, <3>1, <3>3 DEF Collect
    <3>5. h = [in_progress |-> r.in_progress /\ ~last, of |-> r.of, buf |-> all]
      BY <1>5, <2>4, <3>3
    <3> QED
      BY <1>1, <1>5, <2>2, <2>4, <3>2, <3>4, <3>5 DEF Collects
  <2> QED
    BY <2>3, <2>4
<1> QED
  BY <1>6, <1>7

\* It is refused, or is one of these.
LEMMA TakeIs ==
  ASSUME SentTyped, NEW r, Held(r), NEW frag \in Seq(Units), NEW m, NEW p,
         frag # <<>>, m = frag[1].m, p = frag[1].part, frag[1].unit = 1 => Known(m, p),
         NEW t, t = Take(r, frag)
  PROVE  \/ Refuses(t) /\ (frag[1].unit = 1 => Split(m))
         \/ /\ frag[1].unit = 1
            /\ \/ Singles(t, r, frag, m, p) \/ Begins(t, frag, m, p)
               \/ GoesOn(t, r, frag, m, p) \/ Ends(t, r, frag, m, p)
PROOF
<1>0. r \in RType
  BY DEF Held
<1>1. CASE frag[1].unit # 1
  <2>1. t = Refuse(r)
    BY <1>1 DEF Take
  <2> QED
    BY <1>0, <1>1, <2>1, RefuseIs
<1>2. CASE frag[1].unit = 1
  <2>1. Known(m, p) /\ m \in 1..Len(sent)
    BY <1>2 DEF Known
  <2>2. Parts(m) \in Nat \ {0}
    BY <2>1, PartsAre
  <2>3. p \in Nat /\ p >= 1 /\ p <= Parts(m)
    BY <2>1, <2>2 DEF Known
  <2>4. Split(m) <=> Parts(m) > 1
    BY DEF Split, Parts
  <2>5. m \in Nat
    BY <2>1 DEF SentTyped
  <2>6. CASE p = 1 /\ p = Parts(m)
    <3>1. t = TakeSingle(r, frag)
      BY <1>2, <2>6 DEF Take, Parts
    <3>2. t.reasm = r /\ t.message = frag
      BY <3>1 DEF TakeSingle
    <3> QED
      BY <1>2, <2>1, <2>4, <2>6, <3>2 DEF Singles
  <2>7. CASE p = 1 /\ p # Parts(m)
    <3>1. t = IF Len(Content(m)) > MaxTotal THEN Refuse(r) ELSE Collect(Adopt(r, m), frag, FALSE)
      BY <1>2, <2>7 DEF Take, Parts
    <3>2. Split(m)
      BY <2>2, <2>3, <2>4, <2>7
    <3>3. Content(m) \in Seq(Units) /\ Len(Content(m)) \in Nat /\ Len(frag) \in Nat
      BY <2>1, FlatTyped, LenProperties
    <3>4. CASE Len(Content(m)) > MaxTotal
      BY <1>0, <3>1, <3>2, <3>4, RefuseIs
    <3>5. CASE ~(Len(Content(m)) > MaxTotal)
      <4>0. PICK b : b = <<>>
        OBVIOUS
      <4>1. b = <<>> /\ b \in Seq(Units) /\ Len(b) = 0 /\ b \o frag = frag
        BY <4>0, ConcatEmptySeq
      <4>2. PICK a : a = [in_progress |-> TRUE, of |-> m, buf |-> b]
        OBVIOUS
      <4>3. a \in RType /\ a.of = m /\ a.buf = b /\ a.in_progress = TRUE
        BY <2>5, <4>1, <4>2 DEF RType
      <4>4. t = Collect(a, frag, FALSE)
        BY <3>1, <3>5, <4>1, <4>2 DEF Adopt
      <4>5. Refuses(t) \/ Collects(t, a, frag, FALSE)
        BY <3>3, <4>3, <4>4, CollectIs
      <4>6. ASSUME Collects(t, a, frag, FALSE) PROVE Begins(t, frag, m, p)
        <5>1. /\ 0 + Len(frag) <= Len(Content(m))
              /\ t.reasm = [in_progress |-> TRUE, of |-> m, buf |-> frag] /\ t.message = <<>>
          BY <4>1, <4>3, <4>6 DEF Collects
        <5>2. Len(Content(m)) <= MaxTotal
          BY <3>3, <3>5, LimitAssumption
        <5> QED
          BY <2>1, <2>7, <3>2, <3>3, <5>1, <5>2 DEF Begins
      <4> QED
        BY <1>2, <3>2, <4>5, <4>6
    <3> QED
      BY <3>4, <3>5
  <2>8. CASE p # 1
    <3>0. Split(m)
      BY <2>2, <2>3, <2>4, <2>8
    <3>1. t = IF MayContinue(r, m) THEN Collect(r, frag, p = Parts(m)) ELSE Refuse(r)
      BY <1>2, <2>8 DEF Take, Parts
    <3>2. CASE ~MayContinue(r, m)
      BY <1>0, <3>0, <3>1, <3>2, RefuseIs
    <3>3. CASE MayContinue(r, m)
      <4>1. r.in_progress /\ r.in_progress = TRUE
        BY <1>0, <3>3 DEF MayContinue, RType
      <4>2. Content(r.of) \in Seq(Units)
        BY <4>1, FlatTyped DEF Held, Within
      <4>3. PICK last \in BOOLEAN : last <=> p = Parts(m)
        OBVIOUS
      <4>4. t = Collect(r, frag, last)
        BY <3>1, <3>3, <4>3
      <4>5. Refuses(t) \/ Collects(t, r, frag, last)
        BY <1>0, <4>2, <4>4, CollectIs
      <4>6. ASSUME Collects(t, r, frag, last) PROVE GoesOn(t, r, frag, m, p) \/ Ends(t, r, frag, m, p)
        <5>1. CASE last
          BY <2>1, <2>8, <4>1, <4>3, <4>6, <5>1 DEF Collects, Ends
        <5>2. CASE ~last
          BY <2>1, <2>8, <4>1, <4>3, <4>6, <5>2 DEF Collects, GoesOn
        <5> QED
          BY <5>1, <5>2
      <4> QED
        BY <1>2, <3>0, <4>5, <4>6
    <3> QED
      BY <3>2, <3>3
  <2> QED
    BY <2>3, <2>6, <2>7, <2>8
<1> QED
  BY <1>1, <1>2

-----------------------------------------------------------------------------
(* What is on its way in.                                                  *)

\* s is the units of a fragment from the one after a.
Piece(s, m, p, a) ==
  /\ s \in Seq(Units) /\ a \in Nat /\ a + Len(s) <= sent[m].parts[p]
  /\ \A i \in 1..Len(s) : s[i] = [m |-> m, part |-> p, unit |-> a + i]

WireIs ==
  wire = <<>> \/ wire = <<Line>> \/ \E m, p, a : Known(m, p) /\ Piece(wire, m, p, a)
FragIs ==
  rx_frag \in Seq(Units) /\ (rx_frag # <<>> => Known(rx_frag[1].m, rx_frag[1].part))

\* What was collected and what is still to be read are a fragment as it was sent.
InFlight(m, p) ==
  /\ Known(m, p) /\ wire # <<>>
  /\ Piece(rx_frag, m, p, 0) /\ Piece(wire, m, p, Len(rx_frag))
  /\ Len(rx_frag) + Len(wire) = sent[m].parts[p]
  /\ rx_frag # <<>> => rx_need = sent[m].parts[p]

\* The first unit tells which fragment it is.
LEMMA PieceIs ==
  ASSUME NEW s, NEW m, NEW p, NEW a, Piece(s, m, p, a), s # <<>>
  PROVE  /\ Len(s) \in Nat \ {0} /\ a \in Nat /\ Head(s) = s[1]
         /\ s[1].m = m /\ s[1].part = p /\ s[1].unit = a + 1
         /\ s[1] = [m |-> m, part |-> p, unit |-> a + 1]
PROOF
<1>1. s \in Seq(Units) /\ a \in Nat /\ Len(s) \in Nat \ {0}
  BY EmptySeq DEF Piece
<1>2. s[1] = [m |-> m, part |-> p, unit |-> a + 1]
  BY <1>1 DEF Piece
<1> QED
  BY <1>1, <1>2

\* So a piece is one in one way.
LEMMA SamePiece ==
  ASSUME NEW s, NEW m, NEW p, NEW a, NEW n, NEW q, NEW b,
         Piece(s, m, p, a), Piece(s, n, q, b), s # <<>>
  PROVE  m = n /\ p = q /\ a = b
PROOF
<1>1. s[1].m = m /\ s[1].part = p /\ s[1].unit = a + 1 /\ a \in Nat
  BY PieceIs
<1>2. s[1].m = n /\ s[1].part = q /\ s[1].unit = b + 1 /\ b \in Nat
  BY PieceIs
<1> QED
  BY <1>1, <1>2

\* Only one fragment is in flight.
LEMMA OneInFlight ==
  ASSUME NEW m, NEW p, NEW n, NEW q, InFlight(m, p), InFlight(n, q)
  PROVE  m = n /\ p = q
PROOF
<1>1. wire # <<>> /\ Piece(wire, m, p, Len(rx_frag)) /\ Piece(wire, n, q, Len(rx_frag))
  BY DEF InFlight
<1>2. wire[1].m = m /\ wire[1].part = p /\ wire[1].m = n /\ wire[1].part = q
  BY <1>1, PieceIs
<1> QED
  BY <1>2

\* The rest of a piece is one.
LEMMA PieceRest ==
  ASSUME NEW s, NEW m, NEW p, NEW a, Piece(s, m, p, a), s # <<>>
  PROVE  Piece(Tail(s), m, p, a + 1) /\ Len(Tail(s)) = Len(s) - 1
PROOF
<1>1. s \in Seq(Units) /\ a \in Nat /\ Len(s) \in Nat \ {0}
  BY EmptySeq DEF Piece
<1>2. PICK t : t = Tail(s)
  OBVIOUS
<1>3. t \in Seq(Units) /\ Len(t) = Len(s) - 1 /\ \A i \in 1..Len(t) : t[i] = s[i + 1]
  BY <1>1, <1>2, HeadTailProperties
<1>4. \A i \in 1..Len(t) : t[i] = [m |-> m, part |-> p, unit |-> (a + 1) + i]
  <2>1. TAKE i \in 1..Len(t)
  <2>2. PICK j \in 1..Len(s) : j = i + 1 /\ a + j = (a + 1) + i
    BY <1>1, <1>3
  <2> QED
    BY <1>3, <2>2 DEF Piece
<1>5. a + 1 \in Nat /\ (a + 1) + Len(t) <= sent[m].parts[p]
  <2>1. a + Len(s) <= sent[m].parts[p] /\ (a + 1) + Len(t) = a + Len(s)
    BY <1>1, <1>3 DEF Piece
  <2> QED
    BY <1>1, <2>1
<1> QED
  BY <1>2, <1>3, <1>4, <1>5 DEF Piece

\* A packet is read.
Reads(f) ==
  /\ wire # <<>> /\ wire' = Tail(wire) /\ f \in Collecting(Head(wire)) /\ sent' = sent
  /\ rx_frag' = Leftover(f) /\ rx_need' = IF Leftover(f) = <<>> THEN 0 ELSE f.need

\* What is collected then.
LEMMA ReadsIs ==
  ASSUME SentTyped, WireIs, FragIs, NEW f, Reads(f), NEW u, u = wire[1]
  PROVE  /\ f.have = Append(rx_frag, u) /\ u \in Units
         /\ f.have \in Seq(Units) /\ f.have # <<>> /\ Len(f.have) = Len(rx_frag) + 1
         /\ Known(f.have[1].m, f.have[1].part)
         /\ rx_frag # <<>> => f.need = rx_need
         /\ rx_frag = <<>> => \E m, p, a : Known(m, p) /\ Piece(wire, m, p, a)
         /\ rx_frag = <<>> /\ u.unit = 1 => f.need = sent[u.m].parts[u.part]
         /\ rx_frag' = (IF Len(f.have) = f.need THEN <<>> ELSE f.have)
         /\ Len(f.have) # f.need => rx_need' = f.need
PROOF
<1>1. wire # <<>> /\ Head(wire) = wire[1]
  BY DEF Reads
<1>2. u \in Units /\ (u = Line \/ \E m, p, a : Known(m, p) /\ Piece(wire, m, p, a))
  <2>1. CASE wire = <<Line>>
    <3>1. u = Line
      BY <2>1
    <3>2. Line \in Units
      BY DEF Line, Units
    <3> QED
      BY <3>1, <3>2
  <2>2. CASE \E m, p, a : Known(m, p) /\ Piece(wire, m, p, a)
    <3>1. PICK s \in Seq(Units) : s = wire /\ s # <<>>
      BY <1>1, <2>2 DEF Piece
    <3>2. Head(s) \in Units
      BY <3>1, HeadTailProperties
    <3> QED
      BY <1>1, <2>2, <3>1, <3>2
  <2> QED
    BY <1>1, <2>1, <2>2 DEF WireIs
<1>3. f \in Collecting(u) /\ rx_frag \in Seq(Units)
  BY <1>1 DEF Reads, FragIs
<1>4. CASE rx_frag # <<>>
  <2>1. f.have = Append(rx_frag, u) /\ f.need = rx_need
    BY <1>3, <1>4 DEF Collecting
  <2>2. /\ f.have \in Seq(Units) /\ Len(f.have) = Len(rx_frag) + 1 /\ f.have[1] = rx_frag[1]
        /\ Len(rx_frag) \in Nat \ {0}
    BY <1>2, <1>3, <1>4, <2>1, AppendProperties, EmptySeq
  <2>3. f.have # <<>>
    BY <2>2, EmptySeq
  <2>4. rx_frag' = Leftover(f) /\ rx_need' = IF Leftover(f) = <<>> THEN 0 ELSE f.need
    BY DEF Reads
  <2>5. rx_frag' = (IF Len(f.have) = f.need THEN <<>> ELSE f.have)
    BY <2>4 DEF Leftover, Complete
  <2>6. Len(f.have) # f.need => rx_need' = f.need
    BY <2>3, <2>4 DEF Leftover, Complete
  <2> QED
    BY <1>2, <1>4, <2>1, <2>2, <2>3, <2>5, <2>6 DEF FragIs
<1>5. CASE rx_frag = <<>>
  <2>1. u # Line /\ f.have = <<u>> /\ (u.unit = 1 => f.need = sent[u.m].parts[u.part])
    <3>1. u # Line
      <4>1. SUFFICES ASSUME u = Line PROVE FALSE
        OBVIOUS
      <4>2. u.unit # 1
        BY <4>1 DEF Line
      <4>3. Collecting(u) = {}
        BY <1>5, <4>1, <4>2 DEF Collecting
      <4> QED
        BY <1>3, <4>3
    <3>2. CASE u.unit = 1
      BY <1>3, <1>5, <3>1, <3>2 DEF Collecting
    <3>3. CASE u.unit # 1
      BY <1>3, <1>5, <3>1, <3>3 DEF Collecting
    <3> QED
      BY <3>1, <3>2, <3>3
  <2>2. PICK m, p, a : Known(m, p) /\ Piece(wire, m, p, a)
    BY <1>2, <2>1
  <2>3. u.m = m /\ u.part = p
    BY <1>1, <2>2, PieceIs
  <2>4. /\ f.have = Append(rx_frag, u) /\ f.have \in Seq(Units) /\ f.have # <<>> /\ Len(f.have) = 1
        /\ f.have[1] = u /\ Len(rx_frag) = 0
    BY <1>2, <1>5, <2>1
  <2>5. rx_frag' = Leftover(f) /\ rx_need' = IF Leftover(f) = <<>> THEN 0 ELSE f.need
    BY DEF Reads
  <2>6. rx_frag' = (IF Len(f.have) = f.need THEN <<>> ELSE f.have)
    BY <2>5 DEF Leftover, Complete
  <2>7. Len(f.have) # f.need => rx_need' = f.need
    BY <2>4, <2>5 DEF Leftover, Complete
  <2> QED
    BY <1>2, <1>5, <2>1, <2>2, <2>3, <2>4, <2>6, <2>7
<1> QED
  BY <1>4, <1>5

\* A fragment that is in flight goes on arriving, and arrives whole.
LEMMA InFlightGoes ==
  ASSUME SentTyped, WireIs, FragIs, NEW f, Reads(f), NEW m, NEW p, InFlight(m, p)
  PROVE  /\ Len(f.have) # f.need => InFlight(m, p)'
         /\ Len(f.have) = f.need => f.have = Fragment(m, p) /\ wire' = <<>>
PROOF
<1>0. PICK n \in Nat \ {0} : n = sent[m].parts[p]
  BY PartsAre DEF InFlight, Known
<1>1. PICK a \in Nat : a = Len(rx_frag)
  BY LenProperties DEF FragIs
<1>2. PICK u : u = wire[1]
  OBVIOUS
<1>3. /\ Known(m, p) /\ wire # <<>> /\ Piece(rx_frag, m, p, 0) /\ Piece(wire, m, p, a)
      /\ a + Len(wire) = n /\ (rx_frag # <<>> => rx_need = n)
  BY <1>0, <1>1 DEF InFlight
<1>4. u = [m |-> m, part |-> p, unit |-> a + 1] /\ u.m = m /\ u.part = p /\ u.unit = a + 1
  BY <1>2, <1>3, PieceIs
<1>5. Len(wire) \in Nat \ {0} /\ Len(wire') = Len(wire) - 1 /\ Piece(wire', m, p, a + 1)
  <2>1. wire' = Tail(wire)
    BY DEF Reads
  <2> QED
    BY <1>3, <2>1, PieceIs, PieceRest
<1>6. PICK h : h = f.have
  OBVIOUS
<1>7. /\ h = Append(rx_frag, u) /\ h \in Seq(Units) /\ Len(h) = a + 1 /\ h # <<>>
      /\ rx_frag' = (IF Len(h) = f.need THEN <<>> ELSE h)
      /\ Len(h) # f.need => rx_need' = f.need
  BY <1>1, <1>2, <1>6, ReadsIs
<1>8. f.need = n
  <2>1. CASE rx_frag # <<>>
    BY <1>2, <1>3, <2>1, ReadsIs
  <2>2. CASE rx_frag = <<>>
    <3>1. a = 0
      BY <1>1, <2>2
    <3>2. u.unit = 1
      BY <1>4, <3>1
    <3>3. f.need = sent[u.m].parts[u.part]
      BY <1>2, <2>2, <3>2, ReadsIs
    <3> QED
      BY <1>0, <1>4, <3>3
  <2> QED
    BY <2>1, <2>2
<1>9. /\ \A i \in 1..Len(h) : h[i] = [m |-> m, part |-> p, unit |-> i]
      /\ \A i \in 1..Len(h) : h[i] = [m |-> m, part |-> p, unit |-> 0 + i]
  <2>1. SUFFICES ASSUME NEW i \in 1..Len(h) PROVE h[i] = [m |-> m, part |-> p, unit |-> i] /\ 0 + i = i
    BY Zenon
  <2>2. 0 + i = i
    BY <1>7
  <2>3. CASE i = a + 1
    <3>1. h[i] = u
      BY <1>1, <1>7, <2>3, AppendProperties DEF FragIs
    <3> QED
      BY <1>4, <2>2, <2>3, <3>1
  <2>4. CASE i # a + 1
    <3>1. i \in 1..a /\ h[i] = rx_frag[i]
      BY <1>1, <1>2, <1>7, <2>4, AppendProperties, ReadsIs DEF FragIs
    <3>2. rx_frag[i] = [m |-> m, part |-> p, unit |-> 0 + i]
      BY <1>1, <1>3, <3>1 DEF Piece
    <3> QED
      BY <2>2, <3>1, <3>2
  <2> QED
    BY <2>3, <2>4
<1>10. CASE Len(h) = f.need
  <2>1. wire' \in Seq(Units) /\ Len(wire') = 0
    BY <1>3, <1>5, <1>7, <1>8, <1>10 DEF Piece
  <2>2. wire' = <<>>
    BY <2>1, EmptySeq
  <2>3. PICK g \in Seq(Units) : g = Fragment(m, p)
    BY <1>3, FragmentIs
  <2>4. Len(g) = n /\ \A i \in 1..n : g[i] = [m |-> m, part |-> p, unit |-> i]
    BY <1>0, <1>3, <2>3, FragmentIs
  <2>5. h = g
    BY <1>7, <1>8, <1>9, <1>10, <2>4, SeqEqual
  <2> QED
    BY <1>6, <1>10, <2>2, <2>3, <2>5
<1>11. CASE Len(h) # f.need
  <2>1. rx_frag' = h /\ rx_need' = n /\ sent' = sent
    BY <1>7, <1>8, <1>11 DEF Reads
  <2>2. Len(wire') # 0 /\ (a + 1) + Len(wire') = n /\ a + 1 <= n
    <3>1. Len(wire) \in Nat \ {0} /\ Len(wire') = Len(wire) - 1 /\ a + Len(wire) = n /\ a + 1 # n
      BY <1>3, <1>5, <1>7, <1>8, <1>11
    <3> QED
      BY ONLY <3>1, a \in Nat, n \in Nat
  <2>3. wire' # <<>>
    BY <2>2
  <2>4. Piece(h, m, p, 0)
    BY <1>0, <1>7, <1>9, <2>2 DEF Piece
  <2>5. Piece(rx_frag', m, p, 0) /\ Piece(wire', m, p, Len(rx_frag'))
        /\ Len(rx_frag') + Len(wire') = sent[m].parts[p]
    BY <1>0, <1>5, <1>7, <2>1, <2>2, <2>4
  <2> QED
    BY <1>0, <1>3, <1>6, <1>11, <2>1, <2>3, <2>5 DEF InFlight, Known, Parts, Piece
<1> QED
  BY <1>6, <1>10, <1>11

\* A fragment that is in flight was before.
LEMMA InFlightCame ==
  ASSUME SentTyped, WireIs, FragIs, NEW f, Reads(f), NEW m, NEW p, InFlight(m, p)'
  PROVE  InFlight(m, p)
PROOF
<1>0. sent' = sent /\ wire' = Tail(wire) /\ wire # <<>>
  BY DEF Reads
<1>1. /\ Known(m, p) /\ wire' # <<>> /\ Piece(rx_frag', m, p, 0) /\ Piece(wire', m, p, Len(rx_frag'))
      /\ Len(rx_frag') + Len(wire') = sent[m].parts[p]
      /\ rx_frag' # <<>> => rx_need' = sent[m].parts[p]
  BY <1>0 DEF InFlight, Known, Parts, Piece
<1>2. PICK n \in Nat \ {0} : n = sent[m].parts[p]
  BY <1>1, PartsAre DEF Known
<1>3. \E q, r, b : Known(q, r) /\ Piece(wire, q, r, b)
  <2>1. wire # <<Line>>
    <3>1. Tail(<<Line>>) = <<>>
      OBVIOUS
    <3> QED
      BY <1>0, <1>1, <3>1
  <2> QED
    BY <1>0, <2>1 DEF WireIs
<1>4. PICK q, r, b : Known(q, r) /\ Piece(wire, q, r, b)
  BY <1>3
<1>5. Piece(wire', q, r, b + 1) /\ Len(wire') = Len(wire) - 1 /\ Len(wire) \in Nat \ {0} /\ b \in Nat
  BY <1>0, <1>4, PieceRest, PieceIs
<1>6. PICK a : a = Len(rx_frag')
  OBVIOUS
<1>7. m = q /\ p = r /\ a = b + 1 /\ a \in Nat
  <2>1. PICK w : w = wire'
    OBVIOUS
  <2>2. Piece(w, m, p, a) /\ Piece(w, q, r, b + 1) /\ w # <<>>
    BY <1>1, <1>5, <1>6, <2>1
  <2> QED
    BY <1>5, <2>2, SamePiece
<1>8. PICK u : u = wire[1]
  OBVIOUS
<1>9. PICK h : h = f.have
  OBVIOUS
<1>10. /\ h = Append(rx_frag, u) /\ Len(h) = Len(rx_frag) + 1 /\ Len(rx_frag) \in Nat
       /\ rx_frag # <<>> => f.need = rx_need
       /\ rx_frag' = (IF Len(h) = f.need THEN <<>> ELSE h)
       /\ Len(h) # f.need => rx_need' = f.need
  BY <1>8, <1>9, ReadsIs DEF FragIs
<1>11. rx_frag' # <<>>
  <2>1. ASSUME rx_frag' = <<>> PROVE FALSE
    <3>1. a = 0
      BY <1>6, <2>1
    <3> QED
      BY <1>5, <1>7, <3>1
  <2> QED
    BY <2>1
<1>12. rx_frag' = h /\ f.need = n /\ a = Len(rx_frag) + 1 /\ Len(rx_frag) = b
  <2>1. rx_frag' = h /\ rx_need' = f.need
    BY <1>10, <1>11
  <2>2. rx_need' = n
    BY <1>1, <1>2, <1>11
  <2>3. a = Len(rx_frag) + 1
    BY <1>6, <1>10, <2>1
  <2> QED
    BY <1>5, <1>7, <1>10, <2>1, <2>2, <2>3
<1>13. Piece(rx_frag, m, p, 0)
  <2>1. \A i \in 1..b : rx_frag[i] = h[i]
    BY <1>10, <1>12, AppendProperties, <1>8, ReadsIs DEF FragIs
  <2>2. \A i \in 1..a : h[i] = [m |-> m, part |-> p, unit |-> 0 + i]
    BY <1>1, <1>6, <1>12 DEF Piece
  <2>3. \A i \in 1..b : i \in 1..a
    BY <1>5, <1>7
  <2>4. \A i \in 1..b : rx_frag[i] = [m |-> m, part |-> p, unit |-> 0 + i]
    BY <2>1, <2>2, <2>3
  <2>5. b + Len(wire) <= n
    BY <1>2, <1>4, <1>7 DEF Piece
  <2>6. 0 + b <= n
    BY <1>5, <2>5
  <2> QED
    BY <1>2, <1>12, <2>4, <2>6 DEF Piece, FragIs
<1>14. Piece(wire, m, p, Len(rx_frag))
  BY <1>4, <1>7, <1>12
<1>15. Len(rx_frag) + Len(wire) = n
  <2>1. a + Len(wire') = n
    BY <1>1, <1>2, <1>6
  <2> QED
    BY <1>2, <1>5, <1>7, <1>12, <2>1
<1>16. rx_frag # <<>> => rx_need = n
  BY <1>10, <1>12
<1> QED
  BY <1>0, <1>1, <1>2, <1>13, <1>14, <1>15, <1>16 DEF InFlight

\* What arrives as it was sent was in flight.
LEMMA CleanCame ==
  ASSUME SentTyped, WireIs, FragIs, NEW f, Reads(f), Len(f.have) = f.need,
         NEW m, NEW p, Known(m, p), f.have = Fragment(m, p)
  PROVE  InFlight(m, p)
PROOF
<1>0. wire # <<>>
  BY DEF Reads
<1>1. PICK n \in Nat \ {0} : n = sent[m].parts[p]
  BY PartsAre DEF Known
<1>2. PICK h : h = f.have
  OBVIOUS
<1>3. /\ h \in Seq(Units) /\ Len(h) = n
      /\ \A i \in 1..n : h[i] = [m |-> m, part |-> p, unit |-> i]
  BY <1>1, <1>2, FragmentIs
<1>4. PICK u : u = wire[1]
  OBVIOUS
<1>5. /\ h = Append(rx_frag, u) /\ n = Len(rx_frag) + 1 /\ u \in Units
      /\ rx_frag # <<>> => f.need = rx_need
      /\ f.need = n
  BY <1>2, <1>3, <1>4, ReadsIs
<1>6. /\ rx_frag \in Seq(Units) /\ Len(rx_frag) \in Nat /\ h[n] = u
      /\ \A i \in 1..Len(rx_frag) : h[i] = rx_frag[i]
  BY <1>5, AppendProperties DEF FragIs
<1>7. u = [m |-> m, part |-> p, unit |-> n]
  BY <1>3, <1>6
<1>8. \E q, r, b : Known(q, r) /\ Piece(wire, q, r, b)
  <2>1. u # Line
    BY <1>7 DEF Line
  <2> QED
    BY <1>0, <1>4, <2>1 DEF WireIs
<1>9. PICK q, r, b : Known(q, r) /\ Piece(wire, q, r, b)
  BY <1>8
<1>10. q = m /\ r = p /\ b + 1 = n /\ b \in Nat /\ Len(wire) \in Nat \ {0}
  <2>1. u.m = m /\ u.part = p /\ u.unit = n
    BY <1>7
  <2>2. u.m = q /\ u.part = r /\ u.unit = b + 1 /\ b \in Nat /\ Len(wire) \in Nat \ {0}
    BY <1>0, <1>4, <1>9, PieceIs
  <2> QED
    BY <2>1, <2>2
<1>11. b + Len(wire) <= n
  BY <1>1, <1>9, <1>10 DEF Piece
<1>12. b = Len(rx_frag) /\ Len(rx_frag) + Len(wire) = n
  BY <1>5, <1>6, <1>10, <1>11
<1>13. Piece(rx_frag, m, p, 0)
  <2>1. \A i \in 1..Len(rx_frag) : i \in 1..n /\ 0 + i = i
    BY <1>5, <1>6
  <2>2. \A i \in 1..Len(rx_frag) : rx_frag[i] = [m |-> m, part |-> p, unit |-> 0 + i]
    BY <1>3, <1>6, <2>1
  <2>3. 0 + Len(rx_frag) <= n
    BY <1>5, <1>6
  <2> QED
    BY <1>1, <1>6, <2>2, <2>3 DEF Piece
<1> QED
  BY <1>0, <1>1, <1>5, <1>9, <1>10, <1>12, <1>13 DEF InFlight

\* Where no packet is read into a fragment, none comes to be in flight.
LEMMA InFlightStays ==
  ASSUME SentTyped, WireIs, FragIs, UNCHANGED <<sent, rx_frag, rx_need>>, NEW m, NEW p,
         InFlight(m, p)',
         \/ wire' = wire
         \/ rx_frag = <<>> /\ wire # <<>> /\ wire' = Tail(wire)
         \/ \E n \in 0..Len(wire) : wire' = SubSeq(wire, 1, n)
  PROVE  InFlight(m, p) /\ wire' = wire
PROOF
<1>1. /\ Known(m, p) /\ wire' # <<>> /\ Piece(rx_frag, m, p, 0) /\ Piece(wire', m, p, Len(rx_frag))
      /\ Len(rx_frag) + Len(wire') = sent[m].parts[p]
      /\ rx_frag # <<>> => rx_need = sent[m].parts[p]
  BY DEF InFlight, Known, Parts, Piece
<1>2. CASE wire' = wire
  BY <1>1, <1>2 DEF InFlight
<1>3. CASE rx_frag = <<>> /\ wire # <<>> /\ wire' = Tail(wire)
  <2>1. wire # <<Line>>
    BY <1>1, <1>3
  <2>2. PICK q, r, b : Known(q, r) /\ Piece(wire, q, r, b)
    BY <1>3, <2>1 DEF WireIs
  <2>3. Piece(wire', q, r, b + 1) /\ b \in Nat
    BY <1>3, <2>2, PieceRest, PieceIs
  <2>4. PICK w : w = wire'
    OBVIOUS
  <2>5. Piece(w, q, r, b + 1) /\ Piece(w, m, p, 0) /\ w # <<>>
    <3>1. Len(rx_frag) = 0
      BY <1>3
    <3> QED
      BY <1>1, <2>3, <2>4, <3>1
  <2>6. b + 1 = 0
    BY <2>5, SamePiece
  <2> QED
    BY <2>3, <2>6
<1>4. CASE \E n \in 0..Len(wire) : wire' = SubSeq(wire, 1, n)
  <2>0. wire \in Seq(Units) /\ Len(wire) \in Nat
    <3>1. <<>> \in Seq(Units) /\ <<Line>> \in Seq(Units)
      BY DEF Line, Units
    <3>2. wire \in Seq(Units)
      BY <3>1 DEF WireIs, Piece
    <3> QED
      BY <3>2
  <2>1. PICK n \in 0..Len(wire) : wire' = SubSeq(wire, 1, n)
    BY <1>4
  <2>2. /\ wire' \in Seq(Units) /\ Len(wire') = n
        /\ \A i \in 1..n : wire'[i] = wire[i]
    BY <2>0, <2>1, SubSeqProperties, ElementOfSeq
  <2>3. n # 0
    BY <1>1, <2>0, <2>2, EmptySeq
  <2>4. wire # <<>> /\ wire'[1] = wire[1]
    BY <2>0, <2>1, <2>2, <2>3
  <2>5. wire'[1].unit = Len(rx_frag) + 1 /\ wire'[1].m = m /\ wire'[1].part = p /\ Len(rx_frag) \in Nat
    <3>1. PICK w : w = wire'
      OBVIOUS
    <3>2. Piece(w, m, p, Len(rx_frag)) /\ w # <<>>
      BY <1>1, <3>1
    <3>3. w[1].unit = Len(rx_frag) + 1 /\ w[1].m = m /\ w[1].part = p /\ Len(rx_frag) \in Nat
      BY <3>2, PieceIs
    <3> QED
      BY <3>1, <3>3
  <2>6. wire # <<Line>>
    BY <2>4, <2>5 DEF Line
  <2>7. PICK q, r, b : Known(q, r) /\ Piece(wire, q, r, b)
    BY <2>4, <2>6 DEF WireIs
  <2>8. q = m /\ r = p /\ b = Len(rx_frag)
    <3>1. wire[1].unit = b + 1 /\ wire[1].m = q /\ wire[1].part = r /\ b \in Nat
      BY <2>4, <2>7, PieceIs
    <3> QED
      BY <2>4, <2>5, <3>1
  <2>9. n = Len(wire)
    <3>1. b + Len(wire) <= sent[m].parts[p] /\ Len(rx_frag) + n = sent[m].parts[p]
      BY <1>1, <2>2, <2>7, <2>8 DEF Piece
    <3> QED
      BY <2>0, <2>5, <2>8, <3>1
  <2>10. wire' = wire
    BY <2>0, <2>2, <2>9, SeqEqual
  <2> QED
    BY <1>1, <2>10 DEF InFlight
<1> QED
  BY <1>2, <1>3, <1>4

-----------------------------------------------------------------------------
(* Every step, by what it does to the fragment and to the reassembly.      *)

GivesUp(r) ==
  /\ r.in_progress /\ Len(r.buf) = reasm_last_len /\ idle >= Limit
  /\ givenUp' = givenUp \union {r.of}
  /\ reasm' \in RType /\ ~reasm'.in_progress /\ reasm'.buf = <<>>

\* What a visit makes of the reassembly.
LEMMA VisitIs ==
  ASSUME NEW r \in RType, Visit(r), idle \in Nat
  PROVE  /\ (reasm' = r /\ givenUp' = givenUp) \/ GivesUp(r)
         /\ cfg_set => reasm_last_len' = IF reasm'.in_progress THEN Len(reasm'.buf) ELSE 0
         /\ reasm'.in_progress /\ cfg_set =>
              reasm' = r /\ (idle' = 0 \/ (idle' = idle /\ Len(r.buf) = reasm_last_len))
         /\ idle' \in {idle, 0}
         /\ Len(r.buf) # reasm_last_len => givenUp' = givenUp
PROOF
<1>1. CASE cfg_set /\ r.in_progress /\ Len(r.buf) = reasm_last_len /\ idle >= Limit
  <2>1. PICK b : b = <<>> /\ b \in Seq(Units)
    BY EmptySeq
  <2>2. PICK g : g = [r EXCEPT !.in_progress = FALSE, !.buf = b]
    OBVIOUS
  <2>3. g \in RType /\ ~g.in_progress /\ g.buf = b
    BY <2>1, <2>2 DEF RType
  <2>4. reasm' = g /\ reasm_last_len' = 0 /\ givenUp' = givenUp \union {r.of} /\ idle' = idle
    <3>1. ~(idle < Limit)
      BY <1>1, LimitAssumption
    <3> QED
      BY <1>1, <2>1, <2>2, <3>1 DEF Visit, Failed
  <2> QED
    BY <1>1, <2>1, <2>3, <2>4 DEF GivesUp
<1>2. CASE ~(cfg_set /\ r.in_progress /\ Len(r.buf) = reasm_last_len /\ idle >= Limit)
  <2>1. reasm' = r /\ givenUp' = givenUp
    BY <1>2 DEF Visit, clock
  <2>2. cfg_set => reasm_last_len' = IF r.in_progress THEN Len(r.buf) ELSE 0
    BY <1>2 DEF Visit, clock, Progress
  <2>3. idle' \in {idle, 0} /\ (r.in_progress /\ cfg_set => idle' = 0 \/ (idle' = idle /\ Len(r.buf) = reasm_last_len))
    BY <1>2 DEF Visit, clock, Progress
  <2> QED
    BY <2>1, <2>2, <2>3
<1> QED
  BY <1>1, <1>2

\* A step that reads nothing into a fragment and sends nothing.
WireStill ==
  \/ wire' = wire /\ sending' = sending
  \/ rx_frag = <<>> /\ wire # <<>> /\ wire[1].unit # 1 /\ wire' = Tail(wire) /\ sending' = sending
  \/ (\E n \in 0..Len(wire) : wire' = SubSeq(wire, 1, n)) /\ sending' = NoMessage
Still ==
  /\ UNCHANGED <<sent, rx_frag, rx_need, clean, delivered>> /\ WireStill
  /\ Visit(reasm) \/ UNCHANGED <<reasm, givenUp>>

\* A step that reads.
Taking(f) == Reads(f) /\ Feed(f) /\ UNCHANGED sending

\* Every step reads, sends, or does neither.
LEMMA StepsAre ==
  ASSUME [Next]_vars
  PROVE  (\E f : Taking(f)) \/ Still \/ Send \/ SendNext \/ SendLine
PROOF
<1>1. ASSUME PassTaking PROVE \E f : Taking(f)
  <2>1. PICK f \in Collecting(Head(wire)) : Feed(f)
    BY <1>1 DEF PassTaking
  <2>2. Reads(f) /\ UNCHANGED sending
    BY <1>1, <2>1 DEF PassTaking, Reads, Feed
  <2> QED
    BY <2>1, <2>2 DEF Taking
<1>2. ASSUME PassConsole PROVE Still
  <2>1. Line.unit # 1
    BY DEF Line
  <2> QED
    BY <1>2, <2>1 DEF PassConsole, IsConsoles, Still, WireStill, frame
<1>3. ASSUME PassIdle \/ CommandEnds PROVE Still
  BY <1>3 DEF PassIdle, CommandEnds, Still, WireStill, frame, host
<1>4. ASSUME CommandBegins PROVE Still
  <2>1. Line.unit # 1
    BY DEF Line
  <2> QED
    BY <1>4, <2>1 DEF CommandBegins, Still, WireStill, frame, clock
<1>5. ASSUME Tick \/ Plug \/ UNCHANGED vars PROVE Still
  BY <1>5 DEF Tick, Plug, vars, Still, WireStill, frame, host, clock
<1>6. ASSUME HostDies \/ Unplug PROVE Still
  <2>1. UNCHANGED <<sent, rx_frag, rx_need, clean, delivered, reasm, givenUp>> /\ sending' = NoMessage
    BY <1>6 DEF HostDies, Unplug, device, frame, clock
  <2>2. \E n \in 0..Len(wire) : wire' = SubSeq(wire, 1, n)
    BY <1>6 DEF HostDies, Unplug
  <2> QED
    BY <2>1, <2>2 DEF Still, WireStill
<1> QED
  BY <1>1, <1>2, <1>3, <1>4, <1>5, <1>6 DEF Next, Pass, Host

-----------------------------------------------------------------------------
(* Types.                                                                  *)

SendingIs ==
  sending # NoMessage =>
    /\ sending \in [m : Nat, part : Nat] /\ sending.m \in 1..Len(sent)
    /\ sending.part \in 2..Parts(sending.m)
CleanIs == \A m, p : <<m, p>> \in clean => Known(m, p)
IsWhole(d) ==
  \/ \E m \in 1..Len(sent) : d = Content(m)
  \/ d[1].m \in 1..Len(sent) /\ ~Split(d[1].m)
DeliveredIs == \A d \in delivered : IsWhole(d)

ClockIs == idle \in 0..Limit /\ quiet \in 0..Limit

Typed ==
  /\ SentTyped /\ WireIs /\ FragIs /\ SendingIs /\ CleanIs /\ DeliveredIs /\ Held(reasm)
  /\ ClockIs

\* What is known of messages stays known.
LEMMA KnownStays ==
  ASSUME Typed, Remembered
  PROVE  /\ WireIs /\ wire' = wire => WireIs'
         /\ rx_frag' = rx_frag => FragIs'
         /\ sending' = sending => SendingIs'
         /\ clean' = clean => CleanIs'
         /\ delivered' = delivered => DeliveredIs'
         /\ \A r : Held(r) => Held(r)'
PROOF
<1>1. SentTyped /\ Len(sent) \in Nat
  BY DEF Typed, SentTyped
<1>2. \A m, p : Known(m, p) => Known(m, p)' /\ sent'[m] = sent[m]
  BY <1>1, ContentStays DEF Known, Remembered
<1>3. \A s, m, p, a : Known(m, p) /\ Piece(s, m, p, a) => Piece(s, m, p, a)'
  BY <1>2 DEF Piece
<1>4. wire' = wire => WireIs'
  BY <1>2, <1>3 DEF Typed, WireIs
<1>5. rx_frag' = rx_frag => FragIs'
  BY <1>2 DEF Typed, FragIs
<1>6. sending' = sending => SendingIs'
  <2>1. SUFFICES ASSUME sending' = sending, sending # NoMessage PROVE SendingIs'
    BY DEF SendingIs
  <2>2. /\ sending \in [m : Nat, part : Nat] /\ sending.m \in 1..Len(sent)
        /\ sending.part \in 2..Parts(sending.m)
    BY <2>1 DEF Typed, SendingIs
  <2>3. PICK m \in 1..Len(sent) : m = sending.m
    BY <2>2
  <2>4. Parts(m)' = Parts(m) /\ m \in 1..Len(sent')
    BY <1>1, ContentStays
  <2> QED
    BY <2>1, <2>2, <2>3, <2>4 DEF SendingIs, Parts
<1>7. clean' = clean => CleanIs'
  BY <1>2 DEF Typed, CleanIs
<1>8. ASSUME NEW d, IsWhole(d) PROVE IsWhole(d)'
  <2>1. CASE \E m \in 1..Len(sent) : d = Content(m)
    BY <1>1, <2>1, ContentStays DEF IsWhole
  <2>2. CASE d[1].m \in 1..Len(sent) /\ ~Split(d[1].m)
    <3>1. PICK m \in 1..Len(sent) : m = d[1].m /\ ~Split(m)
      BY <2>2
    <3>2. m \in 1..Len(sent') /\ ~Split(m)'
      BY <1>1, <3>1, ContentStays
    <3> QED
      BY <3>1, <3>2 DEF IsWhole, Split
  <2> QED
    BY <1>8, <2>1, <2>2 DEF IsWhole
<1>9. delivered' = delivered => DeliveredIs'
  BY <1>8 DEF Typed, DeliveredIs
<1>10. ASSUME NEW r, Held(r) PROVE Held(r)'
  <2>1. CASE ~(r.in_progress \/ r.buf # <<>>)
    BY <1>10, <2>1 DEF Held, Within
  <2>2. CASE r.in_progress \/ r.buf # <<>>
    <3>1. PICK m \in 1..Len(sent) : m = r.of /\ Split(m)
      BY <1>10, <2>2 DEF Held, Within
    <3>2. m \in 1..Len(sent') /\ Split(m)' /\ Content(m)' = Content(m)
      BY <1>1, <3>1, ContentStays
    <3>3. PICK c : c = Content(m) /\ c = Content(m)'
      BY <3>2
    <3>4. Len(r.buf) <= Len(c) /\ Len(c) <= MaxTotal /\ r \in RType
      BY <1>10, <2>2, <3>1, <3>3 DEF Held, Within
    <3> QED
      BY <3>1, <3>2, <3>3, <3>4 DEF Held, Within
  <2> QED
    BY <2>1, <2>2
<1> QED
  BY <1>4, <1>5, <1>6, <1>7, <1>9, <1>10
-----------------------------------------------------------------------------
(* The types hold.                                                         *)

\* What is taken is held as all else is, and what comes of it is whole.
LEMMA TakenIs ==
  ASSUME SentTyped, NEW r, Held(r), NEW frag \in Seq(Units), NEW m, NEW p,
         frag # <<>>, m = frag[1].m, p = frag[1].part, Known(m, p),
         NEW t, t = Take(r, frag)
  PROVE  Held(t.reasm) /\ (t.message # <<>> => IsWhole(t.message))
PROOF
<1>1. CASE Refuses(t)
  BY <1>1 DEF Refuses, Held, Within
<1>2. CASE Singles(t, r, frag, m, p)
  BY <1>2 DEF Singles, IsWhole, Known
<1>3. CASE Begins(t, frag, m, p)
  <2>1. m \in 1..Len(sent) /\ m \in Nat /\ Split(m)
    BY <1>3 DEF Begins, Known, SentTyped
  <2>2. PICK a : a = [in_progress |-> TRUE, of |-> m, buf |-> frag]
    OBVIOUS
  <2>3. a \in RType /\ a.of = m /\ a.buf = frag
    BY <2>1, <2>2 DEF RType
  <2>4. Held(a)
    BY <1>3, <2>1, <2>3 DEF Begins, Held, Within
  <2> QED
    BY <1>3, <2>2, <2>4 DEF Begins
<1>4. ASSUME NEW on \in BOOLEAN, r.in_progress, Len(r.buf) + Len(frag) <= Len(Content(r.of))
      PROVE  Held([in_progress |-> on, of |-> r.of, buf |-> r.buf \o frag])
  <2>1. r.of \in 1..Len(sent) /\ Split(r.of) /\ Len(Content(r.of)) <= MaxTotal /\ r.of \in Nat
    BY <1>4 DEF Held, Within, RType
  <2>2. r.buf \in Seq(Units)
    BY DEF Held, RType
  <2>3. PICK b : b = r.buf \o frag
    OBVIOUS
  <2>4. b \in Seq(Units) /\ Len(b) = Len(r.buf) + Len(frag)
    BY <2>2, <2>3, ConcatProperties
  <2>5. PICK a : a = [in_progress |-> on, of |-> r.of, buf |-> b]
    OBVIOUS
  <2>6. a \in RType /\ a.of = r.of /\ a.buf = b
    BY <2>1, <2>4, <2>5 DEF RType
  <2>7. Held(a)
    BY <1>4, <2>1, <2>4, <2>6 DEF Held, Within
  <2> QED
    BY <2>3, <2>5, <2>7
<1>5. CASE GoesOn(t, r, frag, m, p)
  BY <1>4, <1>5 DEF GoesOn
<1>6. CASE Ends(t, r, frag, m, p)
  <2>1. r.buf \in Seq(Units) /\ r.in_progress /\ r.buf \o frag = Content(r.of)
    BY <1>6 DEF Held, RType, Ends
  <2>2. Len(r.buf \o frag) = Len(r.buf) + Len(frag) /\ Len(r.buf) \in Nat /\ Len(frag) \in Nat
    BY <2>1, ConcatProperties, LenProperties
  <2>3. Held([in_progress |-> FALSE, of |-> r.of, buf |-> r.buf \o frag])
    <3>1. Len(r.buf) + Len(frag) <= Len(Content(r.of))
      BY <2>1, <2>2
    <3> QED
      BY <1>4, <2>1, <3>1
  <2>4. IsWhole(t.message)
    BY <1>6, <2>1 DEF Ends, IsWhole, Held, Within
  <2> QED
    BY <1>6, <2>3, <2>4 DEF Ends
<1> QED
  BY <1>1, <1>2, <1>3, <1>5, <1>6, TakeIs

\* After a visit the reassembly is what it was or holds nothing.
LEMMA VisitHeld ==
  ASSUME NEW r, Held(r), Visit(r), idle \in Nat
  PROVE  Held(reasm') /\ idle' \in {idle, 0}
PROOF
<1>1. r \in RType
  BY DEF Held
<1>2. idle' \in {idle, 0} /\ (reasm' = r \/ GivesUp(r))
  BY <1>1, VisitIs
<1>3. ASSUME GivesUp(r) PROVE Held(reasm')
  BY <1>3 DEF GivesUp, Held, Within
<1> QED
  BY <1>2, <1>3

\* Nothing is forgotten when nothing is sent.
LEMMA SameSent == ASSUME SentTyped, sent' = sent PROVE Remembered
PROOF
<1>1. Len(sent) \in Nat
  BY DEF SentTyped
<1> QED
  BY <1>1 DEF Remembered, SentTyped

\* A step that reads keeps the types.
LEMMA TakingTyped ==
  ASSUME Typed, NEW f, Taking(f)
  PROVE  (SentTyped /\ WireIs /\ FragIs /\ SendingIs /\ CleanIs /\ DeliveredIs /\ Held(reasm))'
PROOF
<1>1. SentTyped /\ WireIs /\ FragIs /\ Reads(f) /\ sent' = sent /\ idle \in Nat /\ Held(reasm)
  BY LimitAssumption DEF Typed, Taking, Reads, ClockIs
<1>2. Remembered /\ SentTyped'
  BY <1>1, SameSent DEF SentTyped
<1>3. \A m, p : Known(m, p)' <=> Known(m, p)
  BY <1>1 DEF Known, Parts
<1>4. PICK u : u = wire[1]
  OBVIOUS
<1>5. /\ f.have \in Seq(Units) /\ f.have # <<>> /\ Known(f.have[1].m, f.have[1].part)
      /\ rx_frag' = (IF Len(f.have) = f.need THEN <<>> ELSE f.have)
  BY <1>1, <1>4, ReadsIs
<1>6. WireIs'
  <2>1. wire # <<>> /\ wire' = Tail(wire)
    BY <1>1 DEF Reads
  <2>2. CASE wire = <<Line>>
    <3>1. PICK n : n = Line
      OBVIOUS
    <3>2. wire' = <<>>
      BY <2>1, <2>2, <3>1
    <3> QED
      BY <3>2 DEF WireIs
  <2>3. ASSUME NEW m, NEW p, NEW a, Known(m, p), Piece(wire, m, p, a) PROVE WireIs'
    <3>1. Piece(wire', m, p, a + 1)
      BY <2>1, <2>3, PieceRest
    <3>2. Piece(wire, m, p, a + 1)'
      BY <1>1, <3>1 DEF Piece
    <3> QED
      BY <1>3, <2>3, <3>2 DEF WireIs
  <2> QED
    BY <1>1, <2>1, <2>2, <2>3 DEF WireIs
<1>7. FragIs'
  <2>1. CASE Len(f.have) = f.need
    <3>1. rx_frag' = <<>>
      BY <1>5, <2>1
    <3> QED
      BY <3>1, EmptySeq DEF FragIs
  <2>2. CASE Len(f.have) # f.need
    BY <1>3, <1>5, <2>2 DEF FragIs
  <2> QED
    BY <2>1, <2>2
<1>8. SendingIs'
  BY <1>2, KnownStays DEF Taking
<1>9. CASE ~Complete(f)
  <2>1. Visit(reasm) /\ delivered' = delivered /\ clean' = clean
    BY <1>9 DEF Taking, Feed
  <2>2. Held(reasm')
    BY <1>1, <2>1, VisitHeld
  <2>3. CleanIs' /\ DeliveredIs'
    BY <1>2, <2>1, KnownStays
  <2>4. Held(reasm)'
    BY <1>1, <2>2 DEF Held, Within, Split, Content, Fragment
  <2> QED
    BY <1>2, <1>6, <1>7, <1>8, <2>3, <2>4
<1>10. CASE Complete(f)
  <2>1. PICK t : t = Take(reasm, f.have)
    OBVIOUS
  <2>2. PICK m, p : m = f.have[1].m /\ p = f.have[1].part
    OBVIOUS
  <2>3. /\ Visit(t.reasm) /\ delivered' = delivered \union ({t.message} \ {<<>>})
        /\ clean' = IF AsSent(f) THEN clean \union {<<m, p>>} ELSE clean
    BY <1>10, <2>1, <2>2 DEF Taking, Feed
  <2>4. Held(t.reasm) /\ (t.message # <<>> => IsWhole(t.message))
    BY <1>1, <1>5, <2>1, <2>2, TakenIs
  <2>5. Held(reasm')
    BY <1>1, <2>3, <2>4, VisitHeld
  <2>6. Held(reasm)'
    BY <1>1, <2>5 DEF Held, Within, Split, Content, Fragment
  <2>7. DeliveredIs'
    <3>1. \A d : IsWhole(d) <=> IsWhole(d)'
      BY <1>1 DEF IsWhole, Split, Content, Fragment
    <3>2. \A d \in delivered' : d \in delivered \/ (d = t.message /\ d # <<>>)
      BY <2>3
    <3> QED
      BY <2>4, <3>1, <3>2 DEF DeliveredIs, Typed
  <2>8. CleanIs'
    <3>1. \A n, q : <<n, q>> \in clean' => <<n, q>> \in clean \/ (n = m /\ q = p)
      BY <2>3
    <3> QED
      BY <1>3, <1>5, <2>2, <3>1 DEF CleanIs, Typed
  <2> QED
    BY <1>2, <1>6, <1>7, <1>8, <2>6, <2>7, <2>8
<1> QED
  BY <1>9, <1>10

\* So does a step that neither reads nor sends.
LEMMA StillTyped ==
  ASSUME Typed, Still
  PROVE  (SentTyped /\ WireIs /\ FragIs /\ SendingIs /\ CleanIs /\ DeliveredIs /\ Held(reasm))'
PROOF
<1>1. /\ SentTyped /\ WireIs /\ idle \in Nat /\ Held(reasm) /\ sent' = sent /\ rx_frag' = rx_frag
      /\ clean' = clean /\ delivered' = delivered
  BY LimitAssumption DEF Typed, Still, ClockIs
<1>2. Remembered /\ SentTyped'
  BY <1>1, SameSent DEF SentTyped
<1>3. FragIs' /\ CleanIs' /\ DeliveredIs'
  BY <1>1, <1>2, KnownStays
<1>4. SendingIs'
  <2>1. CASE sending' = sending
    BY <1>2, <2>1, KnownStays
  <2>2. CASE sending' = NoMessage
    BY <2>2 DEF SendingIs, NoMessage
  <2> QED
    BY <2>1, <2>2 DEF Still, WireStill
<1>5. Held(reasm)'
  <2>1. Held(reasm')
    BY <1>1, VisitHeld DEF Still
  <2> QED
    BY <1>1, <2>1 DEF Held, Within, Split, Content, Fragment
<1>6. WireIs'
  <2>1. CASE wire' = wire
    BY <1>2, <2>1, <1>1, KnownStays
  <2>2. ASSUME NEW s, wire' = s, s = <<>> \/ s = wire \/ s = Tail(wire) \/ \E n \in 0..Len(wire) : s = SubSeq(wire, 1, n),
               wire # <<>>
        PROVE  WireIs'
    <3>1. CASE wire = <<Line>>
      <4>1. PICK l : l = Line
        OBVIOUS
      <4>2. Tail(wire) = <<>> /\ Len(wire) = 1
        BY <3>1, <4>1
      <4>3. \A n \in 0..1 : n = 0 \/ n = 1
        OBVIOUS
      <4>4. SubSeq(wire, 1, 0) = <<>> /\ SubSeq(wire, 1, 1) = wire
        <5>1. wire \in Seq({l})
          BY <3>1, <4>1
        <5> QED
          BY <4>2, <5>1, SubSeqEmpty, SubSeqFull
      <4>5. s = <<>> \/ s = wire
        BY <2>2, <4>2, <4>3, <4>4
      <4> QED
        BY <2>2, <3>1, <4>5 DEF WireIs, Line
    <3>2. ASSUME NEW m, NEW p, NEW a, Known(m, p), Piece(wire, m, p, a) PROVE WireIs'
      <4>1. s = <<>> \/ Piece(s, m, p, a) \/ Piece(s, m, p, a + 1)
        <5>1. Piece(Tail(wire), m, p, a + 1)
          BY <2>2, <3>2, PieceRest
        <5>2. ASSUME NEW n \in 0..Len(wire), s = SubSeq(wire, 1, n) PROVE Piece(s, m, p, a)
          <6>1. wire \in Seq(Units) /\ Len(wire) \in Nat /\ a \in Nat /\ a + Len(wire) <= sent[m].parts[p]
            BY <3>2 DEF Piece
          <6>2. sent[m].parts[p] \in Nat
            BY <1>1, <3>2, FragmentIs
          <6>3. s \in Seq(Units) /\ Len(s) = n /\ n \in Nat
            BY <5>2, <6>1
          <6>4. \A i \in 1..n : s[i] = wire[i] /\ i \in 1..Len(wire)
            BY <5>2, <6>1, <6>3
          <6>5. n <= Len(wire)
            BY <6>1
          <6>6. a + n <= sent[m].parts[p]
            BY <6>1, <6>2, <6>3, <6>5
          <6> QED
            BY <3>2, <6>1, <6>3, <6>4, <6>6 DEF Piece
        <5> QED
          BY <2>2, <3>2, <5>1, <5>2
      <4>2. \A b : Piece(s, m, p, b) => Piece(s, m, p, b)'
        BY <1>1 DEF Piece
      <4>3. Known(m, p)'
        BY <1>1, <3>2 DEF Known, Parts
      <4> QED
        BY <2>2, <4>1, <4>2, <4>3 DEF WireIs
    <3> QED
      BY <1>1, <2>2, <3>1, <3>2 DEF WireIs
  <2>3. CASE wire = <<>>
    <3>1. PICK s : s = wire
      OBVIOUS
    <3>2. \A n \in 0..Len(wire) : SubSeq(wire, 1, n) = <<>>
      BY <2>3
    <3>3. wire' = wire
      BY <2>3, <3>2 DEF Still, WireStill
    <3> QED
      BY <3>3, <2>1
  <2>4. CASE wire # <<>>
    <3>1. wire' = wire \/ wire' = Tail(wire) \/ \E n \in 0..Len(wire) : wire' = SubSeq(wire, 1, n)
      BY DEF Still, WireStill
    <3>2. PICK s : s = wire'
      OBVIOUS
    <3> QED
      BY <2>2, <2>4, <3>1, <3>2
  <2> QED
    BY <2>3, <2>4
<1> QED
  BY <1>2, <1>3, <1>4, <1>5, <1>6

\* A fragment is a piece of itself.
LEMMA FragmentPiece ==
  ASSUME SentTyped, NEW m, NEW p, Known(m, p)
  PROVE  Piece(Fragment(m, p), m, p, 0)
PROOF
<1>1. PICK w : w = Fragment(m, p)
  OBVIOUS
<1>2. PICK n \in Nat : n = sent[m].parts[p]
  BY FragmentIs
<1>3. w \in Seq(Units) /\ Len(w) = n /\ \A i \in 1..n : w[i] = [m |-> m, part |-> p, unit |-> 0 + i]
  BY <1>1, <1>2, FragmentIs
<1>4. 0 + Len(w) <= n
  BY <1>3
<1> QED
  BY <1>1, <1>2, <1>3, <1>4 DEF Piece

\* The wire a host has filled: with all of one fragment.
Sends(m, p) ==
  /\ wire = <<>> /\ Remembered /\ UNCHANGED <<device, disturbed>>
  /\ Known(m, p)' /\ Piece(wire, m, p, 0)' /\ wire' # <<>> /\ Len(wire') = sent'[m].parts[p]

\* A new message is sent by its first fragment, and if it is split the host is in it.
LEMMA SendIs ==
  ASSUME Typed, Send, NEW m, m = Len(sent) + 1
  PROVE  /\ Sends(m, 1) /\ m \in Nat /\ m \notin 1..Len(sent) /\ Len(sent') = m
         /\ \/ ~Split(m)' /\ sending' = sending
            \/ Split(m)' /\ sending = NoMessage /\ sending' = [m |-> m, part |-> 2]
PROOF
<1>1. sent \in Seq(Mail) /\ Len(sent) \in Nat
  BY DEF Typed, SentTyped
<1>2. PICK kind \in Mail :
        /\ Len(kind.parts) > 1 => sending = NoMessage
        /\ sent' = Append(sent, kind)
        /\ sending' = IF Len(kind.parts) > 1 THEN [m |-> m, part |-> 2] ELSE sending
        /\ wire' = [u \in 1..kind.parts[1] |-> [m |-> m, part |-> 1, unit |-> u]]
  BY DEF Send
<1>3. m \in Nat /\ m \notin 1..Len(sent) /\ sent' \in Seq(Mail) /\ Len(sent') = m /\ sent'[m] = kind
      /\ \A n \in 1..Len(sent) : sent'[n] = sent[n]
  BY <1>1, <1>2
<1>4. Remembered
  BY <1>1, <1>3 DEF Remembered, SentTyped
<1>5. Split(m)' <=> Len(kind.parts) > 1
  BY <1>3 DEF Split
<1>6. PICK n \in Nat \ {0} : n = kind.parts[1]
  <2>1. kind.parts \in Seq(Nat \ {0}) /\ kind.parts # <<>>
    BY MailIsFragments DEF MailAssumption
  <2>2. PICK s : s = kind.parts
    OBVIOUS
  <2>3. Len(s) \in Nat /\ Len(s) # 0
    BY <2>1, <2>2, EmptySeq
  <2>4. s[1] \in Nat \ {0}
    BY <2>1, <2>2, <2>3
  <2> QED
    BY <2>2, <2>4
<1>7. Known(m, 1)'
  <2>1. kind.parts \in Seq(Nat \ {0}) /\ kind.parts # <<>>
    BY MailIsFragments DEF MailAssumption
  <2>2. PICK s : s = kind.parts
    OBVIOUS
  <2>3. Len(s) \in Nat /\ Len(s) # 0
    BY <2>1, <2>2, EmptySeq
  <2>4. m >= 1
    BY <1>1
  <2> QED
    BY <1>3, <2>2, <2>3, <2>4 DEF Known, Parts
<1>8. PICK w : w = [u \in 1..n |-> [m |-> m, part |-> 1, unit |-> u]]
  OBVIOUS
<1>9. w \in Seq(Units) /\ Len(w) = n /\ w # <<>> /\ \A i \in 1..Len(w) : w[i] = [m |-> m, part |-> 1, unit |-> 0 + i]
  <2>1. \A u \in 1..n : u \in Nat /\ [m |-> m, part |-> 1, unit |-> u] \in Units /\ 0 + u = u
    BY <1>3 DEF Units
  <2>2. w \in Seq(Units) /\ Len(w) = n
    BY <1>8, <2>1
  <2> QED
    BY <1>8, <2>1, <2>2, EmptySeq
<1>10. wire' = w
  BY <1>2, <1>6, <1>8
<1>11. Piece(wire, m, 1, 0)'
  <2>1. 0 + Len(w) <= n /\ n = sent'[m].parts[1]
    BY <1>3, <1>6, <1>9
  <2> QED
    BY <1>9, <1>10, <2>1 DEF Piece
<1>12. Sends(m, 1)
  BY <1>3, <1>4, <1>6, <1>7, <1>9, <1>10, <1>11 DEF Send, Sends
<1> QED
  BY <1>2, <1>3, <1>5, <1>12

\* The next fragment is sent of the message the host is in.
LEMMA SendNextIs ==
  ASSUME Typed, SendNext, NEW m, NEW p, m = sending.m, p = sending.part
  PROVE  /\ Sends(m, p) /\ Known(m, p) /\ Split(m) /\ p \in 2..Parts(m) /\ sent' = sent
         /\ \/ p = Parts(m) /\ sending' = NoMessage
            \/ p < Parts(m) /\ sending' = [m |-> m, part |-> p + 1]
PROOF
<1>1. /\ sending # NoMessage /\ wire' = Fragment(m, p) /\ wire = <<>> /\ sent' = sent
      /\ sending' = IF p = Len(sent[m].parts) THEN NoMessage ELSE [sending EXCEPT !.part = @ + 1]
      /\ UNCHANGED <<device, disturbed>>
  BY DEF SendNext
<1>2. sending \in [m : Nat, part : Nat] /\ m \in 1..Len(sent) /\ p \in 2..Parts(m)
  BY <1>1 DEF Typed, SendingIs
<1>3. SentTyped /\ Remembered
  BY <1>1, SameSent DEF Typed
<1>4. Parts(m) \in Nat
  BY <1>2, <1>3, PartsAre
<1>5. Known(m, p) /\ p \in Nat /\ m \in Nat
  BY <1>2, <1>4 DEF Known
<1>6. Split(m)
  BY <1>2, <1>4 DEF Split, Parts
<1>7. Known(m, p)'
  BY <1>1, <1>5 DEF Known, Parts
<1>8. Piece(wire, m, p, 0)'
  BY <1>1, <1>3, <1>5, FragmentPiece DEF Piece
<1>9. wire' # <<>> /\ Len(wire') = sent'[m].parts[p]
  BY <1>1, <1>3, <1>5, FragmentIs
<1>10. Sends(m, p)
  BY <1>1, <1>3, <1>7, <1>8, <1>9 DEF Sends
<1>11. p # Parts(m) => p < Parts(m) /\ sending' = [m |-> m, part |-> p + 1]
  <2>1. SUFFICES ASSUME p # Parts(m) PROVE p < Parts(m) /\ sending' = [m |-> m, part |-> p + 1]
    OBVIOUS
  <2>2. p < Parts(m)
    BY <1>2, <1>4, <2>1
  <2>3. [sending EXCEPT !.part = @ + 1] = [m |-> m, part |-> p + 1]
    BY <1>2
  <2> QED
    BY <1>1, <2>1, <2>2, <2>3 DEF Parts
<1> QED
  BY <1>1, <1>2, <1>5, <1>6, <1>10, <1>11 DEF Parts

\* The clocks stop at the limit.
LEMMA ClockHolds == ASSUME Typed, [Next]_vars PROVE ClockIs'
PROOF
<1>1. idle \in 0..Limit /\ quiet \in 0..Limit /\ idle \in Nat /\ Limit \in Nat /\ Held(reasm)
  BY LimitAssumption DEF Typed, ClockIs
<1>2. CASE Tick
  BY <1>1, <1>2 DEF Tick, ClockIs
<1>3. ASSUME \E r : Visit(r) PROVE idle' \in 0..Limit
  <2>1. idle' \in {idle, 0}
    BY <1>3 DEF Visit, Progress, clock
  <2> QED
    BY <1>1, <2>1
<1>4. CASE PassTaking
  <2>1. PICK f \in Collecting(Head(wire)) : Feed(f)
    BY <1>4 DEF PassTaking
  <2>2. (\E r : Visit(r)) /\ quiet' \in {quiet, 0}
    BY <2>1 DEF Feed
  <2> QED
    BY <1>1, <1>3, <2>2 DEF ClockIs
<1>5. CASE PassConsole \/ PassIdle \/ CommandEnds
  BY <1>1, <1>3, <1>5 DEF PassConsole, PassIdle, CommandEnds, ClockIs
<1>6. CASE CommandBegins \/ Send \/ SendNext \/ SendLine \/ HostDies \/ Unplug \/ Plug \/ UNCHANGED vars
  BY <1>1, <1>6 DEF CommandBegins, Send, SendNext, SendLine, HostDies, Unplug, Plug, vars, device, clock, ClockIs
<1> QED
  BY <1>2, <1>4, <1>5, <1>6 DEF Next, Pass, Host

\* Sending keeps the types.
LEMMA SendsTyped ==
  ASSUME Typed, NEW m, NEW p, Sends(m, p), SendingIs'
  PROVE  (SentTyped /\ WireIs /\ FragIs /\ SendingIs /\ CleanIs /\ DeliveredIs /\ Held(reasm))'
PROOF
<1>1. Remembered /\ rx_frag' = rx_frag /\ clean' = clean /\ delivered' = delivered /\ reasm' = reasm
  BY DEF Sends, device, frame
<1>2. SentTyped' /\ FragIs' /\ CleanIs' /\ DeliveredIs' /\ \A r : Held(r) => Held(r)'
  BY <1>1, KnownStays DEF Remembered
<1>3. WireIs'
  BY DEF Sends, WireIs
<1>4. Held(reasm)'
  BY <1>1, <1>2 DEF Typed, Held, Within
<1> QED
  BY <1>2, <1>3, <1>4

\* Every step keeps the types.
LEMMA TypedHolds == ASSUME Typed, [Next]_vars PROVE Typed'
PROOF
<1>1. CASE \E f : Taking(f)
  BY <1>1, TakingTyped, ClockHolds DEF Typed
<1>2. CASE Still
  BY <1>2, StillTyped, ClockHolds DEF Typed
<1>3. CASE Send
  <2>1. PICK m : m = Len(sent) + 1
    OBVIOUS
  <2>2. /\ Sends(m, 1) /\ m \in Nat /\ Len(sent') = m
        /\ \/ ~Split(m)' /\ sending' = sending
           \/ Split(m)' /\ sending = NoMessage /\ sending' = [m |-> m, part |-> 2]
    BY <1>3, <2>1, SendIs
  <2>3. SendingIs'
    <3>1. CASE sending' = sending
      BY <2>2, <3>1, KnownStays DEF Sends
    <3>2. CASE Split(m)' /\ sending' = [m |-> m, part |-> 2]
      <4>1. PICK s : s = [m |-> m, part |-> 2]
        OBVIOUS
      <4>2. s.m = m /\ s.part = 2 /\ s \in [m : Nat, part : Nat]
        BY <2>2, <4>1
      <4>3. Parts(m)' \in Nat /\ m \in 1..Len(sent')
        <5>1. m \in 1..Len(sent') /\ sent' \in Seq(Mail)
          BY <2>2 DEF Sends, Known, Remembered, SentTyped
        <5>2. PICK kind \in Mail : kind = sent'[m]
          BY <5>1
        <5>3. kind.parts \in Seq(Nat \ {0})
          BY MailIsFragments DEF MailAssumption
        <5> QED
          BY <5>1, <5>2, <5>3 DEF Parts
      <4>4. 2 \in 2..Parts(m)'
        BY <3>2, <4>3 DEF Split, Parts
      <4> QED
        BY <3>2, <4>1, <4>2, <4>3, <4>4 DEF SendingIs, Parts
    <3> QED
      BY <2>2, <3>1, <3>2
  <2> QED
    BY <1>3, <2>2, <2>3, SendsTyped, ClockHolds DEF Typed
<1>4. CASE SendNext
  <2>1. PICK m, p : m = sending.m /\ p = sending.part
    OBVIOUS
  <2>2. /\ Sends(m, p) /\ Known(m, p) /\ p \in 2..Parts(m) /\ sent' = sent
        /\ \/ p = Parts(m) /\ sending' = NoMessage
           \/ p < Parts(m) /\ sending' = [m |-> m, part |-> p + 1]
    BY <1>4, <2>1, SendNextIs
  <2>3. SendingIs'
    <3>1. CASE sending' = NoMessage
      BY <3>1 DEF SendingIs, NoMessage
    <3>2. CASE p < Parts(m) /\ sending' = [m |-> m, part |-> p + 1]
      <4>1. PICK s : s = [m |-> m, part |-> p + 1]
        OBVIOUS
      <4>2. Parts(m) \in Nat /\ m \in 1..Len(sent) /\ m \in Nat
        BY <2>2, PartsAre DEF Known, Typed, SentTyped
      <4>3. p + 1 \in 2..Parts(m) /\ p + 1 \in Nat
        BY <2>2, <3>2, <4>2
      <4>4. s.m = m /\ s.part = p + 1 /\ s \in [m : Nat, part : Nat]
        BY <4>1, <4>2, <4>3
      <4> QED
        BY <2>2, <3>2, <4>1, <4>2, <4>3, <4>4 DEF SendingIs, Parts
    <3> QED
      BY <2>2, <3>1, <3>2
  <2> QED
    BY <1>4, <2>2, <2>3, SendsTyped, ClockHolds DEF Typed
<1>5. CASE SendLine
  <2>1. /\ wire' = <<Line>> /\ sending' = sending /\ sent' = sent /\ rx_frag' = rx_frag
        /\ clean' = clean /\ delivered' = delivered /\ reasm' = reasm
    BY <1>5 DEF SendLine, device, frame
  <2>2. Remembered
    BY <2>1, SameSent DEF Typed
  <2>3. SentTyped' /\ FragIs' /\ CleanIs' /\ DeliveredIs' /\ SendingIs' /\ \A r : Held(r) => Held(r)'
    BY <2>1, <2>2, KnownStays DEF Remembered
  <2>4. WireIs'
    BY <2>1 DEF WireIs, Line
  <2>5. Held(reasm)'
    BY <2>1, <2>3 DEF Typed, Held, Within
  <2> QED
    BY <1>5, <2>3, <2>4, <2>5, ClockHolds DEF Typed
<1> QED
  BY <1>1, <1>2, <1>3, <1>4, <1>5, StepsAre

\* The types hold at the start.
LEMMA TypedFirst == ASSUME Init PROVE Typed
PROOF
<1>1. PICK b : b = <<>>
  OBVIOUS
<1>2. b \in Seq(Units) /\ b \in Seq(Mail) /\ Len(b) = 0
  BY <1>1
<1>3. PICK r : r = [in_progress |-> FALSE, of |-> 0, buf |-> b]
  OBVIOUS
<1>4. r \in RType /\ ~r.in_progress /\ r.buf = <<>>
  BY <1>1, <1>2, <1>3 DEF RType
<1>5. Held(reasm)
  BY <1>1, <1>3, <1>4 DEF Init, Held, Within
<1>6. SentTyped /\ WireIs /\ FragIs
  BY <1>1, <1>2 DEF Init, SentTyped, WireIs, FragIs
<1>7. SendingIs /\ CleanIs /\ DeliveredIs
  BY DEF Init, SendingIs, CleanIs, DeliveredIs
<1>8. ClockIs
  BY LimitAssumption DEF Init, ClockIs
<1> QED
  BY <1>5, <1>6, <1>7, <1>8 DEF Typed

\* The types, and what is known of every unit on its way, hold whatever hosts come and go
\* (session.c:452-545, frame.c:222-324).
THEOREM TypeCorrect == Spec => []Typed
PROOF
<1>1. Init => Typed
  BY TypedFirst
<1>2. Typed /\ [Next]_vars => Typed'
  BY TypedHolds
<1> QED
  BY <1>1, <1>2, PTL DEF Spec

\* A split message reaches its handler as it was sent or not at all, and while it is collected
\* outgrows neither what it announced nor the buffer (frame.c:295-309), for any messages and any
\* number of lost hosts.
THEOREM SplitArrivesWholeHolds == Spec => []SplitArrivesWhole
PROOF
<1>1. ASSUME Typed PROVE SplitArrivesWhole
  <2>1. \A d \in delivered : Split(d[1].m) => \E m \in 1..Len(sent) : d = Content(m)
    BY <1>1 DEF Typed, DeliveredIs, IsWhole
  <2>2. reasm.buf # <<>> => Len(reasm.buf) <= Len(Content(reasm.of)) /\ Len(reasm.buf) <= MaxTotal
    <3>1. SUFFICES ASSUME reasm.buf # <<>>
                   PROVE  Len(reasm.buf) <= Len(Content(reasm.of)) /\ Len(reasm.buf) <= MaxTotal
      OBVIOUS
    <3>2. /\ SentTyped /\ reasm.of \in 1..Len(sent) /\ reasm.buf \in Seq(Units)
          /\ Len(reasm.buf) <= Len(Content(reasm.of)) /\ Len(Content(reasm.of)) <= MaxTotal
      BY <1>1, <3>1 DEF Typed, Held, Within, RType
    <3>3. PICK a, b : a = Len(reasm.buf) /\ b = Len(Content(reasm.of))
      OBVIOUS
    <3>4. a \in Nat /\ b \in Nat /\ MaxTotal \in Nat
      BY <3>2, <3>3, FlatTyped, LimitAssumption
    <3> QED
      BY <3>2, <3>3, <3>4
  <2> QED
    BY <2>1, <2>2 DEF SplitArrivesWhole
<1> QED
  BY <1>1, TypeCorrect, PTL
-----------------------------------------------------------------------------
(* What is sent in order is taken.                                         *)

\* The first unit of a fragment is its header.
LEMMA HeaderIs ==
  ASSUME SentTyped, NEW m, NEW p, Known(m, p), NEW frag, frag = Fragment(m, p)
  PROVE  frag \in Seq(Units) /\ frag # <<>> /\ frag[1].m = m /\ frag[1].part = p /\ frag[1].unit = 1
PROOF
<1>1. PICK n \in Nat \ {0} : n = sent[m].parts[p]
  BY FragmentIs
<1>2. frag \in Seq(Units) /\ frag # <<>> /\ \A i \in 1..n : frag[i] = [m |-> m, part |-> p, unit |-> i]
  BY <1>1, FragmentIs
<1>3. frag[1] = [m |-> m, part |-> p, unit |-> 1]
  BY <1>2
<1> QED
  BY <1>2, <1>3

\* A message of one fragment is delivered, whatever is in progress.
LEMMA SingleTaken ==
  ASSUME SentTyped, NEW m, Known(m, 1), ~Split(m), NEW r, NEW frag, frag = Fragment(m, 1),
         NEW t, t = Take(r, frag)
  PROVE  t.reasm = r /\ t.message = Content(m) /\ t.message # <<>>
PROOF
<1>1. m \in 1..Len(sent)
  BY DEF Known
<1>2. Parts(m) = 1 /\ Content(m) = frag
  BY <1>1, SingleIs
<1>3. frag # <<>> /\ frag[1].m = m /\ frag[1].part = 1 /\ frag[1].unit = 1
  BY HeaderIs
<1>4. t = TakeSingle(r, frag)
  BY <1>2, <1>3 DEF Take, Parts
<1> QED
  BY <1>2, <1>3, <1>4 DEF TakeSingle

\* A fragment that follows what is collected is added to it, and the last completes the message.
LEMMA NextTaken ==
  ASSUME SentTyped, NEW m, NEW p, Known(m, p), Split(m), Len(Content(m)) <= MaxTotal,
         NEW r, p # 1 => r = [in_progress |-> TRUE, of |-> m, buf |-> Flat(m, p - 1)],
         NEW frag, frag = Fragment(m, p), NEW t, t = Take(r, frag)
  PROVE  /\ p < Parts(m) => t.reasm = [in_progress |-> TRUE, of |-> m, buf |-> Flat(m, p)]
         /\ p = Parts(m) => t.message = Content(m) /\ t.message # <<>>
PROOF
<1>1. m \in 1..Len(sent) /\ Parts(m) \in Nat \ {0} /\ Parts(m) > 1 /\ p \in 1..Parts(m)
  BY PartsAre DEF Known, Split, Parts
<1>2. frag \in Seq(Units) /\ frag # <<>> /\ frag[1].m = m /\ frag[1].part = p /\ frag[1].unit = 1
  BY HeaderIs
<1>3. PICK c : c = Content(m)
  OBVIOUS
<1>4. c \in Seq(Units) /\ Len(c) \in Nat /\ c = Flat(m, Parts(m)) /\ MaxTotal \in Nat
  BY <1>1, <1>3, FlatTyped, FlatSteps, LimitAssumption
<1>5. PICK b : b = Flat(m, p)
  OBVIOUS
<1>6. b \in Seq(Units) /\ Len(b) \in Nat /\ Len(b) <= Len(c)
  <2>1. Len(Flat(m, p)) <= Len(Content(m)) /\ Flat(m, p) \in Seq(Units)
    BY <1>1, FlatFits, FlatTyped
  <2>2. b \in Seq(Units) /\ Len(b) <= Len(c)
    BY ONLY <1>3, <1>5, <2>1, Zenon
  <2> QED
    BY <2>2, LenProperties
<1>7. CASE p = 1
  <2>1. b = frag
    BY <1>1, <1>5, <1>7, FlatSteps
  <2>2. ~(Len(c) > MaxTotal)
    BY <1>3, <1>4
  <2>3. t = Collect(Adopt(r, m), frag, FALSE)
    <3>1. t = IF Len(Content(m)) > MaxTotal THEN Refuse(r) ELSE Collect(Adopt(r, m), frag, FALSE)
      <4>1. Parts(m) # 1
        BY <1>1
      <4>2. frag[1].part = 1 /\ frag[1].part # Len(sent[m].parts)
        BY ONLY <1>2, <1>7, <4>1, Zenon DEF Parts
      <4> QED
        BY <1>2, <4>2 DEF Take
    <3> QED
      BY <1>3, <2>2, <3>1
  <2>4. PICK e : e = <<>> /\ e \in Seq(Units) /\ Len(e) = 0
    BY EmptySeq
  <2>5. e \o frag = frag
    BY <1>2, <2>4
  <2>6. PICK a : a = [in_progress |-> TRUE, of |-> m, buf |-> e]
    OBVIOUS
  <2>7. a.of = m /\ a.buf = e /\ [a EXCEPT !.buf = @ \o frag] = [in_progress |-> TRUE, of |-> m, buf |-> frag]
    <3>1. a.of = m /\ a.buf = e /\ [a EXCEPT !.buf = frag] = [in_progress |-> TRUE, of |-> m, buf |-> frag]
      <4>1. m \in Nat
        BY <1>1 DEF SentTyped
      <4>2. a \in RType
        BY <2>4, <2>6, <4>1 DEF RType
      <4>3. PICK g : g = [a EXCEPT !.buf = frag]
        OBVIOUS
      <4>4. a.of = m /\ a.buf = e /\ a.in_progress = TRUE
        BY ONLY <2>6
      <4>5. g \in RType /\ g.of = m /\ g.buf = frag /\ g.in_progress = TRUE
        BY ONLY <1>2, <4>2, <4>3, <4>4 DEF RType
      <4>6. g = [in_progress |-> TRUE, of |-> m, buf |-> frag]
        BY ONLY <4>5 DEF RType
      <4> QED
        BY <4>3, <4>4, <4>6
    <3>2. a.buf \o frag = frag
      BY <2>5, <3>1
    <3> QED
      BY <3>1, <3>2
  <2>8. ~TooLong(a, frag)
    <3>1. Len(frag) \in Nat /\ ~(0 + Len(frag) > Len(c))
      BY <1>4, <1>6, <2>1
    <3> QED
      BY <1>3, <2>4, <2>7, <3>1 DEF TooLong
  <2>9. t = Collect(a, frag, FALSE)
    BY <2>3, <2>4, <2>6 DEF Adopt
  <2>10. t = Keep([a EXCEPT !.buf = @ \o frag])
    BY <2>8, <2>9 DEF Collect
  <2>11. t.reasm = [in_progress |-> TRUE, of |-> m, buf |-> b]
    BY <2>1, <2>7, <2>10 DEF Keep
  <2>12. p # Parts(m)
    BY <1>1, <1>7
  <2> QED
    BY <1>5, <2>11, <2>12
<1>8. CASE p # 1
  <2>1. p - 1 \in 1..Parts(m) /\ p - 1 \in Nat \ {0} /\ (p - 1) + 1 = p
    BY <1>1, <1>8
  <2>2. PICK a : a = Flat(m, p - 1)
    OBVIOUS
  <2>3. a \in Seq(Units)
    BY <1>1, <2>1, <2>2, FlatTyped
  <2>4. b = a \o frag
    BY <1>1, <1>5, <2>1, <2>2, FlatSteps
  <2>5. r.in_progress /\ r.of = m /\ r.buf = a /\ r = [in_progress |-> TRUE, of |-> m, buf |-> a]
    BY <1>8, <2>2
  <2>6. MayContinue(r, m)
    BY <2>5 DEF MayContinue
  <2>7. t = Collect(r, frag, p = Parts(m))
    BY <1>1, <1>2, <1>8, <2>6 DEF Take, Parts
  <2>8. ~TooLong(r, frag)
    <3>1. Len(b) = Len(a) + Len(frag) /\ Len(a) \in Nat /\ Len(frag) \in Nat
      BY <1>2, <2>3, <2>4
    <3>2. ~(Len(a) + Len(frag) > Len(c))
      BY <1>4, <1>6, <3>1
    <3> QED
      BY <1>3, <2>5, <3>2 DEF TooLong
  <2>9. PICK g : g = [r EXCEPT !.buf = @ \o frag]
    OBVIOUS
  <2>10. g = [in_progress |-> TRUE, of |-> m, buf |-> b]
    BY <2>4, <2>5, <2>9
  <2>11. CASE p # Parts(m)
    <3>1. t = Keep(g)
      BY <2>7, <2>8, <2>9, <2>11 DEF Collect
    <3> QED
      BY <1>5, <2>10, <2>11, <3>1 DEF Keep
  <2>12. CASE p = Parts(m)
    <3>1. b = c
      BY <1>4, <1>5, <2>12
    <3>2. Matches(g.buf, r.of)
      BY <1>3, <2>5, <2>10, <3>1 DEF Matches
    <3>3. t = [reasm |-> [g EXCEPT !.in_progress = FALSE], message |-> g.buf]
      BY <2>7, <2>8, <2>9, <2>12, <3>2 DEF Collect
    <3>4. t.message = c
      BY <2>10, <3>1, <3>3
    <3>5. c # <<>>
      <4>1. Len(b) = Len(a) + Len(frag) /\ Len(a) \in Nat /\ Len(frag) \in Nat
        BY <1>2, <2>3, <2>4
      <4>2. Len(frag) # 0
        BY <1>2, EmptySeq
      <4>3. Len(c) # 0
        BY <3>1, <4>1, <4>2
      <4> QED
        BY <4>3
    <3> QED
      BY <1>1, <1>3, <2>12, <3>4, <3>5
  <2> QED
    BY <2>11, <2>12
<1> QED
  BY <1>7, <1>8
-----------------------------------------------------------------------------
(* What is handed over in order is delivered.                              *)

\* A fragment that may still come as it was sent: the host has it to send, or it is
\* on its way.
Coming(m, p) ==
  Known(m, p) /\ ((sending.m = m /\ sending.part <= p) \/ InFlight(m, p))

\* The fragments of a message come in order, each once.
Ordered == \A m, p, q : <<m, p>> \in clean /\ Coming(m, q) => p < q
\* The host is at the fragment after the one on its way.
Follows ==
  \A m, p : InFlight(m, p) /\ Split(m) =>
    sending = NoMessage \/ (sending.m = m /\ sending.part = p + 1)
\* The fragments handed over of a message that goes on are the reassembly.
Gathered ==
  \A m, k :
    /\ Known(m, k) /\ Split(m) /\ Len(Content(m)) <= MaxTotal /\ m \notin givenUp
    /\ \A i \in 1..k : <<m, i>> \in clean
    /\ Coming(m, k + 1)
    => reasm = [in_progress |-> TRUE, of |-> m, buf |-> Flat(m, k)]
\* Between two fragments of a message come lines and single messages, and they whole.
Calm ==
  \/ rx_frag = <<>> /\ (wire = <<>> \/ wire = <<Line>>)
  \/ \E q : InFlight(q, 1) /\ ~Split(q)
Between == sending # NoMessage /\ <<sending.m, sending.part - 1>> \in clean => Calm

InOrder == Typed /\ Ordered /\ Follows /\ Gathered /\ Between /\ CleanIsDelivered

\* With the same messages sent, a message is what it was.
LEMMA AsBefore ==
  ASSUME sent' = sent
  PROVE  /\ \A m : Split(m)' = Split(m) /\ Content(m)' = Content(m) /\ Parts(m)' = Parts(m)
         /\ \A m, p : /\ (Known(m, p)' <=> Known(m, p)) /\ Flat(m, p)' = Flat(m, p)
                      /\ Fragment(m, p)' = Fragment(m, p)
PROOF
<1>1. \A m : Split(m)' = Split(m) /\ Content(m)' = Content(m) /\ Parts(m)' = Parts(m)
  BY DEF Split, Content, Parts, Fragment
<1>2. \A m, p : (Known(m, p)' <=> Known(m, p)) /\ Flat(m, p)' = Flat(m, p) /\ Fragment(m, p)' = Fragment(m, p)
  BY DEF Known, Flat, Parts, Fragment
<1> QED
  BY <1>1, <1>2

\* What comes after a step that sends nothing would have come before it.
LEMMA ComingCame ==
  ASSUME Typed, (\E f : Taking(f)) \/ Still
  PROVE  /\ sent' = sent /\ (sending' = sending \/ sending' = NoMessage)
         /\ \A m, q : InFlight(m, q)' => InFlight(m, q)
         /\ \A m, q : Coming(m, q)' => Coming(m, q)
PROOF
<1>1. sent' = sent /\ (sending' = sending \/ sending' = NoMessage)
  BY DEF Taking, Reads, Still, WireStill
<1>2. SentTyped /\ WireIs /\ FragIs
  BY DEF Typed
<1>3. ASSUME NEW m, NEW q, InFlight(m, q)' PROVE InFlight(m, q)
  <2>1. CASE \E f : Taking(f)
    BY <1>2, <1>3, <2>1, InFlightCame DEF Taking
  <2>2. CASE Still
    <3>1. /\ UNCHANGED <<sent, rx_frag, rx_need>>
          /\ \/ wire' = wire
             \/ rx_frag = <<>> /\ wire # <<>> /\ wire' = Tail(wire)
             \/ \E n \in 0..Len(wire) : wire' = SubSeq(wire, 1, n)
      BY <2>2 DEF Still, WireStill
    <3> QED
      BY <1>2, <1>3, <3>1, InFlightStays
  <2> QED
    BY <2>1, <2>2
<1>4. ASSUME NEW m, NEW q, Coming(m, q)' PROVE Coming(m, q)
  <2>1. Known(m, q)
    BY <1>1, <1>4, AsBefore DEF Coming
  <2>2. CASE InFlight(m, q)'
    BY <1>3, <2>1, <2>2 DEF Coming
  <2>3. CASE sending'.m = m /\ sending'.part <= q
    <3>1. sending' # NoMessage
      BY <1>2, <2>1, <2>3 DEF NoMessage, Known, SentTyped
    <3> QED
      BY <1>1, <2>1, <2>3, <3>1 DEF Coming
  <2> QED
    BY <1>4, <2>2, <2>3 DEF Coming
<1> QED
  BY <1>1, <1>3, <1>4

\* A reassembly that is not given up in a visit is kept.
LEMMA VisitKeeps ==
  ASSUME NEW r \in RType, Visit(r), idle \in Nat, r.of \notin givenUp'
  PROVE  reasm' = r
PROOF
<1>1. (reasm' = r /\ givenUp' = givenUp) \/ GivesUp(r)
  BY VisitIs
<1> QED
  BY <1>1 DEF GivesUp

\* No message that was given up is taken back.
LEMMA GivenUpStays ==
  ASSUME Typed, (\E f : Taking(f)) \/ Still PROVE givenUp \subseteq givenUp'
PROOF
<1>1. (\E r : Visit(r)) \/ UNCHANGED givenUp
  BY DEF Taking, Still, Feed
<1> QED
  BY <1>1 DEF Visit, clock

\* A step that neither reads nor sends.
LEMMA StillClean ==
  ASSUME InOrder, Still
  PROVE  Ordered' /\ Follows' /\ Gathered' /\ Between' /\ CleanIsDelivered'
PROOF
<1>1. /\ Typed /\ sent' = sent /\ clean' = clean /\ delivered' = delivered /\ rx_frag' = rx_frag
      /\ givenUp \subseteq givenUp' /\ (sending' = sending \/ sending' = NoMessage)
      /\ idle \in Nat /\ reasm \in RType
  BY GivenUpStays, ComingCame, LimitAssumption DEF InOrder, Still, Typed, ClockIs, Held
<1>2. \A m, q : InFlight(m, q)' => InFlight(m, q)
  BY <1>1, ComingCame
<1>3. \A m, q : Coming(m, q)' => Coming(m, q)
  BY <1>1, ComingCame
<1>4. Ordered'
  BY <1>1, <1>3 DEF InOrder, Ordered
<1>5. Follows'
  BY <1>1, <1>2, AsBefore DEF InOrder, Follows
<1>6. Gathered'
  <2>1. SUFFICES ASSUME NEW m, NEW k, Known(m, k)', Split(m)', (Len(Content(m)) <= MaxTotal)',
                        m \notin givenUp', \A i \in 1..k : <<m, i>> \in clean', Coming(m, k + 1)'
                 PROVE  reasm' = [in_progress |-> TRUE, of |-> m, buf |-> Flat(m, k)']
    BY DEF Gathered
  <2>2. Known(m, k) /\ Split(m) /\ Len(Content(m)) <= MaxTotal /\ Flat(m, k)' = Flat(m, k)
    BY <1>1, <2>1, AsBefore
  <2>3. m \notin givenUp /\ (\A i \in 1..k : <<m, i>> \in clean) /\ Coming(m, k + 1)
    BY <1>1, <1>3, <2>1
  <2>4. reasm = [in_progress |-> TRUE, of |-> m, buf |-> Flat(m, k)]
    BY <2>2, <2>3 DEF InOrder, Gathered
  <2>5. reasm' = reasm
    BY <1>1, <2>1, <2>4, VisitKeeps DEF Still
  <2> QED
    BY <2>2, <2>4, <2>5
<1>7. Between'
  <2>1. SUFFICES ASSUME sending' # NoMessage, <<sending'.m, sending'.part - 1>> \in clean' PROVE Calm'
    BY DEF Between
  <2>2. sending' = sending /\ Calm
    BY <1>1, <2>1 DEF InOrder, Between
  <2>3. CASE wire' = wire
    <3>1. \A q : InFlight(q, 1) /\ ~Split(q) => InFlight(q, 1)' /\ ~Split(q)'
      BY <1>1, <2>3 DEF Still, InFlight, Piece, Known, Split, Parts
    <3> QED
      BY <1>1, <2>2, <2>3, <3>1 DEF Calm, Line
  <2>4. CASE rx_frag = <<>> /\ wire # <<>> /\ wire[1].unit # 1 /\ wire' = Tail(wire)
    <3>1. ASSUME NEW q, InFlight(q, 1) PROVE FALSE
      <4>1. PICK w : w = wire
        OBVIOUS
      <4>2. Piece(w, q, 1, 0)
        BY <2>4, <3>1, <4>1 DEF InFlight
      <4>3. w[1].unit = 0 + 1
        BY <2>4, <4>1, <4>2, PieceIs
      <4> QED
        BY <2>4, <4>1, <4>3
    <3>2. wire = <<Line>>
      BY <2>2, <2>4, <3>1 DEF Calm
    <3>3. PICK l : l = Line
      OBVIOUS
    <3>4. wire' = <<>>
      BY <2>4, <3>2, <3>3
    <3> QED
      BY <1>1, <2>4, <3>4 DEF Calm
  <2> QED
    BY <2>1, <2>3, <2>4 DEF Still, WireStill
<1>8. CleanIsDelivered'
  <2>1. SUFFICES ASSUME NEW m \in 1..Len(sent'), \A p \in DOMAIN sent'[m].parts : <<m, p>> \in clean',
                        ~(Split(m)' /\ (Len(Content(m)) > MaxTotal)'), m \notin givenUp'
                 PROVE  Content(m)' \in delivered'
    BY DEF CleanIsDelivered
  <2>2. m \in 1..Len(sent) /\ (\A p \in DOMAIN sent[m].parts : <<m, p>> \in clean) /\ m \notin givenUp
    BY <1>1, <2>1
  <2>3. ~(Split(m) /\ Len(Content(m)) > MaxTotal) /\ Content(m)' = Content(m)
    BY <1>1, <2>1, AsBefore
  <2> QED
    BY <1>1, <2>2, <2>3 DEF InOrder, CleanIsDelivered
<1> QED
  BY <1>4, <1>5, <1>6, <1>7, <1>8

\* What a complete fragment does.
LEMMA CompleteIs ==
  ASSUME Typed, NEW f, Taking(f), Complete(f), NEW t, t = Take(reasm, f.have)
  PROVE  /\ Visit(t.reasm) /\ t.reasm \in RType /\ rx_frag' = <<>>
         /\ delivered' = delivered \union ({t.message} \ {<<>>})
PROOF
<1>1. PICK u : u = wire[1]
  OBVIOUS
<1>2. /\ SentTyped /\ f.have \in Seq(Units) /\ f.have # <<>> /\ Known(f.have[1].m, f.have[1].part)
      /\ rx_frag' = (IF Len(f.have) = f.need THEN <<>> ELSE f.have)
  BY <1>1, ReadsIs DEF Typed, Taking
<1>3. PICK m, p : m = f.have[1].m /\ p = f.have[1].part
  OBVIOUS
<1>4. Held(t.reasm)
  BY <1>2, <1>3, TakenIs DEF Typed
<1>5. Visit(t.reasm) /\ delivered' = delivered \union ({t.message} \ {<<>>})
  BY DEF Taking, Feed
<1> QED
  BY <1>2, <1>4, <1>5 DEF Held, Complete

\* A fragment newly handed over as it was sent was on its way, and nothing is then.
LEMMA NewlyClean ==
  ASSUME Typed, NEW f, Taking(f), NEW m, NEW p, <<m, p>> \in clean', <<m, p>> \notin clean
  PROVE  /\ Complete(f) /\ Known(m, p) /\ InFlight(m, p) /\ f.have = Fragment(m, p)
         /\ wire' = <<>> /\ rx_frag' = <<>>
PROOF
<1>1. Complete(f) /\ AsSent(f) /\ <<m, p>> = <<f.have[1].m, f.have[1].part>>
  BY DEF Taking, Feed
<1>2. m = f.have[1].m /\ p = f.have[1].part
  BY <1>1
<1>3. PICK u : u = wire[1]
  OBVIOUS
<1>4. SentTyped /\ WireIs /\ FragIs /\ Reads(f) /\ Len(f.have) = f.need
  BY <1>1 DEF Typed, Taking, Complete
<1>5. Known(m, p) /\ f.have = Fragment(m, p) /\ rx_frag' = <<>>
  BY <1>1, <1>2, <1>3, <1>4, ReadsIs DEF AsSent
<1>6. InFlight(m, p)
  BY <1>4, <1>5, CleanCame
<1> QED
  BY <1>1, <1>4, <1>5, <1>6, InFlightGoes

\* A line is not part of a fragment.
LEMMA LineIsNone == ASSUME rx_frag = <<>>, NEW u, u = Line PROVE Collecting(u) = {}
PROOF
<1>1. u.unit # 1
  BY DEF Line
<1> QED
  BY <1>1 DEF Collecting

\* The order of fragments, and what comes between them, outlast a step that reads.
LEMMA TakingOrdered == ASSUME InOrder, NEW f, Taking(f) PROVE Ordered' /\ Follows' /\ Between'
PROOF
<1>1. Typed /\ sent' = sent /\ sending' = sending /\ SentTyped
  BY DEF InOrder, Taking, Reads, Typed
<1>2. /\ \A m, q : InFlight(m, q)' => InFlight(m, q)
      /\ \A m, q : Coming(m, q)' => Coming(m, q)
  BY <1>1, ComingCame
<1>3. Ordered'
  <2>1. SUFFICES ASSUME NEW m, NEW p, NEW q, <<m, p>> \in clean', Coming(m, q)' PROVE p < q
    BY DEF Ordered
  <2>2. CASE <<m, p>> \in clean
    BY <1>2, <2>1, <2>2 DEF InOrder, Ordered
  <2>3. CASE <<m, p>> \notin clean
    <3>1. Known(m, p) /\ InFlight(m, p) /\ wire' = <<>>
      BY <1>1, <2>1, <2>3, NewlyClean
    <3>2. sending.m = m /\ sending.part <= q /\ Known(m, q)
      BY <1>1, <2>1, <3>1, AsBefore DEF Coming, InFlight
    <3>3. m \in 1..Len(sent) /\ sending # NoMessage
      BY <1>1, <3>1, <3>2 DEF Known, NoMessage, SentTyped
    <3>4. Parts(m) \in Nat /\ p \in 1..Parts(m) /\ q \in 1..Parts(m)
      BY <1>1, <3>1, <3>2, <3>3, PartsAre DEF Known
    <3>5. sending.part \in 2..Parts(m)
      BY <1>1, <3>2, <3>3 DEF Typed, SendingIs
    <3>6. Split(m)
      BY <3>4, <3>5 DEF Split, Parts
    <3>7. sending.part = p + 1
      BY <3>1, <3>3, <3>6 DEF InOrder, Follows
    <3> QED
      BY <3>2, <3>4, <3>7
  <2> QED
    BY <2>2, <2>3
<1>4. Follows'
  BY <1>1, <1>2, AsBefore DEF InOrder, Follows
<1>5. Between'
  <2>1. SUFFICES ASSUME sending' # NoMessage, <<sending'.m, sending'.part - 1>> \in clean' PROVE Calm'
    BY DEF Between
  <2>2. CASE <<sending.m, sending.part - 1>> \in clean
    <3>1. Calm /\ wire # <<>> /\ Reads(f) /\ WireIs /\ FragIs
      BY <1>1, <2>1, <2>2 DEF InOrder, Between, Taking, Reads, Typed
    <3>2. CASE rx_frag = <<>> /\ (wire = <<>> \/ wire = <<Line>>)
      <4>1. PICK l : l = Line
        OBVIOUS
      <4>2. Head(wire) = l
        BY <3>1, <3>2, <4>1
      <4>3. Collecting(Head(wire)) = {}
        BY <3>2, <4>1, <4>2, LineIsNone
      <4> QED
        BY <3>1, <4>3 DEF Reads
    <3>3. ASSUME NEW q, InFlight(q, 1), ~Split(q) PROVE Calm'
      <4>1. CASE Len(f.have) # f.need
        <5>1. InFlight(q, 1)'
          BY <1>1, <3>1, <3>3, <4>1, InFlightGoes
        <5> QED
          BY <1>1, <3>3, <5>1, AsBefore DEF Calm
      <4>2. CASE Len(f.have) = f.need
        <5>1. wire' = <<>>
          BY <1>1, <3>1, <3>3, <4>2, InFlightGoes
        <5>2. rx_frag' = <<>>
          BY <3>1, <4>2 DEF Reads, Leftover, Complete
        <5> QED
          BY <5>1, <5>2 DEF Calm
      <4> QED
        BY <4>1, <4>2
    <3> QED
      BY <3>1, <3>2, <3>3 DEF Calm
  <2>3. CASE <<sending.m, sending.part - 1>> \notin clean
    <3>1. PICK m, p : m = sending.m /\ p = sending.part - 1
      OBVIOUS
    <3>2. wire' = <<>> /\ rx_frag' = <<>>
      BY <1>1, <2>1, <2>3, <3>1, NewlyClean
    <3> QED
      BY <3>2 DEF Calm
  <2> QED
    BY <2>2, <2>3
<1> QED
  BY <1>3, <1>4, <1>5

\* What is gathered of a message stays what was handed over of it: only a single message can
\* come between two of its fragments.
LEMMA TakingGathered == ASSUME InOrder, NEW f, Taking(f) PROVE Gathered'
PROOF
<1>1. /\ Typed /\ sent' = sent /\ sending' = sending /\ SentTyped /\ idle \in Nat /\ Held(reasm)
      /\ reasm \in RType /\ givenUp \subseteq givenUp' /\ Reads(f) /\ WireIs /\ FragIs
  BY GivenUpStays, LimitAssumption DEF InOrder, Taking, Reads, Typed, ClockIs, Held
<1>2. SUFFICES ASSUME NEW m, NEW k, Known(m, k)', Split(m)', (Len(Content(m)) <= MaxTotal)',
                      m \notin givenUp', \A i \in 1..k : <<m, i>> \in clean', Coming(m, k + 1)'
               PROVE  reasm' = [in_progress |-> TRUE, of |-> m, buf |-> Flat(m, k)']
  BY DEF Gathered
<1>3. /\ Known(m, k) /\ Split(m) /\ Len(Content(m)) <= MaxTotal /\ Flat(m, k)' = Flat(m, k)
      /\ m \notin givenUp /\ Coming(m, k + 1)
  BY <1>1, <1>2, AsBefore, ComingCame
<1>4. m \in 1..Len(sent) /\ Parts(m) \in Nat /\ k \in Nat /\ k >= 1 /\ k <= Parts(m) /\ Known(m, k + 1)
  BY <1>1, <1>3, PartsAre DEF Known, Coming
<1>5. PICK g : g = [in_progress |-> TRUE, of |-> m, buf |-> Flat(m, k)]
  OBVIOUS
<1>6. g.of = m
  BY <1>5
<1>7. CASE \A i \in 1..k : <<m, i>> \in clean
  <2>1. reasm = g
    BY <1>3, <1>5, <1>7 DEF InOrder, Gathered
  <2>2. CASE ~Complete(f)
    <3>1. Visit(reasm)
      BY <2>2 DEF Taking, Feed
    <3>2. reasm' = reasm
      BY <1>1, <1>2, <1>6, <2>1, <3>1, VisitKeeps
    <3> QED
      BY <1>3, <1>5, <2>1, <3>2
  <2>3. CASE Complete(f)
    <3>1. PICK t : t = Take(reasm, f.have)
      OBVIOUS
    <3>2. Visit(t.reasm) /\ t.reasm \in RType
      BY <1>1, <2>3, <3>1, CompleteIs
    <3>3. ~InFlight(m, k + 1)
      <4>1. SUFFICES ASSUME InFlight(m, k + 1) PROVE FALSE
        OBVIOUS
      <4>2. wire' = <<>>
        BY <1>1, <2>3, <4>1, InFlightGoes DEF Complete
      <4>3. sending.m = m /\ sending.part <= k + 1
        BY <1>1, <1>2, <4>2 DEF Coming, InFlight
      <4>4. sending # NoMessage
        BY <1>4, <4>3 DEF NoMessage
      <4>5. sending.part = (k + 1) + 1
        BY <1>3, <4>1, <4>4 DEF InOrder, Follows
      <4> QED
        BY <1>4, <4>3, <4>5
    <3>4. sending.m = m /\ sending.part <= k + 1
      BY <1>3, <3>3 DEF Coming
    <3>5. sending # NoMessage
      BY <1>4, <3>4 DEF NoMessage
    <3>6. sending.part \in 2..Parts(m)
      BY <1>1, <3>4, <3>5 DEF Typed, SendingIs
    <3>7. Coming(m, sending.part)
      BY <1>4, <3>4, <3>6 DEF Coming, Known
    <3>8. <<m, k>> \in clean
      BY <1>4, <1>7
    <3>9. k < sending.part
      BY <3>7, <3>8 DEF InOrder, Ordered
    <3>10. sending.part - 1 = k
      BY <1>4, <3>4, <3>6, <3>9
    <3>11. Calm
      BY <3>4, <3>5, <3>8, <3>10 DEF InOrder, Between
    <3>12. PICK q : InFlight(q, 1) /\ ~Split(q)
      <4>1. SUFFICES ASSUME rx_frag = <<>> /\ (wire = <<>> \/ wire = <<Line>>) PROVE FALSE
        BY <3>11 DEF Calm
      <4>2. PICK l : l = Line
        OBVIOUS
      <4>3. wire # <<>> /\ Head(wire) = l
        BY <1>1, <4>1, <4>2 DEF Reads
      <4>4. Collecting(Head(wire)) = {}
        BY <4>1, <4>2, <4>3, LineIsNone
      <4> QED
        BY <1>1, <4>4 DEF Reads
    <3>13. f.have = Fragment(q, 1) /\ Known(q, 1)
      BY <1>1, <2>3, <3>12, InFlightGoes DEF Complete, InFlight
    <3>14. t.reasm = reasm
      BY <1>1, <3>1, <3>12, <3>13, SingleTaken
    <3>15. reasm' = reasm
      BY <1>1, <1>2, <1>6, <2>1, <3>2, <3>14, VisitKeeps
    <3> QED
      BY <1>3, <1>5, <2>1, <3>15
  <2> QED
    BY <2>2, <2>3
<1>8. CASE ~(\A i \in 1..k : <<m, i>> \in clean)
  <2>1. PICK j \in 1..k : <<m, j>> \notin clean
    BY <1>8
  <2>2. <<m, j>> \in clean'
    BY <1>2, <2>1
  <2>3. Complete(f) /\ Known(m, j) /\ InFlight(m, j) /\ f.have = Fragment(m, j)
    BY <1>1, <2>1, <2>2, NewlyClean
  <2>4. Coming(m, j)
    BY <2>3 DEF Coming
  <2>5. \A i \in 1..k : i # j => <<m, i>> \in clean
    <3>1. SUFFICES ASSUME NEW i \in 1..k, i # j, <<m, i>> \notin clean PROVE FALSE
      OBVIOUS
    <3>2. InFlight(m, i)
      BY <1>1, <1>2, <3>1, NewlyClean
    <3> QED
      BY <2>3, <3>1, <3>2, OneInFlight
  <2>6. j = k
    <3>1. SUFFICES ASSUME j # k PROVE FALSE
      OBVIOUS
    <3>2. <<m, k>> \in clean
      BY <1>4, <2>5, <3>1
    <3>3. k < j
      BY <2>4, <3>2 DEF InOrder, Ordered
    <3> QED
      BY <1>4, <3>3
  <2>7. k # 1 => reasm = [in_progress |-> TRUE, of |-> m, buf |-> Flat(m, k - 1)]
    <3>1. SUFFICES ASSUME k # 1 PROVE reasm = [in_progress |-> TRUE, of |-> m, buf |-> Flat(m, k - 1)]
      OBVIOUS
    <3>2. k - 1 \in 1..Parts(m) /\ (k - 1) + 1 = k
      BY <1>4, <3>1
    <3>3. PICK n : n = k - 1
      OBVIOUS
    <3>4. Known(m, n) /\ n + 1 = k /\ \A i \in 1..n : i \in 1..k /\ i # k
      BY <1>4, <3>1, <3>2, <3>3 DEF Known
    <3>5. Coming(m, n + 1)
      BY <2>4, <2>6, <3>4
    <3>6. \A i \in 1..n : <<m, i>> \in clean
      BY <2>5, <2>6, <3>4
    <3>7. reasm = [in_progress |-> TRUE, of |-> m, buf |-> Flat(m, n)]
      BY <1>3, <3>4, <3>5, <3>6 DEF InOrder, Gathered
    <3> QED
      BY <3>3, <3>7
  <2>8. PICK frag : frag = Fragment(m, k)
    OBVIOUS
  <2>9. PICK t : t = Take(reasm, frag)
    OBVIOUS
  <2>10. k < Parts(m)
    BY <1>4 DEF Known
  <2>11. t.reasm = g
    BY <1>1, <1>3, <1>5, <2>7, <2>8, <2>9, <2>10, NextTaken
  <2>12. t = Take(reasm, f.have)
    BY <2>3, <2>6, <2>8, <2>9
  <2>13. Visit(g) /\ g \in RType
    BY <1>1, <2>3, <2>11, <2>12, CompleteIs
  <2>14. reasm' = g
    BY <1>1, <1>2, <1>6, <2>13, VisitKeeps
  <2> QED
    BY <1>3, <1>5, <2>14
<1> QED
  BY <1>7, <1>8

\* The fragment that completes what was handed over completes the message.
LEMMA TakingDelivers == ASSUME InOrder, NEW f, Taking(f) PROVE CleanIsDelivered'
PROOF
<1>1. /\ Typed /\ sent' = sent /\ SentTyped /\ givenUp \subseteq givenUp' /\ delivered \subseteq delivered'
  <2>1. delivered \subseteq delivered'
    BY DEF Taking, Feed
  <2> QED
    BY <2>1, GivenUpStays DEF InOrder, Taking, Reads, Typed
<1>2. SUFFICES ASSUME NEW m \in 1..Len(sent'), \A p \in DOMAIN sent'[m].parts : <<m, p>> \in clean',
                      ~(Split(m)' /\ (Len(Content(m)) > MaxTotal)'), m \notin givenUp'
               PROVE  Content(m)' \in delivered'
  BY DEF CleanIsDelivered
<1>3. /\ m \in 1..Len(sent) /\ Parts(m) \in Nat \ {0} /\ m \notin givenUp
      /\ ~(Split(m) /\ Len(Content(m)) > MaxTotal) /\ Content(m)' = Content(m)
      /\ \A p \in 1..Parts(m) : <<m, p>> \in clean'
      /\ DOMAIN sent[m].parts = 1..Parts(m)
  BY <1>1, <1>2, AsBefore, PartsAre
<1>4. CASE \A p \in 1..Parts(m) : <<m, p>> \in clean
  <2>1. Content(m) \in delivered
    BY <1>3, <1>4 DEF InOrder, CleanIsDelivered
  <2> QED
    BY <1>1, <1>3, <2>1
<1>5. CASE ~(\A p \in 1..Parts(m) : <<m, p>> \in clean)
  <2>1. PICK j \in 1..Parts(m) : <<m, j>> \notin clean
    BY <1>5
  <2>2. Complete(f) /\ Known(m, j) /\ InFlight(m, j) /\ f.have = Fragment(m, j)
    BY <1>1, <1>3, <2>1, NewlyClean
  <2>3. Coming(m, j)
    BY <2>2 DEF Coming
  <2>4. \A i \in 1..Parts(m) : i # j => <<m, i>> \in clean
    <3>1. SUFFICES ASSUME NEW i \in 1..Parts(m), i # j, <<m, i>> \notin clean PROVE FALSE
      OBVIOUS
    <3>2. InFlight(m, i)
      BY <1>1, <1>3, <3>1, NewlyClean
    <3> QED
      BY <2>2, <3>1, <3>2, OneInFlight
  <2>5. j = Parts(m)
    <3>1. SUFFICES ASSUME j # Parts(m) PROVE FALSE
      OBVIOUS
    <3>2. <<m, Parts(m)>> \in clean
      BY <1>3, <2>4, <3>1
    <3>3. Parts(m) < j
      BY <2>3, <3>2 DEF InOrder, Ordered
    <3> QED
      BY <1>3, <3>3
  <2>6. PICK frag : frag = Fragment(m, j)
    OBVIOUS
  <2>7. PICK t : t = Take(reasm, frag)
    OBVIOUS
  <2>8. t = Take(reasm, f.have)
    BY <2>2, <2>6, <2>7
  <2>9. t.message = Content(m) /\ t.message # <<>>
    <3>1. CASE ~Split(m)
      <4>1. j = 1
        BY <1>1, <1>3, <2>5, <3>1, SingleIs
      <4> QED
        BY <1>1, <2>2, <2>6, <2>7, <3>1, <4>1, SingleTaken
    <3>2. CASE Split(m)
      <4>1. Len(Content(m)) <= MaxTotal
        <5>1. PICK c : c = Len(Content(m))
          OBVIOUS
        <5>2. c \in Nat /\ MaxTotal \in Nat /\ ~(c > MaxTotal)
          BY <1>1, <1>3, <3>2, <5>1, FlatTyped, LimitAssumption
        <5> QED
          BY <5>1, <5>2
      <4>2. PICK n : n = j - 1
        OBVIOUS
      <4>3. j \in Nat /\ j > 1
        BY <1>3, <2>5, <3>2 DEF Split, Parts
      <4>4. n + 1 = j /\ n \in 1..Parts(m) /\ \A i \in 1..n : i \in 1..Parts(m) /\ i # j
        BY <1>3, <2>5, <4>2, <4>3
      <4>5. Known(m, n) /\ Coming(m, n + 1) /\ \A i \in 1..n : <<m, i>> \in clean
        BY <1>3, <2>3, <2>4, <4>4 DEF Known
      <4>6. reasm = [in_progress |-> TRUE, of |-> m, buf |-> Flat(m, n)]
        BY <1>3, <3>2, <4>1, <4>5 DEF InOrder, Gathered
      <4>7. reasm = [in_progress |-> TRUE, of |-> m, buf |-> Flat(m, j - 1)]
        BY <4>2, <4>6
      <4> QED
        <5>1. PICK r : r = reasm
          OBVIOUS
        <5>2. r = [in_progress |-> TRUE, of |-> m, buf |-> Flat(m, j - 1)] /\ t = Take(r, frag)
          BY <2>7, <4>7, <5>1
        <5>3. SentTyped /\ Known(m, j) /\ Split(m)
          BY <1>1, <2>2, <3>2
        <5>4. /\ j < Parts(m) => t.reasm = [in_progress |-> TRUE, of |-> m, buf |-> Flat(m, j)]
              /\ j = Parts(m) => t.message = Content(m) /\ t.message # <<>>
          BY ONLY <2>6, <4>1, <5>2, <5>3, NextTaken
        <5> QED
          BY <2>5, <5>4
    <3> QED
      BY <3>1, <3>2
  <2>10. delivered' = delivered \union ({t.message} \ {<<>>})
    BY <1>1, <2>2, <2>8, CompleteIs
  <2> QED
    BY <1>3, <2>9, <2>10
<1> QED
  BY <1>4, <1>5

\* What is on its way after a fragment is sent is that fragment.
LEMMA SendsCame ==
  ASSUME Typed, NEW m, NEW p, Sends(m, p)
  PROVE  /\ \A n, q : InFlight(n, q)' => n = m /\ q = p
         /\ rx_frag = <<>> => InFlight(m, p)'
PROOF
<1>1. wire' # <<>> /\ wire' \in Seq(Units)
  BY DEF Sends, Piece
<1>2. 1 \in 1..Len(wire')
  <2>1. PICK w : w = wire'
    OBVIOUS
  <2>2. Len(w) \in Nat /\ Len(w) # 0
    BY <1>1, <2>1, EmptySeq
  <2> QED
    BY <2>1, <2>2
<1>3. ASSUME NEW n, NEW q, InFlight(n, q)' PROVE n = m /\ q = p
  <2>1. PICK a : Piece(wire, n, q, a)'
    BY <1>3 DEF InFlight
  <2>2. PICK u : u = wire'[1]
    OBVIOUS
  <2>3. u.m = n /\ u.part = q
    <3>1. u = [m |-> n, part |-> q, unit |-> a + 1]
      BY <1>2, <2>1, <2>2 DEF Piece
    <3> QED
      BY ONLY <3>1
  <2>4. u.m = m /\ u.part = p
    <3>1. u = [m |-> m, part |-> p, unit |-> 0 + 1]
      BY <1>2, <2>2 DEF Sends, Piece
    <3> QED
      BY ONLY <3>1
  <2> QED
    BY <2>3, <2>4
<1>4. ASSUME rx_frag = <<>> PROVE InFlight(m, p)'
  <2>1. PICK n \in Nat : n = sent'[m].parts[p]
    <3>1. m \in 1..Len(sent') /\ sent' \in Seq(Mail) /\ p \in 1..Len(sent'[m].parts)
      BY DEF Sends, Known, Parts, Remembered, SentTyped
    <3>2. PICK kind \in Mail : kind = sent'[m]
      BY <3>1
    <3>3. kind.parts \in Seq(Nat \ {0})
      BY MailIsFragments DEF MailAssumption
    <3>4. PICK s : s = kind.parts
      OBVIOUS
    <3>5. s \in Seq(Nat \ {0}) /\ p \in 1..Len(s) /\ s = sent'[m].parts
      BY <3>1, <3>2, <3>3, <3>4
    <3>6. s[p] \in Nat
      BY <3>5
    <3> QED
      BY <3>5, <3>6
  <2>2. PICK e : e = rx_frag'
    OBVIOUS
  <2>3. e = <<>> /\ e \in Seq(Units) /\ Len(e) = 0
    BY <1>4, <2>2 DEF Sends, device, frame
  <2>4. Piece(e, m, p, 0)'
    BY <2>1, <2>3 DEF Piece
  <2>5. Piece(rx_frag, m, p, 0)' /\ Piece(wire, m, p, Len(rx_frag))'
    BY <2>2, <2>3, <2>4 DEF Sends, Piece
  <2>6. PICK l : l = Len(wire')
    OBVIOUS
  <2>7. l = n /\ 0 + l = n
    BY <2>1, <2>6 DEF Sends
  <2>8. Len(rx_frag') + Len(wire') = sent'[m].parts[p]
    BY <2>1, <2>2, <2>3, <2>6, <2>7
  <2> QED
    BY <2>2, <2>3, <2>5, <2>8 DEF InFlight, Sends
<1> QED
  BY <1>3, <1>4

\* Sending leaves what was delivered and what is gathered alone.
LEMMA SendsClean ==
  ASSUME InOrder, NEW m, NEW p, Sends(m, p),
         \A n, q : Coming(n, q)' /\ n \in 1..Len(sent) => Coming(n, q)
  PROVE  Ordered' /\ Gathered' /\ CleanIsDelivered'
PROOF
<1>1. /\ Typed /\ SentTyped /\ Remembered /\ clean' = clean /\ delivered' = delivered
      /\ givenUp' = givenUp /\ reasm' = reasm
  BY DEF InOrder, Typed, Sends, device, frame, clock
<1>2. \A n, q : <<n, q>> \in clean => Known(n, q) /\ n \in 1..Len(sent)
  BY <1>1 DEF Typed, CleanIs, Known
<1>3. Ordered'
  BY <1>1, <1>2 DEF InOrder, Ordered
<1>4. Gathered'
  <2>1. SUFFICES ASSUME NEW n, NEW k, Known(n, k)', Split(n)', (Len(Content(n)) <= MaxTotal)',
                        n \notin givenUp', \A i \in 1..k : <<n, i>> \in clean', Coming(n, k + 1)'
                 PROVE  reasm' = [in_progress |-> TRUE, of |-> n, buf |-> Flat(n, k)']
    BY DEF Gathered
  <2>2. <<n, k>> \in clean
    <3>1. k \in 1..Parts(n)'
      BY <2>1 DEF Known
    <3>2. k \in 1..k
      BY <3>1
    <3> QED
      BY <1>1, <2>1, <3>2
  <2>3. n \in 1..Len(sent) /\ Known(n, k) /\ Coming(n, k + 1)
    BY <1>2, <2>1, <2>2
  <2>4. Split(n) /\ Len(Content(n)) <= MaxTotal /\ Flat(n, k)' = Flat(n, k)
    BY <1>1, <2>1, <2>3, ContentStays
  <2> QED
    BY <1>1, <2>1, <2>3, <2>4 DEF InOrder, Gathered
<1>5. CleanIsDelivered'
  <2>1. SUFFICES ASSUME NEW n \in 1..Len(sent'), \A q \in DOMAIN sent'[n].parts : <<n, q>> \in clean',
                        ~(Split(n)' /\ (Len(Content(n)) > MaxTotal)'), n \notin givenUp'
                 PROVE  Content(n)' \in delivered'
    BY DEF CleanIsDelivered
  <2>2. sent'[n].parts \in Seq(Nat \ {0}) /\ sent'[n].parts # <<>>
    <3>1. PICK kind \in Mail : kind = sent'[n]
      BY <1>1, <2>1 DEF Remembered, SentTyped
    <3> QED
      BY <3>1, MailIsFragments DEF MailAssumption
  <2>3. 1 \in DOMAIN sent'[n].parts
    <3>1. PICK s : s = sent'[n].parts
      OBVIOUS
    <3>2. s \in Seq(Nat \ {0}) /\ Len(s) \in Nat /\ Len(s) # 0
      BY <2>2, <3>1, EmptySeq
    <3>3. 1 \in DOMAIN s
      BY <3>2
    <3> QED
      BY <3>1, <3>3
  <2>4. n \in 1..Len(sent)
    BY <1>1, <1>2, <2>1, <2>3
  <2>5. /\ ~(Split(n) /\ Len(Content(n)) > MaxTotal) /\ Content(n)' = Content(n)
    BY <1>1, <2>1, <2>4, ContentStays
  <2>6. \A q \in DOMAIN sent[n].parts : <<n, q>> \in clean
    BY <1>1, <2>1, <2>4 DEF Remembered
  <2> QED
    BY <1>1, <2>1, <2>4, <2>5, <2>6 DEF InOrder, CleanIsDelivered
<1> QED
  BY <1>3, <1>4, <1>5

\* A new message is sent between the fragments of another only if it is single.
LEMMA SendClean ==
  ASSUME InOrder, Send
  PROVE  Ordered' /\ Follows' /\ Gathered' /\ Between' /\ CleanIsDelivered'
PROOF
<1>1. PICK m : m = Len(sent) + 1
  OBVIOUS
<1>2. /\ Typed /\ Sends(m, 1) /\ m \in Nat /\ m \notin 1..Len(sent)
      /\ \/ ~Split(m)' /\ sending' = sending
         \/ Split(m)' /\ sending = NoMessage /\ sending' = [m |-> m, part |-> 2]
  BY <1>1, SendIs DEF InOrder
<1>3. \A n, q : InFlight(n, q)' => n = m /\ q = 1
  BY <1>2, SendsCame
<1>4. ASSUME NEW n, NEW q, Coming(n, q)', n \in 1..Len(sent) PROVE Coming(n, q)
  <2>1. n # m /\ ~InFlight(n, q)'
    BY <1>2, <1>3, <1>4
  <2>2. sending' = sending
    BY <1>2, <1>4, <2>1 DEF Coming
  <2>3. Known(n, q)
    BY <1>2, <1>4, ContentStays DEF Coming, Typed, Sends
  <2> QED
    BY <1>4, <2>1, <2>2, <2>3 DEF Coming
<1>5. Follows'
  BY <1>2, <1>3 DEF Follows
<1>6. Between'
  <2>1. SUFFICES ASSUME sending' # NoMessage, <<sending'.m, sending'.part - 1>> \in clean' PROVE Calm'
    BY DEF Between
  <2>2. clean' = clean /\ rx_frag' = rx_frag /\ wire = <<>>
    BY <1>2 DEF Sends, device, frame
  <2>3. sending' # [m |-> m, part |-> 2]
    <3>1. ASSUME NEW q, <<m, q>> \in clean PROVE FALSE
      BY <1>2, <3>1 DEF Typed, CleanIs, Known
    <3> QED
      BY <2>1, <2>2, <3>1
  <2>4. ~Split(m)' /\ sending' = sending
    BY <1>2, <2>3
  <2>5. Calm
    BY <2>1, <2>2, <2>4 DEF InOrder, Between
  <2>6. rx_frag = <<>>
    BY <2>2, <2>5 DEF Calm, InFlight
  <2>7. InFlight(m, 1)'
    BY <1>2, <2>6, SendsCame
  <2> QED
    BY <2>4, <2>7 DEF Calm
<1> QED
  BY <1>2, <1>4, <1>5, <1>6, SendsClean

\* A fragment is sent after all before it and before all behind it.
LEMMA SendNextClean ==
  ASSUME InOrder, SendNext
  PROVE  Ordered' /\ Follows' /\ Gathered' /\ Between' /\ CleanIsDelivered'
PROOF
<1>1. PICK m, p : m = sending.m /\ p = sending.part
  OBVIOUS
<1>2. /\ Typed /\ Sends(m, p) /\ Known(m, p) /\ Split(m) /\ p \in 2..Parts(m) /\ sent' = sent
      /\ \/ p = Parts(m) /\ sending' = NoMessage
         \/ p < Parts(m) /\ sending' = [m |-> m, part |-> p + 1]
  BY <1>1, SendNextIs DEF InOrder
<1>3. \A n, q : InFlight(n, q)' => n = m /\ q = p
  BY <1>2, SendsCame
<1>4. m \in 1..Len(sent) /\ m \in Nat /\ m # 0 /\ Parts(m) \in Nat /\ p \in Nat /\ p <= Parts(m)
  <2>1. m \in 1..Len(sent) /\ SentTyped
    BY <1>2 DEF Known, Typed
  <2>2. Parts(m) \in Nat
    BY <2>1, PartsAre
  <2> QED
    BY <1>2, <2>1, <2>2 DEF SentTyped
<1>5. Coming(m, p)
  BY <1>1, <1>2, <1>4 DEF Coming
<1>6. ASSUME NEW n, NEW q, Coming(n, q)' PROVE Coming(n, q)
  <2>1. Known(n, q)
    BY <1>2, <1>6, AsBefore DEF Coming
  <2>2. CASE InFlight(n, q)'
    BY <1>3, <1>5, <2>2
  <2>3. CASE sending'.m = n /\ sending'.part <= q
    <3>1. sending' # NoMessage
      BY <1>2, <2>1, <2>3 DEF Known, NoMessage, Typed, SentTyped
    <3>2. PICK s : s = sending'
      OBVIOUS
    <3>3. s.m = m /\ s.part = p + 1
      BY <1>2, <3>1, <3>2
    <3>4. n = m /\ p + 1 <= q /\ q \in 1..Parts(m)
      BY <2>1, <2>3, <3>2, <3>3 DEF Known
    <3>5. p <= q
      BY <1>4, <3>4
    <3> QED
      BY <1>1, <2>1, <3>4, <3>5 DEF Coming
  <2> QED
    BY <1>6, <2>2, <2>3 DEF Coming
<1>7. Follows'
  BY <1>2, <1>3 DEF Follows
<1>8. Between'
  <2>1. SUFFICES ASSUME sending' # NoMessage, <<sending'.m, sending'.part - 1>> \in clean' PROVE FALSE
    BY DEF Between
  <2>2. PICK s : s = sending'
    OBVIOUS
  <2>3. s.m = m /\ s.part - 1 = p
    BY <1>2, <1>4, <2>1, <2>2
  <2>4. clean' = clean
    BY <1>2 DEF Sends, device, frame
  <2>5. <<m, p>> \in clean
    BY <2>1, <2>2, <2>3, <2>4
  <2>6. p < p
    BY <1>5, <2>5 DEF InOrder, Ordered
  <2> QED
    BY <1>4, <2>6
<1> QED
  BY <1>2, <1>6, <1>7, <1>8, SendsClean

\* A line of console text comes between fragments.
LEMMA SendLineClean ==
  ASSUME InOrder, SendLine
  PROVE  Ordered' /\ Follows' /\ Gathered' /\ Between' /\ CleanIsDelivered'
PROOF
<1>1. /\ wire = <<>> /\ wire' = <<Line>> /\ sending' = sending /\ sent' = sent /\ Typed
      /\ UNCHANGED <<rx_frag, clean, delivered, givenUp, reasm>>
  BY DEF SendLine, InOrder, device, frame, clock
<1>2. ASSUME NEW m, NEW q, InFlight(m, q)' PROVE FALSE
  <2>1. PICK a : Piece(wire, m, q, a)' /\ Known(m, q)'
    BY <1>2 DEF InFlight
  <2>2. m \in 1..Len(sent) /\ Len(sent) \in Nat
    BY <1>1, <2>1 DEF Known, Typed, SentTyped
  <2>3. PICK l : l = Line
    OBVIOUS
  <2>4. Len(wire') = 1 /\ wire'[1] = l
    BY <1>1, <2>3
  <2>5. l.m = m
    BY <2>1, <2>4 DEF Piece
  <2> QED
    BY <2>2, <2>3, <2>5 DEF Line
<1>3. \A m, q : Coming(m, q)' => Coming(m, q)
  BY <1>1, <1>2, AsBefore DEF Coming
<1>4. Ordered'
  BY <1>1, <1>3 DEF InOrder, Ordered
<1>5. Follows'
  BY <1>2 DEF Follows
<1>6. Gathered'
  BY <1>1, <1>3, AsBefore DEF InOrder, Gathered
<1>7. Between'
  <2>1. SUFFICES ASSUME sending' # NoMessage, <<sending'.m, sending'.part - 1>> \in clean' PROVE Calm'
    BY DEF Between
  <2>2. Calm
    BY <1>1, <2>1 DEF InOrder, Between
  <2>3. rx_frag = <<>>
    BY <1>1, <2>2 DEF Calm, InFlight
  <2> QED
    BY <1>1, <2>3 DEF Calm, Line
<1>8. CleanIsDelivered'
  BY <1>1, AsBefore DEF InOrder, CleanIsDelivered
<1> QED
  BY <1>4, <1>5, <1>6, <1>7, <1>8

\* Every step keeps the order.
LEMMA OrderHolds == ASSUME InOrder, [Next]_vars PROVE InOrder'
PROOF
<1>1. Typed'
  BY TypedHolds DEF InOrder
<1>2. CASE \E f : Taking(f)
  BY <1>1, <1>2, TakingOrdered, TakingGathered, TakingDelivers DEF InOrder
<1>3. CASE Still
  BY <1>1, <1>3, StillClean DEF InOrder
<1>4. CASE Send
  BY <1>1, <1>4, SendClean DEF InOrder
<1>5. CASE SendNext
  BY <1>1, <1>5, SendNextClean DEF InOrder
<1>6. CASE SendLine
  BY <1>1, <1>6, SendLineClean DEF InOrder
<1> QED
  BY <1>2, <1>3, <1>4, <1>5, <1>6, StepsAre

\* The order holds at the start.
LEMMA OrderFirst == ASSUME Init PROVE InOrder
PROOF
<1>1. Typed /\ clean = {} /\ sending = NoMessage /\ wire = <<>> /\ sent = <<>>
  BY TypedFirst DEF Init
<1>2. PICK s : s = sent
  OBVIOUS
<1>3. Len(s) = 0
  BY <1>1, <1>2
<1>4. \A m : ~(m \in 1..Len(sent))
  BY <1>2, <1>3
<1>5. Ordered /\ Follows /\ Gathered /\ Between /\ CleanIsDelivered
  BY <1>1, <1>4 DEF Ordered, Follows, Gathered, Between, CleanIsDelivered, InFlight, Known
<1> QED
  BY <1>1, <1>5 DEF InOrder

\* The fragments of each message come in order, and what is collected is those that came
\* (frame.c:235-324).
THEOREM InOrderHolds == Spec => []InOrder
PROOF
<1>1. Init => InOrder
  BY OrderFirst
<1>2. InOrder /\ [Next]_vars => InOrder'
  BY OrderHolds
<1> QED
  BY <1>1, <1>2, PTL DEF Spec

\* A message whose every fragment was handed over as sent is delivered, unless it is too large or
\* was given up (frame.c:235-247, 270-274), for any messages.
THEOREM CleanIsDeliveredHolds == Spec => []CleanIsDelivered
PROOF
<1>1. InOrder => CleanIsDelivered
  BY DEF InOrder
<1> QED
  BY <1>1, InOrderHolds, PTL
-----------------------------------------------------------------------------
(* Only what is idle is given up.                                          *)

\* A line, or a fragment as it was sent, is on its way in, or nothing is.
OnItsWay ==
  (rx_frag = <<>> /\ (wire = <<>> \/ wire = <<Line>>)) \/ \E m, p : InFlight(m, p)
\* The last fragment of what is collected may still come.
Awaited == reasm.in_progress => Coming(reasm.of, Parts(reasm.of))
\* A message that begins finds none in progress.
Fresh == \A m : InFlight(m, 1) /\ Split(m) => ~reasm.in_progress
\* The host is in the message whose fragment is on its way, unless that is the last.
Going == \A m, p : InFlight(m, p) /\ Split(m) /\ p < Parts(m) => sending.m = m
\* The last visit saw what there is, and no clock is ahead of the other.
Noted == reasm_last_len = IF reasm.in_progress THEN Len(reasm.buf) ELSE 0
Timed == reasm.in_progress => idle <= quiet

Settled == cfg_set /\ ~streaming /\ OnItsWay /\ Awaited /\ Fresh /\ Going /\ Noted /\ Timed

Undisturbed == Typed /\ (~disturbed => Settled)

\* Every step that reads visits.
LEMMA TakingVisits == ASSUME Typed, NEW f, Taking(f) PROVE \E r \in RType : Visit(r)
PROOF
<1>1. CASE Complete(f)
  <2>1. PICK t : t = Take(reasm, f.have)
    OBVIOUS
  <2> QED
    BY <1>1, <2>1, CompleteIs
<1>2. CASE ~Complete(f)
  BY <1>2 DEF Taking, Feed, Typed, Held
<1> QED
  BY <1>1, <1>2

\* A receiver that is found empty is settled.
LEMMA EmptySettles == ASSUME Typed, [Next]_vars, disturbed, ~disturbed' PROVE Settled'
PROOF
<1>1. reasm \in RType /\ idle \in Nat
  BY LimitAssumption DEF Typed, Held, ClockIs
<1>2. ASSUME PassTaking \/ PassConsole \/ PassIdle \/ CommandEnds
      PROVE  NoteEmpty /\ cfg_set' = cfg_set /\ ~streaming' /\ \E r \in RType : Visit(r)
  <2>1. CASE PassTaking
    <3>1. PICK f \in Collecting(Head(wire)) : Feed(f)
      BY <2>1 DEF PassTaking
    <3>2. Taking(f)
      BY <2>1, <3>1 DEF PassTaking, Taking, Reads, Feed
    <3> QED
      BY <2>1, <3>2, TakingVisits DEF PassTaking
  <2>2. CASE PassConsole \/ PassIdle \/ CommandEnds
    BY <1>1, <2>2 DEF PassConsole, PassIdle, CommandEnds
  <2> QED
    BY <1>2, <2>1, <2>2
<1>3. PassTaking \/ PassConsole \/ PassIdle \/ CommandEnds
  BY DEF Next, Pass, Host, Tick, Send, SendNext, SendLine, HostDies, Unplug, Plug, CommandBegins, vars
<1>4. cfg_set /\ cfg_set' /\ ~streaming' /\ ~reasm'.in_progress /\ rx_frag' = <<>> /\ wire' = <<>>
  <2>1. NoteEmpty /\ cfg_set' = cfg_set /\ ~streaming'
    BY <1>2, <1>3
  <2>2. cfg_set /\ ~reasm'.in_progress /\ rx_frag' = <<>> /\ wire' = <<>>
    <3>1. disturbed' = (disturbed /\ ~(cfg_set /\ ~reasm'.in_progress /\ rx_frag' = <<>> /\ wire' = <<>>))
      BY <2>1 DEF NoteEmpty
    <3> QED
      BY <3>1, Zenon
  <2> QED
    BY <2>1, <2>2
<1>5. PICK r \in RType : Visit(r)
  BY <1>2, <1>3
<1>6. reasm_last_len' = 0
  BY <1>1, <1>4, <1>5, VisitIs
<1> QED
  BY <1>4, <1>6 DEF Settled, OnItsWay, Awaited, Fresh, Going, Noted, Timed, InFlight

\* A visit of the reassembly as it was, while nothing new is on its way.
LEMMA VisitSettled ==
  ASSUME Typed, Settled, Visit(reasm), sent' = sent, sending' = sending, cfg_set' = cfg_set,
         streaming' = streaming, quiet' = quiet,
         \A m, p : InFlight(m, p)' <=> InFlight(m, p), OnItsWay'
  PROVE  Settled' /\ (givenUp' # givenUp => quiet' >= Limit)
PROOF
<1>1. reasm \in RType /\ idle \in Nat /\ quiet \in Nat /\ Limit \in Nat
  BY LimitAssumption DEF Typed, Held, ClockIs
<1>2. /\ (reasm' = reasm /\ givenUp' = givenUp) \/ GivesUp(reasm)
      /\ reasm_last_len' = IF reasm'.in_progress THEN Len(reasm'.buf) ELSE 0
      /\ reasm'.in_progress => reasm' = reasm /\ (idle' = 0 \/ idle' = idle)
  BY <1>1, VisitIs DEF Settled
<1>3. \A m, p : Coming(m, p)' <=> Coming(m, p)
  BY AsBefore DEF Coming
<1>4. Awaited'
  BY <1>2, <1>3, AsBefore DEF Settled, Awaited
<1>5. Fresh' /\ Going'
  BY <1>2, AsBefore DEF Settled, Fresh, Going
<1>6. Noted' /\ Timed'
  BY <1>1, <1>2 DEF Settled, Noted, Timed
<1>7. givenUp' # givenUp => quiet' >= Limit
  BY <1>1, <1>2 DEF GivesUp, Settled, Timed
<1> QED
  BY <1>4, <1>5, <1>6, <1>7 DEF Settled

\* A settled receiver that reads stays so, and what it gives up was idle.
LEMMA TakingSettled ==
  ASSUME Typed, Settled, NEW f, Taking(f), cfg_set' = cfg_set, streaming' = streaming
  PROVE  Settled' /\ (givenUp' # givenUp => quiet' >= Limit)
PROOF
<1>1. /\ SentTyped /\ WireIs /\ FragIs /\ Reads(f) /\ sent' = sent /\ sending' = sending
      /\ Held(reasm) /\ reasm \in RType /\ idle \in Nat /\ quiet \in Nat /\ Limit \in Nat /\ cfg_set
  BY LimitAssumption DEF Typed, Taking, Reads, Held, ClockIs, Settled
<1>2. PICK m, p : InFlight(m, p)
  <2>1. SUFFICES ASSUME rx_frag = <<>> /\ (wire = <<>> \/ wire = <<Line>>) PROVE FALSE
    BY DEF Settled, OnItsWay
  <2>2. PICK l : l = Line
    OBVIOUS
  <2>3. wire # <<>> /\ Head(wire) = l
    BY <1>1, <2>1, <2>2 DEF Reads
  <2>4. Collecting(Head(wire)) = {}
    BY <2>1, <2>2, <2>3, LineIsNone
  <2> QED
    BY <1>1, <2>4 DEF Reads
<1>3. CASE ~Complete(f)
  <2>1. Visit(reasm) /\ quiet' = quiet
    BY <1>3 DEF Taking, Feed
  <2>2. \A n, q : InFlight(n, q)' <=> InFlight(n, q)
    <3>1. \A n, q : InFlight(n, q) => InFlight(n, q)'
      BY <1>1, <1>3, InFlightGoes DEF Complete
    <3>2. \A n, q : InFlight(n, q)' => InFlight(n, q)
      BY <1>1, InFlightCame
    <3> QED
      BY <3>1, <3>2
  <2>3. OnItsWay'
    BY <1>2, <2>2 DEF OnItsWay
  <2> QED
    BY <1>1, <2>1, <2>2, <2>3, VisitSettled
<1>4. CASE Complete(f)
  <2>1. PICK t : t = Take(reasm, f.have)
    OBVIOUS
  <2>2. Visit(t.reasm) /\ t.reasm \in RType /\ rx_frag' = <<>>
    BY <1>4, <2>1, CompleteIs
  <2>3. f.have = Fragment(m, p) /\ wire' = <<>> /\ Known(m, p)
    BY <1>1, <1>2, <1>4, InFlightGoes DEF Complete, InFlight
  <2>4. PICK frag : frag = f.have
    OBVIOUS
  <2>5. frag \in Seq(Units) /\ frag # <<>> /\ frag[1].m = m /\ frag[1].part = p /\ frag[1].unit = 1
    BY <1>1, <2>3, <2>4, HeaderIs
  <2>6. \/ Refuses(t)
        \/ Singles(t, reasm, frag, m, p) \/ Begins(t, frag, m, p)
        \/ GoesOn(t, reasm, frag, m, p) \/ Ends(t, reasm, frag, m, p)
    BY <1>1, <2>1, <2>3, <2>4, <2>5, TakeIs
  <2>7. quiet' = IF t.reasm.in_progress /\ t.reasm # reasm THEN 0 ELSE quiet
    BY <1>4, <2>1 DEF Taking, Feed
  <2>8. Len(frag) \in Nat /\ Len(frag) # 0
    BY <2>5, EmptySeq
  <2>9. /\ (reasm' = t.reasm /\ givenUp' = givenUp) \/ GivesUp(t.reasm)
        /\ reasm_last_len' = IF reasm'.in_progress THEN Len(reasm'.buf) ELSE 0
        /\ reasm'.in_progress =>
             reasm' = t.reasm /\ (idle' = 0 \/ (idle' = idle /\ Len(t.reasm.buf) = reasm_last_len))
        /\ Len(t.reasm.buf) # reasm_last_len => givenUp' = givenUp
    BY <1>1, <2>2, VisitIs
  <2>10. OnItsWay' /\ Fresh' /\ Going' /\ Noted'
    BY <2>2, <2>3, <2>9 DEF OnItsWay, Fresh, Going, Noted, InFlight
  <2>11. \A n, q : Known(n, q) /\ sending.m = n /\ sending.part <= q => Coming(n, q)'
    BY <1>1, AsBefore DEF Coming
  <2>12. ASSUME NEW n, sending.m = n, n \in 1..Len(sent) PROVE Coming(n, Parts(n))'
    <3>1. sending # NoMessage
      BY <1>1, <2>12 DEF NoMessage, SentTyped
    <3>2. sending.part \in 2..Parts(n)
      BY <2>12, <3>1 DEF Typed, SendingIs
    <3>3. Parts(n) \in Nat \ {0} /\ Parts(n)' = Parts(n)
      BY <1>1, <2>12, PartsAre, AsBefore
    <3>4. Known(n, Parts(n)) /\ sending.part <= Parts(n)
      BY <2>12, <3>2, <3>3 DEF Known
    <3> QED
      BY <2>11, <2>12, <3>3, <3>4
  <2>13. ASSUME NEW n, n = reasm.of, reasm.in_progress, n # m \/ p # Parts(m)
         PROVE  Coming(n, Parts(n))'
    <3>1. Coming(n, Parts(n))
      BY <2>13 DEF Settled, Awaited
    <3>2. ~InFlight(n, Parts(n))
      BY <1>2, <2>13, OneInFlight
    <3>3. sending.m = n /\ n \in 1..Len(sent)
      BY <3>1, <3>2 DEF Coming, Known
    <3> QED
      BY <2>12, <3>3
  <2>14. CASE ~t.reasm.in_progress
    <3>1. ~reasm'.in_progress /\ givenUp' = givenUp
      BY <2>9, <2>14 DEF GivesUp
    <3> QED
      BY <1>1, <2>10, <3>1 DEF Settled, Awaited, Timed
  <2>15. CASE Singles(t, reasm, frag, m, p)
    <3>1. t.reasm = reasm /\ ~Split(m) /\ quiet' = quiet
      BY <2>7, <2>15 DEF Singles
    <3>2. Awaited'
      <4>1. SUFFICES ASSUME reasm'.in_progress PROVE Coming(reasm.of, Parts(reasm.of))'
        BY DEF Awaited
      <4>2. reasm' = reasm /\ reasm.in_progress
        BY <2>9, <3>1, <4>1
      <4>3. PICK n : n = reasm.of
        OBVIOUS
      <4>4. n # m
        BY <1>1, <3>1, <4>2, <4>3 DEF Held, Within
      <4>5. Coming(n, Parts(n))'
        BY <2>13, <4>2, <4>3, <4>4
      <4> QED
        BY <4>2, <4>3, <4>5
    <3>3. Timed'
      BY <1>1, <2>9, <3>1 DEF Settled, Timed
    <3>4. givenUp' # givenUp => quiet' >= Limit
      BY <1>1, <2>9, <3>1 DEF GivesUp, Settled, Timed
    <3> QED
      BY <1>1, <2>10, <3>2, <3>3, <3>4 DEF Settled
  <2>16. CASE Begins(t, frag, m, p)
    <3>1. p = 1 /\ Split(m) /\ m \in 1..Len(sent) /\ Parts(m) > 1
      BY <2>16 DEF Begins, Known, Split, Parts
    <3>2. PICK r : r = t.reasm
      OBVIOUS
    <3>3. r.in_progress /\ r.of = m /\ r.buf = frag
      BY <2>16, <3>2 DEF Begins
    <3>4. ~reasm.in_progress
      BY <1>2, <3>1 DEF Settled, Fresh
    <3>5. reasm_last_len = 0
      BY <3>4 DEF Settled, Noted
    <3>6. givenUp' = givenUp /\ reasm' = r /\ idle' = 0 /\ quiet' = 0
      <4>1. Len(r.buf) # reasm_last_len
        BY <2>8, <3>3, <3>5
      <4>2. givenUp' = givenUp
        BY <2>9, <3>2, <4>1
      <4>3. reasm' = r
        BY <2>9, <3>2, <3>3, <4>1 DEF GivesUp
      <4>4. idle' = 0
        BY <2>9, <3>2, <3>3, <4>1, <4>3
      <4>5. quiet' = 0
        BY <2>7, <3>2, <3>3, <3>4
      <4> QED
        BY <4>2, <4>3, <4>4, <4>5
    <3>7. sending.m = m
      <4>1. 1 < Parts(m)
        BY <1>1, <3>1, PartsAre
      <4> QED
        BY <1>2, <3>1, <4>1 DEF Settled, Going
    <3>8. Coming(m, Parts(m))'
      BY <2>12, <3>1, <3>7
    <3>9. Awaited'
      BY <3>3, <3>6, <3>8 DEF Awaited
    <3>10. Timed'
      BY <3>6 DEF Timed
    <3> QED
      BY <1>1, <2>10, <3>6, <3>9, <3>10 DEF Settled
  <2>17. CASE GoesOn(t, reasm, frag, m, p)
    <3>1. /\ p # Parts(m) /\ reasm.in_progress /\ reasm.buf \in Seq(Units) /\ m \in 1..Len(sent)
          /\ t.reasm = [in_progress |-> TRUE, of |-> reasm.of, buf |-> reasm.buf \o frag]
      BY <1>1, <2>17 DEF GoesOn, RType, Known
    <3>2. PICK r : r = t.reasm
      OBVIOUS
    <3>3. r.in_progress /\ r.of = reasm.of /\ r.buf = reasm.buf \o frag
      BY <3>1, <3>2
    <3>4. Len(r.buf) # Len(reasm.buf)
      <4>1. Len(reasm.buf \o frag) = Len(reasm.buf) + Len(frag) /\ Len(reasm.buf) \in Nat
        BY <2>5, <3>1, ConcatProperties, LenProperties
      <4> QED
        BY <2>8, <3>3, <4>1
    <3>5. reasm_last_len = Len(reasm.buf)
      BY <3>1 DEF Settled, Noted
    <3>6. givenUp' = givenUp /\ reasm' = r /\ idle' = 0 /\ quiet' = 0
      <4>1. Len(r.buf) # reasm_last_len
        BY <3>4, <3>5
      <4>2. givenUp' = givenUp
        BY <2>9, <3>2, <4>1
      <4>3. reasm' = r
        BY <2>9, <3>2, <3>3, <4>1 DEF GivesUp
      <4>4. idle' = 0
        BY <2>9, <3>2, <3>3, <4>1, <4>3
      <4>5. r # reasm
        BY <3>4
      <4>6. quiet' = 0
        BY <2>7, <3>2, <3>3, <4>5
      <4> QED
        BY <4>2, <4>3, <4>4, <4>6
    <3>7. PICK n : n = reasm.of /\ n = r.of
      BY <3>3
    <3>8. Awaited'
      <4>1. Coming(n, Parts(n))'
        BY <2>13, <3>1, <3>7
      <4> QED
        BY <3>6, <3>7, <4>1 DEF Awaited
    <3>9. Timed'
      BY <3>6 DEF Timed
    <3> QED
      BY <1>1, <2>10, <3>6, <3>8, <3>9 DEF Settled
  <2> QED
    BY <2>6, <2>14, <2>15, <2>16, <2>17 DEF Refuses, Ends
<1> QED
  BY <1>3, <1>4

\* A packet of the console's, or none, leaves what is on its way as it was.
LEMMA NoneSettled ==
  ASSUME Typed, Settled, ~disturbed', PassConsole \/ PassIdle
  PROVE  Settled' /\ (givenUp' # givenUp => quiet' >= Limit)
PROOF
<1>1. /\ Visit(reasm) /\ sent' = sent /\ sending' = sending /\ cfg_set' = cfg_set
      /\ streaming' = streaming /\ quiet' = quiet /\ rx_frag' = rx_frag
  BY DEF PassConsole, PassIdle, host, frame
<1>2. CASE PassIdle
  <2>1. wire = <<>> /\ wire' = wire
    BY <1>2 DEF PassIdle, host
  <2>2. \A m, p : ~InFlight(m, p) /\ ~InFlight(m, p)'
    BY <2>1 DEF InFlight
  <2>3. rx_frag = <<>>
    BY <2>2 DEF Settled, OnItsWay
  <2>4. OnItsWay'
    BY <1>1, <2>1, <2>3 DEF OnItsWay
  <2> QED
    BY <1>1, <2>2, <2>4, VisitSettled
<1>3. CASE PassConsole
  <2>1. PICK u : u = Head(wire)
    OBVIOUS
  <2>2. wire # <<>> /\ rx_frag = <<>> /\ (u = Line \/ u.unit # 1) /\ wire' = Tail(wire)
    BY <1>3, <2>1 DEF PassConsole, IsConsoles
  <2>3. u.unit # 1
    BY <2>2 DEF Line
  <2>4. \A m, p : ~InFlight(m, p)
    <3>1. SUFFICES ASSUME NEW m, NEW p, InFlight(m, p) PROVE FALSE
      OBVIOUS
    <3>2. PICK w : w = wire
      OBVIOUS
    <3>3. Piece(w, m, p, 0)
      BY <2>2, <3>1, <3>2 DEF InFlight
    <3>4. w[1].unit = 0 + 1 /\ Head(w) = w[1]
      BY <2>2, <3>2, <3>3, PieceIs
    <3>5. u.unit = 0 + 1
      BY <2>1, <3>2, <3>4
    <3> QED
      BY <2>3, <3>5
  <2>5. wire = <<Line>>
    BY <2>2, <2>4 DEF Settled, OnItsWay
  <2>6. wire' = <<>>
    <3>1. PICK l : l = Line
      OBVIOUS
    <3> QED
      BY <2>2, <2>5, <3>1
  <2>7. \A m, p : ~InFlight(m, p)'
    BY <2>6 DEF InFlight
  <2>8. OnItsWay'
    BY <1>1, <2>2, <2>6 DEF OnItsWay
  <2> QED
    BY <1>1, <2>4, <2>7, <2>8, VisitSettled
<1> QED
  BY <1>2, <1>3

\* Before a host sends, nothing is on its way, and what is awaited it has yet to send.
LEMMA BeforeSends ==
  ASSUME Typed, Settled, wire = <<>>
  PROVE  /\ rx_frag = <<>>
         /\ reasm.in_progress =>
              /\ sending # NoMessage /\ sending.m = reasm.of /\ Known(reasm.of, Parts(reasm.of))
              /\ sending.part <= Parts(reasm.of)
PROOF
<1>1. \A m, p : ~InFlight(m, p)
  BY DEF InFlight
<1>2. rx_frag = <<>>
  BY <1>1 DEF Settled, OnItsWay
<1>3. SUFFICES ASSUME reasm.in_progress
               PROVE  /\ sending # NoMessage /\ sending.m = reasm.of
                      /\ Known(reasm.of, Parts(reasm.of)) /\ sending.part <= Parts(reasm.of)
  BY <1>2
<1>4. Known(reasm.of, Parts(reasm.of)) /\ sending.m = reasm.of /\ sending.part <= Parts(reasm.of)
  BY <1>1, <1>3 DEF Settled, Awaited, Coming
<1>5. sending # NoMessage
  BY <1>4 DEF Known, NoMessage, Typed, SentTyped
<1> QED
  BY <1>4, <1>5

\* A new message finds nothing in progress, or is single.
LEMMA SendSettled == ASSUME Typed, Settled, Send PROVE Settled'
PROOF
<1>1. PICK m : m = Len(sent) + 1
  OBVIOUS
<1>2. /\ Sends(m, 1) /\ m \in Nat
      /\ \/ ~Split(m)' /\ sending' = sending
         \/ Split(m)' /\ sending = NoMessage /\ sending' = [m |-> m, part |-> 2]
  BY <1>1, SendIs
<1>3. /\ wire = <<>> /\ reasm' = reasm /\ cfg_set' = cfg_set /\ streaming' = streaming /\ idle' = idle
      /\ quiet' = quiet /\ reasm_last_len' = reasm_last_len /\ Remembered /\ SentTyped
  BY <1>2 DEF Sends, device, clock, Typed
<1>4. InFlight(m, 1)' /\ \A n, q : InFlight(n, q)' => n = m /\ q = 1
  BY <1>2, <1>3, SendsCame, BeforeSends
<1>5. OnItsWay'
  BY <1>4 DEF OnItsWay
<1>6. reasm.in_progress => ~Split(m)' /\ sending' = sending
  BY <1>2, <1>3, BeforeSends
<1>7. Awaited'
  <2>1. SUFFICES ASSUME reasm.in_progress PROVE Coming(reasm.of, Parts(reasm.of))'
    BY <1>3 DEF Awaited
  <2>2. PICK n : n = reasm.of
    OBVIOUS
  <2>3. sending.m = n /\ Known(n, Parts(n)) /\ sending.part <= Parts(n) /\ sending' = sending
    BY <1>3, <1>6, <2>1, <2>2, BeforeSends
  <2>4. n \in 1..Len(sent)
    BY <2>3 DEF Known
  <2>5. PICK k : k = Parts(n) /\ k = Parts(n)'
    BY <1>3, <2>4, ContentStays
  <2>6. Known(n, k)'
    BY <1>3, <2>3, <2>4, <2>5, ContentStays
  <2>7. Coming(n, k)'
    BY <2>3, <2>5, <2>6 DEF Coming
  <2> QED
    BY <1>3, <2>2, <2>5, <2>7
<1>8. Fresh'
  BY <1>3, <1>4, <1>6 DEF Fresh
<1>9. Going'
  <2>1. SUFFICES ASSUME Split(m)' PROVE sending'.m = m
    BY <1>4 DEF Going
  <2> QED
    BY <1>2, <2>1
<1> QED
  BY <1>3, <1>5, <1>7, <1>8, <1>9 DEF Settled, Noted, Timed

\* The next fragment is one that was awaited.
LEMMA SendNextSettled == ASSUME Typed, Settled, SendNext PROVE Settled'
PROOF
<1>1. PICK m, p : m = sending.m /\ p = sending.part
  OBVIOUS
<1>2. /\ Sends(m, p) /\ Known(m, p) /\ p \in 2..Parts(m) /\ sent' = sent
      /\ \/ p = Parts(m) /\ sending' = NoMessage
         \/ p < Parts(m) /\ sending' = [m |-> m, part |-> p + 1]
  BY <1>1, SendNextIs
<1>3. /\ wire = <<>> /\ reasm' = reasm /\ cfg_set' = cfg_set /\ streaming' = streaming /\ idle' = idle
      /\ quiet' = quiet /\ reasm_last_len' = reasm_last_len /\ SentTyped
  BY <1>2 DEF Sends, device, clock, Typed
<1>4. InFlight(m, p)' /\ \A n, q : InFlight(n, q)' => n = m /\ q = p
  BY <1>2, <1>3, SendsCame, BeforeSends
<1>5. OnItsWay'
  BY <1>4 DEF OnItsWay
<1>6. Awaited'
  <2>1. SUFFICES ASSUME reasm.in_progress PROVE Coming(reasm.of, Parts(reasm.of))'
    BY <1>3 DEF Awaited
  <2>2. m = reasm.of
    BY <1>1, <1>3, <2>1, BeforeSends
  <2>3. PICK k : k = Parts(m) /\ k = Parts(m)'
    BY <1>2, AsBefore
  <2>4. m \in 1..Len(sent) /\ k \in Nat \ {0}
    BY <1>2, <1>3, <2>3, PartsAre DEF Known
  <2>5. Known(m, k)'
    BY <1>2, <2>3, <2>4, AsBefore DEF Known
  <2>6. Coming(m, k)'
    <3>1. CASE p = k
      BY <1>4, <2>5, <3>1 DEF Coming
    <3>2. CASE p # k
      <4>1. PICK s : s = sending'
        OBVIOUS
      <4>2. s = [m |-> m, part |-> p + 1] /\ p < k /\ p \in 2..k
        BY <1>2, <2>3, <3>2, <4>1
      <4>3. s.m = m /\ s.part <= k
        BY <2>4, <4>2
      <4> QED
        BY <2>5, <4>1, <4>3 DEF Coming
    <3> QED
      BY <3>1, <3>2
  <2> QED
    BY <1>3, <2>2, <2>3, <2>6
<1>7. Fresh'
  <2>1. p # 1
    BY <1>2
  <2> QED
    BY <1>4, <2>1 DEF Fresh
<1>8. Going'
  <2>1. SUFFICES ASSUME p < Parts(m)' PROVE sending'.m = m
    BY <1>4 DEF Going
  <2>2. Parts(m)' = Parts(m) /\ Parts(m) \in Nat
    BY <1>2, <1>3, AsBefore, PartsAre DEF Known
  <2>3. p # Parts(m)
    BY <1>2, <2>1, <2>2
  <2> QED
    BY <1>2, <2>3
<1> QED
  BY <1>3, <1>5, <1>6, <1>7, <1>8 DEF Settled, Noted, Timed

\* A line of console text changes nothing that is awaited.
LEMMA SendLineSettled == ASSUME Typed, Settled, SendLine PROVE Settled'
PROOF
<1>1. /\ wire = <<>> /\ wire' = <<Line>> /\ sending' = sending /\ sent' = sent /\ SentTyped
      /\ UNCHANGED <<rx_frag, reasm, cfg_set, streaming, idle, quiet, reasm_last_len>>
  BY DEF SendLine, Typed, device, frame, clock
<1>2. ASSUME NEW m, NEW q, InFlight(m, q)' PROVE FALSE
  <2>1. PICK a : Piece(wire, m, q, a)' /\ Known(m, q)'
    BY <1>2 DEF InFlight
  <2>2. m \in 1..Len(sent) /\ Len(sent) \in Nat
    BY <1>1, <2>1 DEF Known, SentTyped
  <2>3. PICK l : l = Line
    OBVIOUS
  <2>4. Len(wire') = 1 /\ wire'[1] = l
    BY <1>1, <2>3
  <2>5. l.m = m
    BY <2>1, <2>4 DEF Piece
  <2> QED
    BY <2>2, <2>3, <2>5 DEF Line
<1>3. OnItsWay'
  BY <1>1, BeforeSends DEF OnItsWay, Line
<1>4. Awaited'
  <2>1. SUFFICES ASSUME reasm.in_progress PROVE Coming(reasm.of, Parts(reasm.of))'
    BY <1>1 DEF Awaited
  <2>2. PICK n, k : n = reasm.of /\ k = Parts(n)
    OBVIOUS
  <2>3. sending.m = n /\ Known(n, k) /\ sending.part <= k
    BY <1>1, <2>1, <2>2, BeforeSends
  <2>4. Coming(n, k)' /\ k = Parts(n)'
    BY <1>1, <2>2, <2>3, AsBefore DEF Coming
  <2> QED
    BY <1>1, <2>2, <2>4
<1>5. Fresh' /\ Going'
  BY <1>2 DEF Fresh, Going
<1> QED
  BY <1>1, <1>3, <1>4, <1>5 DEF Settled, Noted, Timed

\* Time passes for both clocks.
LEMMA TickSettled == ASSUME Typed, Settled, Tick \/ UNCHANGED vars PROVE Settled'
PROOF
<1>1. /\ UNCHANGED <<cfg_set, wire, sending, sent, rx_frag, rx_need, reasm, reasm_last_len, streaming>>
      /\ idle <= quiet => idle' <= quiet'
  <2>1. CASE Tick
    <3>1. idle \in 0..Limit /\ quiet \in 0..Limit /\ Limit \in Nat
      BY LimitAssumption DEF Typed, ClockIs
    <3> QED
      BY <2>1, <3>1 DEF Tick, host, frame
  <2>2. CASE UNCHANGED vars
    BY <2>2 DEF vars, host, frame, clock
  <2> QED
    BY <2>1, <2>2
<1>2. \A m, p : InFlight(m, p)' <=> InFlight(m, p)
  BY <1>1 DEF InFlight, Known, Parts, Piece
<1>3. \A m, p : Coming(m, p)' <=> Coming(m, p)
  BY <1>1, <1>2 DEF Coming, Known, Parts
<1>4. OnItsWay' /\ Awaited' /\ Fresh' /\ Going'
  BY <1>1, <1>2, <1>3, AsBefore DEF Settled, OnItsWay, Awaited, Fresh, Going, Parts, Split, Line
<1> QED
  BY <1>1, <1>4 DEF Settled, Noted, Timed

\* From a settled receiver.
LEMMA SettledStays ==
  ASSUME Typed, Settled, [Next]_vars, ~disturbed
  PROVE  (~disturbed' => Settled') /\ (givenUp' # givenUp => quiet' >= Limit)
PROOF
<1>1. CASE PassTaking
  <2>1. PICK f \in Collecting(Head(wire)) : Feed(f)
    BY <1>1 DEF PassTaking
  <2>2. Taking(f) /\ cfg_set' = cfg_set /\ streaming' = streaming
    BY <1>1, <2>1 DEF PassTaking, Taking, Reads, Feed
  <2> QED
    BY <2>2, TakingSettled
<1>2. CASE PassConsole \/ PassIdle
  <2>1. disturbed' = FALSE \/ ~disturbed'
    BY <1>2, Zenon DEF PassConsole, PassIdle, NoteEmpty
  <2> QED
    BY <1>2, <2>1, NoneSettled
<1>3. CASE CommandBegins \/ HostDies \/ Unplug
  <2>1. disturbed' = TRUE /\ givenUp' = givenUp
    BY <1>3 DEF CommandBegins, HostDies, Unplug, device, clock
  <2> QED
    BY <2>1
<1>4. CASE CommandEnds \/ Plug
  BY <1>4 DEF CommandEnds, Plug, Settled
<1>5. CASE Tick \/ UNCHANGED vars
  <2>1. givenUp' = givenUp
    BY <1>5 DEF Tick, vars, clock
  <2> QED
    BY <1>5, <2>1, TickSettled
<1>6. CASE Send \/ SendNext \/ SendLine
  <2>1. givenUp' = givenUp
    BY <1>6 DEF Send, SendNext, SendLine, device, clock
  <2> QED
    BY <1>6, <2>1, SendSettled, SendNextSettled, SendLineSettled
<1> QED
  BY <1>1, <1>2, <1>3, <1>4, <1>5, <1>6 DEF Next, Pass, Host

\* A receiver that no lost host and no held loop has disturbed since it was empty awaits what it
\* collects, and its clock runs from the last fragment (session.c:529-545).
THEOREM UndisturbedHolds == Spec => []Undisturbed
PROOF
<1>1. ASSUME Init PROVE Undisturbed
  <2>1. Typed
    BY <1>1, TypedFirst
  <2>2. \A m, p : ~InFlight(m, p)
    BY <1>1 DEF Init, InFlight
  <2>3. Settled
    <3>1. PICK r : r = reasm
      OBVIOUS
    <3>2. ~r.in_progress
      BY <1>1, <3>1 DEF Init
    <3> QED
      BY <1>1, <2>2, <3>1, <3>2 DEF Init, Settled, OnItsWay, Awaited, Fresh, Going, Noted, Timed
  <2> QED
    BY <2>1, <2>3 DEF Undisturbed
<1>2. ASSUME Undisturbed, [Next]_vars PROVE Undisturbed'
  BY <1>2, TypedHolds, EmptySettles, SettledStays DEF Undisturbed
<1> QED
  BY <1>1, <1>2, PTL DEF Spec

\* A transfer is given up only if no fragment of it came for the whole idle time, unless a host was
\* lost or the loop held (session.c:529-545), for any idle time and any messages.
THEOREM OnlyIdleIsGivenUpHolds == Spec => OnlyIdleIsGivenUp
PROOF
<1>1. Undisturbed /\ [Next]_vars => [givenUp' # givenUp => quiet' >= Limit \/ disturbed]_vars
  BY SettledStays DEF Undisturbed
<1> QED
  BY <1>1, UndisturbedHolds, PTL DEF Spec, OnlyIdleIsGivenUp

-----------------------------------------------------------------------------
(* The transmit half.                                                      *)

Queued(e) == [kind : Kinds, epoch : 0..e]
Packet(e) == [kind : Kinds \union {"text"}, first : BOOLEAN, left : Nat, epoch : 0..e]

\* What is under way: in the driver's buffer, and behind it what is framed already.
UnderWay == buf \o pending

LinkTyped ==
  /\ cfg_set \in BOOLEAN /\ muted \in BOOLEAN /\ cleared \in BOOLEAN
  /\ torn \in BOOLEAN /\ stale \in BOOLEAN
  /\ epoch \in Nat /\ rxWant \in Nat /\ consoles \in Nat /\ shots \in Nat
  /\ tail \in 0..BufCap
  /\ control \in Seq(Queued(epoch)) /\ input \in Seq(Queued(epoch))
  /\ buf \in Seq(Packet(epoch)) /\ pending \in Seq(Packet(epoch))

\* What a queue holds was queued for one host.
AllOf(q, e) == \A i \in 1..Len(q) : q[i].epoch = e

\* A pass of the service has cleared the queues before another host attaches, unless a
\* stream held the loop.
QueuesAreCurrent ==
  /\ muted => shots > 0
  /\ shots = 0 /\ (cfg_set \/ cleared) =>
       AllOf(control, epoch) /\ AllOf(input, epoch)

\* Messages in a row: no text, each to its last chunk before the next begins, the last
\* one too.
InRow(s) ==
  \A i \in 1..Len(s) :
    /\ s[i].kind # "text"
    /\ i = Len(s) => s[i].left = 0
    /\ i < Len(s) /\ s[i].left = 0 => s[i + 1].first
    /\ i < Len(s) /\ s[i].left # 0 => ~s[i + 1].first /\ s[i + 1].left = s[i].left - 1

\* They go on where a decoder is that expects so many chunks more.
TakesUp(s, want) ==
  IF s = <<>> THEN want = 0
  ELSE IF want = 0 THEN s[1].first
  ELSE ~s[1].first /\ s[1].left = want - 1

\* Unless the console has written: what is under way is messages in a row, all of it from
\* before while no host is there; and the host attached either is where they go on, or
\* first meets a chunk of an earlier time, which it is told by.
RowIsKept == consoles = 0 => InRow(UnderWay)
OldWhileAway ==
  consoles = 0 /\ ~cfg_set => \A i \in 1..Len(UnderWay) : UnderWay[i].epoch < epoch
HostIsInPlace ==
  consoles = 0 /\ ~stale /\ cfg_set =>
    /\ ~torn
    /\ TakesUp(UnderWay, rxWant) \/ (UnderWay # <<>> /\ UnderWay[1].epoch # epoch)

LinkInv ==
  /\ LinkTyped /\ QueuesAreCurrent /\ RowIsKept /\ OldWhileAway /\ HostIsInPlace
  /\ FramesWhole

\* Such a row begins with the first chunk of a message.
Opens(s) == s # <<>> => s[1].first
IsRow(s, e) == s \in Seq(Packet(e)) /\ InRow(s) /\ Opens(s)

\* Rows of messages, one behind the other, are a row, and begin as the first does.
LEMMA RowsJoin ==
  ASSUME NEW e \in Nat, NEW s \in Seq(Packet(e)), InRow(s), NEW t, IsRow(t, e), NEW u, u = s \o t
  PROVE  /\ u \in Seq(Packet(e)) /\ InRow(u)
         /\ s # <<>> => u # <<>> /\ u[1] = s[1]
         /\ s = <<>> => u = t
         /\ Opens(s) => Opens(u)
         /\ \A want \in Nat : TakesUp(s, want) => TakesUp(u, want)
PROOF
<1>0. t \in Seq(Packet(e)) /\ InRow(t) /\ Opens(t)
  BY DEF IsRow
<1>1. PICK l \in Nat, m \in Nat : l = Len(s) /\ m = Len(t)
  BY <1>0, LenProperties
<1>2. /\ u \in Seq(Packet(e)) /\ Len(u) = l + m
      /\ \A i \in 1..l : u[i] = s[i]
      /\ \A i \in 1..m : u[l + i] = t[i]
  BY <1>0, <1>1, ConcatProperties
<1>3. s # <<>> => u # <<>> /\ u[1] = s[1]
  <2> SUFFICES ASSUME s # <<>> PROVE u # <<>> /\ u[1] = s[1]
    OBVIOUS
  <2>1. 1 \in 1..l /\ Len(u) # 0
    BY <1>1, <1>2, EmptySeq
  <2> QED
    BY <1>2, <2>1, EmptySeq
<1>4. s = <<>> => u = t
  BY <1>0, ConcatEmptySeq
<1>5. m # 0 => t # <<>> /\ t[1].first /\ u[l + 1] = t[1]
  <2> SUFFICES ASSUME m # 0 PROVE t # <<>> /\ t[1].first /\ u[l + 1] = t[1]
    OBVIOUS
  <2>1. 1 \in 1..m
    OBVIOUS
  <2> QED
    BY <1>0, <1>1, <1>2, <2>1, EmptySeq DEF Opens
<1>6. InRow(u)
  <2> SUFFICES ASSUME NEW i \in 1..(l + m)
               PROVE  /\ u[i].kind # "text"
                      /\ i = l + m => u[i].left = 0
                      /\ i < l + m /\ u[i].left = 0 => u[i + 1].first
                      /\ i < l + m /\ u[i].left # 0 =>
                           ~u[i + 1].first /\ u[i + 1].left = u[i].left - 1
    BY <1>2 DEF InRow
  <2>1. CASE i \in 1..l /\ i # l
    <3>1. i + 1 \in 1..l /\ i < l /\ i # l + m
      BY <2>1
    <3>2. u[i] = s[i] /\ u[i + 1] = s[i + 1]
      BY <1>2, <2>1, <3>1
    <3> QED
      BY <1>1, <2>1, <3>1, <3>2 DEF InRow
  <2>2. CASE i = l
    <3>1. l \in 1..l /\ u[i] = s[l]
      BY <1>2, <2>2
    <3>2. s[l].kind # "text" /\ s[l].left = 0
      BY <1>1, <3>1 DEF InRow
    <3>3. i < l + m => m # 0
      BY <2>2
    <3>4. m # 0 => u[i + 1] = t[1] /\ t[1].first
      BY <1>5, <2>2
    <3>5. m # 0 => u[i + 1].first
      BY <3>4, Zenon
    <3>6. u[i].kind # "text" /\ u[i].left = 0
      BY <3>1, <3>2
    <3>7. i < l + m => u[i + 1].first
      BY <3>3, <3>5, Zenon
    <3> QED
      BY <3>6, <3>7, Zenon
  <2>3. CASE i \notin 1..l
    <3>0. PICK j \in 1..m : i = l + j
      BY <2>3
    <3>1. u[i] = t[j]
      BY <1>2, <3>0
    <3>2. j < m => u[i + 1] = t[j + 1]
      <4> SUFFICES ASSUME j < m PROVE u[i + 1] = t[j + 1]
        OBVIOUS
      <4>1. j + 1 \in 1..m /\ i + 1 = l + (j + 1)
        BY <3>0
      <4> QED
        BY <1>2, <4>1
    <3>3. (i = l + m <=> j = m) /\ (i < l + m <=> j < m)
      BY <3>0
    <3>4. /\ t[j].kind # "text"
          /\ j = m => t[j].left = 0
          /\ j < m /\ t[j].left = 0 => t[j + 1].first
          /\ j < m /\ t[j].left # 0 => ~t[j + 1].first /\ t[j + 1].left = t[j].left - 1
      BY <1>0, <1>1 DEF InRow
    <3> QED
      BY <3>0, <3>1, <3>2, <3>3, <3>4
  <2> QED
    BY <2>1, <2>2, <2>3
<1>7. ASSUME NEW want \in Nat, TakesUp(s, want) PROVE TakesUp(u, want)
  <2>1. CASE s = <<>>
    BY <1>0, <1>4, <1>7, <2>1 DEF TakesUp, Opens
  <2>2. CASE s # <<>>
    BY <1>3, <1>7, <2>2 DEF TakesUp
  <2> QED
    BY <2>1, <2>2
<1>8. Opens(s) => Opens(u)
  <2>1. CASE s = <<>>
    BY <1>0, <1>4, <2>1, Zenon
  <2>2. CASE s # <<>>
    BY <1>3, <2>2, Zenon DEF Opens
  <2> QED
    BY <2>1, <2>2
<1> QED
  BY <1>2, <1>3, <1>4, <1>6, <1>7, <1>8

\* A framed message is such a row.
LEMMA FramedIs ==
  ASSUME ChunksAssumption, NEW e \in Nat, NEW m \in Queued(e), NEW s, s = Framed(m)
  PROVE  IsRow(s, e)
PROOF
<1>1. PICK n \in Nat \ {0} : n = Chunks[m.kind]
  BY DEF Queued, ChunksAssumption
<1>2. s = [i \in 1..n |-> [kind |-> m.kind, first |-> i = 1, left |-> n - i, epoch |-> m.epoch]]
  BY <1>1 DEF Framed
<1>3. \A i \in 1..n : s[i] = [kind |-> m.kind, first |-> i = 1, left |-> n - i, epoch |-> m.epoch]
  BY <1>2
<1>4. s \in Seq(Packet(e)) /\ Len(s) = n
  <2>1. ASSUME NEW i \in 1..n PROVE s[i] \in Packet(e)
    <3>0. n - i \in Nat /\ (i = 1) \in BOOLEAN
      OBVIOUS
    <3>1. PICK b \in BOOLEAN, l \in Nat, k \in Kinds \union {"text"}, o \in 0..e :
            b = (i = 1) /\ l = n - i /\ k = m.kind /\ o = m.epoch
      BY <3>0, Zenon DEF Queued
    <3>2. s[i] = [kind |-> k, first |-> b, left |-> l, epoch |-> o]
      BY <1>3, <3>1
    <3>3. [kind |-> k, first |-> b, left |-> l, epoch |-> o] \in Packet(e)
      BY DEF Packet
    <3> QED
      BY <3>2, <3>3
  <2>2. DOMAIN s = 1..n
    BY <1>2
  <2>3. s \in [1..n -> Packet(e)]
    <3>1. s = [i \in 1..n |-> s[i]]
      BY <1>2, <2>2, Zenon
    <3> QED
      BY <2>1, <3>1, Zenon
  <2> QED
    BY <2>2, <2>3
<1>5. \A i \in 1..n : (s[i].first <=> i = 1) /\ s[i].left = n - i /\ s[i].kind = m.kind
  <2> SUFFICES ASSUME NEW i \in 1..n
               PROVE  (s[i].first <=> i = 1) /\ s[i].left = n - i /\ s[i].kind = m.kind
    OBVIOUS
  <2>1. PICK b \in BOOLEAN : b <=> i = 1
    OBVIOUS
  <2>2. s[i] = [kind |-> m.kind, first |-> b, left |-> n - i, epoch |-> m.epoch]
    BY <1>3, <2>1
  <2> QED
    BY <2>1, <2>2
<1>6. m.kind # "text"
  BY DEF Queued, Kinds
<1>7. InRow(s)
  <2> SUFFICES ASSUME NEW i \in 1..n
               PROVE  /\ s[i].kind # "text"
                      /\ i = n => s[i].left = 0
                      /\ i < n /\ s[i].left = 0 => s[i + 1].first
                      /\ i < n /\ s[i].left # 0 =>
                           ~s[i + 1].first /\ s[i + 1].left = s[i].left - 1
    BY <1>4 DEF InRow
  <2>1. s[i].left = n - i /\ s[i].kind = m.kind
    BY <1>5
  <2>2. i < n => i + 1 \in 1..n /\ i + 1 # 1 /\ n - i # 0 /\ n - (i + 1) = (n - i) - 1
    OBVIOUS
  <2>3. i < n => ~s[i + 1].first /\ s[i + 1].left = n - (i + 1)
    BY <1>5, <2>2
  <2> QED
    BY <1>6, <2>1, <2>2, <2>3
<1>8. Opens(s)
  BY <1>5 DEF Opens
<1> QED
  BY <1>4, <1>7, <1>8 DEF IsRow

\* And so is what a queue of them becomes, by one more.
LEMMA QueueGrows ==
  ASSUME ChunksAssumption, NEW e \in Nat, NEW n \in Nat, NEW q \in Seq(Queued(e)), Len(q) = n + 1,
         NEW p, p = SubSeq(q, 1, n), IsRow(Frames(p), e)
  PROVE  p \in Seq(Queued(e)) /\ Len(p) = n /\ IsRow(Frames(q), e)
PROOF
<1>2. p \in Seq(Queued(e)) /\ Len(p) = n /\ \A i \in 1..n : p[i] = q[i]
  OBVIOUS
<1>3. q[n + 1] \in Queued(e)
  BY ElementOfSeq
<1>4. PICK w : w = [i \in 1..Len(p) |-> Framed(p[i])]
  OBVIOUS
<1>5. PICK v : v = [i \in 1..Len(q) |-> Framed(q[i])]
  OBVIOUS
<1>6. /\ Len(w) = n /\ Len(v) = n + 1 /\ \A i \in 1..n : w[i] = v[i]
      /\ v[n + 1] = Framed(q[n + 1])
  BY <1>2, <1>4, <1>5
<1>7. /\ n = 0 => FlattenSeq(v) = v[1]
      /\ n # 0 => FlattenSeq(v) = FlattenSeq(w) \o v[n + 1]
  BY ONLY n \in Nat, <1>6, FlatGrows
<1>8. Frames(p) = FlattenSeq(w) /\ Frames(q) = FlattenSeq(v)
  BY <1>4, <1>5 DEF Frames, FlattenSeq
<1>9. PICK s : s = v[n + 1] /\ IsRow(s, e)
  BY <1>3, <1>6, FramedIs
<1>10. CASE n = 0
  <2>1. Frames(q) = s
    BY <1>7, <1>8, <1>9, <1>10
  <2> QED
    BY <1>2, <1>9, <2>1
<1>11. CASE n # 0
  <2>1. PICK r : r = Frames(p) /\ r \in Seq(Packet(e)) /\ InRow(r) /\ Opens(r)
    BY DEF IsRow
  <2>2. PICK u : u = r \o s /\ u = Frames(q)
    BY <1>7, <1>8, <1>9, <1>11, <2>1
  <2>3. u \in Seq(Packet(e)) /\ InRow(u) /\ Opens(u)
    <3>1. r \in Seq(Packet(e)) /\ InRow(r) /\ Opens(r) /\ IsRow(s, e) /\ u = r \o s
      BY <1>9, <2>1, <2>2
    <3>2. u \in Seq(Packet(e))
      BY <3>1, RowsJoin
    <3>3. InRow(u)
      BY <3>1, RowsJoin
    <3>4. Opens(u)
      BY <3>1, RowsJoin
    <3> QED
      BY <3>2, <3>3, <3>4
  <2> QED
    BY <1>2, <2>2, <2>3 DEF IsRow
<1> QED
  BY <1>10, <1>11

\* And so of any length.
LEMMA FramesAre ==
  ASSUME ChunksAssumption, NEW e \in Nat, NEW q \in Seq(Queued(e))
  PROVE  IsRow(Frames(q), e)
PROOF
<1> DEFINE S == {n \in Nat : \A s \in Seq(Queued(e)) : Len(s) = n => IsRow(Frames(s), e)}
<1>1. 0 \in S
  <2> SUFFICES ASSUME NEW s \in Seq(Queued(e)), Len(s) = 0 PROVE IsRow(Frames(s), e)
    OBVIOUS
  <2>1. PICK w : w = [i \in 1..Len(s) |-> Framed(s[i])]
    OBVIOUS
  <2>2. Len(w) = 0 /\ w = <<>>
    BY <2>1
  <2>3. Frames(s) = <<>>
    BY <2>1, <2>2 DEF Frames, FlattenSeq
  <2>4. <<>> \in Seq(Packet(e)) /\ Len(<<>>) = 0
    OBVIOUS
  <2>5. InRow(<<>>) /\ Opens(<<>>)
    BY <2>4 DEF InRow, Opens
  <2> QED
    BY <2>3, <2>4, <2>5 DEF IsRow
<1>2. ASSUME NEW n \in Nat, n \in S PROVE n + 1 \in S
  <2> SUFFICES ASSUME NEW s \in Seq(Queued(e)), Len(s) = n + 1 PROVE IsRow(Frames(s), e)
    OBVIOUS
  <2>1. PICK p : p = SubSeq(s, 1, n)
    OBVIOUS
  <2>2. p \in Seq(Queued(e)) /\ Len(p) = n
    BY <2>1
  <2>3. IsRow(Frames(p), e)
    BY <1>2, <2>2
  <2> QED
    BY <2>1, <2>3, QueueGrows
<1> HIDE DEF S
<1>3. Nat \subseteq S
  BY <1>1, <1>2, SetInduction
<1>4. Len(q) \in S
  BY <1>3, LenProperties
<1> QED
  BY <1>4 DEF S

-----------------------------------------------------------------------------
(* What the transport does with them.                                      *)

\* Joining is associative.
LEMMA Associates ==
  ASSUME NEW S, NEW a \in Seq(S), NEW b \in Seq(S), NEW c \in Seq(S)
  PROVE  (a \o b) \o c = a \o (b \o c)
PROOF
  BY ConcatAssociative

\* What fits goes into the buffer, the rest stays behind it: nothing is lost or moved.
LEMMA HandOverIs ==
  ASSUME SizesAssumption, LinkTyped, NEW chunks \in Seq(Packet(epoch)), HandOver(chunks)
  PROVE  /\ buf' \in Seq(Packet(epoch)) /\ pending' \in Seq(Packet(epoch)) /\ tail' \in 0..BufCap
         /\ UnderWay' = buf \o chunks
PROOF
<1>1. PICK room \in Nat, cap \in Nat : room = BufCap - tail /\ cap = BufCap /\ tail = cap - room
  BY DEF LinkTyped, SizesAssumption
<1>2. PICK l \in Nat : l = Len(chunks)
  BY LenProperties
<1>3. PICK n \in 0..l : n = IF l < room THEN l ELSE room
  OBVIOUS
<1>4. /\ buf' = buf \o SubSeq(chunks, 1, n) /\ tail' = tail + n
      /\ pending' = SubSeq(chunks, n + 1, l)
  BY <1>1, <1>2, <1>3 DEF HandOver, Room
<1>5. PICK a, b : a = SubSeq(chunks, 1, n) /\ b = SubSeq(chunks, n + 1, l)
  OBVIOUS
<1>6. /\ a \in Seq(Packet(epoch)) /\ b \in Seq(Packet(epoch))
      /\ Len(a) = n /\ Len(b) = l - n
      /\ \A i \in 1..n : a[i] = chunks[i]
      /\ \A i \in 1..(l - n) : b[i] = chunks[n + i]
  <2>1. \A i \in 1..n : i \in 1..l
    OBVIOUS
  <2>2. \A i \in 1..(l - n) : n + i \in 1..l
    OBVIOUS
  <2>3. a \in Seq(Packet(epoch)) /\ Len(a) = n /\ \A i \in 1..n : a[i] = chunks[i]
    BY <1>2, <1>5, <2>1
  <2>4. b \in Seq(Packet(epoch)) /\ Len(b) = l - n /\ \A i \in 1..(l - n) : b[i] = chunks[n + i]
    BY <1>2, <1>5, <2>2
  <2> QED
    BY <2>3, <2>4
<1>7. a \o b = chunks
  <2>1. 1 \in 1..(l + 1) /\ n \in (1 - 1)..l /\ l \in n..l
    OBVIOUS
  <2>2. SubSeq(chunks, 1, n) \o SubSeq(chunks, n + 1, l) = SubSeq(chunks, 1, l)
    BY <1>2, <2>1, ConcatAdjacentSubSeq
  <2> QED
    BY <1>2, <1>5, <2>2, SubSeqFull
<1>8. buf' = buf \o a /\ pending' = b /\ buf \in Seq(Packet(epoch))
  BY <1>4, <1>5 DEF LinkTyped
<1>9. (buf \o a) \o b = buf \o (a \o b)
  <2>1. PICK x \in Seq(Packet(epoch)) : x = buf
    BY <1>8
  <2>2. (x \o a) \o b = x \o (a \o b)
    BY <1>6, <2>1, Associates
  <2> QED
    BY <2>1, <2>2
<1>10. UnderWay' = buf \o chunks
  BY <1>7, <1>8, <1>9 DEF UnderWay
<1>11. tail' \in 0..BufCap
  <2>1. PICK t \in Nat : t = tail /\ t <= BufCap
    BY DEF LinkTyped
  <2>2. room = cap - t /\ t + n <= cap
    BY <1>1, <1>3, <2>1
  <2>3. tail' = t + n
    BY <1>4, <2>1
  <2> QED
    BY <1>1, <2>2, <2>3
<1>12. buf \o a \in Seq(Packet(epoch))
  BY <1>6, <1>8, ConcatProperties
<1> QED
  BY <1>6, <1>8, <1>10, <1>11, <1>12

\* A part of a queue, off its end or its beginning.
LEMMA PartIs ==
  ASSUME NEW e \in Nat, NEW q \in Seq(Queued(e)), NEW k \in Nat, k <= Len(q)
  PROVE  /\ SubSeq(q, 1, k) \in Seq(Queued(e)) /\ SubSeq(q, k + 1, Len(q)) \in Seq(Queued(e))
         /\ AllOf(q, e) => AllOf(SubSeq(q, k + 1, Len(q)), e)
PROOF
<1>1. PICK l \in Nat : l = Len(q)
  BY LenProperties
<1>2. \A i \in 1..k : i \in 1..l
  BY <1>1
<1>3. \A i \in 1..(l - k) : k + i \in 1..l
  BY <1>1
<1>4. SubSeq(q, 1, k) \in Seq(Queued(e))
  BY <1>1, <1>2
<1>5. PICK b : b = SubSeq(q, k + 1, l)
  OBVIOUS
<1>6. b \in Seq(Queued(e)) /\ Len(b) = l - k /\ \A i \in 1..(l - k) : b[i] = q[k + i]
  BY <1>1, <1>3, <1>5
<1>7. AllOf(q, e) => AllOf(b, e)
  BY <1>1, <1>3, <1>6 DEF AllOf
<1> QED
  BY <1>1, <1>4, <1>5, <1>6, <1>7

\* The pump adds rows of messages to what is under way, and takes from the queues only.
LEMMA PumpIs ==
  ASSUME SizesAssumption, ChunksAssumption, LinkTyped,
         NEW ctl \in Seq(Queued(epoch)), NEW inp \in Seq(Queued(epoch)), Pump(ctl, inp)
  PROVE  /\ \E t : IsRow(t, epoch) /\ UnderWay' = UnderWay \o t
         /\ buf' \in Seq(Packet(epoch)) /\ pending' \in Seq(Packet(epoch)) /\ tail' \in 0..BufCap
         /\ control' \in Seq(Queued(epoch)) /\ input' \in Seq(Queued(epoch))
         /\ AllOf(ctl, epoch) => AllOf(control', epoch)
         /\ AllOf(inp, epoch) => AllOf(input', epoch)
PROOF
<1>0. /\ buf \in Seq(Packet(epoch)) /\ pending \in Seq(Packet(epoch)) /\ epoch \in Nat
      /\ tail \in 0..BufCap
  BY DEF LinkTyped
<1>1. PICK q : q = ctl \o inp
  OBVIOUS
<1>2. q \in Seq(Queued(epoch)) /\ Len(q) = Len(ctl) + Len(inp)
  BY <1>1, ConcatProperties
<1>3. PICK n \in 0..Len(q) :
        /\ IF q = <<>> THEN UNCHANGED <<buf, tail, pending>>
                       ELSE HandOver(Leaving(SubSeq(q, 1, n)))
        /\ control' = SubSeq(ctl, n + 1, Len(ctl))
        /\ input' = IF n <= Len(ctl) THEN inp ELSE SubSeq(inp, n - Len(ctl) + 1, Len(inp))
  BY <1>1 DEF Pump
<1>4. /\ control' \in Seq(Queued(epoch)) /\ AllOf(ctl, epoch) => AllOf(control', epoch)
      /\ control' \in Seq(Queued(epoch))
  <2>1. CASE n <= Len(ctl)
    BY <1>0, <1>3, <2>1, PartIs
  <2>2. CASE ~(n <= Len(ctl))
    <3>1. control' = <<>>
      <4>1. PICK l \in Nat : l = Len(ctl) /\ l < n + 1
        BY <1>2, <2>2, LenProperties
      <4> QED
        BY <1>3, <4>1, EmptySeq
    <3> QED
      BY <3>1 DEF AllOf
  <2> QED
    BY <2>1, <2>2
<1>5. input' \in Seq(Queued(epoch)) /\ (AllOf(inp, epoch) => AllOf(input', epoch))
  <2>1. CASE n <= Len(ctl)
    BY <1>3, <2>1
  <2>2. CASE ~(n <= Len(ctl))
    <3>0. PICK c \in Nat, d \in Nat : c = Len(ctl) /\ d = Len(inp)
      BY LenProperties
    <3>4. n \in 0..(c + d) /\ ~(n <= c)
      BY <1>2, <2>2, <3>0
    <3>5. n - c \in Nat /\ n - c <= d
      BY ONLY <3>4, c \in Nat, d \in Nat
    <3>1. PICK k \in Nat : k = n - Len(ctl) /\ k <= Len(inp)
      BY <3>0, <3>5
    <3>2. input' = SubSeq(inp, k + 1, Len(inp))
      BY <1>3, <2>2, <3>1
    <3> QED
      BY <1>0, <3>1, <3>2, PartIs
  <2> QED
    BY <2>1, <2>2
<1>6. CASE q = <<>>
  <2>1. UnderWay' = UnderWay /\ UnderWay \in Seq(Packet(epoch))
    BY <1>0, <1>3, <1>6, ConcatProperties DEF UnderWay
  <2>2. UnderWay \o <<>> = UnderWay
    BY <2>1, ConcatEmptySeq
  <2>3. IsRow(<<>>, epoch)
    BY EmptySeq DEF IsRow, InRow, Opens
  <2> QED
    BY <1>0, <1>3, <1>4, <1>5, <1>6, <2>1, <2>2, <2>3
<1>7. CASE q # <<>>
  <2>1. PICK p : p = SubSeq(q, 1, n)
    OBVIOUS
  <2>2. p \in Seq(Queued(epoch))
    BY <1>0, <1>2, <2>1, PartIs
  <2>3. PICK t : t = Frames(p) /\ IsRow(t, epoch)
    BY <1>0, <2>2, FramesAre
  <2>4. PICK c : c = pending \o t
    OBVIOUS
  <2>5. t \in Seq(Packet(epoch)) /\ c \in Seq(Packet(epoch))
    BY <1>0, <2>3, <2>4, ConcatProperties DEF IsRow
  <2>6. HandOver(c)
    BY <1>3, <1>7, <2>1, <2>3, <2>4 DEF Leaving
  <2>7. /\ buf' \in Seq(Packet(epoch)) /\ pending' \in Seq(Packet(epoch)) /\ tail' \in 0..BufCap
        /\ UnderWay' = buf \o c
    BY <2>5, <2>6, HandOverIs
  <2>8. buf \o (pending \o t) = (buf \o pending) \o t
    <3>1. PICK x \in Seq(Packet(epoch)), y \in Seq(Packet(epoch)) : x = buf /\ y = pending
      BY <1>0
    <3>2. (x \o y) \o t = x \o (y \o t)
      BY <2>5, <3>1, Associates
    <3> QED
      BY <3>1, <3>2
  <2>9. UnderWay' = UnderWay \o t
    BY <2>4, <2>7, <2>8 DEF UnderWay
  <2> QED
    BY <1>4, <1>5, <2>3, <2>7, <2>9
<1> QED
  BY <1>6, <1>7

-----------------------------------------------------------------------------
(* Every step keeps the invariant.                                         *)

\* One more message at the end of a queue, if there is room, is of this host.
LEMMA OfferIs ==
  ASSUME NEW e \in Nat, e = epoch, NEW q \in Seq(Queued(e)), NEW k \in Kinds
  PROVE  /\ Offer(q, k) \in Seq(Queued(e))
         /\ AllOf(q, e) => AllOf(Offer(q, k), e)
PROOF
<1>0. e \in 0..e
  OBVIOUS
<1>1. PICK m : m = Message(k) /\ m.epoch = e /\ m \in Queued(e)
  <2>1. [kind |-> k, epoch |-> e] \in [kind : Kinds, epoch : 0..e]
    BY <1>0
  <2>2. Message(k) = [kind |-> k, epoch |-> e]
    BY DEF Message
  <2> QED
    BY <2>1, <2>2 DEF Queued
<1>2. PICK l \in Nat : l = Len(q)
  BY LenProperties
<1>3. PICK r : r = Append(q, m)
  OBVIOUS
<1>4. /\ r \in Seq(Queued(e)) /\ Len(r) = l + 1
      /\ \A i \in 1..l : r[i] = q[i]
      /\ r[l + 1] = m
  <2>1. q \in Seq(Queued(e)) /\ m \in Queued(e)
    BY <1>1
  <2> QED
    BY ONLY <1>2, <1>3, <2>1, AppendProperties
<1>5. AllOf(q, e) => AllOf(r, e)
  BY <1>1, <1>2, <1>4 DEF AllOf
<1>6. Offer(q, k) = q \/ Offer(q, k) = r
  BY <1>1, <1>3 DEF Offer
<1> QED
  BY <1>4, <1>5, <1>6

\* What the transport and the decoder hold does not change.
LEMMA RowStays ==
  ASSUME RowIsKept, OldWhileAway, HostIsInPlace, FramesWhole,
         UNCHANGED <<cfg_set, buf, pending, rxWant, torn, stale, epoch, consoles>>
  PROVE  RowIsKept' /\ OldWhileAway' /\ HostIsInPlace' /\ FramesWhole'
PROOF
<1>1. UnderWay' = UnderWay
  BY DEF UnderWay
<1>2. RowIsKept'
  BY <1>1 DEF RowIsKept, InRow
<1>3. OldWhileAway'
  BY <1>1 DEF OldWhileAway
<1>4. HostIsInPlace'
  BY <1>1 DEF HostIsInPlace, TakesUp
<1>5. FramesWhole'
  BY DEF FramesWhole
<1> QED
  BY <1>2, <1>3, <1>4, <1>5

\* While a host is there messages join what is under way.
LEMMA RowGrows ==
  ASSUME LinkInv, cfg_set, UNCHANGED <<cfg_set, rxWant, torn, stale, epoch, consoles>>,
         NEW t, IsRow(t, epoch), UnderWay' = UnderWay \o t
  PROVE  RowIsKept' /\ OldWhileAway' /\ HostIsInPlace' /\ FramesWhole'
PROOF
<1>0. PICK e \in Nat, w \in Nat : e = epoch /\ w = rxWant
  BY DEF LinkInv, LinkTyped
<1>1. PICK s, u : s = UnderWay /\ u = UnderWay' /\ u = s \o t /\ e = epoch /\ w = rxWant
  BY <1>0
<1>2. s \in Seq(Packet(e)) /\ IsRow(t, e)
  BY <1>1, ConcatProperties DEF UnderWay, LinkInv, LinkTyped
<1>3. ASSUME InRow(s)
      PROVE  /\ InRow(u)
             /\ s # <<>> => u # <<>> /\ u[1] = s[1]
             /\ \A want \in Nat : TakesUp(s, want) => TakesUp(u, want)
  <2>1. InRow(u)
    BY <1>1, <1>2, <1>3, RowsJoin
  <2>2. s # <<>> => u # <<>> /\ u[1] = s[1]
    BY <1>1, <1>2, <1>3, RowsJoin
  <2>3. \A want \in Nat : TakesUp(s, want) => TakesUp(u, want)
    BY <1>1, <1>2, <1>3, RowsJoin
  <2> QED
    BY <2>1, <2>2, <2>3
<1>4. consoles = 0 => InRow(s)
  BY <1>1 DEF LinkInv, RowIsKept
<1>5. RowIsKept'
  <2>1. RowIsKept' <=> (consoles = 0 => InRow(u))
    BY <1>1 DEF RowIsKept, InRow
  <2> QED
    BY <1>3, <1>4, <2>1
<1>6. OldWhileAway'
  BY DEF OldWhileAway
<1>7. HostIsInPlace'
  <2> SUFFICES ASSUME consoles = 0, ~stale
               PROVE  ~torn /\ (TakesUp(u, w) \/ (u # <<>> /\ u[1].epoch # e))
    BY <1>1 DEF HostIsInPlace, TakesUp
  <2>1. ~torn /\ (TakesUp(s, w) \/ (s # <<>> /\ s[1].epoch # e))
    BY <1>1 DEF LinkInv, HostIsInPlace
  <2>2. TakesUp(s, w) => TakesUp(u, w)
    BY <1>3, <1>4
  <2>3. s # <<>> /\ s[1].epoch # e => u # <<>> /\ u[1].epoch # e
    BY <1>3, <1>4
  <2> QED
    BY <2>1, <2>2, <2>3
<1>8. FramesWhole'
  BY DEF LinkInv, FramesWhole
<1> QED
  BY <1>5, <1>6, <1>7, <1>8

\* An event or an answer is queued.
LEMMA KnobKeeps == ASSUME LinkInv, Knob PROVE LinkInv'
PROOF
<1>1. PICK e \in Nat : e = epoch /\ input \in Seq(Queued(e))
  BY DEF LinkInv, LinkTyped
<1>2. "input" \in Kinds
  BY DEF Kinds
<1>3. PICK q : q = Offer(input, "input") /\ q \in Seq(Queued(e)) /\ (AllOf(input, e) => AllOf(q, e))
  BY <1>1, <1>2, OfferIs
<1>4. input' = q
  BY <1>3 DEF Knob, hostView
<1>5. LinkTyped'
  BY <1>1, <1>3, <1>4 DEF LinkInv, LinkTyped, Knob, hostView
<1>6. QueuesAreCurrent'
  BY <1>1, <1>3, <1>4 DEF LinkInv, QueuesAreCurrent, AllOf, Knob, hostView
<1>7. RowIsKept' /\ OldWhileAway' /\ HostIsInPlace' /\ FramesWhole'
  BY RowStays DEF LinkInv, Knob, hostView
<1> QED
  BY <1>5, <1>6, <1>7 DEF LinkInv

\* A message of the host may queue an answer, and nothing more.
LEMMA FromHostKeeps ==
  ASSUME LinkInv, FromHost,
         control' = control \/ \E k \in Kinds : control' = Offer(control, k)
  PROVE  LinkInv'
PROOF
<1>1. PICK e \in Nat : e = epoch /\ control \in Seq(Queued(e))
  BY DEF LinkInv, LinkTyped
<1>2. PICK q : q = control' /\ q \in Seq(Queued(e)) /\ (AllOf(control, e) => AllOf(q, e))
  BY <1>1, OfferIs
<1>3. LinkTyped'
  BY <1>1, <1>2 DEF LinkInv, LinkTyped, FromHost, hostView
<1>4. QueuesAreCurrent'
  BY <1>1, <1>2 DEF LinkInv, QueuesAreCurrent, AllOf, FromHost
<1>5. RowIsKept' /\ OldWhileAway' /\ HostIsInPlace' /\ FramesWhole'
  BY RowStays DEF LinkInv, FromHost, hostView
<1> QED
  BY <1>3, <1>4, <1>5 DEF LinkInv

\* A pass of the service with no host clears the queues.
LEMMA PollDetachedKeeps == ASSUME LinkInv, PollDetached PROVE LinkInv'
PROOF
<1>1. LinkTyped'
  BY EmptySeq DEF LinkInv, LinkTyped, PollDetached, hostView, counts
<1>2. QueuesAreCurrent'
  BY EmptySeq DEF LinkInv, QueuesAreCurrent, AllOf, PollDetached, counts
<1>3. RowIsKept' /\ OldWhileAway' /\ HostIsInPlace' /\ FramesWhole'
  BY RowStays DEF LinkInv, PollDetached, hostView, counts
<1> QED
  BY <1>1, <1>2, <1>3 DEF LinkInv

\* With a host it queues one message at most, and pumps.
LEMMA PollAttachedKeeps ==
  ASSUME SizesAssumption, ChunksAssumption, LinkInv, PollAttached
  PROVE  LinkInv'
PROOF
<1>1. PICK e \in Nat : e = epoch /\ control \in Seq(Queued(e)) /\ input \in Seq(Queued(e))
  BY DEF LinkInv, LinkTyped
<1>2. PICK ctl \in Seq(Queued(e)) : Pump(ctl, input) /\ (AllOf(control, e) => AllOf(ctl, e))
  <2>1. "ready" \in Kinds /\ "heartbeat" \in Kinds
    BY DEF Kinds
  <2>2. CASE Pump(Offer(control, "ready"), input)
    BY <1>1, <2>1, <2>2, OfferIs
  <2>3. CASE Pump(IF HeartbeatRoom THEN Offer(control, "heartbeat") ELSE control, input)
    <3>1. CASE HeartbeatRoom
      BY <1>1, <2>1, <2>3, <3>1, OfferIs
    <3>2. CASE ~HeartbeatRoom
      BY <1>1, <2>3, <3>2
    <3> QED
      BY <3>1, <3>2
  <2>4. CASE Pump(control, input)
    BY <1>1, <2>4
  <2> QED
    BY <2>2, <2>3, <2>4 DEF PollAttached
<1>3. LinkTyped
  BY DEF LinkInv
<1>4. PICK t : IsRow(t, epoch) /\ UnderWay' = UnderWay \o t
  BY <1>1, <1>2, <1>3, PumpIs
<1>5. /\ buf' \in Seq(Packet(e)) /\ pending' \in Seq(Packet(e)) /\ tail' \in 0..BufCap
      /\ control' \in Seq(Queued(e)) /\ input' \in Seq(Queued(e))
  BY <1>1, <1>2, <1>3, PumpIs
<1>6. AllOf(ctl, e) => AllOf(control', e)
  BY <1>1, <1>2, <1>3, PumpIs
<1>7. AllOf(input, e) => AllOf(input', e)
  BY <1>1, <1>2, <1>3, PumpIs
<1>8. /\ cfg_set
      /\ UNCHANGED <<cfg_set, muted, rxWant, torn, stale, epoch, cleared, consoles, shots>>
  BY DEF PollAttached, hostView, counts
<1>9. LinkTyped'
  BY <1>1, <1>3, <1>5, <1>8 DEF LinkTyped
<1>10. QueuesAreCurrent'
  <2>1. PICK c, i : c = control' /\ i = input'
    OBVIOUS
  <2>2. shots = 0 => AllOf(control, e) /\ AllOf(input, e)
    BY <1>1, <1>8 DEF LinkInv, QueuesAreCurrent
  <2>3. shots = 0 => AllOf(c, e) /\ AllOf(i, e)
    BY <1>2, <1>6, <1>7, <2>1, <2>2
  <2>4. muted => shots > 0
    BY DEF LinkInv, QueuesAreCurrent
  <2> QED
    BY <1>1, <1>8, <2>1, <2>3, <2>4 DEF QueuesAreCurrent, AllOf
<1>11. RowIsKept' /\ OldWhileAway' /\ HostIsInPlace' /\ FramesWhole'
  BY <1>4, <1>8, RowGrows
<1> QED
  BY <1>9, <1>10, <1>11 DEF LinkInv

\* Time passes, or the loop is taken or given back.
LEMMA LoopKeeps ==
  ASSUME LinkInv, ReadyTimer \/ HeartbeatTimer \/ ShotBegin \/ ShotEnd
  PROVE  LinkInv'
PROOF
<1>1. /\ UNCHANGED <<cfg_set, control, input, pending, buf, tail, rxWant, torn, stale, epoch,
                     cleared, consoles>>
      /\ UNCHANGED <<muted, shots>> \/ (muted' = TRUE /\ shots' = shots + 1)
           \/ (muted' = FALSE /\ UNCHANGED shots)
  BY DEF ReadyTimer, HeartbeatTimer, ShotBegin, ShotEnd, link,
         hostView, counts
<1>2. LinkTyped'
  <2>1. muted' \in BOOLEAN /\ shots' \in Nat
    <3>1. PICK n \in Nat, b \in BOOLEAN : n = shots /\ b = muted
      BY DEF LinkInv, LinkTyped
    <3>2. shots' = n \/ shots' = n + 1
      BY <1>1, <3>1
    <3>3. muted' = b \/ muted' = TRUE \/ muted' = FALSE
      BY <1>1, <3>1
    <3>4. shots' \in Nat
      BY ONLY <3>2, n \in Nat
    <3>5. muted' \in BOOLEAN
      BY ONLY <3>3, b \in BOOLEAN
    <3> QED
      BY <3>4, <3>5
  <2>2. UNCHANGED <<cfg_set, control, input, pending, buf, tail, rxWant, torn, stale, epoch,
                    cleared, consoles>>
    BY <1>1
  <2> QED
    BY <2>1, <2>2 DEF LinkInv, LinkTyped
<1>3. QueuesAreCurrent'
  <2>1. shots \in Nat /\ (muted => shots > 0)
    BY DEF LinkInv, LinkTyped, QueuesAreCurrent
  <2>2. (muted' => shots' > 0) /\ (shots' = 0 => shots = 0)
    BY <1>1, <2>1
  <2> QED
    BY <1>1, <2>2 DEF LinkInv, QueuesAreCurrent, AllOf
<1>4. RowIsKept' /\ OldWhileAway' /\ HostIsInPlace' /\ FramesWhole'
  BY <1>1, RowStays DEF LinkInv
<1> QED
  BY <1>2, <1>3, <1>4 DEF LinkInv

\* The console writes: from now on the decoder may well lose its place.
LEMMA ConsoleWriteKeeps ==
  ASSUME SizesAssumption, LinkInv, ConsoleWrite PROVE LinkInv'
PROOF
<1>1. PICK e \in Nat, n \in Nat, c \in Nat, b \in Seq(Packet(epoch)) :
        e = epoch /\ n = consoles /\ b = buf /\ c = tail
  BY DEF LinkInv, LinkTyped
<1>2. consoles' = n + 1 /\ consoles' \in Nat /\ consoles' # 0
  BY <1>1 DEF ConsoleWrite
<1>9. e \in 0..e
  OBVIOUS
<1>3. PICK x \in Packet(e) : x = Text
  BY <1>1, <1>9 DEF Packet, Text
<1>4. buf' = Append(b, x) /\ buf' \in Seq(Packet(e))
  BY <1>1, <1>3, AppendProperties DEF ConsoleWrite
<1>5. tail' \in 0..BufCap
  BY <1>1 DEF ConsoleWrite, SizesAssumption
<1>6. LinkTyped'
  BY <1>1, <1>2, <1>4, <1>5 DEF LinkInv, LinkTyped, ConsoleWrite, hostView
<1>7. QueuesAreCurrent'
  BY DEF LinkInv, QueuesAreCurrent, AllOf, ConsoleWrite
<1>8. RowIsKept' /\ OldWhileAway' /\ HostIsInPlace' /\ FramesWhole'
  BY <1>2 DEF RowIsKept, OldWhileAway, HostIsInPlace, FramesWhole
<1> QED
  BY <1>6, <1>7, <1>8 DEF LinkInv

\* The host takes the first chunk under way, and is where the next one goes on.
LEMMA HostReadsKeeps == ASSUME SizesAssumption, LinkInv, HostReads PROVE LinkInv'
PROOF
<1>0. PICK e \in Nat, w \in Nat, b \in Seq(Packet(epoch)), p \in Seq(Packet(epoch)) :
        e = epoch /\ b = buf /\ p = pending /\ w = rxWant /\ b # <<>>
  BY DEF LinkInv, LinkTyped, HostReads
<1>1. PICK s : /\ s = b \o p /\ b \in Seq(Packet(e)) /\ p \in Seq(Packet(e))
              /\ e = epoch /\ b = buf /\ p = pending /\ w = rxWant /\ b # <<>>
  BY <1>0
<1>2. PICK c \in Packet(e) : c = Head(b)
  BY <1>1, HeadTailProperties
<1>3. PICK d \in Seq(Packet(e)) : d = Tail(b)
  BY <1>1, HeadTailProperties
<1>4. PICK m \in Nat, l \in Nat : m = Len(d) /\ l = Len(p)
  BY LenProperties
<1>5. /\ Len(b) = m + 1 /\ b[1] = c /\ \A i \in 1..m : d[i] = b[i + 1]
  BY <1>1, <1>2, <1>3, <1>4, HeadTailProperties
<1>6. PICK u : u = d \o p
  OBVIOUS
<1>7. /\ u \in Seq(Packet(e)) /\ s \in Seq(Packet(e)) /\ Len(u) = m + l /\ Len(s) = (m + l) + 1
      /\ s[1] = c /\ \A i \in 1..(m + l) : u[i] = s[i + 1]
  <2>1. /\ u \in Seq(Packet(e)) /\ Len(u) = m + l
        /\ \A i \in 1..m : u[i] = d[i]
        /\ \A i \in 1..l : u[m + i] = p[i]
    <3>1. p \in Seq(Packet(e))
      BY <1>1
    <3> QED
      BY ONLY <1>4, <1>6, <3>1, ConcatProperties
  <2>2. /\ s \in Seq(Packet(e)) /\ Len(s) = (m + 1) + l
        /\ \A i \in 1..(m + 1) : s[i] = b[i]
        /\ \A i \in 1..l : s[(m + 1) + i] = p[i]
    <3>1. PICK k \in Nat : k = m + 1
      OBVIOUS
    <3>2. s = b \o p /\ b \in Seq(Packet(e)) /\ p \in Seq(Packet(e)) /\ Len(b) = k /\ Len(p) = l
      BY <1>1, <1>4, <1>5, <3>1
    <3>3. /\ s \in Seq(Packet(e)) /\ Len(s) = k + l
          /\ \A i \in 1..k : s[i] = b[i]
          /\ \A i \in 1..l : s[k + i] = p[i]
      BY ONLY k \in Nat, l \in Nat, <3>2, ConcatProperties
    <3> QED
      BY <3>1, <3>3
  <2>3. s[1] = c
    BY <1>5, <2>2
  <2>4. ASSUME NEW i \in 1..(m + l) PROVE u[i] = s[i + 1]
    <3>1. CASE i \in 1..m
      <4>1. i + 1 \in 1..(m + 1)
        BY <3>1
      <4> QED
        BY <1>5, <2>1, <2>2, <3>1, <4>1
    <3>2. CASE i \notin 1..m
      <4>1. PICK j \in 1..l : i = m + j /\ i + 1 = (m + 1) + j
        BY <3>2
      <4> QED
        BY <2>1, <2>2, <4>1
    <3> QED
      BY <3>1, <3>2
  <2> QED
    BY <2>1, <2>2, <2>3, <2>4
<1>8. UnderWay = s /\ UnderWay' = u
  BY <1>1, <1>3, <1>6 DEF UnderWay, HostReads
<1>9. /\ cfg_set
      /\ UNCHANGED <<cfg_set, muted, control, input, pending, epoch, cleared, consoles, shots>>
      /\ buf' = d /\ (tail' = 0 \/ tail' = tail)
      /\ rxWant' = IF c.kind # "text" /\ (c.first \/ w > 0) THEN c.left ELSE w
      /\ torn' = (torn \/ IF w > 0 THEN c.kind = "text" \/ c.first \/ c.left # w - 1
                                   ELSE c.kind # "text" /\ ~c.first)
      /\ stale' = (stale \/ c.epoch # e)
  BY <1>1, <1>2, <1>3 DEF HostReads, counts
<1>10. PICK k \in BOOLEAN, n \in Nat : k = c.first /\ n = c.left
  BY DEF Packet
<1>11. LinkTyped'
  <2>1. rxWant' \in Nat
    BY <1>9, <1>10
  <2>2. stale' \in BOOLEAN /\ torn' \in BOOLEAN
    <3>1. stale \in BOOLEAN /\ torn \in BOOLEAN
      BY DEF LinkInv, LinkTyped
    <3> QED
      BY <1>9, <1>10, <3>1
  <2>3. tail' \in 0..BufCap
    BY <1>9 DEF LinkInv, LinkTyped, SizesAssumption
  <2> QED
    BY <1>1, <1>9, <2>1, <2>2, <2>3 DEF LinkInv, LinkTyped
<1>12. QueuesAreCurrent'
  BY <1>9 DEF LinkInv, QueuesAreCurrent, AllOf
<1>13. ASSUME InRow(s)
       PROVE  /\ InRow(u) /\ c.kind # "text"
              /\ m + l = 0 => n = 0
              /\ m + l # 0 /\ n = 0 => u[1].first
              /\ m + l # 0 /\ n # 0 => ~u[1].first /\ u[1].left = n - 1
  <2>1. PICK z \in Nat : z = m + l /\ Len(u) = z /\ Len(s) = z + 1 /\ 1 \in 1..(z + 1)
    BY <1>7
  <2>2. \A i \in 1..(z + 1) :
          /\ s[i].kind # "text"
          /\ i = z + 1 => s[i].left = 0
          /\ i < z + 1 /\ s[i].left = 0 => s[i + 1].first
          /\ i < z + 1 /\ s[i].left # 0 => ~s[i + 1].first /\ s[i + 1].left = s[i].left - 1
    BY <1>13, <2>1 DEF InRow
  <2>3. \A i \in 1..z : u[i] = s[i + 1]
    BY <1>7, <2>1
  <2>4. ASSUME NEW i \in 1..z
        PROVE  /\ u[i].kind # "text"
               /\ i = z => u[i].left = 0
               /\ i < z /\ u[i].left = 0 => u[i + 1].first
               /\ i < z /\ u[i].left # 0 => ~u[i + 1].first /\ u[i + 1].left = u[i].left - 1
    <3>1. PICK j \in 1..(z + 1) : j = i + 1 /\ (i = z <=> j = z + 1) /\ (i < z <=> j < z + 1)
      OBVIOUS
    <3>2. u[i] = s[j]
      BY <2>3, <3>1
    <3>3. i < z => u[i + 1] = s[j + 1]
      <4> SUFFICES ASSUME i < z PROVE u[i + 1] = s[j + 1]
        OBVIOUS
      <4>1. j \in 1..z
        BY <3>1
      <4> QED
        BY <2>3, <3>1, <4>1
    <3> QED
      BY <2>2, <3>1, <3>2, <3>3
  <2>5. InRow(u)
    BY <2>1, <2>4 DEF InRow
  <2>6. z # 0 => u[1] = s[1 + 1]
    BY <2>3
  <2>7. /\ c.kind # "text"
        /\ z = 0 => n = 0
        /\ z # 0 /\ n = 0 => s[1 + 1].first
        /\ z # 0 /\ n # 0 => ~s[1 + 1].first /\ s[1 + 1].left = n - 1
    <3>1. (1 = z + 1 <=> z = 0) /\ (1 < z + 1 <=> z # 0)
      OBVIOUS
    <3> QED
      BY <1>7, <1>10, <2>1, <2>2, <3>1
  <2> QED
    BY <2>1, <2>5, <2>6, <2>7
<1>14. consoles = 0 => InRow(s)
  BY <1>8 DEF LinkInv, RowIsKept
<1>15. RowIsKept'
  <2>1. RowIsKept' <=> (consoles = 0 => InRow(u))
    BY <1>8, <1>9 DEF RowIsKept, InRow
  <2> QED
    BY <1>13, <1>14, <2>1
<1>16. OldWhileAway'
  BY <1>9 DEF OldWhileAway
<1>17. ASSUME consoles = 0, ~stale, c.epoch = e
       PROVE  /\ ~torn /\ (w > 0 => ~k /\ n = w - 1) /\ (w = 0 => k)
  <2>1. ~torn /\ (TakesUp(s, w) \/ s[1].epoch # e)
    BY <1>1, <1>8, <1>9, <1>17 DEF LinkInv, HostIsInPlace
  <2>2. TakesUp(s, w) /\ s # <<>>
    BY <1>7, <1>17, <2>1, EmptySeq
  <2> QED
    BY <1>7, <1>10, <2>1, <2>2 DEF TakesUp
<1>18. ASSUME consoles = 0, ~stale' PROVE ~torn' /\ rxWant' = n
  <2>1. ~stale /\ c.epoch = e
    BY <1>9, <1>18
  <2>2. /\ ~torn /\ (w > 0 => ~k /\ n = w - 1) /\ (w = 0 => k) /\ c.kind # "text"
    BY <1>13, <1>14, <1>17, <1>18, <2>1
  <2>3. rxWant' = c.left
    BY <1>9, <1>10, <2>2
  <2>5. w > 0 => ~(c.kind = "text" \/ c.first \/ c.left # w - 1)
    BY <1>10, <2>2
  <2>6. ~(w > 0) => c.first
    BY <1>10, <2>2
  <2>7. ~torn'
    BY <1>9, <2>2, <2>5, <2>6, Zenon
  <2> QED
    BY <1>10, <2>3, <2>7
<1>19. HostIsInPlace'
  <2> SUFFICES ASSUME consoles = 0, ~stale' PROVE ~torn' /\ TakesUp(UnderWay', rxWant')
    BY <1>9 DEF HostIsInPlace, TakesUp
  <2>1. ~torn' /\ rxWant' = n
    BY <1>18
  <2>2. /\ m + l = 0 => n = 0
        /\ m + l # 0 /\ n = 0 => u[1].first
        /\ m + l # 0 /\ n # 0 => ~u[1].first /\ u[1].left = n - 1
    BY <1>13, <1>14
  <2>3. u = <<>> <=> m + l = 0
    BY <1>7, EmptySeq
  <2>4. TakesUp(u, n)
    BY <2>2, <2>3 DEF TakesUp
  <2> QED
    BY <1>8, <2>1, <2>4
<1>20. FramesWhole'
  <2>1. torn' => stale' \/ consoles # 0
    BY <1>18
  <2>2. consoles \in Nat /\ consoles' = consoles
    BY <1>9 DEF LinkInv, LinkTyped
  <2> QED
    BY <2>1, <2>2 DEF FramesWhole
<1> QED
  BY <1>11, <1>12, <1>15, <1>16, <1>19, <1>20 DEF LinkInv

\* A sequence over a set is one over any larger set.
LEMMA WidenSeq == ASSUME NEW A, NEW B, A \subseteq B PROVE Seq(A) \subseteq Seq(B)
PROOF
  BY SeqMonotonic

\* The host goes: what is under way is now all of an earlier time.
LEMMA DetachKeeps == ASSUME LinkInv, Detach PROVE LinkInv'
PROOF
<1>1. PICK e \in Nat, f \in Nat : e = epoch /\ f = e + 1 /\ epoch' = f
  BY DEF LinkInv, LinkTyped, Detach
<1>2. Queued(e) \subseteq Queued(f) /\ Packet(e) \subseteq Packet(f)
  <2>1. 0..e \subseteq 0..f
    BY <1>1
  <2> QED
    BY <2>1 DEF Queued, Packet
<1>3. Seq(Queued(e)) \subseteq Seq(Queued(f)) /\ Seq(Packet(e)) \subseteq Seq(Packet(f))
  BY <1>2, WidenSeq
<1>4. /\ UNCHANGED <<muted, control, input, pending, buf, tail, rxWant, torn, stale, consoles, shots>>
      /\ cfg_set' = FALSE /\ cleared' = FALSE
  BY DEF Detach, link, hostView, counts
<1>5. LinkTyped'
  BY <1>1, <1>3, <1>4 DEF LinkInv, LinkTyped
<1>6. QueuesAreCurrent'
  BY <1>4 DEF LinkInv, QueuesAreCurrent
<1>7. PICK s : s = UnderWay /\ s = UnderWay' /\ s \in Seq(Packet(e))
  <2>1. UnderWay' = UnderWay
    BY <1>4 DEF UnderWay
  <2> QED
    BY <1>1, <2>1, ConcatProperties DEF UnderWay, LinkInv, LinkTyped
<1>8. \A i \in 1..Len(s) : s[i].epoch < f
  <2>1. ASSUME NEW i \in 1..Len(s) PROVE s[i].epoch < f
    <3>1. s[i] \in Packet(e)
      BY <1>7, ElementOfSeq
    <3>2. s[i].epoch \in 0..e
      BY <3>1 DEF Packet
    <3> QED
      BY <1>1, <3>2
  <2> QED
    BY <2>1
<1>9. OldWhileAway'
  BY <1>1, <1>7, <1>8 DEF OldWhileAway
<1>10. RowIsKept'
  BY <1>4, <1>7 DEF LinkInv, RowIsKept, InRow
<1>11. HostIsInPlace' /\ FramesWhole'
  BY <1>4 DEF LinkInv, HostIsInPlace, FramesWhole
<1> QED
  BY <1>5, <1>6, <1>9, <1>10, <1>11 DEF LinkInv

\* Another comes: it meets nothing, or first something of an earlier time.
LEMMA AttachKeeps == ASSUME LinkInv, Attach PROVE LinkInv'
PROOF
<1>1. /\ UNCHANGED <<muted, control, input, pending, buf, tail, epoch, cleared, consoles, shots>>
      /\ cfg_set' = TRUE /\ rxWant' = 0 /\ torn' = FALSE /\ stale' = FALSE
      /\ ~cfg_set /\ (cleared \/ muted)
  BY DEF Attach, link, counts
<1>2. LinkTyped'
  BY <1>1 DEF LinkInv, LinkTyped
<1>3. QueuesAreCurrent'
  BY <1>1 DEF LinkInv, LinkTyped, QueuesAreCurrent, AllOf
<1>0. PICK e \in Nat : e = epoch
  BY DEF LinkInv, LinkTyped
<1>4. PICK s : e = epoch /\ s = UnderWay /\ s = UnderWay' /\ s \in Seq(Packet(e))
  <2>1. UnderWay' = UnderWay
    BY <1>1 DEF UnderWay
  <2> QED
    BY <1>0, <2>1, ConcatProperties DEF UnderWay, LinkInv, LinkTyped
<1>5. RowIsKept'
  BY <1>1, <1>4 DEF LinkInv, RowIsKept, InRow
<1>6. OldWhileAway' /\ FramesWhole'
  BY <1>1 DEF OldWhileAway, FramesWhole
<1>7. HostIsInPlace'
  <2> SUFFICES ASSUME consoles = 0 PROVE TakesUp(s, 0) \/ (s # <<>> /\ s[1].epoch # e)
    BY <1>1, <1>4 DEF HostIsInPlace, TakesUp
  <2>1. CASE s = <<>>
    BY <2>1 DEF TakesUp
  <2>2. CASE s # <<>>
    <3>1. 1 \in 1..Len(s)
      <4>1. PICK l \in Nat : l = Len(s) /\ l # 0
        BY <1>4, <2>2, EmptySeq, LenProperties
      <4> QED
        BY <4>1
    <3>2. s[1].epoch < e
      BY <1>1, <1>4, <3>1 DEF LinkInv, OldWhileAway
    <3>3. s[1] \in Packet(e)
      BY <1>4, <3>1, ElementOfSeq
    <3>4. s[1].epoch \in 0..e
      BY <3>3 DEF Packet
    <3>5. s[1].epoch # e
      BY <3>2, <3>4
    <3> QED
      BY <2>2, <3>5
  <2> QED
    BY <2>1, <2>2
<1> QED
  BY <1>2, <1>3, <1>5, <1>6, <1>7 DEF LinkInv

\* The invariant of the transmit half holds throughout.
THEOREM LinkInvariant ==
  ASSUME ChunksAssumption, SizesAssumption PROVE LinkSpec => []LinkInv
PROOF
<1>1. LinkInit => LinkInv
  <2> SUFFICES ASSUME LinkInit PROVE LinkInv
    OBVIOUS
  <2>1. UnderWay = <<>> /\ <<>> \in Seq(Packet(epoch)) /\ <<>> \in Seq(Queued(epoch))
    BY EmptySeq, ConcatEmptySeq DEF LinkInit, UnderWay
  <2>2. LinkTyped
    <3>1. 0 \in 0..BufCap
      BY DEF SizesAssumption
    <3>2. <<>> \in Seq(Packet(epoch)) /\ <<>> \in Seq(Queued(epoch))
      BY EmptySeq
    <3> QED
      BY <3>1, <3>2 DEF LinkInit, LinkTyped
  <2>4. QueuesAreCurrent
    BY <2>1, EmptySeq DEF LinkInit, QueuesAreCurrent, AllOf
  <2>3. RowIsKept /\ OldWhileAway /\ HostIsInPlace /\ FramesWhole
    BY <2>1, EmptySeq DEF LinkInit, RowIsKept, InRow, OldWhileAway, HostIsInPlace, TakesUp,
                          FramesWhole
  <2> QED
    BY <2>2, <2>3, <2>4 DEF LinkInv
<1>2. LinkInv /\ [LinkNext]_linkVars => LinkInv'
  <2> SUFFICES ASSUME LinkInv, [LinkNext]_linkVars PROVE LinkInv'
    OBVIOUS
  <2>1. CASE Knob
    BY <2>1, KnobKeeps
  <2>2. CASE Hello \/ Ping \/ Echo \/ Surface \/ Bye
    <3>1. "ready" \in Kinds /\ "answer" \in Kinds
      BY DEF Kinds
    <3> QED
      BY <2>2, <3>1, FromHostKeeps DEF Hello, Ping, Echo, Surface, Bye
  <2>3. CASE PollDetached
    BY <2>3, PollDetachedKeeps
  <2>4. CASE PollAttached
    BY <2>4, PollAttachedKeeps
  <2>5. CASE ReadyTimer \/ HeartbeatTimer \/ ShotBegin \/ ShotEnd
    BY <2>5, LoopKeeps
  <2>6. CASE ConsoleWrite
    BY <2>6, ConsoleWriteKeeps
  <2>7. CASE HostReads
    BY <2>7, HostReadsKeeps
  <2>8. CASE Detach
    BY <2>8, DetachKeeps
  <2>9. CASE Attach
    BY <2>9, AttachKeeps
  <2>10. CASE UNCHANGED linkVars
    <3>1. UNCHANGED <<cfg_set, muted, control, input, pending, buf, tail, rxWant, torn, stale,
                      epoch, cleared, consoles, shots>>
      BY <2>10 DEF linkVars, link, hostView, counts
    <3>2. LinkTyped' /\ QueuesAreCurrent'
      BY <3>1 DEF LinkInv, LinkTyped, QueuesAreCurrent, AllOf
    <3>3. RowIsKept' /\ OldWhileAway' /\ HostIsInPlace' /\ FramesWhole'
      BY <3>1, RowStays DEF LinkInv
    <3> QED
      BY <3>2, <3>3 DEF LinkInv
  <2> QED
    BY <2>1, <2>2, <2>3, <2>4, <2>5, <2>6, <2>7, <2>8, <2>9, <2>10 DEF LinkNext, Poll
<1> QED
  BY <1>1, <1>2, PTL DEF LinkSpec

\* Fragments of two messages are never interleaved: a decoder loses its place only to
\* a console write, or to chunks framed for an earlier host (session.c:181).
THEOREM FramesWholeHolds ==
  ASSUME ChunksAssumption, SizesAssumption PROVE LinkSpec => []FramesWhole
PROOF
<1>1. LinkInv => FramesWhole
  BY DEF LinkInv
<1> QED
  BY <1>1, LinkInvariant, PTL

\* Nothing queued survives losing the host (session.c:516).
THEOREM QueueIsCurrentHolds ==
  ASSUME ChunksAssumption, SizesAssumption PROVE LinkSpec => []QueueIsCurrent
PROOF
<1>1. LinkInv => QueueIsCurrent
  BY DEF LinkInv, QueuesAreCurrent, AllOf, QueueIsCurrent
<1> QED
  BY <1>1, LinkInvariant, PTL
=============================================================================
