----------------------------- MODULE TxqProofs ------------------------------
(***************************************************************************)
(* Proofs about what the panel says and what it shows: the outbound        *)
(* queues, for any number of controls, slots, depths and events; and the   *)
(* display, for any number of knobs, any descriptors and views.            *)
(***************************************************************************)
EXTENDS Txq, Screen, FiniteSetTheorems, WellFoundedInduction, TLAPS

USE KeysAssumption, AmountsAssumption, SizesAssumption, BoundsAssumption
DEF KeysAssumption, AmountsAssumption, SizesAssumption, BoundsAssumption

\* The inductive invariant: order needs the stamps of both queues related to the
\* events that opened them, conservation needs one slot per control.
IInv ==
  /\ InputTypeOK
  /\ OneSlotPerKey
  /\ StampsAreInOrder
  /\ LatestSurvives
  /\ DistanceConserved

\* Two facts of arithmetic, stated once.
LEMMA LeqLess == \A a, b, c \in Nat : a <= b /\ b < c => a < c
  OBVIOUS

\* A number above one bound and within another lies in the interval between them.
LEMMA InInterval == \A a, b, c \in Nat : a < b /\ b <= c => b \in (a + 1)..c
  OBVIOUS

\* The empty queues satisfy the invariant.
LEMMA InitIInv == Init => IInv
  BY DEF Init, IInv, Older, InputTypeOK, OneSlotPerKey, StampsAreInOrder, LatestSurvives,
         DistanceConserved, Used, HeldBy, Slot, Entry, Empty

\* What the invariant says of the numbers in one waiting message.
LEMMA EntryBounds ==
  ASSUME IInv
  PROVE  /\ stamp \in Nat /\ born \in Nat /\ lastFirst \in 0..born
         /\ \A j \in Used : /\ j \in Slot /\ coalesce[j] \in Entry
                            /\ coalesce[j].stamp \in 1..stamp
                            /\ coalesce[j].first \in (lastFirst + 1)..born
         /\ \A n \in 1..Len(discrete) : /\ discrete[n] \in Entry
                                        /\ discrete[n].stamp \in 1..stamp
                                        /\ discrete[n].first \in (lastFirst + 1)..born
<1>1. stamp \in Nat /\ born \in Nat /\ lastFirst \in 0..born
  BY DEF IInv, InputTypeOK
<1>2. ASSUME NEW j \in Used
      PROVE  /\ j \in Slot /\ coalesce[j] \in Entry /\ coalesce[j].stamp \in 1..stamp
             /\ coalesce[j].first \in (lastFirst + 1)..born
  <2>1. j \in Slot /\ coalesce[j] \in Entry /\ coalesce[j].stamp # 0
    BY <1>2 DEF IInv, InputTypeOK, Used
  <2>2. coalesce[j].stamp <= stamp /\ coalesce[j].first \in (lastFirst + 1)..born
    BY <1>2 DEF IInv, StampsAreInOrder
  <2> QED
    BY <1>1, <2>1, <2>2 DEF Entry
<1>3. \A n \in 1..Len(discrete) : /\ discrete[n] \in Entry
                                  /\ discrete[n].stamp \in 1..stamp
                                  /\ discrete[n].first \in (lastFirst + 1)..born
  BY DEF IInv, InputTypeOK, StampsAreInOrder
<1> QED
  BY <1>1, <1>2, <1>3

\* Taking over a slot leaves a well-formed entry.
LEMMA SupersedeType ==
  ASSUME NEW e \in Entry, NEW d \in Int, born \in Nat
  PROVE  Supersede(e, d) \in Entry
<1> DEFINE a == IF e.key \in Deltas THEN e.amount + d ELSE d
<1>1. a \in Int
  BY DEF Entry
<1>2. Supersede(e, d) = [e EXCEPT !.seq = born + 1, !.amount = a]
  BY DEF Supersede
<1> HIDE DEF a
<1>3. e = [stamp |-> e.stamp, key |-> e.key, first |-> e.first, seq |-> e.seq, amount |-> e.amount]
  BY DEF Entry
<1>4. Supersede(e, d) = [stamp |-> e.stamp, key |-> e.key, first |-> e.first,
                         seq |-> born + 1, amount |-> a]
  BY <1>2, <1>3
<1>5. e.stamp \in Nat /\ e.key \in Keys \union {Press} /\ e.first \in Nat /\ born + 1 \in Nat
  BY DEF Entry
<1> QED
  BY <1>1, <1>4, <1>5 DEF Entry

\* A turn merged into the slot that holds its control.
LEMMA TurnHeldKeeps ==
  ASSUME IInv, NEW k \in Keys, NEW d \in Amounts, PushCoalescing(k, d), TurnHeld(k, d)
  PROVE  IInv'
<1> PICK i \in HeldBy(k) :
      /\ coalesce' = [coalesce EXCEPT ![i] = Supersede(@, d)]
      /\ touched' = [touched EXCEPT ![k] = born + 1]
      /\ owed' = [owed EXCEPT ![k] = @ + d]
      /\ UNCHANGED <<discrete, stamp, dropped>>
  BY DEF TurnHeld
<1> USE DEF PushCoalescing, Born, cvars, IInv
<1>1. missed' = missed \ {k}
  BY DEF TurnHeld
<1>2. d \in Int /\ i \in Slot /\ i \in Used /\ coalesce[i].key = k
  BY DEF HeldBy, Used
<1>3. /\ coalesce'[i].stamp = coalesce[i].stamp /\ coalesce'[i].key = coalesce[i].key
      /\ coalesce'[i].first = coalesce[i].first /\ coalesce'[i].seq = born + 1
      /\ coalesce'[i].amount = IF k \in Deltas THEN coalesce[i].amount + d ELSE d
  BY <1>2 DEF Supersede, InputTypeOK, Entry
<1>4. \A j \in Slot \ {i} : coalesce'[j] = coalesce[j]
  BY <1>2 DEF InputTypeOK
<1>5. Used' = Used /\ \A c \in Keys : HeldBy(c)' = HeldBy(c)
  BY <1>2, <1>3, <1>4 DEF Used, HeldBy
<1>6. InputTypeOK'
  <2>1. coalesce' \in [Slot -> Entry]
    BY <1>2, SupersedeType DEF InputTypeOK
  <2>2. \A j \in Used' : coalesce'[j].key \in Keys
    BY <1>2, <1>3, <1>4, <1>5 DEF InputTypeOK, Used
  <2>3. born' \in Nat /\ lastFirst' \in 0..born'
    BY DEF InputTypeOK
  <2>4. touched' \in [Keys -> Nat] /\ heard' \in [Keys -> Nat]
    BY DEF InputTypeOK
  <2>5. missed' \subseteq Keys /\ owed' \in [Keys -> Int]
    BY <1>1, <1>2 DEF InputTypeOK
  <2> QED
    BY <2>1, <2>2, <2>3, <2>4, <2>5 DEF InputTypeOK
<1>7. OneSlotPerKey'
  BY <1>2, <1>3, <1>4, <1>5 DEF OneSlotPerKey, Used
<1>8. StampsAreInOrder'
  <2>1. \A j \in Used : coalesce'[j].stamp = coalesce[j].stamp /\ coalesce'[j].first = coalesce[j].first
    BY <1>2, <1>3, <1>4 DEF Used
  <2>2. discrete' = discrete /\ stamp' = stamp /\ lastFirst' = lastFirst /\ born' = born + 1 /\ born \in Nat
    BY DEF InputTypeOK
  <2>3. \A j \in Used : coalesce'[j].first \in (lastFirst' + 1)..born' /\ coalesce'[j].stamp <= stamp'
    BY <2>1, <2>2 DEF StampsAreInOrder, InputTypeOK
  <2>4. \A n \in 1..Len(discrete) : discrete[n].first \in (lastFirst' + 1)..born'
    BY <2>2 DEF StampsAreInOrder, InputTypeOK
  <2> QED
    BY <2>1, <2>2, <2>3, <2>4, <1>5 DEF StampsAreInOrder, Older
<1>9. LatestSurvives'
  <2> SUFFICES ASSUME NEW c \in Keys, c \notin missed'
               PROVE  IF HeldBy(c) = {} THEN heard'[c] = touched'[c]
                      ELSE \A j \in HeldBy(c) : coalesce'[j].seq = touched'[c]
    BY <1>5 DEF LatestSurvives
  <2>1. CASE c = k
    BY <2>1, <1>2, <1>3 DEF OneSlotPerKey, HeldBy, InputTypeOK
  <2>2. CASE c # k
    BY <2>2, <1>1, <1>2, <1>4 DEF LatestSurvives, HeldBy, InputTypeOK, Used
  <2> QED
    BY <2>1, <2>2
<1>10. DistanceConserved'
  <2> SUFFICES ASSUME NEW c \in Deltas
               PROVE  IF HeldBy(c) = {} THEN owed'[c] = 0
                      ELSE \A j \in HeldBy(c) : coalesce'[j].amount = owed'[c]
    BY <1>5 DEF DistanceConserved
  <2>1. CASE c = k
    BY <2>1, <1>2, <1>3 DEF OneSlotPerKey, HeldBy, InputTypeOK, DistanceConserved
  <2>2. CASE c # k
    BY <2>2, <1>2, <1>4 DEF DistanceConserved, HeldBy, InputTypeOK, Used
  <2> QED
    BY <2>1, <2>2
<1> QED
  BY <1>6, <1>7, <1>8, <1>9, <1>10

\* A turn that opens a slot, its stamp newer than all.
LEMMA TurnFreshKeeps ==
  ASSUME IInv, NEW k \in Keys, NEW d \in Amounts, PushCoalescing(k, d), TurnFresh(k, d)
  PROVE  IInv'
<1> PICK i \in Slot :
      /\ FirstFree(i)
      /\ coalesce' = [coalesce EXCEPT ![i] = Fresh(stamp + 1, k, born + 1, d)]
  BY DEF TurnFresh
<1> USE DEF PushCoalescing, Born, cvars, IInv
<1>1. /\ HeldBy(k) = {} /\ stamp' = stamp + 1 /\ missed' = missed \ {k}
      /\ touched' = [touched EXCEPT ![k] = born + 1]
      /\ owed' = [owed EXCEPT ![k] = @ + d]
      /\ born' = born + 1 /\ lastFirst' = lastFirst /\ heard' = heard
      /\ discrete' = discrete /\ dropped' = dropped
  BY DEF TurnFresh
<1>2. d \in Int /\ i \in Slot /\ i \notin Used
  BY DEF FirstFree, FreeSlots
<1>3. /\ coalesce'[i] = Fresh(stamp + 1, k, born + 1, d)
      /\ coalesce'[i].stamp = stamp + 1 /\ coalesce'[i].key = k
      /\ coalesce'[i].first = born + 1 /\ coalesce'[i].seq = born + 1
      /\ coalesce'[i].amount = d
  BY <1>2 DEF Fresh, InputTypeOK
<1>4. \A j \in Slot \ {i} : coalesce'[j] = coalesce[j]
  BY <1>2 DEF InputTypeOK
<1>5. Used' = Used \union {i} /\ \A j \in Used : j # i /\ coalesce'[j] = coalesce[j] /\ j \in Slot
  BY <1>2, <1>3, <1>4 DEF Used, InputTypeOK
<1>6. HeldBy(k)' = {i} /\ \A c \in Keys \ {k} : HeldBy(c)' = HeldBy(c)
  BY <1>1, <1>2, <1>3, <1>5 DEF HeldBy
<1>7. stamp \in Nat /\ born \in Nat /\ lastFirst \in 0..born
  BY DEF InputTypeOK
<1>8. InputTypeOK'
  <2>1. coalesce' \in [Slot -> Entry]
    BY <1>2, <1>7 DEF InputTypeOK, Fresh, Entry
  <2>2. \A j \in Used' : coalesce'[j].key \in Keys
    BY <1>3, <1>5 DEF InputTypeOK
  <2>3. touched' \in [Keys -> Nat] /\ heard' \in [Keys -> Nat]
    BY <1>1 DEF InputTypeOK
  <2>4. missed' \subseteq Keys /\ owed' \in [Keys -> Int]
    BY <1>1, <1>2 DEF InputTypeOK
  <2> QED
    BY <1>1, <2>1, <2>2, <2>3, <2>4 DEF InputTypeOK
<1>9. OneSlotPerKey'
  BY <1>1, <1>3, <1>5 DEF OneSlotPerKey, HeldBy
<1>10. StampsAreInOrder'
  <2>1. \A j \in Used : /\ coalesce[j].stamp \in Nat /\ coalesce[j].stamp < stamp + 1
                        /\ coalesce[j].first \in Nat /\ coalesce[j].first < born + 1
    BY <1>7, EntryBounds
  <2>2. \A n \in 1..Len(discrete) : discrete[n].stamp < stamp + 1 /\ discrete[n].first < born + 1
                                    /\ discrete[n].stamp \in Nat /\ discrete[n].first \in Nat
    BY <1>7 DEF StampsAreInOrder
  <2>3. /\ \A j \in Used' : coalesce'[j].stamp <= stamp' /\ coalesce'[j].first \in (lastFirst' + 1)..born'
        /\ \A n \in 1..Len(discrete') :
             discrete'[n].stamp \in 1..stamp' /\ discrete'[n].first \in (lastFirst' + 1)..born'
    <3>1. \A j \in Used : coalesce[j].first \in (lastFirst + 1)..(born + 1)
      BY <1>7, EntryBounds
    <3>2. \A n \in 1..Len(discrete) : discrete[n].stamp \in 1..(stamp + 1)
                                      /\ discrete[n].first \in (lastFirst + 1)..(born + 1)
      BY <1>7, EntryBounds
    <3> QED
      BY <1>1, <1>3, <1>5, <1>7, <2>1, <3>1, <3>2
  <2>4. \A j, m \in Used' :
          j = m \/ Older(coalesce'[j], coalesce'[m]) \/ Older(coalesce'[m], coalesce'[j])
    BY <1>3, <1>5, <1>7, <2>1 DEF StampsAreInOrder, Older
  <2>5. \A j \in Used', n \in 1..Len(discrete') :
          Older(coalesce'[j], discrete'[n]) \/ Older(discrete'[n], coalesce'[j])
    BY <1>1, <1>3, <1>5, <1>7, <2>2 DEF StampsAreInOrder, Older
  <2> QED
    BY <1>1, <2>3, <2>4, <2>5 DEF StampsAreInOrder
<1>11. LatestSurvives'
  <2> SUFFICES ASSUME NEW c \in Keys \ missed'
               PROVE  IF HeldBy(c)' = {} THEN heard'[c] = touched'[c]
                      ELSE \A j \in HeldBy(c)' : coalesce'[j].seq = touched'[c]
    BY DEF LatestSurvives
  <2>1. CASE c = k
    BY <2>1, <1>1, <1>3, <1>6 DEF InputTypeOK
  <2>2. CASE c # k
    <3>1. HeldBy(c)' = HeldBy(c) /\ touched'[c] = touched[c] /\ heard'[c] = heard[c] /\ c \in Keys \ missed
      BY <2>2, <1>1, <1>6 DEF InputTypeOK
    <3>2. \A j \in HeldBy(c) : coalesce'[j] = coalesce[j]
      BY <1>5 DEF HeldBy
    <3> QED
      BY <3>1, <3>2 DEF LatestSurvives
  <2> QED
    BY <2>1, <2>2
<1>12. DistanceConserved'
  <2> SUFFICES ASSUME NEW c \in Deltas
               PROVE  IF HeldBy(c)' = {} THEN owed'[c] = 0
                      ELSE \A j \in HeldBy(c)' : coalesce'[j].amount = owed'[c]
    BY DEF DistanceConserved
  <2>1. CASE c = k
    <3>1. owed[k] = 0 /\ owed'[k] = d
      BY <2>1, <1>1, <1>2 DEF DistanceConserved, InputTypeOK
    <3> QED
      BY <2>1, <3>1, <1>3, <1>6
  <2>2. CASE c # k
    <3>1. HeldBy(c)' = HeldBy(c) /\ owed'[c] = owed[c]
      BY <2>2, <1>1, <1>6 DEF InputTypeOK
    <3>2. \A j \in HeldBy(c) : coalesce'[j] = coalesce[j]
      BY <1>5 DEF HeldBy
    <3> QED
      BY <3>1, <3>2 DEF DistanceConserved
  <2> QED
    BY <2>1, <2>2
<1> QED
  BY <1>8, <1>9, <1>10, <1>11, <1>12

\* An event that is refused touches neither queue.
LEMMA RefusedKeeps ==
  ASSUME IInv, born' = born + 1, UNCHANGED <<coalesce, discrete, stamp, lastFirst, heard, owed>>,
         dropped' \in Nat,
         \/ UNCHANGED <<touched, missed>>
         \/ \E k \in Keys : touched' = [touched EXCEPT ![k] = born + 1] /\ missed' = missed \union {k}
  PROVE  IInv'
<1> USE DEF IInv
<1>1. Used' = Used /\ \A c : HeldBy(c)' = HeldBy(c)
  BY DEF Used, HeldBy
<1>2. InputTypeOK'
  <2>1. heard' \in [Keys -> Nat]
    BY DEF InputTypeOK
  <2>3. touched' \in [Keys -> Nat] /\ missed' \subseteq Keys
    <3>1. CASE UNCHANGED <<touched, missed>>
      BY <3>1 DEF InputTypeOK
    <3>2. ASSUME NEW k \in Keys, touched' = [touched EXCEPT ![k] = born + 1], missed' = missed \union {k}
          PROVE  touched' \in [Keys -> Nat] /\ missed' \subseteq Keys
      BY <3>2 DEF InputTypeOK
    <3> QED
      BY <3>1, <3>2
  <2>2. \A j \in Used' : coalesce'[j].key \in Keys
    BY <1>1 DEF InputTypeOK
  <2> QED
    BY <2>1, <2>2, <2>3 DEF InputTypeOK
<1>3. OneSlotPerKey'
  BY <1>1 DEF OneSlotPerKey
<1>4. StampsAreInOrder'
  BY <1>1 DEF StampsAreInOrder, InputTypeOK
<1>5. LatestSurvives'
  BY <1>1 DEF LatestSurvives, InputTypeOK
<1>6. DistanceConserved'
  BY <1>1 DEF DistanceConserved
<1> QED
  BY <1>2, <1>3, <1>4, <1>5, <1>6

\* A step of the control queue leaves the input queues as they were.
LEMMA InputUntouched ==
  ASSUME IInv, UNCHANGED <<coalesce, discrete, stamp, born, lastFirst, touched, heard, missed, owed>>,
         dropped' \in Nat
  PROVE  IInv'
<1>1. Used' = Used /\ \A c : HeldBy(c)' = HeldBy(c)
  BY DEF Used, HeldBy
<1>2. InputTypeOK'
  BY <1>1 DEF IInv, InputTypeOK
<1>3. OneSlotPerKey' /\ StampsAreInOrder'
  BY <1>1 DEF IInv, OneSlotPerKey, StampsAreInOrder
<1>4. LatestSurvives' /\ DistanceConserved'
  BY <1>1 DEF IInv, LatestSurvives, DistanceConserved
<1> QED
  BY <1>2, <1>3, <1>4 DEF IInv

\* A press, queued or refused.
LEMMA PushDiscreteKeeps ==
  ASSUME IInv, PushDiscrete, ~DiscreteFull
  PROVE  IInv'
<1> DEFINE p == Fresh(stamp + 1, Press, born + 1, 0)
<1>1. /\ discrete' = Append(discrete, p) /\ stamp' = stamp + 1 /\ born' = born + 1
      /\ UNCHANGED <<coalesce, dropped, lastFirst, touched, heard, missed, owed>>
  BY DEF PushDiscrete, Born
<1>2. Used' = Used /\ \A c : HeldBy(c)' = HeldBy(c)
  BY <1>1 DEF Used, HeldBy
<1>3. stamp \in Nat /\ born \in Nat /\ lastFirst \in 0..born /\ discrete \in Seq(Entry)
  BY DEF IInv, InputTypeOK
<1>4. p \in Entry /\ p.stamp = stamp + 1 /\ p.first = born + 1 /\ p.key = Press
  BY <1>3 DEF Fresh, Entry
<1> HIDE DEF p
<1>5. /\ discrete' \in Seq(Entry) /\ Len(discrete') = Len(discrete) + 1
      /\ \A n \in 1..Len(discrete) : discrete'[n] = discrete[n]
      /\ discrete'[Len(discrete')] = p
      /\ \A n \in 1..Len(discrete') : n \in 1..Len(discrete) \/ n = Len(discrete')
  BY <1>1, <1>3, <1>4
<1>6. InputTypeOK'
  <2>1. \A n \in 1..Len(discrete') : discrete'[n].key = Press
    BY <1>4, <1>5 DEF IInv, InputTypeOK
  <2> QED
    BY <1>1, <1>2, <1>3, <1>5, <2>1 DEF IInv, InputTypeOK, DiscreteFull
<1>7. StampsAreInOrder'
  <2> USE DEF IInv, StampsAreInOrder
  <2>1. \A n \in 1..Len(discrete) : discrete[n].stamp \in 1..stamp /\ discrete[n].first \in (lastFirst + 1)..born
    OBVIOUS
  <2>2. \A j \in Used : /\ coalesce[j].stamp \in Nat /\ coalesce[j].stamp <= stamp
                        /\ coalesce[j].first \in (lastFirst + 1)..born
    BY DEF InputTypeOK, Entry, Used
  <2>3. /\ \A j \in Used' : coalesce'[j].stamp <= stamp' /\ coalesce'[j].first \in (lastFirst' + 1)..born'
        /\ \A n \in 1..Len(discrete') :
             discrete'[n].stamp \in 1..stamp' /\ discrete'[n].first \in (lastFirst' + 1)..born'
    BY <1>1, <1>2, <1>3, <1>4, <1>5, <2>1, <2>2 DEF InputTypeOK
  <2>4. \A j \in Used', n \in 1..Len(discrete') :
          Older(coalesce'[j], discrete'[n]) \/ Older(discrete'[n], coalesce'[j])
    BY <1>1, <1>2, <1>3, <1>4, <1>5, <2>2 DEF Older
  <2>5. \A m, n \in 1..Len(discrete') : m < n => Older(discrete'[m], discrete'[n])
    <3> SUFFICES ASSUME NEW m \in 1..Len(discrete'), NEW n \in 1..Len(discrete'), m < n
                 PROVE  Older(discrete'[m], discrete'[n])
      OBVIOUS
    <3>1. m \in 1..Len(discrete) /\ discrete'[m] = discrete[m]
      BY <1>3, <1>5
    <3>2. CASE n \in 1..Len(discrete)
      BY <3>1, <3>2, <1>5
    <3>3. CASE n = Len(discrete')
      BY <3>1, <3>3, <1>3, <1>4, <1>5, <2>1 DEF Older
    <3> QED
      BY <3>2, <3>3, <1>5
  <2> QED
    BY <1>1, <1>2, <2>3, <2>4, <2>5
<1> QED
  BY <1>1, <1>2, <1>6, <1>7 DEF IInv, OneSlotPerKey, LatestSurvives, DistanceConserved

\* The oldest press leaves ahead of every younger turn.
LEMMA EmitDiscreteKeeps ==
  ASSUME IInv, EmitDiscrete
  PROVE  IInv' /\ lastFirst < lastFirst' /\ lastFirst' \in Nat
<1>1. /\ discrete # <<>> /\ discrete' = Tail(discrete) /\ lastFirst' = Head(discrete).first
      /\ UNCHANGED <<coalesce, stamp, dropped, born, touched, heard, missed, owed>>
      /\ \A i \in Used : Head(discrete).stamp < coalesce[i].stamp
  BY DEF EmitDiscrete, DiscreteIsOlder, cvars
<1>2. Used' = Used /\ \A c : HeldBy(c)' = HeldBy(c)
  BY <1>1 DEF Used, HeldBy
<1>3. discrete \in Seq(Entry)
  BY DEF IInv, InputTypeOK
<1>4. /\ Head(discrete) = discrete[1] /\ 1 \in 1..Len(discrete) /\ discrete' \in Seq(Entry)
      /\ Len(discrete') = Len(discrete) - 1
      /\ \A n \in 1..Len(discrete') : discrete'[n] = discrete[n + 1] /\ n + 1 \in 1..Len(discrete)
  BY <1>1, <1>3
<1>5. lastFirst' \in 0..born' /\ lastFirst < lastFirst' /\ lastFirst' \in Nat /\ lastFirst \in Nat
  BY <1>1, <1>4, EntryBounds
<1>6. InputTypeOK'
  <2>1. \A n \in 1..Len(discrete') : discrete'[n].key = Press
    BY <1>4 DEF IInv, InputTypeOK
  <2> QED
    BY <1>1, <1>2, <1>3, <1>4, <1>5, <2>1 DEF IInv, InputTypeOK
<1>7. StampsAreInOrder'
  <2> USE DEF IInv, StampsAreInOrder
  <2>1. \A i \in Used : coalesce[i].first \in (lastFirst' + 1)..born
    <3> SUFFICES ASSUME NEW i \in Used PROVE coalesce[i].first \in (lastFirst' + 1)..born
      OBVIOUS
    <3>1. discrete[1].first < coalesce[i].first
      <4>1. /\ discrete[1].stamp < coalesce[i].stamp
            /\ coalesce[i].stamp \in Nat /\ discrete[1].stamp \in Nat
        BY <1>1, <1>4, EntryBounds
      <4>2. ~Older(coalesce[i], discrete[1])
        BY <4>1 DEF Older
      <4>3. 1 \in 1..Len(discrete)
        BY <1>4
      <4>4. Older(discrete[1], coalesce[i])
        BY <4>2, <4>3
      <4> QED
        BY <4>4 DEF Older
    <3> QED
      BY <3>1, <1>1, <1>4, EntryBounds
  <2>2. \A n \in 1..Len(discrete') : /\ discrete'[n].stamp \in 1..stamp'
                                     /\ discrete'[n].first \in (lastFirst' + 1)..born'
    <3> SUFFICES ASSUME NEW n \in 1..Len(discrete')
                 PROVE  /\ discrete[n + 1].stamp \in 1..stamp
                        /\ discrete[n + 1].first \in (lastFirst' + 1)..born
      BY <1>1, <1>4
    <3>1. n + 1 \in 1..Len(discrete) /\ 1 < n + 1
      BY <1>4
    <3>2. discrete[1].first < discrete[n + 1].first
      BY <3>1, <1>4 DEF Older
    <3> QED
      BY <3>1, <3>2, <1>1, <1>4, EntryBounds
  <2>3. \A m, n \in 1..Len(discrete') : m < n => Older(discrete'[m], discrete'[n])
    <3> SUFFICES ASSUME NEW m \in 1..Len(discrete'), NEW n \in 1..Len(discrete'), m < n
                 PROVE  Older(discrete[m + 1], discrete[n + 1])
      BY <1>4
    <3>1. m + 1 \in 1..Len(discrete) /\ n + 1 \in 1..Len(discrete) /\ m + 1 < n + 1
      BY <1>4
    <3> QED
      BY <3>1
  <2>4. \A j \in Used', n \in 1..Len(discrete') :
          Older(coalesce'[j], discrete'[n]) \/ Older(discrete'[n], coalesce'[j])
    BY <1>1, <1>2, <1>4
  <2> QED
    BY <1>1, <1>2, <2>1, <2>2, <2>3, <2>4
<1> QED
  BY <1>1, <1>2, <1>5, <1>6, <1>7 DEF IInv, OneSlotPerKey, LatestSurvives, DistanceConserved

\* The oldest turn leaves ahead of every younger press and turn.
LEMMA EmitCoalescedKeeps ==
  ASSUME IInv, EmitCoalesced
  PROVE  IInv' /\ lastFirst < lastFirst' /\ lastFirst' \in Nat
<1> PICK i \in Slot :
      /\ OldestCoalesced(i)
      /\ coalesce' = [coalesce EXCEPT ![i].stamp = 0]
      /\ lastFirst' = coalesce[i].first
      /\ heard' = [heard EXCEPT ![coalesce[i].key] = coalesce[i].seq]
      /\ owed' = [owed EXCEPT ![coalesce[i].key] = @ - coalesce[i].amount]
  BY DEF EmitCoalesced
<1> DEFINE k == coalesce[i].key
<1>0. /\ stamp \in Nat /\ born \in Nat /\ lastFirst \in 0..born
      /\ \A j \in Used : /\ j \in Slot /\ coalesce[j] \in Entry
                         /\ coalesce[j].stamp \in Nat /\ coalesce[j].first \in Nat
                         /\ coalesce[j].first \in (lastFirst + 1)..born
      /\ \A n \in 1..Len(discrete) : /\ discrete[n].stamp \in Nat /\ discrete[n].first \in Nat
                                     /\ discrete[n].first \in (lastFirst + 1)..born
  <2>1. stamp \in Nat /\ born \in Nat /\ lastFirst \in 0..born
    BY EntryBounds
  <2>2. \A j \in Used : /\ j \in Slot /\ coalesce[j] \in Entry
                        /\ coalesce[j].stamp \in Nat /\ coalesce[j].first \in Nat
                        /\ coalesce[j].first \in (lastFirst + 1)..born
    BY EntryBounds
  <2>3. \A n \in 1..Len(discrete) : /\ discrete[n].stamp \in Nat /\ discrete[n].first \in Nat
                                    /\ discrete[n].first \in (lastFirst + 1)..born
    BY EntryBounds
  <2> QED
    BY <2>1, <2>2, <2>3
<1>1. UNCHANGED <<discrete, stamp, dropped, born, touched, missed>> /\ ~DiscreteIsOlder
  BY DEF EmitCoalesced, cvars
<1>2. /\ i \in Used /\ k \in Keys /\ coalesce[i] \in Entry
      /\ \A j \in Used : coalesce[i].stamp <= coalesce[j].stamp
  BY DEF OldestCoalesced, IInv, InputTypeOK
<1>3. coalesce'[i].stamp = 0 /\ \A j \in Slot \ {i} : coalesce'[j] = coalesce[j]
  BY <1>2 DEF IInv, InputTypeOK, Entry
<1>4. Used' = Used \ {i} /\ \A j \in Used' : j \in Used /\ j \in Slot /\ coalesce'[j] = coalesce[j]
  BY <1>3 DEF Used
<1>5. HeldBy(k)' = {} /\ \A c \in Keys \ {k} : HeldBy(c)' = HeldBy(c)
  BY <1>2, <1>4 DEF HeldBy, IInv, OneSlotPerKey
<1>6. lastFirst' \in 0..born' /\ lastFirst < lastFirst' /\ lastFirst' \in Nat /\ lastFirst \in Nat
  BY <1>1, <1>2, EntryBounds
<1>7. InputTypeOK'
  <2>1. coalesce' \in [Slot -> Entry]
    <3>1. [coalesce[i] EXCEPT !.stamp = 0] \in Entry
      BY <1>2 DEF Entry
    <3> QED
      BY <3>1, <1>2 DEF IInv, InputTypeOK
  <2>2. \A j \in Used' : coalesce'[j].key \in Keys
    BY <1>4 DEF IInv, InputTypeOK
  <2>a. coalesce[i].seq \in Nat /\ coalesce[i].amount \in Int
    BY <1>2 DEF Entry
  <2>b. heard \in [Keys -> Nat] /\ owed \in [Keys -> Int]
    BY DEF IInv, InputTypeOK
  <2>c. owed[k] - coalesce[i].amount \in Int
    BY <2>a, <2>b, <1>2
  <2>d. heard' \in [Keys -> Nat]
    BY <2>a, <2>b
  <2>3. owed' \in [Keys -> Int]
    BY <2>b, <2>c
  <2> QED
    BY <1>1, <1>6, <2>1, <2>2, <2>d, <2>3 DEF IInv, InputTypeOK
<1>8. StampsAreInOrder'
  <2>0. /\ \A l, m \in Used : l = m \/ Older(coalesce[l], coalesce[m]) \/ Older(coalesce[m], coalesce[l])
        /\ \A l \in Used, n \in 1..Len(discrete) :
             Older(coalesce[l], discrete[n]) \/ Older(discrete[n], coalesce[l])
        /\ \A m, n \in 1..Len(discrete) : m < n => Older(discrete[m], discrete[n])
    BY DEF IInv, StampsAreInOrder
  <2>1. \A j \in Used' : /\ Older(coalesce[i], coalesce[j])
                         /\ coalesce[j].first \in (lastFirst' + 1)..born'
    <3> SUFFICES ASSUME NEW j \in Used'
                 PROVE  Older(coalesce[i], coalesce[j]) /\ coalesce[j].first \in (lastFirst' + 1)..born'
      OBVIOUS
    <3>1. j \in Used /\ j # i /\ coalesce[i].stamp <= coalesce[j].stamp
      BY <1>2, <1>4
    <3>2. ~Older(coalesce[j], coalesce[i])
      BY <3>1, <1>2, <1>0 DEF Older
    <3>3. Older(coalesce[i], coalesce[j])
      BY <3>1, <3>2, <1>2, <2>0
    <3>4. /\ lastFirst' = coalesce[i].first /\ born' = born /\ born \in Nat
          /\ coalesce[i].first \in Nat /\ coalesce[j].first \in Nat
          /\ coalesce[j].first <= born
      BY <3>1, <1>1, <1>2, <1>0
    <3>5. coalesce[i].first < coalesce[j].first
      BY <3>3 DEF Older
    <3> QED
      BY <3>3, <3>4, <3>5
  <2>2. \A n \in 1..Len(discrete) : discrete[n].first \in (lastFirst' + 1)..born'
    <3> SUFFICES ASSUME NEW n \in 1..Len(discrete)
                 PROVE  discrete[n].first \in (lastFirst' + 1)..born'
      OBVIOUS
    <3>1. discrete \in Seq(Entry) /\ discrete # <<>> /\ Head(discrete) = discrete[1] /\ 1 \in 1..Len(discrete)
      BY <1>1, <1>2 DEF IInv, InputTypeOK, DiscreteIsOlder
    <3>2. PICK j \in Used : ~(discrete[1].stamp < coalesce[j].stamp)
      BY <3>1, <1>1 DEF DiscreteIsOlder
    <3>3. Older(coalesce[j], discrete[1])
      BY <3>1, <3>2, <2>0 DEF Older
    <3>a. coalesce[i].stamp <= coalesce[j].stamp
      BY <1>2
    <3>n. /\ coalesce[i].stamp \in Nat /\ coalesce[j].stamp \in Nat /\ discrete[1].stamp \in Nat
          /\ coalesce[i].first \in Nat /\ discrete[1].first \in Nat /\ discrete[n].first \in Nat
      BY <3>1, <3>a, <1>0, <1>2
    <3>4. coalesce[i].stamp < discrete[1].stamp
      <4>1. coalesce[j].stamp < discrete[1].stamp
        BY <3>3 DEF Older
      <4> QED
        BY <4>1, <3>a, <3>n, LeqLess
    <3>b. Older(coalesce[i], discrete[1]) \/ Older(discrete[1], coalesce[i])
      BY <3>1, <1>2, <2>0
    <3>5. Older(coalesce[i], discrete[1])
      BY <3>b, <3>4, <3>n DEF Older
    <3>6. n = 1 \/ Older(discrete[1], discrete[n])
      BY <3>1, <2>0
    <3>7. coalesce[i].first < discrete[n].first
      BY <3>5, <3>6, <3>n DEF Older
    <3>8. lastFirst' = coalesce[i].first /\ born' = born /\ born \in Nat /\ discrete[n].first <= born
      BY <1>1, <1>0
    <3> QED
      BY <3>7, <3>8, <3>n, InInterval
  <2> QED
    BY <1>0, <1>1, <1>4, <2>0, <2>1, <2>2 DEF StampsAreInOrder, IInv
<1>9. LatestSurvives'
  <2> SUFFICES ASSUME NEW c \in Keys \ missed'
               PROVE  IF HeldBy(c)' = {} THEN heard'[c] = touched'[c]
                      ELSE \A j \in HeldBy(c)' : coalesce'[j].seq = touched'[c]
    BY DEF LatestSurvives
  <2>1. CASE c = k
    <3>1. i \in HeldBy(c) /\ coalesce[i].seq = touched[c]
      BY <2>1, <1>1, <1>2 DEF HeldBy, IInv, LatestSurvives
    <3> QED
      BY <2>1, <3>1, <1>1, <1>2, <1>5 DEF IInv, InputTypeOK
  <2>2. CASE c # k
    <3>1. HeldBy(c)' = HeldBy(c) /\ heard'[c] = heard[c]
      BY <2>2, <1>2, <1>5 DEF IInv, InputTypeOK
    <3>2. \A j \in HeldBy(c)' : coalesce'[j] = coalesce[j]
      BY <1>4 DEF HeldBy
    <3> QED
      BY <3>1, <3>2, <1>1 DEF IInv, LatestSurvives
  <2> QED
    BY <2>1, <2>2
<1>10. DistanceConserved'
  <2> SUFFICES ASSUME NEW c \in Deltas
               PROVE  IF HeldBy(c)' = {} THEN owed'[c] = 0
                      ELSE \A j \in HeldBy(c)' : coalesce'[j].amount = owed'[c]
    BY DEF DistanceConserved
  <2>1. CASE c = k
    <3>1. i \in HeldBy(c) /\ coalesce[i].amount = owed[c]
      BY <2>1, <1>2 DEF HeldBy, IInv, DistanceConserved
    <3>2. owed'[c] = 0
      BY <2>1, <3>1, <1>2 DEF IInv, InputTypeOK, Entry
    <3> QED
      BY <2>1, <3>2, <1>5
  <2>2. CASE c # k
    <3>1. HeldBy(c)' = HeldBy(c) /\ owed'[c] = owed[c]
      BY <2>2, <1>2, <1>5 DEF IInv, InputTypeOK
    <3>2. \A j \in HeldBy(c)' : coalesce'[j] = coalesce[j]
      BY <1>4 DEF HeldBy
    <3> QED
      BY <3>1, <3>2 DEF IInv, DistanceConserved
  <2> QED
    BY <2>1, <2>2
<1> QED
  BY <1>4, <1>6, <1>7, <1>8, <1>9, <1>10 DEF IInv, OneSlotPerKey

\* Losing the host restarts the stamps with nothing left to compare.
LEMMA ClearKeeps ==
  ASSUME IInv, Clear
  PROVE  IInv'
<1>1. Used' = {} /\ \A c : HeldBy(c)' = {}
  BY DEF Clear, Used, HeldBy, Empty
<1>2. /\ discrete' = <<>> /\ stamp' = 0 /\ owed' = [c \in Keys |-> 0]
      /\ missed' = missed \union {coalesce[i].key : i \in Used}
      /\ UNCHANGED <<dropped, born, lastFirst, touched, heard>>
  BY DEF Clear
<1>3. InputTypeOK'
  BY <1>1, <1>2 DEF Clear, IInv, InputTypeOK, Empty, Entry
<1>4. LatestSurvives'
  BY <1>1, <1>2 DEF IInv, LatestSurvives, HeldBy
<1>5. OneSlotPerKey' /\ StampsAreInOrder' /\ DistanceConserved'
  BY <1>1, <1>2 DEF OneSlotPerKey, StampsAreInOrder, DistanceConserved
<1> QED
  BY <1>3, <1>4, <1>5 DEF IInv

\* Every step keeps the invariant, one step per action.
LEMMA NextKeeps ==
  ASSUME IInv, [Next]_vars
  PROVE  IInv' /\ lastFirst' >= lastFirst
<1>0. dropped \in Nat /\ dropped + 1 \in Nat /\ lastFirst \in Nat
  BY EntryBounds DEF IInv, InputTypeOK
<1>1. ASSUME NEW k \in Keys, NEW d \in Amounts, PushCoalescing(k, d)
      PROVE  IInv' /\ lastFirst' = lastFirst
  <2>1. lastFirst' = lastFirst /\ born' = born + 1 /\ heard' = heard
    BY <1>1 DEF PushCoalescing, Born
  <2>2. CASE TurnHeld(k, d)
    BY <1>1, <2>1, <2>2, TurnHeldKeeps
  <2>3. CASE TurnFresh(k, d)
    BY <1>1, <2>1, <2>3, TurnFreshKeeps
  <2>4. CASE TurnDropped(k)
    <3>1. /\ dropped' = dropped + 1 /\ UNCHANGED <<coalesce, discrete, stamp, owed>>
          /\ touched' = [touched EXCEPT ![k] = born + 1] /\ missed' = missed \union {k}
      BY <2>4 DEF TurnDropped
    <3> QED
      BY <1>0, <2>1, <3>1, RefusedKeeps
  <2> QED
    BY <1>1, <2>1, <2>2, <2>3, <2>4 DEF PushCoalescing
<1>2. ASSUME PushDiscrete
      PROVE  IInv' /\ lastFirst' = lastFirst
  <2>1. /\ born' = born + 1
        /\ UNCHANGED <<coalesce, lastFirst, touched, heard, missed, owed>>
    BY <1>2 DEF PushDiscrete, Born
  <2>2. CASE ~DiscreteFull
    BY <1>2, <2>1, <2>2, PushDiscreteKeeps
  <2>3. CASE DiscreteFull
    <3>1. dropped' = dropped + 1 /\ UNCHANGED <<discrete, stamp>>
      BY <1>2, <2>3 DEF PushDiscrete
    <3> QED
      BY <1>0, <2>1, <3>1, RefusedKeeps
  <2> QED
    BY <2>2, <2>3
<1>3. ASSUME NEW k \in Keys, PushTooLarge(k)
      PROVE  IInv' /\ lastFirst' = lastFirst
  <2>1. /\ dropped' = dropped + 1 /\ born' = born + 1
        /\ UNCHANGED <<coalesce, discrete, stamp, lastFirst, heard, owed>>
        /\ touched' = [touched EXCEPT ![k] = born + 1] /\ missed' = missed \union {k}
    BY <1>3 DEF PushTooLarge, Born
  <2> QED
    BY <1>0, <2>1, RefusedKeeps
<1>4. ASSUME NEW len \in ControlLens, PushControl(len)
      PROVE  IInv' /\ lastFirst' = lastFirst
  BY <1>0, <1>4, InputUntouched DEF PushControl
<1>5. CASE EmitControl
  BY <1>0, <1>5, InputUntouched DEF EmitControl
<1>6. CASE EmitDiscrete
  BY <1>6, EmitDiscreteKeeps, EntryBounds
<1>7. CASE EmitCoalesced
  BY <1>7, EmitCoalescedKeeps, EntryBounds
<1>8. CASE Clear
  BY <1>0, <1>8, ClearKeeps DEF Clear
<1>9. CASE UNCHANGED vars
  BY <1>0, <1>9, InputUntouched DEF vars, qvars, hvars
<1> QED
  BY <1>0, <1>1, <1>2, <1>3, <1>4, <1>5, <1>6, <1>7, <1>8, <1>9 DEF Next, Emit

\* The inductive invariant holds of every behaviour of the queues.
THEOREM Invariance == Spec => []IInv
<1>1. Init => IInv
  BY InitIInv
<1>2. IInv /\ [Next]_vars => IInv'
  BY NextKeeps
<1> QED
  BY <1>1, <1>2, PTL DEF Spec

\* However many controls, slots and events: the stamps order both queues as the
\* hand did, and nothing waiting is older than what was sent (txq.c:110-112, 209-211).
THEOREM OrderTheorem == Spec => []StampsAreInOrder
<1>1. IInv => StampsAreInOrder
  BY DEF IInv
<1> QED
  BY <1>1, Invariance, PTL

\* A control never holds two slots, whatever order slots are taken and freed in.
THEOREM OneSlotTheorem == Spec => []OneSlotPerKey
<1>1. IInv => OneSlotPerKey
  BY DEF IInv
<1> QED
  BY <1>1, Invariance, PTL

\* Coalescing loses resolution and never the newest place of a knob.
THEOREM LatestTheorem == Spec => []LatestSurvives
<1>1. IInv => LatestSurvives
  BY DEF IInv
<1> QED
  BY <1>1, Invariance, PTL

\* Coalescing distances is lossless.
THEOREM DistanceTheorem == Spec => []DistanceConserved
<1>1. IInv => DistanceConserved
  BY DEF IInv
<1> QED
  BY <1>1, Invariance, PTL

\* Input leaves in the order the hand first reached for each control.
THEOREM LeavesTheorem == Spec => LeavesInOrder
<1>1. IInv /\ [Next]_vars => [lastFirst' >= lastFirst]_vars
  BY NextKeeps
<1> QED
  BY <1>1, Invariance, PTL DEF Spec, LeavesInOrder

-----------------------------------------------------------------------------
(* The control ring.  The library's induction takes an operator: here      *)
(* induction is said of a set, and follows from its least element.         *)

\* A set of naturals with 0 and every successor is all of them.
LEMMA SetInduction ==
  ASSUME NEW S, 0 \in S, \A n \in Nat : n \in S => n + 1 \in S
  PROVE  Nat \subseteq S
PROOF
<1> DEFINE Out == {n \in Nat : n \notin S}
<1> SUFFICES ASSUME Out # {} PROVE FALSE
  OBVIOUS
<1>1. PICK m \in Out : \A n \in Out : ~(<<n, m>> \in OpToRel(<, Nat))
  BY NatLessThanWellFounded, WFMin, Out \subseteq Nat
<1>2. m \in Nat /\ m # 0 /\ m - 1 \in Nat
  OBVIOUS
<1>3. <<m - 1, m>> \in OpToRel(<, Nat)
  BY <1>2 DEF OpToRel
<1>4. m - 1 \in S
  BY <1>1, <1>2, <1>3
<1> QED
  BY <1>2, <1>4

\* What the recursive definition of a sum says of its function.
IsSum(f, w, n) == f = [i \in 0..n |-> IF i = 0 THEN 0 ELSE f[i - 1] + ControlHdr + w[i]]

\* There is such a function, for every length.
LEMMA SumExists ==
  ASSUME NEW w PROVE \A n \in Nat : \E f : IsSum(f, w, n)
PROOF
<1> DEFINE S == {n \in Nat : \E f : IsSum(f, w, n)}
<1>1. 0 \in S
  <2> DEFINE f == [i \in 0..0 |-> 0]
  <2>1. IsSum(f, w, 0)
    BY DEF IsSum
  <2> QED
    BY <2>1
<1>2. ASSUME NEW n \in Nat, n \in S PROVE n + 1 \in S
  <2>1. PICK f : IsSum(f, w, n)
    BY <1>2
  <2> DEFINE g == [i \in 0..(n + 1) |-> IF i = n + 1 THEN f[n] + ControlHdr + w[n + 1] ELSE f[i]]
  <2>2. \A i \in 0..n : f[i] = IF i = 0 THEN 0 ELSE f[i - 1] + ControlHdr + w[i]
    BY <2>1 DEF IsSum
  <2>3. \A i \in 0..(n + 1) : g[i] = IF i = 0 THEN 0 ELSE g[i - 1] + ControlHdr + w[i]
    <3> SUFFICES ASSUME NEW i \in 0..(n + 1) PROVE g[i] = IF i = 0 THEN 0 ELSE g[i - 1] + ControlHdr + w[i]
      OBVIOUS
    <3>1. CASE i = n + 1
      BY <3>1
    <3>2. CASE i # n + 1
      <4>1. i \in 0..n
        BY <3>2
      <4> QED
        BY <4>1, <2>2
    <3> QED
      BY <3>1, <3>2
  <2>4. IsSum(g, w, n + 1)
    BY <2>3 DEF IsSum
  <2> QED
    BY <2>4
<1> HIDE DEF S
<1>3. Nat \subseteq S
  BY <1>1, <1>2, SetInduction
<1> QED
  BY <1>3 DEF S

\* Two of them agree as far as both go, whatever they sum beyond.
LEMMA SumUnique ==
  ASSUME NEW w, NEW f, NEW g, NEW n \in Nat, NEW m \in Nat, n <= m,
         IsSum(f, w, n), IsSum(g, w, m)
  PROVE  \A i \in 0..n : f[i] = g[i]
PROOF
<1> DEFINE S == {i \in Nat : i <= n => f[i] = g[i]}
<1>1. /\ \A i \in 0..n : f[i] = IF i = 0 THEN 0 ELSE f[i - 1] + ControlHdr + w[i]
      /\ \A i \in 0..m : g[i] = IF i = 0 THEN 0 ELSE g[i - 1] + ControlHdr + w[i]
  BY DEF IsSum
<1>2. 0 \in S
  BY <1>1
<1>3. ASSUME NEW i \in Nat, i \in S PROVE i + 1 \in S
  <2> SUFFICES ASSUME i + 1 <= n PROVE f[i + 1] = g[i + 1]
    OBVIOUS
  <2>1. i + 1 \in 0..n /\ i + 1 \in 0..m /\ i + 1 # 0 /\ (i + 1) - 1 = i /\ f[i] = g[i]
    BY <1>3
  <2>2. f[i + 1] = f[(i + 1) - 1] + ControlHdr + w[i + 1] /\ g[i + 1] = g[(i + 1) - 1] + ControlHdr + w[i + 1]
    BY <1>1, <2>1
  <2> QED
    BY <2>1, <2>2
<1> HIDE DEF S
<1>4. Nat \subseteq S
  BY <1>2, <1>3, SetInduction
<1> QED
  BY <1>4 DEF S

\* No messages take no bytes, and each takes its prefix and its length.
LEMMA BytesGrow ==
  ASSUME NEW w, NEW n \in Nat
  PROVE  BytesTo(w, 0) = 0 /\ BytesTo(w, n + 1) = BytesTo(w, n) + ControlHdr + w[n + 1]
PROOF
<1>1. \A m \in Nat : \E f : IsSum(f, w, m) /\ BytesTo(w, m) = f[m]
  BY SumExists DEF IsSum, BytesTo
<1>2. PICK z : IsSum(z, w, 0) /\ BytesTo(w, 0) = z[0]
  BY <1>1
<1>3. PICK f : IsSum(f, w, n) /\ BytesTo(w, n) = f[n]
  BY <1>1
<1>4. PICK g : IsSum(g, w, n + 1) /\ BytesTo(w, n + 1) = g[n + 1]
  BY <1>1
<1>5. z[0] = 0
  BY <1>2 DEF IsSum
<1>6. f[n] = g[n]
  BY <1>3, <1>4, SumUnique
<1>7. g[n + 1] = g[n] + ControlHdr + w[n + 1]
  <2>1. \A i \in 0..(n + 1) : g[i] = IF i = 0 THEN 0 ELSE g[i - 1] + ControlHdr + w[i]
    BY <1>4 DEF IsSum
  <2>2. n + 1 \in 0..(n + 1) /\ n + 1 # 0 /\ (n + 1) - 1 = n
    OBVIOUS
  <2> QED
    BY <2>1, <2>2
<1> QED
  BY <1>2, <1>3, <1>4, <1>5, <1>6, <1>7


\* What a sequence holds is of its kind.
LEMMA Holds ==
  ASSUME NEW T, NEW s \in Seq(T), NEW i \in 1..Len(s) PROVE s[i] \in T
PROOF
  OBVIOUS

\* Bytes are counted.
LEMMA BytesTyped ==
  ASSUME NEW s \in Seq(ControlLens) PROVE \A n \in 0..Len(s) : BytesTo(s, n) \in Nat
PROOF
<1> DEFINE S == {n \in Nat : n <= Len(s) => BytesTo(s, n) \in Nat}
<1>1. 0 \in S
  BY BytesGrow
<1>2. ASSUME NEW n \in Nat, n \in S PROVE n + 1 \in S
  <2> SUFFICES ASSUME n + 1 <= Len(s) PROVE BytesTo(s, n + 1) \in Nat
    OBVIOUS
  <2>0. n + 1 \in 1..Len(s)
    OBVIOUS
  <2>1. s[n + 1] \in ControlLens
    BY <2>0, Holds
  <2>2. BytesTo(s, n) \in Nat
    BY <1>2
  <2>3. BytesTo(s, n + 1) = BytesTo(s, n) + ControlHdr + s[n + 1]
    BY BytesGrow
  <2>4. PICK b \in Nat, x \in Nat : b = BytesTo(s, n) /\ x = s[n + 1]
    BY <2>1, <2>2, SizesAssumption
  <2>5. b + ControlHdr + x \in Nat
    BY SizesAssumption
  <2> QED
    BY <2>3, <2>4, <2>5
<1> HIDE DEF S
<1>3. Nat \subseteq S
  BY <1>1, <1>2, SetInduction
<1> QED
  BY <1>3 DEF S

\* A message at the end adds its bytes.
LEMMA BytesAppend ==
  ASSUME NEW s \in Seq(ControlLens), NEW x \in ControlLens, NEW u, u = Append(s, x)
  PROVE  BytesTo(u, Len(u)) = BytesTo(s, Len(s)) + ControlHdr + x
PROOF
<1>1. Len(s) \in Nat /\ Len(u) = Len(s) + 1 /\ u[Len(s) + 1] = x /\ \A i \in 1..Len(s) : u[i] = s[i]
  OBVIOUS
<1> DEFINE S == {n \in Nat : n <= Len(s) => BytesTo(u, n) = BytesTo(s, n)}
<1>2. 0 \in S
  BY BytesGrow
<1>3. ASSUME NEW n \in Nat, n \in S PROVE n + 1 \in S
  <2> SUFFICES ASSUME n + 1 <= Len(s) PROVE BytesTo(u, n + 1) = BytesTo(s, n + 1)
    OBVIOUS
  <2>1. u[n + 1] = s[n + 1] /\ BytesTo(u, n) = BytesTo(s, n)
    BY <1>1, <1>3
  <2>2. /\ BytesTo(u, n + 1) = BytesTo(u, n) + ControlHdr + u[n + 1]
        /\ BytesTo(s, n + 1) = BytesTo(s, n) + ControlHdr + s[n + 1]
    BY BytesGrow
  <2> QED
    BY <2>1, <2>2
<1> HIDE DEF S
<1>4. Nat \subseteq S
  BY <1>2, <1>3, SetInduction
<1>5. BytesTo(u, Len(s)) = BytesTo(s, Len(s))
  BY <1>4 DEF S
<1>6. PICK l \in Nat : l = Len(s)
  BY <1>1
<1>7. BytesTo(u, l + 1) = BytesTo(u, l) + ControlHdr + u[l + 1]
  BY BytesGrow
<1> QED
  BY <1>1, <1>5, <1>6, <1>7

\* Without its first message a queue takes that message's bytes less.
LEMMA BytesTail ==
  ASSUME NEW s \in Seq(ControlLens), s # <<>>
  PROVE  /\ Tail(s) \in Seq(ControlLens) /\ Head(s) \in ControlLens
         /\ BytesTo(Tail(s), Len(Tail(s))) = BytesTo(s, Len(s)) - Took(Head(s))
PROOF
<1>1. PICK u : u = Tail(s)
  OBVIOUS
<1>2. PICK l \in Nat : l = Len(u) /\ Len(s) = l + 1
  BY <1>1
<1>3. u \in Seq(ControlLens) /\ Head(s) = s[1] /\ \A i \in 1..l : u[i] = s[i + 1]
  BY <1>1, <1>2
<1>4. PICK x \in ControlLens : x = s[1]
  <2>1. 1 \in 1..Len(s)
    BY <1>2
  <2>2. s[1] \in ControlLens
    BY <2>1, Holds
  <2> QED
    BY <2>2
<1> DEFINE S == {n \in Nat : n <= l => BytesTo(s, n + 1) = BytesTo(u, n) + ControlHdr + x}
<1>5. 0 \in S
  <2>1. BytesTo(s, 0) = 0 /\ BytesTo(u, 0) = 0 /\ BytesTo(s, 0 + 1) = BytesTo(s, 0) + ControlHdr + s[0 + 1]
    BY BytesGrow
  <2>2. s[0 + 1] = x
    BY <1>4
  <2> QED
    BY <2>1, <2>2
<1>6. ASSUME NEW n \in Nat, n \in S PROVE n + 1 \in S
  <2> SUFFICES ASSUME n + 1 <= l PROVE BytesTo(s, (n + 1) + 1) = BytesTo(u, n + 1) + ControlHdr + x
    OBVIOUS
  <2>0. n + 1 \in 1..l
    OBVIOUS
  <2>1. PICK y \in ControlLens : y = u[n + 1] /\ y = s[(n + 1) + 1]
    <3>1. n + 1 \in 1..Len(u) /\ u[n + 1] = s[(n + 1) + 1]
      BY <1>2, <1>3, <2>0
    <3>2. u[n + 1] \in ControlLens
      BY <1>3, <3>1, Holds
    <3> QED
      BY <3>1, <3>2
  <2>2. BytesTo(s, n + 1) = BytesTo(u, n) + ControlHdr + x
    BY <1>6
  <2>3. BytesTo(s, (n + 1) + 1) = BytesTo(s, n + 1) + ControlHdr + y
    BY <2>1, BytesGrow
  <2>4. BytesTo(u, n + 1) = BytesTo(u, n) + ControlHdr + y
    BY <2>1, BytesGrow
  <2>5. BytesTo(u, n) \in Nat
    BY <1>2, <1>3, BytesTyped
  <2>6. PICK a, b, c, d : a = BytesTo(s, (n + 1) + 1) /\ b = BytesTo(s, n + 1) /\ c = BytesTo(u, n) /\ d = BytesTo(u, n + 1)
    OBVIOUS
  <2>7. a = b + ControlHdr + y /\ b = c + ControlHdr + x /\ d = c + ControlHdr + y /\ c \in Nat
    BY <2>2, <2>3, <2>4, <2>5, <2>6
  <2>8. a = d + ControlHdr + x
    BY <2>7, SizesAssumption
  <2> QED
    BY <2>6, <2>8
<1> HIDE DEF S
<1>7. Nat \subseteq S
  BY <1>5, <1>6, SetInduction
<1>8. BytesTo(s, l + 1) = BytesTo(u, l) + ControlHdr + x
  BY <1>7 DEF S
<1>9. PICK a, b : a = BytesTo(s, Len(s)) /\ b = BytesTo(u, Len(u))
  OBVIOUS
<1>10. b \in Nat /\ a = b + ControlHdr + x
  BY <1>2, <1>3, <1>8, <1>9, BytesTyped
<1>11. b = a - (ControlHdr + x)
  BY <1>10, SizesAssumption
<1> QED
  BY <1>1, <1>3, <1>4, <1>9, <1>11 DEF Took

\* The count of messages is theirs up to a multiple of what it can count to, so that
\* it is not 0 unless one is queued.
Counted == \E q \in Nat : Len(control) = q * CountMod + control_count

CInv == ControlTypeOK /\ Counted

\* Counting one more modulo CountMod keeps a count equal to its remainder.
LEMMA CountedUp ==
  ASSUME NEW n \in Nat, NEW c \in 0..(CountMod - 1), NEW q \in Nat, n = q * CountMod + c
  PROVE  /\ (c + 1) % CountMod \in 0..(CountMod - 1)
         /\ \E r \in Nat : n + 1 = r * CountMod + ((c + 1) % CountMod)
PROOF
<1>1. PICK t \in Nat \ {0} : t = CountMod
  BY SizesAssumption
<1>2. PICK m : m = (c + 1) % t
  OBVIOUS
<1>3. SUFFICES m \in 0..(t - 1) /\ \E r \in Nat : n + 1 = r * t + m
  BY <1>1, <1>2, Zenon
<1>4. n = q * t + c /\ c \in 0..(t - 1)
  BY <1>1
<1>5. CASE c + 1 < t
  <2>1. m = c + 1
    BY <1>2, <1>4, <1>5
  <2>2. n + 1 = q * t + (c + 1)
    BY <1>4
  <2> QED
    BY <1>4, <1>5, <2>1, <2>2
<1>6. CASE c + 1 = t
  <2>1. m = 0
    BY <1>2, <1>6
  <2>2. n + 1 = q * t + t
    BY <1>4, <1>6
  <2>3. q * t + t = (q + 1) * t + 0 /\ q + 1 \in Nat
    OBVIOUS
  <2>4. n + 1 = (q + 1) * t + m
    BY <2>1, <2>2, <2>3, Zenon
  <2>5. m \in 0..(t - 1)
    BY <2>1
  <2> QED
    BY <2>3, <2>4, <2>5, Zenon
<1>7. c + 1 < t \/ c + 1 = t
  BY <1>4
<1> QED
  BY <1>5, <1>6, <1>7, Zenon

\* Every step of the control queue keeps its bytes and its count true to its contents.
LEMMA ControlKeeps == ASSUME CInv, [Next]_vars PROVE CInv'
PROOF
<1>1. /\ control \in Seq(ControlLens) /\ Len(control) \in Nat /\ control_used \in 0..ControlBytes
      /\ control_used = BytesTo(control, Len(control)) /\ control_count \in 0..(CountMod - 1)
      /\ posted \in 0..MaxControl
  BY DEF CInv, ControlTypeOK
<1>2. PICK q \in Nat : Len(control) = q * CountMod + control_count
  BY DEF CInv, Counted
<1>3. ASSUME UNCHANGED <<control, control_used, control_count>>, posted' \in 0..MaxControl PROVE CInv'
  BY <1>1, <1>2, <1>3 DEF CInv, ControlTypeOK, Counted
<1>4. ASSUME NEW len \in ControlLens, PushControl(len) PROVE CInv'
  <2>1. posted' \in 0..MaxControl
    BY <1>1, <1>4 DEF PushControl
  <2>2. CASE control_used + ControlHdr + len > ControlBytes
    BY <1>1, <1>3, <1>4, <2>1, <2>2 DEF PushControl
  <2>3. CASE control_used + ControlHdr + len <= ControlBytes
    <3>1. /\ control' = Append(control, len) /\ control_used' = control_used + ControlHdr + len
          /\ control_count' = (control_count + 1) % CountMod
      BY <1>1, <1>4, <2>3 DEF PushControl
    <3>2. control' \in Seq(ControlLens) /\ Len(control') = Len(control) + 1
      BY <1>1, <3>1
    <3>3. control_used' = BytesTo(control', Len(control'))
      BY <1>1, <3>1, BytesAppend
    <3>4. control_used' \in 0..ControlBytes
      BY <1>1, <2>3, <3>1
    <3>5. PICK n \in Nat, c \in 0..(CountMod - 1) :
            n = Len(control) /\ c = control_count /\ n = q * CountMod + c
      BY <1>1, <1>2
    <3>6. PICK m \in 0..(CountMod - 1), r \in Nat :
            m = (c + 1) % CountMod /\ n + 1 = r * CountMod + m
      <4>1. /\ (c + 1) % CountMod \in 0..(CountMod - 1)
            /\ \E r \in Nat : n + 1 = r * CountMod + ((c + 1) % CountMod)
        BY <3>5, CountedUp
      <4> QED
        BY <4>1, Zenon
    <3>7. control_count' = m /\ Len(control') = n + 1
      BY <3>1, <3>2, <3>5, <3>6
    <3>8. Counted'
      BY <3>6, <3>7 DEF Counted
    <3> QED
      BY <2>1, <3>2, <3>3, <3>4, <3>6, <3>7, <3>8 DEF CInv, ControlTypeOK, BytesTo
  <2> QED
    BY <1>1, <2>2, <2>3
<1>5. CASE EmitControl
  <2>1. /\ control_count # 0 /\ control' = Tail(control) /\ control_used' = control_used - Took(Head(control))
        /\ control_count' = (control_count - 1) % CountMod /\ posted' = posted
    BY <1>5 DEF EmitControl
  <2>2. control # <<>> /\ Len(control) # 0
    <3>1. q * CountMod \in Nat
      OBVIOUS
    <3>2. Len(control) # 0
      BY <1>1, <1>2, <2>1, <3>1
    <3> QED
      BY <3>2
  <2>3. /\ control' \in Seq(ControlLens) /\ Head(control) \in ControlLens
        /\ control_used' = BytesTo(control', Len(control'))
    BY <1>1, <2>1, <2>2, BytesTail
  <2>4. Len(control') = Len(control) - 1
    BY <1>1, <2>1, <2>2
  <2>5. control_count' = control_count - 1
    <3>1. PICK c \in 0..(CountMod - 1) : c = control_count /\ c # 0
      BY <1>1, <2>1
    <3>2. PICK t \in Nat \ {0} : t = CountMod
      BY SizesAssumption
    <3>3. (c - 1) % t = c - 1
      BY <3>1, <3>2
    <3> QED
      BY <2>1, <3>1, <3>2, <3>3
  <2>6. control_used' \in 0..ControlBytes
    <3>1. control_used' \in Nat
      BY <2>3, BytesTyped
    <3>2. Took(Head(control)) \in Nat
      <4>1. PICK h \in Nat : h = Head(control)
        BY <2>3, SizesAssumption
      <4> QED
        BY <4>1, SizesAssumption DEF Took
    <3>3. control_used' <= ControlBytes
      BY <1>1, <2>1, <3>2
    <3> QED
      BY <3>1, <3>3
  <2>7. Len(control') = q * CountMod + control_count'
    <3>1. PICK z \in Nat : z = q * CountMod
      OBVIOUS
    <3> QED
      BY <1>1, <1>2, <2>4, <2>5, <3>1
  <2>8. Counted'
    BY <2>7 DEF Counted
  <2>9. control_count' \in 0..(CountMod - 1) /\ posted' \in 0..MaxControl
    <3>1. PICK t \in Nat \ {0} : t = CountMod
      BY SizesAssumption
    <3> QED
      BY <1>1, <2>1, <2>5, <3>1
  <2> QED
    BY <2>3, <2>6, <2>8, <2>9 DEF CInv, ControlTypeOK, BytesTo
<1>6. CASE Clear
  <2>1. PICK e : e = <<>>
    OBVIOUS
  <2>2. e \in Seq(ControlLens) /\ Len(e) = 0 /\ BytesTo(e, 0) = 0 /\ 0 = 0 * CountMod + 0
    BY <2>1, BytesGrow
  <2>3. control' = e /\ control_used' = 0 /\ control_count' = 0 /\ posted' = posted
    BY <1>6, <2>1 DEF Clear
  <2>4. control_used' = BytesTo(control', Len(control'))
    BY <2>2, <2>3
  <2>5. Counted'
    BY <2>2, <2>3 DEF Counted
  <2> QED
    BY <1>1, <2>2, <2>3, <2>4, <2>5 DEF CInv, ControlTypeOK, BytesTo
<1>7. CASE UNCHANGED vars
  BY <1>1, <1>3, <1>7 DEF vars, qvars, hvars
<1>8. CASE (\E k \in Keys, d \in Amounts : PushCoalescing(k, d)) \/ PushDiscrete \/ (\E k \in Keys : PushTooLarge(k))
           \/ EmitDiscrete \/ EmitCoalesced
  BY <1>1, <1>3, <1>8 DEF PushCoalescing, PushDiscrete, PushTooLarge, EmitDiscrete, EmitCoalesced, cvars
<1> QED
  BY <1>4, <1>5, <1>6, <1>7, <1>8 DEF Next, Emit

\* Every queue keeps within its capacity, and the control ring's bytes are those of the
\* messages it holds, whatever is pushed, refused, sent and forgotten (txq.h:50-87), also
\* when the uint8_t count of them goes round.
THEOREM TypeTheorem == Spec => []TypeOK
PROOF
<1>1. Init => CInv
  <2> SUFFICES ASSUME Init PROVE CInv
    OBVIOUS
  <2>1. PICK e : e = <<>>
    OBVIOUS
  <2>2. e \in Seq(ControlLens) /\ Len(e) = 0 /\ BytesTo(e, 0) = 0 /\ 0 = 0 * CountMod + 0
    BY <2>1, BytesGrow
  <2>3. control = e /\ control_used = 0 /\ control_count = 0 /\ posted = 0
    BY <2>1 DEF Init
  <2>4. control_used = BytesTo(control, Len(control))
    BY <2>2, <2>3
  <2>5. Counted
    BY <2>2, <2>3 DEF Counted
  <2> QED
    BY <2>2, <2>3, <2>4, <2>5 DEF CInv, ControlTypeOK
<1>2. CInv /\ [Next]_vars => CInv'
  BY ControlKeeps
<1>3. IInv /\ CInv => TypeOK
  BY DEF IInv, CInv, TypeOK
<1> QED
  BY <1>1, <1>2, <1>3, Invariance, PTL DEF Spec

-----------------------------------------------------------------------------
(* The queues implement InputOrder.                                        *)

\* What the promise sees of one waiting message.
Seen(e) == [key |-> e.key, first |-> e.first, seq |-> e.seq, amount |-> e.amount]

\* The reports that wait.
Waiting == {Seen(e) : e \in Entries}

\* One event opened each waiting message, so no two of them look the same.
LEMMA SeenApart ==
  ASSUME IInv
  PROVE  /\ \A i, j \in Used : i # j => Seen(coalesce[i]) # Seen(coalesce[j])
         /\ \A i \in Used, n \in 1..Len(discrete) : Seen(coalesce[i]) # Seen(discrete[n])
         /\ \A m, n \in 1..Len(discrete) : m # n => Seen(discrete[m]) # Seen(discrete[n])
PROOF
<1>1. \A e, f \in Entry : Older(e, f) => Seen(e) # Seen(f) /\ Seen(f) # Seen(e)
  BY DEF Older, Seen, Entry
<1>2. /\ \A i \in Used : coalesce[i] \in Entry
      /\ \A n \in 1..Len(discrete) : discrete[n] \in Entry
  BY EntryBounds
<1>3. \A i, j \in Used : i # j => Seen(coalesce[i]) # Seen(coalesce[j])
  BY <1>1, <1>2 DEF IInv, StampsAreInOrder
<1>4. \A i \in Used, n \in 1..Len(discrete) : Seen(coalesce[i]) # Seen(discrete[n])
  BY <1>1, <1>2 DEF IInv, StampsAreInOrder
<1>5. ASSUME NEW m \in 1..Len(discrete), NEW n \in 1..Len(discrete), m # n
      PROVE  Seen(discrete[m]) # Seen(discrete[n])
  <2>1. m < n \/ n < m
    BY <1>5
  <2>2. Older(discrete[m], discrete[n]) \/ Older(discrete[n], discrete[m])
    BY <1>5, <2>1 DEF IInv, StampsAreInOrder
  <2> QED
    BY <1>1, <1>2, <1>5, <2>2
<1> QED
  BY <1>3, <1>4, <1>5

\* Waiting, slot by slot.
LEMMA WaitingIs ==
  Waiting = {Seen(coalesce[i]) : i \in Used} \union {Seen(discrete[n]) : n \in 1..Len(discrete)}
  BY DEF Waiting, Entries, CoalescedEntries, DiscreteEntries

\* Merging, field by field.
LEMMA MergedIs ==
  ASSUME NEW k, NEW f, NEW s, NEW a, NEW n, NEW d
  PROVE  Abs!Merged([key |-> k, first |-> f, seq |-> s, amount |-> a], n, d)
           = [key |-> k, first |-> f, seq |-> n, amount |-> IF k \in Deltas THEN a + d ELSE d]
PROOF
<1> DEFINE r == [key |-> k, first |-> f, seq |-> s, amount |-> a]
<1>1. Abs!Merged(r, n, d) = [r EXCEPT !.seq = n, !.amount = IF k \in Deltas THEN a + d ELSE d]
  BY DEF Abs!Merged
<1> QED
  BY <1>1

\* A turn of a control that waits is merged into its report.
LEMMA TurnHeldMaps ==
  ASSUME IInv, NEW k \in Keys, NEW d \in Amounts, Born, TurnHeld(k, d), UNCHANGED lastFirst
  PROVE  Abs!AbsTurn(k, d)
PROOF
<1>1. PICK i \in HeldBy(k) : coalesce' = [coalesce EXCEPT ![i] = Supersede(@, d)]
  BY DEF TurnHeld
<1>2. /\ i \in Used /\ i \in Slot /\ coalesce[i].key = k /\ coalesce \in [Slot -> Entry]
      /\ discrete' = discrete
  BY DEF TurnHeld, HeldBy, Used, IInv, InputTypeOK
<1>3. /\ coalesce'[i] = Supersede(coalesce[i], d) /\ \A j \in Slot \ {i} : coalesce'[j] = coalesce[j]
  BY <1>1, <1>2
<1>4. coalesce[i] \in Entry /\ coalesce'[i].stamp = coalesce[i].stamp
  BY <1>2, <1>3 DEF Supersede, Entry
<1>5. Used' = Used
  <2>1. \A j \in Slot : coalesce'[j].stamp = coalesce[j].stamp
    BY <1>3, <1>4
  <2> QED
    BY <2>1 DEF Used
<1>6. Seen(coalesce'[i]) = Abs!Merged(Seen(coalesce[i]), born + 1, d)
  <2>1. /\ coalesce'[i].key = k /\ coalesce'[i].first = coalesce[i].first
        /\ coalesce'[i].seq = born + 1
        /\ coalesce'[i].amount = (IF k \in Deltas THEN coalesce[i].amount + d ELSE d)
    BY <1>2, <1>3, <1>4 DEF Supersede, Entry
  <2>2. Seen(coalesce[i]) = [key |-> k, first |-> coalesce[i].first, seq |-> coalesce[i].seq,
                             amount |-> coalesce[i].amount]
    BY <1>2 DEF Seen
  <2> QED
    BY <2>1, <2>2, MergedIs DEF Seen
<1>7. Waiting' = {Seen(coalesce'[j]) : j \in Used} \union {Seen(discrete[n]) : n \in 1..Len(discrete)}
  BY <1>2, <1>5 DEF Waiting, Entries, CoalescedEntries, DiscreteEntries
<1>8. Waiting' = (Waiting \ {Seen(coalesce[i])}) \union {Seen(coalesce'[i])}
  <2>1. \A j \in Used \ {i} : coalesce'[j] = coalesce[j] /\ Seen(coalesce[j]) # Seen(coalesce[i])
    BY <1>2, <1>3, SeenApart DEF Used
  <2>2. \A n \in 1..Len(discrete) : Seen(discrete[n]) # Seen(coalesce[i])
    BY <1>2, SeenApart
  <2> HIDE DEF Used
  <2> QED
    BY <1>2, <1>7, <2>1, <2>2, WaitingIs
<1>9. Seen(coalesce[i]) \in Waiting /\ Seen(coalesce[i]).key = k
  BY <1>2, WaitingIs DEF Seen
<1> QED
  BY <1>6, <1>8, <1>9 DEF Abs!AbsTurn, Born, Waiting, Seen

\* A turn of one that does not opens a report.
LEMMA TurnFreshMaps ==
  ASSUME IInv, NEW k \in Keys, NEW d \in Amounts, Born, TurnFresh(k, d), UNCHANGED lastFirst
  PROVE  Abs!AbsTurn(k, d)
PROOF
<1>1. PICK i \in Slot : FirstFree(i) /\ coalesce' = [coalesce EXCEPT ![i] = Fresh(stamp + 1, k, born + 1, d)]
  BY DEF TurnFresh
<1>2. /\ i \notin Used /\ coalesce \in [Slot -> Entry] /\ discrete' = discrete /\ HeldBy(k) = {}
  BY <1>1 DEF TurnFresh, FirstFree, FreeSlots, IInv, InputTypeOK
<1>3. /\ coalesce'[i] = Fresh(stamp + 1, k, born + 1, d)
      /\ \A j \in Slot \ {i} : coalesce'[j] = coalesce[j]
  BY <1>1, <1>2
<1>4. Used' = Used \union {i}
  <2>1. coalesce'[i].stamp # 0
    BY <1>3, EntryBounds DEF Fresh
  <2> QED
    BY <1>2, <1>3, <2>1 DEF Used
<1>5. Seen(coalesce'[i]) = Abs!Opened(k, born + 1, d)
  BY <1>3 DEF Seen, Fresh, Abs!Opened
<1>6. Waiting' = Waiting \union {Abs!Opened(k, born + 1, d)}
  <2>1. Waiting' = {Seen(coalesce'[j]) : j \in Used'} \union {Seen(discrete[n]) : n \in 1..Len(discrete)}
    BY <1>2 DEF Waiting, Entries, CoalescedEntries, DiscreteEntries
  <2>2. \A j \in Used : coalesce'[j] = coalesce[j]
    BY <1>2, <1>3 DEF Used
  <2> QED
    BY <1>4, <1>5, <2>1, <2>2, WaitingIs
<1>7. \A r \in Waiting : r.key # k
  <2>1. \A j \in Used : coalesce[j].key # k
    BY <1>2 DEF HeldBy
  <2>2. \A n \in 1..Len(discrete) : discrete[n].key # k
    BY DEF IInv, InputTypeOK
  <2>3. \A e : Seen(e).key = e.key
    BY DEF Seen
  <2> QED
    BY <2>1, <2>2, <2>3, WaitingIs
<1> QED
  BY <1>6, <1>7 DEF Abs!AbsTurn, Born, Waiting, Seen

\* A press opens a report or finds no room.
LEMMA PressMaps ==
  ASSUME IInv, PushDiscrete
  PROVE  Abs!AbsPress \/ Abs!AbsRefuse
PROOF
<1>1. CASE DiscreteFull
  BY <1>1 DEF PushDiscrete, Born, Abs!AbsRefuse, Entries, CoalescedEntries, DiscreteEntries, Used
<1>2. CASE ~DiscreteFull
  <2> DEFINE e == Fresh(stamp + 1, Press, born + 1, 0)
  <2>1. discrete' = Append(discrete, e) /\ coalesce' = coalesce /\ lastFirst' = lastFirst /\ born' = born + 1
    BY <1>2 DEF PushDiscrete, Born
  <2>2. discrete \in Seq(Entry) /\ e \in Entry
    BY EntryBounds DEF IInv, InputTypeOK, Fresh, Entry
  <2>3. Seen(e) = Abs!Opened(Press, born + 1, 0)
    BY DEF Seen, Fresh, Abs!Opened
  <2> HIDE DEF e
  <2>4. /\ Len(discrete') = Len(discrete) + 1 /\ discrete'[Len(discrete) + 1] = e
        /\ \A n \in 1..Len(discrete) : discrete'[n] = discrete[n]
        /\ Len(discrete) \in Nat
    BY <2>1, <2>2
  <2>5. Waiting' = {Seen(coalesce[j]) : j \in Used} \union {Seen(discrete'[n]) : n \in 1..Len(discrete')}
    BY <2>1 DEF Waiting, Entries, CoalescedEntries, DiscreteEntries, Used
  <2>6. {Seen(discrete'[n]) : n \in 1..Len(discrete')} = {Seen(discrete[n]) : n \in 1..Len(discrete)} \union {Seen(e)}
    <3>1. 1..Len(discrete') = (1..Len(discrete)) \union {Len(discrete) + 1}
      BY <2>4
    <3> QED
      BY <2>4, <3>1
  <2>7. Waiting' = Waiting \union {Seen(e)}
    BY <2>5, <2>6, WaitingIs
  <2> QED
    BY <2>1, <2>3, <2>7 DEF Abs!AbsPress, Waiting, Seen
<1> QED
  BY <1>1, <1>2

\* The head of the FIFO, when it is older than every slot, is the oldest report.
LEMMA EmitDiscreteMaps ==
  ASSUME IInv, EmitDiscrete
  PROVE  Abs!AbsDeliver
PROOF
<1>1. /\ discrete # <<>> /\ discrete' = Tail(discrete) /\ coalesce' = coalesce /\ born' = born
      /\ lastFirst' = Head(discrete).first
      /\ \A i \in Used : Head(discrete).stamp < coalesce[i].stamp
  BY DEF EmitDiscrete, DiscreteIsOlder
<1>2. /\ discrete \in Seq(Entry) /\ Len(discrete) \in Nat \ {0} /\ Head(discrete) = discrete[1]
      /\ Len(discrete') = Len(discrete) - 1
      /\ \A n \in 1..Len(discrete') : discrete'[n] = discrete[n + 1]
  BY <1>1 DEF IInv, InputTypeOK
<1> DEFINE r == Seen(discrete[1])
<1>3. r \in Waiting /\ r.first = lastFirst'
  BY <1>1, <1>2, WaitingIs DEF Seen
<1>4. \A q \in Waiting : r.first <= q.first
  <2>1. \A i \in Used : discrete[1].first <= coalesce[i].first
    <3> TAKE i \in Used
    <3>1. coalesce[i] \in Entry /\ discrete[1] \in Entry
      BY <1>2, EntryBounds
    <3>2. ~Older(coalesce[i], discrete[1])
      BY <1>1, <1>2, <3>1 DEF Older, Entry
    <3>3. Older(discrete[1], coalesce[i])
      BY <1>2, <3>2 DEF IInv, StampsAreInOrder
    <3> QED
      BY <3>1, <3>3 DEF Older, Entry
  <2>2. \A n \in 1..Len(discrete) : discrete[1].first <= discrete[n].first
    <3> TAKE n \in 1..Len(discrete)
    <3>1. n = 1 \/ 1 < n
      BY <1>2
    <3>2. discrete[1] \in Entry /\ discrete[n] \in Entry
      BY <1>2, EntryBounds
    <3>3. CASE 1 < n
      <4>1. Older(discrete[1], discrete[n])
        BY <1>2, <3>3 DEF IInv, StampsAreInOrder
      <4> QED
        BY <3>2, <4>1 DEF Older, Entry
    <3> QED
      BY <3>1, <3>2, <3>3 DEF Entry
  <2>3. \A e : Seen(e).first = e.first
    BY DEF Seen
  <2> QED
    BY <2>1, <2>2, <2>3, WaitingIs
<1>5. Waiting' = Waiting \ {r}
  <2>1. Waiting' = {Seen(coalesce[j]) : j \in Used} \union {Seen(discrete'[n]) : n \in 1..Len(discrete')}
    BY <1>1 DEF Waiting, Entries, CoalescedEntries, DiscreteEntries, Used
  <2>2. {Seen(discrete'[n]) : n \in 1..Len(discrete')} = {Seen(discrete[n]) : n \in 2..Len(discrete)}
    <3>1. \A n \in 2..Len(discrete) : n - 1 \in 1..Len(discrete') /\ discrete'[n - 1] = discrete[n]
      BY <1>2
    <3>2. \A n \in 1..Len(discrete') : n + 1 \in 2..Len(discrete) /\ discrete'[n] = discrete[n + 1]
      BY <1>2
    <3> QED
      BY <3>1, <3>2
  <2>3. /\ 1..Len(discrete) = {1} \union 2..Len(discrete)
        /\ \A n \in 2..Len(discrete) : n \in 1..Len(discrete) /\ n # 1
        /\ 1 \in 1..Len(discrete)
    BY <1>2
  <2>4. /\ \A n \in 2..Len(discrete) : Seen(discrete[n]) # r
        /\ \A j \in Used : Seen(coalesce[j]) # r
    BY <2>3, SeenApart
  <2> QED
    BY <2>1, <2>2, <2>3, <2>4, WaitingIs
<1> QED
  BY <1>1, <1>3, <1>4, <1>5 DEF Abs!AbsDeliver, Waiting, Seen

\* The oldest slot, when the head of the FIFO is not older than every slot, is the
\* oldest report.
LEMMA EmitCoalescedMaps ==
  ASSUME IInv, EmitCoalesced
  PROVE  Abs!AbsDeliver
PROOF
<1>1. PICK i \in Slot : /\ OldestCoalesced(i) /\ coalesce' = [coalesce EXCEPT ![i].stamp = 0]
                        /\ lastFirst' = coalesce[i].first
  BY DEF EmitCoalesced
<1>2. /\ i \in Used /\ coalesce \in [Slot -> Entry] /\ discrete' = discrete /\ born' = born
      /\ ~DiscreteIsOlder
      /\ \A j \in Used : coalesce[i].stamp <= coalesce[j].stamp
  BY <1>1 DEF EmitCoalesced, OldestCoalesced, IInv, InputTypeOK
<1> DEFINE r == Seen(coalesce[i])
<1>3. r \in Waiting /\ r.first = lastFirst'
  BY <1>1, <1>2, WaitingIs DEF Seen
<1>4. \A q \in Waiting : r.first <= q.first
  <2>1. \A j \in Used : coalesce[i].first <= coalesce[j].first
    <3> TAKE j \in Used
    <3>1. coalesce[i] \in Entry /\ coalesce[j] \in Entry
      BY <1>2, EntryBounds
    <3>2. ~Older(coalesce[j], coalesce[i])
      BY <1>2, <3>1 DEF Older, Entry
    <3>3. i = j \/ Older(coalesce[i], coalesce[j])
      BY <1>2, <3>2 DEF IInv, StampsAreInOrder
    <3> QED
      BY <3>1, <3>3 DEF Older, Entry
  <2>2. \A n \in 1..Len(discrete) : coalesce[i].first <= discrete[n].first
    <3> TAKE n \in 1..Len(discrete)
    <3>1. /\ discrete \in Seq(Entry) /\ Len(discrete) \in Nat \ {0} /\ Head(discrete) = discrete[1]
          /\ 1 \in 1..Len(discrete) /\ discrete # <<>>
      BY DEF IInv, InputTypeOK
    <3>2. PICK j \in Used : ~(discrete[1].stamp < coalesce[j].stamp)
      BY <1>2, <3>1 DEF DiscreteIsOlder
    <3>3. /\ coalesce[i] \in Entry /\ coalesce[j] \in Entry /\ discrete[1] \in Entry
          /\ discrete[n] \in Entry
      BY <1>2, <3>1, EntryBounds
    <3>4. coalesce[j].first <= discrete[1].first
      <4>1. Older(coalesce[j], discrete[1])
        BY <3>1, <3>2 DEF IInv, StampsAreInOrder, Older
      <4> QED
        BY <3>3, <4>1 DEF Older, Entry
    <3>5. discrete[1].first <= discrete[n].first
      <4>1. n = 1 \/ 1 < n
        BY <3>1
      <4> QED
        BY <3>1, <3>3, <4>1 DEF IInv, StampsAreInOrder, Older, Entry
    <3>6. coalesce[i].first <= coalesce[j].first
      BY <2>1
    <3>7. /\ coalesce[i].first \in Nat /\ coalesce[j].first \in Nat
          /\ discrete[1].first \in Nat /\ discrete[n].first \in Nat
      BY <3>3 DEF Entry
    <3> QED
      BY <3>4, <3>5, <3>6, <3>7
  <2>3. \A e : Seen(e).first = e.first
    BY DEF Seen
  <2> QED
    BY <2>1, <2>2, <2>3, WaitingIs
<1>5. Waiting' = Waiting \ {r}
  <2>1. coalesce[i] \in Entry /\ coalesce'[i].stamp = 0 /\ \A j \in Slot \ {i} : coalesce'[j] = coalesce[j]
    BY <1>1, <1>2 DEF Entry
  <2>2. Used' = Used \ {i}
    BY <2>1 DEF Used
  <2>3. Waiting' = {Seen(coalesce'[j]) : j \in Used'} \union {Seen(discrete[n]) : n \in 1..Len(discrete)}
    BY <1>2 DEF Waiting, Entries, CoalescedEntries, DiscreteEntries
  <2>4. \A j \in Used \ {i} : coalesce'[j] = coalesce[j] /\ Seen(coalesce[j]) # r
    BY <1>2, <2>1, SeenApart DEF Used
  <2>5. \A n \in 1..Len(discrete) : Seen(discrete[n]) # r
    BY <1>2, SeenApart
  <2> QED
    BY <1>2, <2>2, <2>3, <2>4, <2>5, WaitingIs
<1> QED
  BY <1>2, <1>3, <1>4, <1>5 DEF Abs!AbsDeliver, Waiting, Seen

\* Slots, rings and stamps together are the ordered set of reports that the
\* protocol promises (docs/protocol.md 4): every push, every turn of the pump and
\* every clear is one of its steps or none.
THEOREM ImplementationTheorem == Spec => ImplementsInputOrder
PROOF
<1>1. Init => Abs!AbsInit
  BY DEF Init, Abs!AbsInit, Entries, CoalescedEntries, DiscreteEntries, Used, Slot, Empty
<1>2. IInv /\ [Next]_vars => [Abs!AbsNext]_(Abs!absVars)
  <2> SUFFICES ASSUME IInv, [Next]_vars PROVE [Abs!AbsNext]_(Abs!absVars)
    OBVIOUS
  <2> USE DEF Abs!AbsNext
  <2>1. ASSUME UNCHANGED <<coalesce, discrete, born, lastFirst>> PROVE UNCHANGED Abs!absVars
    BY <2>1 DEF Abs!absVars, Entries, CoalescedEntries, DiscreteEntries, Used
  <2>2. ASSUME UNCHANGED <<coalesce, discrete, lastFirst>>, Born PROVE Abs!AbsRefuse
    BY <2>2 DEF Abs!AbsRefuse, Born, Entries, CoalescedEntries, DiscreteEntries, Used
  <2>3. ASSUME NEW k \in Keys, NEW d \in Amounts, PushCoalescing(k, d)
        PROVE  Abs!AbsTurn(k, d) \/ Abs!AbsRefuse
    <3>1. CASE TurnDropped(k)
      BY <2>2, <2>3, <3>1 DEF PushCoalescing, TurnDropped
    <3> QED
      BY <2>3, <3>1, TurnHeldMaps, TurnFreshMaps DEF PushCoalescing
  <2>4. ASSUME NEW k \in Keys, PushTooLarge(k) PROVE Abs!AbsRefuse
    BY <2>2, <2>4 DEF PushTooLarge
  <2>5. ASSUME NEW len \in ControlLens, PushControl(len) PROVE UNCHANGED Abs!absVars
    BY <2>1, <2>5 DEF PushControl
  <2>6. ASSUME EmitControl PROVE UNCHANGED Abs!absVars
    BY <2>1, <2>6 DEF EmitControl
  <2>7. ASSUME Clear PROVE Abs!AbsForget
    BY <2>7 DEF Clear, Abs!AbsForget, Entries, CoalescedEntries, DiscreteEntries, Used, Slot, Empty
  <2>8. CASE UNCHANGED vars
    BY <2>1, <2>8 DEF vars, qvars, hvars
  <2> QED
    BY <2>3, <2>4, <2>5, <2>6, <2>7, <2>8, PressMaps, EmitDiscreteMaps, EmitCoalescedMaps DEF Next, Emit
<1> QED
  BY <1>1, <1>2, Invariance, PTL DEF Spec, ImplementsInputOrder, Abs!AbsSpec

-----------------------------------------------------------------------------
(* The display.                                                            *)

\* The first knob of a page.
IsPage(p) == p \in Nat /\ p % Pots = 0
KnobsAt(s, p) == {k \in Knobs : Addressed(desc, Occupied, p, k) = s}
RowBeside(knobs) == RowOf(CHOOSE k \in DigitRow(knobs) : TRUE)

\* What the interface is.
InterfaceIs ==
  /\ desc \in Layouts \union {NoLayout} /\ revision \in Nat /\ changes \in Nat
  /\ mode \in Views \union {"SURFACE"} /\ IsPage(page)
  /\ focused # Nobody => ~desc.operator /\ KnobsFor(focused) # {}

\* What is on the display are its regions; what was drawn last was of a descriptor there was.
DisplayIs(fb) ==
  /\ fb = [cells |-> fb.cells, ground |-> fb.ground, band |-> fb.band, legend |-> fb.legend]
  /\ fb.cells = [k \in Knobs |-> fb.cells[k]] /\ fb.ground = [r \in Rows |-> fb.ground[r]]
LastIs ==
  /\ last_view \in {Blank, "OVERVIEW", "DRILLED"} \union Views
  /\ last_view # Blank => last_revision \in 0..revision

\* A card is what is remembered of it; only an ordinary one may be cut.
ShownAs(shown, seen) ==
  /\ shown = [slot |-> seen.slot, role |-> seen.role, value |-> seen.value,
              chrome |-> seen.chrome, cut |-> shown.cut]
  /\ shown.cut \in BOOLEAN
  /\ shown.cut => seen.role = "ALONE" /\ ~Is(seen.slot, {"HOLD", "LIST"})

\* What is remembered of the knobs given is on the display.
RememberedIn(seen, fb, ks) ==
  \A k \in ks : seen[k] # Blank =>
    /\ ShownAs(fb.cells[k], seen[k])
    /\ seen[k].role = "LEFT" => fb.ground[RowOf(k)] = Bridge

\* What the last frame left, by the view it was of.
SettingsDrawn ==
  last_view \in Views =>
    /\ \A k \in Knobs : framebuffer.cells[k] = Blank
    /\ framebuffer.band = <<last_view>>
    /\ framebuffer.legend = <<last_view, {"BACK", "SYSTEM"}>>
OverviewDrawn ==
  last_view = "OVERVIEW" /\ was_operator = 0 /\ last_revision = revision =>
    /\ RememberedIn(last_cell, framebuffer, Knobs)
    /\ framebuffer.band = <<"STRIP", last_revision, last_page>>
    /\ framebuffer.legend = <<"OVERVIEW", last_legend>>
OperatorDrawn ==
  last_view = "OVERVIEW" /\ was_operator # 0 /\ last_revision = revision =>
    \A k \in Knobs :
      framebuffer.cells[k] =
        [slot |-> Addressed(desc, Occupied, (was_operator - 1) * Pots, k), role |-> "ALONE",
         value |-> last_plate[k][1], chrome |-> last_plate[k][2], cut |-> FALSE]
DrilledDrawn ==
  last_view = "DRILLED" /\ last_revision = revision =>
    LET row == RowBeside(KnobsAt(last_focus, last_page))
    IN /\ last_focus # Nobody /\ IsPage(last_page) /\ KnobsAt(last_focus, last_page) # {}
       /\ \A k \in KnobsOf(row) : framebuffer.cells[k] = Blank
       /\ framebuffer.ground[row] = last_readout
       /\ \E v : last_readout = <<"READOUT", last_focus, v, last_zoom>>
       /\ RememberedIn(last_cell, framebuffer, Knobs \ KnobsOf(row))
       /\ IF last_zoom THEN framebuffer.band = Banner
          ELSE \/ framebuffer.band = <<"STRIP", last_revision, last_page>>
               \/ last_focus \in desc.pinned /\ framebuffer.band # Banner
       /\ framebuffer.legend = <<"DRILLED", last_legend>>

ScreenInv ==
  /\ InterfaceIs /\ DisplayIs(framebuffer) /\ LastIs
  /\ SettingsDrawn /\ OverviewDrawn /\ OperatorDrawn /\ DrilledDrawn
  /\ ShowsWhatIs

\* There are two rows of knobs.
LEMMA RowsAre ==
  /\ Row \in Nat \ {0} /\ Pots = 2 * Row /\ Pots \in Nat \ {0} /\ Knobs = 0..(2 * Row - 1)
  /\ \A k \in Knobs : k \in Nat /\ RowOf(k) \in Rows /\ (RowOf(k) = 0 <=> k < Row)
PROOF
<1>0. Pots \in Nat \ {0} /\ Pots % 2 = 0
  BY PotsAssumption DEF PotsAssumption
<1>1. PICK p : p = Pots /\ p \in Nat \ {0} /\ p % 2 = 0
  BY <1>0
<1>2. PICK h : h = p \div 2
  OBVIOUS
<1>3. h \in Nat \ {0} /\ p = 2 * h
  BY ONLY <1>1, <1>2
<1>4. h = Row
  BY <1>1, <1>2 DEF Row
<1>5. ASSUME NEW k \in 0..(2 * h - 1)
      PROVE  k \in Nat /\ k \div h \in {0, 1} /\ (k \div h = 0 <=> k < h)
  BY ONLY <1>3, <1>5
<1> QED
  BY <1>1, <1>3, <1>4, <1>5 DEF Knobs, RowOf, Rows

\* The knobs beside those of a field are one row.
LEMMA RowBesideIs ==
  ASSUME NEW knobs
  PROVE  RowBeside(knobs) \in Rows
PROOF
<1>1. PICK h \in Nat \ {0} : h = Row
  BY RowsAre
<1>2. 0 \in 0..(h - 1) /\ h \in h..(2 * h - 1)
  BY ONLY h \in Nat \ {0}
<1>3. 0..(h - 1) \subseteq 0..(2 * h - 1) /\ h..(2 * h - 1) \subseteq 0..(2 * h - 1)
  BY ONLY h \in Nat \ {0}
<1>4. DigitRow(knobs) \subseteq Knobs /\ \E k \in DigitRow(knobs) : TRUE
  BY <1>1, <1>2, <1>3, RowsAre DEF DigitRow
<1>5. (CHOOSE k \in DigitRow(knobs) : TRUE) \in Knobs
  BY <1>4
<1> QED
  BY <1>5, RowsAre DEF RowBeside

\* Of two pages that hold one slot, each is the other.
LEMMA OnePage ==
  ASSUME NEW p, IsPage(p), NEW q, IsPage(q), NEW s \in Int,
         p <= s, s < p + Pots, q <= s, s < q + Pots
  PROVE  p = q
PROOF
<1>1. PICK n \in Nat \ {0} : n = Pots
  BY RowsAre
<1>2. PICK x \in Nat, y \in Nat : x = p /\ y = q /\ x % n = 0 /\ y % n = 0
  BY <1>1 DEF IsPage
<1>3. PICK a, b : a = x \div n /\ b = y \div n
  OBVIOUS
<1>4. a \in Nat /\ b \in Nat /\ x = n * a /\ y = n * b
  BY ONLY <1>2, <1>3, n \in Nat \ {0}, x \in Nat, y \in Nat
<1>5. n * a <= s /\ s < n * a + n /\ n * b <= s /\ s < n * b + n
  BY <1>1, <1>2, <1>4
<1>6. ASSUME NEW c \in Nat, NEW d \in Nat, c < d
      PROVE  n * c + n <= n * d
  <2>1. c + 1 <= d
    BY <1>6
  <2>2. n * (c + 1) <= n * d
    BY ONLY <2>1, n \in Nat \ {0}, c \in Nat, d \in Nat
  <2> QED
    BY <2>2
<1>7. ~(a < b) /\ ~(b < a)
  <2>1. n * a \in Int /\ n * b \in Int
    BY <1>4
  <2> QED
    BY <1>4, <1>5, <1>6, <2>1
<1>8. a = b
  BY <1>4, <1>7
<1> QED
  BY <1>2, <1>4, <1>8

\* A finite set of numbers that is not empty has a largest one.
LEMMA Largest ==
  ASSUME NEW S \in SUBSET Nat, IsFiniteSet(S), S # {}
  PROVE  \E x \in S : \A y \in S : y <= x
PROOF
<1> DEFINE Bad == {T \in SUBSET S : T # {} /\ \A x \in T : \E y \in T : ~(y <= x)}
           Sizes == {n \in Nat : \E T \in Bad : Cardinality(T) = n}
<1> SUFFICES ASSUME S \in Bad PROVE FALSE
  OBVIOUS
<1>1. Cardinality(S) \in Sizes
  BY FS_CardinalityType
<1>2. PICK n \in Sizes : \A m \in Sizes : ~(m < n)
  <2>1. PICK n \in Sizes : \A m \in Sizes : ~(<<m, n>> \in OpToRel(<, Nat))
    BY <1>1, NatLessThanWellFounded, WFMin, Sizes \subseteq Nat
  <2> QED
    BY <2>1 DEF OpToRel
<1>3. PICK T \in Bad : Cardinality(T) = n
  OBVIOUS
<1>4. IsFiniteSet(T)
  BY FS_Subset
<1>5. PICK x \in T : TRUE
  OBVIOUS
<1> DEFINE R == T \ {x}
<1>6. IsFiniteSet(R) /\ Cardinality(R) = n - 1 /\ n \in Nat
  BY <1>3, <1>4, <1>5, FS_RemoveElement
<1>7. R # {}
  BY <1>5
<1>8. R \notin Bad
  <2>1. n - 1 \in Nat
    BY <1>6, FS_CardinalityType
  <2>2. n - 1 \notin Sizes
    BY <1>2, <2>1
  <2> QED
    BY <2>1, <2>2, <1>6
<1>9. PICK y \in R : \A z \in R : z <= y
  BY <1>7, <1>8
<1> QED
  BY <1>9, <1>5
\* Such a number is what Max gives.
LEMMA MaxIs ==
  ASSUME NEW S \in SUBSET Nat, IsFiniteSet(S), S # {}
  PROVE  Sets!Max(S) \in S
  BY Largest DEF Sets!Max

\* The span of a set is past a member of it.
LEMMA SpanIs ==
  ASSUME NEW S \in SUBSET Nat, IsFiniteSet(S), S # {}
  PROVE  \E m \in Nat : SpanOf(S) = m + 1
PROOF
<1>1. Sets!Max(S) \in S
  BY MaxIs
<1>2. SpanOf(S) = Sets!Max(S) + 1
  BY DEF SpanOf, Sets!Max
<1> QED
  BY <1>1, <1>2

\* The fields of a descriptor are at finitely many slots.
LEMMA OccupiedIs ==
  ASSUME NEW d \in Layouts \union {NoLayout}
  PROVE  /\ DOMAIN d.kinds \in SUBSET Nat /\ IsFiniteSet(DOMAIN d.kinds)
         /\ d.operator \in BOOLEAN /\ d.pinned \subseteq 0..(Row - 1)
PROOF
<1>1. CASE d \in Layouts
  <2>1. IsFiniteSet(DOMAIN d.kinds) /\ d.operator \in BOOLEAN /\ d.pinned \subseteq 0..(Row - 1)
    BY <1>1, ScreenAssumption DEF ScreenAssumption
  <2>2. \A s \in DOMAIN d.kinds : s \in Nat
    BY <1>1, ScreenAssumption DEF ScreenAssumption
  <2> QED
    BY <2>1, <2>2
<1>2. CASE d = NoLayout
  <2>1. d.operator = FALSE /\ d.pinned = {} /\ DOMAIN d.kinds = {}
    BY <1>2 DEF NoLayout
  <2> QED
    BY <2>1, FS_EmptySet
<1> QED
  BY <1>1, <1>2

\* Pages begin at multiples of the page size.
LEMMA PagesAre ==
  /\ IsPage(0) /\ IsPage(Pots)
  /\ \A n \in Nat : IsPage((n \div Pots) * Pots) /\ IsPage(PageOf(n))
  /\ \A S \in SUBSET Nat : IsFiniteSet(S) => IsPage(LastPageOf(S))
PROOF
<1>1. PICK p \in Nat \ {0} : p = Pots
  BY RowsAre
<1>2. /\ 0 % p = 0 /\ p % p = 0
      /\ \A n \in Nat : (n \div p) * p \in Nat /\ ((n \div p) * p) % p = 0
  <2>1. ASSUME NEW n \in Nat, NEW a, a = n \div p
        PROVE  a * p \in Nat /\ (a * p) % p = 0
    <3>1. a \in Nat
      BY ONLY <2>1, p \in Nat \ {0}
    <3>2. PICK b \in Nat : b = a * p
      BY <3>1
    <3> QED
      BY ONLY <3>1, <3>2, p \in Nat \ {0}
  <2> QED
    BY <2>1
<1>3. /\ IsPage(0) /\ IsPage(Pots)
      /\ \A n \in Nat : IsPage((n \div Pots) * Pots) /\ IsPage(PageOf(n))
  BY <1>1, <1>2 DEF IsPage, PageOf
<1>4. ASSUME NEW S \in SUBSET Nat, IsFiniteSet(S)
      PROVE  IsPage(LastPageOf(S))
  <2>1. CASE S = {}
    BY <1>3, <2>1 DEF LastPageOf
  <2>2. CASE S # {}
    <3>1. PICK m \in Nat : SpanOf(S) = m + 1
      BY <1>4, <2>2, SpanIs
    <3>2. SpanOf(S) - 1 = m
      BY <3>1
    <3>3. LastPageOf(S) = (m \div Pots) * Pots
      BY <2>2, <3>2 DEF LastPageOf
    <3> QED
      BY <1>3, <3>3
  <2> QED
    BY <2>1, <2>2
<1> QED
  BY <1>3, <1>4

\* A knob of a page shows a slot of it, or the slot it is pinned to.
LEMMA ShownOn ==
  ASSUME NEW d \in Layouts \union {NoLayout}, ~d.operator, NEW p, IsPage(p), NEW k \in Knobs,
         NEW s, s = Addressed(d, DOMAIN d.kinds, p, k), s # Nobody
  PROVE  s \in Nat /\ IF s \in d.pinned THEN k = s ELSE p <= s /\ s < p + Pots
PROOF
<1>1. PICK n \in Nat \ {0}, h \in Nat \ {0} : n = Pots /\ h = Row /\ n = 2 * h
  BY RowsAre
<1>2. PICK o : o = DOMAIN d.kinds
  OBVIOUS
<1>3. o \in SUBSET Nat /\ IsFiniteSet(o) /\ d.pinned \subseteq 0..(h - 1)
  BY <1>1, <1>2, OccupiedIs
<1>4. p \in Nat /\ k \in 0..(n - 1)
  BY <1>1 DEF IsPage, Knobs
<1>5. PICK here : here = OnPageOf(o, p)
  OBVIOUS
<1>6. \A t \in here : t \in o /\ p <= t /\ t < p + n
  BY <1>1, <1>5 DEF OnPageOf
<1>7. PICK packed : packed = {t \in here : Cardinality({u \in here : u < t}) = k - Row}
  OBVIOUS
<1>8. packed # {} => Sets!Max(packed) \in packed
  <2>1. packed \subseteq o
    BY <1>6, <1>7
  <2> QED
    BY <1>3, <2>1, FS_Subset, MaxIs
<1>9. s = IF d.pinned # {} /\ k \in d.pinned THEN k
          ELSE IF d.pinned # {} \/ Cardinality(here) > Row
            THEN IF p + k \in o THEN p + k ELSE Nobody
          ELSE IF k >= Row /\ packed # {} THEN Sets!Max(packed) ELSE Nobody
  BY <1>2, <1>5, <1>7, Zenon DEF Addressed
<1>10. CASE d.pinned # {} /\ k \in d.pinned
  BY <1>4, <1>9, <1>10
<1>11. CASE ~(d.pinned # {} /\ k \in d.pinned) /\ (d.pinned # {} \/ Cardinality(here) > Row)
  <2>1. s = p + k
    BY <1>9, <1>11
  <2>2. s \in Nat /\ p <= s /\ s < p + n
    BY ONLY <1>4, <2>1, n \in Nat \ {0}
  <2>3. CASE s \in d.pinned
    <3>1. s < n
      BY <1>1, <1>3, <2>3
    <3>2. 0 = p
      BY <1>1, <2>2, <3>1, OnePage, PagesAre
    <3> QED
      BY <1>4, <1>11, <2>1, <2>3, <3>2
  <2> QED
    BY <1>1, <2>2, <2>3
<1>12. CASE d.pinned = {} /\ ~(Cardinality(here) > Row)
  <2>1. s \in packed
    BY <1>8, <1>9, <1>12
  <2> QED
    BY <1>1, <1>3, <1>6, <1>7, <1>12, <2>1
<1> QED
  BY <1>10, <1>11, <1>12

\* A field that is shown on two pages is one with its knob pinned, under that knob on both.
LEMMA SameKnobs ==
  ASSUME desc \in Layouts \union {NoLayout}, ~desc.operator,
         NEW p, IsPage(p), NEW q, IsPage(q),
         NEW s, s # Nobody, KnobsAt(s, p) # {}, KnobsAt(s, q) # {}
  PROVE  KnobsAt(s, p) = KnobsAt(s, q) /\ (p = q \/ s \in desc.pinned)
PROOF
<1>1. PICK k \in Knobs : s = Addressed(desc, DOMAIN desc.kinds, p, k)
  BY DEF KnobsAt, Occupied
<1>2. PICK j \in Knobs : s = Addressed(desc, DOMAIN desc.kinds, q, j)
  BY DEF KnobsAt, Occupied
<1>3. s \in Nat /\ (s \notin desc.pinned => p <= s /\ s < p + Pots /\ q <= s /\ s < q + Pots)
  BY <1>1, <1>2, ShownOn
<1>4. CASE s \notin desc.pinned
  BY <1>3, <1>4, OnePage
<1>5. CASE s \in desc.pinned
  <2>1. KnobsAt(s, p) \subseteq {s} /\ KnobsAt(s, q) \subseteq {s}
    BY <1>5, ShownOn DEF KnobsAt, Occupied
  <2> QED
    BY <1>5, <2>1
<1> QED
  BY <1>4, <1>5

\* The painter of the band leaves the other regions alone.
LEMMA BandIsDrawn ==
  ASSUME NEW fb, DisplayIs(fb), NEW ink, NEW d, d = [fb EXCEPT !.band = ink]
  PROVE  DisplayIs(d) /\ d.cells = fb.cells /\ d.ground = fb.ground /\ d.legend = fb.legend
         /\ d.band = ink
  BY DEF DisplayIs

\* So does that of the legend.
LEMMA LegendIsDrawn ==
  ASSUME NEW fb, DisplayIs(fb), NEW ink, NEW d, d = [fb EXCEPT !.legend = ink]
  PROVE  DisplayIs(d) /\ d.cells = fb.cells /\ d.ground = fb.ground /\ d.band = fb.band
         /\ d.legend = ink
  BY DEF DisplayIs

\* A view with a layout of its own leaves nothing of the cards.
LEMMA FillIs ==
  ASSUME NEW ink
  PROVE  /\ DisplayIs(ClearScreen) /\ DisplayIs(Fill(ink)) /\ Fill(ink).band = ink
         /\ \A k \in Knobs : Fill(ink).cells[k] = Blank
PROOF
<1>1. DisplayIs(ClearScreen) /\ \A k \in Knobs : ClearScreen.cells[k] = Blank
  BY DEF DisplayIs, ClearScreen
<1>2. PICK c, g : c = ClearScreen /\ g = [r \in Rows |-> ink]
  OBVIOUS
<1>3. Fill(ink) = [c EXCEPT !.ground = g, !.band = ink]
  BY <1>2 DEF Fill
<1>4. Fill(ink) = [cells |-> c.cells, ground |-> g, band |-> ink, legend |-> c.legend]
  BY <1>1, <1>2, <1>3 DEF DisplayIs
<1>5. DisplayIs(Fill(ink))
  BY <1>1, <1>2, <1>4 DEF DisplayIs
<1> QED
  BY <1>1, <1>2, <1>4, <1>5

\* The legend says what the buttons do, drawn now or as last drawn.
LEMMA LegendSays ==
  ASSUME NEW fb, DisplayIs(fb), NEW full \in BOOLEAN,
         ~full => fb.legend = <<View, last_legend>>, NEW d, d = DrawLegend(fb, full)
  PROVE  DisplayIs(d) /\ d.cells = fb.cells /\ d.ground = fb.ground /\ d.band = fb.band
         /\ d.legend = Legend
PROOF
<1>1. CASE full \/ last_legend # Acting
  BY <1>1, LegendIsDrawn DEF DrawLegend
<1>2. CASE ~full /\ last_legend = Acting
  BY <1>2 DEF DrawLegend, Legend
<1> QED
  BY <1>1, <1>2

\* The readout is put on the ground of its row.
LEMMA ReadoutIs ==
  ASSUME NEW fb, DisplayIs(fb), NEW rebuild \in BOOLEAN, NEW d, d = RenderReadout(fb, rebuild)
  PROVE  /\ DisplayIs(d) /\ d.band = fb.band /\ d.legend = fb.legend
         /\ d.ground[ReadoutRow] = Readout
         /\ \A r \in Rows : r # ReadoutRow => d.ground[r] = fb.ground[r]
         /\ \A k \in Knobs : d.cells[k] = IF rebuild /\ RowOf(k) = ReadoutRow THEN Blank
                                          ELSE fb.cells[k]
PROOF
<1>1. ReadoutRow \in Rows
  BY RowBesideIs DEF ReadoutRow, RowBeside
<1>2. PICK c, g : /\ c = [k \in Knobs |-> IF rebuild /\ RowOf(k) = ReadoutRow THEN Blank
                                         ELSE fb.cells[k]]
                  /\ g = [fb.ground EXCEPT ![ReadoutRow] = Readout]
  OBVIOUS
<1>3. d = [fb EXCEPT !.cells = c, !.ground = g]
  BY <1>2 DEF RenderReadout
<1>4. d = [cells |-> c, ground |-> g, band |-> fb.band, legend |-> fb.legend]
  BY <1>3 DEF DisplayIs
<1>5. /\ c = [k \in Knobs |-> c[k]] /\ g = [r \in Rows |-> g[r]]
      /\ g[ReadoutRow] = Readout /\ \A r \in Rows : r # ReadoutRow => g[r] = fb.ground[r]
  BY <1>1, <1>2 DEF DisplayIs
<1> QED
  BY <1>2, <1>4, <1>5 DEF DisplayIs

\* A card that was as remembered is as it is to be: drawn anew, or in the parts that changed; cut
\* only where nothing restores its chrome.
LEMMA CardIsDrawn ==
  ASSUME NEW k \in Knobs, NEW full \in BOOLEAN, NEW shown,
         ~full /\ last_cell[k] # Blank => ShownAs(shown, last_cell[k])
  PROVE  ShownAs(DrawCell(shown, k, full), Looks(k))
PROOF
<1>1. CASE Anew(k, full)
  <2>1. DrawCell(shown, k, full) = Card(k)
    BY <1>1 DEF DrawCell
  <2>2. PICK s, o, v, c : s = FieldFor(k) /\ o = Role(k) /\ v = Value(s) /\ c = Chrome(k)
    OBVIOUS
  <2>3. Card(k) = [slot |-> s, role |-> o, value |-> v, chrome |-> c, cut |-> FALSE]
    BY <2>2 DEF Card
  <2>4. Looks(k) = [slot |-> s, role |-> o, value |-> v, chrome |-> c]
    BY <2>2 DEF Looks
  <2> QED
    BY <2>1, <2>3, <2>4 DEF ShownAs
<1>2. CASE ~Anew(k, full)
  <2>1. ~SDirty(k, full)
    BY <1>2 DEF Anew
  <2>2. PICK l : l = last_cell[k]
    OBVIOUS
  <2>3. /\ ~full /\ l # Blank /\ ShownAs(shown, l)
        /\ l.slot = FieldFor(k) /\ l.role = Role(k)
    BY <2>1, <2>2 DEF SDirty
  <2>4. PICK v, c : v = Value(FieldFor(k)) /\ c = Chrome(k)
    OBVIOUS
  <2>5. PICK vd \in BOOLEAN, rs \in BOOLEAN :
          (vd <=> VDirty(k, full)) /\ (rs <=> Restores(k, full))
    BY Zenon
  <2>6. (~vd => l.value = v) /\ (~rs => l.chrome = c)
    BY <2>2, <2>4, <2>5 DEF VDirty, Restores, CDirty
  <2>7. vd /\ ~rs => Role(k) = "ALONE" /\ ~Is(FieldFor(k), {"HOLD", "LIST"})
    BY <2>5 DEF Restores
  <2>8. PICK d : d = DrawCell(shown, k, full)
    OBVIOUS
  <2>9. d = [slot |-> FieldFor(k), role |-> Role(k), value |-> v, chrome |-> c,
             cut |-> IF rs THEN FALSE ELSE shown.cut \/ vd]
    <3>1. d = [shown EXCEPT !.value = IF vd THEN v ELSE @, !.chrome = IF rs THEN c ELSE @,
                            !.cut = IF rs THEN FALSE ELSE @ \/ vd]
      BY <1>2, <2>4, <2>5, <2>8, Zenon DEF DrawCell
    <3>2. PICK x : x = shown.cut
      OBVIOUS
    <3>3. PICK y : y = IF rs THEN FALSE ELSE x \/ vd
      OBVIOUS
    <3>4. d = [shown EXCEPT !.value = IF vd THEN v ELSE shown.value,
                            !.chrome = IF rs THEN c ELSE shown.chrome, !.cut = y]
      BY <3>1, <3>2, <3>3
    <3>5. shown = [slot |-> l.slot, role |-> l.role, value |-> l.value, chrome |-> l.chrome,
                   cut |-> x]
      BY <2>3, <3>2 DEF ShownAs
    <3>6. d = [slot |-> l.slot, role |-> l.role, value |-> v, chrome |-> c, cut |-> y]
      BY <2>6, <3>4, <3>5
    <3> QED
      BY <2>3, <3>2, <3>3, <3>6
  <2>10. Looks(k) = [slot |-> FieldFor(k), role |-> Role(k), value |-> v, chrome |-> c]
    BY <2>4 DEF Looks
  <2>11. d.cut \in BOOLEAN /\ (d.cut => Role(k) = "ALONE" /\ ~Is(FieldFor(k), {"HOLD", "LIST"}))
    BY <2>3, <2>7, <2>9 DEF ShownAs
  <2>12. PICK w : w = Looks(k)
    OBVIOUS
  <2>13. w.slot = FieldFor(k) /\ w.role = Role(k) /\ w.value = v /\ w.chrome = c
    BY <2>10, <2>12
  <2>14. d = [slot |-> w.slot, role |-> w.role, value |-> w.value, chrome |-> w.chrome,
              cut |-> d.cut]
    BY <2>9, <2>13
  <2>15. ShownAs(d, w)
    BY <2>11, <2>13, <2>14 DEF ShownAs
  <2> QED
    BY <2>8, <2>12, <2>15
<1> QED
  BY <1>1, <1>2

\* The cards given are as they are to be, and the panels among them on their bridges.
LooksIn(fb, ks) ==
  \A k \in ks : /\ ShownAs(fb.cells[k], Looks(k))
                /\ Role(k) = "LEFT" => fb.ground[RowOf(k)] = Bridge

\* So they are once rendered, if they were as remembered.
LEMMA CellsAreRendered ==
  ASSUME NEW fb, DisplayIs(fb), NEW full \in BOOLEAN, NEW ks \in SUBSET Knobs,
         ~full => RememberedIn(last_cell, fb, ks), NEW d, d = RenderCells(fb, full, ks)
  PROVE  /\ DisplayIs(d) /\ d.band = fb.band /\ d.legend = fb.legend /\ LooksIn(d, ks)
         /\ \A k \in Knobs \ ks : d.cells[k] = fb.cells[k]
         /\ \A r \in Rows : ks \intersect KnobsOf(r) = {} => d.ground[r] = fb.ground[r]
PROOF
<1>1. PICK c, g :
        /\ c = [k \in Knobs |-> IF k \in ks THEN DrawCell(fb.cells[k], k, full) ELSE fb.cells[k]]
        /\ g = [r \in Rows |->
                  IF \E k \in ks \cap KnobsOf(r) : Role(k) = "LEFT" /\ Anew(k, full)
                    THEN Bridge ELSE fb.ground[r]]
  OBVIOUS
<1>2. d = [fb EXCEPT !.cells = c, !.ground = g]
  BY <1>1, Zenon DEF RenderCells
<1>3. d = [cells |-> c, ground |-> g, band |-> fb.band, legend |-> fb.legend]
  BY <1>2 DEF DisplayIs
<1>4. c = [k \in Knobs |-> c[k]] /\ g = [r \in Rows |-> g[r]]
  BY <1>1
<1>5. ASSUME NEW k \in ks PROVE ShownAs(c[k], Looks(k))
  <2>1. c[k] = DrawCell(fb.cells[k], k, full)
    BY <1>1
  <2> QED
    BY <2>1, CardIsDrawn DEF RememberedIn
<1>6. ASSUME NEW k \in ks, Role(k) = "LEFT" PROVE g[RowOf(k)] = Bridge
  <2>1. RowOf(k) \in Rows /\ k \in KnobsOf(RowOf(k))
    BY RowsAre DEF KnobsOf
  <2>2. CASE Anew(k, full)
    BY <1>1, <1>6, <2>1, <2>2
  <2>3. CASE ~Anew(k, full)
    <3>1. ~full /\ last_cell[k] # Blank /\ last_cell[k].role = "LEFT"
      BY <1>6, <2>3 DEF Anew, SDirty
    <3>2. fb.ground[RowOf(k)] = Bridge
      BY <3>1 DEF RememberedIn
    <3> QED
      BY <1>1, <2>1, <3>2
  <2> QED
    BY <2>2, <2>3
<1>7. \A r \in Rows : ks \intersect KnobsOf(r) = {} => g[r] = fb.ground[r]
  BY <1>1
<1>8. d.cells = c /\ d.ground = g /\ d.band = fb.band /\ d.legend = fb.legend
  BY <1>3
<1>9. DisplayIs(d)
  BY <1>3, <1>4, <1>8 DEF DisplayIs
<1>10. LooksIn(d, ks)
  BY <1>5, <1>6, <1>8 DEF LooksIn
<1>11. \A k \in Knobs \ ks : c[k] = fb.cells[k]
  BY <1>1
<1> QED
  BY <1>7, <1>8, <1>9, <1>10, <1>11

\* What was considered and is not forgotten is remembered as it is on the display.
LEMMA Remembering ==
  ASSUME NEW fb, NEW ks, LooksIn(fb, ks),
         NEW seen, \A k \in ks : seen[k] \in {Blank, Looks(k)}
  PROVE  RememberedIn(seen, fb, ks)
PROOF
<1> SUFFICES ASSUME NEW k \in ks, seen[k] = Looks(k)
             PROVE  /\ ShownAs(fb.cells[k], seen[k])
                    /\ seen[k].role = "LEFT" => fb.ground[RowOf(k)] = Bridge
  BY DEF RememberedIn
<1>1. Looks(k).role = Role(k)
  BY DEF Looks
<1> QED
  BY <1>1 DEF LooksIn

\* The views there are.
LEMMA ViewsAre ==
  ASSUME InterfaceIs
  PROVE  /\ View \in {"OVERVIEW", "DRILLED"} \union Views /\ View # Blank
         /\ View \in Views => View = mode /\ View # "OVERVIEW" /\ View # "DRILLED"
         /\ mode # "SURFACE" => View \in Views
         /\ View = "DRILLED" => focused # Nobody /\ ~desc.operator /\ OperatorPage = 0 /\ mode = "SURFACE"
         /\ View = "OVERVIEW" => focused = Nobody /\ mode = "SURFACE"
PROOF
<1>1. mode \in Views \union {"SURFACE"} /\ (focused # Nobody => ~desc.operator)
  BY DEF InterfaceIs
<1>2. /\ Blank \notin {"OVERVIEW", "DRILLED"} \union Views
      /\ Views \intersect {"SURFACE", "OVERVIEW", "DRILLED"} = {}
  BY ScreenAssumption DEF ScreenAssumption
<1>3. ~desc.operator => OperatorPage = 0
  BY DEF OperatorPage
<1> QED
  BY <1>1, <1>2, <1>3 DEF View

\* What a display is to show.
CardsIn(fb) ==
  \A k \in Knobs :
    IF View \in Views \/ (View = "DRILLED" /\ RowOf(k) = ReadoutRow) THEN fb.cells[k] = Blank
    ELSE ShownAs(fb.cells[k], Looks(k))
GroundIn(fb) ==
  \A r \in Rows :
    IF View = "DRILLED" /\ r = ReadoutRow THEN fb.ground[r] = Readout
    ELSE Grid2 /\ HasPanel(r) => fb.ground[r] = Bridge
BandIn(fb) ==
  /\ View = "OVERVIEW" /\ OperatorPage = 0 => fb.band = Strip
  /\ View = "DRILLED" =>
       IF zoom_held THEN fb.band = Banner
       ELSE fb.band = Strip \/ (focused \in desc.pinned /\ fb.band # Banner)
  /\ View \in Views => fb.band = <<mode>>
  /\ OperatorPage = 0 \/ View \in Views => fb.legend = Legend

\* What belongs on the display is the interface's alone.
LEMMA ShownAlike ==
  ASSUME UNCHANGED interface
  PROVE  /\ View' = View /\ ReadoutRow' = ReadoutRow /\ OperatorPage' = OperatorPage
         /\ Readout' = Readout /\ Strip' = Strip /\ Legend' = Legend /\ Grid2' = Grid2
         /\ \A k : Card(k)' = Card(k)
         /\ \A r : HasPanel(r)' = HasPanel(r)
         /\ \A s, kinds : Is(s, kinds)' = Is(s, kinds)
PROOF
<1>1. /\ desc' = desc /\ revision' = revision /\ values' = values /\ mode' = mode /\ page' = page
      /\ focused' = focused /\ zoom_held' = zoom_held /\ lit' = lit /\ hand' = hand
  BY DEF interface
<1>2. View' = View /\ OperatorPage' = OperatorPage /\ Occupied' = Occupied
  BY <1>1 DEF View, OperatorPage, Occupied
<1>3. \A k : FieldFor(k)' = FieldFor(k)
  BY <1>1, <1>2 DEF FieldFor
<1>4. \A s : KnobsFor(s)' = KnobsFor(s)
  BY <1>3 DEF KnobsFor
<1>5. ReadoutRow' = ReadoutRow
  BY <1>1, <1>4 DEF ReadoutRow
<1>6. \A k : Role(k)' = Role(k)
  BY <1>1, <1>3 DEF Role, Joined
<1>7. \A k : Card(k)' = Card(k)
  BY <1>1, <1>2, <1>3, <1>6 DEF Card, Value, Chrome
<1>8. Acting' = Acting
  BY <1>1, <1>2 DEF Acting, Is
<1>9. Readout' = Readout /\ Strip' = Strip /\ Legend' = Legend /\ Grid2' = Grid2
  BY <1>1, <1>2, <1>8 DEF Readout, Strip, Legend, Grid2
<1>10. \A r : HasPanel(r)' = HasPanel(r)
  BY <1>6 DEF HasPanel
<1> QED
  BY <1>1, <1>2, <1>5, <1>7, <1>9, <1>10 DEF Is

\* A frame that shows it leaves the interface as it is shown.
LEMMA FrameShows ==
  ASSUME UNCHANGED interface,
         NEW fb, fb = framebuffer', CardsIn(fb), GroundIn(fb), BandIn(fb)
  PROVE  ShowsWhatIs'
PROOF
<1>1. desc' = desc /\ mode' = mode /\ focused' = focused /\ zoom_held' = zoom_held
  BY DEF interface
<1>2. /\ View' = View /\ ReadoutRow' = ReadoutRow /\ OperatorPage' = OperatorPage
      /\ Readout' = Readout /\ Strip' = Strip /\ Legend' = Legend /\ Grid2' = Grid2
      /\ \A k : Card(k)' = Card(k)
      /\ \A r : HasPanel(r)' = HasPanel(r)
      /\ \A s, kinds : Is(s, kinds)' = Is(s, kinds)
  BY ShownAlike
<1>3. CardsAreCurrent'
  <2> SUFFICES ASSUME NEW k \in Knobs
               PROVE  IF View \in Views \/ (View = "DRILLED" /\ RowOf(k) = ReadoutRow)
                        THEN fb.cells[k] = Blank
                      ELSE /\ [fb.cells[k] EXCEPT !.cut = FALSE] = Card(k)
                           /\ fb.cells[k].cut => fb.cells[k].role = "ALONE"
                                                 /\ ~Is(fb.cells[k].slot, {"HOLD", "LIST"})
    BY <1>2 DEF CardsAreCurrent
  <2>1. CASE View \in Views \/ (View = "DRILLED" /\ RowOf(k) = ReadoutRow)
    BY <2>1 DEF CardsIn
  <2>2. CASE ~(View \in Views \/ (View = "DRILLED" /\ RowOf(k) = ReadoutRow))
    <3>1. PICK d, w : d = fb.cells[k] /\ w = Looks(k)
      OBVIOUS
    <3>2. ShownAs(d, w)
      BY <2>2, <3>1 DEF CardsIn
    <3>3. /\ w.slot = FieldFor(k) /\ w.role = Role(k) /\ w.value = Value(FieldFor(k))
          /\ w.chrome = Chrome(k)
      BY <3>1 DEF Looks
    <3>4. PICK t : t = d.cut
      OBVIOUS
    <3>5. d = [slot |-> w.slot, role |-> w.role, value |-> w.value, chrome |-> w.chrome, cut |-> t]
      BY <3>2, <3>4 DEF ShownAs
    <3>6. [d EXCEPT !.cut = FALSE] = [slot |-> w.slot, role |-> w.role, value |-> w.value,
                                      chrome |-> w.chrome, cut |-> FALSE]
      <4>1. PICK a, b, c, e : a = w.slot /\ b = w.role /\ c = w.value /\ e = w.chrome
        OBVIOUS
      <4>2. \A x, y : [[slot |-> a, role |-> b, value |-> c, chrome |-> e, cut |-> x]
                         EXCEPT !.cut = y]
                      = [slot |-> a, role |-> b, value |-> c, chrome |-> e, cut |-> y]
        OBVIOUS
      <4> QED
        BY ONLY <3>5, <4>1, <4>2, Zenon
    <3>7. [d EXCEPT !.cut = FALSE] = Card(k)
      BY <3>3, <3>6 DEF Card
    <3>8. d.slot = w.slot /\ d.role = w.role
      BY <3>5
    <3>9. d.cut => d.role = "ALONE" /\ ~Is(d.slot, {"HOLD", "LIST"})
      BY <3>2, <3>8 DEF ShownAs
    <3> QED
      BY <2>2, <3>1, <3>7, <3>9
  <2> QED
    BY <2>1, <2>2
<1>4. GroundIsCurrent'
  BY <1>2 DEF GroundIsCurrent, GroundIn
<1>5. BandIsCurrent'
  BY <1>1, <1>2 DEF BandIsCurrent, BandIn, Banner
<1> QED
  BY <1>3, <1>4, <1>5 DEF ShowsWhatIs

\* A settings view is drawn whole, or is as it was.
LEMMA SettingsAreShown ==
  ASSUME ScreenInv, FrameSettings, last_view' = View, UNCHANGED interface
  PROVE  DisplayIs(framebuffer') /\ SettingsDrawn' /\ ShowsWhatIs'
PROOF
<1>1. View \in Views /\ View = mode /\ View # "OVERVIEW" /\ View # "DRILLED"
  BY ViewsAre DEF ScreenInv, FrameSettings
<1>2. Acting = {"BACK", "SYSTEM"}
  BY DEF Acting, FrameSettings
<1>3. PICK fb : fb = framebuffer'
  OBVIOUS
<1>4. /\ DisplayIs(fb) /\ \A k \in Knobs : fb.cells[k] = Blank
      /\ fb.band = <<mode>> /\ fb.legend = Legend
  <2>1. CASE Full
    <3>1. PICK g : g = Fill(<<mode>>)
      OBVIOUS
    <3>2. fb = [g EXCEPT !.legend = Legend]
      BY <1>3, <2>1, <3>1 DEF FrameSettings
    <3> QED
      BY <3>1, <3>2, FillIs, LegendIsDrawn
  <2>2. CASE ~Full
    <3>1. fb = framebuffer /\ last_view = View
      BY <1>3, <2>2 DEF FrameSettings, Full
    <3> QED
      BY <1>1, <1>2, <3>1 DEF ScreenInv, SettingsDrawn, Legend
  <2> QED
    BY <2>1, <2>2
<1>5. SettingsDrawn'
  BY <1>1, <1>2, <1>3, <1>4 DEF SettingsDrawn, Legend
<1>6. CardsIn(fb)
  BY <1>1, <1>4 DEF CardsIn
<1>7. GroundIn(fb)
  BY <1>1 DEF GroundIn, Grid2
<1>8. BandIn(fb)
  BY <1>1, <1>4 DEF BandIn
<1> QED
  BY <1>3, <1>4, <1>5, <1>6, <1>7, <1>8, FrameShows

\* What is forgotten or has been considered.
LEMMA ForgottenIs ==
  ASSUME NEW ks \in SUBSET Knobs, last_cell' = Forgotten(Remembered(ks))
  PROVE  \A k \in ks : last_cell'[k] \in {Blank, Looks(k)}
  BY DEF Forgotten, Remembered

\* The grid of all fields.
LEMMA OverviewIsShown ==
  ASSUME ScreenInv, FrameOverview, last_view' = View, last_revision' = revision,
         UNCHANGED interface
  PROVE  DisplayIs(framebuffer') /\ OverviewDrawn' /\ ShowsWhatIs'
PROOF
<1>1. View = "OVERVIEW" /\ OperatorPage = 0 /\ View \notin Views
  BY ViewsAre DEF ScreenInv, FrameOverview
<1>2. PICK full \in BOOLEAN : full <=> Full \/ was_operator # 0
  BY Zenon
<1>3. PICK base : base = IF full THEN ClearScreen ELSE framebuffer
  OBVIOUS
<1>4. PICK banded : banded = IF full \/ last_page # page THEN DrawStrip(base) ELSE base
  OBVIOUS
<1>5. PICK legend : legend = DrawLegend(banded, full)
  OBVIOUS
<1>6. PICK fb : fb = framebuffer' /\ fb = RenderCells(legend, full, Knobs)
  BY <1>2, <1>3, <1>4, <1>5 DEF FrameOverview
<1>7. ~full => last_view = "OVERVIEW" /\ was_operator = 0 /\ last_revision = revision
  BY <1>1, <1>2 DEF Full
<1>8. /\ DisplayIs(base)
      /\ ~full => /\ RememberedIn(last_cell, base, Knobs)
                  /\ base.band = <<"STRIP", last_revision, last_page>>
                  /\ base.legend = <<View, last_legend>>
  BY <1>1, <1>3, <1>7, FillIs DEF ScreenInv, OverviewDrawn
<1>9. /\ DisplayIs(banded) /\ banded.cells = base.cells /\ banded.ground = base.ground
      /\ banded.legend = base.legend /\ banded.band = Strip
  <2>1. CASE full \/ last_page # page
    <3>1. banded = [base EXCEPT !.band = Strip]
      BY <1>4, <2>1 DEF DrawStrip
    <3> QED
      BY <1>8, <3>1, BandIsDrawn
  <2>2. CASE ~(full \/ last_page # page)
    <3>1. banded = base /\ ~full /\ last_page = page
      BY <1>4, <2>2
    <3> QED
      BY <1>7, <1>8, <3>1 DEF Strip
  <2> QED
    BY <2>1, <2>2
<1>10. /\ DisplayIs(legend) /\ legend.cells = base.cells /\ legend.ground = base.ground
       /\ legend.band = Strip /\ legend.legend = Legend
  BY <1>5, <1>8, <1>9, LegendSays
<1>11. ~full => RememberedIn(last_cell, legend, Knobs)
  BY <1>8, <1>10 DEF RememberedIn
<1>12. /\ DisplayIs(fb) /\ fb.band = Strip /\ fb.legend = Legend /\ LooksIn(fb, Knobs)
  BY <1>6, <1>10, <1>11, CellsAreRendered
<1>13. CardsIn(fb)
  BY <1>1, <1>12 DEF CardsIn, LooksIn
<1>14. GroundIn(fb)
  BY <1>1, <1>12 DEF GroundIn, HasPanel, KnobsOf, LooksIn
<1>15. BandIn(fb)
  BY <1>1, <1>12 DEF BandIn
<1>16. ShowsWhatIs'
  BY <1>6, <1>13, <1>14, <1>15, FrameShows
<1>17. OverviewDrawn'
  <2>1. /\ last_page' = page /\ last_legend' = Acting
        /\ last_cell' = Forgotten(Remembered(Knobs))
    BY DEF FrameOverview
  <2>2. PICK seen : seen = last_cell'
    OBVIOUS
  <2>3. RememberedIn(seen, fb, Knobs)
    BY <1>12, <2>1, <2>2, ForgottenIs, Remembering
  <2>4. RememberedIn(last_cell, framebuffer, Knobs)'
    <3>1. desc' = desc
      BY DEF interface
    <3> QED
      BY <1>6, <2>2, <2>3, <3>1 DEF RememberedIn, ShownAs, Is, Occupied
  <2> QED
    BY <1>1, <1>6, <1>12, <2>1, <2>4 DEF OverviewDrawn, Strip, Legend
<1> QED
  BY <1>6, <1>12, <1>16, <1>17

\* The page of the operator layout that is shown.
LEMMA OperatorPageIs ==
  ASSUME InterfaceIs, OperatorPage # 0
  PROVE  (OperatorPage - 1) * Pots = page /\ \A k \in Knobs : Role(k) = "ALONE"
PROOF
<1>1. PICK n \in Nat \ {0} : n = Pots
  BY RowsAre
<1>2. PICK p \in Nat : p = page /\ p % n = 0
  BY <1>1 DEF InterfaceIs, IsPage
<1>3. desc.operator /\ OperatorPage = 1 + page \div Pots
  BY DEF OperatorPage
<1>4. PICK a : a = p \div n
  OBVIOUS
<1>5. a \in Nat /\ p = a * n
  BY ONLY <1>2, <1>4, n \in Nat \ {0}, p \in Nat
<1>6. OperatorPage - 1 = a
  BY <1>1, <1>2, <1>3, <1>4, <1>5
<1> QED
  BY <1>1, <1>2, <1>3, <1>5, <1>6 DEF Role

\* The plates of the operator layout.
LEMMA OperatorIsShown ==
  ASSUME ScreenInv, FrameOperator, last_view' = View, last_revision' = revision,
         UNCHANGED interface
  PROVE  DisplayIs(framebuffer') /\ OperatorDrawn' /\ ShowsWhatIs'
PROOF
<1>1. View = "OVERVIEW" /\ OperatorPage # 0 /\ View \notin Views /\ InterfaceIs
  BY ViewsAre DEF ScreenInv, FrameOperator
<1>2. (OperatorPage - 1) * Pots = page /\ \A k \in Knobs : Role(k) = "ALONE"
  BY <1>1, OperatorPageIs
<1>3. PICK full \in BOOLEAN : full <=> Full \/ was_operator # OperatorPage
  BY Zenon
<1>4. PICK base : base = IF full THEN Fill(<<"HEADING">>) ELSE framebuffer
  OBVIOUS
<1>5. DisplayIs(base)
  BY <1>4, FillIs DEF ScreenInv
<1>6. PICK c : c = [k \in Knobs |-> IF full \/ last_plate[k] # Plate(k) THEN Card(k)
                                    ELSE base.cells[k]]
  OBVIOUS
<1>7. PICK b : framebuffer' = [base EXCEPT !.cells = c, !.band = b]
  <2> DEFINE full0 == Full \/ was_operator # OperatorPage
             Dirty0(k) == full0 \/ last_plate[k] # Plate(k)
             base0 == IF full0 THEN Fill(<<"HEADING">>) ELSE framebuffer
             status0 == \E k \in KnobsFor(Row - 1) : Dirty0(k) /\ Value(Row - 1) \in Status
  <2>1. framebuffer' =
          [base0 EXCEPT
             !.cells = [k \in Knobs |-> IF Dirty0(k) THEN Card(k) ELSE @[k]],
             !.band = IF OperatorPage = 1 /\ status0 THEN <<"STATUS", Value(Row - 1)>> ELSE @]
    BY Zenon DEF FrameOperator
  <2>2. base0 = base
    BY <1>3, <1>4
  <2>3. \A k \in Knobs : Dirty0(k) <=> full \/ last_plate[k] # Plate(k)
    BY <1>3
  <2>4. PICK x : x = IF OperatorPage = 1 /\ status0 THEN <<"STATUS", Value(Row - 1)>>
                     ELSE base.band
    OBVIOUS
  <2> HIDE DEF full0, base0, status0, Dirty0
  <2>5. c = [k \in Knobs |-> IF Dirty0(k) THEN Card(k) ELSE base.cells[k]]
    BY <1>6, <2>3
  <2>6. framebuffer' = [base EXCEPT !.cells = c, !.band = x]
    BY <2>1, <2>2, <2>4, <2>5, Zenon
  <2> QED
    BY <2>6
<1>8. PICK fb : fb = framebuffer'
  OBVIOUS
<1>9. DisplayIs(fb) /\ fb.cells = c
  <2>1. fb = [cells |-> c, ground |-> base.ground, band |-> b, legend |-> base.legend]
    BY <1>5, <1>7, <1>8 DEF DisplayIs
  <2>2. c = [k \in Knobs |-> c[k]]
    BY <1>6
  <2> QED
    BY <1>5, <2>1, <2>2 DEF DisplayIs
<1>10. ASSUME NEW k \in Knobs PROVE c[k] = Card(k)
  <2>1. CASE full \/ last_plate[k] # Plate(k)
    BY <1>6, <2>1
  <2>2. CASE ~full /\ last_plate[k] = Plate(k)
    <3>1. /\ last_view = "OVERVIEW" /\ was_operator # 0 /\ last_revision = revision
          /\ was_operator = OperatorPage
      BY <1>1, <1>3, <2>2 DEF Full
    <3>2. framebuffer.cells[k] =
            [slot |-> FieldFor(k), role |-> "ALONE", value |-> last_plate[k][1],
             chrome |-> last_plate[k][2], cut |-> FALSE]
      BY <1>2, <3>1 DEF ScreenInv, OperatorDrawn, FieldFor
    <3>3. last_plate[k][1] = Value(FieldFor(k)) /\ last_plate[k][2] = Chrome(k)
      BY <2>2 DEF Plate
    <3>4. framebuffer.cells[k] = Card(k)
      BY <1>2, <3>2, <3>3 DEF Card
    <3> QED
      BY <1>4, <1>6, <2>2, <3>4
  <2> QED
    BY <2>1, <2>2
<1>11. CardsIn(fb)
  <2> SUFFICES ASSUME NEW k \in Knobs PROVE ShownAs(Card(k), Looks(k))
    BY <1>1, <1>9, <1>10 DEF CardsIn
  <2>1. PICK s, o, v, e : s = FieldFor(k) /\ o = Role(k) /\ v = Value(s) /\ e = Chrome(k)
    OBVIOUS
  <2>2. Card(k) = [slot |-> s, role |-> o, value |-> v, chrome |-> e, cut |-> FALSE]
    BY <2>1 DEF Card
  <2>3. Looks(k) = [slot |-> s, role |-> o, value |-> v, chrome |-> e]
    BY <2>1 DEF Looks
  <2> QED
    BY <2>2, <2>3 DEF ShownAs
<1>12. GroundIn(fb) /\ BandIn(fb)
  BY <1>1 DEF GroundIn, BandIn, Grid2
<1>13. ShowsWhatIs'
  BY <1>8, <1>11, <1>12, FrameShows
<1>14. OperatorDrawn'
  <2>1. was_operator' = OperatorPage /\ last_plate' = [k \in Knobs |-> Plate(k)]
    BY DEF FrameOperator
  <2>2. desc' = desc /\ Occupied' = Occupied
    BY DEF interface, Occupied
  <2> SUFFICES ASSUME NEW k \in Knobs
               PROVE  fb.cells[k] =
                        [slot |-> Addressed(desc, Occupied, (OperatorPage - 1) * Pots, k),
                         role |-> "ALONE", value |-> last_plate'[k][1],
                         chrome |-> last_plate'[k][2], cut |-> FALSE]
    BY <1>8, <2>1, <2>2, Zenon DEF OperatorDrawn
  <2>3. last_plate'[k][1] = Value(FieldFor(k)) /\ last_plate'[k][2] = Chrome(k)
    BY <2>1 DEF Plate
  <2>4. Role(k) = "ALONE" /\ FieldFor(k) = Addressed(desc, Occupied, (OperatorPage - 1) * Pots, k)
    BY <1>2 DEF FieldFor
  <2> QED
    BY <1>9, <1>10, <2>3, <2>4 DEF Card
<1> QED
  BY <1>8, <1>9, <1>13, <1>14

\* The band of a drilled field: whether the window is held, or the page; an older page only of a
\* field that is shown on every page.
BandOf(band, zoom, page_, s) ==
  IF zoom THEN band = Banner
  ELSE band = <<"STRIP", revision, page_>> \/ (s \in desc.pinned /\ band # Banner)

\* A field drilled before and now is on the row it was on, and its band may be left.
LEMMA StillDrilled ==
  ASSUME ScreenInv, View = "DRILLED", ~Rebuilds
  PROVE  /\ RowBeside(KnobsAt(last_focus, last_page)) = ReadoutRow
         /\ last_focus = focused /\ last_page # page => focused \in desc.pinned
PROOF
<1>1. /\ last_view = "DRILLED" /\ last_revision = revision /\ last_focus = focused
      /\ focused # Nobody /\ ~desc.operator /\ desc \in Layouts \union {NoLayout}
      /\ IsPage(page) /\ KnobsFor(focused) # {}
  BY ViewsAre DEF ScreenInv, InterfaceIs, Rebuilds, Full
<1>2. IsPage(last_page) /\ KnobsAt(focused, last_page) # {}
  BY <1>1 DEF ScreenInv, DrilledDrawn
<1>3. KnobsFor(focused) = KnobsAt(focused, page)
  BY DEF KnobsFor, KnobsAt, FieldFor
<1>4. KnobsAt(focused, last_page) = KnobsAt(focused, page)
      /\ (last_page = page \/ focused \in desc.pinned)
  BY <1>1, <1>2, <1>3, SameKnobs
<1> QED
  BY <1>1, <1>3, <1>4 DEF ReadoutRow, RowBeside

\* The drilled field, its readout and the other row.
LEMMA DrilledIsShown ==
  ASSUME ScreenInv, FrameDrilled, last_view' = View, last_revision' = revision,
         UNCHANGED interface
  PROVE  DisplayIs(framebuffer') /\ DrilledDrawn' /\ ShowsWhatIs'
PROOF
<1>1. /\ View = "DRILLED" /\ View \notin Views /\ View # "OVERVIEW" /\ OperatorPage = 0
      /\ focused # Nobody /\ IsPage(page) /\ KnobsFor(focused) # {}
  BY ViewsAre DEF ScreenInv, FrameDrilled, InterfaceIs
<1>2. PICK rebuild \in BOOLEAN, changed \in BOOLEAN :
        /\ rebuild <=> Rebuilds
        /\ changed <=> rebuild \/ last_readout # Readout \/ last_page # page
  BY Zenon
<1>3. PICK row : row = Knobs \ KnobsOf(ReadoutRow)
  OBVIOUS
<1>4. PICK read : read = IF changed THEN RenderReadout(framebuffer, rebuild) ELSE framebuffer
  OBVIOUS
<1>5. PICK banded : banded = IF rebuild \/ (changed /\ last_zoom # zoom_held) THEN DrawBand(read)
                             ELSE read
  OBVIOUS
<1>6. PICK legend : legend = DrawLegend(banded, rebuild)
  OBVIOUS
<1>7. PICK fb : fb = framebuffer' /\ fb = RenderCells(legend, rebuild, row)
  <2> DEFINE changed0 == Rebuilds \/ last_readout # Readout \/ last_page # page
             read0 == IF changed0 THEN RenderReadout(framebuffer, Rebuilds) ELSE framebuffer
             banded0 == IF Rebuilds \/ (changed0 /\ last_zoom # zoom_held) THEN DrawBand(read0)
                        ELSE read0
  <2>1. framebuffer' = RenderCells(DrawLegend(banded0, Rebuilds), Rebuilds,
                                   Knobs \ KnobsOf(ReadoutRow))
    BY Zenon DEF FrameDrilled
  <2>2. rebuild = Rebuilds /\ changed = changed0
    BY <1>2 DEF Rebuilds
  <2>3. read0 = read
    BY <1>4, <2>2, Zenon
  <2>4. banded0 = banded
    BY <1>5, <2>2, <2>3, Zenon
  <2> QED
    BY <1>3, <1>6, <2>1, <2>2, <2>4, Zenon
<1>8. ReadoutRow \in Rows /\ DisplayIs(framebuffer)
  BY RowBesideIs DEF ReadoutRow, RowBeside, ScreenInv
<1>9. ~rebuild => /\ last_view = "DRILLED" /\ last_revision = revision /\ last_focus = focused
                  /\ RowBeside(KnobsAt(last_focus, last_page)) = ReadoutRow
                  /\ last_page # page => focused \in desc.pinned
  BY <1>1, <1>2, StillDrilled DEF Rebuilds, Full
<1>10. ~rebuild => /\ \A k \in KnobsOf(ReadoutRow) : framebuffer.cells[k] = Blank
                   /\ framebuffer.ground[ReadoutRow] = last_readout
                   /\ \E v : last_readout = <<"READOUT", last_focus, v, last_zoom>>
                   /\ RememberedIn(last_cell, framebuffer, row)
                   /\ BandOf(framebuffer.band, last_zoom, last_page, focused)
                   /\ framebuffer.legend = <<View, last_legend>>
  BY <1>1, <1>3, <1>9 DEF ScreenInv, DrilledDrawn, BandOf
<1>11. \A k \in Knobs : k \in row <=> RowOf(k) # ReadoutRow
  BY <1>3 DEF KnobsOf
<1>12. /\ DisplayIs(read) /\ read.band = framebuffer.band /\ read.legend = framebuffer.legend
       /\ read.ground[ReadoutRow] = Readout
       /\ \A k \in KnobsOf(ReadoutRow) : read.cells[k] = Blank
       /\ ~rebuild => RememberedIn(last_cell, read, row)
  <2>1. CASE changed
    <3>1. read = RenderReadout(framebuffer, rebuild)
      BY <1>4, <2>1
    <3>2. /\ DisplayIs(read) /\ read.band = framebuffer.band /\ read.legend = framebuffer.legend
          /\ read.ground[ReadoutRow] = Readout
          /\ \A r \in Rows : r # ReadoutRow => read.ground[r] = framebuffer.ground[r]
          /\ \A k \in Knobs : read.cells[k] = IF rebuild /\ RowOf(k) = ReadoutRow THEN Blank
                                              ELSE framebuffer.cells[k]
      BY <1>8, <3>1, ReadoutIs
    <3>3. \A k \in KnobsOf(ReadoutRow) : read.cells[k] = Blank
      BY <1>10, <3>2 DEF KnobsOf
    <3>4. \A k \in row : /\ k \in Knobs /\ RowOf(k) \in Rows /\ RowOf(k) # ReadoutRow
      BY <1>3, <1>11, RowsAre
    <3>5. ~rebuild => RememberedIn(last_cell, read, row)
      BY <1>10, <3>2, <3>4 DEF RememberedIn
    <3> QED
      BY <3>2, <3>3, <3>5
  <2>2. CASE ~changed
    BY <1>2, <1>4, <1>8, <1>10, <2>2
  <2> QED
    BY <2>1, <2>2
<1>13. /\ DisplayIs(banded) /\ banded.cells = read.cells /\ banded.ground = read.ground
       /\ banded.legend = read.legend /\ BandOf(banded.band, zoom_held, page, focused)
  <2>1. CASE rebuild \/ (changed /\ last_zoom # zoom_held)
    <3>1. PICK ink : ink = IF zoom_held THEN Banner ELSE Strip
      OBVIOUS
    <3>2. banded = [read EXCEPT !.band = ink]
      BY <1>5, <2>1, <3>1 DEF DrawBand
    <3>3. BandOf(ink, zoom_held, page, focused)
      BY <3>1 DEF BandOf, Strip
    <3> QED
      BY <1>12, <3>2, <3>3, BandIsDrawn
  <2>2. CASE ~(rebuild \/ (changed /\ last_zoom # zoom_held))
    <3>1. banded = read /\ ~rebuild
      BY <1>5, <2>2
    <3>2. last_zoom = zoom_held
      <4>1. PICK v : last_readout = <<"READOUT", last_focus, v, last_zoom>>
        BY <1>10, <3>1
      <4>2. last_readout = Readout => last_zoom = zoom_held
        BY <4>1 DEF Readout
      <4> QED
        BY <1>2, <2>2, <4>2
    <3>3. BandOf(read.band, zoom_held, last_page, focused)
      BY <1>10, <1>12, <3>1, <3>2
    <3>4. BandOf(read.band, zoom_held, page, focused)
      <4>1. CASE last_page = page
        BY <3>3, <4>1
      <4>2. CASE last_page # page
        <5>1. focused \in desc.pinned
          BY <1>9, <3>1, <4>2
        <5>2. \A p : <<"STRIP", revision, p>> # <<"ZOOM">>
          OBVIOUS
        <5> QED
          BY <3>3, <5>1, <5>2 DEF BandOf, Banner
      <4> QED
        BY <4>1, <4>2
    <3> QED
      BY <1>12, <3>1, <3>4
  <2> QED
    BY <2>1, <2>2
<1>14. /\ DisplayIs(legend) /\ legend.cells = read.cells /\ legend.ground = read.ground
       /\ legend.band = banded.band /\ legend.legend = Legend
  BY <1>6, <1>10, <1>12, <1>13, LegendSays
<1>15. ~rebuild => RememberedIn(last_cell, legend, row)
  BY <1>12, <1>14 DEF RememberedIn
<1>16. row \subseteq Knobs /\ row \intersect KnobsOf(ReadoutRow) = {}
  BY <1>3
<1>17. /\ DisplayIs(fb) /\ fb.band = legend.band /\ fb.legend = Legend /\ LooksIn(fb, row)
       /\ \A k \in Knobs \ row : fb.cells[k] = legend.cells[k]
       /\ fb.ground[ReadoutRow] = legend.ground[ReadoutRow]
  BY <1>7, <1>8, <1>14, <1>15, <1>16, CellsAreRendered
<1>18. /\ \A k \in KnobsOf(ReadoutRow) : fb.cells[k] = Blank
       /\ fb.ground[ReadoutRow] = Readout /\ BandOf(fb.band, zoom_held, page, focused)
  <2>1. \A k \in KnobsOf(ReadoutRow) : k \in Knobs \ row
    BY <1>3 DEF KnobsOf
  <2> QED
    BY <1>12, <1>13, <1>14, <1>17, <2>1
<1>19. CardsIn(fb)
  BY <1>1, <1>11, <1>17, <1>18 DEF CardsIn, LooksIn, KnobsOf
<1>20. GroundIn(fb)
  <2> SUFFICES ASSUME NEW r \in Rows, r # ReadoutRow, HasPanel(r)
               PROVE  fb.ground[r] = Bridge
    BY <1>1, <1>18 DEF GroundIn
  <2>1. PICK k \in Knobs : RowOf(k) = r /\ Role(k) = "LEFT"
    BY DEF HasPanel, KnobsOf
  <2> QED
    BY <1>11, <1>17, <2>1 DEF LooksIn
<1>21. BandIn(fb)
  BY <1>1, <1>17, <1>18 DEF BandIn, BandOf, Strip
<1>22. ShowsWhatIs'
  BY <1>7, <1>19, <1>20, <1>21, FrameShows
<1>23. DrilledDrawn'
  <2>1. /\ last_focus' = focused /\ last_page' = page /\ last_zoom' = zoom_held
        /\ last_readout' = Readout /\ last_legend' = Acting
        /\ last_cell' = Forgotten(Remembered(row))
    BY <1>3 DEF FrameDrilled
  <2>2. desc' = desc /\ Occupied' = Occupied /\ revision' = revision
    BY DEF interface, Occupied
  <2>3. PICK r, p, f : r = ReadoutRow /\ p = page /\ f = focused
    OBVIOUS
  <2>4. KnobsAt(last_focus, last_page)' = KnobsFor(focused)
    BY <2>1, <2>2 DEF KnobsFor, KnobsAt, FieldFor
  <2>5. RowBeside(KnobsAt(last_focus, last_page))' = r
    BY <2>3, <2>4 DEF ReadoutRow, RowBeside
  <2>6. PICK seen : seen = last_cell'
    OBVIOUS
  <2>7. RememberedIn(seen, fb, row)
    BY <1>16, <1>17, <2>1, <2>6, ForgottenIs, Remembering
  <2>8. RememberedIn(last_cell, framebuffer, Knobs \ KnobsOf(r))'
    BY <1>3, <1>7, <2>2, <2>3, <2>6, <2>7 DEF RememberedIn, ShownAs, Is
  <2>9. \E v : last_readout' = <<"READOUT", f, v, last_zoom'>>
    BY <2>1, <2>3 DEF Readout
  <2>10. /\ f # Nobody /\ IsPage(p) /\ KnobsAt(last_focus, last_page)' # {}
         /\ \A k \in KnobsOf(r) : framebuffer'.cells[k] = Blank
         /\ framebuffer'.ground[r] = last_readout'
         /\ framebuffer'.legend = <<"DRILLED", last_legend'>>
    BY <1>1, <1>7, <1>17, <1>18, <2>1, <2>3, <2>4 DEF Legend
  <2>11. IF last_zoom' THEN framebuffer'.band = Banner
         ELSE \/ framebuffer'.band = <<"STRIP", last_revision', last_page'>>
              \/ f \in desc'.pinned /\ framebuffer'.band # Banner
    BY <1>7, <1>18, <2>1, <2>2, <2>3, <1>17 DEF BandOf
  <2> QED
    BY <2>1, <2>3, <2>5, <2>8, <2>9, <2>10, <2>11, Zenon DEF DrilledDrawn
<1> QED
  BY <1>7, <1>17, <1>22, <1>23

\* A frame draws what is to be shown, and remembers what it drew.
LEMMA FrameKeeps ==
  ASSUME ScreenInv, Frame
  PROVE  ScreenInv'
PROOF
<1>1. last_view' = View /\ last_revision' = revision /\ changes' = 0 /\ UNCHANGED interface
  BY DEF Frame
<1>2. /\ desc' = desc /\ revision' = revision /\ mode' = mode /\ page' = page
      /\ focused' = focused
  BY <1>1 DEF interface
<1>3. InterfaceIs'
  <2>1. \A s : KnobsFor(s)' = KnobsFor(s)
    BY <1>2 DEF KnobsFor, FieldFor, Occupied
  <2> QED
    BY <1>1, <1>2, <2>1 DEF InterfaceIs, ScreenInv
<1>4. /\ View \in {"OVERVIEW", "DRILLED"} \union Views
      /\ View \in Views => View # "OVERVIEW" /\ View # "DRILLED"
  BY ViewsAre DEF ScreenInv
<1>5. LastIs'
  <2>1. revision \in 0..revision
    BY DEF ScreenInv, InterfaceIs
  <2> QED
    BY <1>1, <1>2, <1>4, <2>1 DEF LastIs
<1>6. CASE FrameSettings
  <2>1. View \in Views
    BY <1>6, ViewsAre DEF FrameSettings, ScreenInv
  <2> QED
    BY <1>1, <1>3, <1>4, <1>5, <1>6, <2>1, SettingsAreShown
       DEF ScreenInv, OverviewDrawn, OperatorDrawn, DrilledDrawn
<1>7. CASE FrameOperator
  <2>1. View = "OVERVIEW" /\ View \notin Views /\ was_operator' = OperatorPage /\ OperatorPage # 0
    BY <1>4, <1>7 DEF FrameOperator
  <2> QED
    BY <1>1, <1>3, <1>4, <1>5, <1>7, <2>1, OperatorIsShown
       DEF ScreenInv, SettingsDrawn, OverviewDrawn, DrilledDrawn
<1>8. CASE FrameOverview
  <2>1. View = "OVERVIEW" /\ View \notin Views /\ was_operator' = 0
    BY <1>4, <1>8 DEF FrameOverview
  <2> QED
    BY <1>1, <1>3, <1>4, <1>5, <1>8, <2>1, OverviewIsShown
       DEF ScreenInv, SettingsDrawn, OperatorDrawn, DrilledDrawn
<1>9. CASE FrameDrilled
  <2>1. View = "DRILLED" /\ View \notin Views
    BY <1>4, <1>9 DEF FrameDrilled
  <2> QED
    BY <1>1, <1>3, <1>4, <1>5, <1>9, <2>1, DrilledIsShown
       DEF ScreenInv, SettingsDrawn, OverviewDrawn, OperatorDrawn
<1> QED
  BY <1>6, <1>7, <1>8, <1>9 DEF Frame

\* What was drawn of a drilled field is still there while the descriptor is.
LEMMA DrilledStays ==
  ASSUME DrilledDrawn, desc' = desc, revision' = revision, framebuffer' = framebuffer,
         last_cell' = last_cell, last_view' = last_view, last_revision' = last_revision,
         last_focus' = last_focus, last_page' = last_page, last_zoom' = last_zoom,
         last_readout' = last_readout, last_legend' = last_legend
  PROVE  DrilledDrawn'
PROOF
<1>1. Occupied' = Occupied
  BY DEF Occupied
<1>2. KnobsAt(last_focus, last_page)' = KnobsAt(last_focus, last_page)
  BY <1>1 DEF KnobsAt
<1>3. PICK r : r = RowBeside(KnobsAt(last_focus, last_page))
  OBVIOUS
<1>4. RowBeside(KnobsAt(last_focus, last_page))' = r
  BY <1>2, <1>3 DEF RowBeside
<1>5. RememberedIn(last_cell, framebuffer, Knobs \ KnobsOf(r))'
      = RememberedIn(last_cell, framebuffer, Knobs \ KnobsOf(r))
  BY <1>1 DEF RememberedIn, ShownAs, Is
<1> QED
  BY <1>2, <1>3, <1>4, <1>5 DEF DrilledDrawn

\* Between two frames the display stays as it is, and what it was drawn for is known to be another
\* descriptor by its revision.
LEMMA ChangeKeeps ==
  ASSUME ScreenInv, Change, InterfaceIs',
         (revision' = revision /\ desc' = desc) \/ revision' = revision + 1
  PROVE  ScreenInv'
PROOF
<1>1. /\ changes' = changes + 1 /\ framebuffer' = framebuffer
      /\ last_cell' = last_cell /\ last_view' = last_view /\ last_revision' = last_revision
      /\ last_focus' = last_focus /\ last_page' = last_page /\ last_zoom' = last_zoom
      /\ last_readout' = last_readout /\ last_legend' = last_legend
      /\ was_operator' = was_operator /\ last_plate' = last_plate
  BY DEF Change, caches
<1>2. ShowsWhatIs'
  <2>1. changes' # 0
    BY <1>1 DEF ScreenInv, InterfaceIs
  <2> QED
    BY <2>1 DEF ShowsWhatIs, Drawn
<1>3. DisplayIs(framebuffer)' /\ SettingsDrawn'
  BY <1>1 DEF ScreenInv, DisplayIs, SettingsDrawn
<1>4. LastIs'
  <2>1. PICK x, y : x = revision /\ y = revision' /\ x \in Nat /\ (y = x \/ y = x + 1)
    BY DEF ScreenInv, InterfaceIs
  <2>2. 0..x \subseteq 0..y
    BY ONLY <2>1
  <2> QED
    BY <1>1, <2>1, <2>2 DEF ScreenInv, LastIs
<1>5. CASE revision' = revision /\ desc' = desc
  <2>1. Occupied' = Occupied
    BY <1>5 DEF Occupied
  <2>2. OverviewDrawn'
    BY <1>1, <1>5, <2>1 DEF ScreenInv, OverviewDrawn, RememberedIn, ShownAs, Is
  <2>3. OperatorDrawn'
    BY <1>1, <1>5, <2>1 DEF ScreenInv, OperatorDrawn
  <2>4. DrilledDrawn'
    BY <1>1, <1>5, DrilledStays DEF ScreenInv
  <2> QED
    BY <1>2, <1>3, <1>4, <2>2, <2>3, <2>4 DEF ScreenInv
<1>6. CASE revision' = revision + 1
  <2>1. PICK x \in Nat : x = revision /\ (last_view # Blank => last_revision \in 0..x)
    BY DEF ScreenInv, InterfaceIs, LastIs
  <2>2. x + 1 \notin 0..x
    BY ONLY x \in Nat
  <2>3. Blank # "OVERVIEW" /\ Blank # "DRILLED"
    BY ScreenAssumption DEF ScreenAssumption
  <2>4. last_view' \in {"OVERVIEW", "DRILLED"} => last_revision' # revision'
    BY <1>1, <1>6, <2>1, <2>2, <2>3
  <2> QED
    BY <1>2, <1>3, <1>4, <2>4 DEF ScreenInv, OverviewDrawn, OperatorDrawn, DrilledDrawn
<1> QED
  BY <1>5, <1>6

\* What is drilled stays drilled while the descriptor, the page and the focus stay.
LEMMA FocusStays ==
  ASSUME InterfaceIs, desc' = desc, page' = page, focused' \in {focused, Nobody}
  PROVE  focused' # Nobody => ~desc'.operator /\ KnobsFor(focused)' # {}
PROOF
<1>1. \A k : FieldFor(k)' = FieldFor(k)
  BY DEF FieldFor, Occupied
<1>2. focused' = focused => KnobsFor(focused)' = KnobsFor(focused)
  BY <1>1 DEF KnobsFor
<1> QED
  BY <1>2 DEF InterfaceIs

\* A press drills what the knob shows, or turns the page of the operator layout.
LEMMA PressedIs ==
  ASSUME InterfaceIs, NEW k \in Knobs, Pressed(k), desc' = desc
  PROVE  IsPage(page') /\ (focused' # Nobody => ~desc'.operator /\ KnobsFor(focused)' # {})
PROOF
<1>1. IsPage(page) /\ Occupied \in SUBSET Nat /\ IsFiniteSet(Occupied) /\ Occupied' = Occupied
  BY OccupiedIs DEF InterfaceIs, Occupied
<1>2. CASE page' = page /\ focused' \in {focused, Nobody}
  BY <1>1, <1>2, FocusStays
<1>3. CASE desc.operator /\ mode = "SURFACE"
  <2>1. focused = Nobody /\ focused' = focused
    BY <1>3 DEF Pressed, InterfaceIs
  <2>2. IsPage(LastPageOf(Occupied)) /\ IsPage(Pots)
    BY <1>1, PagesAre
  <2>3. IsPage(page')
    BY <1>1, <1>3, <2>2 DEF Pressed, TurnTo
  <2> QED
    BY <2>1, <2>3
<1>4. CASE ~desc.operator /\ page' = page /\ focused' = FieldFor(k)
  <2>1. FieldFor(k)' = FieldFor(k)
    BY <1>1, <1>4 DEF FieldFor
  <2>2. k \in KnobsFor(focused)'
    BY <1>4, <2>1 DEF KnobsFor
  <2> QED
    BY <1>1, <1>4, <2>2
<1> QED
  BY <1>2, <1>3, <1>4 DEF Pressed, LeaveFocus

\* Nothing changes while nothing happens.
LEMMA StandsStill ==
  ASSUME ScreenInv, UNCHANGED screenVars
  PROVE  ScreenInv'
PROOF
<1>1. UNCHANGED interface /\ UNCHANGED caches /\ framebuffer' = framebuffer /\ changes' = changes
  BY DEF screenVars
<1>2. desc' = desc /\ revision' = revision /\ mode' = mode /\ page' = page
      /\ focused' = focused /\ zoom_held' = zoom_held /\ Occupied' = Occupied
  BY <1>1 DEF interface, Occupied
<1>3. /\ last_cell' = last_cell /\ last_view' = last_view /\ last_revision' = last_revision
      /\ last_focus' = last_focus /\ last_page' = last_page /\ last_zoom' = last_zoom
      /\ last_readout' = last_readout /\ last_legend' = last_legend
      /\ was_operator' = was_operator /\ last_plate' = last_plate
  BY <1>1 DEF caches
<1>4. InterfaceIs'
  BY <1>1, <1>2, FocusStays DEF ScreenInv, InterfaceIs
<1>5. DisplayIs(framebuffer)' /\ LastIs' /\ SettingsDrawn' /\ OperatorDrawn'
  BY <1>1, <1>2, <1>3 DEF ScreenInv, DisplayIs, LastIs, SettingsDrawn, OperatorDrawn
<1>6. OverviewDrawn'
  BY <1>1, <1>2, <1>3 DEF ScreenInv, OverviewDrawn, RememberedIn, ShownAs, Is
<1>7. DrilledDrawn'
  BY <1>1, <1>2, <1>3, DrilledStays DEF ScreenInv
<1>8. ShowsWhatIs'
  <2>1. CardsAreCurrent => CardsAreCurrent'
    BY <1>1, ShownAlike DEF CardsAreCurrent
  <2>2. GroundIsCurrent => GroundIsCurrent'
    BY <1>1, ShownAlike DEF GroundIsCurrent
  <2>3. BandIsCurrent => BandIsCurrent'
    BY <1>1, <1>2, ShownAlike DEF BandIsCurrent, Banner
  <2> QED
    BY <1>1, <2>1, <2>2, <2>3 DEF ScreenInv, ShowsWhatIs, Drawn
<1> QED
  BY <1>4, <1>5, <1>6, <1>7, <1>8 DEF ScreenInv

\* At the start nothing is drawn.
LEMMA ScreenFirst == ScreenInit => ScreenInv
PROOF
<1> SUFFICES ASSUME ScreenInit PROVE ScreenInv
  OBVIOUS
<1>1. Blank \notin {"OVERVIEW", "DRILLED"} \union Views
  BY ScreenAssumption DEF ScreenAssumption
<1>2. InterfaceIs
  BY PagesAre DEF ScreenInit, InterfaceIs
<1>3. DisplayIs(framebuffer)
  BY FillIs DEF ScreenInit
<1> QED
  BY <1>1, <1>2, <1>3 DEF ScreenInv, ScreenInit, LastIs, SettingsDrawn, OverviewDrawn,
     OperatorDrawn, DrilledDrawn, ShowsWhatIs, Drawn

\* Whatever falls between two frames keeps the invariant.
LEMMA ScreenStep ==
  ASSUME ScreenInv, [ScreenNext]_screenVars
  PROVE  ScreenInv'
PROOF
<1>0. /\ InterfaceIs /\ desc \in Layouts \union {NoLayout} /\ revision \in Nat /\ changes \in Nat
      /\ mode \in Views \union {"SURFACE"} /\ IsPage(page)
  BY DEF ScreenInv, InterfaceIs
<1>1. CASE Frame
  BY <1>1, FrameKeeps
<1>2. ASSUME NEW k \in Reached, PressKnob(k) PROVE ScreenInv'
  <2>1. k \in Knobs
    BY ScreenAssumption DEF ScreenAssumption
  <2>2. Change /\ Pressed(k) /\ desc' = desc /\ revision' = revision /\ mode' = mode
    BY <1>2 DEF PressKnob
  <2>3. InterfaceIs'
    BY <1>0, <2>1, <2>2, PressedIs DEF InterfaceIs, Change
  <2> QED
    BY <2>2, <2>3, ChangeKeeps
<1>3. CASE /\ Change /\ desc' = desc /\ revision' = revision /\ mode' = mode /\ page' = page
           /\ focused' = focused
  <2>1. InterfaceIs'
    BY <1>0, <1>3, FocusStays DEF InterfaceIs, Change
  <2> QED
    BY <1>3, <2>1, ChangeKeeps
<1>4. ASSUME NEW s \in Occupied, ShowPage(PageOf(s)) PROVE ScreenInv'
  <2>1. IsPage(PageOf(s))
    BY <1>0, OccupiedIs, PagesAre DEF Occupied
  <2>2. /\ Change /\ desc' = desc /\ revision' = revision /\ mode' = mode
        /\ page' = PageOf(s) /\ focused' = Nobody
    BY <1>4 DEF ShowPage, LeaveFocus, TurnTo
  <2>3. InterfaceIs'
    BY <1>0, <2>1, <2>2 DEF InterfaceIs, Change
  <2> QED
    BY <2>2, <2>3, ChangeKeeps
<1>5. ASSUME NEW m \in Views \union {"SURFACE"}, ShowView(m) PROVE ScreenInv'
  <2>1. /\ Change /\ desc' = desc /\ revision' = revision /\ mode' = m /\ page' = page
        /\ focused' = focused
    BY <1>5 DEF ShowView
  <2>2. InterfaceIs'
    BY <1>0, <2>1, FocusStays DEF InterfaceIs, Change
  <2> QED
    BY <2>1, <2>2, ChangeKeeps
<1>6. ASSUME NEW d \in Layouts, Publish(d) PROVE ScreenInv'
  <2>1. /\ Change /\ desc' = d /\ revision' = revision + 1 /\ mode' = mode /\ page' = 0
        /\ focused' = Nobody
    BY <1>6 DEF Publish, LeaveFocus
  <2>2. InterfaceIs'
    BY <1>0, <2>1, PagesAre DEF InterfaceIs, Change
  <2> QED
    BY <2>1, <2>2, ChangeKeeps
<1>7. CASE UNCHANGED screenVars
  BY <1>7, StandsStill
<1> QED
  BY <1>1, <1>2, <1>3, <1>4, <1>5, <1>6, <1>7 DEF ScreenNext, LetGo, SetValue, Highlight, Zoom

\* What every cache of the last frame vouches for is on the display.
THEOREM ScreenInvariant == ScreenSpec => []ScreenInv
  BY ScreenFirst, ScreenStep, PTL DEF ScreenSpec

\* A frame repaints only what changed, and leaves what the interface is, whatever fell between two
\* frames (ui.c:2109-2196), for any number of knobs, any descriptors and any views.
THEOREM ShowsWhatIsHolds == ScreenSpec => []ShowsWhatIs
PROOF
<1>1. ScreenInv => ShowsWhatIs
  BY DEF ScreenInv
<1> QED
  BY <1>1, ScreenInvariant, PTL
=============================================================================
