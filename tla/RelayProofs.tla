---------------------------- MODULE RelayProofs ----------------------------
(***************************************************************************)
(* Proofs about the relay, for every ring size, disk cap, batch size and   *)
(* any number of events and faults.                                        *)
(***************************************************************************)
EXTENDS Relay, SequenceTheorems, TLAPS

-----------------------------------------------------------------------------
(* Lemmas about the queue operators.                                       *)

\* What ringPop leaves and takes are sequences over the same events.
LEMMA PrefixType ==
    ASSUME NEW S, NEW q \in Seq(S), NEW n \in Nat
    PROVE  /\ Prefix(q, n) \in Seq(S)
           /\ Len(Prefix(q, n)) = (IF Len(q) < n THEN Len(q) ELSE n)
           /\ \A i \in 1..Len(Prefix(q, n)) : Prefix(q, n)[i] = q[i]
  BY DEF Prefix

LEMMA SuffixType ==
    ASSUME NEW S, NEW q \in Seq(S), NEW n \in Nat
    PROVE  /\ Suffix(q, n) \in Seq(S)
           /\ Len(Suffix(q, n)) = (IF Len(q) < n THEN 0 ELSE Len(q) - n)
           /\ \A i \in 1..Len(Suffix(q, n)) : Suffix(q, n)[i] = q[i + n]
  <1>1. CASE Len(q) < n
    <2>1. Suffix(q, n) = SubSeq(q, Len(q) + 1, Len(q))
      BY <1>1 DEF Suffix
    <2>2. Suffix(q, n) = <<>>
      BY <2>1, SubSeqEmpty
    <2> QED BY <1>1, <2>2
  <1>2. CASE ~(Len(q) < n)
    <2> DEFINE t == SubSeq(q, n + 1, Len(q))
    <2>1. Suffix(q, n) = t
      BY <1>2 DEF Suffix
    <2>2. \A i \in (n + 1)..Len(q) : q[i] \in S
      BY <1>2
    <2>3. /\ t \in Seq(S)
          /\ Len(t) = IF n + 1 <= Len(q) THEN Len(q) - (n + 1) + 1 ELSE 0
          /\ \A i \in 1..(Len(q) - (n + 1) + 1) : t[i] = q[n + 1 + i - 1]
      BY <2>2, SubSeqProperties
    <2> HIDE DEF t
    <2>4. Len(t) = Len(q) - n /\ Len(q) \in Nat
      BY <1>2, <2>3
    <2>5. ASSUME NEW i \in 1..Len(t) PROVE t[i] = q[i + n]
      <3>1. i \in 1..(Len(q) - (n + 1) + 1) /\ n + 1 + i - 1 = i + n
        BY <2>4
      <3> QED BY <2>3, <3>1
    <2> QED BY <1>2, <2>1, <2>3, <2>4, <2>5
  <1> QED BY <1>1, <1>2

\* nextDelay stays between the configured bounds.
LEMMA NextDelayBounded ==
    ASSUME NEW d \in BackoffMin..BackoffMax
    PROVE  NextDelay(d) \in BackoffMin..BackoffMax
  <1>1. d \in Nat /\ BackoffMult \in Nat /\ BackoffMin \in Nat /\ BackoffMax \in Nat
    BY RelayAssumption
  <1>2. d * BackoffMult \in Nat /\ d * BackoffMult >= d
    <2>1. PICK m \in Nat : BackoffMult = m + 1
      BY RelayAssumption
    <2>2. d * BackoffMult = d * m + d
      BY <1>1, <2>1
    <2>3. d * m \in Nat
      BY <1>1
    <2> QED BY <1>1, <2>2, <2>3
  <1> QED BY <1>1, <1>2, RelayAssumption DEF NextDelay

-----------------------------------------------------------------------------
\* The initial state is typed.
LEMMA TypeInit == RelayInit => RelayTypeOK
  <1> SUFFICES ASSUME RelayInit PROVE RelayTypeOK
    OBVIOUS
  <1>1. ctxDone \in BOOLEAN /\ pc = "idle" /\ ring = <<>> /\ inRing = <<>>
    BY DEF RelayInit
  <1>2. delay \in BackoffMin..BackoffMax /\ accepted \in 0..MaxEvents
        /\ evictions \in Nat /\ faults \in 0..MaxFaults
        /\ stored \in [Events -> Nat]
    BY RelayAssumption DEF RelayInit
  <1> QED BY <1>1, <1>2, RelayAssumption DEF RelayInit, RelayTypeOK

\* Every step keeps the types.
LEMMA TypeStep == RelayTypeOK /\ [RelayNext]_relayVars => RelayTypeOK'
<1> SUFFICES ASSUME RelayTypeOK, [RelayNext]_relayVars PROVE RelayTypeOK'
  OBVIOUS
<1> USE RelayAssumption
<1>1. CASE Enqueue
  <2>1. accepted + 1 \in Events /\ accepted' \in 0..MaxEvents
    BY <1>1 DEF Enqueue, RelayTypeOK, Events
  <2>2. PICK e \in {accepted + 1} :
          RingHasSlack(e) \/ DiskHasSlack(e) \/ EvictDisk(e) \/ EvictRing(e)
    BY <1>1 DEF Enqueue
  <2>3. ring' \in Seq(Events) /\ Len(ring') <= RingSize
    <3>1. CASE RingHasSlack(e)
      BY <2>1, <3>1, AppendProperties DEF RingHasSlack, RelayTypeOK
    <3>2. CASE DiskHasSlack(e) \/ EvictDisk(e)
      BY <3>2 DEF DiskHasSlack, EvictDisk, RelayTypeOK
    <3>3. CASE EvictRing(e)
      <4>1. ring # <<>> /\ ring \in Seq(Events) /\ Len(ring) = RingSize
        BY <3>3 DEF EvictRing, RelayTypeOK
      <4>2. Tail(ring) \in Seq(Events) /\ Len(Tail(ring)) = RingSize - 1
        BY <4>1, HeadTailProperties
      <4>3. ring' = Append(Tail(ring), e) /\ e \in Events
        BY <2>1, <3>3 DEF EvictRing
      <4> QED BY <4>2, <4>3, AppendProperties
    <3> QED BY <2>2, <3>1, <3>2, <3>3
  <2>4. disk' \subseteq Events /\ evictions' \in Nat
    BY <2>1, <2>2 DEF RelayTypeOK, RingHasSlack, DiskHasSlack, EvictDisk, EvictRing
  <2> QED BY <1>1, <2>1, <2>3, <2>4 DEF Enqueue, RelayTypeOK, drainerVars
<1>2. CASE Drain
  <2>1. inRing' \in Seq(Events) /\ ring' \in Seq(Events) /\ Len(ring') <= RingSize
    BY <1>2, PrefixType, SuffixType DEF Drain, RelayTypeOK
  <2>2. inDisk' \subseteq Events
    BY <1>2 DEF Drain, RelayTypeOK, DiskPeek, Readable
  <2>3. Items(inRing') \subseteq Events
    BY <2>1 DEF Items
  <2> QED BY <1>2, <2>1, <2>2, <2>3 DEF Drain, RelayTypeOK
<1>3. CASE IdlePoll
  BY <1>3 DEF IdlePoll, RelayTypeOK, outboxVars
<1>4. CASE DrainError
  BY <1>4 DEF DrainError, RelayTypeOK, Fault, drainerVars
<1>5. CASE InsertRow
  BY <1>5 DEF InsertRow, RelayTypeOK, outboxVars, drainerVars
<1>6. CASE SendOk
  BY <1>6 DEF SendOk, RelayTypeOK, outboxVars
<1>7. CASE SendError
  BY <1>7 DEF SendError, RelayTypeOK, Fault, outboxVars
<1>8. CASE Ack
  BY <1>8 DEF Ack, RelayTypeOK, EndBatch
<1>9. CASE AckError
  BY <1>9 DEF AckError, RelayTypeOK, EndBatch, Fault, outboxVars
<1>10. CASE Requeue
  <2>1. ring' \in Seq(Events) /\ Len(ring') <= RingSize
    <3> DEFINE w == inRing \o ring
    <3>1. w \in Seq(Events) /\ ring' = Prefix(w, RingSize)
      BY <1>10, ConcatProperties DEF Requeue, Requeued, RelayTypeOK
    <3> HIDE DEF w
    <3>2. RingSize \in Nat
      OBVIOUS
    <3> QED BY <3>1, <3>2, PrefixType
  <2>2. delay' \in BackoffMin..BackoffMax
    BY <1>10, NextDelayBounded DEF Requeue, RelayTypeOK
  <2> QED BY <1>10, <2>1, <2>2 DEF Requeue, RelayTypeOK, EndBatch
<1>11. CASE StopDrainer
  BY <1>11 DEF StopDrainer, RelayTypeOK, outboxVars
<1>12. CASE LeaveLoop
  BY <1>12 DEF LeaveLoop, RelayTypeOK, outboxVars
<1>13. CASE Crash
  <2>1. ctxDone' \in BOOLEAN /\ pc' = "idle" /\ ring' = <<>> /\ inRing' = <<>>
        /\ inDisk' = {} /\ todo' = {}
    BY <1>13 DEF Crash, EndBatch
  <2>2. faults' \in 0..MaxFaults /\ evictions' \in Nat /\ delay' \in BackoffMin..BackoffMax
    BY <1>13 DEF Crash, RelayTypeOK, Fault
  <2> QED BY <1>13, <2>1, <2>2 DEF Crash, RelayTypeOK
<1>14. CASE UNCHANGED relayVars
  BY <1>14 DEF relayVars, RelayTypeOK, outboxVars, drainerVars
<1> QED
  BY <1>1, <1>2, <1>3, <1>4, <1>5, <1>6, <1>7, <1>8, <1>9, <1>10, <1>11,
     <1>12, <1>13, <1>14 DEF RelayNext

(* The relay's data keeps its type: in particular the ring never exceeds   *)
(* its capacity and the backoff delay its bounds, in every interleaving of *)
(* Enqueue, the drainer and crashes.                                       *)
THEOREM RelayTypeCorrect == RelaySpec => []RelayTypeOK
<1> QED BY TypeInit, TypeStep, PTL DEF RelaySpec

-----------------------------------------------------------------------------
(* Order and custody.  InOrder and OnePlace are inductive together with:   *)
(* everything queued was accepted (so the next event is newer than all of  *)
(* it), and no batch is in flight outside the send.                        *)
OrderInv ==
    /\ RelayTypeOK
    /\ InOrder
    /\ OnePlace
    /\ \A e \in Held \cup inDisk : e <= accepted
    /\ pc \in {"idle", "stopped"} => inRing = <<>> /\ inDisk = {}

Ordered(a, b) ==
    /\ Increasing(a)
    /\ Increasing(b)
    /\ \A i \in DOMAIN a, j \in DOMAIN b : a[i] < b[j]

\* A concatenation is increasing exactly when its halves are, and every event
\* of the first is older than every event of the second.
LEMMA IncreasingConcat ==
    ASSUME NEW a \in Seq(Nat), NEW b \in Seq(Nat)
    PROVE  Increasing(a \o b) <=> Ordered(a, b)
  <1> DEFINE w == a \o b
  <1>1. /\ w \in Seq(Nat)
        /\ Len(w) = Len(a) + Len(b)
        /\ \A i \in 1..Len(a) + Len(b) :
               w[i] = IF i <= Len(a) THEN a[i] ELSE b[i - Len(a)]
    BY ConcatProperties
  <1> HIDE DEF w
  <1>2. /\ DOMAIN w = 1..Len(a) + Len(b) /\ DOMAIN a = 1..Len(a)
        /\ DOMAIN b = 1..Len(b) /\ Len(a) \in Nat /\ Len(b) \in Nat
    BY <1>1
  <1>a. ASSUME NEW i \in DOMAIN a PROVE i \in DOMAIN w /\ w[i] = a[i]
    BY <1>1, <1>2
  <1>b. ASSUME NEW i \in DOMAIN b PROVE i + Len(a) \in DOMAIN w /\ w[i + Len(a)] = b[i]
    <2>1. /\ i + Len(a) \in 1..Len(a) + Len(b)
          /\ ~(i + Len(a) <= Len(a)) /\ i + Len(a) - Len(a) = i
      BY <1>2
    <2> QED BY <1>1, <1>2, <2>1
  <1>3. ASSUME Increasing(w) PROVE Ordered(a, b)
    <2>1. ASSUME NEW i \in DOMAIN a, NEW j \in DOMAIN a, i < j PROVE a[i] < a[j]
      <3>1. w[i] < w[j]
        BY <1>a, <1>3, <2>1 DEF Increasing
      <3> QED BY <1>a, <3>1
    <2>2. ASSUME NEW i \in DOMAIN b, NEW j \in DOMAIN b, i < j PROVE b[i] < b[j]
      <3>0. i + Len(a) < j + Len(a)
        BY <1>2, <2>2
      <3>1. i + Len(a) \in DOMAIN w /\ j + Len(a) \in DOMAIN w
        BY <1>b
      <3>2. w[i + Len(a)] < w[j + Len(a)]
        BY <1>3, <3>0, <3>1 DEF Increasing
      <3> QED BY <1>b, <3>2
    <2>3. ASSUME NEW i \in DOMAIN a, NEW j \in DOMAIN b PROVE a[i] < b[j]
      <3>0. i < j + Len(a)
        BY <1>2
      <3>1. i \in DOMAIN w /\ j + Len(a) \in DOMAIN w
        BY <1>a, <1>b
      <3>2. w[i] < w[j + Len(a)]
        BY <1>3, <3>0, <3>1 DEF Increasing
      <3> QED BY <1>a, <1>b, <3>2
    <2> QED BY <2>1, <2>2, <2>3 DEF Ordered, Increasing
  <1>4. ASSUME Ordered(a, b) PROVE Increasing(w)
    <2> SUFFICES ASSUME NEW i \in DOMAIN w, NEW j \in DOMAIN w, i < j
                 PROVE  w[i] < w[j]
      BY DEF Increasing
    <2>1. CASE j <= Len(a)
      BY <1>1, <1>2, <1>4, <2>1 DEF Ordered, Increasing
    <2>2. CASE i <= Len(a) /\ ~(j <= Len(a))
      <3>1. i \in DOMAIN a /\ j - Len(a) \in DOMAIN b
        BY <1>2, <2>2
      <3> QED BY <1>1, <1>2, <1>4, <2>2, <3>1 DEF Ordered
    <2>3. CASE ~(i <= Len(a)) /\ ~(j <= Len(a))
      <3>1. i - Len(a) \in DOMAIN b /\ j - Len(a) \in DOMAIN b /\ i - Len(a) < j - Len(a)
        BY <1>2, <2>3
      <3> QED BY <1>1, <1>2, <1>4, <2>3, <3>1 DEF Ordered, Increasing
    <2> QED BY <1>2, <2>1, <2>2, <2>3
  <1> QED BY <1>3, <1>4 DEF w

\* ringPush: a newer event at the back keeps the order.
LEMMA OrderedAppend ==
    ASSUME NEW a \in Seq(Nat), NEW b \in Seq(Nat), NEW e \in Nat,
           Ordered(a, b), \A f \in Items(a) \cup Items(b) : f < e
    PROVE  Ordered(a, Append(b, e)) /\ Items(Append(b, e)) = Items(b) \cup {e}
  <1> DEFINE c == Append(b, e)
  <1>1. /\ c \in Seq(Nat) /\ Len(c) = Len(b) + 1 /\ DOMAIN c = 1..(Len(b) + 1)
        /\ \A i \in 1..Len(b) : c[i] = b[i]
        /\ c[Len(b) + 1] = e
    BY AppendProperties
  <1>d. DOMAIN b = 1..Len(b) /\ Len(b) \in Nat
    BY LenProperties
  <1> HIDE DEF c
  <1>2. \A i \in DOMAIN a : a[i] < e /\ a[i] \in Nat
    BY DEF Items
  <1>3. \A i \in 1..Len(b) : b[i] < e /\ b[i] \in Nat
    BY DEF Items
  <1>4. Increasing(c)
    <2> SUFFICES ASSUME NEW i \in DOMAIN c, NEW j \in DOMAIN c, i < j PROVE c[i] < c[j]
      BY DEF Increasing
    <2>1. i \in 1..Len(b) /\ c[i] = b[i]
      BY <1>1, <1>d
    <2>2. CASE j = Len(b) + 1
      BY <1>1, <1>3, <2>1, <2>2
    <2>3. CASE j \in 1..Len(b)
      BY <1>1, <1>d, <2>1, <2>3 DEF Ordered, Increasing
    <2> QED BY <1>1, <1>d, <2>2, <2>3
  <1>5. ASSUME NEW i \in DOMAIN a, NEW j \in DOMAIN c PROVE a[i] < c[j]
    <2>1. CASE j = Len(b) + 1
      BY <1>1, <1>2, <2>1
    <2>2. CASE j \in 1..Len(b)
      BY <1>1, <1>d, <2>2 DEF Ordered
    <2> QED BY <1>1, <1>d, <2>1, <2>2
  <1>6. Items(c) = Items(b) \cup {e}
    <2>1. ASSUME NEW x \in Items(c) PROVE x \in Items(b) \cup {e}
      <3>1. PICK i \in DOMAIN c : x = c[i]
        BY <2>1 DEF Items
      <3>2. i \in 1..Len(b) \/ i = Len(b) + 1
        BY <1>1, <1>d
      <3> QED BY <1>1, <1>d, <3>1, <3>2 DEF Items
    <2>2. ASSUME NEW x \in Items(b) \cup {e} PROVE x \in Items(c)
      <3>1. CASE x = e
        <4>1. Len(b) + 1 \in DOMAIN c
          BY <1>1
        <4> QED BY <1>1, <3>1, <4>1 DEF Items
      <3>2. CASE x \in Items(b)
        <4>1. PICK i \in DOMAIN b : x = b[i]
          BY <3>2 DEF Items
        <4>2. i \in DOMAIN c /\ c[i] = x
          BY <1>1, <1>d, <4>1
        <4> QED BY <4>2 DEF Items
      <3> QED BY <2>2, <3>1, <3>2
    <2> QED BY <2>1, <2>2
  <1> QED BY <1>4, <1>5, <1>6 DEF Ordered, c

\* ringEvictOldest keeps the order.
LEMMA OrderedTail ==
    ASSUME NEW a \in Seq(Nat), NEW b \in Seq(Nat), b # <<>>, Ordered(a, b)
    PROVE  Ordered(a, Tail(b)) /\ Items(Tail(b)) \subseteq Items(b)
  <1> DEFINE t == Tail(b)
  <1>1. /\ t \in Seq(Nat) /\ Len(t) = Len(b) - 1
        /\ \A i \in 1..Len(t) : t[i] = b[i + 1]
    BY HeadTailProperties
  <1> HIDE DEF t
  <1>l. Len(t) = Len(b) - 1
    BY <1>1
  <1>d. DOMAIN b = 1..Len(b) /\ Len(b) \in Nat /\ DOMAIN t = 1..Len(t) /\ Len(t) \in Nat
    BY <1>1, LenProperties
  <1>2. ASSUME NEW i \in DOMAIN t PROVE i + 1 \in DOMAIN b /\ t[i] = b[i + 1]
    <2>1. i \in 1..Len(t)
      BY <1>d
    <2>2. i + 1 \in 1..Len(b)
      BY <1>l, <1>d, <2>1
    <2>3. t[i] = b[i + 1]
      BY <1>1, <2>1
    <2> QED BY <1>d, <2>2, <2>3
  <1>3. Increasing(t)
    <2>1. ASSUME NEW i \in DOMAIN t, NEW j \in DOMAIN t, i < j PROVE t[i] < t[j]
      <3>1. i + 1 \in DOMAIN b /\ j + 1 \in DOMAIN b /\ t[i] = b[i + 1] /\ t[j] = b[j + 1]
        BY <1>2
      <3>2. i + 1 < j + 1
        BY <1>d, <2>1
      <3> QED BY <3>1, <3>2 DEF Ordered, Increasing
    <2> QED BY <2>1 DEF Increasing
  <1>4. \A i \in DOMAIN a, j \in DOMAIN t : a[i] < t[j]
    BY <1>2 DEF Ordered
  <1>5. Items(t) \subseteq Items(b)
    BY <1>2 DEF Items
  <1> QED BY <1>3, <1>4, <1>5 DEF Ordered, t

\* A prefix of an increasing queue is increasing.
LEMMA PrefixIncreasing ==
    ASSUME NEW q \in Seq(Nat), NEW n \in Nat, Increasing(q)
    PROVE  Increasing(Prefix(q, n)) /\ Items(Prefix(q, n)) \subseteq Items(q)
  <1> DEFINE p == Prefix(q, n)
  <1>1. /\ p \in Seq(Nat)
        /\ Len(p) = (IF Len(q) < n THEN Len(q) ELSE n)
        /\ \A i \in 1..Len(p) : p[i] = q[i]
    BY PrefixType
  <1> HIDE DEF p
  <1>d. DOMAIN p = 1..Len(p) /\ DOMAIN q = 1..Len(q) /\ Len(q) \in Nat
    BY <1>1, LenProperties
  <1>2. \A i \in DOMAIN p : i \in DOMAIN q /\ p[i] = q[i]
    BY <1>1, <1>d
  <1>3. Increasing(p)
    BY <1>1, <1>2 DEF Increasing
  <1>4. Items(p) \subseteq Items(q)
    BY <1>2 DEF Items
  <1> QED BY <1>3, <1>4 DEF p

\* Drain: what is popped is older than what stays.
LEMMA SplitOrdered ==
    ASSUME NEW q \in Seq(Nat), NEW n \in Nat, Increasing(q)
    PROVE  /\ Ordered(Prefix(q, n), Suffix(q, n))
           /\ Items(Prefix(q, n)) \cup Items(Suffix(q, n)) \subseteq Items(q)
  <1> DEFINE p == Prefix(q, n)
             t == Suffix(q, n)
  <1>1. /\ p \in Seq(Nat)
        /\ Len(p) = (IF Len(q) < n THEN Len(q) ELSE n)
        /\ \A i \in 1..Len(p) : p[i] = q[i]
    BY PrefixType
  <1>2. /\ t \in Seq(Nat)
        /\ Len(t) = (IF Len(q) < n THEN 0 ELSE Len(q) - n)
        /\ \A i \in 1..Len(t) : t[i] = q[i + n]
    BY SuffixType
  <1>0. Increasing(p) /\ Items(p) \subseteq Items(q)
    BY PrefixIncreasing
  <1> HIDE DEF p, t
  <1>d. /\ DOMAIN p = 1..Len(p) /\ DOMAIN q = 1..Len(q) /\ Len(q) \in Nat
        /\ DOMAIN t = 1..Len(t) /\ Len(t) \in Nat
    BY <1>1, <1>2, LenProperties
  <1>3. \A i \in DOMAIN p : i \in DOMAIN q /\ p[i] = q[i] /\ i <= n
    BY <1>1, <1>d
  <1>4. \A i \in DOMAIN t : i + n \in DOMAIN q /\ t[i] = q[i + n] /\ i \in Nat /\ i > 0
    <2> TAKE i \in DOMAIN t
    <2>1. i \in 1..Len(t) /\ Len(t) > 0
      BY <1>d
    <2>2. Len(t) = Len(q) - n
      BY <1>2, <2>1
    <2>3. t[i] = q[i + n]
      BY <1>2, <2>1
    <2>4. i + n \in 1..Len(q) /\ i \in Nat /\ i > 0
      BY <1>d, <2>1, <2>2
    <2> QED BY <1>d, <2>3, <2>4
  <1>5. Increasing(t)
    <2> SUFFICES ASSUME NEW i \in DOMAIN t, NEW j \in DOMAIN t, i < j PROVE t[i] < t[j]
      BY DEF Increasing
    <2>1. i + n < j + n
      BY <1>4
    <2> QED BY <1>4, <2>1 DEF Increasing
  <1>6. ASSUME NEW i \in DOMAIN p, NEW j \in DOMAIN t PROVE p[i] < t[j]
    <2>1. i < j + n
      BY <1>1, <1>3, <1>4
    <2> QED BY <1>3, <1>4, <2>1 DEF Increasing
  <1>7. Items(t) \subseteq Items(q)
    BY <1>4 DEF Items
  <1> QED BY <1>0, <1>5, <1>6, <1>7 DEF Ordered, p, t

\* Nothing appears from a concatenation.
LEMMA ItemsConcat ==
    ASSUME NEW a \in Seq(Nat), NEW b \in Seq(Nat)
    PROVE  Items(a \o b) \subseteq Items(a) \cup Items(b)
  <1> DEFINE w == a \o b
  <1>1. /\ w \in Seq(Nat)
        /\ Len(w) = Len(a) + Len(b)
        /\ \A i \in 1..Len(a) + Len(b) :
               w[i] = IF i <= Len(a) THEN a[i] ELSE b[i - Len(a)]
    BY ConcatProperties
  <1> HIDE DEF w
  <1>d. /\ DOMAIN w = 1..Len(w) /\ DOMAIN a = 1..Len(a) /\ Len(a) \in Nat
        /\ DOMAIN b = 1..Len(b) /\ Len(b) \in Nat
    BY <1>1, LenProperties
  <1>2. ASSUME NEW i \in DOMAIN w PROVE w[i] \in Items(a) \cup Items(b)
    <2>1. CASE i <= Len(a)
      <3>1. i \in DOMAIN a /\ w[i] = a[i]
        BY <1>1, <1>d, <2>1
      <3> QED BY <3>1 DEF Items
    <2>2. CASE ~(i <= Len(a))
      <3>1. i - Len(a) \in DOMAIN b /\ w[i] = b[i - Len(a)]
        BY <1>1, <1>d, <2>2
      <3> QED BY <3>1 DEF Items
    <2> QED BY <2>1, <2>2
  <1> QED BY <1>2 DEF Items, w

\* OrderInv with the concatenation unfolded.
LEMMA OrderInvOrdered ==
    ASSUME RelayTypeOK
    PROVE  /\ ring \in Seq(Nat) /\ inRing \in Seq(Nat)
           /\ InOrder <=> Ordered(inRing, ring)
  <1>0. Seq(Events) \subseteq Seq(Nat)
    <2>1. Events \subseteq Nat
      BY DEF Events
    <2> QED BY <2>1, SeqMonotonic
  <1>1. ring \in Seq(Nat) /\ inRing \in Seq(Nat)
    BY <1>0 DEF RelayTypeOK
  <1> QED BY <1>1, IncreasingConcat DEF InOrder

LEMMA OrderInvOrderedNext ==
    ASSUME RelayTypeOK'
    PROVE  /\ ring' \in Seq(Nat) /\ inRing' \in Seq(Nat)
           /\ InOrder' <=> Ordered(inRing', ring')
  <1>0. Seq(Events) \subseteq Seq(Nat)
    <2>1. Events \subseteq Nat
      BY DEF Events
    <2> QED BY <2>1, SeqMonotonic
  <1>1. ring' \in Seq(Nat) /\ inRing' \in Seq(Nat)
    BY <1>0 DEF RelayTypeOK
  <1> QED BY <1>1, IncreasingConcat DEF InOrder

\* The order needs no care with an empty side.
LEMMA OrderedEmpty ==
    ASSUME NEW b
    PROVE  /\ Items(<<>>) = {}
           /\ Ordered(<<>>, b) <=> Increasing(b)
           /\ Increasing(<<>>)
  BY DEF Items, Ordered, Increasing

LEMMA OrderStep == OrderInv /\ [RelayNext]_relayVars => OrderInv'
<1> SUFFICES ASSUME OrderInv, [RelayNext]_relayVars PROVE OrderInv'
  OBVIOUS
<1>0. RelayTypeOK /\ RelayTypeOK'
  BY TypeStep DEF OrderInv
<1>a. ring \in Seq(Nat) /\ inRing \in Seq(Nat) /\ Ordered(inRing, ring)
  BY <1>0, OrderInvOrdered DEF OrderInv
<1>b. ring' \in Seq(Nat) /\ inRing' \in Seq(Nat) /\ (InOrder' <=> Ordered(inRing', ring'))
  BY <1>0, OrderInvOrderedNext
<1>c. accepted \in Nat /\ \A e \in Held \cup inDisk : e <= accepted /\ e \in Nat
  <2>1. Items(ring) \subseteq Nat /\ Items(inRing) \subseteq Nat
    BY <1>a DEF Items
  <2>2. disk \subseteq Nat /\ inDisk \subseteq Nat /\ accepted \in Nat
    BY <1>0 DEF RelayTypeOK, Events
  <2> QED BY <2>1, <2>2 DEF OrderInv, Held
<1> DEFINE Recent == \A e \in Held \cup inDisk : e <= accepted
           Quiet  == pc \in {"idle", "stopped"} => inRing = <<>> /\ inDisk = {}
<1>r. Recent /\ Quiet /\ OnePlace
  BY DEF OrderInv
<1>q. SUFFICES Ordered(inRing', ring') /\ OnePlace' /\ Recent' /\ Quiet'
  BY <1>0, <1>b DEF OrderInv
<1>1. CASE Enqueue
  <2>1. /\ accepted' = accepted + 1
        /\ inRing' = inRing /\ inDisk' = inDisk /\ pc' = pc
    BY <1>1 DEF Enqueue, drainerVars
  <2>2. PICK e \in {accepted + 1} :
          RingHasSlack(e) \/ DiskHasSlack(e) \/ EvictDisk(e) \/ EvictRing(e)
    BY <1>1 DEF Enqueue
  <2>3. e = accepted + 1 /\ e \in Nat /\ \A f \in Held \cup inDisk : f < e
    BY <1>c, <2>2
  <2>4. \A f \in Items(inRing) \cup Items(ring) : f < e
    BY <2>3 DEF Held
  <2>5. e \notin Held
    BY <1>c, <2>3
  <2>6. Quiet'
    BY <1>r, <2>1
  <2>7. ASSUME Held' \subseteq Held \cup {e} PROVE Recent'
    BY <1>c, <2>1, <2>3, <2>7
  <2>8. CASE RingHasSlack(e)
    <3>1. ring' = Append(ring, e) /\ disk' = disk
      BY <2>8 DEF RingHasSlack
    <3>2. Ordered(inRing, ring') /\ Items(ring') = Items(ring) \cup {e}
      BY <1>a, <2>3, <2>4, <3>1, OrderedAppend
    <3>3. Held' \subseteq Held \cup {e}
      BY <2>1, <3>1, <3>2 DEF Held
    <3>4. OnePlace'
      BY <1>r, <2>1, <2>5, <3>1, <3>2 DEF OnePlace, Held
    <3> QED BY <2>1, <2>6, <2>7, <3>2, <3>3, <3>4
  <2>9. CASE DiskHasSlack(e) \/ EvictDisk(e)
    <3>1. ring' = ring /\ disk' \subseteq disk \cup {e}
      BY <2>9 DEF DiskHasSlack, EvictDisk
    <3>2. Held' \subseteq Held \cup {e}
      BY <2>1, <3>1 DEF Held
    <3>3. OnePlace'
      BY <1>r, <2>1, <2>5, <3>1 DEF OnePlace, Held
    <3> QED BY <1>a, <2>1, <2>6, <2>7, <3>1, <3>2, <3>3
  <2>10. CASE EvictRing(e)
    <3>1. ring' = Append(Tail(ring), e) /\ disk' \subseteq disk /\ ring # <<>>
      BY <2>10, <1>0, RelayAssumption DEF EvictRing, RelayTypeOK
    <3> DEFINE t == Tail(ring)
    <3>2. t \in Seq(Nat) /\ Ordered(inRing, t) /\ Items(t) \subseteq Items(ring)
      BY <1>a, <3>1, OrderedTail, HeadTailProperties
    <3>3. ring' = Append(t, e)
      BY <3>1
    <3> HIDE DEF t
    <3>4. Ordered(inRing, ring') /\ Items(ring') = Items(t) \cup {e}
      BY <1>a, <2>3, <2>4, <3>2, <3>3, OrderedAppend
    <3>5. Held' \subseteq Held \cup {e}
      BY <2>1, <3>1, <3>2, <3>4 DEF Held
    <3>6. OnePlace'
      BY <1>r, <2>1, <2>5, <3>1, <3>2, <3>4 DEF OnePlace, Held
    <3> QED BY <2>1, <2>6, <2>7, <3>4, <3>5, <3>6
  <2> QED BY <2>2, <2>8, <2>9, <2>10
<1>2. CASE Drain
  <2>1. inRing = <<>> /\ Increasing(ring)
    BY <1>2, <1>a, <1>r DEF Drain, Ordered
  <2>2. inRing' = Prefix(ring, BatchSize) /\ ring' = Suffix(ring, BatchSize)
        /\ inDisk' \subseteq disk /\ disk' = disk /\ accepted' = accepted /\ pc' = "sending"
    BY <1>2 DEF Drain, DiskPeek, Readable
  <2>3. Ordered(inRing', ring') /\ Items(inRing') \cup Items(ring') \subseteq Items(ring)
    BY <1>a, <2>1, <2>2, SplitOrdered, RelayAssumption
  <2>4. OnePlace' /\ Held' \cup inDisk' \subseteq Held
    BY <1>r, <2>2, <2>3 DEF OnePlace, Held
  <2> QED BY <1>r, <2>2, <2>3, <2>4
<1>3. CASE Requeue
  <2>1. ring' = Prefix(inRing \o ring, RingSize) /\ inRing' = <<>> /\ inDisk' = {}
        /\ disk' = disk /\ accepted' = accepted
    BY <1>3 DEF Requeue, Requeued, EndBatch
  <2>2. inRing \o ring \in Seq(Nat) /\ Increasing(inRing \o ring)
    BY <1>a, ConcatProperties DEF OrderInv, InOrder
  <2>3. Increasing(ring') /\ Items(ring') \subseteq Items(inRing \o ring)
    BY <2>1, <2>2, PrefixIncreasing, RelayAssumption
  <2>4. Items(ring') \subseteq Items(inRing) \cup Items(ring) /\ Items(inRing') = {}
    BY <1>a, <2>1, <2>3, ItemsConcat, OrderedEmpty
  <2>5. Ordered(inRing', ring')
    BY <2>1, <2>3, OrderedEmpty
  <2>6. OnePlace' /\ Held' \cup inDisk' \subseteq Held
    BY <1>r, <2>1, <2>4 DEF OnePlace, Held
  <2> QED BY <1>r, <2>1, <2>5, <2>6
<1>4. CASE Ack \/ AckError
  <2>1. ring' = ring /\ inRing' = <<>> /\ inDisk' = {} /\ disk' \subseteq disk
        /\ accepted' = accepted
    BY <1>4 DEF Ack, AckError, EndBatch, outboxVars
  <2>2. Ordered(inRing', ring') /\ Items(inRing') = {}
    BY <1>a, <2>1, OrderedEmpty DEF Ordered
  <2>3. OnePlace' /\ Held' \cup inDisk' \subseteq Held
    BY <1>r, <2>1, <2>2 DEF OnePlace, Held
  <2> QED BY <1>r, <2>1, <2>2, <2>3
<1>5. CASE DrainError
  <2>1. ring' = <<>> /\ inRing' = inRing /\ inDisk' = inDisk /\ disk' = disk
        /\ accepted' = accepted /\ pc' = pc
    BY <1>5 DEF DrainError, drainerVars
  <2>2. inRing' = <<>>
    BY <1>5, <1>r, <2>1 DEF DrainError
  <2>3. Ordered(inRing', ring') /\ Items(ring') = {}
    BY <2>1, <2>2, OrderedEmpty
  <2>4. OnePlace' /\ Held' \cup inDisk' \subseteq Held \cup inDisk
    BY <1>r, <2>1, <2>3 DEF OnePlace, Held
  <2> QED BY <1>r, <2>1, <2>3, <2>4
<1>6. CASE Crash
  <2>1. ring' = <<>> /\ inRing' = <<>> /\ inDisk' = {} /\ disk' = disk /\ accepted' = accepted
    BY <1>6 DEF Crash, EndBatch
  <2>2. Ordered(inRing', ring') /\ Items(ring') = {} /\ Items(inRing') = {}
    BY <2>1, OrderedEmpty
  <2>3. OnePlace' /\ Held' \cup inDisk' \subseteq Held
    BY <1>r, <2>1, <2>2 DEF OnePlace, Held
  <2> QED BY <1>r, <2>1, <2>2, <2>3
<1>7. CASE IdlePoll \/ InsertRow \/ SendOk \/ SendError \/ StopDrainer \/ LeaveLoop \/ UNCHANGED relayVars
  <2>1. ring' = ring /\ inRing' = inRing /\ inDisk' = inDisk /\ disk' = disk /\ accepted' = accepted
    BY <1>7 DEF IdlePoll, InsertRow, SendOk, SendError, StopDrainer, LeaveLoop, relayVars, outboxVars, drainerVars
  <2>2. Quiet'
    BY <1>7, <1>r, <2>1 DEF IdlePoll, InsertRow, SendOk, SendError, StopDrainer, LeaveLoop, relayVars,
       outboxVars, drainerVars
  <2>3. OnePlace' /\ Held' = Held
    BY <1>r, <2>1 DEF OnePlace, Held
  <2> QED BY <1>a, <1>r, <2>1, <2>2, <2>3
<1> QED BY <1>1, <1>2, <1>3, <1>4, <1>5, <1>6, <1>7 DEF RelayNext

LEMMA OrderInit == RelayInit => OrderInv
  <1> SUFFICES ASSUME RelayInit PROVE OrderInv
    OBVIOUS
  <1>1. RelayTypeOK
    BY TypeInit
  <1>2. ring = <<>> /\ inRing = <<>> /\ disk = {} /\ inDisk = {}
    BY DEF RelayInit
  <1>3. Held \cup inDisk = {} /\ OnePlace
    BY <1>2, OrderedEmpty DEF Held, OnePlace
  <1>4. InOrder
    BY <1>1, <1>2, OrderInvOrdered, OrderedEmpty
  <1> QED BY <1>1, <1>2, <1>3, <1>4 DEF OrderInv

\* Oldest first, always: whatever Enqueue does while a batch is in flight, the
\* batch followed by the ring is in acceptance order with no event twice.
THEOREM RelayInOrder == RelaySpec => []InOrder
<1>1. OrderInv => InOrder
  BY DEF OrderInv
<1> QED BY <1>1, OrderInit, OrderStep, PTL DEF RelaySpec

\* Single custody, always: no event is both in memory and in the overflow file.
THEOREM RelayOnePlace == RelaySpec => []OnePlace
<1>1. OrderInv => OnePlace
  BY DEF OrderInv
<1> QED BY <1>1, OrderInit, OrderStep, PTL DEF RelaySpec
-----------------------------------------------------------------------------
(* Accounting.  An event that may still be sent has at most one row per    *)
(* fault; only one that is in the batch and already inserted, or left in   *)
(* the queue when the drainer stopped, may have one more, and after that   *)
(* it takes a fault to send it again.  Conversely a row of the batch that  *)
(* the receiver has behind it is stored or rejected: Ack relies on it.     *)
Batch == Items(inRing) \cup inDisk

PaidInv ==
    /\ OrderInv
    /\ todo \subseteq Batch
    /\ inDisk \cap (Items(ring) \cup Items(inRing)) = {}
    /\ \A e \in Events : stored[e] <= faults + 1
    /\ \A e \in Events : e > accepted => stored[e] = 0
    /\ \A e \in todo : stored[e] <= faults
    /\ pc # "stopped" => \A e \in (Items(ring) \cup disk) \ Batch : stored[e] <= faults
    /\ pc = "failed" => ctxDone \/ \A e \in Batch : stored[e] <= faults
    /\ pc \in {"sending", "acking"} => \A e \in Batch \ todo : stored[e] > 0 \/ e \in Undecodable
    /\ pc # "sending" => todo = {}
    /\ HasDisk \/ disk = {}

\* Nothing is lost by a concatenation, nor by a prefix long enough.
LEMMA ItemsKept ==
    ASSUME NEW a \in Seq(Nat), NEW b \in Seq(Nat)
    PROVE  /\ Items(a) \cup Items(b) \subseteq Items(a \o b)
           /\ \A n \in Nat : Len(a) + Len(b) <= n => Prefix(a \o b, n) = a \o b
  <1> DEFINE w == a \o b
  <1>1. /\ w \in Seq(Nat)
        /\ Len(w) = Len(a) + Len(b)
        /\ \A i \in 1..Len(a) + Len(b) :
               w[i] = IF i <= Len(a) THEN a[i] ELSE b[i - Len(a)]
    BY ConcatProperties
  <1> HIDE DEF w
  <1>d. /\ DOMAIN w = 1..Len(w) /\ DOMAIN a = 1..Len(a) /\ Len(a) \in Nat
        /\ DOMAIN b = 1..Len(b) /\ Len(b) \in Nat
    BY <1>1, LenProperties
  <1>2. \A i \in DOMAIN a : i \in DOMAIN w /\ w[i] = a[i]
    BY <1>1, <1>d
  <1>3. ASSUME NEW i \in DOMAIN b PROVE i + Len(a) \in DOMAIN w /\ w[i + Len(a)] = b[i]
    <2>1. i + Len(a) \in 1..(Len(a) + Len(b)) /\ ~(i + Len(a) <= Len(a)) /\ i + Len(a) - Len(a) = i
      BY <1>d
    <2> QED BY <1>1, <1>d, <2>1
  <1>4. Items(a) \cup Items(b) \subseteq Items(w)
    BY <1>2, <1>3 DEF Items
  <1>5. ASSUME NEW n \in Nat, Len(a) + Len(b) <= n PROVE Prefix(w, n) = w
    <2> DEFINE p == Prefix(w, n)
    <2>1. p \in Seq(Nat) /\ Len(p) = (IF Len(w) < n THEN Len(w) ELSE n) /\ \A i \in 1..Len(p) : p[i] = w[i]
      BY <1>1, PrefixType
    <2> HIDE DEF p
    <2>2. Len(p) = Len(w)
      <3>1. Len(w) \in Nat /\ Len(w) <= n
        BY <1>1, <1>d, <1>5
      <3>2. CASE Len(w) < n
        BY <2>1, <3>2
      <3>3. CASE Len(w) = n
        BY <2>1, <3>3
      <3> QED BY <3>1, <3>2, <3>3
    <2>3. p = w
      BY <1>1, <2>1, <2>2, SeqEqual
    <2> QED BY <2>3 DEF p
  <1> QED BY <1>4, <1>5 DEF w

\* Drain keeps every item of the ring, in the batch or in the ring.
LEMMA SplitKept ==
    ASSUME NEW q \in Seq(Nat), NEW n \in Nat
    PROVE  Items(q) \subseteq Items(Prefix(q, n)) \cup Items(Suffix(q, n))
  <1> DEFINE p == Prefix(q, n)
             t == Suffix(q, n)
  <1>1. /\ p \in Seq(Nat)
        /\ Len(p) = (IF Len(q) < n THEN Len(q) ELSE n)
        /\ \A i \in 1..Len(p) : p[i] = q[i]
    BY PrefixType
  <1>2. /\ t \in Seq(Nat)
        /\ Len(t) = (IF Len(q) < n THEN 0 ELSE Len(q) - n)
        /\ \A i \in 1..Len(t) : t[i] = q[i + n]
    BY SuffixType
  <1> HIDE DEF p, t
  <1>d. /\ DOMAIN p = 1..Len(p) /\ DOMAIN q = 1..Len(q) /\ Len(q) \in Nat
        /\ DOMAIN t = 1..Len(t) /\ Len(t) \in Nat
    BY <1>1, <1>2, LenProperties
  <1>3. ASSUME NEW i \in DOMAIN q PROVE q[i] \in Items(p) \cup Items(t)
    <2>1. CASE i <= n
      <3>1. i \in DOMAIN p
        BY <1>1, <1>d, <2>1
      <3> QED BY <1>1, <1>d, <3>1 DEF Items
    <2>2. CASE ~(i <= n)
      <3>0. i \in Nat /\ i <= Len(q) /\ n < i /\ ~ (Len(q) < n)
        BY <1>d, <2>2
      <3>1. Len(t) = Len(q) - n
        BY <1>2, <3>0
      <3>1a. i - n \in 1..Len(t) /\ (i - n) + n = i
        BY <1>d, <3>0, <3>1
      <3>2. t[i - n] = q[i]
        BY <1>2, <3>1a
      <3> QED BY <1>d, <3>1a, <3>2 DEF Items
    <2> QED BY <2>1, <2>2
  <1> QED BY <1>3 DEF Items, p, t

\* What the accounting needs of the order: the batch and the ring share nothing.
LEMMA BatchApart ==
    ASSUME PaidInv
    PROVE  /\ Items(ring) \cap Batch = {}
           /\ (disk \ inDisk) \cap Batch = {}
           /\ Items(ring) \subseteq Events /\ Batch \subseteq Events /\ disk \subseteq Events
           /\ faults \in Nat /\ accepted \in Nat /\ \A e \in Events : stored[e] \in Nat
<1>0. RelayTypeOK /\ OnePlace /\ InOrder
  BY DEF PaidInv, OrderInv
<1>1. Ordered(inRing, ring) /\ ring \in Seq(Nat) /\ inRing \in Seq(Nat)
  BY <1>0, OrderInvOrdered
<1>2. Items(ring) \cap Items(inRing) = {}
  <2>1. \A i \in DOMAIN inRing, j \in DOMAIN ring :
           inRing[i] < ring[j] /\ inRing[i] \in Nat /\ ring[j] \in Nat
    BY <1>1 DEF Ordered
  <2>2. \A i \in DOMAIN inRing, j \in DOMAIN ring : inRing[i] # ring[j]
    BY <2>1
  <2> QED BY <2>2 DEF Items
<1>3. Items(ring) \subseteq Events /\ Items(inRing) \subseteq Events /\ inDisk \subseteq Events
  BY <1>0 DEF RelayTypeOK, Items
<1> QED BY <1>0, <1>2, <1>3, RelayAssumption DEF PaidInv, OnePlace, Batch, RelayTypeOK

LEMMA PaidInit == RelayInit => PaidInv
<1> SUFFICES ASSUME RelayInit PROVE PaidInv
  OBVIOUS
<1>1. OrderInv
  BY OrderInit
<1>2. ring = <<>> /\ inRing = <<>> /\ disk = {} /\ inDisk = {} /\ todo = {} /\ pc = "idle"
      /\ faults = 0 /\ \A e \in Events : stored[e] = 0
  BY DEF RelayInit
<1>3. Items(ring) = {} /\ Items(inRing) = {} /\ Batch = {}
  BY <1>2, OrderedEmpty DEF Batch
<1> QED BY <1>1, <1>2, <1>3 DEF PaidInv

LEMMA PaidStep == PaidInv /\ [RelayNext]_relayVars => PaidInv'
<1> SUFFICES ASSUME PaidInv, [RelayNext]_relayVars PROVE PaidInv'
  OBVIOUS
<1>0. OrderInv /\ OrderInv' /\ RelayTypeOK /\ RelayTypeOK'
  BY OrderStep DEF PaidInv, OrderInv
<1>a. /\ Items(ring) \cap Batch = {} /\ (disk \ inDisk) \cap Batch = {}
      /\ Items(ring) \subseteq Events /\ Batch \subseteq Events /\ disk \subseteq Events
      /\ faults \in Nat /\ accepted \in Nat /\ \A e \in Events : stored[e] \in Nat
  BY BatchApart
<1>b. /\ ring \in Seq(Nat) /\ inRing \in Seq(Nat) /\ Increasing(ring) /\ Increasing(inRing \o ring)
      /\ Ordered(inRing, ring)
  BY <1>0, OrderInvOrdered DEF OrderInv, InOrder, Ordered
<1>c. pc \in {"idle", "stopped"} => inRing = <<>> /\ inDisk = {} /\ Batch = {}
  BY <1>0, OrderedEmpty DEF OrderInv, Batch
<1>1. CASE Enqueue
  <2>1. /\ accepted' = accepted + 1 /\ accepted + 1 \in Events
        /\ UNCHANGED <<inRing, inDisk, pc, ctxDone, todo, stored, faults, Batch>>
    <3>1. accepted < MaxEvents /\ accepted' = accepted + 1
      BY <1>1 DEF Enqueue
    <3>2. accepted + 1 \in Events
      BY <1>a, <3>1, RelayAssumption DEF Events
    <3>3. UNCHANGED <<inRing, inDisk, pc, ctxDone, todo, stored, faults>>
      BY <1>1 DEF Enqueue, drainerVars
    <3> QED BY <3>1, <3>2, <3>3 DEF Batch
  <2>2. PICK e \in {accepted + 1} :
          RingHasSlack(e) \/ DiskHasSlack(e) \/ EvictDisk(e) \/ EvictRing(e)
    BY <1>1 DEF Enqueue
  <2>3. e = accepted + 1 /\ e \in Events /\ stored[e] = 0 /\ e \notin Batch
    <3>1. e = accepted + 1 /\ e \in Events /\ e > accepted
      BY <2>1, <2>2, <1>a
    <3>2. \A f \in Batch : f <= accepted
      BY <1>0 DEF OrderInv, Batch, Held
    <3>3. e \notin Batch
      BY <1>a, <3>1, <3>2
    <3> QED BY <3>1, <3>3 DEF PaidInv
  <2>4. /\ Items(ring') \subseteq Items(ring) \cup {e} /\ disk' \subseteq disk \cup {e}
        /\ ~ HasDisk => disk' \subseteq disk
    <3>0. \A f \in Items(inRing) \cup Items(ring) : f < e
      <4>1. \A f \in Items(inRing) \cup Items(ring) : f <= accepted /\ f \in Nat
        <5>1. Items(inRing) \cup Items(ring) \subseteq Nat
          BY <1>b DEF Items
        <5> QED BY <1>0, <5>1 DEF OrderInv, Held
      <4> QED BY <1>a, <2>3, <4>1
    <3>1. CASE RingHasSlack(e)
      <4>1. ring' = Append(ring, e) /\ disk' = disk /\ e \in Nat
        BY <1>a, <2>3, <3>1 DEF RingHasSlack
      <4>2. Items(ring') = Items(ring) \cup {e}
        BY <1>b, <3>0, <4>1, OrderedAppend
      <4> QED BY <4>1, <4>2
    <3>2. CASE DiskHasSlack(e) \/ EvictDisk(e)
      BY <3>2 DEF DiskHasSlack, EvictDisk
    <3>3. CASE EvictRing(e)
      <4>1. ring' = Append(Tail(ring), e) /\ disk' \subseteq disk /\ ring # <<>> /\ e \in Nat
        BY <1>0, <1>a, <2>3, <3>3, RelayAssumption DEF EvictRing, RelayTypeOK
      <4> DEFINE t == Tail(ring)
      <4>2. t \in Seq(Nat) /\ Ordered(inRing, t) /\ Items(t) \subseteq Items(ring)
        BY <1>b, <4>1, OrderedTail, HeadTailProperties
      <4>3. ring' = Append(t, e)
        BY <4>1
      <4> HIDE DEF t
      <4>4. e \in Nat /\ inRing \in Seq(Nat)
        BY <1>b, <4>1
      <4>5. Items(ring') = Items(t) \cup {e}
        BY <3>0, <4>2, <4>3, <4>4, OrderedAppend
      <4> QED BY <4>1, <4>2, <4>3, <4>5
    <3> QED BY <2>2, <3>1, <3>2, <3>3
  <2>5. \A f \in Events : f > accepted' => f > accepted
    BY <1>a, <2>1 DEF Events
  <2>6. inDisk' \cap (Items(ring') \cup Items(inRing')) = {}
    BY <2>1, <2>3, <2>4 DEF PaidInv, Batch
  <2>7. pc' # "stopped" => \A f \in (Items(ring') \cup disk') \ Batch' : stored'[f] <= faults'
    <3>1. stored[e] <= faults
      BY <1>a, <2>3
    <3>2. (Items(ring') \cup disk') \ Batch' \subseteq ((Items(ring) \cup disk) \ Batch) \cup {e}
      BY <2>1, <2>4
    <3>3. pc # "stopped" => \A f \in (Items(ring) \cup disk) \ Batch : stored[f] <= faults
      BY DEF PaidInv
    <3> QED BY <2>1, <3>1, <3>2, <3>3
  <2> QED BY <1>0, <1>a, <2>1, <2>4, <2>5, <2>6, <2>7 DEF PaidInv
<1>2. CASE Drain
  <2>1. /\ inRing' = Prefix(ring, BatchSize) /\ ring' = Suffix(ring, BatchSize)
        /\ inDisk' \subseteq disk /\ todo' = Batch' /\ pc = "idle" /\ pc' = "sending"
        /\ UNCHANGED <<disk, accepted, ctxDone, stored, faults>>
    BY <1>2 DEF Drain, DiskPeek, Readable, Batch
  <2>2. Items(inRing') \cup Items(ring') \subseteq Items(ring)
    BY <1>b, <2>1, SplitOrdered, RelayAssumption
  <2>3. disk \cap Items(ring) = {}
    BY <1>0 DEF OrderInv, OnePlace
  <2>4. \A e \in Items(ring) \cup disk : stored[e] <= faults
    BY <1>c, <2>1 DEF PaidInv
  <2> QED BY <1>0, <1>a, <2>1, <2>2, <2>3, <2>4 DEF PaidInv, Batch
<1>3. CASE Requeue
  <2>1. /\ ring' = Prefix(inRing \o ring, RingSize) /\ inRing' = <<>> /\ inDisk' = {}
        /\ UNCHANGED <<disk, accepted, todo, ctxDone, stored, faults>>
        /\ pc = "failed" /\ pc' = (IF ctxDone THEN "stopped" ELSE "idle")
    BY <1>3 DEF Requeue, Requeued, EndBatch
  <2>2. Items(ring') \subseteq Items(inRing) \cup Items(ring)
    <3>1. inRing \o ring \in Seq(Nat)
      BY <1>b, ConcatProperties
    <3> QED BY <1>b, <2>1, <3>1, PrefixIncreasing, ItemsConcat, RelayAssumption
  <2>3. Items(inRing') = {} /\ Batch' = {}
    BY <2>1, OrderedEmpty DEF Batch
  <2>4. pc' # "stopped" => \A e \in Items(ring) \cup disk \cup Batch : stored[e] <= faults
    BY <2>1 DEF PaidInv
  <2>5. todo = {}
    BY <2>1 DEF PaidInv
  <2> QED BY <1>0, <2>1, <2>2, <2>3, <2>4, <2>5 DEF PaidInv, Batch
<1>4. CASE Ack
  <2>1. /\ ring' = ring /\ inRing' = <<>> /\ inDisk' = {} /\ disk' = disk \ inDisk
        /\ UNCHANGED <<accepted, todo, ctxDone, stored, faults>> /\ pc = "acking" /\ pc' = "idle"
    BY <1>4 DEF Ack, EndBatch
  <2>2. Items(inRing') = {} /\ Batch' = {}
    BY <2>1, OrderedEmpty DEF Batch
  <2>3. todo = {} /\ \A e \in Items(ring) \cup (disk \ inDisk) : stored[e] <= faults
    BY <1>a, <2>1 DEF PaidInv
  <2> QED BY <1>0, <2>1, <2>2, <2>3 DEF PaidInv
<1>5. CASE AckError
  <2>1. /\ ring' = ring /\ inRing' = <<>> /\ inDisk' = {} /\ disk' = disk
        /\ UNCHANGED <<accepted, todo, ctxDone, stored>> /\ pc = "acking" /\ pc' = "idle"
        /\ faults' = faults + 1
    BY <1>5 DEF AckError, EndBatch, Fault, outboxVars
  <2>2. Items(inRing') = {} /\ Batch' = {}
    BY <2>1, OrderedEmpty DEF Batch
  <2>3. todo = {} /\ \A e \in Events : stored[e] <= faults'
    BY <2>1 DEF PaidInv
  <2>4. \A e \in Events : stored[e] <= faults' + 1
    BY <1>a, <2>1, <2>3
  <2> QED BY <1>0, <1>a, <2>1, <2>2, <2>3, <2>4 DEF PaidInv
<1>6. CASE DrainError
  <2>1. /\ ring' = <<>> /\ pc = "idle" /\ faults' = faults + 1
        /\ UNCHANGED <<inRing, inDisk, disk, accepted, pc, ctxDone, todo, stored, Batch>>
    BY <1>6 DEF DrainError, Fault, drainerVars, Batch
  <2>2. Items(ring') = {} /\ Batch = {}
    BY <1>c, <2>1, OrderedEmpty
  <2>3. \A e \in Events : stored[e] <= faults' /\ stored[e] <= faults' + 1
    BY <1>a, <2>1 DEF PaidInv
  <2> QED BY <1>0, <1>a, <2>1, <2>2, <2>3 DEF PaidInv
<1>7. CASE Crash
  <2>1. /\ ring' = <<>> /\ inRing' = <<>> /\ inDisk' = {} /\ todo' = {} /\ pc' = "idle"
        /\ faults' = faults + 1 /\ UNCHANGED <<disk, accepted, stored>>
    BY <1>7 DEF Crash, Fault, EndBatch
  <2>2. Items(ring') = {} /\ Items(inRing') = {} /\ Batch' = {}
    BY <2>1, OrderedEmpty DEF Batch
  <2>3. \A e \in Events : stored[e] <= faults' /\ stored[e] <= faults' + 1
    BY <1>a, <2>1 DEF PaidInv
  <2> QED BY <1>0, <1>a, <2>1, <2>2, <2>3 DEF PaidInv
<1>8. CASE InsertRow
  <2>1. /\ UNCHANGED <<ring, inRing, inDisk, disk, accepted, pc, ctxDone, faults, Batch>>
        /\ pc = "sending"
    BY <1>8 DEF InsertRow, outboxVars, drainerVars, Batch
  <2>2. PICK e \in todo :
          /\ todo' = todo \ {e}
          /\ \/ e \in Undecodable /\ stored' = stored
             \/ e \notin Undecodable /\ stored' = [stored EXCEPT ![e] = @ + 1]
    BY <1>8 DEF InsertRow
  <2>3. e \in Batch /\ e \in Events /\ stored[e] <= faults /\ e <= accepted
    BY <1>0, <1>a DEF PaidInv, OrderInv, Batch, Held
  <2>4. /\ stored'[e] = stored[e] + 1 \/ (e \in Undecodable /\ stored'[e] = stored[e])
        /\ \A f \in Events \ {e} : stored'[f] = stored[f]
    BY <1>0, <2>2, <2>3 DEF RelayTypeOK
  <2>5. \A f \in Events : stored'[f] <= faults' + 1
    BY <1>a, <2>1, <2>3, <2>4 DEF PaidInv
  <2>6. \A f \in Events : f > accepted' => stored'[f] = 0
    <3>1. ~ (e > accepted)
      BY <1>a, <2>3 DEF Events
    <3> QED BY <2>1, <2>4, <3>1 DEF PaidInv
  <2>7. \A f \in todo' : stored'[f] <= faults'
    BY <1>a, <2>1, <2>2, <2>4 DEF PaidInv
  <2>8. \A f \in (Items(ring) \cup disk) \ Batch : stored'[f] <= faults'
    BY <1>a, <2>1, <2>3, <2>4 DEF PaidInv
  <2>9. \A f \in Batch \ todo' : stored'[f] > 0 \/ f \in Undecodable
    BY <1>a, <2>1, <2>2, <2>3, <2>4 DEF PaidInv
  <2> QED BY <1>0, <2>1, <2>2, <2>5, <2>6, <2>7, <2>8, <2>9 DEF PaidInv
<1>9. CASE SendError
  <2>1. /\ UNCHANGED <<ring, inRing, inDisk, disk, accepted, ctxDone, stored, Batch>>
        /\ pc = "sending" /\ pc' = "failed" /\ todo' = {}
        /\ faults' = faults + 1 \/ (faults' = faults /\ ctxDone)
    BY <1>9 DEF SendError, Fault, outboxVars, Batch
  <2>2. /\ \A e \in Events : stored[e] <= faults' + 1
        /\ \A e \in (Items(ring) \cup disk) \ Batch : stored[e] <= faults'
        /\ ctxDone \/ \A e \in Batch : stored[e] <= faults'
    BY <1>a, <2>1 DEF PaidInv
  <2> QED BY <1>0, <2>1, <2>2 DEF PaidInv
<1>10. CASE SendOk
  <2>1. /\ UNCHANGED <<ring, inRing, inDisk, disk, accepted, ctxDone, todo, stored, faults, Batch>>
        /\ pc = "sending" /\ pc' = "acking" /\ todo = {}
    BY <1>10 DEF SendOk, outboxVars, Batch
  <2> QED BY <1>0, <2>1 DEF PaidInv
<1>11. CASE StopDrainer
  <2>1. UNCHANGED <<ring, inRing, inDisk, disk, accepted, pc, todo, stored, faults, Batch>> /\ ctxDone'
    BY <1>11 DEF StopDrainer, outboxVars, Batch
  <2> QED BY <1>0, <2>1 DEF PaidInv
<1>12. CASE LeaveLoop
  <2>1. /\ UNCHANGED <<ring, inRing, inDisk, disk, accepted, ctxDone, todo, stored, faults, Batch>>
        /\ pc = "idle" /\ pc' = "stopped"
    BY <1>12 DEF LeaveLoop, outboxVars, Batch
  <2> QED BY <1>0, <2>1 DEF PaidInv
<1>13. CASE IdlePoll \/ UNCHANGED relayVars
  <2>1. UNCHANGED <<ring, inRing, inDisk, disk, accepted, pc, ctxDone, todo, stored, faults, Batch>>
    BY <1>13 DEF IdlePoll, relayVars, outboxVars, drainerVars, Batch
  <2> QED BY <1>0, <2>1 DEF PaidInv
<1> QED BY <1>1, <1>2, <1>3, <1>4, <1>5, <1>6, <1>7, <1>8, <1>9, <1>10, <1>11, <1>12, <1>13 DEF RelayNext

LEMMA PaidInvariant == RelaySpec => []PaidInv
  BY PaidInit, PaidStep, PTL DEF RelaySpec

\* At least once has a price: however calls fail, answers are lost and the process
\* dies, an event has at most one row more than there were faults.
THEOREM RelayDuplicatesPaid == RelaySpec => []DuplicatesPaid
<1>1. PaidInv => DuplicatesPaid
  BY DEF PaidInv, DuplicatesPaid
<1> QED BY <1>1, PaidInvariant, PTL

\* What Enqueue, Requeue and Ack let go of.
LEMMA LossStep ==
    ASSUME PaidInv, [RelayNext]_relayVars, NEW e \in Held \ Held'
    PROVE  Delivered(e) \/ Len(ring) + Len(inRing) >= RingSize \/ faults' > faults
<1>0. OrderInv /\ RelayTypeOK
  BY DEF PaidInv, OrderInv
<1>a. faults \in Nat /\ Len(ring) \in Nat /\ Len(inRing) \in Nat /\ RingSize \in Nat
  BY <1>0, BatchApart, RelayAssumption DEF RelayTypeOK
<1>b. ring \in Seq(Nat) /\ inRing \in Seq(Nat) /\ Ordered(inRing, ring)
  BY <1>0, OrderInvOrdered DEF OrderInv
<1>1. CASE Enqueue
  <2>1. PICK x \in {accepted + 1} :
          RingHasSlack(x) \/ DiskHasSlack(x) \/ EvictDisk(x) \/ EvictRing(x)
    BY <1>1 DEF Enqueue
  <2>2. inRing' = inRing
    BY <1>1 DEF Enqueue, drainerVars
  <2>3. CASE Len(ring) = RingSize
    BY <1>a, <2>3
  <2>4. CASE RingHasSlack(x)
    <3>1. ring' = Append(ring, x) /\ disk' = disk /\ x \in Nat
      BY <1>0, <2>4 DEF RingHasSlack, RelayTypeOK
    <3>2. Items(ring) \subseteq Items(ring')
      <4>1. \A i \in DOMAIN ring : i \in DOMAIN ring' /\ ring'[i] = ring[i]
        BY <1>b, <3>1, AppendProperties
      <4> QED BY <4>1 DEF Items
    <3> QED BY <2>2, <3>1, <3>2 DEF Held
  <2> QED BY <2>1, <2>3, <2>4 DEF DiskHasSlack, EvictDisk, EvictRing
<1>2. CASE Drain
  <2>1. /\ inRing' = Prefix(ring, BatchSize) /\ ring' = Suffix(ring, BatchSize) /\ disk' = disk
        /\ inRing = <<>>
    BY <1>0, <1>2 DEF Drain, OrderInv
  <2>2. Items(ring) \subseteq Items(inRing') \cup Items(ring') /\ Items(inRing) = {}
    BY <1>b, <2>1, SplitKept, OrderedEmpty, RelayAssumption
  <2> QED BY <2>1, <2>2 DEF Held
<1>3. CASE Requeue
  <2>1. ring' = Prefix(inRing \o ring, RingSize) /\ disk' = disk
    BY <1>3 DEF Requeue, Requeued
  <2>2. CASE Len(inRing) + Len(ring) <= RingSize
    <3>1. ring' = inRing \o ring /\ Items(inRing) \cup Items(ring) \subseteq Items(inRing \o ring)
      BY <1>a, <1>b, <2>1, <2>2, ItemsKept
    <3> QED BY <2>1, <3>1 DEF Held
  <2>3. CASE ~ (Len(inRing) + Len(ring) <= RingSize)
    BY <1>a, <2>3
  <2> QED BY <2>2, <2>3
<1>4. CASE Ack
  <2>1. ring' = ring /\ disk' = disk \ inDisk /\ pc = "acking"
    BY <1>4 DEF Ack
  <2>2. e \in Batch
    BY <2>1 DEF Held, Batch
  <2> QED BY <2>1, <2>2 DEF PaidInv, Delivered
<1>5. CASE AckError \/ DrainError \/ Crash
  <2>1. faults' = faults + 1
    BY <1>5 DEF AckError, DrainError, Crash, Fault
  <2> QED BY <1>a, <2>1
<1>6. CASE IdlePoll \/ InsertRow \/ SendOk \/ SendError \/ StopDrainer \/ LeaveLoop \/ UNCHANGED relayVars
  <2>1. ring' = ring /\ inRing' = inRing /\ disk' = disk
    BY <1>6 DEF IdlePoll, InsertRow, SendOk, SendError, StopDrainer, LeaveLoop, relayVars, outboxVars, drainerVars
  <2> QED BY <2>1 DEF Held
<1> QED BY <1>1, <1>2, <1>3, <1>4, <1>5, <1>6 DEF RelayNext

\* drainer.go "never gives up": an event is let go of once the receiver has stored
\* or rejected it, for lack of room, or in a fault.
THEOREM RelayNoSilentLoss == RelaySpec => NoSilentLoss
<1>1. PaidInv /\ [RelayNext]_relayVars =>
         [\A e \in Held \ Held' : \/ Delivered(e)
                                  \/ Len(ring) + Len(inRing) >= RingSize
                                  \/ faults' > faults]_relayVars
  BY LossStep
<1> QED BY <1>1, PaidInvariant, PTL DEF RelaySpec, NoSilentLoss

\* outbox.go: a row of the overflow file is deleted by an Ack of events the
\* receiver stored or rejected, or by an eviction when ring and file are both full; never by a failed call or a
\* crash.
THEOREM RelayDiskRowsSurvive == RelaySpec => DiskRowsSurvive
<1>1. ASSUME PaidInv, [RelayNext]_relayVars, NEW e \in disk \ disk'
      PROVE  Delivered(e) \/ (Len(ring) = RingSize /\ DiskFull)
  <2>1. CASE Enqueue
    <3>1. PICK x \in {accepted + 1} :
            RingHasSlack(x) \/ DiskHasSlack(x) \/ EvictDisk(x) \/ EvictRing(x)
      BY <2>1 DEF Enqueue
    <3>2. HasDisk
      BY <1>1 DEF PaidInv
    <3> QED BY <3>1, <3>2 DEF RingHasSlack, DiskHasSlack, EvictDisk, EvictRing
  <2>2. CASE Ack
    <3>1. disk' = disk \ inDisk /\ pc = "acking"
      BY <2>2 DEF Ack
    <3>2. e \in Batch \ todo
      BY <1>1, <3>1 DEF PaidInv, Batch
    <3> QED BY <1>1, <3>1, <3>2 DEF PaidInv, Delivered
  <2>3. CASE ~ Enqueue /\ ~ Ack
    <3>1. disk' = disk
      BY <1>1, <2>3 DEF RelayNext, Drain, IdlePoll, DrainError, InsertRow, SendOk, SendError, AckError,
         Requeue, StopDrainer, LeaveLoop, Crash, relayVars, outboxVars
    <3> QED BY <3>1
  <2> QED BY <2>1, <2>2, <2>3
<1>2. PaidInv /\ [RelayNext]_relayVars =>
         [\A e \in disk \ disk' : Delivered(e) \/ (Len(ring) = RingSize /\ DiskFull)]_relayVars
  BY <1>1
<1> QED BY <1>2, PaidInvariant, PTL DEF RelaySpec, DiskRowsSurvive
=============================================================================
