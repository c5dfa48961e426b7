-------------------------- MODULE ChatRouterProofs --------------------------
(***************************************************************************)
(* Proofs about ChatRouter, for any number of servers, agents, sessions,   *)
(* sockets and restarts: an assignment is always to somebody in its ring,  *)
(* and a session that waits is in exactly one place.                       *)
(***************************************************************************)
EXTENDS Chat, SequenceTheorems, FiniteSetTheorems, TLAPS

Distinct(q) == \A i, j \in DOMAIN q : q[i] = q[j] => i = j

LEMMA EmptyElements == Elements(<<>>) = {} /\ Distinct(<<>>)
  BY DEF Elements, Distinct

LEMMA AppendElements ==
    ASSUME NEW S, NEW q \in Seq(S), NEW x \in S
    PROVE  /\ Append(q, x) \in Seq(S) /\ Elements(Append(q, x)) = Elements(q) \cup {x}
           /\ Append(q, x) # <<>>
           /\ Distinct(q) /\ x \notin Elements(q) => Distinct(Append(q, x))
<1> DEFINE a == Append(q, x)
<1>1. /\ a \in Seq(S) /\ Len(a) = Len(q) + 1 /\ Len(q) \in Nat /\ DOMAIN q = 1..Len(q)
      /\ DOMAIN a = 1..Len(a) /\ (\A i \in 1..Len(q) : a[i] = q[i]) /\ a[Len(q) + 1] = x
      /\ a # <<>>
  BY AppendProperties, LenProperties
<1> HIDE DEF a
<1>2. DOMAIN a = DOMAIN q \cup {Len(q) + 1} /\ \A i \in DOMAIN q : a[i] = q[i]
  BY <1>1
<1>3. Elements(a) = Elements(q) \cup {x}
  BY <1>1, <1>2 DEF Elements
<1>4. ASSUME Distinct(q), x \notin Elements(q), NEW i \in DOMAIN a, NEW j \in DOMAIN a, a[i] = a[j]
      PROVE  i = j
  BY <1>1, <1>2, <1>4 DEF Distinct, Elements
<1> QED BY <1>1, <1>3, <1>4 DEF a, Distinct

LEMMA ConcatElements ==
    ASSUME NEW S, NEW p \in Seq(S), NEW q \in Seq(S)
    PROVE  /\ p \o q \in Seq(S) /\ Elements(p \o q) = Elements(p) \cup Elements(q)
           /\ Distinct(p) /\ Distinct(q) /\ Elements(p) \cap Elements(q) = {} => Distinct(p \o q)
<1> DEFINE w == p \o q
           m == Len(p)
<1>1. /\ w \in Seq(S) /\ Len(w) = Len(p) + Len(q)
      /\ \A i \in 1..Len(p) + Len(q) : w[i] = IF i <= Len(p) THEN p[i] ELSE q[i - Len(p)]
  BY ConcatProperties
<1>2. /\ DOMAIN w = 1..Len(w) /\ DOMAIN p = 1..Len(p) /\ Len(p) \in Nat
      /\ DOMAIN q = 1..Len(q) /\ Len(q) \in Nat
  BY <1>1, LenProperties
<1> HIDE DEF w, m
<1>3. \A i \in DOMAIN p : i \in DOMAIN w /\ w[i] = p[i]
  BY <1>1, <1>2
<1>4. ASSUME NEW i \in DOMAIN q PROVE i + m \in DOMAIN w /\ w[i + m] = q[i]
  <2>1. i + m \in 1..(Len(p) + Len(q)) /\ ~ (i + m <= Len(p)) /\ i + m - Len(p) = i
    BY <1>2 DEF m
  <2>2. i + m \in DOMAIN w
    BY <1>1, <1>2, <2>1
  <2>3. w[i + m] = q[i]
    <3>1. ASSUME NEW k, k = i + m PROVE w[k] = q[i]
      <4>1. k \in 1..(Len(p) + Len(q)) /\ ~ (k <= Len(p)) /\ k - Len(p) = i
        BY <1>2, <3>1 DEF m
      <4>2. w[k] = q[k - Len(p)]
        BY <1>1, <4>1
      <4> QED BY <4>1, <4>2
    <3> QED BY <3>1
  <2> QED BY <2>2, <2>3
<1>5. ASSUME NEW i \in DOMAIN w
      PROVE  \/ i \in DOMAIN p /\ w[i] = p[i]
             \/ i - m \in DOMAIN q /\ w[i] = q[i - m] /\ i = (i - m) + m
  <2>1. CASE i <= Len(p)
    BY <1>1, <1>2, <2>1
  <2>2. CASE ~ (i <= Len(p))
    <3>1. i - m \in 1..Len(q) /\ i = (i - m) + m
      BY <1>1, <1>2, <2>2 DEF m
    <3>2. w[i] = q[i - m]
      BY <1>1, <1>2, <2>2 DEF m
    <3> QED BY <1>2, <3>1, <3>2
  <2> QED BY <2>1, <2>2
<1>6. Elements(w) = Elements(p) \cup Elements(q)
  <2>1. Elements(p) \cup Elements(q) \subseteq Elements(w)
    BY <1>3, <1>4 DEF Elements
  <2>2. Elements(w) \subseteq Elements(p) \cup Elements(q)
    BY <1>5 DEF Elements
  <2> QED BY <2>1, <2>2
<1>7. ASSUME Distinct(p), Distinct(q), Elements(p) \cap Elements(q) = {},
             NEW i \in DOMAIN w, NEW j \in DOMAIN w, w[i] = w[j]
      PROVE  i = j
  <2>0. \A k \in DOMAIN p, h \in DOMAIN q : p[k] # q[h]
    BY <1>7 DEF Elements
  <2>1. CASE i \in DOMAIN p /\ w[i] = p[i]
    <3>1. ~ (j - m \in DOMAIN q /\ w[j] = q[j - m])
      BY <1>7, <2>0, <2>1
    <3>2. j \in DOMAIN p /\ w[j] = p[j]
      BY <1>5, <3>1
    <3> QED BY <1>7, <2>1, <3>2 DEF Distinct
  <2>2. CASE i - m \in DOMAIN q /\ w[i] = q[i - m] /\ i = (i - m) + m
    <3>1. ~ (j \in DOMAIN p /\ w[j] = p[j])
      BY <1>7, <2>0, <2>2
    <3>2. j - m \in DOMAIN q /\ w[j] = q[j - m] /\ j = (j - m) + m
      BY <1>5, <3>1
    <3>3. i - m = j - m
      BY <1>7, <2>2, <3>2 DEF Distinct
    <3> QED BY <2>2, <3>2, <3>3
  <2> QED BY <1>5, <2>1, <2>2
<1> QED BY <1>1, <1>6, <1>7 DEF w, Distinct

LEMMA TailElements ==
    ASSUME NEW S, NEW q \in Seq(S), q # <<>>
    PROVE  /\ Tail(q) \in Seq(S) /\ Head(q) \in S /\ Elements(q) = {Head(q)} \cup Elements(Tail(q))
           /\ Distinct(q) => Distinct(Tail(q)) /\ Head(q) \notin Elements(Tail(q))
<1> DEFINE t == Tail(q)
           h == Head(q)
<1>1. /\ t \in Seq(S) /\ h \in S /\ Len(t) = Len(q) - 1 /\ h = q[1]
      /\ \A i \in 1..Len(t) : t[i] = q[i + 1]
  BY HeadTailProperties
<1>2. DOMAIN q = 1..Len(q) /\ DOMAIN t = 1..Len(t) /\ Len(q) \in Nat /\ Len(t) \in Nat
  BY <1>1, LenProperties
<1> HIDE DEF t, h
<1>3. \A i \in DOMAIN t : i + 1 \in DOMAIN q /\ i + 1 # 1 /\ t[i] = q[i + 1]
  BY <1>1, <1>2
<1>4. ASSUME NEW i \in DOMAIN q PROVE i = 1 \/ (i - 1 \in DOMAIN t /\ t[i - 1] = q[i])
  <2>1. CASE i # 1
    <3>1. i - 1 \in 1..Len(t) /\ (i - 1) + 1 = i
      BY <1>1, <1>2, <2>1
    <3> QED BY <1>1, <1>2, <3>1
  <2> QED BY <2>1
<1>5. 1 \in DOMAIN q
  BY <1>1, <1>2
<1>6. Elements(q) = {h} \cup Elements(t)
  <2>1. Elements(q) \subseteq {h} \cup Elements(t)
    BY <1>1, <1>4 DEF Elements
  <2>2. {h} \cup Elements(t) \subseteq Elements(q)
    BY <1>1, <1>3, <1>5 DEF Elements
  <2> QED BY <2>1, <2>2
<1>7. ASSUME Distinct(q) PROVE Distinct(t) /\ h \notin Elements(t)
  <2>1. h \notin Elements(t)
    BY <1>1, <1>3, <1>5, <1>7 DEF Distinct, Elements
  <2>2. ASSUME NEW i \in DOMAIN t, NEW j \in DOMAIN t, t[i] = t[j] PROVE i = j
    <3>1. i + 1 = j + 1
      BY <1>3, <1>7, <2>2 DEF Distinct
    <3> QED BY <1>2, <3>1
  <2> QED BY <2>1, <2>2 DEF Distinct
<1> QED BY <1>1, <1>6, <1>7 DEF t, h
LEMMA FirstOf ==
    ASSUME NEW T \in SUBSET Nat, T # {} PROVE \E m \in T : \A k \in T : m <= k
<1> DEFINE R == OpToRel(<, Nat)
<1>1. \E m \in T : \A k \in T : <<k, m>> \notin R
  <2>1. IsWellFoundedOn(R, Nat)
    BY NatLessThanWellFounded
  <2> HIDE DEF R
  <2> QED BY <2>1, WFMin
<1>2. \A k, m \in Nat : k < m => <<k, m>> \in R
  BY DEF OpToRel
<1> HIDE DEF R
<1>3. PICK m \in T : \A k \in T : <<k, m>> \notin R
  BY <1>1
<1>4. ASSUME NEW k \in T PROVE m <= k
  <2>1. m \in Nat /\ k \in Nat /\ ~ (k < m)
    BY <1>2, <1>3
  <2> QED BY <2>1
<1> QED BY <1>4

LEMMA ShuffleElements ==
    ASSUME NEW S, NEW ring \in Seq(S), NEW a
    PROVE  /\ ShuffleToTail(ring, a) \in Seq(S)
           /\ Elements(ShuffleToTail(ring, a)) = Elements(ring)
<1>1. CASE a \notin Elements(ring)
  BY <1>1 DEF ShuffleToTail
<1>2. CASE a \in Elements(ring)
  <2>0. DOMAIN ring = 1..Len(ring) /\ Len(ring) \in Nat /\ \A i \in DOMAIN ring : ring[i] \in S
    BY LenProperties, ElementOfSeq
  <2> DEFINE First(j) == ring[j] = a /\ \A h \in 1..(j - 1) : ring[h] # a
             i == CHOOSE j \in DOMAIN ring : First(j)
             l == SubSeq(ring, 1, i - 1)
             r == SubSeq(ring, i + 1, Len(ring))
  <2>1. \E j \in DOMAIN ring : First(j)
    <3> DEFINE T == {j \in DOMAIN ring : ring[j] = a}
    <3>1. T \in SUBSET Nat /\ T # {}
      BY <1>2, <2>0 DEF Elements
    <3>2. PICK m \in T : \A k \in T : m <= k
      BY <3>1, FirstOf
    <3>3. \A h \in 1..(m - 1) : h \in DOMAIN ring /\ ~ (m <= h)
      BY <2>0
    <3> QED BY <3>2, <3>3
  <2>2. i \in DOMAIN ring /\ ring[i] = a
    BY <2>1
  <2>3. ShuffleToTail(ring, a) = Append(l \o r, a)
    BY <1>2 DEF ShuffleToTail
  <2> HIDE DEF i, First
  <2>4. /\ l \in Seq(S) /\ Len(l) = i - 1 /\ \A k \in 1..(i - 1) : l[k] = ring[k]
    BY <2>0, <2>2, SubSeqProperties
  <2>5. /\ r \in Seq(S) /\ Len(r) = Len(ring) - i
        /\ \A k \in 1..(Len(ring) - i) : r[k] = ring[i + k]
    BY <2>0, <2>2, SubSeqProperties
  <2> HIDE DEF l, r
  <2>6. DOMAIN l = 1..(i - 1) /\ DOMAIN r = 1..(Len(ring) - i)
    BY <2>4, <2>5, LenProperties
  <2>7. Elements(l) \cup Elements(r) \subseteq Elements(ring)
    <3>1. \A k \in DOMAIN l : k \in DOMAIN ring /\ l[k] = ring[k]
      BY <2>0, <2>2, <2>4, <2>6
    <3>2. \A k \in DOMAIN r : i + k \in DOMAIN ring /\ r[k] = ring[i + k]
      BY <2>0, <2>2, <2>5, <2>6
    <3> QED BY <3>1, <3>2 DEF Elements
  <2>8. ASSUME NEW k \in DOMAIN ring PROVE ring[k] \in Elements(l) \cup Elements(r) \cup {a}
    <3>1. CASE k < i
      <4>1. k \in DOMAIN l /\ l[k] = ring[k]
        BY <2>0, <2>2, <2>4, <2>6, <3>1
      <4> QED BY <4>1 DEF Elements
    <3>2. CASE k = i
      BY <2>2, <3>2
    <3>3. CASE k > i
      <4>1. k - i \in 1..(Len(ring) - i) /\ i + (k - i) = k
        BY <2>0, <2>2, <3>3
      <4>2. k - i \in DOMAIN r /\ r[k - i] = ring[k]
        BY <2>5, <2>6, <4>1
      <4> QED BY <4>2 DEF Elements
    <3> QED BY <2>0, <2>2, <3>1, <3>2, <3>3
  <2>9. Elements(ring) = Elements(l) \cup Elements(r) \cup {a}
    BY <1>2, <2>7, <2>8 DEF Elements
  <2>10. l \o r \in Seq(S) /\ Elements(l \o r) = Elements(l) \cup Elements(r)
    BY <2>4, <2>5, ConcatElements
  <2> DEFINE w == l \o r
  <2> HIDE DEF w
  <2>11. a \in S /\ w \in Seq(S) /\ Elements(w) = Elements(l) \cup Elements(r)
    BY <2>0, <2>2, <2>10 DEF w
  <2>12. Append(w, a) \in Seq(S) /\ Elements(Append(w, a)) = Elements(w) \cup {a}
    BY <2>11, AppendElements
  <2> QED BY <2>3, <2>9, <2>11, <2>12 DEF w
<1> QED BY <1>1, <1>2

\* A slot's rank among the kept ones numbers them from one on, so nobody else's
\* slot is lost.
LEMMA WithoutElements ==
    ASSUME NEW S, NEW ring \in Seq(S), NEW a
    PROVE  /\ Without(ring, a) \in Seq(S)
           /\ Elements(ring) \ {a} \subseteq Elements(Without(ring, a))
<1> DEFINE kept == {i \in DOMAIN ring : ring[i] # a}
           Low(i) == {h \in kept : h <= i}
           Rank(i) == Cardinality(Low(i))
           n == Cardinality(kept)
           w == [k \in 1..n |-> ring[CHOOSE i \in kept : Rank(i) = k]]
<1>0. DOMAIN ring = 1..Len(ring) /\ Len(ring) \in Nat /\ \A i \in DOMAIN ring : ring[i] \in S
  BY LenProperties, ElementOfSeq
<1>1. IsFiniteSet(kept) /\ kept \subseteq Nat
  <2>1. IsFiniteSet(1..Len(ring))
    BY <1>0, FS_Interval
  <2> QED BY <1>0, <2>1, FS_Subset
<1>2. n \in Nat
  BY <1>1, FS_CardinalityType
<1>3. Without(ring, a) = w
  BY DEF Without
<1> HIDE DEF kept, n
<1>4. ASSUME NEW i \in kept PROVE Rank(i) \in 1..n
  <2>1. Low(i) \in SUBSET kept /\ i \in Low(i)
    BY <1>1
  <2> HIDE DEF Low
  <2>2. IsFiniteSet(Low(i)) /\ Rank(i) <= n
    BY <1>1, <2>1, FS_Subset DEF n
  <2>3. Rank(i) \in Nat /\ Rank(i) # 0
    BY <2>1, <2>2, FS_CardinalityType, FS_EmptySet
  <2> QED BY <1>2, <2>2, <2>3
<1>5. ASSUME NEW i \in kept, NEW j \in kept, i < j PROVE Rank(i) # Rank(j)
  <2>1. Low(i) \in SUBSET Low(j) /\ Low(j) \in SUBSET kept /\ Low(i) # Low(j)
    <3>1. j \in Low(j) /\ j \notin Low(i)
      BY <1>1, <1>5
    <3>2. \A h \in kept : h <= i => h <= j
      BY <1>1, <1>5
    <3> QED BY <3>1, <3>2
  <2> HIDE DEF Low
  <2>2. IsFiniteSet(Low(j))
    BY <1>1, <2>1, FS_Subset
  <2> QED BY <2>1, <2>2, FS_Subset
<1> HIDE DEF Rank, Low
<1>6. \A i, j \in kept : Rank(i) = Rank(j) => i = j
  BY <1>1, <1>5
<1>7. ASSUME NEW k \in 1..n PROVE \E i \in kept : Rank(i) = k
  <2> DEFINE f == [i \in kept |-> Rank(i)]
  <2>1. f \in Injection(kept, 1..n)
    BY <1>4, <1>6 DEF Injection, IsInjective
  <2>2. IsFiniteSet(1..n) /\ Cardinality(1..n) = n
    BY <1>2, FS_Interval
  <2>3. f \in Surjection(kept, 1..n)
    <3> HIDE DEF f
    <3> QED BY <2>1, <2>2, FS_Injection DEF n
  <2> QED BY <2>3 DEF Surjection
<1>8. ASSUME NEW k \in 1..n PROVE w[k] \in S
  BY <1>0, <1>7 DEF kept
<1>9. w \in Seq(S)
  <2>1. w \in [1..n -> S]
    BY <1>8
  <2> HIDE DEF w
  <2> QED BY <1>2, <2>1, SeqDef
<1>10. ASSUME NEW x \in Elements(ring), x # a PROVE x \in Elements(w)
  <2>1. PICK i \in kept : ring[i] = x
    BY <1>10 DEF Elements, kept
  <2>2. Rank(i) \in 1..n
    BY <1>4
  <2>3. (CHOOSE j \in kept : Rank(j) = Rank(i)) = i
    BY <1>6
  <2>4. w[Rank(i)] = x
    BY <2>1, <2>2, <2>3
  <2>5. DOMAIN w = 1..n
    OBVIOUS
  <2> HIDE DEF w
  <2> QED BY <2>2, <2>4, <2>5 DEF Elements
<1> HIDE DEF w
<1> QED BY <1>3, <1>9, <1>10
-----------------------------------------------------------------------------
(***************************************************************************)
(* Types, and the offers.                                                  *)
(***************************************************************************)
LEMMA OfferType ==
    ASSUME NEW a \in Agents, NEW v \in Servers, NEW b \in BOOLEAN
    PROVE  LET p == [agent |-> a, server |-> v, fired |-> b]
           IN  p \in Assignment /\ p # NoOne /\ p.agent = a /\ p.server = v
<1> DEFINE p == [agent |-> a, server |-> v, fired |-> b]
<1>1. p \in Assignment /\ p.agent = a /\ p.server = v
  BY DEF Assignment
<1> HIDE DEF p
<1>2. p # NoOne
  BY <1>1, ChatRouterAssumption DEF ChatRouterAssumption
<1> QED BY <1>1, <1>2 DEF p

\* What the head of a ring that is not empty is offered.
LEMMA OfferedEffect ==
    ASSUME RouterTypeOK, NEW v \in Servers, NEW ring \in Seq(Agents), ring # <<>>,
           NEW s \in Sessions, Offered(v, ring, s)
    PROVE  /\ ready' \in [Servers -> Seq(Agents)]
           /\ Elements(ready'[v]) = Elements(ring)
           /\ \A w \in Servers \ {v} : ready'[w] = ready[w]
           /\ pending' \in [Sessions -> Assignment \union {NoOne}]
           /\ pending'[s] # NoOne /\ pending'[s].server = v /\ pending'[s].agent \in Elements(ring)
           /\ \A x \in Sessions \ {s} : pending'[x] = pending[x]
<1>1. Head(ring) \in Agents /\ Head(ring) \in Elements(ring)
  BY TailElements
<1> DEFINE next == ShuffleToTail(ring, Head(ring))
           p == [agent |-> Head(ring), server |-> v, fired |-> FALSE]
<1>2. next \in Seq(Agents) /\ Elements(next) = Elements(ring)
  BY ShuffleElements
<1>3. p \in Assignment /\ p # NoOne /\ p.agent = Head(ring) /\ p.server = v
  BY <1>1, OfferType
<1>4. ready' = [ready EXCEPT ![v] = next] /\ pending' = [pending EXCEPT ![s] = p]
  BY DEF Offered
<1>5. ready \in [Servers -> Seq(Agents)] /\ pending \in [Sessions -> Assignment \union {NoOne}]
  BY DEF RouterTypeOK
<1> HIDE DEF next, p
<1>6. ready' \in [Servers -> Seq(Agents)] /\ ready'[v] = next
      /\ \A w \in Servers \ {v} : ready'[w] = ready[w]
  BY <1>2, <1>4, <1>5
<1>7. pending' \in [Sessions -> Assignment \union {NoOne}] /\ pending'[s] = p
      /\ \A x \in Sessions \ {s} : pending'[x] = pending[x]
  BY <1>3, <1>4, <1>5
<1> QED BY <1>1, <1>2, <1>3, <1>6, <1>7

\* What taking an assignment back does.
LEMMA RequeuedEffect ==
    ASSUME RouterTypeOK, NEW v \in Servers, NEW ring \in Seq(Agents), NEW s \in Sessions,
           Requeued(v, ring, s)
    PROVE  /\ ready' \in [Servers -> Seq(Agents)]
           /\ ready'[v] = ring /\ \A w \in Servers \ {v} : ready'[w] = ready[w]
           /\ pending' \in [Sessions -> Assignment \union {NoOne}]
           /\ pending'[s] = NoOne
           /\ \A x \in Sessions \ {s} : pending'[x] = pending[x]
           /\ queued' \in [Servers -> Seq(Sessions)]
           /\ Elements(queued'[v]) = Elements(queued[v]) \cup {s}
           /\ Distinct(queued[v]) /\ s \notin Elements(queued[v]) => Distinct(queued'[v])
           /\ \A w \in Servers \ {v} : queued'[w] = queued[w]
<1>1. ready' = [ready EXCEPT ![v] = ring] /\ pending' = [pending EXCEPT ![s] = NoOne]
      /\ queued' = [queued EXCEPT ![v] = <<s>> \o queued[v]]
  BY DEF Requeued
<1>2. /\ ready \in [Servers -> Seq(Agents)] /\ pending \in [Sessions -> Assignment \union {NoOne}]
      /\ queued \in [Servers -> Seq(Sessions)]
  BY DEF RouterTypeOK
<1>3. <<s>> \in Seq(Sessions) /\ Elements(<<s>>) = {s} /\ Distinct(<<s>>)
  BY DEF Elements, Distinct
<1> DEFINE q == <<s>> \o queued[v]
<1>4. /\ q \in Seq(Sessions) /\ Elements(q) = Elements(queued[v]) \cup {s}
      /\ Distinct(queued[v]) /\ s \notin Elements(queued[v]) => Distinct(q)
  <2> DEFINE one == <<s>>
             rest == queued[v]
  <2>1. one \in Seq(Sessions) /\ Elements(one) = {s} /\ Distinct(one) /\ rest \in Seq(Sessions)
    BY <1>2, <1>3
  <2>2. q = one \o rest
    OBVIOUS
  <2> HIDE DEF one, q
  <2>3. /\ one \o rest \in Seq(Sessions) /\ Elements(one \o rest) = Elements(one) \cup Elements(rest)
        /\ Distinct(one) /\ Distinct(rest) /\ Elements(one) \cap Elements(rest) = {} => Distinct(one \o rest)
    <3> HIDE DEF rest
    <3> QED BY <2>1, ConcatElements
  <2> QED BY <2>1, <2>2, <2>3
<1> HIDE DEF q
<1>5. queued' = [queued EXCEPT ![v] = q]
  BY <1>1 DEF q
<1>6. queued' \in [Servers -> Seq(Sessions)] /\ queued'[v] = q
      /\ \A w \in Servers \ {v} : queued'[w] = queued[w]
  BY <1>2, <1>4, <1>5
<1>7. /\ ready' \in [Servers -> Seq(Agents)]
      /\ ready'[v] = ring /\ \A w \in Servers \ {v} : ready'[w] = ready[w]
  BY <1>1, <1>2
<1>8. /\ pending' \in [Sessions -> Assignment \union {NoOne}]
      /\ pending'[s] = NoOne /\ \A x \in Sessions \ {s} : pending'[x] = pending[x]
  BY <1>1, <1>2
<1> QED BY <1>4, <1>6, <1>7, <1>8

LEMMA TimerType ==
    ASSUME RouterTypeOK, NEW s \in Sessions, pending[s] # NoOne PROVE TimerOf(s) \in Timer
  BY DEF RouterTypeOK, TimerOf, Timer, Assignment

LEMMA CancelledType ==
    ASSUME RouterTypeOK, NEW S \in SUBSET Sessions, \A s \in S : pending[s] # NoOne
    PROVE  Cancelled(S) \subseteq Timer
  BY TimerType DEF RouterTypeOK, Cancelled

\* A timer that gets the mutex, and an agent that declines, offer the session on
\* or put it back in the queue.
LEMMA RerouteCases ==
    ASSUME RouterTypeOK, NEW v \in Servers, NEW a \in Agents, NEW s \in Sessions, Reroute(v, a, s)
    PROVE  \E ring \in Seq(Agents) :
              /\ Elements(ring) = Elements(ready[v])
              /\ \/ Requeued(v, ring, s)
                 \/ ring # <<>> /\ Offered(v, ring, s) /\ UNCHANGED queued
<1> DEFINE ring == ShuffleToTail(ready[v], a)
<1>1. ring \in Seq(Agents) /\ Elements(ring) = Elements(ready[v])
  BY ShuffleElements DEF RouterTypeOK
<1> QED BY <1>1 DEF Reroute

LEMMA DeclineCases ==
    ASSUME RouterTypeOK, NEW v \in Servers, NEW a \in Agents, NEW s \in Sessions, Decline(v, a, s)
    PROVE  \E ring \in Seq(Agents) :
              /\ Elements(ring) = Elements(ready[v])
              /\ \/ Requeued(v, ring, s)
                 \/ ring # <<>> /\ Offered(v, ring, s) /\ UNCHANGED queued
<1> DEFINE ring == ShuffleToTail(ready[v], a)
<1>1. ring \in Seq(Agents) /\ Elements(ring) = Elements(ready[v])
  BY ShuffleElements DEF RouterTypeOK
<1> QED BY <1>1 DEF Decline
LEMMA AgentReadyEffect ==
    ASSUME RouterTypeOK, NEW v \in Servers, NEW a \in Agents, AgentReady(v, a)
    PROVE  /\ ready' \in [Servers -> Seq(Agents)]
           /\ Elements(ready'[v]) = Elements(ready[v]) \cup {a}
           /\ \A w \in Servers \ {v} : ready'[w] = ready[w]
           /\ \/ UNCHANGED <<queued, pending>>
              \/ /\ queued[v] # <<>>
                 /\ pending' \in [Sessions -> Assignment \union {NoOne}]
                 /\ Head(queued[v]) \in Sessions
                 /\ pending'[Head(queued[v])] # NoOne
                 /\ pending'[Head(queued[v])].server = v
                 /\ pending'[Head(queued[v])].agent = a
                 /\ \A x \in Sessions \ {Head(queued[v])} : pending'[x] = pending[x]
                 /\ queued' \in [Servers -> Seq(Sessions)]
                 /\ queued'[v] = Tail(queued[v])
                 /\ \A w \in Servers \ {v} : queued'[w] = queued[w]
<1>1. /\ ready \in [Servers -> Seq(Agents)] /\ pending \in [Sessions -> Assignment \union {NoOne}]
      /\ queued \in [Servers -> Seq(Sessions)]
  BY DEF RouterTypeOK
<1> DEFINE ring == Append(ready[v], a)
           next == ShuffleToTail(ring, a)
           p == [agent |-> a, server |-> v, fired |-> FALSE]
<1>2. ring \in Seq(Agents) /\ Elements(ring) = Elements(ready[v]) \cup {a}
  BY <1>1, AppendElements
<1>3. next \in Seq(Agents) /\ Elements(next) = Elements(ring)
  <2> HIDE DEF ring
  <2> QED BY <1>2, ShuffleElements
<1>4. p \in Assignment /\ p # NoOne /\ p.agent = a /\ p.server = v
  BY OfferType
<1>5. CASE queued[v] = <<>>
  <2>1. ready' = [ready EXCEPT ![v] = ring] /\ UNCHANGED <<queued, pending>>
    BY <1>5 DEF AgentReady
  <2> HIDE DEF ring
  <2>2. /\ ready' \in [Servers -> Seq(Agents)] /\ ready'[v] = ring
        /\ \A w \in Servers \ {v} : ready'[w] = ready[w]
    BY <1>1, <1>2, <2>1
  <2> QED BY <1>2, <2>1, <2>2
<1>6. CASE queued[v] # <<>>
  <2>1. /\ ready' = [ready EXCEPT ![v] = next]
        /\ pending' = [pending EXCEPT ![Head(queued[v])] = p]
        /\ queued' = [queued EXCEPT ![v] = Tail(queued[v])]
    BY <1>6 DEF AgentReady
  <2> DEFINE h == Head(queued[v])
             t == Tail(queued[v])
  <2>2. h \in Sessions /\ t \in Seq(Sessions)
    BY <1>1, <1>6, TailElements
  <2> HIDE DEF next, p, h, t
  <2>3. /\ ready' \in [Servers -> Seq(Agents)] /\ ready'[v] = next
        /\ \A w \in Servers \ {v} : ready'[w] = ready[w]
    BY <1>1, <1>3, <2>1
  <2>4. /\ pending' \in [Sessions -> Assignment \union {NoOne}] /\ pending'[h] = p
        /\ \A x \in Sessions \ {h} : pending'[x] = pending[x]
    BY <1>1, <1>4, <2>1, <2>2 DEF h
  <2>5. /\ queued' \in [Servers -> Seq(Sessions)] /\ queued'[v] = t
        /\ \A w \in Servers \ {v} : queued'[w] = queued[w]
    BY <1>1, <2>1, <2>2 DEF t
  <2>6. Elements(ready'[v]) = Elements(ready[v]) \cup {a}
    BY <1>2, <1>3, <2>3
  <2> QED BY <1>4, <1>6, <2>2, <2>3, <2>4, <2>5, <2>6 DEF h, t
<1> QED BY <1>5, <1>6

LEMMA AgentGoneEffect ==
    ASSUME RouterTypeOK, NEW v \in Servers, NEW a \in Agents, AgentGone(v, a)
    PROVE  LET mine == {s \in Sessions : pending[s] # NoOne /\ pending[s].agent = a}
           IN  /\ ready' \in [Servers -> Seq(Agents)]
               /\ Elements(ready[v]) \ {a} \subseteq Elements(ready'[v])
               /\ \A w \in Servers \ {v} : ready'[w] = ready[w]
               /\ pending' \in [Sessions -> Assignment \union {NoOne}]
               /\ \A s \in mine : pending'[s] = NoOne
               /\ \A s \in Sessions \ mine : pending'[s] = pending[s]
               /\ queued' \in [Servers -> Seq(Sessions)]
               /\ Elements(queued'[v]) = Elements(queued[v]) \cup mine
               /\ Distinct(queued[v]) /\ mine \cap Elements(queued[v]) = {} => Distinct(queued'[v])
               /\ \A w \in Servers \ {v} : queued'[w] = queued[w]
<1> DEFINE mine == {s \in Sessions : pending[s] # NoOne /\ pending[s].agent = a}
           n == Cardinality(mine)
<1>1. /\ ready \in [Servers -> Seq(Agents)] /\ pending \in [Sessions -> Assignment \union {NoOne}]
      /\ queued \in [Servers -> Seq(Sessions)]
  BY DEF RouterTypeOK
<1>2. PICK order \in [1..n -> mine] :
         Elements(order) = mine /\ queued' = [queued EXCEPT ![v] = order \o queued[v]]
  BY DEF AgentGone
<1>3. /\ ready' = [ready EXCEPT ![v] = Without(ready[v], a)]
      /\ pending' = [s \in Sessions |-> IF s \in mine THEN NoOne ELSE pending[s]]
  BY DEF AgentGone
<1>4. /\ pending' \in [Sessions -> Assignment \union {NoOne}]
      /\ \A s \in mine : pending'[s] = NoOne
      /\ \A s \in Sessions \ mine : pending'[s] = pending[s]
  BY <1>1, <1>3
<1>5. mine \in SUBSET Sessions
  OBVIOUS
<1> HIDE DEF mine
<1>6. IsFiniteSet(mine) /\ n \in Nat
  BY <1>5, ChatRouterAssumption, FS_Subset, FS_CardinalityType DEF ChatRouterAssumption
<1>7. order \in Seq(Sessions) /\ DOMAIN order = 1..n
  <2>1. order \in [1..n -> Sessions]
    BY <1>2, <1>5
  <2> QED BY <1>6, <2>1, SeqDef
<1>8. Distinct(order)
  <2>1. order \in Surjection(1..n, mine)
    BY <1>2 DEF Surjection, Elements
  <2>2. IsFiniteSet(1..n) /\ Cardinality(1..n) = Cardinality(mine)
    BY <1>6, FS_Interval
  <2>3. order \in Injection(1..n, mine)
    BY <2>1, <2>2, FS_SurjSameCardinalityImpliesInj
  <2> QED BY <1>7, <2>3 DEF Injection, IsInjective, Distinct
<1> DEFINE old == queued[v]
           q == order \o old
<1>9. old \in Seq(Sessions)
  BY <1>1
<1>10. /\ q \in Seq(Sessions) /\ Elements(q) = Elements(old) \cup mine
       /\ Distinct(old) /\ mine \cap Elements(old) = {} => Distinct(q)
  <2> HIDE DEF old
  <2>1. /\ order \o old \in Seq(Sessions) /\ Elements(order \o old) = Elements(order) \cup Elements(old)
        /\ Distinct(order) /\ Distinct(old) /\ Elements(order) \cap Elements(old) = {}
              => Distinct(order \o old)
    BY <1>7, <1>9, ConcatElements
  <2>2. q = order \o old
    OBVIOUS
  <2> HIDE DEF q
  <2> QED BY <1>2, <1>8, <2>1, <2>2
<1>11. queued' = [queued EXCEPT ![v] = q]
  BY <1>2
<1> HIDE DEF q
<1>12. /\ queued' \in [Servers -> Seq(Sessions)] /\ queued'[v] = q
       /\ \A w \in Servers \ {v} : queued'[w] = queued[w]
  BY <1>1, <1>10, <1>11
<1>13. Without(ready[v], a) \in Seq(Agents)
       /\ Elements(ready[v]) \ {a} \subseteq Elements(Without(ready[v], a))
  BY <1>1, WithoutElements
<1>14. /\ ready' \in [Servers -> Seq(Agents)] /\ ready'[v] = Without(ready[v], a)
       /\ \A w \in Servers \ {v} : ready'[w] = ready[w]
  BY <1>1, <1>3, <1>13
<1> QED BY <1>4, <1>10, <1>12, <1>13, <1>14 DEF mine

LEMMA EnqueueEffect ==
    ASSUME RouterTypeOK, NEW v \in Servers, NEW s \in Sessions, Enqueue(v, s)
    PROVE  \/ /\ UNCHANGED <<ready, pending>>
              /\ queued' \in [Servers -> Seq(Sessions)]
              /\ Elements(queued'[v]) = Elements(queued[v]) \cup {s}
              /\ Distinct(queued[v]) /\ s \notin Elements(queued[v]) => Distinct(queued'[v])
              /\ \A w \in Servers \ {v} : queued'[w] = queued[w]
           \/ /\ UNCHANGED queued
              /\ ready[v] \in Seq(Agents) /\ ready[v] # <<>> /\ Offered(v, ready[v], s)
<1>1. ready \in [Servers -> Seq(Agents)] /\ queued \in [Servers -> Seq(Sessions)]
  BY DEF RouterTypeOK
<1>2. CASE ready[v] = <<>>
  <2> DEFINE q == Append(queued[v], s)
  <2>1. UNCHANGED <<ready, pending>> /\ queued' = [queued EXCEPT ![v] = q]
    BY <1>2 DEF Enqueue
  <2>2. /\ q \in Seq(Sessions) /\ Elements(q) = Elements(queued[v]) \cup {s}
        /\ Distinct(queued[v]) /\ s \notin Elements(queued[v]) => Distinct(q)
    BY <1>1, AppendElements
  <2> HIDE DEF q
  <2>3. queued' \in [Servers -> Seq(Sessions)] /\ queued'[v] = q
        /\ \A w \in Servers \ {v} : queued'[w] = queued[w]
    BY <1>1, <2>1, <2>2
  <2> QED BY <2>1, <2>2, <2>3
<1>3. CASE ready[v] # <<>>
  BY <1>1, <1>3 DEF Enqueue
<1> QED BY <1>2, <1>3
\* The type of the router's own state, and of the rest.
RouterType ==
    /\ ready \in [Servers -> Seq(Agents)]
    /\ queued \in [Servers -> Seq(Sessions)]
    /\ pending \in [Sessions -> Assignment \union {NoOne}]

RestType ==
    /\ sockets \in [Servers -> [Agents -> 0..MaxSockets]]
    /\ strays \subseteq Timer
    /\ home \in [Sessions -> Servers \union {NoOne}]
    /\ acked \subseteq Sessions /\ ended \subseteq Sessions /\ forgotten \subseteq Sessions
    /\ restarts \in 0..MaxRestarts

LEMMA RestTypeStep == RouterTypeOK /\ RouterNext => RestType'
<1> SUFFICES ASSUME RouterTypeOK, RouterNext PROVE RestType'
  OBVIOUS
<1>0. /\ sockets \in [Servers -> [Agents -> 0..MaxSockets]] /\ strays \subseteq Timer
      /\ home \in [Sessions -> Servers \union {NoOne}]
      /\ acked \subseteq Sessions /\ ended \subseteq Sessions /\ forgotten \subseteq Sessions
      /\ restarts \in 0..MaxRestarts /\ MaxSockets \in Nat /\ MaxRestarts \in Nat
  BY ChatRouterAssumption DEF RouterTypeOK, ChatRouterAssumption
<1>1. ASSUME NEW v \in Servers, NEW a \in Agents, NEW n \in 0..MaxSockets,
             sockets' = [sockets EXCEPT ![v][a] = n]
      PROVE  sockets' \in [Servers -> [Agents -> 0..MaxSockets]]
  BY <1>0, <1>1
<1>2. ASSUME NEW v \in Servers, NEW a \in Agents, AgentReady(v, a) PROVE RestType'
  <2>1. sockets[v][a] + 1 \in 0..MaxSockets /\ sockets' = [sockets EXCEPT ![v][a] = sockets[v][a] + 1]
    BY <1>0, <1>2 DEF AgentReady
  <2>2. sockets' \in [Servers -> [Agents -> 0..MaxSockets]]
    BY <1>1, <2>1
  <2> QED BY <1>0, <1>2, <2>2 DEF AgentReady, history, RestType
<1>3. ASSUME NEW v \in Servers, NEW a \in Agents, AgentGone(v, a) PROVE RestType'
  <2> DEFINE mine == {s \in Sessions : pending[s] # NoOne /\ pending[s].agent = a}
  <2>1. sockets[v][a] - 1 \in 0..MaxSockets /\ sockets' = [sockets EXCEPT ![v][a] = sockets[v][a] - 1]
    BY <1>0, <1>3 DEF AgentGone
  <2>2. sockets' \in [Servers -> [Agents -> 0..MaxSockets]]
    BY <1>1, <2>1
  <2>3. strays' = Cancelled(mine)
    BY <1>3 DEF AgentGone
  <2>4. strays' \subseteq Timer
    BY <2>3, CancelledType
  <2> QED BY <1>0, <1>3, <2>2, <2>4 DEF AgentGone, history, RestType
<1>4. ASSUME NEW v \in Servers, NEW a \in Agents, NEW s \in Sessions, Decline(v, a, s)
      PROVE  RestType'
  <2>1. pending[s] # NoOne /\ strays' = Cancelled({s})
    BY <1>4 DEF Decline
  <2>2. strays' \subseteq Timer
    BY <2>1, CancelledType
  <2> QED BY <1>0, <1>4, <2>2 DEF Decline, history, RestType
<1>5. ASSUME NEW v \in Servers, NEW s \in Sessions, Enqueue(v, s) PROVE RestType'
  BY <1>0, <1>5 DEF Enqueue, RestType
<1>6. ASSUME NEW a \in Agents, NEW s \in Sessions, Ack(a, s) PROVE RestType'
  <2>1. pending[s] # NoOne /\ strays' = Cancelled({s})
    BY <1>6 DEF Ack
  <2>2. strays' \subseteq Timer
    BY <2>1, CancelledType
  <2> QED BY <1>0, <1>6, <2>2 DEF Ack, RestType
<1>7. ASSUME NEW s \in Sessions, Fire(s) \/ AckTimer(s) \/ CloseSession(s) PROVE RestType'
  BY <1>0, <1>7 DEF Fire, AckTimer, CloseSession, history, queueVars, RestType
<1>8. ASSUME NEW t \in strays, FireStray(t) PROVE RestType'
  <2>1. t \in Timer
    BY <1>0
  <2>2. [t EXCEPT !.fired = TRUE] \in Timer
    BY <2>1 DEF Timer
  <2>3. strays' \subseteq Timer
    BY <1>0, <1>8, <2>2 DEF FireStray
  <2> QED BY <1>0, <1>8, <2>3 DEF FireStray, history, RestType
<1>9. ASSUME NEW t \in strays, AckTimerStray(t) PROVE RestType'
  <2>1. t.session \in Sessions
    BY <1>0 DEF Timer
  <2>2. CASE pending[t.session] # NoOne /\ pending[t.session].agent = t.agent
    <3>1. strays' = (strays \ {t}) \union {TimerOf(t.session)}
      BY <1>9, <2>2 DEF AckTimerStray
    <3>2. strays' \subseteq Timer
      BY <1>0, <2>1, <2>2, <3>1, TimerType
    <3> QED BY <1>0, <1>9, <3>2 DEF AckTimerStray, history, RestType
  <2>3. CASE ~ (pending[t.session] # NoOne /\ pending[t.session].agent = t.agent)
    <3>1. strays' \subseteq Timer
      BY <1>0, <1>9, <2>3 DEF AckTimerStray
    <3> QED BY <1>0, <1>9, <3>1 DEF AckTimerStray, history, RestType
  <2> QED BY <2>2, <2>3
<1>10. ASSUME Restart PROVE RestType'
  BY <1>0, <1>10 DEF Restart, Waiting, RestType
<1> QED BY <1>2, <1>3, <1>4, <1>5, <1>6, <1>7, <1>8, <1>9, <1>10 DEF RouterNext

\* The ring of v only gains agents and every offer is an old one or to somebody
\* in that ring.
LEMMA OffersKept ==
    ASSUME RouterTypeOK, PendingHasAgent, NEW v \in Servers,
           Elements(ready[v]) \subseteq Elements(ready'[v]),
           \A w \in Servers \ {v} : ready'[w] = ready[w],
           \A s \in Sessions : pending'[s] # NoOne =>
              \/ /\ pending[s] # NoOne /\ pending'[s].agent = pending[s].agent
                 /\ pending'[s].server = pending[s].server
              \/ pending'[s].server = v /\ pending'[s].agent \in Elements(ready'[v])
    PROVE  PendingHasAgent'
<1> SUFFICES ASSUME NEW s \in Sessions, pending'[s] # NoOne
             PROVE  pending'[s].agent \in Elements(ready'[pending'[s].server])
  BY DEF PendingHasAgent, Elements
<1>1. CASE pending'[s].server = v /\ pending'[s].agent \in Elements(ready'[v])
  BY <1>1
<1>2. CASE /\ pending[s] # NoOne /\ pending'[s].agent = pending[s].agent
           /\ pending'[s].server = pending[s].server
  <2>1. pending[s].server \in Servers /\ pending[s].agent \in Elements(ready[pending[s].server])
    BY <1>2 DEF PendingHasAgent, RouterTypeOK, Assignment
  <2> QED BY <1>2, <2>1
<1> QED BY <1>1, <1>2

LEMMA OffersStep == RouterTypeOK /\ PendingHasAgent /\ RouterNext => RouterType' /\ PendingHasAgent'
<1> SUFFICES ASSUME RouterTypeOK, PendingHasAgent, RouterNext PROVE RouterType' /\ PendingHasAgent'
  OBVIOUS
<1>0. RouterType
  BY DEF RouterTypeOK, RouterType
<1>1. ASSUME UNCHANGED <<ready, queued, pending>> PROVE RouterType' /\ PendingHasAgent'
  BY <1>0, <1>1 DEF RouterType, PendingHasAgent, Elements
<1>2. ASSUME NEW v \in Servers, NEW s \in Sessions, NEW ring \in Seq(Agents), ring # <<>>,
             Elements(ring) = Elements(ready[v]), Offered(v, ring, s), UNCHANGED queued
      PROVE  RouterType' /\ PendingHasAgent'
  <2>1. RouterType'
    BY <1>0, <1>2, OfferedEffect DEF RouterType
  <2>2. PendingHasAgent'
    <3>1. /\ Elements(ready'[v]) = Elements(ring)
          /\ \A w \in Servers \ {v} : ready'[w] = ready[w]
          /\ pending'[s].server = v /\ pending'[s].agent \in Elements(ring)
          /\ \A x \in Sessions \ {s} : pending'[x] = pending[x]
      BY <1>2, OfferedEffect
    <3> QED BY <1>2, <3>1, OffersKept
  <2> QED BY <2>1, <2>2
<1>3. ASSUME NEW v \in Servers, NEW s \in Sessions, NEW ring \in Seq(Agents),
             Elements(ring) = Elements(ready[v]), Requeued(v, ring, s)
      PROVE  RouterType' /\ PendingHasAgent'
  <2>1. RouterType'
    BY <1>3, RequeuedEffect DEF RouterType
  <2>2. PendingHasAgent'
    <3>1. /\ ready'[v] = ring
          /\ \A w \in Servers \ {v} : ready'[w] = ready[w]
          /\ pending'[s] = NoOne
          /\ \A x \in Sessions \ {s} : pending'[x] = pending[x]
      BY <1>3, RequeuedEffect
    <3> QED BY <1>3, <3>1, OffersKept
  <2> QED BY <2>1, <2>2
<1>4. ASSUME NEW v \in Servers, NEW a \in Agents, AgentReady(v, a)
      PROVE  RouterType' /\ PendingHasAgent'
  <2>1. RouterType'
    BY <1>0, <1>4, AgentReadyEffect DEF RouterType
  <2>2. PendingHasAgent'
    <3>1. /\ Elements(ready'[v]) = Elements(ready[v]) \cup {a}
          /\ \A w \in Servers \ {v} : ready'[w] = ready[w]
      BY <1>4, AgentReadyEffect
    <3>2. ASSUME NEW s \in Sessions
          PROVE  \/ pending'[s] = pending[s]
                 \/ pending'[s].server = v /\ pending'[s].agent = a
      <4> DEFINE h == Head(queued[v])
      <4> HIDE DEF h
      <4>1. \/ UNCHANGED pending
            \/ /\ pending'[h].server = v /\ pending'[h].agent = a
               /\ \A x \in Sessions \ {h} : pending'[x] = pending[x]
        BY <1>4, AgentReadyEffect DEF h
      <4>2. CASE s = h
        BY <4>1, <4>2
      <4>3. CASE s # h
        BY <4>1, <4>3
      <4> QED BY <4>2, <4>3
    <3> QED BY <3>1, <3>2, OffersKept
  <2> QED BY <2>1, <2>2
<1>5. ASSUME NEW v \in Servers, NEW a \in Agents, AgentGone(v, a)
      PROVE  RouterType' /\ PendingHasAgent'
  <2>1. RouterType'
    BY <1>5, AgentGoneEffect DEF RouterType
  <2>2. ASSUME NEW s \in Sessions, pending'[s] # NoOne
        PROVE  pending'[s].agent \in Elements(ready'[pending'[s].server])
    <3>1. pending'[s] = pending[s] /\ ~ (pending[s] # NoOne /\ pending[s].agent = a)
      BY <1>5, <2>2, AgentGoneEffect
    <3>2. /\ pending[s].server \in Servers /\ pending[s].agent # a
          /\ pending[s].agent \in Elements(ready[pending[s].server])
      BY <2>2, <3>1 DEF PendingHasAgent, RouterTypeOK, Assignment
    <3>3. /\ Elements(ready[v]) \ {a} \subseteq Elements(ready'[v])
          /\ \A w \in Servers \ {v} : ready'[w] = ready[w]
      BY <1>5, AgentGoneEffect
    <3> QED BY <3>1, <3>2, <3>3
  <2> QED BY <2>1, <2>2 DEF PendingHasAgent, Elements
<1>6. ASSUME NEW v \in Servers, NEW s \in Sessions, Enqueue(v, s)
      PROVE  RouterType' /\ PendingHasAgent'
  <2>1. CASE UNCHANGED <<ready, pending>> /\ queued' \in [Servers -> Seq(Sessions)]
    BY <1>0, <2>1 DEF RouterType, PendingHasAgent, Elements
  <2>2. CASE UNCHANGED queued /\ ready[v] \in Seq(Agents) /\ ready[v] # <<>> /\ Offered(v, ready[v], s)
    BY <1>2, <2>2
  <2> QED BY <1>6, <2>1, <2>2, EnqueueEffect
<1>7. ASSUME NEW v \in Servers, NEW a \in Agents, NEW s \in Sessions, Decline(v, a, s)
      PROVE  RouterType' /\ PendingHasAgent'
  BY <1>2, <1>3, <1>7, DeclineCases
<1>8. ASSUME NEW v \in Servers, NEW a \in Agents, NEW s \in Sessions, Reroute(v, a, s)
      PROVE  RouterType' /\ PendingHasAgent'
  BY <1>2, <1>3, <1>8, RerouteCases
<1>9. ASSUME NEW a \in Agents, NEW s \in Sessions, Ack(a, s)
      PROVE  RouterType' /\ PendingHasAgent'
  <2>1. pending' = [pending EXCEPT ![s] = NoOne] /\ UNCHANGED <<ready, queued>>
    BY <1>9 DEF Ack
  <2>2. RouterType' /\ \A x \in Sessions : pending'[x] # NoOne => pending'[x] = pending[x]
    BY <1>0, <2>1 DEF RouterType
  <2> QED BY <2>1, <2>2 DEF PendingHasAgent, Elements
<1>10. ASSUME NEW s \in Sessions, Fire(s) PROVE RouterType' /\ PendingHasAgent'
  <2> DEFINE p == pending[s]
             p2 == [p EXCEPT !.fired = TRUE]
  <2>1. p \in Assignment
    BY <1>0, <1>10 DEF RouterType, Fire
  <2>2. p2 \in Assignment /\ p2.agent = p.agent /\ p2.server = p.server
    <3> HIDE DEF p
    <3> QED BY <2>1 DEF Assignment
  <2>3. pending' = [pending EXCEPT ![s] = p2] /\ UNCHANGED <<ready, queued>>
    BY <1>10 DEF Fire
  <2> HIDE DEF p2
  <2>4. RouterType' /\ pending'[s] = p2 /\ \A x \in Sessions \ {s} : pending'[x] = pending[x]
    BY <1>0, <2>2, <2>3 DEF RouterType
  <2>5. ASSUME NEW x \in Sessions, pending'[x] # NoOne
        PROVE  pending[x] # NoOne /\ pending'[x].agent = pending[x].agent
               /\ pending'[x].server = pending[x].server
    BY <1>10, <2>2, <2>4, <2>5 DEF Fire
  <2> QED BY <2>3, <2>4, <2>5 DEF PendingHasAgent, Elements
<1>11. ASSUME NEW s \in Sessions, AckTimer(s) PROVE RouterType' /\ PendingHasAgent'
  <2>1. pending[s].server \in Servers /\ pending[s].agent \in Agents
    BY <1>0, <1>11 DEF RouterType, AckTimer, Assignment
  <2> QED BY <1>8, <1>11, <2>1 DEF AckTimer
<1>12. ASSUME NEW t \in strays, AckTimerStray(t) PROVE RouterType' /\ PendingHasAgent'
  <2>1. t.server \in Servers /\ t.agent \in Agents /\ t.session \in Sessions
    BY DEF RouterTypeOK, Timer
  <2> QED BY <1>1, <1>8, <1>12, <2>1 DEF AckTimerStray
<1>13. ASSUME Restart PROVE RouterType' /\ PendingHasAgent'
  BY <1>13 DEF Restart, RouterType, PendingHasAgent
<1>14. ASSUME NEW s \in Sessions, CloseSession(s) PROVE RouterType' /\ PendingHasAgent'
  BY <1>1, <1>14 DEF CloseSession, queueVars
<1>15. ASSUME NEW t \in strays, FireStray(t) PROVE RouterType' /\ PendingHasAgent'
  BY <1>1, <1>15 DEF FireStray
<1> QED BY <1>4, <1>5, <1>6, <1>7, <1>9, <1>10, <1>11, <1>12, <1>13, <1>14, <1>15 DEF RouterNext

OffersInv == RouterTypeOK /\ PendingHasAgent

LEMMA OffersInvariant == RouterSafety => []OffersInv
<1>1. RouterInit => OffersInv
  <2> SUFFICES ASSUME RouterInit PROVE OffersInv
    OBVIOUS
  <2>1. RouterTypeOK
    BY ChatRouterAssumption DEF RouterInit, RouterTypeOK, ChatRouterAssumption
  <2> QED BY <2>1 DEF RouterInit, OffersInv, PendingHasAgent
<1>2. OffersInv /\ [RouterNext]_routerVars => OffersInv'
  <2> SUFFICES ASSUME OffersInv, [RouterNext]_routerVars PROVE OffersInv'
    OBVIOUS
  <2>1. CASE RouterNext
    BY <2>1, RestTypeStep, OffersStep DEF OffersInv, RouterTypeOK, RouterType, RestType
  <2>2. CASE UNCHANGED routerVars
    <3>1. RouterTypeOK'
      BY <2>2 DEF OffersInv, RouterTypeOK, routerVars, queueVars, history
    <3>2. PendingHasAgent'
      BY <2>2 DEF OffersInv, PendingHasAgent, routerVars, queueVars, Elements
    <3> QED BY <3>1, <3>2 DEF OffersInv
  <2> QED BY <2>1, <2>2
<1> QED BY <1>1, <1>2, PTL DEF RouterSafety

\* Every state has the declared types (router.go's maps and the histories kept
\* beside them).
THEOREM RouterTypeCorrect == RouterSafety => []RouterTypeOK
<1>1. OffersInv => RouterTypeOK
  BY DEF OffersInv
<1> QED BY <1>1, OffersInvariant, PTL

\* Whoever joins, leaves, declines or lets the 30 s pass, in whatever order the
\* timers get the mutex: an unanswered assignment is to an agent in the ring.
THEOREM RouterPendingHasAgent == RouterSafety => []PendingHasAgent
<1>1. OffersInv => PendingHasAgent
  BY DEF OffersInv
<1> QED BY <1>1, OffersInvariant, PTL
-----------------------------------------------------------------------------
(***************************************************************************)
(* One place for every waiting session.  No queue holds a session twice,   *)
(* no two queues hold the same one, none holds one that is on offer, and   *)
(* the sessions held are those that wait and were not forgotten.           *)
(***************************************************************************)
InQueue(s) == \E v \in Servers : s \in Elements(queued[v])

QueuesApart ==
    /\ \A v \in Servers : Distinct(queued[v])
    /\ \A v, w \in Servers : v # w => Elements(queued[v]) \cap Elements(queued[w]) = {}

Held(s) == InQueue(s) \/ pending[s] # NoOne

PlaceInv ==
    /\ QueuesApart
    /\ \A s \in Sessions : InQueue(s) => pending[s] = NoOne
    /\ \A s \in Sessions : Held(s) <=> home[s] # NoOne /\ s \notin acked /\ s \notin forgotten
    /\ \A s \in acked \cup forgotten : home[s] # NoOne

\* The sessions D, in no queue so far, join the queue of v.
LEMMA QueuePush ==
    ASSUME QueuesApart, NEW v \in Servers, NEW D,
           \A s \in D : ~ InQueue(s),
           Distinct(queued[v]) /\ D \cap Elements(queued[v]) = {} => Distinct(queued'[v]),
           Elements(queued'[v]) = Elements(queued[v]) \cup D,
           \A w \in Servers \ {v} : queued'[w] = queued[w]
    PROVE  QueuesApart' /\ \A s : InQueue(s)' <=> InQueue(s) \/ s \in D
<1>0. \A s \in D, w \in Servers : s \notin Elements(queued[w])
  BY DEF InQueue
<1>1. Distinct(queued[v]) /\ D \cap Elements(queued[v]) = {}
  BY <1>0 DEF QueuesApart
<1>2. ASSUME NEW w \in Servers PROVE Distinct(queued'[w])
  BY <1>1 DEF QueuesApart
<1>3. ASSUME NEW w \in Servers, NEW x \in Servers, w # x
      PROVE  Elements(queued'[w]) \cap Elements(queued'[x]) = {}
  <2>1. Elements(queued[w]) \cap Elements(queued[x]) = {}
    BY <1>3 DEF QueuesApart
  <2>2. CASE w = v
    BY <1>0, <1>3, <2>1, <2>2
  <2>3. CASE x = v
    BY <1>0, <1>3, <2>1, <2>3
  <2>4. CASE w # v /\ x # v
    BY <2>1, <2>4
  <2> QED BY <2>2, <2>3, <2>4
<1>4. QueuesApart'
  BY <1>2, <1>3 DEF QueuesApart, Distinct, Elements
<1>5. ASSUME NEW s
      PROVE (\E w \in Servers : s \in Elements(queued'[w])) <=> InQueue(s) \/ s \in D
  BY DEF InQueue
<1> QED BY <1>4, <1>5 DEF InQueue, Elements

\* The head of the queue of v leaves it.
LEMMA QueuePop ==
    ASSUME QueuesApart, NEW v \in Servers, queued[v] \in Seq(Sessions), queued[v] # <<>>,
           queued'[v] = Tail(queued[v]),
           \A w \in Servers \ {v} : queued'[w] = queued[w]
    PROVE  /\ QueuesApart' /\ InQueue(Head(queued[v]))
           /\ \A s : InQueue(s)' <=> InQueue(s) /\ s # Head(queued[v])
<1> DEFINE h == Head(queued[v])
<1>1. /\ Elements(queued[v]) = {h} \cup Elements(queued'[v])
      /\ Distinct(queued'[v]) /\ h \notin Elements(queued'[v])
  BY TailElements DEF QueuesApart
<1> HIDE DEF h
<1>2. ASSUME NEW w \in Servers PROVE Distinct(queued'[w])
  BY <1>1 DEF QueuesApart
<1>3. ASSUME NEW w \in Servers, NEW x \in Servers, w # x
      PROVE  Elements(queued'[w]) \cap Elements(queued'[x]) = {}
  <2>1. Elements(queued[w]) \cap Elements(queued[x]) = {}
    BY <1>3 DEF QueuesApart
  <2>2. \A u \in Servers : Elements(queued'[u]) \subseteq Elements(queued[u])
    BY <1>1
  <2> QED BY <2>1, <2>2
<1>4. QueuesApart'
  BY <1>2, <1>3 DEF QueuesApart, Distinct, Elements
<1>5. \A w \in Servers \ {v} : h \notin Elements(queued[w])
  BY <1>1 DEF QueuesApart
<1>6. ASSUME NEW s
      PROVE (\E w \in Servers : s \in Elements(queued'[w])) <=> InQueue(s) /\ s # h
  BY <1>1, <1>5 DEF InQueue
<1>7. InQueue(h)
  BY <1>1 DEF InQueue
<1> QED BY <1>4, <1>6, <1>7 DEF InQueue, Elements, h

LEMMA QueueKept ==
    ASSUME QueuesApart, queued' = queued
    PROVE  QueuesApart' /\ \A s : InQueue(s)' <=> InQueue(s)
  BY DEF QueuesApart, InQueue, Distinct, Elements

\* Where a session is held is all that changes.
LEMMA PlaceFrom ==
    ASSUME PlaceInv, QueuesApart',
           \A s \in Sessions : InQueue(s)' => pending'[s] = NoOne,
           \A s \in Sessions : Held(s)' <=> Held(s),
           UNCHANGED <<home, acked, forgotten>>
    PROVE  PlaceInv'
  BY DEF PlaceInv

LEMMA PlaceStep == RouterTypeOK /\ PlaceInv /\ RouterNext => PlaceInv'
<1> SUFFICES ASSUME RouterTypeOK, PlaceInv, RouterNext PROVE PlaceInv'
  OBVIOUS
<1>0. /\ QueuesApart
      /\ \A s \in Sessions : InQueue(s) => pending[s] = NoOne
      /\ \A s \in Sessions : Held(s) <=> home[s] # NoOne /\ s \notin acked /\ s \notin forgotten
      /\ \A s \in acked \cup forgotten : home[s] # NoOne
  BY DEF PlaceInv
<1>1. ASSUME UNCHANGED <<queued, home, acked, forgotten>>,
             \A s \in Sessions : pending'[s] # NoOne <=> pending[s] # NoOne
      PROVE  PlaceInv'
  BY <1>0, <1>1, QueueKept, PlaceFrom DEF Held
<1>2. ASSUME NEW v \in Servers, NEW s \in Sessions, NEW ring \in Seq(Agents), ring # <<>>,
             pending[s] # NoOne, Offered(v, ring, s), UNCHANGED <<queued, home, acked, forgotten>>
      PROVE  PlaceInv'
  <2>1. pending'[s] # NoOne /\ \A x \in Sessions \ {s} : pending'[x] = pending[x]
    BY <1>2, OfferedEffect
  <2> QED BY <1>1, <1>2, <2>1
<1>3. ASSUME NEW v \in Servers, NEW s \in Sessions, NEW ring \in Seq(Agents),
             pending[s] # NoOne, Requeued(v, ring, s), UNCHANGED <<home, acked, forgotten>>
      PROVE  PlaceInv'
  <2>1. /\ pending'[s] = NoOne /\ \A x \in Sessions \ {s} : pending'[x] = pending[x]
        /\ Elements(queued'[v]) = Elements(queued[v]) \cup {s}
        /\ Distinct(queued[v]) /\ s \notin Elements(queued[v]) => Distinct(queued'[v])
        /\ \A w \in Servers \ {v} : queued'[w] = queued[w]
    <3>1. pending'[s] = NoOne /\ \A x \in Sessions \ {s} : pending'[x] = pending[x]
      BY <1>3, RequeuedEffect
    <3>2. /\ Elements(queued'[v]) = Elements(queued[v]) \cup {s}
          /\ Distinct(queued[v]) /\ s \notin Elements(queued[v]) => Distinct(queued'[v])
      BY <1>3, RequeuedEffect
    <3>3. \A w \in Servers \ {v} : queued'[w] = queued[w]
      BY <1>3, RequeuedEffect
    <3> QED BY <3>1, <3>2, <3>3
  <2>2. ~ InQueue(s)
    BY <1>0, <1>3
  <2>3. QueuesApart' /\ \A x : InQueue(x)' <=> InQueue(x) \/ x \in {s}
    BY <1>0, <2>1, <2>2, QueuePush
  <2> QED BY <1>0, <1>3, <2>1, <2>3, PlaceFrom DEF Held
<1>4. ASSUME NEW v \in Servers, NEW a \in Agents, AgentReady(v, a) PROVE PlaceInv'
  <2>0. UNCHANGED <<home, acked, forgotten>> /\ queued[v] \in Seq(Sessions)
    BY <1>4 DEF AgentReady, history, RouterTypeOK
  <2>1. CASE UNCHANGED <<queued, pending>>
    BY <1>1, <2>0, <2>1
  <2> DEFINE h == Head(queued[v])
  <2>2. CASE /\ queued[v] # <<>> /\ h \in Sessions /\ pending'[h] # NoOne
             /\ \A x \in Sessions \ {h} : pending'[x] = pending[x]
             /\ queued'[v] = Tail(queued[v])
             /\ \A w \in Servers \ {v} : queued'[w] = queued[w]
    <3>1. QueuesApart' /\ InQueue(h) /\ \A x : InQueue(x)' <=> InQueue(x) /\ x # h
      BY <1>0, <2>0, <2>2, QueuePop
    <3> HIDE DEF h
    <3> QED BY <1>0, <2>0, <2>2, <3>1, PlaceFrom DEF Held
  <2> QED BY <1>4, <2>1, <2>2, AgentReadyEffect
<1>5. ASSUME NEW v \in Servers, NEW a \in Agents, AgentGone(v, a) PROVE PlaceInv'
  <2> DEFINE mine == {s \in Sessions : pending[s] # NoOne /\ pending[s].agent = a}
  <2>0. UNCHANGED <<home, acked, forgotten>>
    BY <1>5 DEF AgentGone, history
  <2>1. /\ \A s \in mine : pending'[s] = NoOne
        /\ \A s \in Sessions \ mine : pending'[s] = pending[s]
        /\ Elements(queued'[v]) = Elements(queued[v]) \cup mine
        /\ Distinct(queued[v]) /\ mine \cap Elements(queued[v]) = {} => Distinct(queued'[v])
        /\ \A w \in Servers \ {v} : queued'[w] = queued[w]
    BY <1>5, AgentGoneEffect
  <2>2. \A s \in mine : s \in Sessions /\ pending[s] # NoOne /\ ~ InQueue(s)
    BY <1>0
  <2> HIDE DEF mine
  <2>3. QueuesApart' /\ \A x : InQueue(x)' <=> InQueue(x) \/ x \in mine
    BY <1>0, <2>1, <2>2, QueuePush
  <2>4. \A s \in Sessions : InQueue(s)' => pending'[s] = NoOne
    BY <1>0, <2>1, <2>3
  <2>5. \A s \in Sessions : Held(s)' <=> Held(s)
    BY <2>1, <2>2, <2>3 DEF Held
  <2> QED BY <2>0, <2>3, <2>4, <2>5, PlaceFrom
<1>6. ASSUME NEW v \in Servers, NEW s \in Sessions, Enqueue(v, s) PROVE PlaceInv'
  <2>0. /\ home[s] = NoOne /\ home'[s] = v /\ v # NoOne
        /\ \A x \in Sessions \ {s} : home'[x] = home[x]
        /\ UNCHANGED <<acked, forgotten>>
    BY <1>6, ChatRouterAssumption DEF Enqueue, RouterTypeOK, ChatRouterAssumption
  <2>1. /\ s \notin acked /\ s \notin forgotten /\ ~ InQueue(s) /\ pending[s] = NoOne
        /\ acked \subseteq Sessions /\ forgotten \subseteq Sessions
    BY <1>0, <2>0 DEF Held, RouterTypeOK
  <2>2. ASSUME QueuesApart',
               \A x \in Sessions : InQueue(x)' => pending'[x] = NoOne,
               Held(s)', \A x \in Sessions \ {s} : Held(x)' <=> Held(x)
        PROVE  PlaceInv'
    <3>1. ASSUME NEW x \in Sessions
          PROVE  Held(x)' <=> home'[x] # NoOne /\ x \notin acked' /\ x \notin forgotten'
      BY <1>0, <2>0, <2>1, <2>2
    <3>2. \A x \in acked' \cup forgotten' : home'[x] # NoOne
      BY <1>0, <2>0, <2>1
    <3> QED BY <2>2, <3>1, <3>2 DEF PlaceInv
  <2>3. CASE /\ UNCHANGED pending
             /\ Elements(queued'[v]) = Elements(queued[v]) \cup {s}
             /\ Distinct(queued[v]) /\ s \notin Elements(queued[v]) => Distinct(queued'[v])
             /\ \A w \in Servers \ {v} : queued'[w] = queued[w]
    <3>1. QueuesApart' /\ \A x : InQueue(x)' <=> InQueue(x) \/ x \in {s}
      BY <1>0, <2>1, <2>3, QueuePush
    <3> QED BY <1>0, <2>1, <2>2, <2>3, <3>1 DEF Held
  <2>4. CASE /\ UNCHANGED queued
             /\ ready[v] \in Seq(Agents) /\ ready[v] # <<>> /\ Offered(v, ready[v], s)
    <3>1. pending'[s] # NoOne /\ \A x \in Sessions \ {s} : pending'[x] = pending[x]
      BY <2>4, OfferedEffect
    <3>2. QueuesApart' /\ \A x : InQueue(x)' <=> InQueue(x)
      BY <1>0, <2>4, QueueKept
    <3> QED BY <1>0, <2>1, <2>2, <3>1, <3>2 DEF Held
  <2> QED BY <1>6, <2>3, <2>4, EnqueueEffect
<1>7. ASSUME NEW v \in Servers, NEW a \in Agents, NEW s \in Sessions, Decline(v, a, s)
      PROVE  PlaceInv'
  <2>1. pending[s] # NoOne /\ UNCHANGED <<home, acked, forgotten>>
    BY <1>7 DEF Decline, history
  <2> QED BY <1>2, <1>3, <1>7, <2>1, DeclineCases
<1>8. ASSUME NEW v \in Servers, NEW a \in Agents, NEW s \in Sessions, Reroute(v, a, s),
             pending[s] # NoOne, UNCHANGED <<home, acked, forgotten>>
      PROVE  PlaceInv'
  BY <1>2, <1>3, <1>8, RerouteCases
<1>9. ASSUME NEW a \in Agents, NEW s \in Sessions, Ack(a, s) PROVE PlaceInv'
  <2>1. /\ pending[s] # NoOne /\ pending'[s] = NoOne
        /\ \A x \in Sessions \ {s} : pending'[x] = pending[x]
        /\ acked' = acked \cup {s} /\ UNCHANGED <<queued, home, forgotten>>
    BY <1>9 DEF Ack, RouterTypeOK
  <2>2. QueuesApart' /\ \A x : InQueue(x)' <=> InQueue(x)
    BY <1>0, <2>1, QueueKept
  <2>3. ~ InQueue(s) /\ home[s] # NoOne
    BY <1>0, <2>1 DEF Held
  <2>4. ASSUME NEW x \in Sessions
        PROVE  /\ InQueue(x)' => pending'[x] = NoOne
               /\ Held(x)' <=> home'[x] # NoOne /\ x \notin acked' /\ x \notin forgotten'
    BY <1>0, <2>1, <2>2, <2>3 DEF Held
  <2>5. \A x \in acked' \cup forgotten' : home'[x] # NoOne
    BY <1>0, <2>1, <2>3
  <2> QED BY <2>2, <2>4, <2>5 DEF PlaceInv
<1>10. ASSUME NEW s \in Sessions, Fire(s) PROVE PlaceInv'
  <2> DEFINE p2 == [pending[s] EXCEPT !.fired = TRUE]
  <2>1. p2 \in Assignment
    BY <1>10 DEF RouterTypeOK, Fire, Assignment
  <2>2. p2 # NoOne
    <3> HIDE DEF p2
    <3> QED BY <2>1, ChatRouterAssumption DEF ChatRouterAssumption
  <2>3. pending' = [pending EXCEPT ![s] = p2] /\ UNCHANGED <<queued, home, acked, forgotten>>
    BY <1>10 DEF Fire, history
  <2> HIDE DEF p2
  <2>4. pending'[s] # NoOne /\ \A x \in Sessions \ {s} : pending'[x] = pending[x]
    BY <2>2, <2>3 DEF RouterTypeOK
  <2>5. pending[s] # NoOne
    BY <1>10 DEF Fire
  <2> QED BY <1>1, <2>3, <2>4, <2>5
<1>11. ASSUME NEW s \in Sessions, AckTimer(s) PROVE PlaceInv'
  <2>1. pending[s] # NoOne /\ pending[s].server \in Servers /\ pending[s].agent \in Agents
    BY <1>11 DEF RouterTypeOK, AckTimer, Assignment
  <2> QED BY <1>8, <1>11, <2>1 DEF AckTimer, history
<1>12. ASSUME NEW t \in strays, AckTimerStray(t) PROVE PlaceInv'
  <2>1. t.server \in Servers /\ t.agent \in Agents /\ t.session \in Sessions
    BY DEF RouterTypeOK, Timer
  <2>2. UNCHANGED <<home, acked, forgotten>>
    BY <1>12 DEF AckTimerStray, history
  <2> QED BY <1>1, <1>8, <1>12, <2>1, <2>2 DEF AckTimerStray
<1>13. ASSUME Restart PROVE PlaceInv'
  <2>1. /\ \A v \in Servers : queued'[v] = <<>>
        /\ \A s \in Sessions : pending'[s] = NoOne
        /\ forgotten' = Waiting /\ UNCHANGED <<home, acked>>
    BY <1>13 DEF Restart
  <2>2. \A v \in Servers : Elements(queued'[v]) = {} /\ Distinct(queued'[v])
    BY <2>1, EmptyElements
  <2>3. QueuesApart' /\ \A s : ~ InQueue(s)'
    BY <2>2 DEF QueuesApart, InQueue, Distinct, Elements
  <2> QED BY <1>0, <2>1, <2>3 DEF PlaceInv, Held, Waiting
<1>14. ASSUME NEW s \in Sessions, CloseSession(s) PROVE PlaceInv'
  BY <1>1, <1>14 DEF CloseSession, queueVars
<1>15. ASSUME NEW t \in strays, FireStray(t) PROVE PlaceInv'
  BY <1>1, <1>15 DEF FireStray, history
<1> QED BY <1>4, <1>5, <1>6, <1>7, <1>9, <1>10, <1>11, <1>12, <1>13, <1>14, <1>15 DEF RouterNext

LEMMA PlaceInvariant == RouterSafety => []PlaceInv
<1>1. RouterInit => PlaceInv
  <2> SUFFICES ASSUME RouterInit PROVE PlaceInv
    OBVIOUS
  <2>1. \A v \in Servers : Elements(queued[v]) = {} /\ Distinct(queued[v])
    BY EmptyElements DEF RouterInit
  <2> QED BY <2>1 DEF RouterInit, PlaceInv, QueuesApart, InQueue, Held
<1>2. OffersInv /\ PlaceInv /\ [RouterNext]_routerVars => PlaceInv'
  <2> SUFFICES ASSUME OffersInv, PlaceInv, [RouterNext]_routerVars PROVE PlaceInv'
    OBVIOUS
  <2>1. CASE RouterNext
    BY <2>1, PlaceStep DEF OffersInv
  <2>2. CASE UNCHANGED routerVars
    <3>1. UNCHANGED <<queued, pending, home, acked, forgotten>>
      BY <2>2 DEF routerVars, queueVars, history
    <3>2. QueuesApart' /\ \A s : InQueue(s)' <=> InQueue(s)
      BY <3>1, QueueKept DEF PlaceInv
    <3> QED BY <3>1, <3>2 DEF PlaceInv, Held
  <2> QED BY <2>1, <2>2
<1> QED BY <1>1, <1>2, OffersInvariant, PTL DEF RouterSafety

LEMMA PlacesCounted == RouterTypeOK /\ PlaceInv => InOnePlace
<1> SUFFICES ASSUME RouterTypeOK, PlaceInv, NEW s \in Sessions \ forgotten
             PROVE  Places(s) = IF s \in Waiting THEN 1 ELSE 0
  BY DEF InOnePlace
<1>1. Held(s) <=> s \in Waiting
  BY DEF PlaceInv, Waiting
<1>2. CASE ~ InQueue(s)
  <2>1. Slots(s) = {}
    BY <1>2 DEF Slots, InQueue, Elements
  <2>2. Cardinality(Slots(s)) = 0
    BY <2>1, FS_EmptySet
  <2> QED BY <1>1, <1>2, <2>2 DEF Places, Held
<1>3. CASE InQueue(s)
  <2>1. pending[s] = NoOne
    BY <1>3 DEF PlaceInv
  <2>2. PICK v \in Servers : s \in Elements(queued[v])
    BY <1>3 DEF InQueue
  <2>3. PICK i \in DOMAIN queued[v] : queued[v][i] = s
    BY <2>2 DEF Elements
  <2>4. \A w \in Servers : \A j \in DOMAIN queued[w] : queued[w][j] = s => w = v /\ j = i
    <3>1. ASSUME NEW w \in Servers, NEW j \in DOMAIN queued[w], queued[w][j] = s
          PROVE  w = v /\ j = i
      <4>1. s \in Elements(queued[w])
        BY <3>1 DEF Elements
      <4>2. w = v
        BY <2>2, <4>1 DEF PlaceInv, QueuesApart
      <4> QED BY <2>3, <3>1, <4>2 DEF PlaceInv, QueuesApart, Distinct
    <3> QED BY <3>1
  <2>5. Slots(s) = {<<v, i>>}
    <3>1. ASSUME NEW x \in Slots(s) PROVE x = <<v, i>>
      <4>1. PICK w \in Servers : x \in {w} \X {j \in DOMAIN queued[w] : queued[w][j] = s}
        BY <3>1 DEF Slots
      <4> QED BY <2>4, <4>1
    <3>2. <<v, i>> \in Slots(s)
      BY <2>3 DEF Slots
    <3> QED BY <3>1, <3>2
  <2>6. Cardinality(Slots(s)) = 1
    BY <2>5, FS_Singleton
  <2> QED BY <1>1, <1>3, <2>1, <2>6 DEF Places, Held
<1> QED BY <1>2, <1>3

\* A session nobody took up yet is in exactly one queue slot or assignment, and one
\* taken up in none, for any number of agents, servers and timers, and for the
\* sessions started since the last restart (Enqueue, Ack, Decline, AgentGone, the
\* timers of router.go).
THEOREM RouterInOnePlace == RouterSafety => []InOnePlace
<1>1. OffersInv /\ PlaceInv => InOnePlace
  BY PlacesCounted DEF OffersInv
<1> QED BY <1>1, OffersInvariant, PlaceInvariant, PTL

\* The hub and the router in one process: what is proved of either holds in the
\* whole, whichever are started (RunUnified).
THEOREM ChatImplementsEach == Spec => RoomSafety /\ RouterSafety
<1>1. Init => RoomInit /\ RouterInit
  BY DEF Init
<1>2. [Next]_vars => [RoomNext]_roomVars /\ [RouterNext]_routerVars
  <2> SUFFICES ASSUME [Next]_vars PROVE [RoomNext]_roomVars /\ [RouterNext]_routerVars
    OBVIOUS
  <2>1. CASE RoomNext /\ UNCHANGED routerVars
    BY <2>1
  <2>2. CASE RouterNext /\ UNCHANGED roomVars
    BY <2>2
  <2>3. CASE UNCHANGED vars
    BY <2>3 DEF vars
  <2> QED BY <2>1, <2>2, <2>3 DEF Next
<1> QED BY <1>1, <1>2, PTL DEF Spec, RoomSafety, RouterSafety
=============================================================================
