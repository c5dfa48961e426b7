---------------------------- MODULE GossipProofs ----------------------------
(***************************************************************************)
(* Proofs about Gossip for any number of nodes, keys and writes: stamps    *)
(* are totally ordered, merging LWW registers is a join, the digest and    *)
(* clock invariants hold, and a stamp names one write until a restart.     *)
(***************************************************************************)
EXTENDS Replication, FiniteSetTheorems, TLAPS

(* HLC.After is irreflexive and asymmetric: two replicas comparing the     *)
(* same two stamps never both claim to be the later one.                   *)
LEMMA AfterAsymmetric ==
    ASSUME NEW a \in HLC, NEW b \in HLC
    PROVE  ~(After(a, b) /\ After(b, a)) /\ ~After(a, a)
BY DEF After, HLC

(* HLC.After is total: stamps neither of which is later are equal. *)
LEMMA AfterTotal ==
    ASSUME NEW a \in HLC, NEW b \in HLC
    PROVE  After(a, b) \/ After(b, a) \/ a = b
<1>1. a = [wall |-> a.wall, ctr |-> a.ctr, node |-> a.node]
    BY DEF HLC
<1>2. b = [wall |-> b.wall, ctr |-> b.ctr, node |-> b.node]
    BY DEF HLC
<1>3. a.wall \in Nat /\ a.ctr \in Nat /\ a.node \in Nat
    BY DEF HLC
<1>4. b.wall \in Nat /\ b.ctr \in Nat /\ b.node \in Nat
    BY DEF HLC
<1>5. CASE a.wall = b.wall /\ a.ctr = b.ctr /\ a.node = b.node
    BY <1>1, <1>2, <1>5
<1>6. CASE ~(a.wall = b.wall /\ a.ctr = b.ctr /\ a.node = b.node)
    BY <1>3, <1>4, <1>6 DEF After
<1> QED
    BY <1>5, <1>6

(* "Not later" is transitive. *)
LEMMA NotAfterTransitive ==
    ASSUME NEW a \in HLC, NEW b \in HLC, NEW c \in HLC,
           ~After(a, b), ~After(b, c)
    PROVE  ~After(a, c)
BY DEF After, HLC

(* The zero stamp of an empty register or clock is later than none. *)
LEMMA ZeroIsFirst ==
    ASSUME NEW a \in HLC
    PROVE  Zero \in HLC /\ ~After(Zero, a)
BY DEF Zero, HLC, After

(* Clock.Now moves the clock forward. *)
LEMMA NowAdvances ==
    ASSUME NEW n \in Nat, NEW pt \in Nat, NEW l \in HLC
    PROVE  /\ ClockNow(n, pt, l) \in HLC
           /\ ClockNow(n, pt, l).node = n
           /\ ~After(l, ClockNow(n, pt, l))
<1>1. l.wall \in Nat /\ l.ctr \in Nat /\ l.node \in Nat
    BY DEF HLC
<1>2. Later(pt, l.wall) \in Nat /\ Later(pt, l.wall) >= l.wall
    BY <1>1 DEF Later
<1>3. ClockNow(n, pt, l) \in HLC /\ ClockNow(n, pt, l).node = n
    BY <1>1, <1>2 DEF ClockNow, HLC
<1>4. ~After(l, ClockNow(n, pt, l))
    BY <1>1, <1>2 DEF ClockNow, After
<1> QED
    BY <1>3, <1>4

(* Clock.Update moves it past its own last stamp and the remote one. *)
LEMMA UpdateAdvances ==
    ASSUME NEW n \in Nat, NEW pt \in Nat, NEW l \in HLC, NEW r \in HLC
    PROVE  /\ ClockUpdate(n, pt, l, r) \in HLC
           /\ ClockUpdate(n, pt, l, r).node = n
           /\ ~After(l, ClockUpdate(n, pt, l, r))
           /\ ~After(r, ClockUpdate(n, pt, l, r))
<1> DEFINE w == Later(Later(pt, l.wall), r.wall)
           c == CASE w > l.wall /\ w > r.wall -> 0
                  [] w = l.wall /\ w = r.wall -> Later(l.ctr, r.ctr) + 1
                  [] w = l.wall /\ w > r.wall -> l.ctr + 1
                  [] OTHER -> r.ctr + 1
<1>1. l.wall \in Nat /\ l.ctr \in Nat /\ l.node \in Nat
    BY DEF HLC
<1>2. r.wall \in Nat /\ r.ctr \in Nat /\ r.node \in Nat
    BY DEF HLC
<1>3. w \in Nat /\ w >= l.wall /\ w >= r.wall
    BY <1>1, <1>2 DEF Later
<1>4. /\ c \in Nat
      /\ w = l.wall => c > l.ctr
      /\ w = r.wall => c > r.ctr
    <2> HIDE DEF w
    <2>1. CASE w > l.wall /\ w > r.wall
        BY <2>1, <1>1, <1>2, <1>3
    <2>2. CASE w = l.wall /\ w = r.wall
        <3>1. c = Later(l.ctr, r.ctr) + 1
            BY <2>2, <1>1, <1>2, <1>3
        <3> QED
            BY <3>1, <1>1, <1>2 DEF Later
    <2>3. CASE w = l.wall /\ w > r.wall
        BY <2>3, <1>1, <1>2, <1>3
    <2>4. CASE w > l.wall /\ w = r.wall
        BY <2>4, <1>1, <1>2, <1>3
    <2> QED
        BY <2>1, <2>2, <2>3, <2>4, <1>1, <1>2, <1>3
<1>5. ClockUpdate(n, pt, l, r) = [wall |-> w, node |-> n, ctr |-> c]
    BY DEF ClockUpdate
<1> HIDE DEF w, c
<1>6. ClockUpdate(n, pt, l, r) \in HLC /\ ClockUpdate(n, pt, l, r).node = n
    BY <1>3, <1>4, <1>5 DEF HLC
<1>7. ~After(l, ClockUpdate(n, pt, l, r)) /\ ~After(r, ClockUpdate(n, pt, l, r))
    BY <1>1, <1>2, <1>3, <1>4, <1>5 DEF After
<1> QED
    BY <1>6, <1>7

(* bumpHighWater keeps the later of the two stamps. *)
LEMMA BumpCovers ==
    ASSUME NEW c \in HLC, NEW h \in HLC
    PROVE  /\ BumpHighWater(c, h) \in HLC
           /\ ~After(h, BumpHighWater(c, h))
           /\ ~After(c, BumpHighWater(c, h))
BY AfterAsymmetric DEF BumpHighWater

(* MergeEncoded yields a register stamped with the later of its arguments' *)
(* stamps, for both kinds.                                                 *)
LEMMA MergeIsLatest ==
    ASSUME NEW k \in CrdtKeys, NEW a \in Rec, NEW b \in Rec
    PROVE  /\ MergeEncoded(k, a, b) \in Rec
           /\ MergeEncoded(k, a, b).hlc \in {a.hlc, b.hlc}
           /\ ~After(a.hlc, MergeEncoded(k, a, b).hlc)
           /\ ~After(b.hlc, MergeEncoded(k, a, b).hlc)
<1>1. a.hlc \in HLC /\ b.hlc \in HLC /\ a.val \in Nat /\ b.val \in Nat
    BY DEF Rec
<1>2. /\ MergeLWW(a, b) \in Rec
      /\ MergeLWW(a, b).hlc \in {a.hlc, b.hlc}
      /\ ~After(a.hlc, MergeLWW(a, b).hlc)
      /\ ~After(b.hlc, MergeLWW(a, b).hlc)
    BY <1>1, AfterAsymmetric, AfterTotal DEF MergeLWW
<1>3. /\ MergeMonotone(a, b) \in Rec
      /\ MergeMonotone(a, b).hlc = IF After(b.hlc, a.hlc) THEN b.hlc ELSE a.hlc
    BY <1>1 DEF MergeMonotone, Rec
<1>4. /\ ~After(a.hlc, MergeMonotone(a, b).hlc)
      /\ ~After(b.hlc, MergeMonotone(a, b).hlc)
    BY <1>1, <1>3, AfterAsymmetric
<1> QED
    BY <1>2, <1>3, <1>4 DEF MergeEncoded

----------------------------------------------------------------------------
(* Merging LWW registers. *)

(* Merging twice is merging once: a delta that arrives again changes       *)
(* nothing (ApplyDelta then finds the merged bytes equal to the old ones). *)
THEOREM MergeLWWIdempotent ==
    ASSUME NEW a \in Rec, NEW b \in Rec
    PROVE  MergeLWW(MergeLWW(a, b), b) = MergeLWW(a, b)
<1>1. a.hlc \in HLC /\ b.hlc \in HLC
    BY DEF Rec
<1> QED
    BY <1>1, AfterAsymmetric, AfterTotal DEF MergeLWW

(* If one stamp means one write, the order in which two deltas arrive does *)
(* not matter.                                                             *)
THEOREM MergeLWWCommutative ==
    ASSUME NEW a \in Rec, NEW b \in Rec, a.hlc = b.hlc => a = b
    PROVE  MergeLWW(a, b) = MergeLWW(b, a)
<1>1. a.hlc \in HLC /\ b.hlc \in HLC
    BY DEF Rec
<1> QED
    BY <1>1, AfterAsymmetric, AfterTotal DEF MergeLWW

(* Nor does it matter how deltas were merged on the way, on any node.      *)
THEOREM MergeLWWAssociative ==
    ASSUME NEW a \in Rec, NEW b \in Rec, NEW c \in Rec,
           a.hlc = b.hlc => a = b, b.hlc = c.hlc => b = c, a.hlc = c.hlc => a = c
    PROVE  MergeLWW(MergeLWW(a, b), c) = MergeLWW(a, MergeLWW(b, c))
<1>1. a.hlc \in HLC /\ b.hlc \in HLC /\ c.hlc \in HLC
    BY DEF Rec
<1>2. \A x, y, z \in HLC : ~After(x, y) /\ ~After(y, z) => ~After(x, z)
    BY NotAfterTransitive
<1>3. \A x, y \in HLC : ~(After(x, y) /\ After(y, x)) /\ ~After(x, x)
    BY AfterAsymmetric
<1>4. \A x, y \in HLC : After(x, y) \/ After(y, x) \/ x = y
    BY AfterTotal
<1> QED
    BY <1>1, <1>2, <1>3, <1>4 DEF MergeLWW

----------------------------------------------------------------------------
(* The invariants. *)

Message == [from : Peers, to : Peers, key : CrdtKeys, rec : Rec, hlc : HLC]

(* A push never carries a register later than the stamp beside it:         *)
(* ApplyDelta passes on the old payload under the merged stamp.            *)
PushesStamped == \A m \in net : ~After(m.rec.hlc, m.hlc)

(* The inductive invariant. *)
IInv == GossipTypeOK /\ PushesStamped /\ HighWaterCovers /\ ClockAhead

(* An empty register and an empty digest are well formed. *)
LEMMA AbsentTyped == NoRegister \in Rec /\ NoDigest \in [Buckets -> HLC]
BY DEF NoRegister, Rec, NoDigest, Zero, HLC

(* Node ids are positive numbers: zero stands for no node. *)
LEMMA NodeIds == \A n \in Peers : n \in Nat /\ n # 0
BY NodesAssumption

(* put and the transaction of ApplyDelta keep the high water at or past    *)
(* every register, if the stamp given is not before the register's.        *)
LEMMA StoredCovered ==
    ASSUME GossipTypeOK, HighWaterCovers,
           NEW n \in Peers, NEW k \in CrdtKeys, NEW r \in Rec, NEW h \in HLC,
           ~After(r.hlc, h), Stored(n, k, r, h)
    PROVE  /\ store' \in [Peers -> [CrdtKeys -> Rec]]
           /\ hw' \in [Peers -> [Buckets -> HLC]]
           /\ \A p \in Peers, x \in CrdtKeys : ~After(store'[p][x].hlc, hw'[p][Bucket(x)])
           /\ \A p \in Peers, x \in CrdtKeys :
                store'[p][x] = IF p = n /\ x = k THEN r ELSE store[p][x]
<1>1. \A x \in CrdtKeys : Bucket(x) \in Buckets
    BY DEF Bucket, Buckets
<1>2. /\ store \in [Peers -> [CrdtKeys -> Rec]]
      /\ hw \in [Peers -> [Buckets -> HLC]]
    BY DEF GossipTypeOK
<1> DEFINE b == Bucket(k)
           bumped == BumpHighWater(hw[n][b], h)
<1>3. hw[n][b] \in HLC
    BY <1>1, <1>2
<1>4. /\ bumped \in HLC /\ ~After(h, bumped) /\ ~After(hw[n][b], bumped)
    BY <1>3, BumpCovers
<1>5. /\ store' = [store EXCEPT ![n][k] = r]
      /\ hw' = [hw EXCEPT ![n][b] = bumped]
    BY DEF Stored
<1> HIDE DEF bumped
<1>6. \A p \in Peers, x \in CrdtKeys :
         store'[p][x] = IF p = n /\ x = k THEN r ELSE store[p][x]
    BY <1>2, <1>5
<1>7. \A p \in Peers, c \in Buckets :
         hw'[p][c] = IF p = n /\ c = b THEN bumped ELSE hw[p][c]
    BY <1>2, <1>5
<1>8. store' \in [Peers -> [CrdtKeys -> Rec]] /\ hw' \in [Peers -> [Buckets -> HLC]]
    BY <1>1, <1>2, <1>4, <1>5
<1>9. ASSUME NEW p \in Peers, NEW x \in CrdtKeys
      PROVE  ~After(store'[p][x].hlc, hw'[p][Bucket(x)])
    <2>1. /\ store[p][x].hlc \in HLC /\ r.hlc \in HLC
          /\ hw[p][Bucket(x)] \in HLC
        BY <1>1, <1>2 DEF Rec
    <2>2. ~After(store[p][x].hlc, hw[p][Bucket(x)])
        BY DEF HighWaterCovers
    <2>3. CASE p = n /\ x = k
        BY <2>3, <2>1, <1>1, <1>4, <1>6, <1>7, NotAfterTransitive
    <2>4. CASE ~(p = n /\ x = k) /\ p = n /\ Bucket(x) = b
        BY <2>4, <2>1, <2>2, <1>1, <1>4, <1>6, <1>7, NotAfterTransitive
    <2>5. CASE ~(p = n /\ x = k) /\ ~(p = n /\ Bucket(x) = b)
        BY <2>5, <2>2, <1>1, <1>6, <1>7
    <2> QED
        BY <2>3, <2>4, <2>5
<1> QED
    BY <1>6, <1>8, <1>9

(* What ApplyDelta leaves behind, on whichever path a delta came in. *)
LEMMA ApplyDeltaEffect ==
    ASSUME GossipTypeOK, HighWaterCovers, PushesStamped,
           NEW n \in Peers, NEW k \in CrdtKeys, NEW r \in Rec, NEW h \in HLC,
           ~After(r.hlc, h), NEW inFlight \in SUBSET net,
           ApplyDelta(n, k, r, h, inFlight)
    PROVE  /\ store' \in [Peers -> [CrdtKeys -> Rec]]
           /\ hw' \in [Peers -> [Buckets -> HLC]]
           /\ net' \subseteq Message
           /\ \A p \in Peers, x \in CrdtKeys : ~After(store'[p][x].hlc, hw'[p][Bucket(x)])
           /\ \A m \in net' : ~After(m.rec.hlc, m.hlc)
           /\ \A p \in Peers, x \in CrdtKeys :
                \/ store'[p][x].hlc = store[p][x].hlc
                \/ p = n /\ store'[p][x].hlc = r.hlc
<1> DEFINE old == store[n][k]
           new == Merged(n, k, r)
           mergedHLC == IF old = NoRegister THEN h ELSE new.hlc
<1>1. /\ old \in Rec
      /\ net \subseteq Message
      /\ store \in [Peers -> [CrdtKeys -> Rec]]
      /\ hw \in [Peers -> [Buckets -> HLC]]
    BY DEF GossipTypeOK, Message
<1>2. /\ new \in Rec
      /\ new.hlc \in {old.hlc, r.hlc}
      /\ old # NoRegister => ~After(r.hlc, new.hlc)
      /\ old = NoRegister => new = r
    BY <1>1, MergeIsLatest DEF Merged
<1>3. /\ r.hlc \in HLC /\ new.hlc \in HLC
      /\ mergedHLC \in HLC
    BY <1>2 DEF Rec
<1>4. ~After(new.hlc, mergedHLC) /\ ~After(r.hlc, mergedHLC)
    BY <1>2, <1>3, AfterAsymmetric
<1> HIDE DEF new, mergedHLC
<1>5. CASE /\ new # old
           /\ Stored(n, k, new, mergedHLC)
           /\ net' = inFlight \cup Pushes(n, k, r, mergedHLC)
    <2>1. /\ store' \in [Peers -> [CrdtKeys -> Rec]]
          /\ hw' \in [Peers -> [Buckets -> HLC]]
          /\ \A p \in Peers, x \in CrdtKeys : ~After(store'[p][x].hlc, hw'[p][Bucket(x)])
          /\ \A p \in Peers, x \in CrdtKeys :
                store'[p][x] = IF p = n /\ x = k THEN new ELSE store[p][x]
        BY <1>2, <1>3, <1>4, <1>5, StoredCovered
    <2>2. \A m \in Pushes(n, k, r, mergedHLC) :
             m \in Message /\ ~After(m.rec.hlc, m.hlc)
        BY <1>3, <1>4 DEF Pushes, Message
    <2>3. net' \subseteq Message /\ \A m \in net' : ~After(m.rec.hlc, m.hlc)
        BY <1>1, <1>5, <2>2 DEF PushesStamped
    <2>4. \A p \in Peers, x \in CrdtKeys :
             \/ store'[p][x].hlc = store[p][x].hlc
             \/ p = n /\ store'[p][x].hlc = r.hlc
        BY <1>2, <2>1
    <2> QED
        BY <2>1, <2>3, <2>4
<1>6. CASE new = old /\ net' = inFlight /\ UNCHANGED disk
    BY <1>1, <1>6 DEF disk, PushesStamped, HighWaterCovers
<1>7. \/ /\ new # old
         /\ Stored(n, k, new, mergedHLC)
         /\ net' = inFlight \cup Pushes(n, k, r, mergedHLC)
      \/ new = old /\ net' = inFlight /\ UNCHANGED disk
    BY DEF ApplyDelta, new, mergedHLC
<1> QED
    BY <1>5, <1>6, <1>7

(* A step that moves clocks only forward, and stores or stamps only what   *)
(* its node's clock has reached, keeps the clocks ahead.                   *)
LEMMA ClockKept ==
    ASSUME GossipTypeOK, ClockAhead, reboots' = reboots,
           last' \in [Peers -> HLC], store' \in [Peers -> [CrdtKeys -> Rec]],
           pend' \in [Peers -> SUBSET Write],
           \A p \in Peers : ~After(last[p], last'[p]),
           \A p \in Peers, x \in CrdtKeys :
              \/ store'[p][x].hlc = store[p][x].hlc
              \/ ~After(store'[p][x].hlc, last'[p]),
           \A p \in Peers : \A w \in pend'[p] :
              w \in pend[p] \/ ~After(w.rec.hlc, last'[p])
    PROVE  ClockAhead'
<1> SUFFICES ASSUME reboots = 0, NEW p \in Peers
             PROVE  /\ \A k \in CrdtKeys : ~After(store'[p][k].hlc, last'[p])
                    /\ \A w \in pend'[p] : ~After(w.rec.hlc, last'[p])
    BY DEF ClockAhead
<1>1. last[p] \in HLC /\ last'[p] \in HLC /\ ~After(last[p], last'[p])
    BY DEF GossipTypeOK
<1>2. ASSUME NEW k \in CrdtKeys
      PROVE  ~After(store'[p][k].hlc, last'[p])
    <2>1. store[p][k].hlc \in HLC /\ ~After(store[p][k].hlc, last[p])
        BY DEF GossipTypeOK, Rec, ClockAhead
    <2>2. ~After(store[p][k].hlc, last'[p])
        BY <1>1, <2>1, NotAfterTransitive
    <2> QED
        BY <2>2
<1>3. ASSUME NEW w \in pend'[p]
      PROVE  ~After(w.rec.hlc, last'[p])
    <2>1. CASE w \in pend[p]
        <3>1. w.rec.hlc \in HLC /\ ~After(w.rec.hlc, last[p])
            BY <2>1 DEF GossipTypeOK, Write, Rec, ClockAhead
        <3> QED
            BY <1>1, <3>1, NotAfterTransitive
    <2> QED
        BY <2>1
<1> QED
    BY <1>2, <1>3

(* The stamp of a reply, taken or left out at the bound. *)
LEMMA ReplyAdvances ==
    ASSUME GossipTypeOK, NEW n \in Peers, NEW l \in HLC, l.node = n
    PROVE  /\ ReplyClock(n, l) \in HLC
           /\ ReplyClock(n, l).node = n
           /\ ~After(l, ReplyClock(n, l))
<1>1. n \in Nat /\ wall[n] \in Nat
    BY NodeIds DEF GossipTypeOK
<1> QED
    BY <1>1, NowAdvances, AfterAsymmetric DEF ReplyClock

(* The same for a clock that may never have been used. *)
LEMMA ReplyAdvancesFromZero ==
    ASSUME GossipTypeOK, NEW n \in Peers
    PROVE  /\ ReplyClock(n, last[n]) \in HLC
           /\ ReplyClock(n, last[n]).node \in {0, n}
           /\ ~After(last[n], ReplyClock(n, last[n]))
<1>1. n \in Nat /\ wall[n] \in Nat /\ last[n] \in HLC /\ last[n].node \in {0, n}
    BY NodeIds DEF GossipTypeOK
<1> QED
    BY <1>1, NowAdvances, AfterAsymmetric DEF ReplyClock

(* Empty stores and fresh clocks satisfy the invariant (OpenStore). *)
LEMMA InitInv == GossipInit => IInv
<1> SUFFICES ASSUME GossipInit
             PROVE  IInv
    OBVIOUS
<1>1. NoSync \in [peer : Peers \cup {0}, digest : [Buckets -> HLC], deltas : SUBSET Write]
    BY AbsentTyped DEF NoSync
<1>2. Zero \in HLC /\ Zero.node = 0 /\ ~After(Zero, Zero)
    BY DEF Zero, HLC, After
<1>3. \A n \in Peers : last[n] = Zero /\ pend[n] = {}
    BY DEF GossipInit
<1>4. GossipTypeOK
    <2>1. /\ wall \in [Peers -> Nat] /\ last \in [Peers -> HLC]
          /\ store \in [Peers -> [CrdtKeys -> Rec]]
          /\ hw \in [Peers -> [Buckets -> HLC]]
          /\ pend \in [Peers -> SUBSET Write]
        BY <1>2, AbsentTyped DEF GossipInit
    <2>2. /\ net = {} /\ sync = [n \in Peers |-> NoSync]
          /\ writes \in Nat /\ reboots \in Nat /\ sweeps \in Nat
        BY DEF GossipInit
    <2> QED
        BY <1>1, <1>2, <1>3, <2>1, <2>2 DEF GossipTypeOK
<1>5. PushesStamped
    BY DEF GossipInit, PushesStamped
<1>6. HighWaterCovers
    <2>1. \A k \in CrdtKeys : Bucket(k) \in Buckets
        BY DEF Bucket, Buckets
    <2> QED
        BY <2>1, <1>2 DEF GossipInit, HighWaterCovers, NoDigest, NoRegister
<1>7. ClockAhead
    BY <1>2, <1>3 DEF GossipInit, ClockAhead, NoRegister
<1> QED
    BY <1>4, <1>5, <1>6, <1>7 DEF IInv

(* The steps that leave the disk and the network alone. *)
LEMMA QuietInv ==
    ASSUME IInv, UNCHANGED <<disk, net>>
    PROVE  PushesStamped' /\ HighWaterCovers'
BY DEF IInv, disk, PushesStamped, HighWaterCovers

(* PutLWW, DeleteLWW and FlagBad up to their stamp keep the invariant. *)
LEMMA StartWriteInv ==
    ASSUME IInv, NEW n \in Peers, NEW k \in CrdtKeys, NEW t \in BOOLEAN, NEW v \in Nat,
           StartWrite(n, k, t, v)
    PROVE  IInv'
<1> DEFINE now == ClockNow(n, wall[n], last[n])
           w == [key |-> k, rec |-> [hlc |-> now, tomb |-> t, val |-> v]]
<1>1. GossipTypeOK /\ ClockAhead
    BY DEF IInv
<1>2. n \in Nat /\ wall[n] \in Nat /\ last[n] \in HLC
    BY <1>1, NodeIds DEF GossipTypeOK
<1>3. now \in HLC /\ now.node = n /\ ~After(last[n], now)
    BY <1>2, NowAdvances
<1> HIDE DEF now
<1>4. w \in Write /\ w.rec.hlc = now
    BY <1>3 DEF Write, Rec
<1>5. /\ last' = [last EXCEPT ![n] = now]
      /\ last'[n] = now
    BY <1>1 DEF StartWrite, now, GossipTypeOK
<1>6. pend' = [pend EXCEPT ![n] = pend[n] \cup {w}]
    BY <1>5 DEF StartWrite
<1> HIDE DEF w
<1>7. /\ writes' \in Nat
      /\ UNCHANGED <<wall, store, hw, net, sync, reboots, sweeps>>
    BY <1>1 DEF StartWrite, disk, GossipTypeOK
<1>8. last' \in [Peers -> HLC] /\ pend' \in [Peers -> SUBSET Write]
    BY <1>1, <1>3, <1>4, <1>5, <1>6 DEF GossipTypeOK
<1>9. \A p \in Peers : last'[p].node \in {0, p}
    BY <1>1, <1>3, <1>5 DEF GossipTypeOK
<1>10. \A p \in Peers : \A x \in pend'[p] : x.rec.hlc.node = p
    BY <1>1, <1>3, <1>4, <1>6 DEF GossipTypeOK
<1>11. GossipTypeOK'
    BY <1>1, <1>7, <1>8, <1>9, <1>10 DEF GossipTypeOK
<1>12. \A p \in Peers : ~After(last[p], last'[p])
    BY <1>1, <1>3, <1>5, AfterAsymmetric DEF GossipTypeOK
<1>13. \A p \in Peers : \A x \in pend'[p] : x \in pend[p] \/ ~After(x.rec.hlc, last'[p])
    BY <1>1, <1>3, <1>4, <1>5, <1>6, AfterAsymmetric DEF GossipTypeOK
<1>14. store' \in [Peers -> [CrdtKeys -> Rec]]
    BY <1>1, <1>7 DEF GossipTypeOK
<1>15. ClockAhead'
    BY <1>1, <1>7, <1>8, <1>12, <1>13, <1>14, ClockKept
<1> QED
    BY <1>7, <1>11, <1>15, QuietInv DEF IInv, disk

(* The blind put of a stamped write keeps it. *)
LEMMA PutInv ==
    ASSUME IInv, NEW n \in Peers, NEW w \in pend[n], Put(n, w)
    PROVE  IInv'
<1>1. GossipTypeOK /\ ClockAhead /\ HighWaterCovers /\ PushesStamped
    BY DEF IInv
<1>2. w \in Write /\ w.key \in CrdtKeys /\ w.rec \in Rec /\ w.rec.hlc \in HLC
    BY <1>1 DEF GossipTypeOK, Write, Rec
<1>3. ~After(w.rec.hlc, w.rec.hlc)
    BY <1>2, AfterAsymmetric
<1>4. /\ store' \in [Peers -> [CrdtKeys -> Rec]]
      /\ hw' \in [Peers -> [Buckets -> HLC]]
      /\ \A p \in Peers, x \in CrdtKeys : ~After(store'[p][x].hlc, hw'[p][Bucket(x)])
      /\ \A p \in Peers, x \in CrdtKeys :
           store'[p][x] = IF p = n /\ x = w.key THEN w.rec ELSE store[p][x]
    BY <1>1, <1>2, <1>3, StoredCovered DEF Put
<1>5. /\ pend' = [pend EXCEPT ![n] = pend[n] \ {w}]
      /\ net' = net \cup Pushes(n, w.key, w.rec, w.rec.hlc)
      /\ UNCHANGED <<wall, last, sync, writes, reboots, sweeps>>
    BY DEF Put, counts
<1>6. \A m \in Pushes(n, w.key, w.rec, w.rec.hlc) :
         m \in Message /\ ~After(m.rec.hlc, m.hlc)
    BY <1>2, <1>3 DEF Pushes, Message
<1>7. net' \subseteq Message /\ PushesStamped'
    BY <1>1, <1>5, <1>6 DEF GossipTypeOK, PushesStamped, Message
<1>8. pend' \in [Peers -> SUBSET Write] /\ \A p \in Peers : pend'[p] \subseteq pend[p]
    BY <1>1, <1>5 DEF GossipTypeOK
<1>9. GossipTypeOK'
    BY <1>1, <1>4, <1>5, <1>7, <1>8 DEF GossipTypeOK, Message
<1>10. HighWaterCovers'
    BY <1>4 DEF HighWaterCovers
<1>11. CASE reboots = 0
    <2>1. ~After(w.rec.hlc, last[n])
        BY <1>1, <1>11 DEF ClockAhead
    <2>2. \A p \in Peers : ~After(last[p], last'[p])
        BY <1>1, <1>5, AfterAsymmetric DEF GossipTypeOK
    <2>3. \A p \in Peers, x \in CrdtKeys :
             \/ store'[p][x].hlc = store[p][x].hlc
             \/ ~After(store'[p][x].hlc, last'[p])
        BY <1>4, <1>5, <2>1
    <2>4. last' \in [Peers -> HLC]
        BY <1>1, <1>5 DEF GossipTypeOK
    <2>5. ClockAhead'
        BY <1>1, <1>4, <1>5, <1>8, <2>2, <2>3, <2>4, ClockKept
    <2> QED
        BY <1>7, <1>9, <1>10, <2>5 DEF IInv
<1>12. CASE reboots # 0
    BY <1>5, <1>7, <1>9, <1>10, <1>12 DEF IInv, ClockAhead
<1> QED
    BY <1>11, <1>12

(* SweepTombstones keeps it: an emptied register is covered. *)
LEMMA SweepInv ==
    ASSUME IInv, NEW n \in Peers, SweepTombstones(n)
    PROVE  IInv'
<1>1. GossipTypeOK /\ ClockAhead /\ HighWaterCovers /\ PushesStamped
    BY DEF IInv
<1>2. UNCHANGED <<wall, last, pend, sync, hw, net, writes, reboots>> /\ sweeps' \in Nat
    BY <1>1 DEF SweepTombstones, memory, GossipTypeOK
<1>3. \A x \in CrdtKeys : Bucket(x) \in Buckets
    BY DEF Bucket, Buckets
<1>4. /\ store' \in [Peers -> [CrdtKeys -> Rec]]
      /\ \A p \in Peers, x \in CrdtKeys : store'[p][x] \in {store[p][x], NoRegister}
    <2> DEFINE kept == [k \in CrdtKeys |-> IF Expired(n, k) THEN NoRegister ELSE store[n][k]]
    <2>1. store' = [store EXCEPT ![n] = kept]
        BY DEF SweepTombstones
    <2>2. kept \in [CrdtKeys -> Rec] /\ \A x \in CrdtKeys : kept[x] \in {store[n][x], NoRegister}
        BY <1>1, AbsentTyped DEF GossipTypeOK
    <2> HIDE DEF kept
    <2> QED
        BY <1>1, <2>1, <2>2 DEF GossipTypeOK
<1>5. NoRegister.hlc = Zero
    BY DEF NoRegister
<1>6. GossipTypeOK'
    BY <1>1, <1>2, <1>4 DEF GossipTypeOK
<1>7. PushesStamped'
    BY <1>1, <1>2 DEF PushesStamped
<1>8. HighWaterCovers'
    <2> SUFFICES ASSUME NEW p \in Peers, NEW x \in CrdtKeys
                 PROVE  ~After(store'[p][x].hlc, hw[p][Bucket(x)])
        BY <1>2 DEF HighWaterCovers
    <2>1. hw[p][Bucket(x)] \in HLC
        BY <1>1, <1>3 DEF GossipTypeOK
    <2>2. ~After(Zero, hw[p][Bucket(x)])
        BY <2>1, ZeroIsFirst
    <2> QED
        BY <1>1, <1>4, <1>5, <2>2 DEF HighWaterCovers
<1>9. ClockAhead'
    <2> SUFFICES ASSUME reboots = 0, NEW p \in Peers
                 PROVE  /\ \A k \in CrdtKeys : ~After(store'[p][k].hlc, last[p])
                        /\ \A w \in pend[p] : ~After(w.rec.hlc, last[p])
        BY <1>2 DEF ClockAhead
    <2>1. last[p] \in HLC
        BY <1>1 DEF GossipTypeOK
    <2>2. ~After(Zero, last[p])
        BY <2>1, ZeroIsFirst
    <2> QED
        BY <1>1, <1>4, <1>5, <2>2 DEF ClockAhead
<1> QED
    BY <1>6, <1>7, <1>8, <1>9 DEF IInv

(* A delta applied on node n, pushed or synced: the clock has moved to c,  *)
(* past its last stamp and the register's.                                 *)
LEMMA AppliedInv ==
    ASSUME IInv, NEW n \in Peers, NEW k \in CrdtKeys, NEW r \in Rec, NEW h \in HLC,
           ~After(r.hlc, h), NEW inFlight \in SUBSET net,
           ApplyDelta(n, k, r, h, inFlight),
           NEW c \in HLC, c.node = n, ~After(last[n], c), ~After(r.hlc, c),
           last' = [last EXCEPT ![n] = c],
           UNCHANGED <<wall, pend, counts>>,
           sync' \in [Peers -> [peer : Peers \cup {0}, digest : [Buckets -> HLC],
                                deltas : SUBSET Write]]
    PROVE  IInv'
<1>1. GossipTypeOK /\ ClockAhead /\ HighWaterCovers /\ PushesStamped
    BY DEF IInv
<1>2. /\ store' \in [Peers -> [CrdtKeys -> Rec]]
      /\ hw' \in [Peers -> [Buckets -> HLC]]
      /\ net' \subseteq Message
      /\ \A p \in Peers, x \in CrdtKeys : ~After(store'[p][x].hlc, hw'[p][Bucket(x)])
      /\ \A m \in net' : ~After(m.rec.hlc, m.hlc)
      /\ \A p \in Peers, x \in CrdtKeys :
           \/ store'[p][x].hlc = store[p][x].hlc
           \/ p = n /\ store'[p][x].hlc = r.hlc
    BY <1>1, ApplyDeltaEffect
<1>3. /\ last' \in [Peers -> HLC]
      /\ last'[n] = c
      /\ \A p \in Peers : last'[p] = IF p = n THEN c ELSE last[p]
    BY <1>1 DEF GossipTypeOK
<1>4. \A p \in Peers : last'[p].node \in {0, p}
    BY <1>1, <1>3 DEF GossipTypeOK
<1>5. UNCHANGED <<wall, pend, writes, reboots, sweeps>>
    BY DEF counts
<1>6. GossipTypeOK'
    BY <1>1, <1>2, <1>3, <1>4, <1>5 DEF GossipTypeOK, Message
<1>7. PushesStamped' /\ HighWaterCovers'
    BY <1>2 DEF PushesStamped, HighWaterCovers
<1>8. \A p \in Peers : ~After(last[p], last'[p])
    BY <1>1, <1>3, AfterAsymmetric DEF GossipTypeOK
<1>9. \A p \in Peers, x \in CrdtKeys :
         \/ store'[p][x].hlc = store[p][x].hlc
         \/ ~After(store'[p][x].hlc, last'[p])
    BY <1>2, <1>3
<1>10. pend' \in [Peers -> SUBSET Write] /\ \A p \in Peers : pend'[p] = pend[p]
    BY <1>1, <1>5 DEF GossipTypeOK
<1>11. ClockAhead'
    BY <1>1, <1>2, <1>3, <1>5, <1>8, <1>9, <1>10, ClockKept
<1> QED
    BY <1>6, <1>7, <1>11 DEF IInv

(* The Push handler keeps it. *)
LEMMA PushInv ==
    ASSUME IInv, NEW m \in net, Push(m)
    PROVE  IInv'
<1>1. GossipTypeOK /\ PushesStamped
    BY DEF IInv
<1>2. /\ m.to \in Peers /\ m.key \in CrdtKeys /\ m.rec \in Rec /\ m.hlc \in HLC
      /\ m.rec.hlc \in HLC /\ ~After(m.rec.hlc, m.hlc)
    BY <1>1 DEF GossipTypeOK, PushesStamped, Rec
<1>3. m.to \in Nat /\ wall[m.to] \in Nat /\ last[m.to] \in HLC
    BY <1>1, <1>2, NodeIds DEF GossipTypeOK
<1> DEFINE u == ClockUpdate(m.to, wall[m.to], last[m.to], m.hlc)
           c == ReplyClock(m.to, u)
<1>4. u \in HLC /\ u.node = m.to /\ ~After(last[m.to], u) /\ ~After(m.hlc, u)
    BY <1>2, <1>3, UpdateAdvances
<1> HIDE DEF u
<1>5. c \in HLC /\ c.node = m.to /\ ~After(u, c)
    BY <1>1, <1>2, <1>4, ReplyAdvances
<1>6. last' = [last EXCEPT ![m.to] = c]
    BY DEF Push, u
<1> HIDE DEF c
<1>7. ~After(last[m.to], c)
    BY <1>3, <1>4, <1>5, NotAfterTransitive
<1>8. ~After(m.rec.hlc, u)
    BY <1>2, <1>4, NotAfterTransitive
<1>9. ~After(m.rec.hlc, c)
    BY <1>2, <1>4, <1>5, <1>8, NotAfterTransitive
<1>10. /\ UNCHANGED <<wall, pend, counts>>
       /\ ApplyDelta(m.to, m.key, m.rec, m.hlc, net \ {m})
       /\ sync' = sync
    BY DEF Push
<1>11. sync' \in [Peers -> [peer : Peers \cup {0}, digest : [Buckets -> HLC],
                            deltas : SUBSET Write]]
    BY <1>1, <1>10 DEF GossipTypeOK
<1>12. net \ {m} \in SUBSET net
    OBVIOUS
<1> QED
    BY <1>2, <1>5, <1>6, <1>7, <1>9, <1>10, <1>11, <1>12, AppliedInv

(* Applying one delta of a sync reply keeps it. *)
LEMMA ApplySyncedInv ==
    ASSUME IInv, NEW n \in Peers, ApplySynced(n)
    PROVE  IInv'
<1>1. GossipTypeOK
    BY DEF IInv
<1>2. PICK d \in sync[n].deltas :
         /\ sync' = [sync EXCEPT ![n].deltas = @ \ {d}]
         /\ last' = [last EXCEPT ![n] = ClockUpdate(n, wall[n], last[n], d.rec.hlc)]
         /\ ApplyDelta(n, d.key, d.rec, d.rec.hlc, net)
         /\ UNCHANGED <<wall, pend, counts>>
    BY DEF ApplySynced
<1>3. sync[n] \in [peer : Peers \cup {0}, digest : [Buckets -> HLC], deltas : SUBSET Write]
    BY <1>1 DEF GossipTypeOK
<1>4. d \in Write
    BY <1>3
<1>5. d.key \in CrdtKeys /\ d.rec \in Rec /\ d.rec.hlc \in HLC
    BY <1>4 DEF Write, Rec
<1>6. n \in Nat /\ wall[n] \in Nat /\ last[n] \in HLC
    BY <1>1, NodeIds DEF GossipTypeOK
<1> DEFINE c == ClockUpdate(n, wall[n], last[n], d.rec.hlc)
<1>7. c \in HLC /\ c.node = n /\ ~After(last[n], c) /\ ~After(d.rec.hlc, c)
    BY <1>5, <1>6, UpdateAdvances
<1>8. ~After(d.rec.hlc, d.rec.hlc) /\ net \in SUBSET net
    BY <1>5, AfterAsymmetric
<1>9. sync' \in [Peers -> [peer : Peers \cup {0}, digest : [Buckets -> HLC],
                           deltas : SUBSET Write]]
    BY <1>1, <1>2, <1>3 DEF GossipTypeOK
<1>10. last' = [last EXCEPT ![n] = c]
    BY <1>2
<1> HIDE DEF c
<1> QED
    BY <1>2, <1>5, <1>7, <1>8, <1>9, <1>10, AppliedInv

(* The steps of an exchange that store nothing. *)
LEMMA ExchangeInv ==
    ASSUME IInv, NEW n \in Peers,
           SyncFails(n) \/ \E p \in Peers : RunAntiEntropy(n, p) \/ SyncDigest(n, p)
    PROVE  IInv'
<1> DEFINE Sync == [peer : Peers \cup {0}, digest : [Buckets -> HLC], deltas : SUBSET Write]
<1>1. GossipTypeOK /\ ClockAhead
    BY DEF IInv
<1>2. NoSync \in Sync
    BY AbsentTyped DEF NoSync
<1>3. /\ UNCHANGED <<wall, pend, store, hw, net, writes, reboots, sweeps>>
      /\ sync' \in [Peers -> Sync]
      /\ last' \in [Peers -> HLC]
      /\ \A p \in Peers : last'[p].node \in {0, p} /\ ~After(last[p], last'[p])
    <2>1. ASSUME last' = last
          PROVE  /\ last' \in [Peers -> HLC]
                 /\ \A p \in Peers : last'[p].node \in {0, p} /\ ~After(last[p], last'[p])
        BY <1>1, <2>1, AfterAsymmetric DEF GossipTypeOK
    <2>2. CASE SyncFails(n)
        BY <1>1, <1>2, <2>1, <2>2 DEF SyncFails, GossipTypeOK, disk, counts
    <2>3. ASSUME NEW p \in Peers, RunAntiEntropy(n, p)
          PROVE  /\ UNCHANGED <<wall, pend, store, hw, net, writes, reboots, sweeps>>
                 /\ sync' \in [Peers -> Sync] /\ last' = last
        <3>1. [NoSync EXCEPT !.peer = p, !.digest = hw[n]] \in Sync
            BY <1>1, <1>2 DEF GossipTypeOK
        <3> QED
            BY <1>1, <2>3, <3>1 DEF RunAntiEntropy, GossipTypeOK, disk, counts
    <2>4. ASSUME NEW p \in Peers, SyncDigest(n, p)
          PROVE  /\ UNCHANGED <<wall, pend, store, hw, net, writes, reboots, sweeps>>
                 /\ sync' \in [Peers -> Sync]
                 /\ last' = [last EXCEPT ![p] = ReplyClock(p, last[p])]
        <3>1. \A d \in SyncFromDigest(p, sync[n].digest) : d \in Write
            BY <1>1 DEF SyncFromDigest, DeltasSince, Write, GossipTypeOK
        <3>2. [NoSync EXCEPT !.deltas = SyncFromDigest(p, sync[n].digest)] \in Sync
            BY <1>2, <3>1
        <3> QED
            BY <1>1, <2>4, <3>2 DEF SyncDigest, GossipTypeOK, disk, counts
    <2>5. ASSUME NEW p \in Peers, last' = [last EXCEPT ![p] = ReplyClock(p, last[p])]
          PROVE  /\ last' \in [Peers -> HLC]
                 /\ \A q \in Peers : last'[q].node \in {0, q} /\ ~After(last[q], last'[q])
        BY <1>1, <2>5, ReplyAdvancesFromZero, AfterAsymmetric DEF GossipTypeOK
    <2> QED
        BY <2>1, <2>2, <2>3, <2>4, <2>5
<1>4. GossipTypeOK'
    BY <1>1, <1>3 DEF GossipTypeOK
<1>5. /\ store' \in [Peers -> [CrdtKeys -> Rec]] /\ pend' \in [Peers -> SUBSET Write]
      /\ store' = store /\ pend' = pend
    BY <1>1, <1>3 DEF GossipTypeOK
<1>6. ClockAhead'
    BY <1>1, <1>3, <1>5, ClockKept
<1> QED
    BY <1>3, <1>4, <1>6, QuietInv DEF IInv, disk

(* A push that fails keeps it. *)
LEMMA PushFailsInv ==
    ASSUME IInv, NEW m \in net, PushFails(m)
    PROVE  IInv'
<1>1. UNCHANGED <<wall, last, pend, sync, store, hw, writes, reboots, sweeps>>
    BY DEF PushFails, memory, disk, counts
<1>2. net' \subseteq net
    BY DEF PushFails
<1> QED
    BY <1>1, <1>2 DEF IInv, GossipTypeOK, PushesStamped, HighWaterCovers, ClockAhead

(* So does the physical clock. *)
LEMMA TickInv ==
    ASSUME IInv, NEW n \in Peers, Tick(n)
    PROVE  IInv'
<1>1. UNCHANGED <<last, pend, sync, store, hw, net, writes, reboots, sweeps>>
    BY DEF Tick, memory, disk, counts
<1>2. wall' \in [Peers -> Nat]
    BY DEF Tick, IInv, GossipTypeOK
<1> QED
    BY <1>1, <1>2 DEF IInv, GossipTypeOK, PushesStamped, HighWaterCovers, ClockAhead

(* A restart keeps it: ClockAhead no longer claims anything. *)
LEMMA RestartInv ==
    ASSUME IInv, NEW n \in Peers, Reboot(n)
    PROVE  IInv'
<1>1. GossipTypeOK
    BY DEF IInv
<1>2. UNCHANGED <<store, hw, writes, sweeps>> /\ net' \subseteq net
    BY DEF Reboot, disk
<1>3. reboots' \in Nat /\ reboots' # 0
    BY <1>1 DEF Reboot, GossipTypeOK
<1>4. Zero \in HLC /\ Zero.node = 0
    BY DEF Zero, HLC
<1>5. wall' \in [Peers -> Nat]
    BY <1>1 DEF Reboot, GossipTypeOK
<1>6. last' \in [Peers -> HLC] /\ \A p \in Peers : last'[p].node \in {0, p}
    BY <1>1, <1>4 DEF Reboot, GossipTypeOK
<1>7. /\ pend' \in [Peers -> SUBSET Write]
      /\ \A p \in Peers : \A w \in pend'[p] : w.rec.hlc.node = p
    BY <1>1 DEF Reboot, GossipTypeOK
<1>8. NoSync \in [peer : Peers \cup {0}, digest : [Buckets -> HLC], deltas : SUBSET Write]
    BY AbsentTyped DEF NoSync
<1>9. sync' \in [Peers -> [peer : Peers \cup {0}, digest : [Buckets -> HLC],
                           deltas : SUBSET Write]]
    BY <1>1, <1>8 DEF Reboot, GossipTypeOK
<1>10. GossipTypeOK'
    BY <1>1, <1>2, <1>3, <1>5, <1>6, <1>7, <1>9 DEF GossipTypeOK
<1>11. PushesStamped' /\ HighWaterCovers'
    BY <1>2 DEF IInv, PushesStamped, HighWaterCovers
<1>12. ClockAhead'
    BY <1>3 DEF ClockAhead
<1> QED
    BY <1>10, <1>11, <1>12 DEF IInv

(* Every step keeps the invariant. *)
LEMMA NextInv == IInv /\ [GossipNext]_gossipVars => IInv'
<1> SUFFICES ASSUME IInv, [GossipNext]_gossipVars
             PROVE  IInv'
    OBVIOUS
<1>1. ASSUME NEW n \in Peers, NEW k \in CrdtKeys, NEW v \in Payloads, StartWrite(n, k, FALSE, v)
      PROVE  IInv'
    BY <1>1, StartWriteInv, ValsAssumption
<1>2. ASSUME NEW n \in Peers, NEW k \in LwwKeys, StartWrite(n, k, TRUE, 0)
      PROVE  IInv'
    BY <1>2, StartWriteInv DEF CrdtKeys
<1>3. ASSUME NEW n \in Peers, FinishWrite(n)
      PROVE  IInv'
    BY <1>3, PutInv DEF FinishWrite
<1>4. ASSUME NEW n \in Peers, SweepTombstones(n)
      PROVE  IInv'
    BY <1>4, SweepInv
<1>5. ASSUME NEW m \in net, Push(m) \/ PushFails(m)
      PROVE  IInv'
    BY <1>5, PushInv, PushFailsInv
<1>6. ASSUME NEW n \in Peers, NEW p \in Peers, RunAntiEntropy(n, p) \/ SyncDigest(n, p)
      PROVE  IInv'
    BY <1>6, ExchangeInv
<1>7. ASSUME NEW n \in Peers, SyncFails(n)
      PROVE  IInv'
    BY <1>7, ExchangeInv
<1>8. ASSUME NEW n \in Peers, ApplySynced(n)
      PROVE  IInv'
    BY <1>8, ApplySyncedInv
<1>9. ASSUME NEW n \in Peers, Tick(n) \/ Reboot(n)
      PROVE  IInv'
    BY <1>9, TickInv, RestartInv
<1>10. CASE UNCHANGED gossipVars
    BY <1>10 DEF gossipVars, memory, disk, counts,
                 IInv, GossipTypeOK, PushesStamped, HighWaterCovers, ClockAhead
<1>11. Syncers \subseteq Peers
    BY BoundsAssumption
<1> QED
    BY <1>1, <1>2, <1>3, <1>4, <1>5, <1>6, <1>7, <1>8, <1>9, <1>10, <1>11 DEF GossipNext

(* The inductive invariant: registers, high water, clocks and pushes in    *)
(* flight together.                                                        *)
THEOREM GossipInv == GossipSafety => []IInv
<1>1. GossipInit => IInv
    BY InitInv
<1>2. IInv /\ [GossipNext]_gossipVars => IInv'
    BY NextInv
<1> QED
    BY <1>1, <1>2, PTL DEF GossipSafety

(* Stamps, registers and messages keep their shape, and a clock its node. *)
THEOREM GossipTypeCorrect == GossipSafety => []GossipTypeOK
<1>1. IInv => GossipTypeOK
    BY DEF IInv
<1> QED
    BY <1>1, GossipInv, PTL

(* A node's digest covers all it stores, on any number of nodes and keys,  *)
(* with any writes, losses, sweeps and restarts.                           *)
THEOREM GossipHighWater == GossipSafety => []HighWaterCovers
<1>1. IInv => HighWaterCovers
    BY DEF IInv
<1> QED
    BY <1>1, GossipInv, PTL

(* Until some node restarts, a node's next stamp is later than everything  *)
(* it stores, whatever its peers' clocks read.                             *)
THEOREM GossipClockAhead == GossipSafety => []ClockAhead
<1>1. IInv => ClockAhead
    BY DEF IInv
<1> QED
    BY <1>1, GossipInv, PTL
----------------------------------------------------------------------------
(* One stamp, one write. *)

(* Clock.Now never hands out a stamp it has handed out before. *)
LEMMA NowIsNew ==
    ASSUME NEW n \in Nat, NEW pt \in Nat, NEW l \in HLC
    PROVE  After(ClockNow(n, pt, l), l)
<1>1. l.wall \in Nat /\ l.ctr \in Nat /\ l.node \in Nat
    BY DEF HLC
<1>2. Later(pt, l.wall) \in Nat /\ Later(pt, l.wall) >= l.wall
    BY <1>1 DEF Later
<1> QED
    BY <1>1, <1>2 DEF ClockNow, After

(* No clock goes back while its process lives. *)
LEMMA ClocksForward ==
    ASSUME IInv, GossipNext, reboots' = reboots
    PROVE  \A p \in Peers : ~After(last[p], last'[p])
<1>1. GossipTypeOK /\ last \in [Peers -> HLC]
    BY DEF IInv, GossipTypeOK
<1>2. ASSUME last' = last
      PROVE  \A p \in Peers : ~After(last[p], last'[p])
    BY <1>1, <1>2, AfterAsymmetric
<1>3. ASSUME NEW n \in Peers, NEW c, ~After(last[n], c), last' = [last EXCEPT ![n] = c]
      PROVE  \A p \in Peers : ~After(last[p], last'[p])
    BY <1>1, <1>3, AfterAsymmetric
<1>4. \A n \in Peers : n \in Nat /\ wall[n] \in Nat /\ last[n] \in HLC
    BY <1>1, NodeIds DEF GossipTypeOK
<1>5. ASSUME NEW n \in Peers, NEW k, NEW t, NEW v, StartWrite(n, k, t, v)
      PROVE  \A p \in Peers : ~After(last[p], last'[p])
    <2>1. last' = [last EXCEPT ![n] = ClockNow(n, wall[n], last[n])]
        BY <1>5 DEF StartWrite
    <2>2. ~After(last[n], ClockNow(n, wall[n], last[n]))
        BY <1>4, NowAdvances
    <2> QED
        BY <1>3, <2>1, <2>2
<1>6. ASSUME NEW n \in Peers, FinishWrite(n) \/ SweepTombstones(n) \/ SyncFails(n) \/ Tick(n)
      PROVE  last' = last
    BY <1>6 DEF FinishWrite, Put, SweepTombstones, SyncFails, Tick, memory
<1>7. ASSUME NEW m \in net, Push(m)
      PROVE  \A p \in Peers : ~After(last[p], last'[p])
    <2>1. m.to \in Peers /\ m.hlc \in HLC
        BY <1>1 DEF GossipTypeOK
    <2> DEFINE u == ClockUpdate(m.to, wall[m.to], last[m.to], m.hlc)
               c == ReplyClock(m.to, u)
    <2>2. u \in HLC /\ u.node = m.to /\ ~After(last[m.to], u)
        BY <1>4, <2>1, UpdateAdvances
    <2>3. last' = [last EXCEPT ![m.to] = c]
        BY <1>7 DEF Push
    <2> HIDE DEF u
    <2>4. c \in HLC /\ ~After(u, c)
        BY <1>1, <2>1, <2>2, ReplyAdvances
    <2> HIDE DEF c
    <2>5. ~After(last[m.to], c)
        BY <1>4, <2>1, <2>2, <2>4, NotAfterTransitive
    <2> QED
        BY <1>3, <2>1, <2>3, <2>5
<1>8. ASSUME NEW m \in net, PushFails(m)
      PROVE  last' = last
    BY <1>8 DEF PushFails, memory
<1>9. ASSUME NEW n \in Peers, NEW p \in Peers, RunAntiEntropy(n, p)
      PROVE  last' = last
    BY <1>9 DEF RunAntiEntropy
<1>10. ASSUME NEW n \in Peers, NEW p \in Peers, SyncDigest(n, p)
       PROVE  \A q \in Peers : ~After(last[q], last'[q])
    BY <1>1, <1>3, <1>10, ReplyAdvancesFromZero DEF SyncDigest
<1>11. ASSUME NEW n \in Peers, ApplySynced(n)
       PROVE  \A q \in Peers : ~After(last[q], last'[q])
    <2>1. PICK d \in sync[n].deltas :
             last' = [last EXCEPT ![n] = ClockUpdate(n, wall[n], last[n], d.rec.hlc)]
        BY <1>11 DEF ApplySynced
    <2>2. d.rec.hlc \in HLC
        BY <1>1 DEF GossipTypeOK, Write, Rec
    <2>3. ~After(last[n], ClockUpdate(n, wall[n], last[n], d.rec.hlc))
        BY <1>4, <2>2, UpdateAdvances
    <2> QED
        BY <1>3, <2>1, <2>3
<1>12. ASSUME NEW n \in Peers, Reboot(n)
       PROVE  FALSE
    BY <1>1, <1>12 DEF Reboot, GossipTypeOK
<1>13. Syncers \subseteq Peers
    BY BoundsAssumption
<1> QED
    BY <1>2, <1>5, <1>6, <1>7, <1>8, <1>9, <1>10, <1>11, <1>12, <1>13 DEF GossipNext

(* Where a register can be: stored, in flight, or stamped and on its way. *)
LEMMA RegisterSources ==
    ASSUME NEW r
    PROVE  r \in LwwRegisters <=>
              \/ \E n \in Peers, k \in LwwKeys : r = [key |-> k, rec |-> store[n][k]]
              \/ \E m \in net : m.key \in LwwKeys /\ r = [key |-> m.key, rec |-> m.rec]
              \/ \E n \in Peers : r \in pend[n] \cup sync[n].deltas /\ r.key \in LwwKeys
BY DEF LwwRegisters

(* The same a step later. *)
LEMMA RegisterSourcesNext ==
    ASSUME NEW r \in LwwRegisters'
    PROVE  \/ \E n \in Peers, k \in LwwKeys : r = [key |-> k, rec |-> store'[n][k]]
           \/ \E m \in net' : m.key \in LwwKeys /\ r = [key |-> m.key, rec |-> m.rec]
           \/ \E n \in Peers : r \in pend'[n] \cup sync'[n].deltas /\ r.key \in LwwKeys
BY DEF LwwRegisters

(* A register's parts. *)
LEMMA RegisterTyped ==
    ASSUME GossipTypeOK, NEW r \in LwwRegisters
    PROVE  r \in Write /\ r.rec \in Rec /\ r.rec.hlc \in HLC
<1>1. \A n \in Peers, k \in LwwKeys : store[n][k] \in Rec /\ k \in CrdtKeys
    BY DEF GossipTypeOK, CrdtKeys
<1>2. \A m \in net : m.key \in CrdtKeys /\ m.rec \in Rec
    BY DEF GossipTypeOK
<1>3. \A n \in Peers : pend[n] \cup sync[n].deltas \subseteq Write
    BY DEF GossipTypeOK
<1>4. r \in Write
    BY <1>1, <1>2, <1>3, RegisterSources DEF Write
<1> QED
    BY <1>4 DEF Write, Rec

(* A register that is not empty was stamped by a node whose clock is still *)
(* at or past that stamp.                                                  *)
StampsSpent == \A r \in LwwRegisters :
    r.rec # NoRegister => r.rec.hlc.node \in Peers /\ ~After(r.rec.hlc, last[r.rec.hlc.node])

StampInv == reboots = 0 => StampsSpent /\ SameStampSameWrite
(* A delta leaves the register merged, every other one alone, and only     *)
(* copies of itself in flight.                                             *)
LEMMA DeltaApplied ==
    ASSUME GossipTypeOK, NEW n \in Peers, NEW k \in CrdtKeys, NEW r \in Rec, NEW h, NEW inFlight,
           ApplyDelta(n, k, r, h, inFlight)
    PROVE  /\ \A p \in Peers, x \in CrdtKeys : p # n \/ x # k => store'[p][x] = store[p][x]
           /\ store'[n][k] = Merged(n, k, r)
           /\ inFlight \subseteq net'
           /\ \A m \in net' : m \in inFlight \/ (m.key = k /\ m.rec = r)
<1> DEFINE new == Merged(n, k, r)
           mergedHLC == IF store[n][k] = NoRegister THEN h ELSE new.hlc
<1>1. store \in [Peers -> [CrdtKeys -> Rec]]
    BY DEF GossipTypeOK
<1>2. \/ /\ store' = [store EXCEPT ![n][k] = new]
         /\ net' = inFlight \cup Pushes(n, k, r, mergedHLC)
      \/ new = store[n][k] /\ net' = inFlight /\ store' = store
    BY DEF ApplyDelta, Stored, disk
<1>3. \A m \in Pushes(n, k, r, mergedHLC) : m.key = k /\ m.rec = r
    BY DEF Pushes
<1> HIDE DEF new, mergedHLC
<1>4. inFlight \subseteq net' /\ \A m \in net' : m \in inFlight \/ (m.key = k /\ m.rec = r)
    BY <1>2, <1>3
<1>5. \A p \in Peers, x \in CrdtKeys : p # n \/ x # k => store'[p][x] = store[p][x]
    BY <1>1, <1>2
<1>6. store'[n][k] = new
    BY <1>1, <1>2
<1> QED
    BY <1>4, <1>5, <1>6 DEF new

(* What merging keeps of an LWW register: one of the two, whole. *)
LEMMA MergedLww ==
    ASSUME NEW n, NEW k \in LwwKeys, NEW r
    PROVE  Merged(n, k, r) \in {store[n][k], r}
<1>1. k \notin FlagKeys
    BY KeysAssumption
<1> QED
    BY <1>1 DEF Merged, MergeEncoded, MergeLWW

(* A step that brings no new register and moves clocks only forward. *)
LEMMA StampsKept ==
    ASSUME IInv, IInv', StampInv, reboots' = reboots,
           \A p \in Peers : ~After(last[p], last'[p]),
           \A r \in LwwRegisters' : r \in LwwRegisters \/ r.rec = NoRegister
    PROVE  StampInv'
<1> SUFFICES ASSUME reboots = 0
             PROVE  StampsSpent' /\ SameStampSameWrite'
    BY DEF StampInv
<1>0. GossipTypeOK /\ StampsSpent /\ SameStampSameWrite
    BY DEF IInv, StampInv
<1>1. ASSUME NEW r \in LwwRegisters', r.rec # NoRegister
      PROVE  r.rec.hlc.node \in Peers /\ ~After(r.rec.hlc, last'[r.rec.hlc.node])
    <2> DEFINE p == r.rec.hlc.node
    <2>1. r.rec.hlc \in HLC /\ p \in Peers /\ ~After(r.rec.hlc, last[p])
        BY <1>0, <1>1, RegisterTyped DEF StampsSpent
    <2>2. last[p] \in HLC /\ last'[p] \in HLC
        BY <2>1 DEF IInv, GossipTypeOK
    <2> HIDE DEF p
    <2>3. ~After(r.rec.hlc, last'[p])
        BY <2>1, <2>2, NotAfterTransitive
    <2> QED
        BY <2>1, <2>3 DEF p
<1>2. ASSUME NEW r \in LwwRegisters', NEW s \in LwwRegisters',
             r.rec.hlc = s.rec.hlc, r.rec # NoRegister
      PROVE  r = s
    <2>1. r \in LwwRegisters
        BY <1>2
    <2>2. CASE s \in LwwRegisters
        BY <1>0, <1>2, <2>1, <2>2 DEF SameStampSameWrite
    <2>3. CASE s.rec = NoRegister
        <3>1. r.rec.hlc.node = 0
            BY <1>2, <2>3 DEF NoRegister, Zero
        <3> QED
            BY <1>1, <1>2, <3>1, NodeIds
    <2> QED
        BY <2>2, <2>3
<1>3. StampsSpent'
    BY <1>1 DEF StampsSpent
<1> QED
    BY <1>2, <1>3 DEF SameStampSameWrite

(* A new write has a stamp no register has. *)
LEMMA StartWriteStamps ==
    ASSUME IInv, IInv', StampInv, NEW n \in Peers, NEW k \in CrdtKeys, NEW t \in BOOLEAN, NEW v \in Nat,
           StartWrite(n, k, t, v), \A p \in Peers : ~After(last[p], last'[p])
    PROVE  StampInv'
<1> SUFFICES ASSUME reboots = 0
             PROVE  StampsSpent' /\ SameStampSameWrite'
    BY DEF StampInv, StartWrite
<1> DEFINE now == ClockNow(n, wall[n], last[n])
           w == [key |-> k, rec |-> [hlc |-> now, tomb |-> t, val |-> v]]
<1>0. GossipTypeOK /\ StampsSpent /\ SameStampSameWrite
    BY DEF IInv, StampInv, StartWrite
<1>1. now \in HLC /\ now.node = n /\ After(now, last[n]) /\ last[n] \in HLC
    BY <1>0, NodeIds, NowAdvances, NowIsNew DEF GossipTypeOK
<1> HIDE DEF now
<1>2. w.rec.hlc = now
    OBVIOUS
<1>3. last'[n] = now
    BY <1>0 DEF StartWrite, GossipTypeOK, now
<1>4. pend' = [pend EXCEPT ![n] = pend[n] \cup {w}] /\ UNCHANGED <<store, net, sync>>
    BY <1>3 DEF StartWrite, disk
<1> HIDE DEF w
<1>5. \A p \in Peers : pend'[p] \subseteq pend[p] \cup {w}
    BY <1>0, <1>4 DEF GossipTypeOK
<1>6. ASSUME NEW r \in LwwRegisters'
      PROVE  r \in LwwRegisters \/ r = w
    <2>1. \/ \E p \in Peers, x \in LwwKeys : r = [key |-> x, rec |-> store[p][x]]
          \/ \E m \in net : m.key \in LwwKeys /\ r = [key |-> m.key, rec |-> m.rec]
          \/ \E p \in Peers : r \in pend[p] \cup {w} \cup sync[p].deltas /\ r.key \in LwwKeys
        BY <1>4, <1>5, RegisterSourcesNext
    <2> QED
        BY <2>1, RegisterSources
<1>7. ASSUME NEW r \in LwwRegisters, r.rec # NoRegister
      PROVE  r.rec.hlc # now
    BY <1>0, <1>1, <1>7 DEF StampsSpent
<1>8. w.rec # NoRegister
    BY <1>1, <1>2, NodeIds DEF NoRegister, Zero
<1>9. ASSUME NEW r \in LwwRegisters', r.rec # NoRegister
      PROVE  r.rec.hlc.node \in Peers /\ ~After(r.rec.hlc, last'[r.rec.hlc.node])
    <2>1. CASE r = w
        BY <1>1, <1>2, <1>3, <2>1, AfterAsymmetric
    <2>2. CASE r \in LwwRegisters
        <3> DEFINE p == r.rec.hlc.node
        <3>1. r.rec.hlc \in HLC /\ p \in Peers /\ ~After(r.rec.hlc, last[p])
            BY <1>0, <1>9, <2>2, RegisterTyped DEF StampsSpent
        <3>2. last[p] \in HLC /\ last'[p] \in HLC
            BY <3>1 DEF IInv, GossipTypeOK
        <3> HIDE DEF p
        <3>3. ~After(r.rec.hlc, last'[p])
            BY <3>1, <3>2, NotAfterTransitive
        <3> QED
            BY <3>1, <3>3 DEF p
    <2> QED
        BY <1>6, <2>1, <2>2
<1>10. ASSUME NEW r \in LwwRegisters', NEW s \in LwwRegisters',
              r.rec.hlc = s.rec.hlc, r.rec # NoRegister
       PROVE  r = s
    <2>1. CASE r \in LwwRegisters /\ s \in LwwRegisters
        BY <1>0, <1>10, <2>1 DEF SameStampSameWrite
    <2>2. CASE r = w /\ s = w
        BY <2>2
    <2>3. CASE r \in LwwRegisters /\ s = w
        BY <1>2, <1>7, <1>10, <2>3
    <2>4. CASE r = w /\ s \in LwwRegisters
        <3>1. s.rec = NoRegister
            BY <1>2, <1>7, <1>10, <2>4
        <3>2. now.node = 0
            BY <1>2, <1>10, <2>4, <3>1 DEF NoRegister, Zero
        <3> QED
            BY <1>1, <3>2, NodeIds
    <2> QED
        BY <1>6, <2>1, <2>2, <2>3, <2>4
<1>11. StampsSpent'
    BY <1>9 DEF StampsSpent
<1> QED
    BY <1>10, <1>11 DEF SameStampSameWrite
(* Every other step only moves registers about, or empties them. *)
LEMMA RegistersMove ==
    ASSUME GossipTypeOK,
           \A p \in Peers, x \in LwwKeys :
              \/ [key |-> x, rec |-> store'[p][x]] \in LwwRegisters
              \/ store'[p][x] = NoRegister,
           \A m \in net' : m.key \in LwwKeys => [key |-> m.key, rec |-> m.rec] \in LwwRegisters,
           \A p \in Peers : \A w \in pend'[p] \cup sync'[p].deltas :
              w.key \in LwwKeys => w \in LwwRegisters
    PROVE  \A r \in LwwRegisters' : r \in LwwRegisters \/ r.rec = NoRegister
<1> SUFFICES ASSUME NEW r \in LwwRegisters'
             PROVE  r \in LwwRegisters \/ r.rec = NoRegister
    OBVIOUS
<1>1. CASE \E n \in Peers, k \in LwwKeys : r = [key |-> k, rec |-> store'[n][k]]
    BY <1>1
<1>2. CASE \E m \in net' : m.key \in LwwKeys /\ r = [key |-> m.key, rec |-> m.rec]
    BY <1>2
<1>3. CASE \E n \in Peers : r \in pend'[n] \cup sync'[n].deltas /\ r.key \in LwwKeys
    BY <1>3
<1> QED
    BY <1>1, <1>2, <1>3, RegisterSourcesNext

(* The registers there are. *)
LEMMA RegistersHere ==
    /\ \A n \in Peers, k \in LwwKeys : [key |-> k, rec |-> store[n][k]] \in LwwRegisters
    /\ \A m \in net : m.key \in LwwKeys => [key |-> m.key, rec |-> m.rec] \in LwwRegisters
    /\ \A n \in Peers : \A w \in pend[n] \cup sync[n].deltas :
          w.key \in LwwKeys => w \in LwwRegisters
BY RegisterSources

(* Applying a delta that is a register brings no new one. *)
LEMMA AppliedStamps ==
    ASSUME GossipTypeOK, NEW n \in Peers, NEW k \in CrdtKeys, NEW r \in Rec, NEW h,
           NEW inFlight \in SUBSET net, ApplyDelta(n, k, r, h, inFlight),
           k \in LwwKeys => [key |-> k, rec |-> r] \in LwwRegisters,
           pend' = pend, \A p \in Peers : sync'[p].deltas \subseteq sync[p].deltas
    PROVE  \A x \in LwwRegisters' : x \in LwwRegisters \/ x.rec = NoRegister
<1>1. /\ \A p \in Peers, x \in CrdtKeys : p # n \/ x # k => store'[p][x] = store[p][x]
      /\ store'[n][k] = Merged(n, k, r)
      /\ \A m \in net' : m \in inFlight \/ (m.key = k /\ m.rec = r)
    BY DeltaApplied
<1>2. k \in LwwKeys => store'[n][k] \in {store[n][k], r}
    BY <1>1, MergedLww
<1>3. \A p \in Peers, x \in LwwKeys : [key |-> x, rec |-> store'[p][x]] \in LwwRegisters
    <2> SUFFICES ASSUME NEW p \in Peers, NEW x \in LwwKeys
                 PROVE  [key |-> x, rec |-> store'[p][x]] \in LwwRegisters
        OBVIOUS
    <2>1. [key |-> x, rec |-> store[p][x]] \in LwwRegisters /\ x \in CrdtKeys
        BY RegistersHere DEF CrdtKeys
    <2>2. CASE p # n \/ x # k
        BY <1>1, <2>1, <2>2
    <2>3. CASE p = n /\ x = k
        BY <1>2, <2>1, <2>3
    <2> QED
        BY <2>2, <2>3
<1>4. \A m \in net' : m.key \in LwwKeys => [key |-> m.key, rec |-> m.rec] \in LwwRegisters
    BY <1>1, RegistersHere
<1>5. \A p \in Peers : \A w \in pend'[p] \cup sync'[p].deltas :
         w.key \in LwwKeys => w \in LwwRegisters
    BY RegistersHere
<1> QED
    BY <1>3, <1>4, <1>5, RegistersMove

(* Asking a peer, and giving up on it, drop deltas at most. *)
LEMMA ExchangeKeepsDeltas ==
    ASSUME GossipTypeOK, NEW n \in Peers, SyncFails(n) \/ \E p \in Peers : RunAntiEntropy(n, p)
    PROVE  \A q \in Peers : sync'[q].deltas \subseteq sync[q].deltas
<1>1. ASSUME NEW s, s.deltas = {}, sync' = [sync EXCEPT ![n] = s]
      PROVE  \A q \in Peers : sync'[q].deltas \subseteq sync[q].deltas
    BY <1>1 DEF GossipTypeOK
<1>2. NoSync.deltas = {}
    BY DEF NoSync
<1>3. \A p : [NoSync EXCEPT !.peer = p, !.digest = hw[n]].deltas = {}
    BY DEF NoSync
<1> QED
    BY <1>1, <1>2, <1>3 DEF SyncFails, RunAntiEntropy

LEMMA RegistersStep ==
    ASSUME GossipTypeOK, GossipNext, reboots' = reboots
    PROVE  \/ \A r \in LwwRegisters' : r \in LwwRegisters \/ r.rec = NoRegister
           \/ \E n \in Peers, k \in CrdtKeys, t \in BOOLEAN, v \in Nat : StartWrite(n, k, t, v)
<1> DEFINE Goal == \A r \in LwwRegisters' : r \in LwwRegisters \/ r.rec = NoRegister
<1>1. ASSUME NEW n \in Peers, FinishWrite(n)
      PROVE  Goal
    <2>1. PICK w \in pend[n] : Put(n, w)
        BY <1>1 DEF FinishWrite
    <2>2. w \in Write
        BY DEF GossipTypeOK
    <2>3. w = [key |-> w.key, rec |-> w.rec] /\ w.key \in CrdtKeys
        BY <2>2 DEF Write
    <2>4. /\ store' = [store EXCEPT ![n][w.key] = w.rec]
          /\ net' = net \cup Pushes(n, w.key, w.rec, w.rec.hlc)
          /\ pend' = [pend EXCEPT ![n] = pend[n] \ {w}] /\ sync' = sync
        BY <2>1 DEF Put, Stored
    <2>5. w.key \in LwwKeys => w \in LwwRegisters
        BY RegistersHere
    <2>6. \A p \in Peers, x \in LwwKeys : [key |-> x, rec |-> store'[p][x]] \in LwwRegisters
        <3> SUFFICES ASSUME NEW p \in Peers, NEW x \in LwwKeys
                     PROVE  [key |-> x, rec |-> store'[p][x]] \in LwwRegisters
            OBVIOUS
        <3>1. [key |-> x, rec |-> store[p][x]] \in LwwRegisters /\ x \in CrdtKeys
            BY RegistersHere DEF CrdtKeys
        <3>2. store'[p][x] = IF p = n /\ x = w.key THEN w.rec ELSE store[p][x]
            BY <2>3, <2>4, <3>1 DEF GossipTypeOK
        <3> QED
            BY <2>3, <2>5, <3>1, <3>2
    <2>7. \A m \in Pushes(n, w.key, w.rec, w.rec.hlc) : m.key = w.key /\ m.rec = w.rec
        BY DEF Pushes
    <2>8. \A m \in net' : m.key \in LwwKeys => [key |-> m.key, rec |-> m.rec] \in LwwRegisters
        BY <2>3, <2>4, <2>5, <2>7, RegistersHere
    <2>9. \A p \in Peers : pend'[p] \subseteq pend[p]
        BY <2>4 DEF GossipTypeOK
    <2>10. \A p \in Peers : \A x \in pend'[p] \cup sync'[p].deltas :
              x.key \in LwwKeys => x \in LwwRegisters
        BY <2>4, <2>9, RegistersHere
    <2> QED
        BY <2>6, <2>8, <2>10, RegistersMove
<1>2. ASSUME NEW n \in Peers, SweepTombstones(n)
      PROVE  Goal
    <2>1. UNCHANGED <<pend, sync, net>>
        BY <1>2 DEF SweepTombstones, memory
    <2>2. \A p \in Peers, x \in LwwKeys : store'[p][x] = store[p][x] \/ store'[p][x] = NoRegister
        BY <1>2 DEF SweepTombstones, GossipTypeOK, CrdtKeys
    <2> QED
        BY <2>1, <2>2, RegistersHere, RegistersMove
<1>3. ASSUME NEW m \in net, Push(m)
      PROVE  Goal
    <2>1. m.to \in Peers /\ m.key \in CrdtKeys /\ m.rec \in Rec
        BY DEF GossipTypeOK
    <2>2. ApplyDelta(m.to, m.key, m.rec, m.hlc, net \ {m}) /\ UNCHANGED <<pend, sync>>
        BY <1>3 DEF Push
    <2> QED
        BY <2>1, <2>2, RegistersHere, AppliedStamps
<1>4. ASSUME UNCHANGED <<store, pend>>, net' \subseteq net,
             \A p \in Peers : \A w \in sync'[p].deltas : w.key \in LwwKeys => w \in LwwRegisters
      PROVE  Goal
    BY <1>4, RegistersHere, RegistersMove
<1>5. ASSUME NEW m \in net, PushFails(m)
      PROVE  Goal
    BY <1>4, <1>5, RegistersHere DEF PushFails, memory, disk
<1>6. ASSUME NEW n \in Peers,
             (\E p \in Peers : RunAntiEntropy(n, p)) \/ SyncFails(n) \/ Tick(n)
      PROVE  Goal
    <2>1. UNCHANGED <<store, pend, net>>
        BY <1>6 DEF RunAntiEntropy, SyncFails, Tick, memory, disk
    <2>2. \A p \in Peers : sync'[p].deltas \subseteq sync[p].deltas
        BY <1>6, ExchangeKeepsDeltas DEF Tick, memory
    <2> QED
        BY <1>4, <2>1, <2>2, RegistersHere
<1>7. ASSUME NEW n \in Peers, NEW p \in Peers, SyncDigest(n, p)
      PROVE  Goal
    <2> DEFINE sent == SyncFromDigest(p, sync[n].digest)
    <2>1. sync' = [sync EXCEPT ![n] = [NoSync EXCEPT !.deltas = sent]]
          /\ UNCHANGED <<store, pend, net>>
        BY <1>7 DEF SyncDigest, disk
    <2>2. \A w \in sent : \E k \in CrdtKeys : w = [key |-> k, rec |-> store[p][k]]
        BY DEF SyncFromDigest, DeltasSince
    <2> HIDE DEF sent
    <2>3. \A w \in sent : w.key \in LwwKeys => w \in LwwRegisters
        BY <2>2, RegistersHere
    <2>4. \A q \in Peers : sync'[q].deltas = IF q = n THEN sent ELSE sync[q].deltas
        BY <2>1 DEF NoSync, GossipTypeOK
    <2> QED
        BY <1>4, <2>1, <2>3, <2>4, RegistersHere
<1>8. ASSUME NEW n \in Peers, ApplySynced(n)
      PROVE  Goal
    <2>1. PICK d \in sync[n].deltas :
             /\ sync' = [sync EXCEPT ![n].deltas = @ \ {d}]
             /\ ApplyDelta(n, d.key, d.rec, d.rec.hlc, net)
             /\ pend' = pend
        BY <1>8 DEF ApplySynced
    <2>2. d \in Write
        BY DEF GossipTypeOK
    <2>3. d = [key |-> d.key, rec |-> d.rec] /\ d.key \in CrdtKeys /\ d.rec \in Rec
        BY <2>2 DEF Write
    <2>4. d.key \in LwwKeys => d \in LwwRegisters
        BY RegistersHere
    <2>5. \A p \in Peers : sync'[p].deltas \subseteq sync[p].deltas
        BY <2>1 DEF GossipTypeOK
    <2>6. d.key \in LwwKeys => [key |-> d.key, rec |-> d.rec] \in LwwRegisters
        BY <2>3, <2>4
    <2> QED
        BY <2>1, <2>3, <2>5, <2>6, AppliedStamps
<1>9. ASSUME NEW n \in Peers, Reboot(n)
      PROVE  FALSE
    BY <1>9 DEF Reboot, GossipTypeOK
<1>10. ASSUME NEW n \in Peers, NEW k \in CrdtKeys, NEW v \in Payloads, StartWrite(n, k, FALSE, v)
       PROVE  v \in Nat
    BY ValsAssumption
<1>11. LwwKeys \subseteq CrdtKeys /\ Syncers \subseteq Peers
    BY BoundsAssumption DEF CrdtKeys
<1> HIDE DEF Goal
<1>12. CASE \/ \E n \in Peers, k \in CrdtKeys, v \in Payloads : StartWrite(n, k, FALSE, v)
            \/ \E n \in Peers, k \in LwwKeys : StartWrite(n, k, TRUE, 0)
    BY <1>10, <1>11, <1>12
<1>13. CASE ~ (\/ \E n \in Peers, k \in CrdtKeys, v \in Payloads : StartWrite(n, k, FALSE, v)
               \/ \E n \in Peers, k \in LwwKeys : StartWrite(n, k, TRUE, 0))
    <2>1. Goal
        BY <1>1, <1>2, <1>3, <1>5, <1>6, <1>7, <1>8, <1>9, <1>11, <1>13 DEF GossipNext
    <2> QED
        BY <2>1 DEF Goal
<1> QED
    BY <1>12, <1>13

LEMMA StampStep == IInv /\ StampInv /\ [GossipNext]_gossipVars => StampInv'
<1> SUFFICES ASSUME IInv, StampInv, [GossipNext]_gossipVars
             PROVE  StampInv'
    OBVIOUS
<1>1. IInv' /\ GossipTypeOK
    BY NextInv DEF IInv
<1>2. CASE UNCHANGED gossipVars
    BY <1>2 DEF gossipVars, memory, disk, counts, StampInv, StampsSpent, SameStampSameWrite, LwwRegisters
<1>3. CASE GossipNext /\ reboots' = reboots
    <2>1. \A p \in Peers : ~After(last[p], last'[p])
        BY <1>3, ClocksForward
    <2>2. CASE \A r \in LwwRegisters' : r \in LwwRegisters \/ r.rec = NoRegister
        BY <1>1, <1>3, <2>1, <2>2, StampsKept
    <2>3. CASE \E n \in Peers, k \in CrdtKeys, t \in BOOLEAN, v \in Nat : StartWrite(n, k, t, v)
        BY <1>1, <2>1, <2>3, StartWriteStamps
    <2> QED
        BY <1>1, <1>3, <2>2, <2>3, RegistersStep
<1>4. CASE GossipNext /\ reboots' # reboots
    <2>1. \E n \in Peers : Reboot(n)
        BY <1>4 DEF GossipNext, StartWrite, FinishWrite, Put, SweepTombstones, Push, PushFails,
                    RunAntiEntropy, SyncDigest, SyncFails, ApplySynced, Tick, counts
    <2>2. reboots' # 0
        BY <1>1, <2>1 DEF Reboot, GossipTypeOK
    <2> QED
        BY <2>2 DEF StampInv
<1> QED
    BY <1>2, <1>3, <1>4

(* Until some node restarts, no two LWW writes share a stamp, whatever is  *)
(* merged, passed on, swept or lost: what MergeLWW relies on, and the      *)
(* hypothesis of MergeLWWCommutative and MergeLWWAssociative.              *)
THEOREM GossipOneStampOneWrite == GossipSafety => []SameStampSameWriteUntilRestart
<1>1. GossipInit => StampInv
    <2> SUFFICES ASSUME GossipInit, NEW r \in LwwRegisters
                 PROVE  r.rec = NoRegister
        BY DEF StampInv, StampsSpent, SameStampSameWrite
    <2>1. \A n \in Peers : pend[n] = {} /\ sync[n].deltas = {} /\ \A k \in LwwKeys : store[n][k] = NoRegister
        BY DEF GossipInit, NoSync, CrdtKeys
    <2>2. net = {}
        BY DEF GossipInit
    <2> QED
        BY <2>1, <2>2, RegisterSources
<1>2. IInv /\ StampInv /\ [GossipNext]_gossipVars => StampInv'
    BY StampStep
<1>3. StampInv => SameStampSameWriteUntilRestart
    BY DEF StampInv, SameStampSameWriteUntilRestart
<1> QED
    BY <1>1, <1>2, <1>3, GossipInv, PTL DEF GossipSafety
-----------------------------------------------------------------------------
(* Side by side with the raft log.                                         *)

\* A step of the process is a step of the state machine or of gossip, and a
\* stutter of the other one.
LEMMA OneAtATime == [ReplicationNext]_replicationVars => [Next]_vars /\ [GossipNext]_gossipVars
  BY DEF ReplicationNext, replicationVars

\* Every behaviour of the process is one of the raft state machine and one of
\* gossip, so what is proved of either holds of it.
THEOREM ReplicationImplementsEach == ReplicationSpec => Spec /\ GossipSafety
<1>1. ReplicationInit => Init /\ GossipInit
  BY DEF ReplicationInit
<1> QED BY <1>1, OneAtATime, PTL DEF ReplicationSpec, Spec, GossipSafety
=============================================================================
