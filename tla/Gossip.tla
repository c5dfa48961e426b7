------------------------------- MODULE Gossip -------------------------------
(***************************************************************************)
(* The CRDT layer of an HA team (pkg/gossip, pkg/api/v1/gossip): every     *)
(* node keeps a bbolt file of registers stamped by a hybrid logical clock, *)
(* pushes every change to all its peers without waiting, and every ten     *)
(* seconds asks one random peer for what is later than its high water.     *)
(*                                                                         *)
(* Visitor and session buckets hold last-writer-wins registers, the        *)
(* bad-actor bucket monotone flags.  The two LWW buckets behave alike, so  *)
(* one stands for both.  A node id is a number (ids are compared), a key   *)
(* is a number in the order a sync reply lists them.                       *)
(***************************************************************************)
EXTENDS Integers, FiniteSets

CONSTANTS
    Peers,        \* node ids: positive numbers, compared as the code compares strings
    LwwKeys,      \* keys of the visitors / sessions buckets
    FlagKeys,     \* keys of the badactor_flags bucket
    Writers,      \* the nodes whose callers write
    Payloads,         \* payloads (LWW) and reasons (flags; 0 is the empty reason)
    MaxDeltas,    \* Service.maxDelta: deltas in one sync reply
    Retention,    \* the ttl a sweeper passes to SweepTombstones
    Unreached,    \* nodes that no push reaches: cut off, or joining after the writes
    Syncers,      \* the nodes whose anti-entropy ticker fires
    MaxWrites, MaxPending, MaxWall, MaxCtr, MaxReboots, MaxSweeps  \* bounds

CrdtKeys == LwwKeys \cup FlagKeys
Buckets == {"visitors", "badactor_flags"}
Bucket(k) == IF k \in FlagKeys THEN "badactor_flags" ELSE "visitors"

ASSUME NodesAssumption == Peers \subseteq Nat \ {0}
ASSUME KeysAssumption ==
    /\ LwwKeys \subseteq Nat /\ FlagKeys \subseteq Nat
    /\ \A k \in LwwKeys, f \in FlagKeys : k < f
ASSUME WritersAssumption == Writers \subseteq Peers
ASSUME ValsAssumption == Payloads \subseteq Nat
ASSUME BoundsAssumption ==
    /\ MaxDeltas \in Nat \ {0} /\ Retention \in Nat
    /\ Unreached \subseteq Peers /\ Syncers \subseteq Peers
    /\ {MaxWrites, MaxPending, MaxWall, MaxCtr, MaxReboots, MaxSweeps} \subseteq Nat

VARIABLES
    wall,      \* wall[n]: the physical clock of node n
    last,      \* last[n]: Clock.last, in memory only
    store,     \* store[n][k]: the register in crdt.db, NoRegister if there is none
    hw,        \* hw[n][b]: the high water of bucket b, in the _meta bucket
    pend,      \* pend[n]: local writes stamped by Now and not yet put
    net,       \* push calls in flight
    sync,      \* sync[n]: the anti-entropy exchange node n has under way
    writes, reboots, sweeps    \* how often each has happened, for the bounds

memory  == <<last, pend, sync>>
disk    == <<store, hw>>
counts  == <<writes, reboots, sweeps>>
gossipVars    == <<wall, memory, disk, net, counts>>

----------------------------------------------------------------------------
(* Hybrid logical clocks. *)

HLC == [wall : Nat, ctr : Nat, node : Nat]
Zero == [wall |-> 0, ctr |-> 0, node |-> 0]

After(a, b) ==
    \/ a.wall > b.wall
    \/ a.wall = b.wall /\ a.ctr > b.ctr
    \/ a.wall = b.wall /\ a.ctr = b.ctr /\ a.node > b.node

Later(a, b) == IF a > b THEN a ELSE b

(* Mutant: two stamps of one physical tick are alike. *)
NowKeepsCounter(n, pt, l) ==
    LET w == Later(pt, l.wall)
    IN [wall |-> w, ctr |-> IF w > l.wall THEN 0 ELSE l.ctr, node |-> n]

(* Clock.Now on node n with physical time pt and last stamp l. *)
ClockNow(n, pt, l) ==
    LET w == Later(pt, l.wall)
    IN [wall |-> w, ctr |-> IF w > l.wall THEN 0 ELSE l.ctr + 1, node |-> n]

(* Mutant: the counter of the remote stamp is ignored. *)
UpdateForgetsRemote(n, pt, l, r) ==
    LET w == Later(Later(pt, l.wall), r.wall)
    IN [wall |-> w, node |-> n,
        ctr |-> IF w > l.wall THEN 0 ELSE l.ctr + 1]

(* Clock.Update: past the remote stamp r as well. *)
ClockUpdate(n, pt, l, r) ==
    LET w == Later(Later(pt, l.wall), r.wall)
    IN [wall |-> w, node |-> n,
        ctr |-> CASE w > l.wall /\ w > r.wall -> 0
                  [] w = l.wall /\ w = r.wall -> Later(l.ctr, r.ctr) + 1
                  [] w = l.wall /\ w > r.wall -> l.ctr + 1
                  [] OTHER -> r.ctr + 1]

(* Every reply stamps Clock.Now, a stamp no caller reads.  MaxCtr bounds   *)
(* how far idle exchanges can drive the counter.                           *)
ReplyClock(n, l) == IF l.ctr < MaxCtr THEN ClockNow(n, wall[n], l) ELSE l

----------------------------------------------------------------------------
(* Registers.  val is the payload of an LWW register, the reason (with its *)
(* reporter) of a flag.  FlagBad only ever raises a flag, so a flag that   *)
(* exists is raised.                                                       *)

Rec == [hlc : HLC, tomb : BOOLEAN, val : Nat]
NoRegister == [hlc |-> Zero, tomb |-> FALSE, val |-> 0]

MergeLWW(a, b) ==
    IF After(a.hlc, b.hlc) THEN a
    ELSE IF After(b.hlc, a.hlc) THEN b
    ELSE IF a.tomb THEN a ELSE b

(* The later stamp wins, with the other flag's reason if it has none. *)
MergeMonotone(a, b) ==
    LET out == IF After(b.hlc, a.hlc) THEN b ELSE a
    IN [out EXCEPT !.val = IF out.val # 0 THEN out.val
                           ELSE IF a.val # 0 THEN a.val ELSE b.val]

MergeEncoded(k, a, b) == IF k \in FlagKeys THEN MergeMonotone(a, b) ELSE MergeLWW(a, b)

----------------------------------------------------------------------------
(* The store. *)

(* Mutant: the high water follows the newest arrival. *)
BumpAlways(cur, h) == h

BumpHighWater(cur, h) == IF After(h, cur) THEN h ELSE cur

Stored(n, k, r, h) ==
    /\ store' = [store EXCEPT ![n][k] = r]
    /\ hw' = [hw EXCEPT ![n][Bucket(k)] = BumpHighWater(hw[n][Bucket(k)], h)]

(* onLocalWrite / fanOutPush: one call per peer, none waited for; each of  *)
(* them is delivered or fails on its own (Push, PushFails).                *)
Pushes(n, k, r, h) ==
    {[from |-> n, to |-> p, key |-> k, rec |-> r, hlc |-> h] : p \in Peers \ {n}}

Merged(n, k, r) == IF store[n][k] = NoRegister THEN r ELSE MergeEncoded(k, store[n][k], r)

(* ApplyDelta's transaction and the push that follows a change: it passes  *)
(* on the payload it received under the stamp of the merged register.      *)
ApplyDelta(n, k, r, h, inFlight) ==
    LET old == store[n][k]
        new == Merged(n, k, r)
        mergedHLC == IF old = NoRegister THEN h ELSE new.hlc
    IN \/ /\ new # old
          /\ Stored(n, k, new, mergedHLC)
          /\ net' = inFlight \cup Pushes(n, k, r, mergedHLC)
       \/ /\ new = old
          /\ net' = inFlight
          /\ UNCHANGED disk

(* DeltasSince over the buckets in order. *)
DeltasSince(n, digest) ==
    {[key |-> k, rec |-> store[n][k]] :
        k \in {x \in CrdtKeys : After(store[n][x].hlc, digest[Bucket(x)])}}

(* SyncFromDigest: the first MaxDeltas of them. *)
SyncFromDigest(n, digest) ==
    LET all == DeltasSince(n, digest)
    IN {d \in all : Cardinality({e \in all : e.key < d.key}) < MaxDeltas}

----------------------------------------------------------------------------
(* Local writes. *)

(* PutLWW, DeleteLWW and FlagBad up to the stamp ... *)
StartWrite(n, k, tomb, v) ==
    /\ n \in Writers
    /\ writes < MaxWrites
    /\ Cardinality(pend[n]) < MaxPending
    /\ tomb => k \in LwwKeys /\ v = 0
    /\ writes' = writes + 1
    /\ last' = [last EXCEPT ![n] = ClockNow(n, wall[n], last[n])]
    /\ pend' = [pend EXCEPT ![n] = @ \cup
                  {[key |-> k, rec |-> [hlc |-> last'[n], tomb |-> tomb, val |-> v]]}]
    /\ UNCHANGED <<wall, disk, net, sync, reboots, sweeps>>

(* ... and put: it overwrites what is there, without a merge. *)
Put(n, w) ==
    /\ pend' = [pend EXCEPT ![n] = @ \ {w}]
    /\ Stored(n, w.key, w.rec, w.rec.hlc)
    /\ net' = net \cup Pushes(n, w.key, w.rec, w.rec.hlc)
    /\ UNCHANGED <<wall, last, sync, counts>>

FinishWrite(n) == \E w \in pend[n] : Put(n, w)

Expired(n, k) == store[n][k].tomb /\ store[n][k].hlc.wall < wall[n] - Retention

(* SweepTombstones (one that finds nothing to delete changes nothing). *)
SweepTombstones(n) ==
    /\ Retention > 0
    /\ \E k \in CrdtKeys : Expired(n, k)
    /\ sweeps < MaxSweeps
    /\ sweeps' = sweeps + 1
    /\ store' = [store EXCEPT ![n] = [k \in CrdtKeys |->
                    IF Expired(n, k) THEN NoRegister ELSE store[n][k]]]
    /\ UNCHANGED <<wall, memory, hw, net, writes, reboots>>

----------------------------------------------------------------------------
(* Calls between nodes. *)

(* GossipService.Push on the receiver. *)
Push(m) ==
    /\ m.to \notin Unreached
    /\ last' = [last EXCEPT ![m.to] =
                  ReplyClock(m.to, ClockUpdate(m.to, wall[m.to], last[m.to], m.hlc))]
    /\ ApplyDelta(m.to, m.key, m.rec, m.hlc, net \ {m})
    /\ UNCHANGED <<wall, pend, sync, counts>>

(* A push whose dial or call fails, or whose timeout passes.  fanOutPush  *)
(* cancels the context of the calls it has spawned as soon as it returns,  *)
(* so this is how a push ends unless its call overtakes the return.        *)
PushFails(m) ==
    /\ net' = net \ {m}
    /\ UNCHANGED <<wall, memory, disk, counts>>

NoDigest == [b \in Buckets |-> Zero]
NoSync == [peer |-> 0, digest |-> NoDigest, deltas |-> {}]

(* runAntiEntropyOnce: reads the digest and calls a peer ... *)
RunAntiEntropy(n, p) ==
    /\ sync[n] = NoSync
    /\ p # n
    /\ sync' = [sync EXCEPT ![n] = [NoSync EXCEPT !.peer = p, !.digest = hw[n]]]
    /\ UNCHANGED <<wall, last, pend, disk, net, counts>>

(* ... which answers from its store and stamps the reply ... *)
SyncDigest(n, p) ==
    /\ sync[n].peer = p
    /\ sync' = [sync EXCEPT ![n] = [NoSync EXCEPT !.deltas = SyncFromDigest(p, sync[n].digest)]]
    /\ last' = [last EXCEPT ![p] = ReplyClock(p, last[p])]
    /\ UNCHANGED <<wall, pend, disk, net, counts>>

(* ... or cannot be reached ... *)
SyncFails(n) ==
    /\ sync[n].peer # 0
    /\ sync' = [sync EXCEPT ![n] = NoSync]
    /\ UNCHANGED <<wall, last, pend, disk, net, counts>>

(* ... and the deltas of the reply are applied one by one, in order. *)
ApplySynced(n) == \E d \in sync[n].deltas :
    /\ \A e \in sync[n].deltas : d.key <= e.key
    /\ sync' = [sync EXCEPT ![n].deltas = @ \ {d}]
    /\ last' = [last EXCEPT ![n] = ClockUpdate(n, wall[n], last[n], d.rec.hlc)]
    /\ ApplyDelta(n, d.key, d.rec, d.rec.hlc, net)
    /\ UNCHANGED <<wall, pend, counts>>

(* The physical clock of one node; clocks of two nodes may be apart. *)
Tick(n) ==
    /\ wall[n] < MaxWall
    /\ wall' = [wall EXCEPT ![n] = @ + 1]
    /\ UNCHANGED <<memory, disk, net, counts>>

(* The process ends and OpenStore starts over from crdt.db: a new clock,   *)
(* and the writes, pushes and exchange of the old process are gone.  It    *)
(* takes longer than a tick of the physical clock.                         *)
Reboot(n) ==
    /\ reboots < MaxReboots
    /\ wall[n] < MaxWall
    /\ wall' = [wall EXCEPT ![n] = @ + 1]
    /\ reboots' = reboots + 1
    /\ last' = [last EXCEPT ![n] = Zero]
    /\ pend' = [pend EXCEPT ![n] = {}]
    /\ sync' = [sync EXCEPT ![n] = NoSync]
    /\ net' = {m \in net : m.from # n}
    /\ UNCHANGED <<disk, writes, sweeps>>

----------------------------------------------------------------------------
GossipInit ==
    /\ wall = [n \in Peers |-> 1]
    /\ last = [n \in Peers |-> Zero]
    /\ store = [n \in Peers |-> [k \in CrdtKeys |-> NoRegister]]
    /\ hw = [n \in Peers |-> NoDigest]
    /\ pend = [n \in Peers |-> {}]
    /\ net = {}
    /\ sync = [n \in Peers |-> NoSync]
    /\ writes = 0 /\ reboots = 0 /\ sweeps = 0

GossipNext ==
    \/ \E n \in Peers, k \in CrdtKeys, v \in Payloads : StartWrite(n, k, FALSE, v)
    \/ \E n \in Peers, k \in LwwKeys : StartWrite(n, k, TRUE, 0)
    \/ \E n \in Peers : FinishWrite(n)
    \/ \E n \in Peers : SweepTombstones(n)
    \/ \E m \in net : Push(m)
    \/ \E m \in net : PushFails(m)
    \/ \E n \in Syncers, p \in Peers : RunAntiEntropy(n, p)
    \/ \E n \in Peers, p \in Peers : SyncDigest(n, p)
    \/ \E n \in Peers : SyncFails(n)
    \/ \E n \in Peers : ApplySynced(n)
    \/ \E n \in Peers : Tick(n)
    \/ \E n \in Peers : Reboot(n)

GossipSafety == GossipInit /\ [][GossipNext]_gossipVars

(***************************************************************************)
(* Goroutines run on; a push ends in one way or the other.  The ticker     *)
(* picks each peer again and again (rng.Intn), and calls between two nodes *)
(* that keep being tried keep getting through.                             *)
(***************************************************************************)
Fairness ==
    /\ \A n \in Peers : WF_gossipVars(FinishWrite(n)) /\ WF_gossipVars(ApplySynced(n))
    /\ WF_gossipVars(\E m \in net : Push(m) \/ PushFails(m))
    /\ \A n \in Syncers, p \in Peers :
          SF_gossipVars(RunAntiEntropy(n, p)) /\ SF_gossipVars(SyncDigest(n, p))

GossipSpec == GossipSafety /\ Fairness

----------------------------------------------------------------------------
(* Properties *)

Write == [key : CrdtKeys, rec : Rec]

(* Every stamp, register and message has its shape, and a clock, and every *)
(* write stamped by it, carries its own node's id: NewClock keys the clock *)
(* and neither Now nor Update lets a remote id in.                         *)
GossipTypeOK ==
    /\ wall \in [Peers -> Nat]
    /\ last \in [Peers -> HLC]
    /\ store \in [Peers -> [CrdtKeys -> Rec]]
    /\ hw \in [Peers -> [Buckets -> HLC]]
    /\ pend \in [Peers -> SUBSET Write]
    /\ net \subseteq [from : Peers, to : Peers, key : CrdtKeys, rec : Rec, hlc : HLC]
    /\ sync \in [Peers -> [peer : Peers \cup {0}, digest : [Buckets -> HLC],
                           deltas : SUBSET Write]]
    /\ writes \in Nat /\ reboots \in Nat /\ sweeps \in Nat
    /\ \A n \in Peers : last[n].node \in {0, n}
    /\ \A n \in Peers : \A w \in pend[n] : w.rec.hlc.node = n

(* No register is later than the high water of its bucket, whatever        *)
(* arrives in whatever order, merged or put blindly, across restarts: what *)
(* a node has never falls outside the digest it sends (bumpHighWater in    *)
(* put and ApplyDelta).                                                    *)
HighWaterCovers == \A n \in Peers, k \in CrdtKeys :
    ~After(store[n][k].hlc, hw[n][Bucket(k)])

(* As long as no node restarts, a clock is at or past every register its   *)
(* node stores and every write it has stamped: the next local write beats  *)
(* whatever the node has (Clock.Now and Update).                           *)
ClockAhead == reboots = 0 =>
    \A n \in Peers :
        /\ \A k \in CrdtKeys : ~After(store[n][k].hlc, last[n])
        /\ \A w \in pend[n] : ~After(w.rec.hlc, last[n])

(* The LWW registers that exist anywhere: stored, stamped, or in flight. *)
LwwRegisters ==
    {[key |-> k, rec |-> store[n][k]] : n \in Peers, k \in LwwKeys}
    \cup {[key |-> m.key, rec |-> m.rec] : m \in {x \in net : x.key \in LwwKeys}}
    \cup UNION {{w \in pend[n] \cup sync[n].deltas : w.key \in LwwKeys} : n \in Peers}

(* Two registers with one stamp are one write: MergeLWW relies on it       *)
(* ("Same writer-emitted HLC => same payload").                            *)
SameStampSameWrite == \A r, s \in LwwRegisters :
    r.rec.hlc = s.rec.hlc /\ r.rec # NoRegister => r = s

(* The same while no node has restarted. *)
SameStampSameWriteUntilRestart == reboots = 0 => SameStampSameWrite

(* "missed pushes heal at the next anti-entropy tick" (onLocalWrite): the  *)
(* nodes agree in the end although pushes were lost.                       *)
MissedPushesHeal == <>[](\A n, p \in Peers : store[n] = store[p])
=============================================================================
