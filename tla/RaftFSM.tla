------------------------------ MODULE RaftFSM ------------------------------
(***************************************************************************)
(* The replicated state machine of the Raft storage backend                *)
(* (pkg/store/storage/raft/fsm.go).  hashicorp/raft is external: it gives  *)
(* every node the same committed log, calls Apply for each entry in order, *)
(* calls Snapshot between two Applies and Persist later, concurrently with *)
(* further Applies, and calls Restore with a snapshot it labelled with the *)
(* index at which Snapshot was called.  Its applied index is in memory: a  *)
(* restarted node begins at its newest snapshot, or at entry 1, while the  *)
(* FSM's own file data.db is on disk and keeps what was applied before.    *)
(***************************************************************************)
EXTENDS Naturals, Sequences, FiniteSets

CONSTANTS
    Nodes,
    Keys,
    Vals,         \* stored values; may contain Empty
    Absent,       \* no row for the key
    Empty,        \* the zero-length value
    Ops,          \* the operations the clients use
    MaxLog,       \* bound: committed entries
    NoSnap,       \* no snapshot
    MaxSnapshots, \* bound: snapshots taken by all nodes together
    MaxRestarts   \* bound: restarts of all nodes together

OpKinds == {"PUT", "DELETE", "BATCH", "CAS", "CAS_CREATE"}
BlindOps == {"PUT", "DELETE", "BATCH"}

ASSUME RaftFSMAssumption ==
    /\ Absent \notin Vals
    /\ NoSnap \notin Nat /\ NoSnap \notin [idx : Nat, db : [Keys -> Vals \cup {Absent}], hi : Nat]
    /\ Ops \subseteq OpKinds
    /\ MaxLog \in Nat /\ MaxSnapshots \in Nat /\ MaxRestarts \in Nat

VARIABLES
    log,       \* the committed log
    applied,   \* node -> raft's applied index
    db,        \* node -> contents of data.db
    pending,   \* node -> index of a snapshot taken but not persisted, or NoSnap
    snap,      \* node -> newest persisted snapshot, or NoSnap
    snaps,     \* snapshots taken so far
    restarts,  \* restarts so far
    states,    \* history: states[i + 1] is what the first i entries amount to
    hi         \* history: node -> the highest index that reached data.db

raftVars == <<log, states>>
nodeVars == <<applied, db, pending, snap, hi, snaps, restarts>>
vars == <<raftVars, nodeVars>>

Contents == [Keys -> Vals \cup {Absent}]

\* BATCH entries are puts and deletes only: a partial map of new contents.
Writes == UNION {[K -> Vals \cup {Absent}] : K \in SUBSET Keys}

Commands ==
         [op : {"PUT"}, key : Keys, val : Vals]
    \cup [op : {"DELETE"}, key : Keys]
    \cup [op : {"BATCH"}, writes : Writes]
    \cup [op : {"CAS"}, key : Keys, exp : Vals \cup {Absent}, val : Vals \cup {Absent}]
    \cup [op : {"CAS_CREATE"}, key : Keys, val : Vals]

\* bytesEqualNilSensitive: nil and zero-length compare equal.
SameBytes(a, b) == a = b \/ {a, b} \subseteq {Absent, Empty}

\* Whether the command's transaction commits on contents s (a CAS command with
\* val = Absent is one with DeleteOnApply set).
CasMatches(s, c) ==
    CASE c.op = "CAS"        -> SameBytes(s[c.key], c.exp)
      [] c.op = "CAS_CREATE" -> s[c.key] = Absent
      [] OTHER               -> TRUE

\* The rows the command writes when it commits.
Target(c) ==
    CASE c.op = "BATCH"  -> c.writes
      [] c.op = "DELETE" -> [k \in {c.key} |-> Absent]
      [] OTHER           -> [k \in {c.key} |-> c.val]

Overlay(s, w) == [k \in Keys |-> IF k \in DOMAIN w THEN w[k] ELSE s[k]]

\* FSM.Apply.
ApplyTo(s, c) == IF CasMatches(s, c) THEN Overlay(s, Target(c)) ELSE s

Blank == [k \in Keys |-> Absent]

Init ==
    /\ log = <<>> /\ states = <<Blank>>
    /\ applied = [n \in Nodes |-> 0]
    /\ db = [n \in Nodes |-> Blank]
    /\ pending = [n \in Nodes |-> NoSnap]
    /\ snap = [n \in Nodes |-> NoSnap]
    /\ hi = [n \in Nodes |-> 0]
    /\ snaps = 0 /\ restarts = 0
-----------------------------------------------------------------------------
\* Raft commits one more entry.
Commit(c) ==
    /\ Len(log) < MaxLog
    /\ c.op \in Ops
    /\ log' = Append(log, c)
    /\ states' = Append(states, ApplyTo(states[Len(log) + 1], c))
    /\ UNCHANGED nodeVars

Larger(a, b) == IF a < b THEN b ELSE a

\* Mutant: a node that cannot write at the moment drops the entry.
ApplySkips(n) ==
    /\ applied[n] < Len(log)
    /\ \/ UNCHANGED db
       \/ db' = [db EXCEPT ![n] = ApplyTo(@, log[applied[n] + 1])]
    /\ applied' = [applied EXCEPT ![n] = @ + 1]
    /\ hi' = [hi EXCEPT ![n] = Larger(@, applied[n] + 1)]
    /\ UNCHANGED <<raftVars, pending, snap, snaps, restarts>>

\* Raft hands the next entry to the node's FSM.
Apply(n) ==
    /\ applied[n] < Len(log)
    /\ db' = [db EXCEPT ![n] = ApplyTo(@, log[applied[n] + 1])]
    /\ applied' = [applied EXCEPT ![n] = @ + 1]
    /\ hi' = [hi EXCEPT ![n] = Larger(@, applied[n] + 1)]
    /\ UNCHANGED <<raftVars, pending, snap, snaps, restarts>>

\* FSM.Snapshot captures nothing; raft remembers the index.
Snapshot(n) ==
    /\ pending[n] = NoSnap
    /\ applied[n] > 0
    /\ snaps < MaxSnapshots /\ snaps' = snaps + 1
    /\ pending' = [pending EXCEPT ![n] = applied[n]]
    /\ UNCHANGED <<raftVars, applied, db, snap, hi, restarts>>

\* boltSnapshot.Persist copies data.db as it is now, which may be later than
\* the index the snapshot carries.
Persist(n) ==
    /\ pending[n] # NoSnap
    /\ snap' = [snap EXCEPT ![n] = [idx |-> pending[n], db |-> db[n], hi |-> hi[n]]]
    /\ pending' = [pending EXCEPT ![n] = NoSnap]
    /\ UNCHANGED <<raftVars, applied, db, hi, snaps, restarts>>

\* Mutant: the restored file is written but the old one stays open.
RestoreIndexOnly(n, s) ==
    /\ db' = db
    /\ applied' = [applied EXCEPT ![n] = s.idx]
    /\ hi' = [hi EXCEPT ![n] = s.hi]

\* FSM.Restore: data.db is replaced by the snapshot's copy.
Restore(n, s) ==
    /\ db' = [db EXCEPT ![n] = s.db]
    /\ applied' = [applied EXCEPT ![n] = s.idx]
    /\ hi' = [hi EXCEPT ![n] = s.hi]

\* A node that is behind receives another node's snapshot instead of entries.
InstallSnapshot(n, m) ==
    /\ snap[m] # NoSnap
    /\ snap[m].idx > applied[n]
    /\ Restore(n, snap[m])
    /\ UNCHANGED <<raftVars, pending, snap, snaps, restarts>>

\* The process ends (cleanly or not: every Apply is its own bbolt transaction)
\* and New runs again on the same DataDir.
Restart(n) ==
    /\ restarts < MaxRestarts
    /\ restarts' = restarts + 1
    /\ pending' = [pending EXCEPT ![n] = NoSnap]
    /\ IF snap[n] # NoSnap
         THEN Restore(n, snap[n])
         ELSE applied' = [applied EXCEPT ![n] = 0] /\ UNCHANGED <<db, hi>>
    /\ UNCHANGED <<raftVars, snap, snaps>>

Next ==
    \/ \E c \in Commands : Commit(c)
    \/ \E n \in Nodes : Apply(n) \/ Snapshot(n) \/ Persist(n) \/ Restart(n)
    \/ \E n, m \in Nodes : InstallSnapshot(n, m)

Spec == Init /\ [][Next]_vars
-----------------------------------------------------------------------------
Index == 0..Len(log)
Snapshots == [idx : Nat, db : Contents, hi : Nat]

TypeOK ==
    /\ log \in Seq(Commands) /\ Len(log) <= MaxLog
    /\ states \in Seq(Contents) /\ Len(states) = Len(log) + 1
    /\ applied \in [Nodes -> Index] /\ hi \in [Nodes -> Index]
    /\ db \in [Nodes -> Contents]
    /\ pending \in [Nodes -> Nat \cup {NoSnap}]
    /\ snap \in [Nodes -> Snapshots \cup {NoSnap}]
    /\ snaps \in 0..MaxSnapshots /\ restarts \in 0..MaxRestarts

\* What the log says the contents are after the entries n has applied.
Expected(n) == states[applied[n] + 1]

\* Two nodes at the same index hold the same data.  fsm.go: "followers
\* re-evaluate CAS commands against their local FSM state and produce the same
\* result as the leader because the log is total-ordered".
ReplicasAgree == \A n, m \in Nodes : applied[n] = applied[m] => db[n] = db[m]

\* A node whose applied index has passed everything its data.db ever contained
\* (after replays on top of old data, and after snapshots newer than their label)
\* holds exactly what the log says.
CaughtUpAgree == \A n \in Nodes : applied[n] >= hi[n] => db[n] = Expected(n)

Touches(i, k) == k \in DOMAIN Target(log[i])

\* Contents s are what the log says at index a, but for keys that an entry in
\* a + 1 .. h writes.
Rewritten(s, a, h) ==
    \A k \in Keys : s[k] # states[a + 1][k] => \E i \in (a + 1)..h : Touches(i, k)

\* A snapshot can always be replayed from: Persist may have copied a file that
\* is newer than the snapshot's label (fsm.go:470), but wherever the copy differs
\* from what the log says at the label, an entry after the label, at most as late
\* as the file itself, writes the row again.
SnapshotsRecoverable ==
    \A n \in Nodes : snap[n] # NoSnap =>
        /\ snap[n].idx <= snap[n].hi
        /\ Rewritten(snap[n].db, snap[n].idx, snap[n].hi)
=============================================================================
