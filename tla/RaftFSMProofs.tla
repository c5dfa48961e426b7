--------------------------- MODULE RaftFSMProofs ---------------------------
(***************************************************************************)
(* Proofs about the replicated FSM, for any number of nodes, keys, values, *)
(* entries, snapshots and restarts.                                        *)
(***************************************************************************)
EXTENDS RaftFSM, SequenceTheorems, TLAPS

\* A command only names known keys and stores only known values.
LEMMA TargetType ==
    ASSUME NEW c \in Commands
    PROVE  /\ DOMAIN Target(c) \subseteq Keys
           /\ \A k \in DOMAIN Target(c) : Target(c)[k] \in Vals \cup {Absent}
  <1>1. CASE c \in [op : {"PUT"}, key : Keys, val : Vals]
    BY <1>1 DEF Target
  <1>2. CASE c \in [op : {"DELETE"}, key : Keys]
    BY <1>2 DEF Target
  <1>3. CASE c \in [op : {"BATCH"}, writes : Writes]
    <2>1. Target(c) = c.writes /\ c.writes \in Writes
      BY <1>3 DEF Target
    <2> QED BY <2>1 DEF Writes
  <1>4. CASE c \in [op : {"CAS"}, key : Keys, exp : Vals \cup {Absent}, val : Vals \cup {Absent}]
    BY <1>4 DEF Target
  <1>5. CASE c \in [op : {"CAS_CREATE"}, key : Keys, val : Vals]
    BY <1>5 DEF Target
  <1> QED BY <1>1, <1>2, <1>3, <1>4, <1>5 DEF Commands

\* FSM.Apply yields contents again, and changes no row the command does not name.
LEMMA ApplyToType ==
    ASSUME NEW s \in Contents, NEW c \in Commands
    PROVE  /\ ApplyTo(s, c) \in Contents
           /\ \A k \in Keys : k \notin DOMAIN Target(c) => ApplyTo(s, c)[k] = s[k]
  <1>1. Overlay(s, Target(c)) \in Contents
    BY TargetType DEF Overlay, Contents
  <1>2. \A k \in Keys : k \notin DOMAIN Target(c) => Overlay(s, Target(c))[k] = s[k]
    BY DEF Overlay
  <1> QED BY <1>1, <1>2 DEF ApplyTo

\* A blind command writes the same rows whatever the contents are.
LEMMA ApplyToBlind ==
    ASSUME NEW s, NEW c \in Commands, c.op \in BlindOps
    PROVE  /\ \A k \in DOMAIN Target(c) : ApplyTo(s, c)[k] = Target(c)[k]
  <1>1. CasMatches(s, c)
    BY DEF CasMatches, BlindOps
  <1>2. \A k \in DOMAIN Target(c) : k \in Keys
    BY TargetType
  <1> QED BY <1>1, <1>2 DEF ApplyTo, Overlay
-----------------------------------------------------------------------------
LEMMA TypeInit == Init => TypeOK
<1> SUFFICES ASSUME Init PROVE TypeOK
  OBVIOUS
<1>1. Blank \in Contents
  BY DEF Blank, Contents
<1>2. log = <<>> /\ states = <<Blank>> /\ Len(log) = 0 /\ Len(states) = 1
      /\ states \in Seq(Contents) /\ log \in Seq(Commands)
  BY <1>1 DEF Init
<1>3. applied \in [Nodes -> Index] /\ hi \in [Nodes -> Index]
  BY <1>2 DEF Init, Index
<1>4. db \in [Nodes -> Contents]
  BY <1>1 DEF Init
<1>5. pending \in [Nodes -> Nat \cup {NoSnap}] /\ snap \in [Nodes -> Snapshots \cup {NoSnap}]
  BY DEF Init
<1> QED BY <1>2, <1>3, <1>4, <1>5, RaftFSMAssumption DEF Init, TypeOK

\* Snapshots carry an index the log has reached.
SnapIndexOK ==
    \A n \in Nodes :
        /\ snap[n] # NoSnap => snap[n].idx \in Index /\ snap[n].hi \in Index
        /\ pending[n] # NoSnap => pending[n] <= applied[n]

TypeInv == TypeOK /\ SnapIndexOK

LEMMA TypeStep == TypeInv /\ [Next]_vars => TypeInv'
<1> SUFFICES ASSUME TypeInv, [Next]_vars PROVE TypeInv'
  OBVIOUS
<1> USE RaftFSMAssumption
<1>0. TypeOK /\ SnapIndexOK
  BY DEF TypeInv
<1>1. ASSUME NEW c \in Commands, Commit(c) PROVE TypeInv'
  <2>1. log' = Append(log, c) /\ log' \in Seq(Commands) /\ Len(log') = Len(log) + 1
        /\ Len(log') <= MaxLog
    BY <1>0, <1>1, AppendProperties DEF Commit, TypeOK
  <2>2. states[Len(log) + 1] \in Contents
    BY <1>0 DEF TypeOK
  <2>3. states' \in Seq(Contents) /\ Len(states') = Len(states) + 1
    BY <1>0, <1>1, <2>2, ApplyToType, AppendProperties DEF Commit, TypeOK
  <2>4. Index \subseteq Index'
    BY <1>0, <2>1 DEF Index, TypeOK
  <2>5. UNCHANGED <<applied, db, pending, snap, hi, snaps, restarts>>
    BY <1>1 DEF Commit, nodeVars
  <2>6. applied' \in [Nodes -> Index'] /\ hi' \in [Nodes -> Index']
    BY <1>0, <2>4, <2>5 DEF TypeOK
  <2>7. TypeOK'
    BY <1>0, <2>1, <2>3, <2>5, <2>6 DEF TypeOK
  <2>8. SnapIndexOK'
    BY <1>0, <2>4, <2>5 DEF SnapIndexOK
  <2> QED BY <2>7, <2>8 DEF TypeInv
<1>2. ASSUME NEW n \in Nodes, Apply(n) PROVE TypeInv'
  <2>1. log' = log /\ states' = states /\ pending' = pending /\ snap' = snap
        /\ snaps' = snaps /\ restarts' = restarts /\ Index' = Index
    BY <1>2 DEF Apply, raftVars, Index
  <2>2. applied[n] \in Nat /\ applied[n] < Len(log) /\ Len(log) \in Nat
        /\ log[applied[n] + 1] \in Commands
    BY <1>0, <1>2 DEF Apply, TypeOK, Index
  <2>3. applied[n] + 1 \in Index /\ Larger(hi[n], applied[n] + 1) \in Index
    BY <1>0, <2>2 DEF TypeOK, Index, Larger
  <2>4. applied' \in [Nodes -> Index] /\ hi' \in [Nodes -> Index]
    BY <1>0, <1>2, <2>3 DEF Apply, TypeOK
  <2>5. db' \in [Nodes -> Contents]
    <3>1. db[n] \in Contents
      BY <1>0 DEF TypeOK
    <3>2. ApplyTo(db[n], log[applied[n] + 1]) \in Contents
      BY <2>2, <3>1, ApplyToType
    <3> QED BY <1>0, <1>2, <3>2 DEF Apply, TypeOK
  <2>6. TypeOK'
    BY <1>0, <2>1, <2>4, <2>5 DEF TypeOK
  <2>7. \A m \in Nodes : applied[m] <= applied'[m]
    BY <1>0, <1>2, <2>2 DEF Apply, TypeOK, Index
  <2>8. SnapIndexOK'
    <3> SUFFICES ASSUME NEW m \in Nodes
                 PROVE  /\ snap'[m] # NoSnap => snap'[m].idx \in Index' /\ snap'[m].hi \in Index'
                        /\ pending'[m] # NoSnap => pending'[m] <= applied'[m]
      BY DEF SnapIndexOK
    <3>1. pending[m] # NoSnap => pending[m] \in Nat
      BY <1>0 DEF TypeOK
    <3>2. applied[m] \in Nat /\ applied'[m] \in Nat
      BY <1>0, <2>4 DEF TypeOK, Index
    <3> QED BY <1>0, <2>1, <2>7, <3>1, <3>2 DEF SnapIndexOK
  <2> QED BY <2>6, <2>8 DEF TypeInv
<1>3. ASSUME NEW n \in Nodes, Snapshot(n) PROVE TypeInv'
  <2>1. log' = log /\ states' = states /\ applied' = applied /\ snap' = snap /\ db' = db
        /\ hi' = hi /\ restarts' = restarts /\ Index' = Index
    BY <1>3 DEF Snapshot, raftVars, Index
  <2>2. applied[n] \in Nat
    BY <1>0 DEF TypeOK, Index
  <2>3. pending' \in [Nodes -> Nat \cup {NoSnap}] /\ snaps' \in 0..MaxSnapshots
    BY <1>0, <1>3, <2>2 DEF Snapshot, TypeOK
  <2>4. TypeOK'
    BY <1>0, <2>1, <2>3 DEF TypeOK
  <2>5. SnapIndexOK'
    BY <1>0, <1>3, <2>1, <2>2 DEF Snapshot, SnapIndexOK, TypeOK
  <2> QED BY <2>4, <2>5 DEF TypeInv
<1>4. ASSUME NEW n \in Nodes, Persist(n) PROVE TypeInv'
  <2>1. log' = log /\ states' = states /\ applied' = applied /\ db' = db
        /\ hi' = hi /\ snaps' = snaps /\ restarts' = restarts /\ Index' = Index
    BY <1>4 DEF Persist, raftVars, Index
  <2>2. pending[n] \in Nat /\ pending[n] \in Index /\ hi[n] \in Index /\ db[n] \in Contents
    BY <1>0, <1>4 DEF Persist, TypeOK, SnapIndexOK, Index
  <2>3. [idx |-> pending[n], db |-> db[n], hi |-> hi[n]] \in Snapshots
    BY <1>0, <2>2 DEF Snapshots, Index
  <2>4. pending' \in [Nodes -> Nat \cup {NoSnap}] /\ snap' \in [Nodes -> Snapshots \cup {NoSnap}]
    BY <1>0, <1>4, <2>3 DEF Persist, TypeOK
  <2>5. TypeOK'
    BY <1>0, <2>1, <2>4 DEF TypeOK
  <2>6. SnapIndexOK'
    BY <1>0, <1>4, <2>1, <2>2 DEF Persist, SnapIndexOK, TypeOK
  <2> QED BY <2>5, <2>6 DEF TypeInv
<1>5. ASSUME NEW n \in Nodes, NEW m \in Nodes, InstallSnapshot(n, m) PROVE TypeInv'
  <2>1. log' = log /\ states' = states /\ pending' = pending /\ snap' = snap
        /\ snaps' = snaps /\ restarts' = restarts /\ Index' = Index
    BY <1>5 DEF InstallSnapshot, raftVars, Index
  <2>2. snap[m] \in Snapshots /\ snap[m].idx \in Index /\ snap[m].hi \in Index
        /\ snap[m].db \in Contents
    BY <1>0, <1>5 DEF InstallSnapshot, TypeOK, SnapIndexOK, Snapshots
  <2>3. applied' \in [Nodes -> Index] /\ hi' \in [Nodes -> Index] /\ db' \in [Nodes -> Contents]
    BY <1>0, <1>5, <2>2 DEF InstallSnapshot, Restore, TypeOK
  <2>4. TypeOK'
    BY <1>0, <2>1, <2>3 DEF TypeOK
  <2>5. \A p \in Nodes : applied[p] \in Nat /\ applied'[p] \in Nat /\ applied[p] <= applied'[p]
    BY <1>0, <1>5, <2>2, <2>3 DEF InstallSnapshot, Restore, TypeOK, Index
  <2>6. SnapIndexOK'
    <3> SUFFICES ASSUME NEW p \in Nodes
                 PROVE  /\ snap'[p] # NoSnap => snap'[p].idx \in Index' /\ snap'[p].hi \in Index'
                        /\ pending'[p] # NoSnap => pending'[p] <= applied'[p]
      BY DEF SnapIndexOK
    <3>1. pending[p] # NoSnap => pending[p] \in Nat
      BY <1>0 DEF TypeOK
    <3> QED BY <1>0, <2>1, <2>5, <3>1 DEF SnapIndexOK
  <2> QED BY <2>4, <2>6 DEF TypeInv
<1>6. ASSUME NEW n \in Nodes, Restart(n) PROVE TypeInv'
  <2>1. log' = log /\ states' = states /\ snap' = snap /\ snaps' = snaps /\ Index' = Index
        /\ restarts' \in 0..MaxRestarts
    BY <1>0, <1>6 DEF Restart, raftVars, Index, TypeOK
  <2>2. pending' \in [Nodes -> Nat \cup {NoSnap}]
    BY <1>0, <1>6 DEF Restart, TypeOK
  <2>3. applied' \in [Nodes -> Index] /\ hi' \in [Nodes -> Index] /\ db' \in [Nodes -> Contents]
    <3>1. CASE snap[n] # NoSnap
      <4>1. snap[n].idx \in Index /\ snap[n].hi \in Index /\ snap[n].db \in Contents
        BY <1>0, <3>1 DEF TypeOK, SnapIndexOK, Snapshots
      <4> QED BY <1>0, <1>6, <3>1, <4>1 DEF Restart, Restore, TypeOK
    <3>2. CASE snap[n] = NoSnap
      <4>1. 0 \in Index
        BY <1>0 DEF Index, TypeOK
      <4> QED BY <1>0, <1>6, <3>2, <4>1 DEF Restart, TypeOK
    <3> QED BY <3>1, <3>2
  <2>4. TypeOK'
    BY <1>0, <2>1, <2>2, <2>3 DEF TypeOK
  <2>5. \A p \in Nodes \ {n} : applied'[p] = applied[p] /\ pending'[p] = pending[p]
    BY <1>0, <1>6 DEF Restart, Restore, TypeOK
  <2>6. pending'[n] = NoSnap
    BY <1>0, <1>6 DEF Restart, TypeOK
  <2>7. SnapIndexOK'
    BY <1>0, <2>1, <2>5, <2>6 DEF SnapIndexOK
  <2> QED BY <2>4, <2>7 DEF TypeInv
<1>7. CASE UNCHANGED vars
  BY <1>0, <1>7 DEF vars, raftVars, nodeVars, TypeInv, TypeOK, SnapIndexOK, Index
<1> QED BY <1>1, <1>2, <1>3, <1>4, <1>5, <1>6, <1>7 DEF Next

\* The FSM's data keeps its type, and no node or snapshot is ever ahead of the
\* committed log, whatever restarts and snapshot transfers happen.
THEOREM RaftTypeCorrect == Spec => []TypeOK
<1>1. Init => TypeInv
  BY TypeInit DEF Init, TypeInv, SnapIndexOK
<1>2. TypeInv => TypeOK
  BY DEF TypeInv
<1> QED BY <1>1, <1>2, TypeStep, PTL DEF Spec
-----------------------------------------------------------------------------
(* Blind operations: a node that replays old entries over newer data, or   *)
(* restores a snapshot newer than its label, is temporarily wrong only on  *)
(* keys that an entry still to be replayed writes.                         *)

BlindInv ==
    /\ TypeInv
    /\ \A i \in 1..Len(log) : log[i].op \in BlindOps
    /\ \A i \in 1..Len(log) : states[i + 1] = ApplyTo(states[i], log[i])
    /\ states[1] = Blank
    /\ \A i, j \in Index : i <= j => Rewritten(states[j + 1], i, j)
    /\ \A n \in Nodes : applied[n] <= hi[n] /\ Rewritten(db[n], applied[n], hi[n])
    /\ \A n \in Nodes : snap[n] # NoSnap =>
          snap[n].idx <= snap[n].hi /\ Rewritten(snap[n].db, snap[n].idx, snap[n].hi)

LEMMA BlindInit == Init => BlindInv
<1> SUFFICES ASSUME Init PROVE BlindInv
  OBVIOUS
<1>1. TypeInv
  BY TypeInit DEF Init, TypeInv, SnapIndexOK
<1>2. Len(log) = 0 /\ states[1] = Blank /\ Index = {0}
  BY DEF Init, Index
<1>3. \A n \in Nodes : applied[n] = 0 /\ hi[n] = 0 /\ db[n] = Blank /\ snap[n] = NoSnap
  BY DEF Init
<1> QED BY <1>1, <1>2, <1>3 DEF BlindInv, Rewritten

\* Nothing already in the log changes when an entry is appended.
LEMMA CommitKeeps ==
    ASSUME TypeOK, NEW c \in Commands, Commit(c)
    PROVE  /\ Len(log') = Len(log) + 1 /\ Len(log) \in Nat
           /\ \A i \in 1..Len(log) : log'[i] = log[i]
           /\ log'[Len(log) + 1] = c
           /\ \A i \in 1..(Len(log) + 1) : states'[i] = states[i]
           /\ states'[Len(log) + 2] = ApplyTo(states[Len(log) + 1], c)
           /\ \A i \in 1..(Len(log) + 1) : states[i] \in Contents
<1>1. log' = Append(log, c) /\ log \in Seq(Commands)
  BY DEF Commit, TypeOK
<1>2. states \in Seq(Contents) /\ Len(states) = Len(log) + 1 /\ Len(log) \in Nat
  BY DEF TypeOK
<1>3. states[Len(log) + 1] \in Contents
  BY <1>2
<1> DEFINE s == ApplyTo(states[Len(log) + 1], c)
<1>4. s \in Contents
  BY <1>3, ApplyToType
<1>5. states' = Append(states, s)
  BY DEF Commit
<1> HIDE DEF s
<1>6. /\ \A i \in 1..Len(states) : states'[i] = states[i]
      /\ states'[Len(states) + 1] = s
  BY <1>2, <1>4, <1>5, AppendProperties
<1>7. /\ Len(log') = Len(log) + 1
      /\ \A i \in 1..Len(log) : log'[i] = log[i]
      /\ log'[Len(log) + 1] = c
  BY <1>1, AppendProperties
<1>8. states'[Len(log) + 2] = s
  BY <1>2, <1>6
<1>9. \A i \in 1..(Len(log) + 1) : states'[i] = states[i] /\ states[i] \in Contents
  BY <1>2, <1>6
<1> QED BY <1>2, <1>7, <1>8, <1>9 DEF s

\* Replaying one more entry repairs the keys it writes.
LEMMA ApplyRewritten ==
    ASSUME BlindInv, NEW s \in Contents, NEW a \in Index, NEW h \in Index,
           a < Len(log), a <= h, Rewritten(s, a, h)
    PROVE  \A x \in Nat : x >= h /\ x >= a + 1 =>
               Rewritten(ApplyTo(s, log[a + 1]), a + 1, x)
<1> SUFFICES ASSUME NEW x \in Nat, x >= h, x >= a + 1, NEW k \in Keys,
                    ApplyTo(s, log[a + 1])[k] # states[a + 2][k]
             PROVE  \E i \in (a + 2)..x : Touches(i, k)
  <2>1. a \in Nat
    BY DEF Index, BlindInv, TypeInv, TypeOK
  <2>2. (a + 1) + 1 = a + 2
    BY <2>1
  <2> QED BY <2>2 DEF Rewritten
<1> DEFINE c == log[a + 1]
<1>1. a \in Nat /\ h \in Nat /\ Len(log) \in Nat /\ a + 1 \in 1..Len(log)
      /\ c \in Commands /\ states[a + 1] \in Contents
  BY DEF BlindInv, TypeInv, TypeOK, Index
<1>2. c.op \in BlindOps /\ states[a + 2] = ApplyTo(states[a + 1], c)
  <2>1. (a + 1) + 1 = a + 2
    BY <1>1
  <2> QED BY <1>1, <2>1 DEF BlindInv
<1> HIDE DEF c
<1>3. k \notin DOMAIN Target(c)
  BY <1>1, <1>2, ApplyToBlind DEF c
<1>4. s[k] # states[a + 1][k]
  BY <1>1, <1>2, <1>3, ApplyToType DEF c
<1>5. PICK i \in (a + 1)..h : Touches(i, k)
  BY <1>4 DEF Rewritten
<1>6. i # a + 1
  BY <1>3, <1>5 DEF Touches, c
<1>7. i \in (a + 2)..x
  BY <1>1, <1>5, <1>6
<1> QED BY <1>5, <1>7

\* Contents right for a later index a are right for an earlier one p, but for
\* the keys written in between.
LEMMA RewrittenEarlier ==
    ASSUME BlindInv, NEW s, NEW p \in Index, NEW a \in Index, NEW h \in Index,
           p <= a, a <= h, Rewritten(s, a, h)
    PROVE  Rewritten(s, p, h)
<1>1. p \in Nat /\ a \in Nat /\ h \in Nat
  BY DEF BlindInv, TypeInv, TypeOK, Index
<1>2. Rewritten(states[a + 1], p, a)
  BY DEF BlindInv
<1> SUFFICES ASSUME NEW k \in Keys, s[k] # states[p + 1][k]
             PROVE  \E i \in (p + 1)..h : Touches(i, k)
  BY DEF Rewritten
<1>3. CASE s[k] # states[a + 1][k]
  <2>1. PICK i \in (a + 1)..h : Touches(i, k)
    BY <1>3 DEF Rewritten
  <2> QED BY <1>1, <2>1
<1>4. CASE s[k] = states[a + 1][k]
  <2>1. PICK i \in (p + 1)..a : Touches(i, k)
    BY <1>2, <1>4 DEF Rewritten
  <2> QED BY <1>1, <2>1
<1> QED BY <1>3, <1>4

LEMMA BlindStep ==
    ASSUME Ops \subseteq BlindOps
    PROVE  BlindInv /\ [Next]_vars => BlindInv'
<1> SUFFICES ASSUME BlindInv, [Next]_vars PROVE BlindInv'
  OBVIOUS
<1>0. TypeInv /\ TypeInv' /\ TypeOK /\ SnapIndexOK /\ TypeOK'
  BY TypeStep DEF BlindInv, TypeInv
<1>a. Len(log) \in Nat /\ Index \subseteq Nat /\ 0 \in Index
  BY <1>0 DEF TypeOK, Index
<1>b. \A n \in Nodes : applied[n] \in Index /\ hi[n] \in Index /\ db[n] \in Contents
  BY <1>0 DEF TypeOK
<1>c. \A n \in Nodes : snap[n] # NoSnap =>
        snap[n].idx \in Index /\ snap[n].hi \in Index /\ snap[n].db \in Contents
  BY <1>0 DEF TypeOK, SnapIndexOK, Snapshots
<1> DEFINE NodeOK(n) == applied[n] <= hi[n] /\ Rewritten(db[n], applied[n], hi[n])
           SnapOK(n) == snap[n] # NoSnap =>
               snap[n].idx <= snap[n].hi /\ Rewritten(snap[n].db, snap[n].idx, snap[n].hi)
<1>d. \A n \in Nodes : NodeOK(n) /\ SnapOK(n)
  BY DEF BlindInv
<1>1. ASSUME NEW c \in Commands, Commit(c) PROVE BlindInv'
  <2> DEFINE L == Len(log)
  <2>1. /\ Len(log') = L + 1 /\ L \in Nat
        /\ \A i \in 1..L : log'[i] = log[i]
        /\ log'[L + 1] = c
        /\ \A i \in 1..(L + 1) : states'[i] = states[i]
        /\ states'[L + 2] = ApplyTo(states[L + 1], c)
        /\ \A i \in 1..(L + 1) : states[i] \in Contents
    BY <1>0, <1>1, CommitKeeps
  <2>2. UNCHANGED <<applied, db, pending, snap, hi, snaps, restarts>>
    BY <1>1 DEF Commit, nodeVars
  <2>3. Index = 0..L
    BY DEF Index
  <2> HIDE DEF L
  <2>4. ASSUME NEW s, NEW a \in Index, NEW h \in Index, Rewritten(s, a, h)
        PROVE  \A k \in Keys : s[k] # states'[a + 1][k] =>
                   \E i \in (a + 1)..h : k \in DOMAIN Target(log'[i])
    <3> SUFFICES ASSUME NEW k \in Keys, s[k] # states'[a + 1][k]
                 PROVE  \E i \in (a + 1)..h : k \in DOMAIN Target(log'[i])
      OBVIOUS
    <3>1. a + 1 \in 1..(L + 1) /\ a \in Nat /\ h \in Nat /\ h <= L
      BY <2>1, <2>3
    <3>2. s[k] # states[a + 1][k]
      BY <2>1, <3>1
    <3>3. PICK i \in (a + 1)..h : Touches(i, k)
      BY <2>4, <3>2 DEF Rewritten
    <3>4. i \in 1..L
      BY <2>1, <3>1, <3>3
    <3>5. log'[i] = log[i]
      BY <2>1, <3>4
    <3> QED BY <3>3, <3>5 DEF Touches
  <2>5. \A i \in 1..Len(log') : log'[i].op \in BlindOps
    <3>1. c.op \in BlindOps
      BY <1>1 DEF Commit
    <3> SUFFICES ASSUME NEW i \in 1..Len(log') PROVE log'[i].op \in BlindOps
      OBVIOUS
    <3>2. CASE i = L + 1
      BY <2>1, <3>1, <3>2
    <3>3. CASE i \in 1..L
      <4>1. log'[i] = log[i] /\ log[i].op \in BlindOps
        BY <2>1, <3>3 DEF BlindInv, L
      <4> QED BY <4>1
    <3> QED BY <2>1, <3>2, <3>3
  <2>6. \A i \in 1..Len(log') : states'[i + 1] = ApplyTo(states'[i], log'[i])
    <3> SUFFICES ASSUME NEW i \in 1..Len(log')
                 PROVE  states'[i + 1] = ApplyTo(states'[i], log'[i])
      OBVIOUS
    <3>1. CASE i = L + 1
      <4>1. i + 1 = L + 2 /\ states'[i] = states[L + 1] /\ log'[i] = c
        BY <2>1, <3>1
      <4> QED BY <2>1, <4>1
    <3>2. CASE i \in 1..L
      <4>1. i \in 1..(L + 1) /\ i + 1 \in 1..(L + 1)
        BY <2>1, <3>2
      <4>2. states[i + 1] = ApplyTo(states[i], log[i])
        BY <3>2 DEF BlindInv, L
      <4> QED BY <2>1, <3>2, <4>1, <4>2
    <3> QED BY <2>1, <3>1, <3>2
  <2>7. states'[1] = Blank
    BY <2>1 DEF BlindInv
  <2>8. ASSUME NEW i \in Index', NEW j \in Index', i <= j
        PROVE  Rewritten(states[j + 1], i, j)'
    <3>0. Index' = 0..(L + 1) /\ i \in Nat /\ j \in Nat
      BY <2>1 DEF Index
    <3>1. CASE j \in Index
      <4>1. i \in Index /\ j + 1 \in 1..(L + 1)
        BY <2>1, <2>3, <2>8, <3>0, <3>1
      <4>2. Rewritten(states[j + 1], i, j)
        BY <2>8, <3>1, <4>1 DEF BlindInv
      <4>3. Rewritten(states[j + 1], i, j) => \A k \in Keys :
                states[j + 1][k] # states[i + 1][k] => \E x \in (i + 1)..j : Touches(x, k)
        BY DEF Rewritten
      <4> SUFFICES ASSUME NEW k \in Keys, states'[j + 1][k] # states'[i + 1][k]
                   PROVE  \E x \in (i + 1)..j : k \in DOMAIN Target(log'[x])
        BY DEF Rewritten, Touches
      <4>4. states'[j + 1] = states[j + 1] /\ states'[i + 1] = states[i + 1]
        BY <2>1, <2>3, <4>1, <3>0
      <4>5. PICK x \in (i + 1)..j : Touches(x, k)
        BY <4>2, <4>3, <4>4
      <4>6. x \in 1..L
        BY <2>1, <2>3, <3>0, <3>1, <4>5
      <4>7. log'[x] = log[x]
        BY <2>1, <4>6
      <4> QED BY <4>5, <4>7 DEF Touches
    <3>2. CASE j = L + 1
      <4> SUFFICES ASSUME NEW k \in Keys, states'[j + 1][k] # states'[i + 1][k]
                   PROVE  \E x \in (i + 1)..j : k \in DOMAIN Target(log'[x])
        BY DEF Rewritten, Touches
      <4>0. j + 1 = L + 2
        BY <2>1, <3>2
      <4>1. i # j
        OBVIOUS
      <4>2. i \in Index
        BY <2>1, <2>3, <2>8, <3>0, <3>2, <4>1
      <4>3. CASE k \in DOMAIN Target(c)
        <5>1. L + 1 \in (i + 1)..j
          BY <2>1, <2>3, <3>0, <3>2, <4>2
        <5>2. k \in DOMAIN Target(log'[L + 1])
          BY <2>1, <4>3 DEF Touches
        <5> QED BY <5>1, <5>2
      <4>4. CASE k \notin DOMAIN Target(c)
        <5>1. states[L + 1] \in Contents
          BY <2>1
        <5>2. states'[j + 1][k] = states[L + 1][k]
          BY <2>1, <4>0, <4>4, <5>1, ApplyToType
        <5>3. states'[i + 1] = states[i + 1]
          BY <2>1, <2>3, <4>2
        <5>4. L \in Index /\ i <= L
          BY <2>1, <2>3, <4>2
        <5>5. Rewritten(states[L + 1], i, L)
          BY <4>2, <5>4 DEF BlindInv
        <5>6. PICK x \in (i + 1)..L : Touches(x, k)
          BY <5>2, <5>3, <5>5 DEF Rewritten
        <5>7. x \in 1..L /\ x \in (i + 1)..j
          BY <2>1, <2>3, <3>2, <4>2, <5>6
        <5>8. log'[x] = log[x]
          BY <2>1, <5>7
        <5> QED BY <5>6, <5>7, <5>8 DEF Touches
      <4> QED BY <4>3, <4>4
    <3> QED BY <2>1, <2>3, <3>0, <3>1, <3>2
  <2>9. (\A n \in Nodes : applied[n] <= hi[n] /\ Rewritten(db[n], applied[n], hi[n]))'
    <3> SUFFICES ASSUME NEW n \in Nodes
                 PROVE  applied[n] <= hi[n] /\ \A k \in Keys :
                           db[n][k] # states'[applied[n] + 1][k] =>
                             \E i \in (applied[n] + 1)..hi[n] : k \in DOMAIN Target(log'[i])
      BY <2>2 DEF Rewritten, Touches
    <3> QED BY <1>b, <1>d, <2>4
  <2>10. (\A n \in Nodes : SnapOK(n))'
    <3> SUFFICES ASSUME NEW n \in Nodes, snap[n] # NoSnap
                 PROVE  snap[n].idx <= snap[n].hi /\ \A k \in Keys :
                           snap[n].db[k] # states'[snap[n].idx + 1][k] =>
                             \E i \in (snap[n].idx + 1)..snap[n].hi : k \in DOMAIN Target(log'[i])
      BY <2>2 DEF Rewritten, Touches
    <3> QED BY <1>c, <1>d, <2>4
  <2> QED BY <1>0, <2>5, <2>6, <2>7, <2>8, <2>9, <2>10 DEF BlindInv
<1> DEFINE LogOK ==
      /\ \A i \in 1..Len(log) : log[i].op \in BlindOps
      /\ \A i \in 1..Len(log) : states[i + 1] = ApplyTo(states[i], log[i])
      /\ states[1] = Blank
      /\ \A i, j \in Index : i <= j => Rewritten(states[j + 1], i, j)
<1>e. ASSUME log' = log, states' = states PROVE LogOK'
  <2>1. LogOK
    BY DEF BlindInv
  <2> QED BY <1>e, <2>1 DEF Index, Rewritten, Touches
<1>f. ASSUME log' = log, states' = states,
             \A n \in Nodes : applied'[n] <= hi'[n] /\ Rewritten(db'[n], applied'[n], hi'[n]),
             \A n \in Nodes : snap'[n] # NoSnap => snap'[n].idx <= snap'[n].hi
                                  /\ Rewritten(snap'[n].db, snap'[n].idx, snap'[n].hi)
      PROVE  BlindInv'
  <2>1. LogOK'
    BY <1>e, <1>f
  <2>2. (\A n \in Nodes : NodeOK(n) /\ SnapOK(n))'
    BY <1>f DEF Rewritten, Touches
  <2> QED BY <1>0, <2>1, <2>2 DEF BlindInv
<1>2. ASSUME NEW n \in Nodes, Apply(n) PROVE BlindInv'
  <2>1. log' = log /\ states' = states /\ snap' = snap
    BY <1>2 DEF Apply, raftVars
  <2> DEFINE a == applied[n]  h == hi[n]  s == db[n]
  <2>2. a \in Index /\ h \in Index /\ s \in Contents /\ a <= h /\ Rewritten(s, a, h) /\ a < Len(log)
    BY <1>2, <1>b, <1>d DEF Apply
  <2>b. a \in Nat /\ h \in Nat
    BY <1>a, <2>2
  <2>3. Larger(h, a + 1) \in Nat /\ Larger(h, a + 1) >= h /\ Larger(h, a + 1) >= a + 1
    BY <2>b DEF Larger
  <2>4. Rewritten(ApplyTo(s, log[a + 1]), a + 1, Larger(h, a + 1))
    BY <2>2, <2>3, ApplyRewritten
  <2>5. applied'[n] = a + 1 /\ hi'[n] = Larger(h, a + 1) /\ db'[n] = ApplyTo(s, log[a + 1])
    BY <1>0, <1>2 DEF Apply, TypeOK
  <2>6. \A m \in Nodes \ {n} : applied'[m] = applied[m] /\ hi'[m] = hi[m] /\ db'[m] = db[m]
    BY <1>0, <1>2 DEF Apply, TypeOK
  <2>7. \A m \in Nodes : applied'[m] <= hi'[m] /\ Rewritten(db'[m], applied'[m], hi'[m])
    BY <1>d, <2>3, <2>4, <2>5, <2>6
  <2> QED BY <1>d, <1>f, <2>1, <2>7
<1>3. ASSUME NEW n \in Nodes, Snapshot(n) PROVE BlindInv'
  <2>1. log' = log /\ states' = states /\ snap' = snap /\ applied' = applied /\ db' = db /\ hi' = hi
    BY <1>3 DEF Snapshot, raftVars
  <2> QED BY <1>d, <1>f, <2>1
<1>4. ASSUME NEW n \in Nodes, Persist(n) PROVE BlindInv'
  <2>1. log' = log /\ states' = states /\ applied' = applied /\ db' = db /\ hi' = hi
    BY <1>4 DEF Persist, raftVars
  <2>2. pending[n] \in Index /\ pending[n] <= applied[n] /\ pending[n] # NoSnap
    BY <1>0, <1>4, <1>b DEF Persist, TypeOK, SnapIndexOK, Index
  <2>b. applied[n] \in Nat /\ hi[n] \in Nat /\ pending[n] \in Nat
    BY <1>a, <1>b, <2>2
  <2>c. applied[n] \in Index /\ hi[n] \in Index /\ applied[n] <= hi[n]
        /\ Rewritten(db[n], applied[n], hi[n])
    BY <1>b, <1>d
  <2>3. Rewritten(db[n], pending[n], hi[n]) /\ pending[n] <= hi[n]
    BY <2>b, <2>c, <2>2, RewrittenEarlier
  <2>4. snap'[n] = [idx |-> pending[n], db |-> db[n], hi |-> hi[n]]
        /\ \A m \in Nodes \ {n} : snap'[m] = snap[m]
    BY <1>0, <1>4 DEF Persist, TypeOK
  <2>5. \A m \in Nodes : snap'[m] # NoSnap => snap'[m].idx <= snap'[m].hi
                             /\ Rewritten(snap'[m].db, snap'[m].idx, snap'[m].hi)
    BY <1>d, <2>3, <2>4
  <2> QED BY <1>d, <1>f, <2>1, <2>5
<1>5. ASSUME NEW n \in Nodes, NEW m \in Nodes, InstallSnapshot(n, m) PROVE BlindInv'
  <2>1. log' = log /\ states' = states /\ snap' = snap /\ snap[m] # NoSnap
    BY <1>5 DEF InstallSnapshot, raftVars
  <2>2. applied'[n] = snap[m].idx /\ hi'[n] = snap[m].hi /\ db'[n] = snap[m].db
        /\ \A p \in Nodes \ {n} : applied'[p] = applied[p] /\ hi'[p] = hi[p] /\ db'[p] = db[p]
    BY <1>0, <1>5 DEF InstallSnapshot, Restore, TypeOK
  <2>3. \A p \in Nodes : applied'[p] <= hi'[p] /\ Rewritten(db'[p], applied'[p], hi'[p])
    BY <1>d, <2>1, <2>2
  <2> QED BY <1>d, <1>f, <2>1, <2>3
<1>6. ASSUME NEW n \in Nodes, Restart(n) PROVE BlindInv'
  <2>1. log' = log /\ states' = states /\ snap' = snap
    BY <1>6 DEF Restart, raftVars
  <2>2. CASE snap[n] # NoSnap
    <3>1. applied'[n] = snap[n].idx /\ hi'[n] = snap[n].hi /\ db'[n] = snap[n].db
          /\ \A p \in Nodes \ {n} : applied'[p] = applied[p] /\ hi'[p] = hi[p] /\ db'[p] = db[p]
      BY <1>0, <1>6, <2>2 DEF Restart, Restore, TypeOK
    <3>2. \A p \in Nodes : applied'[p] <= hi'[p] /\ Rewritten(db'[p], applied'[p], hi'[p])
      BY <1>d, <2>2, <3>1
    <3> QED BY <1>d, <1>f, <2>1, <3>2
  <2>3. CASE snap[n] = NoSnap
    <3>1. applied'[n] = 0 /\ hi' = hi /\ db' = db
          /\ \A p \in Nodes \ {n} : applied'[p] = applied[p]
      BY <1>0, <1>6, <2>3 DEF Restart, TypeOK
    <3>2. 0 <= applied[n] /\ 0 <= hi[n]
      <4>1. applied[n] \in Nat /\ hi[n] \in Nat
        BY <1>a, <1>b
      <4> QED BY <4>1
    <3>3. Rewritten(db[n], 0, hi[n])
      BY <1>a, <1>b, <1>d, <3>2, RewrittenEarlier
    <3>4. \A p \in Nodes : applied'[p] <= hi'[p] /\ Rewritten(db'[p], applied'[p], hi'[p])
      BY <1>d, <3>1, <3>2, <3>3
    <3> QED BY <1>d, <1>f, <2>1, <3>4
  <2> QED BY <2>2, <2>3
<1>7. CASE UNCHANGED vars
  <2>1. log' = log /\ states' = states /\ snap' = snap /\ applied' = applied /\ db' = db /\ hi' = hi
    BY <1>7 DEF vars, raftVars, nodeVars
  <2> QED BY <1>d, <1>f, <2>1
<1> QED BY <1>1, <1>2, <1>3, <1>4, <1>5, <1>6, <1>7 DEF Next

\* No entry is left to replay: the contents are exact.
LEMMA RewrittenExact ==
    ASSUME TypeOK, NEW s \in Contents, NEW a \in Index, Rewritten(s, a, a)
    PROVE  s = states[a + 1]
<1>1. a \in Nat /\ states[a + 1] \in Contents
  BY DEF TypeOK, Index
<1>2. (a + 1)..a = {}
  BY <1>1
<1>3. \A k \in Keys : s[k] = states[a + 1][k]
  BY <1>2 DEF Rewritten
<1> QED BY <1>1, <1>3 DEF Contents

\* With blind operations only (puts, deletes and batches), a node that has
\* replayed as far as its file ever went holds exactly what the log says, in
\* spite of replays over newer data and of snapshots newer than their label.
THEOREM RaftBlindReplay ==
    ASSUME Ops \subseteq BlindOps
    PROVE  Spec => []CaughtUpAgree
<1>1. Init => BlindInv
  BY BlindInit
<1>2. BlindInv /\ [Next]_vars => BlindInv'
  BY BlindStep
<1>3. BlindInv => CaughtUpAgree
  <2> SUFFICES ASSUME BlindInv, NEW n \in Nodes, applied[n] >= hi[n]
               PROVE  db[n] = Expected(n)
    BY DEF CaughtUpAgree
  <2>1. TypeOK /\ applied[n] \in Index /\ hi[n] \in Index /\ db[n] \in Contents
        /\ applied[n] \in Nat /\ hi[n] \in Nat
    BY DEF BlindInv, TypeInv, TypeOK, Index
  <2>2. applied[n] <= hi[n] /\ Rewritten(db[n], applied[n], hi[n])
    BY DEF BlindInv
  <2>3. applied[n] = hi[n]
    BY <2>1, <2>2
  <2> QED BY <2>1, <2>2, <2>3, RewrittenExact DEF Expected
<1> QED BY <1>1, <1>2, <1>3, PTL DEF Spec

\* Every snapshot such a node persists, one newer than its label included,
\* differs from what the log says at the label only in rows that the entries to
\* be replayed write again.
THEOREM RaftBlindSnapshots ==
    ASSUME Ops \subseteq BlindOps
    PROVE  Spec => []SnapshotsRecoverable
<1>1. Init => BlindInv
  BY BlindInit
<1>2. BlindInv /\ [Next]_vars => BlindInv'
  BY BlindStep
<1>3. BlindInv => SnapshotsRecoverable
  BY DEF BlindInv, SnapshotsRecoverable
<1> QED BY <1>1, <1>2, <1>3, PTL DEF Spec
-----------------------------------------------------------------------------
(* Without restarts and snapshots every operation is safe, CAS included.   *)

SteadyInv ==
    /\ TypeInv
    /\ snaps = 0 /\ restarts = 0
    /\ \A n \in Nodes : pending[n] = NoSnap /\ snap[n] = NoSnap
    /\ \A i \in 1..Len(log) : states[i + 1] = ApplyTo(states[i], log[i])
    /\ \A n \in Nodes : db[n] = states[applied[n] + 1]

LEMMA SteadyInit == Init => SteadyInv
<1> SUFFICES ASSUME Init PROVE SteadyInv
  OBVIOUS
<1>1. TypeInv
  BY TypeInit DEF Init, TypeInv, SnapIndexOK
<1>2. Len(log) = 0 /\ states[1] = Blank /\ snaps = 0 /\ restarts = 0
  BY DEF Init
<1>3. \A n \in Nodes : applied[n] = 0 /\ db[n] = Blank /\ pending[n] = NoSnap /\ snap[n] = NoSnap
  BY DEF Init
<1> QED BY <1>1, <1>2, <1>3 DEF SteadyInv

LEMMA SteadyStep ==
    ASSUME MaxSnapshots = 0, MaxRestarts = 0
    PROVE  SteadyInv /\ [Next]_vars => SteadyInv'
<1> SUFFICES ASSUME SteadyInv, [Next]_vars PROVE SteadyInv'
  OBVIOUS
<1>0. TypeInv /\ TypeInv' /\ TypeOK /\ TypeOK'
  BY TypeStep DEF SteadyInv, TypeInv
<1>a. Len(log) \in Nat /\ \A n \in Nodes : applied[n] \in Nat /\ applied[n] <= Len(log)
  BY <1>0 DEF TypeOK, Index
<1>1. ASSUME NEW c \in Commands, Commit(c) PROVE SteadyInv'
  <2> DEFINE L == Len(log)
  <2>1. /\ Len(log') = L + 1 /\ L \in Nat
        /\ \A i \in 1..L : log'[i] = log[i]
        /\ log'[L + 1] = c
        /\ \A i \in 1..(L + 1) : states'[i] = states[i]
        /\ states'[L + 2] = ApplyTo(states[L + 1], c)
    BY <1>0, <1>1, CommitKeeps
  <2>2. UNCHANGED <<applied, db, pending, snap, hi, snaps, restarts>>
    BY <1>1 DEF Commit, nodeVars
  <2>3. \A n \in Nodes : applied[n] + 1 \in 1..(L + 1)
    BY <1>a
  <2>4. \A i \in 1..Len(log) : states[i + 1] = ApplyTo(states[i], log[i])
    BY DEF SteadyInv
  <2> HIDE DEF L
  <2>5. \A i \in 1..Len(log') : states'[i + 1] = ApplyTo(states'[i], log'[i])
    <3> SUFFICES ASSUME NEW i \in 1..Len(log')
                 PROVE  states'[i + 1] = ApplyTo(states'[i], log'[i])
      OBVIOUS
    <3>1. CASE i = L + 1
      <4>1. i + 1 = L + 2 /\ states'[i] = states[L + 1] /\ log'[i] = c
        BY <2>1, <3>1
      <4> QED BY <2>1, <4>1
    <3>2. CASE i \in 1..L
      <4>1. i \in 1..(L + 1) /\ i + 1 \in 1..(L + 1)
        BY <2>1, <3>2
      <4>2. states[i + 1] = ApplyTo(states[i], log[i])
        BY <2>4, <3>2 DEF L
      <4> QED BY <2>1, <3>2, <4>1, <4>2
    <3> QED BY <2>1, <3>1, <3>2
  <2>6. \A n \in Nodes : db'[n] = states'[applied'[n] + 1]
    BY <2>1, <2>2, <2>3 DEF SteadyInv
  <2> QED BY <1>0, <2>2, <2>5, <2>6 DEF SteadyInv
<1>2. ASSUME NEW n \in Nodes, Apply(n) PROVE SteadyInv'
  <2>1. log' = log /\ states' = states /\ UNCHANGED <<pending, snap, snaps, restarts>>
    BY <1>2 DEF Apply, raftVars
  <2>2. applied[n] + 1 \in 1..Len(log)
    BY <1>2, <1>a DEF Apply
  <2>3. applied'[n] = applied[n] + 1 /\ db'[n] = ApplyTo(db[n], log[applied[n] + 1])
        /\ \A m \in Nodes \ {n} : applied'[m] = applied[m] /\ db'[m] = db[m]
    BY <1>0, <1>2 DEF Apply, TypeOK
  <2>4. db'[n] = states[(applied[n] + 1) + 1]
    BY <2>2, <2>3 DEF SteadyInv
  <2>5. \A m \in Nodes : db'[m] = states'[applied'[m] + 1]
    BY <2>1, <2>3, <2>4 DEF SteadyInv
  <2> QED BY <1>0, <2>1, <2>5 DEF SteadyInv
<1>3. ASSUME NEW n \in Nodes, Snapshot(n) \/ Restart(n) PROVE FALSE
  <2>1. snaps = 0 /\ restarts = 0 /\ ~(0 < 0)
    BY DEF SteadyInv
  <2> QED BY <1>3, <2>1 DEF Snapshot, Restart
<1>4. ASSUME NEW n \in Nodes, NEW m \in Nodes, Persist(n) \/ InstallSnapshot(n, m) PROVE FALSE
  BY <1>4 DEF Persist, InstallSnapshot, SteadyInv
<1>5. CASE UNCHANGED vars
  BY <1>0, <1>5 DEF vars, raftVars, nodeVars, SteadyInv
<1> QED BY <1>1, <1>2, <1>3, <1>4, <1>5 DEF Next

\* While nodes only apply the log, nodes at the same index hold the same data,
\* CAS commands re-evaluated locally included.
THEOREM RaftReplicasAgree ==
    ASSUME MaxSnapshots = 0, MaxRestarts = 0
    PROVE  Spec => []ReplicasAgree
<1>1. Init => SteadyInv
  BY SteadyInit
<1>2. SteadyInv /\ [Next]_vars => SteadyInv'
  BY SteadyStep
<1>3. SteadyInv => ReplicasAgree
  BY DEF SteadyInv, ReplicasAgree
<1> QED BY <1>1, <1>2, <1>3, PTL DEF Spec
=============================================================================
