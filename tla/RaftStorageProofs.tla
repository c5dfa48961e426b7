-------------------------- MODULE RaftStorageProofs -------------------------
(***************************************************************************)
(* Mutate and CompareAndCreate take effect at most once, lose no update    *)
(* and implement an atomic counter, for any nodes, calls, retries,         *)
(* elections and length of the log.                                        *)
(*                                                                         *)
(* The inductive invariant: a replica is a prefix of the log (Replay);     *)
(* every entry was built for the call behind it, whatever its reader saw   *)
(* (Built); and a call proposes again only after its last proposal is      *)
(* known to have changed nothing, so that at most the newest entry of a    *)
(* call is effective (CallOK).                                             *)
(***************************************************************************)
EXTENDS RaftStorage, SequenceTheorems, FiniteSetTheorems, TLAPS

Counters == [Keys -> Nat]

\* The commands a call of kind k may propose.
CallCommands(k) ==
    CASE k = "drop"   -> [op : {"CAS"}, key : {Key}, exp : Nat \ {0}, val : {0}]
      [] k = "create" -> [op : {"CAS_CREATE"}, key : {Key}, val : {Created}]
      [] OTHER        -> [op : {"CAS_CREATE"}, key : {Key}, val : {1}]
                           \cup {c \in [op : {"CAS"}, key : {Key}, exp : Nat \ {0}, val : Nat] :
                                    c.val = c.exp + 1}

AnyCommand == CallCommands("add") \cup CallCommands("drop") \cup CallCommands("create")

Replay ==
    /\ states[1] = Blank
    /\ \A i \in 1..Len(log) : states[i + 1] = ApplyTo(states[i], log[i])
    /\ \A n \in Nodes : db[n] = states[applied[n] + 1]

Built ==
    /\ log \in Seq(AnyCommand)
    /\ \A i \in 1..Len(log) : log[i] \in CallCommands(kind[owner[i]])

CallOK(c) ==
    /\ pc[c] \in {"idle", "read", "propose", "wait"} => attempt[c] < MaxMutateRetries
    /\ pc[c] = "propose" \/ fate[c] \in {"sent", "queued"} => cmd[c] \in CallCommands(kind[c])
    /\ fate[c] \in {"sent", "queued", "refused"} => pc[c] \in {"wait", "failed"}
    /\ fate[c] = "logged" => idx[c] > 0 /\ owner[idx[c]] = c
    /\ \A i \in 1..Len(log) : owner[i] = c /\ Effective(i) =>
          fate[c] = "logged" /\ idx[c] = i /\ pc[c] \in {"wait", "ok", "failed"}
    /\ pc[c] = "ok" => fate[c] = "logged" /\ Effective(idx[c])
    /\ pc[c] = "read" => kind[c] # "create"
    /\ pc[c] = "noop" => kind[c] = "drop"

StorageInv == StorageTypeOK /\ Replay /\ Built /\ \A c \in Calls : CallOK(c)
-----------------------------------------------------------------------------
\* The three shapes of a command, and what makes each of them commit.
LEMMA CommandShape ==
    ASSUME NEW k \in Kinds, NEW c \in CallCommands(k), NEW s \in Counters
    PROVE  /\ c.key = Key /\ c.val \in Nat /\ c.op \in Ops /\ c.op \in {"CAS", "CAS_CREATE"}
           /\ CasMatches(s, c) => /\ c.val = Outcome(k, s[Key]) /\ c.val # s[Key]
                                  /\ k = "drop" => s[Key] > 0
                                  /\ k = "create" => s[Key] = 0
<1> USE RaftStorageAssumption, RaftFSMAssumption
<1>0. s[Key] \in Nat /\ Created \in Nat \ {0}
  BY DEF Counters
<1>1. CASE k = "drop"
  <2>1. c \in [op : {"CAS"}, key : {Key}, exp : Nat \ {0}, val : {0}]
    BY <1>1 DEF CallCommands
  <2>2. c.op = "CAS" /\ c.key = Key /\ c.exp \in Nat \ {0} /\ c.val = 0
    BY <2>1
  <2>3. CasMatches(s, c) => s[Key] = c.exp
    BY <2>2 DEF CasMatches, SameBytes
  <2> QED
    BY <1>0, <1>1, <2>2, <2>3 DEF Outcome
<1>2. CASE k = "create"
  <2>1. c \in [op : {"CAS_CREATE"}, key : {Key}, val : {Created}]
    BY <1>2 DEF CallCommands
  <2>2. c.op = "CAS_CREATE" /\ c.key = Key /\ c.val = Created
    BY <2>1
  <2>3. CasMatches(s, c) => s[Key] = 0
    BY <2>2 DEF CasMatches
  <2> QED
    BY <1>0, <1>2, <2>2, <2>3 DEF Outcome
<1>3. CASE k = "add"
  <2>1. CASE c \in [op : {"CAS_CREATE"}, key : {Key}, val : {1}]
    <3>1. c.op = "CAS_CREATE" /\ c.key = Key /\ c.val = 1
      BY <2>1
    <3>2. CasMatches(s, c) => s[Key] = 0
      BY <3>1 DEF CasMatches
    <3> QED
      BY <1>0, <1>3, <3>1, <3>2 DEF Outcome
  <2>2. CASE c \in [op : {"CAS"}, key : {Key}, exp : Nat \ {0}, val : Nat] /\ c.val = c.exp + 1
    <3>1. c.op = "CAS" /\ c.key = Key /\ c.exp \in Nat \ {0} /\ c.val = c.exp + 1
      BY <2>2
    <3>2. CasMatches(s, c) => s[Key] = c.exp
      BY <3>1 DEF CasMatches, SameBytes
    <3> QED
      BY <1>0, <1>3, <3>1, <3>2 DEF Outcome
  <2> QED
    BY <1>3, <2>1, <2>2 DEF CallCommands
<1> QED
  BY <1>1, <1>2, <1>3 DEF Kinds

\* FSM.Apply of such a command: nothing, or what the call would have done alone.
LEMMA CommandEffect ==
    ASSUME NEW k \in Kinds, NEW c \in CallCommands(k), NEW s \in Counters
    PROVE  /\ ApplyTo(s, c) \in Counters
           /\ ApplyTo(s, c) # s => /\ ApplyTo(s, c)[Key] = Outcome(k, s[Key])
                                   /\ k = "drop" => s[Key] > 0
                                   /\ k = "create" => s[Key] = 0
<1>1. CASE ~ CasMatches(s, c)
  BY <1>1 DEF ApplyTo
<1>2. CASE CasMatches(s, c)
  <2>1. c.key = Key /\ c.val \in Nat /\ c.op \in {"CAS", "CAS_CREATE"}
    BY CommandShape
  <2>2. Target(c) = [r \in {Key} |-> c.val]
    BY <2>1 DEF Target
  <2>3. ApplyTo(s, c) = [r \in Keys |-> IF r = Key THEN c.val ELSE s[r]]
    BY <1>2, <2>2 DEF ApplyTo, Overlay
  <2>4. ApplyTo(s, c) \in Counters
    BY <2>1, <2>3 DEF Counters
  <2>5. ApplyTo(s, c)[Key] = c.val
    BY <2>3, RaftStorageAssumption
  <2> QED
    BY <1>2, <2>4, <2>5, CommandShape
<1> QED
  BY <1>1, <1>2

\* What Mutate and CompareAndCreate propose is of that shape.
LEMMA CommandForShape ==
    ASSUME NEW k \in Kinds \ {"create"}, NEW v \in Nat, k = "drop" => v # 0
    PROVE  CommandFor(k, v) \in CallCommands(k)
<1>1. CASE k = "drop"
  BY <1>1, RaftStorageAssumption DEF CommandFor, CallCommands
<1>2. CASE k = "add" /\ v = 0
  BY <1>2, RaftStorageAssumption DEF CommandFor, CallCommands
<1>3. CASE k = "add" /\ v # 0
  <2>1. CommandFor(k, v) = [op |-> "CAS", key |-> Key, exp |-> v, val |-> v + 1]
    BY <1>3, RaftStorageAssumption DEF CommandFor
  <2>2. v + 1 \in Nat /\ v \in Nat \ {0}
    BY <1>3
  <2> QED
    BY <1>3, <2>1, <2>2 DEF CallCommands
<1> QED
  BY <1>1, <1>2, <1>3 DEF Kinds
-----------------------------------------------------------------------------
LEMMA StorageInvInit == StorageInit => StorageInv
<1> SUFFICES ASSUME StorageInit PROVE StorageInv
  OBVIOUS
<1> USE RaftStorageAssumption, RaftFSMAssumption
<1>1. Blank \in Counters
  BY DEF Blank, Counters
<1>2. log = <<>> /\ owner = <<>> /\ states = <<Blank>>
  BY DEF StorageInit, Init
<1>3. Len(log) = 0 /\ Len(owner) = 0 /\ Len(states) = 1 /\ states[1] = Blank
      /\ owner \in Seq(Calls) /\ states \in Seq(Counters) /\ Index = {0}
  BY <1>1, <1>2 DEF Index
<1>4. db \in [Nodes -> Counters] /\ applied \in [Nodes -> Index]
      /\ \A n \in Nodes : applied[n] = 0 /\ db[n] = Blank
  BY <1>1, <1>3 DEF StorageInit, Init
<1>5. /\ leader \in Nodes /\ elections \in 0..MaxElections
      /\ kind \in [Calls -> Kinds] /\ home \in [Calls -> Nodes] /\ at \in [Calls -> Nodes]
      /\ pc \in [Calls -> Results \cup {"idle", "read", "propose", "wait"}]
      /\ attempt \in [Calls -> 0..MaxMutateRetries]
      /\ fate \in [Calls -> {"none", "sent", "queued", "logged", "refused"}]
      /\ idx \in [Calls -> Index] /\ before \in [Calls -> SUBSET Index] /\ DOMAIN cmd = Calls
  BY <1>3 DEF StorageInit
<1>6. StorageTypeOK
  BY <1>3, <1>4, <1>5 DEF StorageTypeOK, Counters
<1>7. Replay /\ Built
  BY <1>3, <1>4 DEF Replay, Built
<1>8. \A c \in Calls : CallOK(c)
  BY <1>3 DEF StorageInit, CallOK
<1> QED
  BY <1>6, <1>7, <1>8 DEF StorageInv

\* A step of one call that leaves the log alone.
LEMMA CallFrame ==
    ASSUME StorageInv, UNCHANGED <<vars, leader, elections, kind, home, owner>>,
           NEW c \in Calls,
           \A d \in Calls \ {c} : /\ pc'[d] = pc[d] /\ attempt'[d] = attempt[d] /\ cmd'[d] = cmd[d]
                                  /\ fate'[d] = fate[d] /\ idx'[d] = idx[d],
           at' \in [Calls -> Nodes],
           pc' \in [Calls -> Results \cup {"idle", "read", "propose", "wait"}],
           attempt' \in [Calls -> 0..MaxMutateRetries],
           fate' \in [Calls -> {"none", "sent", "queued", "logged", "refused"}],
           idx' \in [Calls -> Index], before' \in [Calls -> SUBSET Index], DOMAIN cmd' = Calls,
           CallOK(c)'
    PROVE  StorageInv'
<1>1. log' = log /\ states' = states /\ applied' = applied /\ db' = db
  BY DEF vars, raftVars, nodeVars
<1>2. StorageTypeOK'
  BY <1>1 DEF StorageInv, StorageTypeOK, Index
<1>3. Replay' /\ Built'
  BY <1>1 DEF StorageInv, Replay, Built
<1>4. ASSUME NEW d \in Calls \ {c} PROVE CallOK(d)'
  <2>1. CallOK(d)
    BY DEF StorageInv
  <2> QED
    BY <1>1, <2>1 DEF CallOK, Effective
<1> QED
  BY <1>2, <1>3, <1>4 DEF StorageInv

\* No entry of the call has changed anything.
Ineffective(c) == \A i \in 1..Len(log) : ~ (owner[i] = c /\ Effective(i))

\* The caller's own steps.
LEMMA CallerStep ==
    ASSUME StorageInv, NEW c \in Calls,
           Start(c) \/ Read(c) \/ Propose(c) \/ Succeed(c) \/ Retry(c) \/ Fail(c)
    PROVE  StorageInv'
<1> USE RaftStorageAssumption
<1>0. StorageTypeOK /\ CallOK(c) /\ kind[c] \in Kinds /\ home[c] \in Nodes /\ Seen(c) \in Nat
  BY DEF StorageInv, StorageTypeOK, Seen
<1>a. /\ at \in [Calls -> Nodes] /\ idx \in [Calls -> Index] /\ DOMAIN cmd = Calls
      /\ pc \in [Calls -> Results \cup {"idle", "read", "propose", "wait"}]
      /\ attempt \in [Calls -> 0..MaxMutateRetries]
      /\ fate \in [Calls -> {"none", "sent", "queued", "logged", "refused"}]
  BY <1>0 DEF StorageTypeOK
<1>b. before' \in [Calls -> SUBSET Index]
  <2>1. before \in [Calls -> SUBSET Index] /\ Acknowledged \subseteq Index
    BY <1>0 DEF StorageTypeOK, Acknowledged
  <2> QED
    BY <2>1 DEF Start, Read, Propose, Succeed, Retry, Fail
<1>1. CASE Start(c)
  <2>1. /\ UNCHANGED <<vars, leader, elections, kind, home, owner, attempt, at, fate, idx>>
        /\ log' = log /\ states' = states
    BY <1>1 DEF Start, proposalVars, vars, raftVars
  <2>2. CASE kind[c] = "create"
    <3>1. /\ pc[c] = "idle" /\ pc' = [pc EXCEPT ![c] = "propose"]
          /\ cmd' = [cmd EXCEPT ![c] = [op |-> "CAS_CREATE", key |-> Key, val |-> Created]]
      BY <1>1, <2>2 DEF Start, Goto
    <3>2. CallOK(c)'
      <4>1. cmd'[c] \in CallCommands(kind[c])
        BY <1>a, <2>2, <3>1 DEF CallCommands
      <4> QED
        BY <1>0, <1>a, <2>1, <2>2, <3>1, <4>1 DEF CallOK, Effective
    <3> QED
      BY <1>a, <1>b, <2>1, <3>1, <3>2, CallFrame DEF Results
  <2>3. CASE kind[c] # "create"
    <3>1. pc[c] = "idle" /\ pc' = [pc EXCEPT ![c] = "read"] /\ cmd' = cmd
      BY <1>1, <2>3 DEF Start, Goto
    <3>2. CallOK(c)'
      BY <1>0, <1>a, <2>1, <2>3, <3>1 DEF CallOK, Effective
    <3> QED
      BY <1>a, <1>b, <2>1, <3>1, <3>2, CallFrame DEF Results
  <2> QED
    BY <2>2, <2>3
<1>2. CASE Read(c)
  <2>1. /\ UNCHANGED <<vars, leader, elections, kind, home, owner, attempt, at, fate, idx>>
        /\ log' = log /\ states' = states
    BY <1>2 DEF Read, proposalVars, vars, raftVars
  <2>2. CASE kind[c] = "drop" /\ Seen(c) = Absent
    <3>1. pc[c] = "read" /\ pc' = [pc EXCEPT ![c] = "noop"] /\ cmd' = cmd
      BY <1>2, <2>2 DEF Read, Goto
    <3>2. CallOK(c)'
      BY <1>0, <1>a, <2>1, <2>2, <3>1 DEF CallOK, Effective
    <3> QED
      BY <1>a, <1>b, <2>1, <3>1, <3>2, CallFrame DEF Results
  <2>3. CASE ~ (kind[c] = "drop" /\ Seen(c) = Absent)
    <3>1. /\ pc[c] = "read" /\ pc' = [pc EXCEPT ![c] = "propose"]
          /\ cmd' = [cmd EXCEPT ![c] = CommandFor(kind[c], Seen(c))]
      BY <1>2, <2>3 DEF Read, Goto
    <3>2. CommandFor(kind[c], Seen(c)) \in CallCommands(kind[c])
      BY <1>0, <2>3, <3>1, CommandForShape DEF CallOK
    <3>3. CallOK(c)'
      <4>1. cmd'[c] \in CallCommands(kind[c])
        BY <1>a, <3>1, <3>2
      <4> QED
        BY <1>0, <1>a, <2>1, <3>1, <4>1 DEF CallOK, Effective
    <3> QED
      BY <1>a, <1>b, <2>1, <3>1, <3>3, CallFrame DEF Results
  <2> QED
    BY <2>2, <2>3
<1>3. CASE Propose(c)
  <2>1. /\ UNCHANGED <<vars, leader, elections, kind, home, owner, attempt, cmd, idx>>
        /\ log' = log /\ states' = states /\ pc[c] = "propose"
    BY <1>3 DEF Propose, vars, raftVars
  <2>2. CASE pc' = [pc EXCEPT ![c] = "failed"] /\ UNCHANGED <<at, fate>>
    <3>1. CallOK(c)'
      BY <1>0, <1>a, <2>1, <2>2 DEF CallOK, Effective
    <3> QED
      BY <1>a, <1>b, <2>1, <2>2, <3>1, CallFrame DEF Results
  <2>3. ASSUME NEW n \in Nodes, NEW f \in {"queued", "sent"},
               pc' = [pc EXCEPT ![c] = "wait"], at' = [at EXCEPT ![c] = n],
               fate' = [fate EXCEPT ![c] = f]
        PROVE  StorageInv'
    <3>1. CallOK(c)'
      BY <1>0, <1>a, <2>1, <2>3 DEF CallOK, Effective
    <3> QED
      BY <1>a, <1>b, <2>1, <2>3, <3>1, CallFrame DEF Results
  <2>4. leader \in Nodes
    BY <1>0 DEF StorageTypeOK
  <2> QED
    BY <1>3, <2>2, <2>3, <2>4 DEF Propose, Goto
<1>4. CASE Succeed(c)
  <2>1. /\ UNCHANGED <<vars, leader, elections, kind, home, owner, attempt, cmd, at, fate, idx>>
        /\ log' = log /\ states' = states
        /\ pc[c] = "wait" /\ pc' = [pc EXCEPT ![c] = "ok"]
        /\ fate[c] = "logged" /\ Effective(idx[c])
    BY <1>4 DEF Succeed, Applied, proposalVars, vars, raftVars, Goto
  <2>2. CallOK(c)'
    BY <1>0, <1>a, <2>1 DEF CallOK, Effective
  <2> QED
    BY <1>a, <1>b, <2>1, <2>2, CallFrame DEF Results
<1>5. CASE Retry(c)
  <2>1. /\ UNCHANGED <<vars, leader, elections, kind, home, owner, cmd, at, fate, idx>>
        /\ log' = log /\ states' = states
        /\ pc[c] = "wait" /\ fate[c] = "logged" /\ ~ Effective(idx[c])
    BY <1>5 DEF Retry, Applied, proposalVars, vars, raftVars
  <2>2. Ineffective(c)
    BY <1>0, <2>1 DEF CallOK, Ineffective
  <2>3. CASE kind[c] = "create"
    <3>1. pc' = [pc EXCEPT ![c] = "failed"] /\ attempt' = attempt
      BY <1>5, <2>3 DEF Retry, Goto
    <3>2. CallOK(c)'
      BY <1>0, <1>a, <2>1, <3>1 DEF CallOK, Effective
    <3> QED
      BY <1>a, <1>b, <2>1, <3>1, <3>2, CallFrame DEF Results
  <2>4. CASE kind[c] # "create"
    <3>1. /\ attempt' = [attempt EXCEPT ![c] = attempt[c] + 1]
          /\ pc' = [pc EXCEPT ![c] = IF attempt[c] + 1 < MaxMutateRetries THEN "read" ELSE "exhausted"]
      BY <1>5, <2>4 DEF Retry, Goto
    <3>2. attempt[c] \in 0..MaxMutateRetries /\ attempt[c] < MaxMutateRetries
      BY <1>0, <1>a, <2>1 DEF CallOK
    <3>3. attempt' \in [Calls -> 0..MaxMutateRetries] /\ attempt'[c] = attempt[c] + 1
      BY <1>a, <3>1, <3>2
    <3>4. /\ pc' \in [Calls -> Results \cup {"idle", "read", "propose", "wait"}]
          /\ pc'[c] \in {"read", "exhausted"}
          /\ pc'[c] = "read" => attempt'[c] < MaxMutateRetries
      BY <1>a, <3>1, <3>3 DEF Results
    <3>5. CallOK(c)'
      BY <1>0, <2>1, <2>2, <2>4, <3>4 DEF CallOK, Effective, Ineffective
    <3> QED
      BY <1>a, <1>b, <2>1, <3>1, <3>3, <3>4, <3>5, CallFrame
  <2> QED
    BY <2>3, <2>4
<1>6. CASE Fail(c)
  <2>1. /\ UNCHANGED <<vars, leader, elections, kind, home, owner, attempt, cmd, at, fate, idx>>
        /\ log' = log /\ states' = states
        /\ pc[c] = "wait" /\ pc' = [pc EXCEPT ![c] = "failed"]
    BY <1>6 DEF Fail, proposalVars, vars, raftVars, Goto
  <2>2. CallOK(c)'
    BY <1>0, <1>a, <2>1 DEF CallOK, Effective
  <2> QED
    BY <1>a, <1>b, <2>1, <2>2, CallFrame DEF Results
<1> QED
  BY <1>1, <1>2, <1>3, <1>4, <1>5, <1>6

\* A proposal on its way to the leader.
LEMMA TransitStep ==
    ASSUME StorageInv, NEW c \in Calls, Receive(c) \/ Lose(c)
    PROVE  StorageInv'
<1>1. PICK f \in {"queued", "refused"} : fate' = [fate EXCEPT ![c] = f]
  BY DEF Receive, Lose
<1>2. /\ UNCHANGED <<vars, leader, elections, kind, home, before, owner, pc, attempt, cmd, at, idx>>
      /\ log' = log /\ states' = states /\ fate[c] \in {"sent", "queued"}
  BY DEF Receive, Lose, callVars, vars, raftVars
<1>3. StorageTypeOK /\ CallOK(c)
  BY DEF StorageInv
<1>4. CallOK(c)'
  BY <1>1, <1>2, <1>3 DEF CallOK, Effective, StorageTypeOK
<1> QED
  BY <1>1, <1>2, <1>3, <1>4, CallFrame DEF StorageTypeOK

\* The log grows by one entry, and what was there stays.
LEMMA CommitGrows ==
    ASSUME StorageInv, NEW c \in Calls, CommitProposal(c)
    PROVE  /\ Len(log) \in Nat /\ Len(log') = Len(log) + 1 /\ Len(log') <= MaxLog
           /\ log' \in Seq(AnyCommand)
           /\ \A i \in 1..Len(log) : log'[i] = log[i] /\ owner'[i] = owner[i]
           /\ log'[Len(log) + 1] = cmd[c] /\ owner'[Len(log) + 1] = c
           /\ \A i \in 1..(Len(log) + 1) : states'[i] = states[i] /\ states[i] \in Counters
           /\ states'[Len(log) + 2] = ApplyTo(states[Len(log) + 1], cmd[c])
           /\ states'[Len(log) + 2] \in Counters
           /\ Len(states') = Len(log) + 2 /\ states' \in Seq(Counters)
           /\ owner' \in Seq(Calls) /\ Len(owner') = Len(log) + 1
           /\ cmd[c] \in CallCommands(kind[c]) /\ kind[c] \in Kinds
<1> DEFINE L == Len(log)
           s == ApplyTo(states[L + 1], cmd[c])
<1>1. /\ L \in Nat /\ L < MaxLog /\ log' = Append(log, cmd[c])
      /\ states' = Append(states, s) /\ owner' = Append(owner, c)
  BY DEF CommitProposal, Commit, StorageInv, StorageTypeOK
<1>2. /\ states \in Seq(Counters) /\ Len(states) = L + 1
      /\ owner \in Seq(Calls) /\ Len(owner) = L /\ kind[c] \in Kinds
  BY DEF StorageInv, StorageTypeOK, Counters
<1>3. cmd[c] \in CallCommands(kind[c])
  BY DEF StorageInv, CallOK, CommitProposal
<1>4. states[L + 1] \in Counters
  BY <1>1, <1>2
<1>5. s \in Counters
  BY <1>2, <1>3, <1>4, CommandEffect
<1>6. log \in Seq(AnyCommand) /\ cmd[c] \in AnyCommand
  BY <1>2, <1>3 DEF StorageInv, Built, AnyCommand, Kinds
<1> HIDE DEF L, s
<1>7. /\ Len(log') = L + 1 /\ log'[L + 1] = cmd[c] /\ \A i \in 1..L : log'[i] = log[i]
      /\ log' \in Seq(AnyCommand)
  BY <1>1, <1>6, AppendProperties DEF L
<1>8. /\ Len(owner') = L + 1 /\ owner'[L + 1] = c /\ \A i \in 1..L : owner'[i] = owner[i]
      /\ owner' \in Seq(Calls)
  BY <1>1, <1>2, AppendProperties
<1>9. /\ Len(states') = (L + 1) + 1 /\ states'[(L + 1) + 1] = s
      /\ \A i \in 1..(L + 1) : states'[i] = states[i]
      /\ states' \in Seq(Counters)
  BY <1>1, <1>2, <1>5, AppendProperties
<1>10. \A i \in 1..(L + 1) : states[i] \in Counters
  BY <1>2
<1>11. (L + 1) + 1 = L + 2 /\ L + 1 <= MaxLog
  BY <1>1, RaftFSMAssumption
<1> QED
  BY <1>1, <1>2, <1>3, <1>5, <1>7, <1>8, <1>9, <1>10, <1>11 DEF L, s

\* CommandFor's entry reaches the log.
LEMMA CommitStep ==
    ASSUME StorageInv, NEW c \in Calls, CommitProposal(c)
    PROVE  StorageInv'
<1> DEFINE L == Len(log)
<1>0. StorageTypeOK /\ Replay /\ Built /\ \A d \in Calls : CallOK(d)
  BY DEF StorageInv
<1>1. /\ L \in Nat /\ Len(log') = L + 1 /\ Len(log') <= MaxLog
      /\ log' \in Seq(AnyCommand)
      /\ \A i \in 1..L : log'[i] = log[i] /\ owner'[i] = owner[i]
      /\ log'[L + 1] = cmd[c] /\ owner'[L + 1] = c
      /\ \A i \in 1..(L + 1) : states'[i] = states[i]
      /\ states'[L + 2] = ApplyTo(states[L + 1], cmd[c])
      /\ Len(states') = L + 2 /\ states' \in Seq(Counters)
      /\ owner' \in Seq(Calls) /\ Len(owner') = L + 1
      /\ cmd[c] \in CallCommands(kind[c])
  BY CommitGrows
<1>2. /\ UNCHANGED <<leader, elections, kind, home, before, pc, attempt, cmd, at, applied, db>>
      /\ fate[c] = "queued" /\ fate' = [fate EXCEPT ![c] = "logged"]
      /\ idx' = [idx EXCEPT ![c] = L + 1]
  BY DEF CommitProposal, Commit, callVars, nodeVars
<1> HIDE DEF L
<1>3. Index \subseteq Index' /\ L + 1 \in Index' /\ Index = 0..L
  BY <1>1 DEF Index, L
<1>4. StorageTypeOK'
  <2>1. /\ applied' \in [Nodes -> Index'] /\ idx' \in [Calls -> Index']
        /\ fate' \in [Calls -> {"none", "sent", "queued", "logged", "refused"}]
    BY <1>0, <1>2, <1>3 DEF StorageTypeOK
  <2>2. Len(log') \in 0..MaxLog /\ Len(states') = Len(log') + 1
    BY <1>1, RaftFSMAssumption
  <2>3. before' \in [Calls -> SUBSET Index']
    BY <1>0, <1>2, <1>3 DEF StorageTypeOK
  <2> QED
    BY <1>0, <1>1, <1>2, <2>1, <2>2, <2>3 DEF StorageTypeOK, Counters
<1>5. Replay'
  <2>1. \A i \in 1..L : states[i + 1] = ApplyTo(states[i], log[i])
    BY <1>0 DEF Replay, L
  <2>2. \A i \in 1..Len(log') : states'[i + 1] = ApplyTo(states'[i], log'[i])
    <3> SUFFICES ASSUME NEW i \in 1..(L + 1)
                 PROVE  states'[i + 1] = ApplyTo(states'[i], log'[i])
      BY <1>1
    <3>1. CASE i = L + 1
      BY <1>1, <3>1
    <3>2. CASE i # L + 1
      <4>1. i \in 1..L /\ i \in 1..(L + 1) /\ i + 1 \in 1..(L + 1)
        BY <1>1, <3>2
      <4> QED
        BY <1>1, <2>1, <4>1
    <3> QED
      BY <3>1, <3>2
  <2>3. \A n \in Nodes : db'[n] = states'[applied'[n] + 1]
    <3>1. \A n \in Nodes : applied[n] \in 0..L
      BY <1>0, <1>3 DEF StorageTypeOK
    <3>2. \A n \in Nodes : applied[n] + 1 \in 1..(L + 1)
      BY <1>1, <3>1
    <3> QED
      BY <1>0, <1>1, <1>2, <3>2 DEF Replay
  <2>4. states'[1] = Blank
    BY <1>0, <1>1 DEF Replay
  <2> QED
    BY <2>2, <2>3, <2>4 DEF Replay
<1>6. Built'
  <2>2. \A i \in 1..L : log[i] \in CallCommands(kind[owner[i]])
    BY <1>0 DEF Built, L
  <2>3. \A i \in 1..(L + 1) : i = L + 1 \/ i \in 1..L
    BY <1>1
  <2>4. \A i \in 1..Len(log') : log'[i] \in CallCommands(kind'[owner'[i]])
    BY <1>1, <1>2, <2>2, <2>3
  <2> QED
    BY <1>1, <2>4 DEF Built
<1>7. \A i \in 1..L : Effective(i)' <=> Effective(i)
  BY <1>1 DEF Effective
<1>8. ASSUME NEW d \in Calls PROVE CallOK(d)'
  <2>1. CallOK(d)
    BY <1>0
  <2>2. \A i \in 1..Len(log') : i \in 1..L \/ i = L + 1
    BY <1>1
  <2>3. CASE d # c
    <3>1. pc'[d] = pc[d] /\ fate'[d] = fate[d] /\ idx'[d] = idx[d]
      BY <1>0, <1>2, <2>3 DEF StorageTypeOK
    <3>2. \A i \in 1..Len(log') : owner'[i] = d /\ Effective(i)' => owner[i] = d /\ Effective(i) /\ i \in 1..L
      BY <1>1, <1>7, <2>2, <2>3
    <3>3. fate[d] = "logged" => idx[d] \in 1..L
      BY <1>0, <1>1, <1>3, <2>1 DEF StorageTypeOK, CallOK
    <3>4. pc[d] = "ok" => states'[idx[d] + 1] # states'[idx[d]]
      <4>1. \A i \in 1..L : Effective(i) => states'[i + 1] # states'[i]
        BY <1>7 DEF Effective
      <4> QED
        BY <2>1, <3>3, <4>1 DEF CallOK
    <3>5. fate[d] = "logged" => idx[d] > 0 /\ owner'[idx[d]] = d
      BY <1>1, <2>1, <3>3 DEF CallOK
    <3>6. \A i \in 1..Len(log') : owner'[i] = d /\ Effective(i)' =>
             fate[d] = "logged" /\ idx[d] = i /\ pc[d] \in {"wait", "ok", "failed"}
      BY <2>1, <3>2 DEF CallOK, L
    <3>7. /\ pc[d] \in {"idle", "read", "propose", "wait"} => attempt[d] < MaxMutateRetries
          /\ pc[d] = "propose" \/ fate[d] \in {"sent", "queued"} => cmd[d] \in CallCommands(kind[d])
          /\ fate[d] \in {"sent", "queued", "refused"} => pc[d] \in {"wait", "failed"}
          /\ pc[d] = "ok" => fate[d] = "logged"
          /\ pc[d] = "read" => kind[d] # "create"
          /\ pc[d] = "noop" => kind[d] = "drop"
      BY <2>1 DEF CallOK
    <3> QED
      BY <1>2, <3>1, <3>4, <3>5, <3>6, <3>7 DEF CallOK, Effective
  <2>4. CASE d = c
    <3>1. pc[c] \in {"wait", "failed"} /\ fate'[c] = "logged" /\ idx'[c] = L + 1
      BY <1>0, <1>2, <2>1, <2>4 DEF StorageTypeOK, CallOK
    <3>2. \A i \in 1..L : ~ (owner[i] = c /\ Effective(i))
      BY <1>2, <2>1, <2>4 DEF CallOK, L
    <3>3. \A i \in 1..Len(log') : owner'[i] = c /\ Effective(i)' => i = L + 1
      BY <1>1, <1>7, <2>2, <3>2
    <3>4. /\ pc[c] \in {"idle", "read", "propose", "wait"} => attempt[c] < MaxMutateRetries
      BY <2>1, <2>4 DEF CallOK
    <3> QED
      BY <1>1, <1>2, <2>4, <3>1, <3>3, <3>4 DEF CallOK
  <2> QED
    BY <2>3, <2>4
<1> QED
  BY <1>4, <1>5, <1>6, <1>8 DEF StorageInv

\* A node applies the next entry, a new leader is elected.
LEMMA NodeStep ==
    ASSUME StorageInv, NEW n \in Nodes, ApplyEntry(n) \/ Elect(n)
    PROVE  StorageInv'
<1>0. StorageTypeOK /\ Replay /\ Built /\ \A d \in Calls : CallOK(d)
  BY DEF StorageInv
<1>1. /\ UNCHANGED <<log, states, kind, home, pc, attempt, cmd, at, fate, idx, owner, before>>
      /\ leader' \in Nodes /\ elections' \in 0..MaxElections
  BY <1>0, RaftStorageAssumption
     DEF ApplyEntry, Apply, Elect, StorageTypeOK, callVars, proposalVars, vars, raftVars
<1>2. \A d \in Calls : CallOK(d)'
  BY <1>0, <1>1 DEF CallOK, Effective
<1>3. Built'
  BY <1>0, <1>1 DEF Built
<1>4. CASE Elect(n)
  <2>1. UNCHANGED <<applied, db>>
    BY <1>4 DEF Elect, vars, nodeVars
  <2>2. StorageTypeOK' /\ Replay'
    BY <1>0, <1>1, <2>1 DEF StorageTypeOK, Replay, Index
  <2> QED
    BY <1>2, <1>3, <2>2 DEF StorageInv
<1>5. CASE ApplyEntry(n)
  <2>1. /\ applied[n] < Len(log) /\ applied' = [applied EXCEPT ![n] = @ + 1]
        /\ db' = [db EXCEPT ![n] = ApplyTo(@, log[applied[n] + 1])]
    BY <1>5 DEF ApplyEntry, Apply
  <2>a. applied[n] \in Nat /\ Len(log) \in Nat /\ Len(states) = Len(log) + 1
    BY <1>0, RaftFSMAssumption DEF StorageTypeOK, Index
  <2>2. applied[n] \in Nat /\ Len(log) \in Nat /\ applied[n] + 1 \in 1..Len(log)
        /\ applied[n] + 1 \in Index /\ (applied[n] + 1) + 1 \in 1..Len(states)
    BY <2>1, <2>a DEF Index
  <2>3. db'[n] = states[(applied[n] + 1) + 1] /\ applied'[n] = applied[n] + 1
        /\ \A m \in Nodes \ {n} : applied'[m] = applied[m] /\ db'[m] = db[m]
    BY <1>0, <2>1, <2>2 DEF StorageTypeOK, Replay
  <2>4. states[(applied[n] + 1) + 1] \in Counters
    BY <1>0, <2>2 DEF StorageTypeOK, Counters
  <2>5. db' \in [Nodes -> Counters] /\ applied' \in [Nodes -> Index]
    BY <1>0, <2>1, <2>2, <2>3, <2>4 DEF StorageTypeOK, Counters
  <2>6. StorageTypeOK'
    BY <1>0, <1>1, <2>5 DEF StorageTypeOK, Index, Counters
  <2>7. Replay'
    BY <1>0, <1>1, <2>3 DEF Replay
  <2> QED
    BY <1>2, <1>3, <2>6, <2>7 DEF StorageInv
<1> QED
  BY <1>4, <1>5

\* The invariant is inductive.
LEMMA StorageInvStep == StorageInv /\ [StorageNext]_storageVars => StorageInv'
<1> SUFFICES ASSUME StorageInv, [StorageNext]_storageVars PROVE StorageInv'
  OBVIOUS
<1>1. CASE UNCHANGED storageVars
  <2>1. UNCHANGED <<log, states, applied, db, leader, elections, kind, home, before, pc,
                    attempt, cmd, at, fate, idx, owner>>
    BY <1>1 DEF storageVars, vars, raftVars, nodeVars, callVars, proposalVars
  <2>2. StorageTypeOK'
    BY <2>1 DEF StorageInv, StorageTypeOK, Index
  <2>3. Replay' /\ Built'
    BY <2>1 DEF StorageInv, Replay, Built
  <2>4. ASSUME NEW c \in Calls PROVE CallOK(c)'
    BY <2>1 DEF StorageInv, CallOK, Effective
  <2> QED
    BY <2>2, <2>3, <2>4 DEF StorageInv
<1>2. CASE StorageNext
  BY <1>2, CallerStep, TransitStep, CommitStep, NodeStep DEF StorageNext, CallStep, RaftStep
<1> QED
  BY <1>1, <1>2

LEMMA StorageInvariant == StorageSafety => []StorageInv
  BY StorageInvInit, StorageInvStep, PTL DEF StorageSafety

\* Rows stay counters, the log and its owners keep step, and the retry loop of
\* Mutate stays within its bound.
THEOREM StorageTypeCorrect == StorageSafety => []StorageTypeOK
<1>1. StorageInv => StorageTypeOK
  BY DEF StorageInv
<1> QED
  BY <1>1, StorageInvariant, PTL

\* Nodes of a cluster under Mutate and CompareAndCreate that have applied the
\* same entries hold the same rows.
THEOREM StorageReplicasAgree == StorageSafety => []ReplicasAgree
<1>1. StorageInv => ReplicasAgree
  BY DEF StorageInv, Replay, ReplicasAgree
<1> QED
  BY <1>1, StorageInvariant, PTL

\* Entry i is a command of its owner on a counter row.
LEMMA EntryEffect ==
    ASSUME StorageInv, NEW i \in 1..Len(log)
    PROVE  /\ owner[i] \in Calls /\ states[i] \in Counters /\ states[i + 1] \in Counters
           /\ Effective(i) => states[i + 1][Key] = Outcome(kind[owner[i]], states[i][Key])
<1>1. /\ Len(log) \in Nat /\ states \in Seq(Counters) /\ Len(states) = Len(log) + 1
      /\ owner \in Seq(Calls) /\ Len(owner) = Len(log) /\ kind \in [Calls -> Kinds]
  BY DEF StorageInv, StorageTypeOK, Counters
<1>2. owner[i] \in Calls /\ states[i] \in Counters /\ states[i + 1] \in Counters
  BY <1>1
<1>3. log[i] \in CallCommands(kind[owner[i]]) /\ states[i + 1] = ApplyTo(states[i], log[i])
  BY DEF StorageInv, Built, Replay
<1> QED
  BY <1>1, <1>2, <1>3, CommandEffect DEF Effective

\* raftstorage.go: between a Mutate's read and its CAS the row may have been
\* changed by others, and the replica read may have lagged; the update that is
\* stored is right all the same.
THEOREM StorageNoLostUpdate == StorageSafety => []NoLostUpdate
<1>1. StorageInv => NoLostUpdate
  BY EntryEffect DEF NoLostUpdate
<1> QED
  BY <1>1, StorageInvariant, PTL

\* raftstorage.go: retries, forwarding, elections and answers that never come
\* make a call take effect at most once, and success means once.
THEOREM StorageAtMostOnce == StorageSafety => []AtMostOnce
<1>1. ASSUME StorageInv, NEW c \in Calls
      PROVE  /\ Cardinality(EffectiveEntries(c)) <= 1
             /\ pc[c] = "ok" => Cardinality(EffectiveEntries(c)) = 1
             /\ pc[c] \in {"idle", "noop", "exhausted"} => EffectiveEntries(c) = {}
  <2>0. StorageTypeOK /\ CallOK(c)
    BY <1>1 DEF StorageInv
  <2>1. EffectiveEntries(c) \subseteq {idx[c]}
    BY <2>0 DEF CallOK, EffectiveEntries
  <2>2. Cardinality({idx[c]}) = 1 /\ Cardinality({}) = 0
    BY FS_Singleton, FS_EmptySet
  <2>3. EffectiveEntries(c) = {} \/ EffectiveEntries(c) = {idx[c]}
    BY <2>1
  <2>4. pc[c] = "ok" => idx[c] \in EffectiveEntries(c)
    <3>1. idx[c] \in 0..Len(log) /\ Len(log) \in Nat
      BY <2>0 DEF StorageTypeOK, Index
    <3> QED
      BY <2>0, <3>1 DEF CallOK, EffectiveEntries
  <2>5. pc[c] \in {"idle", "noop", "exhausted"} => EffectiveEntries(c) = {}
    BY <2>0 DEF CallOK, EffectiveEntries
  <2> QED
    BY <2>2, <2>3, <2>4, <2>5
<1>2. StorageInv => AtMostOnce
  BY <1>1 DEF AtMostOnce
<1> QED
  BY <1>2, StorageInvariant, PTL
-----------------------------------------------------------------------------
(* The refinement.  The abstract counter is the row after the whole log;   *)
(* a call takes effect when an effective entry of it is committed, before  *)
(* any replica has applied it.                                             *)

Took(c) == EffectiveEntries(c) # {}
Value == states[Len(states)][Key]

\* A step that adds no entry leaves the counter and the effects alone.
LEMMA SameLogSameEffects ==
    ASSUME UNCHANGED <<log, states, owner>>
    PROVE  Value' = Value /\ \A c \in Calls : Took(c)' = Took(c)
  BY DEF Value, Took, EffectiveEntries, Effective

LEMMA RefinesInit == StorageInit => Abstract!Init
<1> SUFFICES ASSUME StorageInit PROVE Abstract!Init
  OBVIOUS
<1>1. log = <<>> /\ states = <<Blank>> /\ Len(log) = 0 /\ Len(states) = 1
  BY DEF StorageInit, Init
<1>2. states[Len(states)][Key] = 0
  BY <1>1, RaftStorageAssumption DEF Blank
<1>3. [c \in Calls |-> Status(c)] = [c \in Calls |-> "idle"]
  BY DEF StorageInit, Status
<1>4. [c \in Calls |-> EffectiveEntries(c) # {}] = [c \in Calls |-> FALSE]
  <2>1. 1..Len(log) = {}
    BY <1>1
  <2>2. \A c \in Calls : EffectiveEntries(c) = {}
    BY <2>1 DEF EffectiveEntries
  <2> QED
    BY <2>2
<1>5. kind \in [Calls -> Abstract!Kinds]
  BY DEF StorageInit, Kinds, Abstract!Kinds
<1> QED
  BY <1>2, <1>3, <1>4, <1>5 DEF Abstract!Init

\* What the abstract actions ask for, said of the mapped state.
LEMMA RefinesBegin ==
    ASSUME UNCHANGED <<log, states, owner, kind>>, NEW c \in Calls,
           Status(c) = "idle", Status(c)' = "open",
           \A d \in Calls \ {c} : Status(d)' = Status(d)
    PROVE  Abstract!Begin(c)
<1>1. Value' = Value /\ \A d \in Calls : Took(d)' = Took(d)
  BY SameLogSameEffects
<1>2. [d \in Calls |-> Status(d)]' = [[d \in Calls |-> Status(d)] EXCEPT ![c] = "open"]
  OBVIOUS
<1>3. [d \in Calls |-> EffectiveEntries(d) # {}]' = [d \in Calls |-> EffectiveEntries(d) # {}]
  BY <1>1 DEF Took
<1> QED
  BY <1>1, <1>2, <1>3 DEF Abstract!Begin, Value

LEMMA RefinesReturn ==
    ASSUME UNCHANGED <<log, states, owner, kind>>, NEW c \in Calls, NEW s \in {"ok", "withdrawn", "failed"},
           Status(c) = "open", Status(c)' = s,
           s = "ok" => Took(c), s = "withdrawn" => kind[c] = "drop" /\ ~ Took(c),
           \A d \in Calls \ {c} : Status(d)' = Status(d)
    PROVE  Abstract!Return(c, s)
<1>1. Value' = Value /\ \A d \in Calls : Took(d)' = Took(d)
  BY SameLogSameEffects
<1>2. [d \in Calls |-> Status(d)]' = [[d \in Calls |-> Status(d)] EXCEPT ![c] = s]
  OBVIOUS
<1>3. [d \in Calls |-> EffectiveEntries(d) # {}]' = [d \in Calls |-> EffectiveEntries(d) # {}]
  BY <1>1 DEF Took
<1> QED
  BY <1>1, <1>2, <1>3 DEF Abstract!Return, Value, Took

LEMMA RefinesStutter ==
    ASSUME UNCHANGED <<log, states, owner, kind>>,
           \A d \in Calls : Status(d)' = Status(d)
    PROVE  UNCHANGED Abstract!vars
<1>1. Value' = Value /\ \A d \in Calls : Took(d)' = Took(d)
  BY SameLogSameEffects
<1>2. [d \in Calls |-> Status(d)]' = [d \in Calls |-> Status(d)]
  OBVIOUS
<1>3. [d \in Calls |-> EffectiveEntries(d) # {}]' = [d \in Calls |-> EffectiveEntries(d) # {}]
  BY <1>1 DEF Took
<1> QED
  BY <1>1, <1>2, <1>3 DEF Abstract!vars, Value

\* A committed entry takes effect for its call, or changes nothing.
LEMMA RefinesCommit ==
    ASSUME StorageInv, NEW c \in Calls, CommitProposal(c)
    PROVE  Abstract!TakeEffect(c) \/ UNCHANGED Abstract!vars
<1> DEFINE L == Len(log)
<1>1. /\ L \in Nat /\ Len(log') = L + 1
      /\ \A i \in 1..L : owner'[i] = owner[i]
      /\ owner'[L + 1] = c
      /\ \A i \in 1..(L + 1) : states'[i] = states[i] /\ states[i] \in Counters
      /\ states'[L + 2] = ApplyTo(states[L + 1], cmd[c])
      /\ Len(states') = L + 2
      /\ cmd[c] \in CallCommands(kind[c]) /\ kind[c] \in Kinds
  BY CommitGrows
<1>2. Len(states) = L + 1
  BY DEF StorageInv, StorageTypeOK
<1>3. UNCHANGED <<kind, pc>> /\ fate[c] = "queued"
  BY DEF CommitProposal, callVars
<1> HIDE DEF L
<1>4. CallOK(c)
  BY DEF StorageInv
<1>5. Value = states[L + 1][Key] /\ Value' = states'[L + 2][Key]
  BY <1>1, <1>2 DEF Value
<1>6. \A d \in Calls : Status(d)' = Status(d)
  BY <1>3 DEF Status
<1>7. [d \in Calls |-> Status(d)]' = [d \in Calls |-> Status(d)]
  BY <1>6
<1>8. ~ Took(c) /\ Status(c) \in {"open", "failed"}
  BY <1>3, <1>4 DEF CallOK, Took, EffectiveEntries, Status
<1>9. \A i \in 1..L : i \in 1..(L + 1) /\ i + 1 \in 1..(L + 1)
  BY <1>1
<1>10. \A i \in 1..L : Effective(i)' <=> Effective(i)
  BY <1>1, <1>9 DEF Effective
<1>11. \A i \in 1..(L + 1) : i \in 1..L \/ i = L + 1
  BY <1>1
<1>12. \A d \in Calls : Took(d)' <=> Took(d) \/ (d = c /\ states'[L + 2] # states[L + 1])
  <2> SUFFICES ASSUME NEW d \in Calls
               PROVE  (\E i \in 1..(L + 1) : owner'[i] = d /\ Effective(i)')
                         <=> \/ \E i \in 1..L : owner[i] = d /\ Effective(i)
                             \/ d = c /\ states'[L + 2] # states[L + 1]
    BY <1>1 DEF Took, EffectiveEntries, L
  <2>1. L + 1 \in 1..(L + 1) /\ (L + 1) + 1 = L + 2
    BY <1>1
  <2>2. \A i \in 1..(L + 1) : i = L + 1 => (Effective(i)' <=> states'[L + 2] # states[L + 1])
    BY <1>1, <2>1 DEF Effective
  <2> QED
    BY <1>1, <1>9, <1>10, <1>11, <2>1, <2>2
<1>13. CASE states'[L + 2] = states[L + 1]
  <2>1. \A d \in Calls : Took(d)' <=> Took(d)
    BY <1>12, <1>13
  <2>2. [d \in Calls |-> EffectiveEntries(d) # {}]' = [d \in Calls |-> EffectiveEntries(d) # {}]
    BY <2>1 DEF Took
  <2>3. Value' = Value
    BY <1>5, <1>13
  <2> QED
    BY <1>3, <1>7, <2>2, <2>3 DEF Abstract!vars, Value
<1>14. CASE states'[L + 2] # states[L + 1]
  <2>1. states[L + 1] \in Counters
    BY <1>1
  <2>2. /\ states'[L + 2][Key] = Outcome(kind[c], states[L + 1][Key])
        /\ kind[c] = "drop" => states[L + 1][Key] > 0
        /\ kind[c] = "create" => states[L + 1][Key] = 0
    BY <1>1, <1>14, <2>1, CommandEffect
  <2>3. Abstract!CanTake(kind[c], Value) /\ Value' = Abstract!Effect(kind[c], Value)
    BY <1>5, <2>2 DEF Abstract!CanTake, Abstract!Effect, Outcome
  <2>4. \A d \in Calls : Took(d)' <=> (IF d = c THEN TRUE ELSE Took(d))
    BY <1>12, <1>14
  <2>5. [d \in Calls |-> EffectiveEntries(d) # {}]'
           = [[d \in Calls |-> EffectiveEntries(d) # {}] EXCEPT ![c] = TRUE]
    BY <2>4, Zenon DEF Took
  <2> QED
    BY <1>3, <1>7, <1>8, <2>3, <2>5 DEF Abstract!TakeEffect, Value, Took
<1> QED
  BY <1>13, <1>14

\* Every step of the cluster is a step of the counter or none.
LEMMA RefinesStep ==
    ASSUME StorageInv, [StorageNext]_storageVars
    PROVE  [Abstract!Next]_Abstract!vars
<1>0. StorageTypeOK /\ pc \in [Calls -> Results \cup {"idle", "read", "propose", "wait"}]
  BY DEF StorageInv, StorageTypeOK
<1>a. ASSUME NEW c \in Calls, UNCHANGED <<log, states, owner, kind>>, NEW l,
             pc' = [pc EXCEPT ![c] = l]
      PROVE  pc'[c] = l /\ \A d \in Calls \ {c} : Status(d)' = Status(d)
  BY <1>0, <1>a DEF Status
<1>1. ASSUME NEW c \in Calls, Start(c) PROVE Abstract!Begin(c)
  <2>1. PICK l \in {"propose", "read"} : pc' = [pc EXCEPT ![c] = l]
    BY <1>1 DEF Start, Goto
  <2>2. UNCHANGED <<log, states, owner, kind>> /\ pc[c] = "idle"
    BY <1>1 DEF Start, proposalVars, vars, raftVars
  <2>3. pc'[c] = l /\ \A d \in Calls \ {c} : Status(d)' = Status(d)
    BY <1>a, <2>1, <2>2
  <2>4. Status(c) = "idle" /\ Status(c)' = "open"
    BY <2>2, <2>3 DEF Status
  <2> QED
    BY <2>2, <2>3, <2>4, RefinesBegin
<1>2. ASSUME NEW c \in Calls, Read(c)
      PROVE  Abstract!Return(c, "withdrawn") \/ UNCHANGED Abstract!vars
  <2>1. UNCHANGED <<log, states, owner, kind>> /\ pc[c] = "read"
    BY <1>2 DEF Read, proposalVars, vars, raftVars
  <2>2. CASE kind[c] = "drop" /\ pc' = [pc EXCEPT ![c] = "noop"]
    <3>1. pc'[c] = "noop" /\ \A d \in Calls \ {c} : Status(d)' = Status(d)
      BY <1>a, <2>1, <2>2
    <3>2. Status(c) = "open" /\ Status(c)' = "withdrawn"
      BY <2>1, <3>1 DEF Status
    <3>3. ~ Took(c)
      BY <2>1 DEF StorageInv, CallOK, Took, EffectiveEntries
    <3> QED
      BY <2>1, <2>2, <3>1, <3>2, <3>3, RefinesReturn
  <2>3. CASE pc' = [pc EXCEPT ![c] = "propose"]
    <3>1. pc'[c] = "propose" /\ \A d \in Calls \ {c} : Status(d)' = Status(d)
      BY <1>a, <2>1, <2>3
    <3>2. Status(c)' = Status(c)
      BY <2>1, <3>1 DEF Status
    <3> QED
      BY <2>1, <3>1, <3>2, RefinesStutter
  <2> QED
    BY <1>2, <2>2, <2>3 DEF Read, Goto
<1>3. ASSUME NEW c \in Calls, Propose(c)
      PROVE  Abstract!Return(c, "failed") \/ UNCHANGED Abstract!vars
  <2>1. UNCHANGED <<log, states, owner, kind>> /\ pc[c] = "propose"
    BY <1>3 DEF Propose, vars, raftVars
  <2>2. PICK l \in {"failed", "wait"} : pc' = [pc EXCEPT ![c] = l]
    BY <1>3 DEF Propose, Goto
  <2>3. pc'[c] = l /\ \A d \in Calls \ {c} : Status(d)' = Status(d)
    BY <1>a, <2>1, <2>2
  <2>4. Status(c) = "open" /\ (l = "failed" => Status(c)' = "failed") /\ (l = "wait" => Status(c)' = "open")
    BY <2>1, <2>3 DEF Status
  <2> QED
    BY <2>1, <2>3, <2>4, RefinesReturn, RefinesStutter
<1>4. ASSUME NEW c \in Calls, Succeed(c) PROVE Abstract!Return(c, "ok")
  <2>1. /\ UNCHANGED <<log, states, owner, kind>> /\ pc[c] = "wait"
        /\ fate[c] = "logged" /\ Effective(idx[c]) /\ pc' = [pc EXCEPT ![c] = "ok"]
    BY <1>4 DEF Succeed, Applied, Goto, proposalVars, vars, raftVars
  <2>2. pc'[c] = "ok" /\ \A d \in Calls \ {c} : Status(d)' = Status(d)
    BY <1>a, <2>1
  <2>3. Status(c) = "open" /\ Status(c)' = "ok"
    BY <2>1, <2>2 DEF Status
  <2>4. idx[c] \in EffectiveEntries(c)
    <3>1. idx[c] \in 0..Len(log) /\ Len(log) \in Nat
      BY <1>0 DEF StorageTypeOK, Index
    <3> QED
      BY <2>1, <3>1 DEF StorageInv, CallOK, EffectiveEntries
  <2> QED
    BY <2>1, <2>2, <2>3, <2>4, RefinesReturn DEF Took
<1>5. ASSUME NEW c \in Calls, Retry(c) \/ Fail(c)
      PROVE  Abstract!Return(c, "failed") \/ UNCHANGED Abstract!vars
  <2>1. UNCHANGED <<log, states, owner, kind>> /\ pc[c] = "wait"
    BY <1>5 DEF Retry, Fail, proposalVars, vars, raftVars
  <2>2. PICK l \in {"failed", "exhausted", "read"} : pc' = [pc EXCEPT ![c] = l]
    BY <1>5 DEF Retry, Fail, Goto
  <2>3. pc'[c] = l /\ \A d \in Calls \ {c} : Status(d)' = Status(d)
    BY <1>a, <2>1, <2>2
  <2>4. /\ Status(c) = "open"
        /\ l # "read" => Status(c)' = "failed"
        /\ l = "read" => Status(c)' = "open"
    BY <2>1, <2>3 DEF Status
  <2> QED
    BY <2>1, <2>3, <2>4, RefinesReturn, RefinesStutter
<1>6. ASSUME NEW c \in Calls, Receive(c) \/ Lose(c) PROVE UNCHANGED Abstract!vars
  <2>1. UNCHANGED <<log, states, owner, kind, pc>>
    BY <1>6 DEF Receive, Lose, callVars, vars, raftVars
  <2> QED
    BY <2>1, RefinesStutter DEF Status
<1>7. ASSUME NEW n \in Nodes, ApplyEntry(n) \/ Elect(n) PROVE UNCHANGED Abstract!vars
  <2>1. UNCHANGED <<log, states, owner, kind, pc>>
    BY <1>7 DEF ApplyEntry, Apply, Elect, callVars, proposalVars, vars, raftVars
  <2> QED
    BY <2>1, RefinesStutter DEF Status
<1>8. CASE UNCHANGED storageVars
  <2>1. UNCHANGED <<log, states, owner, kind, pc>>
    BY <1>8 DEF storageVars, callVars, proposalVars, vars, raftVars
  <2> QED
    BY <2>1, RefinesStutter DEF Status
<1>9. CASE StorageNext
  <2>1. CASE \E c \in Calls : Start(c) \/ Read(c) \/ Propose(c) \/ Succeed(c) \/ Retry(c) \/ Fail(c)
    BY <1>1, <1>2, <1>3, <1>4, <1>5, <2>1 DEF Abstract!Next
  <2>2. CASE \E c \in Calls : Receive(c) \/ Lose(c)
    BY <1>6, <2>2
  <2>3. CASE \E c \in Calls : CommitProposal(c)
    BY <2>3, RefinesCommit DEF Abstract!Next
  <2>4. CASE \E n \in Nodes : ApplyEntry(n) \/ Elect(n)
    BY <1>7, <2>4
  <2> QED
    BY <1>9, <2>1, <2>2, <2>3, <2>4 DEF StorageNext, CallStep, RaftStep
<1> QED
  BY <1>8, <1>9

\* raftstorage.go, Mutate and CompareAndCreate: whatever is retried, forwarded,
\* lost or delayed, the calls that change the row change one counter, each at one
\* moment between its start and its success, or at most once after it failed.
\* A delete that found no row is only shown to have no effect: its answer may be
\* out of date (the run raft_stale_delete).
THEOREM StorageUpdatesAtomic == StorageSafety => UpdatesAtomic
  BY RefinesInit, RefinesStep, StorageInvariant, PTL DEF StorageSafety, UpdatesAtomic, Abstract!Spec
=============================================================================
