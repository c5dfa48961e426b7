---------------------------- MODULE RaftStorage -----------------------------
(***************************************************************************)
(* RaftStorage.Mutate and CompareAndCreate on a cluster                    *)
(* (pkg/store/storage/raft/raftstorage.go): optimistic read-modify-write   *)
(* on the node's own replica, then a CAS command proposed on the leader,   *)
(* directly or through StorageProxyService.Apply.  Extends the replicated  *)
(* state machine: db, applied and the log are RaftFSM's.                   *)
(*                                                                         *)
(* The calls all work on one key.  "add" is a MutateFn that returns its    *)
(* argument plus one, "drop" one that returns nil (delete), "create" is    *)
(* CompareAndCreate.  Elections, lost messages and timeouts are external.  *)
(***************************************************************************)
EXTENDS RaftFSM

CONSTANTS
    Calls,
    Key,
    NoCmd,
    Created,           \* the value CompareAndCreate stores
    MaxMutateRetries,
    MaxElections       \* bound: changes of leader

ASSUME RaftStorageAssumption ==
    /\ Key \in Keys
    /\ Absent = 0 /\ Vals \subseteq Nat /\ Created \in Vals
    /\ Empty \notin Nat   \* every counter is stored as at least one byte
    /\ {"CAS", "CAS_CREATE"} \subseteq Ops
    /\ MaxMutateRetries \in Nat \ {0} /\ MaxElections \in Nat

VARIABLES
    leader, elections,
    kind, home,   \* call -> what it does, and the node it runs on (never change)
    pc,           \* call -> where the caller is
    attempt,      \* call -> the loop variable retry of Mutate
    cmd,          \* call -> the command it proposes
    at,           \* call -> the node asked to propose it
    fate,         \* call -> what became of the newest proposal
    idx,          \* call -> the newest proposal's log index
    owner,        \* history: the call behind each log entry
    before        \* history: call -> the entries acknowledged when it began

callVars == <<pc, attempt, cmd>>
proposalVars == <<at, fate, idx, owner>>
storageVars == <<vars, leader, elections, kind, home, before, callVars, proposalVars>>

Kinds == {"add", "drop", "create"}
Results == {"ok", "noop", "failed", "exhausted"}

StorageInit ==
    /\ Init
    /\ leader \in Nodes /\ elections = 0
    /\ kind \in [Calls -> Kinds] /\ home \in [Calls -> Nodes]
    /\ pc = [c \in Calls |-> "idle"]
    /\ attempt = [c \in Calls |-> 0]
    /\ cmd = [c \in Calls |-> NoCmd]
    /\ at = home
    /\ fate = [c \in Calls |-> "none"]
    /\ idx = [c \in Calls |-> 0]
    /\ owner = <<>>
    /\ before = [c \in Calls |-> {}]

Goto(c, label) == pc' = [pc EXCEPT ![c] = label]

\* FSM.localGet on the caller's own node.
Seen(c) == db[home[c]][Key]
-----------------------------------------------------------------------------
\* The log entries whose callers have been told of success.
Acknowledged == {idx[c] : c \in {d \in Calls : pc[d] = "ok"}}

\* A Mutate call enters its loop; CompareAndCreate proposes at once.
Start(c) ==
    /\ pc[c] = "idle"
    /\ IF kind[c] = "create"
         THEN /\ Goto(c, "propose")
              /\ cmd' = [cmd EXCEPT ![c] = [op |-> "CAS_CREATE", key |-> Key, val |-> Created]]
         ELSE Goto(c, "read") /\ UNCHANGED cmd
    /\ before' = [before EXCEPT ![c] = Acknowledged]
    /\ UNCHANGED <<vars, leader, elections, kind, home, attempt, proposalVars>>

\* Mutant: the new value is written whatever the row holds by then.
BlindCommandFor(k, v) ==
    CASE k = "drop" -> [op |-> "CAS", key |-> Key, exp |-> v, val |-> Absent]
      [] v = Absent -> [op |-> "PUT", key |-> Key, val |-> 1]
      [] OTHER      -> [op |-> "PUT", key |-> Key, val |-> v + 1]

\* The command a MutateFn leads to, given the value it was shown.
CommandFor(k, v) ==
    CASE k = "drop" -> [op |-> "CAS", key |-> Key, exp |-> v, val |-> Absent]
      [] v = Absent -> [op |-> "CAS_CREATE", key |-> Key, val |-> 1]
      [] OTHER      -> [op |-> "CAS", key |-> Key, exp |-> v, val |-> v + 1]

\* Mutant: no row is taken for nothing to do, whatever fn asked for.
ReadSkipsAbsent(c) ==
    /\ pc[c] = "read"
    /\ IF Seen(c) = Absent
         THEN Goto(c, "noop") /\ UNCHANGED cmd
         ELSE /\ cmd' = [cmd EXCEPT ![c] = CommandFor(kind[c], Seen(c))]
              /\ Goto(c, "propose")
    /\ UNCHANGED <<vars, leader, elections, kind, home, before, attempt, proposalVars>>

\* One round of the loop: read, call fn, build the command.
Read(c) ==
    /\ pc[c] = "read"
    /\ IF kind[c] = "drop" /\ Seen(c) = Absent
         THEN Goto(c, "noop") /\ UNCHANGED cmd
         ELSE /\ cmd' = [cmd EXCEPT ![c] = CommandFor(kind[c], Seen(c))]
              /\ Goto(c, "propose")
    /\ UNCHANGED <<vars, leader, elections, kind, home, before, attempt, proposalVars>>

\* applyAsLeader: raft.Apply here, or the forwarder to whoever this node takes
\* for the leader, which may be out of date.  No leader known is an error.
Propose(c) ==
    /\ pc[c] = "propose"
    /\ IF home[c] = leader
         THEN /\ Goto(c, "wait")
              /\ at' = [at EXCEPT ![c] = leader]
              /\ fate' = [fate EXCEPT ![c] = "queued"]
         ELSE \/ Goto(c, "failed") /\ UNCHANGED <<at, fate>>
              \/ \E n \in Nodes \ {home[c]} :
                    /\ Goto(c, "wait")
                    /\ at' = [at EXCEPT ![c] = n]
                    /\ fate' = [fate EXCEPT ![c] = "sent"]
    /\ UNCHANGED <<vars, leader, elections, kind, home, before, attempt, cmd, idx, owner>>

\* StorageProxyService.Apply, ApplyEncodedAsLeader: proposed, or refused with
\* FailedPrecondition.  The caller may have given up by now.
Receive(c) ==
    /\ fate[c] = "sent"
    /\ fate' = [fate EXCEPT ![c] = IF at[c] = leader THEN "queued" ELSE "refused"]
    /\ UNCHANGED <<vars, leader, elections, kind, home, before, callVars, at, idx, owner>>

\* The command is lost: in transit, or with a leader that was deposed.
Lose(c) ==
    /\ fate[c] = "sent" \/ (fate[c] = "queued" /\ at[c] # leader)
    /\ fate' = [fate EXCEPT ![c] = "refused"]
    /\ UNCHANGED <<vars, leader, elections, kind, home, before, callVars, at, idx, owner>>

\* Raft commits a proposal.
CommitProposal(c) ==
    /\ fate[c] = "queued"
    /\ Commit(cmd[c])
    /\ fate' = [fate EXCEPT ![c] = "logged"]
    /\ idx' = [idx EXCEPT ![c] = Len(log) + 1]
    /\ owner' = Append(owner, c)
    /\ UNCHANGED <<leader, elections, kind, home, before, callVars, at>>

ApplyEntry(n) ==
    /\ Apply(n)
    /\ UNCHANGED <<leader, elections, kind, home, before, callVars, proposalVars>>

\* Whether entry i changed anything (every CAS of these calls that matches does).
Effective(i) == states[i + 1] # states[i]

\* The result of the proposer's Apply is there.
Applied(c) == fate[c] = "logged" /\ applied[at[c]] >= idx[c]

Succeed(c) ==
    /\ pc[c] = "wait" /\ Applied(c) /\ Effective(idx[c])
    /\ Goto(c, "ok")
    /\ UNCHANGED <<vars, leader, elections, kind, home, before, attempt, cmd, proposalVars>>

\* ErrCASFailed from the local raft: CompareAndCreate returns it, Mutate goes
\* round its loop again.
Retry(c) ==
    /\ pc[c] = "wait" /\ Applied(c) /\ ~Effective(idx[c]) /\ at[c] = home[c]
    /\ IF kind[c] = "create"
         THEN Goto(c, "failed") /\ UNCHANGED attempt
         ELSE /\ attempt' = [attempt EXCEPT ![c] = @ + 1]
              /\ Goto(c, IF attempt[c] + 1 < MaxMutateRetries THEN "read" ELSE "exhausted")
    /\ UNCHANGED <<vars, leader, elections, kind, home, before, cmd, proposalVars>>

\* Mutant: every error is retried, as if nothing could have happened.
FailRetries(c) ==
    /\ pc[c] = "wait"
    /\ attempt[c] + 1 < MaxMutateRetries
    /\ attempt' = [attempt EXCEPT ![c] = @ + 1]
    /\ Goto(c, IF kind[c] = "create" THEN "propose" ELSE "read")
    /\ fate' = [fate EXCEPT ![c] = "none"]
    /\ UNCHANGED <<vars, leader, elections, kind, home, before, cmd, at, idx, owner>>

\* Mutant: a conflict on the remote leader is not answered.
FailSilently(c) ==
    /\ pc[c] = "wait" /\ ~Applied(c)
    /\ Goto(c, "failed")
    /\ UNCHANGED <<vars, leader, elections, kind, home, before, attempt, cmd, proposalVars>>

\* Any other error ends the call: refused, a CAS conflict reported by a remote
\* leader (a gRPC Internal status, no longer ErrCASFailed), leadership lost, a
\* deadline, a broken connection.
Fail(c) ==
    /\ pc[c] = "wait"
    /\ Goto(c, "failed")
    /\ UNCHANGED <<vars, leader, elections, kind, home, before, attempt, cmd, proposalVars>>

Elect(n) ==
    /\ n # leader /\ elections < MaxElections
    /\ leader' = n /\ elections' = elections + 1
    /\ UNCHANGED <<vars, kind, home, before, callVars, proposalVars>>

Done == \A c \in Calls : pc[c] \in Results

CallStep(c) == Start(c) \/ Read(c) \/ Propose(c) \/ Succeed(c) \/ Retry(c)
RaftStep(c) == Receive(c) \/ CommitProposal(c)

StorageNext ==
    \/ \E c \in Calls : CallStep(c) \/ RaftStep(c) \/ Lose(c) \/ Fail(c)
    \/ \E n \in Nodes : ApplyEntry(n) \/ Elect(n)

\* A caller takes its next step, and a call on the wire or in the log ends
\* (raft answers every future, gRPC every call).  Nothing obliges a proposal to
\* be committed.
StorageFairness ==
    \A c \in Calls : WF_storageVars(CallStep(c)) /\ WF_storageVars(Fail(c))

StorageSafety == StorageInit /\ [][StorageNext]_storageVars

StorageSpec == StorageSafety /\ StorageFairness
-----------------------------------------------------------------------------
\* Every row is a counter; the log grows with its owners.
StorageTypeOK ==
    /\ Len(log) \in 0..MaxLog
    /\ states \in Seq([Keys -> Nat]) /\ Len(states) = Len(log) + 1
    /\ owner \in Seq(Calls) /\ Len(owner) = Len(log)
    /\ db \in [Nodes -> [Keys -> Nat]] /\ applied \in [Nodes -> Index]
    /\ leader \in Nodes /\ elections \in 0..MaxElections
    /\ kind \in [Calls -> Kinds] /\ home \in [Calls -> Nodes] /\ at \in [Calls -> Nodes]
    /\ pc \in [Calls -> Results \cup {"idle", "read", "propose", "wait"}]
    /\ attempt \in [Calls -> 0..MaxMutateRetries]
    /\ fate \in [Calls -> {"none", "sent", "queued", "logged", "refused"}]
    /\ idx \in [Calls -> Index] /\ before \in [Calls -> SUBSET Index] /\ DOMAIN cmd = Calls

EffectiveEntries(c) == {i \in 1..Len(log) : owner[i] = c /\ Effective(i)}

\* A call that returned success changed the row exactly once; one that failed,
\* at most once; one that found nothing to delete, never.
AtMostOnce ==
    \A c \in Calls :
        /\ Cardinality(EffectiveEntries(c)) <= 1
        /\ pc[c] = "ok" => Cardinality(EffectiveEntries(c)) = 1
        /\ pc[c] \in {"idle", "noop", "exhausted"} => EffectiveEntries(c) = {}

Outcome(k, v) == CASE k = "drop" -> 0 [] k = "add" -> v + 1 [] OTHER -> Created

\* No update is lost: an entry that changes the row changes it as the call behind
\* it would have, run alone at that point of the log, although the call computed
\* its value from an earlier read on a replica that may have lagged.
NoLostUpdate ==
    \A i \in 1..Len(log) : Effective(i) =>
        states[i + 1][Key] = Outcome(kind[owner[i]], states[i][Key])

\* Every call returns: the retry loop ends.
EveryCallReturns == \A c \in Calls : (pc[c] = "read") ~> (pc[c] \in Results)

\* A delete that answers "already gone" (raftstorage.go:536) is right: there was
\* no row at some moment after the last write that was acknowledged before the
\* delete began.  raftstorage.go:509-511: "The local FSM read is consistent
\* because every Raft commit has propagated".
MissesAreCurrent ==
    \A c \in Calls : pc[c] = "noop" =>
        \E i \in Index : /\ \A a \in before[c] : a <= i
                         /\ states[i + 1][Key] = Absent

\* How a caller's state looks to the atomic counter.
Status(c) ==
    CASE pc[c] = "idle"                     -> "idle"
      [] pc[c] \in {"failed", "exhausted"}  -> "failed"
      [] pc[c] = "noop"                     -> "withdrawn"
      [] pc[c] = "ok"                       -> "ok"
      [] OTHER                              -> "open"

Abstract == INSTANCE AtomicMutate WITH
    value <- states[Len(states)][Key],
    status <- [c \in Calls |-> Status(c)],
    took <- [c \in Calls |-> EffectiveEntries(c) # {}]

\* The calls that change the row change one atomic counter: each of them acts at
\* one moment between its start and its success, or at most once after it failed.
\* (What a delete that found no row was told is MissesAreCurrent's subject.)
UpdatesAtomic == Abstract!Spec
=============================================================================
