------------------------------- MODULE Relay -------------------------------
(***************************************************************************)
(* The analytics relay of a node that has no ClickHouse connection:        *)
(*   pkg/relay/outbox.go    the queue (in-memory ring, bbolt overflow);    *)
(*   pkg/relay/drainer.go   the goroutine that ships batches;              *)
(*   pkg/api/v1/relay/...   the receiver that inserts the rows.            *)
(*                                                                         *)
(* An event is identified by the number of the Enqueue call that accepted  *)
(* it, so "older" is "<".  The overflow rows are keyed by bbolt's          *)
(* NextSequence, which grows with every push and survives restarts: key    *)
(* order is event order, and the file is the set of the events in it.      *)
(*                                                                         *)
(* Every method of Outbox holds o.mu for its whole body, hence one action  *)
(* per call.  The drainer runs Drain, the remote call and Ack or Requeue   *)
(* as separate steps, and Enqueue may come between any two of them.        *)
(***************************************************************************)
EXTENDS Naturals, Sequences, FiniteSets, Boot

CONSTANTS
    RingSize,      \* Config.RingSize
    DiskRows,      \* rows that fill Config.DiskMaxBytes
    HasDisk,       \* Config.DiskOverflowPath # ""
    BatchSize,     \* DrainerConfig.BatchSize
    BackoffMin,    \* DrainerConfig.BackoffMin
    BackoffMax,    \* DrainerConfig.BackoffMax
    BackoffMult,   \* DrainerConfig.BackoffMult
    Undecodable,   \* events whose bytes the receiver cannot decode
    Unreadable,    \* events whose overflow row diskPeek cannot decode
    MaxEvents,     \* bound: accepted events
    MaxFaults      \* bound: failed calls, disk errors and crashes

ASSUME RelayAssumption ==
    /\ RingSize \in Nat \ {0}
    /\ DiskRows \in Nat \ {0}
    /\ HasDisk \in BOOLEAN
    /\ BatchSize \in Nat \ {0}
    /\ BackoffMin \in Nat \ {0}
    /\ BackoffMax \in Nat
    /\ BackoffMin <= BackoffMax
    /\ BackoffMult \in Nat \ {0, 1}
    /\ Undecodable \subseteq Nat /\ Unreadable \subseteq Nat
    /\ MaxEvents \in Nat
    /\ MaxFaults \in Nat

VARIABLES
    ring,       \* Outbox.ring, oldest first
    disk,       \* events in the overflow bucket
    accepted,   \* events accepted so far, over all restarts (history)
    evictions,  \* Stats.Evictions
    pc,         \* where Drainer.run is
    inRing,     \* ring-backed items of the batch being shipped
    inDisk,     \* disk-backed items of the batch being shipped
    todo,       \* rows of the batch the receiver has not inserted yet
    delay,      \* Drainer.run's delay
    ctxDone,    \* the drainer's context is cancelled
    stored,     \* event -> number of rows ClickHouse holds for it
    faults      \* how often the environment misbehaved (history)

outboxVars  == <<ring, disk, accepted, evictions>>
drainerVars == <<pc, inRing, inDisk, delay, ctxDone>>
relayVars == <<outboxVars, drainerVars, todo, stored, faults>>

Events == 1..MaxEvents
Items(q) == {q[i] : i \in DOMAIN q}
Oldest(e, S) == e \in S /\ \A f \in S : e <= f
Prefix(q, n) == SubSeq(q, 1, IF Len(q) < n THEN Len(q) ELSE n)
Suffix(q, n) == SubSeq(q, (IF Len(q) < n THEN Len(q) ELSE n) + 1, Len(q))

\* The events the node still answers for: queued or in the batch in flight.
Held == Items(ring) \cup Items(inRing) \cup disk

RelayInit ==
    /\ ring = <<>> /\ disk = {} /\ accepted = 0 /\ evictions = 0
    /\ pc = "idle" /\ inRing = <<>> /\ inDisk = {} /\ todo = {}
    /\ delay = BackoffMin /\ ctxDone = FALSE
    /\ stored = [e \in Events |-> 0] /\ faults = 0

Fault == faults < MaxFaults /\ faults' = faults + 1
-----------------------------------------------------------------------------
(* Outbox.Enqueue: the ring while it has slack, then the overflow, then an *)
(* eviction.                                                               *)
DiskFull == Cardinality(disk) >= DiskRows

RingHasSlack(e) ==
    /\ Len(ring) < RingSize
    /\ ring' = Append(ring, e)
    /\ UNCHANGED <<disk, evictions>>

DiskHasSlack(e) ==
    /\ Len(ring) = RingSize /\ HasDisk /\ ~DiskFull
    /\ disk' = disk \cup {e}
    /\ UNCHANGED <<ring, evictions>>

\* Deleting the oldest row made room below the byte cap.
EvictDisk(e) ==
    /\ Len(ring) = RingSize /\ HasDisk /\ DiskFull
    /\ \E old \in disk : Oldest(old, disk) /\ disk' = (disk \ {old}) \cup {e}
    /\ evictions' = evictions + 1
    /\ UNCHANGED ring

\* No overflow file; or the overflow is wedged: the eviction failed, or it
\* deleted a row without freeing a page (the cap counts allocated pages, not
\* rows), so the second diskPush still finds the file full.
EvictRing(e) ==
    /\ Len(ring) = RingSize /\ (HasDisk => DiskFull)
    /\ \/ UNCHANGED disk
       \/ \E old \in disk : Oldest(old, disk) /\ disk' = disk \ {old}
    /\ ring' = Append(Tail(ring), e)
    /\ evictions' = evictions + 1

Enqueue ==
    /\ accepted < MaxEvents
    /\ accepted' = accepted + 1
    /\ \E e \in {accepted + 1} :
          RingHasSlack(e) \/ DiskHasSlack(e) \/ EvictDisk(e) \/ EvictRing(e)
    /\ UNCHANGED <<drainerVars, todo, stored, faults>>
-----------------------------------------------------------------------------
(* Drainer.run.                                                            *)

\* diskPeek: the n oldest rows it can decode; it warns about the others, passes
\* them over and leaves them where they are.
Readable == disk \ Unreadable

DiskPeek(n) ==
    {e \in Readable : HasDisk /\ Cardinality({f \in Readable : f < e}) < n}

SomethingToSend == ring # <<>> \/ DiskPeek(BatchSize) # {}

\* Outbox.Drain pops the ring part and peeks the disk part; the drainer then
\* calls RecordEventBatch with them.
Drain ==
    /\ pc = "idle" /\ ~ctxDone
    /\ SomethingToSend
    /\ inRing' = Prefix(ring, BatchSize)
    /\ ring' = Suffix(ring, BatchSize)
    /\ inDisk' = DiskPeek(BatchSize - Len(inRing'))
    /\ todo' = Items(inRing') \cup inDisk'
    /\ pc' = "sending"
    /\ UNCHANGED <<disk, accepted, evictions, delay, ctxDone, stored, faults>>

\* Drain found nothing.
IdlePoll ==
    /\ pc = "idle" /\ ~ctxDone
    /\ ~SomethingToSend
    /\ delay' = BackoffMin
    /\ UNCHANGED <<outboxVars, pc, inRing, inDisk, todo, ctxDone, stored, faults>>

\* diskPeek returned an error: Drain drops what it popped from the ring.
DrainError ==
    /\ pc = "idle" /\ ~ctxDone
    /\ HasDisk /\ Len(ring) < BatchSize
    /\ ring' = <<>>
    /\ Fault
    /\ UNCHANGED <<disk, accepted, evictions, drainerVars, todo, stored>>

\* gormWriter.Insert creates one row per event in batch order: the ring part,
\* oldest first, then the disk part, oldest first.
BatchBefore(e, f) ==
    \/ e \in Items(inRing) /\ f \in inDisk
    \/ e < f /\ (e \in inDisk <=> f \in inDisk)

\* An event that does not decode is counted as rejected and passed over; the call
\* succeeds all the same.
InsertRow ==
    /\ pc = "sending"
    /\ \E e \in todo :
          /\ \A f \in todo \ {e} : BatchBefore(e, f)
          /\ todo' = todo \ {e}
          /\ \/ e \in Undecodable /\ UNCHANGED stored
             \/ e \notin Undecodable /\ stored' = [stored EXCEPT ![e] = @ + 1]
    /\ UNCHANGED <<outboxVars, drainerVars, faults>>

\* RecordEventBatch answered: every row is in or rejected.
SendOk ==
    /\ pc = "sending" /\ todo = {}
    /\ pc' = "acking"
    /\ delay' = BackoffMin
    /\ UNCHANGED <<outboxVars, inRing, inDisk, todo, ctxDone, stored, faults>>

\* Mutant: a failed call is acknowledged as if it had succeeded.
SendErrorAcks ==
    /\ pc = "sending"
    /\ Fault
    /\ todo' = {}
    /\ pc' = "acking"
    /\ UNCHANGED <<outboxVars, inRing, inDisk, delay, ctxDone, stored>>

\* The peer is down, a row's insert failed, the deadline passed (whatever the
\* receiver had inserted stays, the last answer included), or the context was
\* cancelled.
SendError ==
    /\ pc = "sending"
    /\ Fault \/ (ctxDone /\ UNCHANGED faults)
    /\ todo' = {}
    /\ pc' = "failed"
    /\ UNCHANGED <<outboxVars, inRing, inDisk, delay, ctxDone, stored>>

EndBatch == inRing' = <<>> /\ inDisk' = {}

\* Mutant: Ack leaves the disk rows in place.
AckKeepsRows ==
    /\ pc = "acking"
    /\ pc' = "idle"
    /\ EndBatch
    /\ UNCHANGED <<outboxVars, delay, ctxDone, todo, stored, faults>>

\* Outbox.Ack deletes the disk rows of the batch.
Ack ==
    /\ pc = "acking"
    /\ disk' = disk \ inDisk
    /\ pc' = "idle"
    /\ EndBatch
    /\ UNCHANGED <<ring, accepted, evictions, delay, ctxDone, todo, stored, faults>>

\* The bbolt transaction of Ack failed: logged, the rows stay.
AckError ==
    /\ pc = "acking" /\ inDisk # {}
    /\ pc' = "idle"
    /\ EndBatch
    /\ Fault
    /\ UNCHANGED <<outboxVars, delay, ctxDone, todo, stored>>

\* nextDelay.
NextDelay(cur) ==
    IF cur * BackoffMult > BackoffMax THEN BackoffMax ELSE cur * BackoffMult

\* Outbox.Requeue pushes the ring part back in front, last item first;
\* ringPushFront on a full ring first drops the item at the back.
RequeuedAtBack == Prefix(ring \o inRing, RingSize)   \* mutant: ringPush for ringPushFront
RequeuedNothing == ring                              \* mutant: the batch is forgotten
RequeuedWithDisk ==        \* mutant: a disk-backed item is pushed back too
    Prefix(inRing \o (IF inDisk = {} THEN <<>>
                      ELSE <<CHOOSE e \in inDisk : Oldest(e, inDisk)>>) \o ring, RingSize)
Requeued == Prefix(inRing \o ring, RingSize)

\* Mutant: run returns after any error, not only context.Canceled.
RequeueGivesUp ==
    /\ pc = "failed"
    /\ ring' = Requeued
    /\ EndBatch
    /\ pc' = "stopped"
    /\ UNCHANGED <<disk, accepted, evictions, delay, ctxDone, todo, stored, faults>>

Requeue ==
    /\ pc = "failed"
    /\ ring' = Requeued
    /\ EndBatch
    /\ IF ctxDone THEN pc' = "stopped" /\ UNCHANGED delay
                  ELSE pc' = "idle" /\ delay' = NextDelay(delay)
    /\ UNCHANGED <<disk, accepted, evictions, ctxDone, todo, stored, faults>>

\* Drainer.Stop cancels; the loop leaves at its head, or after Requeue.
StopDrainer ==
    /\ ~ctxDone /\ ctxDone' = TRUE
    /\ UNCHANGED <<outboxVars, pc, inRing, inDisk, delay, todo, stored, faults>>

LeaveLoop ==
    /\ pc = "idle" /\ ctxDone
    /\ pc' = "stopped"
    /\ UNCHANGED <<outboxVars, inRing, inDisk, delay, ctxDone, todo, stored, faults>>

\* The process dies and New opens the same overflow file again.
Crash ==
    /\ Fault
    /\ ring' = <<>> /\ todo' = {} /\ EndBatch
    /\ evictions' = 0
    /\ pc' = "idle" /\ delay' = BackoffMin /\ ctxDone' = FALSE
    /\ UNCHANGED <<disk, accepted, stored>>

RelayNext ==
    \/ Enqueue
    \/ Drain \/ IdlePoll \/ DrainError
    \/ InsertRow \/ SendOk \/ SendError
    \/ Ack \/ AckError \/ Requeue
    \/ StopDrainer \/ LeaveLoop
    \/ Crash

RelaySpec == RelayInit /\ [][RelayNext]_relayVars

\* The drainer goroutine keeps running while the process is up, and the faults
\* are finitely many: the peer is reachable in the end.
RelayFairness ==
    /\ WF_relayVars(Running("relay") /\ Drain)
    /\ WF_relayVars(Running("relay") /\ InsertRow)
    /\ WF_relayVars(Running("relay") /\ SendOk)
    /\ WF_relayVars(Running("relay") /\ Ack)
    /\ WF_relayVars(Running("relay") /\ Requeue)
    /\ WF_relayVars(Running("relay") /\ LeaveLoop)
-----------------------------------------------------------------------------
RelayTypeOK ==
    /\ ring \in Seq(Events) /\ Len(ring) <= RingSize
    /\ inRing \in Seq(Events)
    /\ disk \subseteq Events /\ inDisk \subseteq Events /\ todo \subseteq Events
    /\ accepted \in 0..MaxEvents /\ evictions \in Nat
    /\ pc \in {"idle", "sending", "acking", "failed", "stopped"}
    /\ delay \in BackoffMin..BackoffMax
    /\ ctxDone \in BOOLEAN
    /\ stored \in [Events -> Nat]
    /\ faults \in 0..MaxFaults

Increasing(q) == \A i, j \in DOMAIN q : i < j => q[i] < q[j]

\* However Enqueue interleaves with Drain and Requeue, the batch in flight
\* followed by the ring is oldest-first with no event twice: a failed batch goes
\* back in front of everything accepted meanwhile (Drain, Requeue).
InOrder == Increasing(inRing \o ring)

\* An event is held once: never both in memory and in the overflow file, so a
\* failed batch, an Ack error or a restart cannot multiply what is queued.
OnePlace == disk \cap (Items(ring) \cup Items(inRing)) = {}

\* At-least-once with a bound: every row of an event beyond the first is paid
\* for by a failed call, a failed Ack or a crash (RecordEventBatch inserts row by
\* row without a transaction, so a retried batch repeats its prefix).
DuplicatesPaid == \A e \in Events : stored[e] <= faults + 1

\* The receiver is done with e: ClickHouse has its row, or the event was rejected
\* as undecodable and its batch is being acknowledged.
Delivered(e) == stored[e] > 0 \/ (e \in Undecodable /\ pc = "acking")

\* The node stops answering for an event only when the receiver has stored or
\* rejected it, when the ring is full counting the batch in flight, or in a fault
\* (a crash, a diskPeek error): "the drainer never gives up".
NoSilentLoss ==
    [][\A e \in Held \ Held' :
          \/ Delivered(e)
          \/ Len(ring) + Len(inRing) >= RingSize
          \/ faults' > faults]_relayVars

\* A row of the overflow file survives failed calls and crashes; it leaves once
\* the receiver has stored or rejected its event, or by eviction when ring and
\* file are both full.
DiskRowsSurvive ==
    [][\A e \in disk \ disk' :
          Delivered(e) \/ (Len(ring) = RingSize /\ DiskFull)]_relayVars

\* No accepted event is held for ever: in the end it is settled (stored or rejected
\* and then acknowledged, or evicted) unless Stop was called or its overflow row
\* cannot be read back; such a row holds up no other event.
EventuallySettled ==
    \A e \in Events : []<>(e \in Held => ctxDone \/ e \in disk \cap Unreadable)
=============================================================================
