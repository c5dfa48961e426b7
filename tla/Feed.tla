-------------------------------- MODULE Feed --------------------------------
(***************************************************************************)
(* The change feed of the storage (informer.go of the Raft and the local   *)
(* backend, identical in what they do): Watch hands out a buffered         *)
(* channel, every applied write is offered to the watchers of its prefix,  *)
(* dropping it where the buffer is full.  A channel is closed when its     *)
(* watcher's context ends, or when the storage is closed; sending on a     *)
(* closed channel, or closing it again, panics.                            *)
(*                                                                         *)
(* A publisher holds the read lock over its whole loop.  Removing a        *)
(* watcher takes the write lock, and from when it asks for it new readers  *)
(* wait (sync.RWMutex); closing the storage detaches all watchers under    *)
(* the write lock and closes their channels after it.                      *)
(***************************************************************************)
EXTENDS Boot, Naturals

CONSTANTS
    Watchers, Publishers,
    WatchCap      \* watchChanCap

ASSUME FeedAssumption == WatchCap \in Nat \ {0}

VARIABLES
    subs,        \* informer.subs
    buffered,    \* watcher -> events in its channel
    open,        \* watchers whose channel is open
    watch,       \* watcher -> how far its Watch call and its context are
    sending,     \* publisher -> watchers it has still to offer the event
    reading,     \* publishers that hold the read lock
    closing,     \* the detached watchers Close has still to close
    storageOpen, \* checkOpen
    panicked

feedVars == <<subs, buffered, open, watch, sending, reading, closing, storageOpen, panicked>>

FeedInit ==
    /\ subs = {} /\ open = {}
    /\ buffered = [w \in Watchers |-> 0]
    /\ watch = [w \in Watchers |-> "new"]
    /\ sending = [p \in Publishers |-> {}] /\ reading = {}
    /\ closing = {} /\ storageOpen = TRUE /\ panicked = FALSE
-----------------------------------------------------------------------------
\* Watch: the storage is open ...
Watch(w) ==
    /\ watch[w] = "new" /\ storageOpen
    /\ watch' = [watch EXCEPT ![w] = "admitted"]
    /\ UNCHANGED <<subs, buffered, open, sending, reading, closing, storageOpen, panicked>>

WriteLock == reading = {}

\* ... and the watcher is added, perhaps after the storage was closed.
Subscribe(w) ==
    /\ watch[w] = "admitted" /\ WriteLock
    /\ watch' = [watch EXCEPT ![w] = "watching"]
    /\ subs' = subs \union {w} /\ open' = open \union {w}
    /\ UNCHANGED <<buffered, sending, reading, closing, storageOpen, panicked>>

\* publish, with the read lock: Matching are the watchers of the key's prefix.
Publish(p, Matching) ==
    /\ p \notin reading
    /\ \A w \in Watchers : watch[w] # "leaving"
    /\ reading' = reading \union {p}
    /\ sending' = [sending EXCEPT ![p] = subs \intersect Matching]
    /\ UNCHANGED <<subs, buffered, open, watch, closing, storageOpen, panicked>>

Offer(p, w) ==
    /\ w \in sending[p]
    /\ sending' = [sending EXCEPT ![p] = @ \ {w}]
    /\ buffered' = [buffered EXCEPT ![w] = IF @ < WatchCap THEN @ + 1 ELSE @]
    /\ panicked' = (panicked \/ w \notin open)
    /\ UNCHANGED <<subs, open, watch, reading, closing, storageOpen>>

Published(p) ==
    /\ p \in reading /\ sending[p] = {}
    /\ reading' = reading \ {p}
    /\ UNCHANGED <<subs, buffered, open, watch, sending, closing, storageOpen, panicked>>

Receive(w) ==
    /\ buffered[w] > 0
    /\ buffered' = [buffered EXCEPT ![w] = @ - 1]
    /\ UNCHANGED <<subs, open, watch, sending, reading, closing, storageOpen, panicked>>

\* The watcher's context ends.
Cancel(w) ==
    /\ watch[w] = "watching"
    /\ watch' = [watch EXCEPT ![w] = "cancelled"]
    /\ UNCHANGED <<subs, buffered, open, sending, reading, closing, storageOpen, panicked>>

\* The goroutine that waits for it asks for the write lock ...
Leave(w) ==
    /\ watch[w] = "cancelled"
    /\ watch' = [watch EXCEPT ![w] = "leaving"]
    /\ UNCHANGED <<subs, buffered, open, sending, reading, closing, storageOpen, panicked>>

\* Mutant: the channel is closed while publishers may still be in their loop.
UnsubscribeUnlocked(w) ==
    /\ watch[w] = "leaving"
    /\ watch' = [watch EXCEPT ![w] = "gone"]
    /\ subs' = subs \ {w}
    /\ open' = IF w \in subs THEN open \ {w} ELSE open
    /\ panicked' = (panicked \/ (w \in subs /\ w \notin open))
    /\ UNCHANGED <<buffered, sending, reading, closing, storageOpen>>

\* ... and, once it has it, closes the channel if it finds the watcher.
Unsubscribe(w) ==
    /\ watch[w] = "leaving" /\ WriteLock
    /\ watch' = [watch EXCEPT ![w] = "gone"]
    /\ subs' = subs \ {w}
    /\ open' = IF w \in subs THEN open \ {w} ELSE open
    /\ panicked' = (panicked \/ (w \in subs /\ w \notin open))
    /\ UNCHANGED <<buffered, sending, reading, closing, storageOpen>>

\* Close of the storage: checkOpen fails from now on, and shutdown detaches.
Shutdown ==
    /\ storageOpen /\ WriteLock
    /\ storageOpen' = FALSE
    /\ closing' = subs /\ subs' = {}
    /\ UNCHANGED <<buffered, open, watch, sending, reading, panicked>>

\* Mutant: shutdown only cancels, and leaves the closing to unsubscribe.
ShutdownCancelsOnly(w) ==
    /\ w \in closing
    /\ closing' = closing \ {w}
    /\ watch' = [watch EXCEPT ![w] = IF @ = "watching" THEN "cancelled" ELSE @]
    /\ UNCHANGED <<subs, buffered, open, sending, reading, storageOpen, panicked>>

\* shutdown closes one channel and cancels its context.
ShutdownOne(w) ==
    /\ w \in closing
    /\ closing' = closing \ {w}
    /\ open' = open \ {w}
    /\ panicked' = (panicked \/ w \notin open)
    /\ watch' = [watch EXCEPT ![w] = IF @ = "watching" THEN "cancelled" ELSE @]
    /\ UNCHANGED <<subs, buffered, sending, reading, storageOpen>>

FeedNext ==
    /\ Running("feed")
    /\ \/ \E w \in Watchers :
             \/ Watch(w) \/ Subscribe(w) \/ Receive(w) \/ Cancel(w)
             \/ Leave(w) \/ Unsubscribe(w) \/ ShutdownOne(w)
             \/ \E p \in Publishers : Offer(p, w)
       \/ \E p \in Publishers : Published(p) \/ \E M \in SUBSET Watchers : Publish(p, M)
       \/ Shutdown

FeedSpec == FeedInit /\ [][FeedNext]_feedVars

\* Publishers finish their loops, and the goroutines of the feed run; a lock
\* nobody holds is taken in the end.
FeedFairness ==
    \A w \in Watchers :
       /\ WF_feedVars(Running("feed") /\ (Leave(w) \/ Unsubscribe(w)))
       /\ WF_feedVars(Running("feed") /\ ShutdownOne(w))
       /\ \A p \in Publishers :
             WF_feedVars(Running("feed") /\ (Published(p) \/ Offer(p, w)))
-----------------------------------------------------------------------------
FeedTypeOK ==
    /\ subs \subseteq Watchers /\ open \subseteq Watchers /\ closing \subseteq Watchers
    /\ buffered \in [Watchers -> 0..WatchCap]
    /\ watch \in [Watchers -> {"new", "admitted", "watching", "cancelled", "leaving", "gone"}]
    /\ sending \in [Publishers -> SUBSET Watchers] /\ reading \subseteq Publishers
    /\ storageOpen \in BOOLEAN /\ panicked \in BOOLEAN

\* However publishers, watchers that leave and the closing of the storage
\* interleave, nobody sends on a closed channel or closes one twice.
ChannelsSafe == ~ panicked

\* A watcher whose context ended, or whom the closing storage has detached, sees
\* its channel closed and is not left waiting.  (Being over is for ever.)
WatchEnds ==
    \A w \in Watchers :
       []<>(watch[w] \in {"cancelled", "leaving", "gone"} \/ w \in closing => w \notin open)
=============================================================================
