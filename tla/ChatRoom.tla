------------------------------ MODULE ChatRoom ------------------------------
(***************************************************************************)
(* Goroutines around one session of the hub (pkg/chat/hub.go): the visitor *)
(* sockets (server/chat_ws_visitor.go), each a handler, which becomes the  *)
(* writer, and a reader goroutine; and the messages of agents, each stored *)
(* and then published.  A newcomer takes the room over from the visitor    *)
(* socket it finds there, in four separate steps.  Publish copies the set  *)
(* of subscribers under the lock and sends after releasing it.             *)
(*                                                                         *)
(* A send to a closed channel, or closing it again, panics; the model      *)
(* stops there.  (In the reader goroutine nothing recovers it and the      *)
(* process ends.)                                                          *)
(***************************************************************************)
EXTENDS Naturals, Sequences, FiniteSets, Boot

CONSTANTS
    Conns,        \* visitor sockets presenting the same token
    Msgs,         \* messages of the session's agents
    NoConn,
    Takeover,     \* the session_takeover frame
    Answer,       \* any frame the handler or the reader queues for its own client
    Buffer,       \* SubscriberOutBufferSize
    HistoryLimit, \* chat.history_limit
    MaxFrames     \* bound: frames each visitor sends

ASSUME ChatRoomAssumption ==
    /\ Buffer \in Nat \ {0} /\ HistoryLimit \in Nat /\ MaxFrames \in Nat
    /\ Takeover \notin Msgs /\ Answer \notin Msgs

VARIABLES
    room,      \* Hub.sessions[id], the visitor's part
    pc,        \* where each handler is
    prior,     \* old := VisitorSubscriber(id)
    out,       \* the state of each channel
    buffer,    \* its contents
    reader,    \* each reader goroutine
    got,       \* what each client was sent
    missed,    \* sockets a frame was dropped for
    bare,      \* history: sockets that went live without their backlog
    stored,    \* chat_messages, oldest first
    publisher, \* each message's sender
    targets,   \* the subscribers Publish has copied and not served yet
    frames, panicked

sockVars == <<room, pc, prior, out, reader, frames>>
dataVars == <<buffer, got, missed, bare>>
msgVars == <<stored, publisher, targets>>
roomVars == <<sockVars, dataVars, msgVars, panicked>>

Handler == {"off", "look", "tell", "leave", "close", "join", "greet", "replay", "live", "over"}

RoomInit ==
    /\ room = {} /\ pc = [c \in Conns |-> "off"] /\ prior = [c \in Conns |-> NoConn]
    /\ out = [c \in Conns |-> "none"] /\ reader = [c \in Conns |-> "none"]
    /\ buffer = [c \in Conns |-> <<>>] /\ got = [c \in Conns |-> {}] /\ missed = {} /\ bare = {}
    /\ stored = <<>> /\ publisher = [m \in Msgs |-> "idle"] /\ targets = [m \in Msgs |-> {}]
    /\ frames = [c \in Conns |-> 0] /\ panicked = FALSE
-----------------------------------------------------------------------------
Panic == panicked' = TRUE /\ UNCHANGED <<sockVars, dataVars, msgVars>>

\* The non-blocking send: a full channel drops the frame.
Send(c, frame) ==
    /\ IF Len(buffer[c]) < Buffer
         THEN buffer' = [buffer EXCEPT ![c] = Append(@, frame)] /\ UNCHANGED missed
         ELSE missed' = missed \union {c} /\ UNCHANGED buffer
    /\ UNCHANGED <<got, bare, panicked>>

Goto(c, label) == pc' = [pc EXCEPT ![c] = label]

Connect(c) ==
    /\ ~ panicked
    /\ pc[c] = "off"
    /\ Goto(c, "look")
    /\ UNCHANGED <<room, prior, out, reader, frames, dataVars, msgVars, panicked>>

\* VisitorSubscriber, under the read lock.
FindPrior(c) ==
    /\ ~ panicked
    /\ pc[c] = "look"
    /\ IF room = {}
         THEN Goto(c, "join") /\ UNCHANGED prior
         ELSE Goto(c, "tell") /\ \E d \in room : prior' = [prior EXCEPT ![c] = d]
    /\ UNCHANGED <<room, out, reader, frames, dataVars, msgVars, panicked>>

\* Mutant: the displaced socket is not told.
TellNothing(c) ==
    /\ ~ panicked
    /\ pc[c] = "tell"
    /\ Goto(c, "leave")
    /\ UNCHANGED <<room, prior, out, reader, frames, dataVars, msgVars, panicked>>

\* trySend(old.Out, session_takeover)
Tell(c) ==
    /\ ~ panicked
    /\ pc[c] = "tell"
    /\ IF out[prior[c]] = "closed" THEN Panic
       ELSE /\ Goto(c, "leave") /\ Send(prior[c], Takeover)
            /\ UNCHANGED <<room, prior, out, reader, frames, msgVars>>

\* Hub.Unsubscribe(old)
Unsubscribe(c) ==
    /\ ~ panicked
    /\ pc[c] = "leave"
    /\ Goto(c, "close")
    /\ room' = room \ {prior[c]}
    /\ UNCHANGED <<prior, out, reader, frames, dataVars, msgVars, panicked>>

\* close(old.Out)
Close(c) ==
    /\ ~ panicked
    /\ pc[c] = "close"
    /\ IF out[prior[c]] = "closed" THEN Panic
       ELSE /\ Goto(c, "join")
            /\ out' = [out EXCEPT ![prior[c]] = "closed"]
            /\ UNCHANGED <<room, prior, reader, frames, dataVars, msgVars, panicked>>

\* Mutant: the newcomer joins only after the history is read.
SubscribeAfterReplay(c) ==
    \/ /\ ~ panicked /\ pc[c] = "join" /\ Goto(c, "greet")
       /\ got' = [got EXCEPT ![c] = {stored[i] : i \in DOMAIN stored}]
       /\ UNCHANGED <<room, prior, out, reader, frames, buffer, missed, bare, msgVars, panicked>>
    \/ /\ ~ panicked /\ pc[c] = "greet" /\ Goto(c, "live")
       /\ room' = room \union {c} /\ out' = [out EXCEPT ![c] = "open"]
       /\ reader' = [reader EXCEPT ![c] = "reading"]
       /\ UNCHANGED <<prior, frames, dataVars, msgVars, panicked>>

\* Upgrade and Hub.Subscribe.
HubSubscribe(c) ==
    /\ ~ panicked
    /\ pc[c] = "join"
    /\ Goto(c, "greet")
    /\ room' = room \union {c} /\ out' = [out EXCEPT ![c] = "open"]
    /\ UNCHANGED <<prior, reader, frames, dataVars, msgVars, panicked>>

\* The presence snapshot goes through the socket's own channel.
Greet(c) ==
    /\ ~ panicked
    /\ pc[c] = "greet"
    /\ IF out[c] = "closed" THEN Panic
       ELSE /\ Goto(c, "replay") /\ Send(c, Answer)
            /\ UNCHANGED <<room, prior, out, reader, frames, msgVars>>

\* The oldest HistoryLimit messages are written straight to the connection, or
\* reading them failed, which is only logged ("a live chat without its backlog
\* still beats no chat"); then the reader goroutine starts.
Replay(c) ==
    /\ ~ panicked
    /\ pc[c] = "replay"
    /\ Goto(c, "live")
    /\ \/ /\ got' = [got EXCEPT ![c] = {stored[i] : i \in {j \in DOMAIN stored : j <= HistoryLimit}}]
          /\ UNCHANGED bare
       \/ bare' = bare \union {c} /\ UNCHANGED got
    /\ reader' = [reader EXCEPT ![c] = "reading"]
    /\ UNCHANGED <<room, prior, out, frames, buffer, missed, msgVars, panicked>>

\* The writer loop takes a frame off the channel, also off a closed one.
Write(c) ==
    /\ ~ panicked
    /\ pc[c] = "live" /\ buffer[c] # <<>>
    /\ got' = [got EXCEPT ![c] = @ \union {Head(buffer[c])}]
    /\ buffer' = [buffer EXCEPT ![c] = Tail(@)]
    /\ UNCHANGED <<sockVars, missed, bare, msgVars, panicked>>

\* The handler returns: the channel is closed and drained, or a write fails, or
\* the reader has ended.  It unsubscribes and closes the connection, never the
\* channel.
Return(c) ==
    /\ ~ panicked
    /\ Goto(c, "over")
    /\ room' = room \ {c}
    /\ UNCHANGED <<prior, out, reader, frames, dataVars, msgVars, panicked>>

\* Mutant: the writer does not look whether the channel is closed.
DisplacedSpins(c) == pc[c] = "live" /\ buffer[c] = <<>> /\ out[c] = "closed" /\ UNCHANGED roomVars

Displaced(c) == pc[c] = "live" /\ buffer[c] = <<>> /\ out[c] = "closed" /\ Return(c)
Disconnect(c) == pc[c] \in {"replay", "live"} /\ Return(c)

\* The reader gets a frame from the visitor, ...
ReaderFrame(c) ==
    /\ ~ panicked
    /\ reader[c] = "reading" /\ pc[c] = "live" /\ frames[c] < MaxFrames
    /\ frames' = [frames EXCEPT ![c] = @ + 1]
    /\ reader' = [reader EXCEPT ![c] = "answering"]
    /\ UNCHANGED <<room, pc, prior, out, dataVars, msgVars, panicked>>

\* ... stores it, and queues the ack or an error frame.
ReaderAnswer(c) ==
    /\ ~ panicked
    /\ reader[c] = "answering"
    /\ IF out[c] = "closed" THEN Panic
       ELSE /\ reader' = [reader EXCEPT ![c] = "reading"] /\ Send(c, Answer)
            /\ UNCHANGED <<room, pc, prior, out, frames, msgVars>>

\* An agent's message: AppendMessage, ...
AppendMessage(m) ==
    /\ ~ panicked
    /\ publisher[m] = "idle"
    /\ publisher' = [publisher EXCEPT ![m] = "stored"]
    /\ stored' = Append(stored, m)
    /\ UNCHANGED <<targets, sockVars, dataVars, panicked>>

\* ... Publish copies the subscribers, ...
Publish(m) ==
    /\ ~ panicked
    /\ publisher[m] = "stored"
    /\ publisher' = [publisher EXCEPT ![m] = "sending"]
    /\ targets' = [targets EXCEPT ![m] = room]
    /\ UNCHANGED <<stored, sockVars, dataVars, panicked>>

\* ... and sends to each.
Deliver(m, c) ==
    /\ ~ panicked
    /\ publisher[m] = "sending" /\ c \in targets[m]
    /\ IF out[c] = "closed" THEN Panic
       ELSE /\ targets' = [targets EXCEPT ![m] = @ \ {c}] /\ Send(c, m)
            /\ UNCHANGED <<stored, publisher, sockVars>>

ConnStep(c) ==
    \/ FindPrior(c) \/ Tell(c) \/ Unsubscribe(c) \/ Close(c) \/ HubSubscribe(c) \/ Greet(c) \/ Replay(c)
    \/ Write(c) \/ Displaced(c) \/ ReaderAnswer(c)

MsgStep(m) == Publish(m) \/ \E c \in Conns : Deliver(m, c)

RoomNext ==
    \/ \E c \in Conns : Connect(c) \/ ConnStep(c) \/ Disconnect(c) \/ ReaderFrame(c)
    \/ \E m \in Msgs : AppendMessage(m) \/ MsgStep(m)

RoomSafety == RoomInit /\ [][RoomNext]_roomVars

\* Goroutines that can run do run.
RoomFairness ==
    /\ \A c \in Conns : WF_roomVars(Running("room") /\ ConnStep(c))
    /\ \A m \in Msgs : WF_roomVars(Running("room") /\ MsgStep(m))
-----------------------------------------------------------------------------
RoomTypeOK ==
    /\ room \subseteq Conns
    /\ pc \in [Conns -> Handler] /\ prior \in [Conns -> Conns \union {NoConn}]
    /\ out \in [Conns -> {"none", "open", "closed"}]
    /\ reader \in [Conns -> {"none", "reading", "answering"}]
    /\ buffer \in [Conns -> Seq(Msgs \cup {Takeover, Answer})]
    /\ \A c \in Conns : Len(buffer[c]) <= Buffer
    /\ got \in [Conns -> SUBSET (Msgs \cup {Takeover, Answer})] /\ missed \subseteq Conns
    /\ bare \subseteq Conns
    /\ stored \in Seq(Msgs)
    /\ publisher \in [Msgs -> {"idle", "stored", "sending"}]
    /\ targets \in [Msgs -> SUBSET Conns]
    /\ frames \in [Conns -> Nat] /\ panicked \in BOOLEAN

Served(m, c) == publisher[m] = "sending" /\ c \notin targets[m]
Frames(c) == got[c] \union {buffer[c][i] : i \in DOMAIN buffer[c]}

\* Whatever the order of joining, replaying, storing and publishing, a visitor
\* that stays in the room has been sent, or has waiting, every message that was
\* published to the end - from the replay or from the hub - unless its buffer
\* overflowed or its history could not be read, or the message is beyond the
\* HistoryLimit oldest, which the replay leaves out.
ReplayComplete ==
    \A c \in room, i \in DOMAIN stored :
       pc[c] = "live" /\ c \notin missed \union bare /\ i <= HistoryLimit /\ Served(stored[i], c)
          => stored[i] \in Frames(c)

\* A socket whose channel was closed under it has been told so before it ends.
DisplacedIsTold ==
    [][\A c \in Conns : Displaced(c) /\ c \notin missed => Takeover \in got[c]]_roomVars

\* No displaced socket stays behind for ever: it ends, unless the process does.
DisplacedEnds == \A c \in Conns : []<>(out[c] = "closed" => pc[c] = "over" \/ panicked)

\* Unsubscribe: "closing a channel that another goroutine is sending on would
\* panic, and the only other sender is the hub itself which holds the same lock
\* the unregister takes".
NoPanic == ~ panicked
=============================================================================
