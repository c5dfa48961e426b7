--------------------------- MODULE ChatRoomProofs ---------------------------
(***************************************************************************)
(* Proofs about ChatRoom, for any number of visitor sockets and messages   *)
(* and any buffer size: what a client was sent or has waiting only grows,  *)
(* so a message that was served, and the takeover notice, are never lost   *)
(* to it unless its buffer overflowed.                                     *)
(***************************************************************************)
EXTENDS ChatRoom, SequenceTheorems, TLAPS

Frame == Msgs \cup {Takeover, Answer}
Entries(q) == {q[i] : i \in DOMAIN q}

\* Told of the takeover, unless the notice was dropped.
Told(c) == c \in missed \/ Takeover \in Frames(c)

RoomInv ==
    /\ RoomTypeOK
    /\ \A c \in Conns : pc[c] \notin {"live", "over"} => got[c] = {}
    /\ \A c \in Conns : pc[c] \in {"tell", "leave", "close"} => prior[c] \in Conns
    /\ \A c \in Conns : pc[c] \in {"leave", "close"} => Told(prior[c])
    /\ \A c \in Conns : out[c] = "closed" => Told(c)
    /\ ReplayComplete

LEMMA AppendEntries ==
    ASSUME NEW q \in Seq(Frame), NEW f \in Frame
    PROVE  Append(q, f) \in Seq(Frame) /\ Len(Append(q, f)) = Len(q) + 1
           /\ Entries(q) \cup {f} \subseteq Entries(Append(q, f))
<1> DEFINE a == Append(q, f)
<1>1. /\ a \in Seq(Frame) /\ Len(a) = Len(q) + 1 /\ Len(q) \in Nat /\ DOMAIN q = 1..Len(q)
      /\ DOMAIN a = 1..Len(a) /\ \A i \in 1..Len(q) : a[i] = q[i]
      /\ a[Len(q) + 1] = f
  BY AppendProperties, LenProperties
<1> HIDE DEF a
<1>2. \A i \in DOMAIN q : i \in DOMAIN a /\ a[i] = q[i]
  BY <1>1
<1>3. Len(q) + 1 \in DOMAIN a
  BY <1>1
<1>4. Entries(q) \cup {f} \subseteq Entries(a)
  BY <1>1, <1>2, <1>3 DEF Entries
<1> QED BY <1>1, <1>4 DEF a

LEMMA TailEntries ==
    ASSUME NEW q \in Seq(Frame), q # <<>>
    PROVE  /\ Tail(q) \in Seq(Frame) /\ Head(q) \in Frame /\ Len(Tail(q)) = Len(q) - 1
           /\ Entries(q) \subseteq {Head(q)} \cup Entries(Tail(q))
<1> DEFINE t == Tail(q)
           h == Head(q)
<1>1. /\ t \in Seq(Frame) /\ h \in Frame /\ Len(t) = Len(q) - 1 /\ h = q[1]
      /\ \A i \in 1..Len(t) : t[i] = q[i + 1]
  BY HeadTailProperties
<1>2. DOMAIN q = 1..Len(q) /\ DOMAIN t = 1..Len(t) /\ Len(q) \in Nat /\ Len(t) \in Nat
  BY <1>1, LenProperties
<1> HIDE DEF t, h
<1>3. ASSUME NEW i \in DOMAIN q PROVE q[i] = h \/ q[i] \in Entries(t)
  <2>1. CASE i = 1
    BY <1>1, <2>1
  <2>2. CASE i # 1
    <3>1. i - 1 \in 1..Len(t) /\ (i - 1) + 1 = i
      BY <1>1, <1>2, <2>2
    <3>2. t[i - 1] = q[i]
      BY <1>1, <3>1
    <3> QED BY <1>2, <3>1, <3>2 DEF Entries
  <2> QED BY <2>1, <2>2
<1>4. Entries(q) \subseteq {h} \cup Entries(t)
  BY <1>3 DEF Entries
<1> QED BY <1>1, <1>4 DEF t, h

\* A non-blocking send keeps what every socket has, and leaves the frame in the
\* buffer or the socket marked.
LEMMA SendEffect ==
    ASSUME RoomTypeOK, NEW c \in Conns, NEW f \in Frame, Send(c, f)
    PROVE  /\ buffer' \in [Conns -> Seq(Frame)] /\ (\A d \in Conns : Len(buffer'[d]) <= Buffer)
           /\ got' = got /\ missed \subseteq missed' /\ missed' \subseteq Conns
           /\ UNCHANGED <<bare, panicked>>
           /\ \A d \in Conns : Frames(d) \subseteq Frames(d)'
           /\ c \in missed' \/ f \in Frames(c)'
<1>0. /\ buffer \in [Conns -> Seq(Frame)] /\ (\A d \in Conns : Len(buffer[d]) <= Buffer)
      /\ missed \subseteq Conns
  BY DEF RoomTypeOK, Frame
<1>1. got' = got /\ UNCHANGED <<bare, panicked>>
  BY DEF Send
<1>f. \A d \in Conns : /\ Frames(d) = got[d] \cup Entries(buffer[d])
                       /\ Frames(d)' = got'[d] \cup Entries(buffer'[d])
  BY DEF Frames, Entries
<1>2. CASE Len(buffer[c]) < Buffer
  <2> DEFINE a == Append(buffer[c], f)
  <2>1. buffer' = [buffer EXCEPT ![c] = a] /\ missed' = missed
    BY <1>2 DEF Send
  <2>2. a \in Seq(Frame) /\ Len(a) = Len(buffer[c]) + 1 /\ Entries(buffer[c]) \cup {f} \subseteq Entries(a)
    BY <1>0, AppendEntries
  <2>3. Len(a) <= Buffer
    <3>1. Len(buffer[c]) \in Nat /\ Buffer \in Nat
      BY <1>0, LenProperties, ChatRoomAssumption
    <3> QED BY <1>2, <2>2, <3>1
  <2> HIDE DEF a
  <2>4. buffer'[c] = a /\ \A d \in Conns \ {c} : buffer'[d] = buffer[d]
    BY <1>0, <2>1
  <2>5. \A d \in Conns : Frames(d) \subseteq Frames(d)'
    <3>1. ASSUME NEW d \in Conns PROVE Entries(buffer[d]) \subseteq Entries(buffer'[d])
      BY <2>2, <2>4
    <3> QED BY <1>1, <1>f, <3>1
  <2>6. f \in Frames(c)'
    BY <1>f, <2>2, <2>4
  <2> QED BY <1>0, <1>1, <2>1, <2>2, <2>3, <2>4, <2>5, <2>6
<1>3. CASE ~ (Len(buffer[c]) < Buffer)
  <2>1. missed' = missed \cup {c} /\ buffer' = buffer
    BY <1>3 DEF Send
  <2> QED BY <1>0, <1>1, <2>1 DEF Frames
<1> QED BY <1>2, <1>3

\* What each step leaves alone; a panic leaves everything.
Stopped == UNCHANGED <<sockVars, dataVars, msgVars>>
HandlerStep(c) ==
    Connect(c) \/ FindPrior(c) \/ Unsubscribe(c) \/ Close(c) \/ HubSubscribe(c)
    \/ Displaced(c) \/ Disconnect(c) \/ ReaderFrame(c)

LEMMA Steps ==
    ASSUME [RoomNext]_roomVars
    PROVE  \/ Stopped
           \/ \E c \in Conns : /\ HandlerStep(c) /\ ~ Stopped
                              /\ UNCHANGED <<dataVars, msgVars>>
           \/ \E c \in Conns : Tell(c) /\ Send(prior[c], Takeover) /\ Goto(c, "leave")
                              /\ UNCHANGED <<room, prior, out, reader, frames, msgVars>>
           \/ \E c \in Conns : Greet(c) /\ Send(c, Answer) /\ Goto(c, "replay")
                              /\ UNCHANGED <<room, prior, out, reader, frames, msgVars>>
           \/ \E c \in Conns : ReaderAnswer(c) /\ Send(c, Answer)
                              /\ reader' = [reader EXCEPT ![c] = "reading"]
                              /\ UNCHANGED <<room, pc, prior, out, frames, msgVars>>
           \/ \E m \in Msgs, c \in Conns :
                 /\ publisher[m] = "sending" /\ c \in targets[m]
                 /\ Send(c, m) /\ targets' = [targets EXCEPT ![m] = @ \ {c}]
                 /\ UNCHANGED <<stored, publisher, sockVars>>
           \/ \E c \in Conns : Replay(c)
           \/ \E c \in Conns : Write(c)
           \/ \E m \in Msgs : AppendMessage(m)
           \/ \E m \in Msgs : Publish(m)
<1>1. CASE UNCHANGED roomVars
  BY <1>1 DEF roomVars, Stopped
<1>2. ASSUME NEW c \in Conns, HandlerStep(c)
      PROVE  Stopped \/ UNCHANGED <<dataVars, msgVars>>
  BY <1>2 DEF HandlerStep, Connect, FindPrior, Unsubscribe, Close, HubSubscribe, Displaced, Disconnect, Return,
     ReaderFrame, Panic, Stopped
<1>3. ASSUME NEW c \in Conns, Tell(c)
      PROVE  Stopped \/ (Send(prior[c], Takeover) /\ Goto(c, "leave")
                          /\ UNCHANGED <<room, prior, out, reader, frames, msgVars>>)
  BY <1>3 DEF Tell, Panic, Stopped
<1>4. ASSUME NEW c \in Conns, Greet(c)
      PROVE  Stopped \/ (Send(c, Answer) /\ Goto(c, "replay")
                          /\ UNCHANGED <<room, prior, out, reader, frames, msgVars>>)
  BY <1>4 DEF Greet, Panic, Stopped
<1>5. ASSUME NEW c \in Conns, ReaderAnswer(c)
      PROVE  Stopped \/ (Send(c, Answer) /\ reader' = [reader EXCEPT ![c] = "reading"]
                          /\ UNCHANGED <<room, pc, prior, out, frames, msgVars>>)
  BY <1>5 DEF ReaderAnswer, Panic, Stopped
<1>6. ASSUME NEW m \in Msgs, NEW c \in Conns, Deliver(m, c)
      PROVE  Stopped \/ (/\ publisher[m] = "sending" /\ c \in targets[m]
                         /\ Send(c, m) /\ targets' = [targets EXCEPT ![m] = @ \ {c}]
                         /\ UNCHANGED <<stored, publisher, sockVars>>)
  BY <1>6 DEF Deliver, Panic, Stopped
<1>7. CASE RoomNext
  BY <1>2, <1>3, <1>4, <1>5, <1>6, <1>7 DEF RoomNext, ConnStep, MsgStep, HandlerStep
<1> QED BY <1>1, <1>7

LEMMA RoomInvInit == RoomInit => RoomInv
<1> SUFFICES ASSUME RoomInit PROVE RoomInv
  OBVIOUS
<1>1. buffer = [c \in Conns |-> <<>>] /\ stored = <<>> /\ got = [c \in Conns |-> {}]
      /\ pc = [c \in Conns |-> "off"] /\ out = [c \in Conns |-> "none"]
  BY DEF RoomInit
<1>2. <<>> \in Seq(Frame) /\ <<>> \in Seq(Msgs) /\ Len(<<>>) = 0 /\ DOMAIN <<>> = {}
  BY EmptySeq
<1>3. buffer \in [Conns -> Seq(Frame)] /\ \A c \in Conns : Len(buffer[c]) <= Buffer
  BY <1>1, <1>2, ChatRoomAssumption
<1>4. RoomTypeOK
  <2>1. room \subseteq Conns /\ missed \subseteq Conns /\ bare \subseteq Conns /\ got \in [Conns -> SUBSET Frame]
        /\ stored \in Seq(Msgs) /\ pc \in [Conns -> Handler]
    BY <1>2 DEF RoomInit, Handler
  <2>2. prior \in [Conns -> Conns \union {NoConn}] /\ out \in [Conns -> {"none", "open", "closed"}]
        /\ reader \in [Conns -> {"none", "reading", "answering"}]
    BY DEF RoomInit
  <2>3. publisher \in [Msgs -> {"idle", "stored", "sending"}] /\ targets \in [Msgs -> SUBSET Conns]
        /\ frames \in [Conns -> Nat] /\ panicked \in BOOLEAN
    BY DEF RoomInit
  <2> QED BY <1>3, <2>1, <2>2, <2>3 DEF RoomTypeOK, Frame
<1>5. \A c \in Conns : pc[c] = "off" /\ got[c] = {} /\ out[c] = "none"
  BY <1>1
<1>6. ReplayComplete
  BY <1>1, <1>2 DEF ReplayComplete
<1> QED BY <1>4, <1>5, <1>6 DEF RoomInv

\* Takeover steps and departures touch no frame.
LEMMA HandlerInv ==
    ASSUME RoomInv, NEW c \in Conns, HandlerStep(c), ~ Stopped, UNCHANGED <<dataVars, msgVars>>
    PROVE  RoomInv'
<1>0. RoomTypeOK /\ room \subseteq Conns /\ pc \in [Conns -> Handler]
      /\ prior \in [Conns -> Conns \union {NoConn}] /\ out \in [Conns -> {"none", "open", "closed"}]
      /\ (pc[c] \in {"tell", "leave", "close"} => prior[c] \in Conns)
  BY DEF RoomInv, RoomTypeOK
<1>1. UNCHANGED <<buffer, got, missed, bare, stored, publisher, targets>>
  BY DEF dataVars, msgVars
<1>2. /\ pc' \in [Conns -> Handler] /\ \A d \in Conns \ {c} : pc'[d] = pc[d]
      /\ pc'[c] = "live" => pc[c] = "live"
      /\ pc'[c] \notin {"live", "over"} => pc[c] \notin {"live", "over"}
      /\ pc'[c] \in {"leave", "close"} => pc[c] \in {"leave", "close"}
  BY <1>0 DEF HandlerStep, Connect, FindPrior, Unsubscribe, Close, HubSubscribe, Displaced, Disconnect, Return,
     ReaderFrame, Panic, Stopped, Goto, Handler
<1>3. /\ prior' \in [Conns -> Conns \union {NoConn}] /\ \A d \in Conns \ {c} : prior'[d] = prior[d]
      /\ pc'[c] \in {"tell", "leave", "close"} => prior'[c] \in Conns
      /\ pc'[c] \in {"leave", "close"} => prior'[c] = prior[c]
  BY <1>0 DEF HandlerStep, Connect, FindPrior, Unsubscribe, Close, HubSubscribe, Displaced, Disconnect, Return,
     ReaderFrame, Panic, Stopped, Goto, Handler
<1>4. /\ room' \subseteq room \cup {c} /\ (c \in room' /\ pc'[c] = "live" => c \in room)
  BY <1>0 DEF HandlerStep, Connect, FindPrior, Unsubscribe, Close, HubSubscribe, Displaced, Disconnect, Return,
     ReaderFrame, Panic, Stopped, Goto
<1>5. /\ out' \in [Conns -> {"none", "open", "closed"}]
      /\ \A d \in Conns : out'[d] = "closed" => out[d] = "closed" \/ (pc[c] = "close" /\ d = prior[c])
  BY <1>0 DEF HandlerStep, Connect, FindPrior, Unsubscribe, Close, HubSubscribe, Displaced, Disconnect, Return,
     ReaderFrame, Panic, Stopped
<1>6. reader' \in [Conns -> {"none", "reading", "answering"}] /\ frames' \in [Conns -> Nat]
  <2>1. CASE ReaderFrame(c)
    BY <1>0, <2>1 DEF ReaderFrame, RoomTypeOK
  <2>2. CASE ~ ReaderFrame(c)
    <3>1. UNCHANGED <<reader, frames>>
      BY <2>2 DEF HandlerStep, Connect, FindPrior, Unsubscribe, Close, HubSubscribe, Displaced, Disconnect,
         Return, Panic, Stopped, sockVars
    <3> QED BY <1>0, <3>1 DEF RoomTypeOK
  <2> QED BY <2>1, <2>2
<1>7. panicked' = panicked
  BY DEF HandlerStep, Connect, FindPrior, Unsubscribe, Close, HubSubscribe, Displaced, Disconnect, Return,
     ReaderFrame, Panic, Stopped
<1>8. RoomTypeOK'
  BY <1>0, <1>1, <1>2, <1>3, <1>4, <1>5, <1>6, <1>7 DEF RoomTypeOK
<1>9. \A d : Told(d)' = Told(d)
  BY <1>1 DEF Told, Frames
<1>10. ReplayComplete'
  BY <1>0, <1>1, <1>2, <1>4 DEF RoomInv, ReplayComplete, Served, Frames
<1>11. \A d \in Conns : pc'[d] \in {"leave", "close"} => Told(prior[d])'
  <2>1. ASSUME NEW d \in Conns, pc'[d] \in {"leave", "close"}
        PROVE  pc[d] \in {"leave", "close"} /\ prior'[d] = prior[d]
    BY <1>2, <1>3, <2>1
  <2>2. \A d \in Conns : pc[d] \in {"leave", "close"} => Told(prior[d])
    BY DEF RoomInv
  <2> QED BY <1>1, <2>1, <2>2 DEF Told, Frames
<1>12. \A d \in Conns : out'[d] = "closed" => Told(d)'
  BY <1>5, <1>9 DEF RoomInv
<1>13. \A d \in Conns : pc'[d] \notin {"live", "over"} => got'[d] = {}
  BY <1>1, <1>2 DEF RoomInv
<1>14. \A d \in Conns : pc'[d] \in {"tell", "leave", "close"} => prior'[d] \in Conns
  BY <1>2, <1>3 DEF RoomInv
<1> QED BY <1>8, <1>10, <1>11, <1>12, <1>13, <1>14 DEF RoomInv

\* The steps that send: the newcomer's notice to the socket it displaces, a
\* greeting or an answer to the own client, a message to one subscriber.
LEMMA SentInv ==
    ASSUME RoomInv, NEW x \in Conns, NEW f \in Frame, Send(x, f),
           UNCHANGED <<room, prior, out, frames, stored, publisher>>,
           reader' \in [Conns -> {"none", "reading", "answering"}],
           pc' \in [Conns -> Handler], targets' \in [Msgs -> SUBSET Conns],
           \A d \in Conns : \/ pc'[d] = pc[d]
                            \/ pc[d] = "greet" /\ pc'[d] = "replay"
                            \/ pc[d] = "tell" /\ pc'[d] = "leave" /\ x = prior[d] /\ f = Takeover,
           \A m \in Msgs : targets'[m] = targets[m] \/ (f = m /\ targets'[m] = targets[m] \ {x})
    PROVE  RoomInv'
<1>0. RoomTypeOK
  BY DEF RoomInv
<1>1. /\ buffer' \in [Conns -> Seq(Frame)] /\ (\A d \in Conns : Len(buffer'[d]) <= Buffer)
      /\ got' = got /\ missed \subseteq missed' /\ missed' \subseteq Conns
      /\ UNCHANGED <<bare, panicked>>
      /\ \A d \in Conns : Frames(d) \subseteq Frames(d)'
      /\ x \in missed' \/ f \in Frames(x)'
  BY <1>0, SendEffect
<1>2. RoomTypeOK'
  BY <1>0, <1>1 DEF RoomTypeOK, Frame
<1>3. \A d \in Conns : Told(d) => Told(d)'
  BY <1>1 DEF Told
<1>4. f = Takeover => Told(x)'
  BY <1>1 DEF Told
<1>5. \A d \in Conns : pc'[d] \notin {"live", "over"} => got'[d] = {}
  BY <1>1 DEF RoomInv
<1>6. \A d \in Conns : pc'[d] \in {"tell", "leave", "close"} => prior'[d] \in Conns
  BY DEF RoomInv
<1>7. ASSUME NEW d \in Conns, pc'[d] \in {"leave", "close"} PROVE Told(prior[d])'
  <2>1. PICK y \in Conns : y = prior[d]
    BY <1>6, <1>7
  <2>2. Told(y)'
    <3>1. CASE pc'[d] = pc[d]
      BY <1>3, <1>7, <2>1, <3>1 DEF RoomInv
    <3>2. CASE pc[d] = "tell" /\ x = prior[d] /\ f = Takeover
      BY <1>4, <2>1, <3>2
    <3> QED BY <1>7, <3>1, <3>2
  <2>3. prior'[d] = y
    BY <2>1
  <2> QED BY <2>2, <2>3 DEF Told, Frames
<1>8. \A d \in Conns : out'[d] = "closed" => Told(d)'
  BY <1>3 DEF RoomInv
<1>9. ReplayComplete'
  <2> SUFFICES ASSUME NEW c \in room, NEW i \in DOMAIN stored, pc'[c] = "live",
                      c \notin missed' \union bare',
                      i <= HistoryLimit, Served(stored[i], c)'
               PROVE  stored[i] \in Frames(c)'
    BY DEF ReplayComplete, Served
  <2>1. c \in Conns /\ stored[i] \in Msgs /\ pc[c] = "live" /\ c \notin missed \union bare
    <3>1. c \in Conns /\ stored[i] \in Msgs
      BY <1>0 DEF RoomTypeOK
    <3>2. pc[c] = "live"
      BY <3>1
    <3> QED BY <1>1, <3>1, <3>2
  <2>2. CASE Served(stored[i], c)
    <3>1. stored[i] \in Frames(c)
      BY <2>1, <2>2 DEF RoomInv, ReplayComplete
    <3> QED BY <1>1, <2>1, <3>1
  <2>3. CASE ~ Served(stored[i], c)
    <3>1. f = stored[i] /\ x = c
      BY <2>1, <2>3 DEF Served
    <3> QED BY <1>1, <3>1
  <2> QED BY <2>2, <2>3
<1> QED BY <1>2, <1>5, <1>6, <1>7, <1>8, <1>9 DEF RoomInv

\* The history is read after the socket has joined.
LEMMA ReplayInv ==
    ASSUME RoomInv, NEW c \in Conns, Replay(c)
    PROVE  RoomInv'
<1>0. RoomTypeOK
  BY DEF RoomInv
<1> DEFINE h == {stored[i] : i \in {j \in DOMAIN stored : j <= HistoryLimit}}
<1>1. /\ pc[c] = "replay" /\ pc' = [pc EXCEPT ![c] = "live"]
      /\ \/ got' = [got EXCEPT ![c] = h] /\ bare' = bare
         \/ got' = got /\ bare' = bare \union {c}
      /\ reader' = [reader EXCEPT ![c] = "reading"]
      /\ UNCHANGED <<room, prior, out, frames, buffer, missed, stored, publisher, targets, panicked>>
  BY DEF Replay, Goto, msgVars
<1>2. h \subseteq Msgs
  BY <1>0 DEF RoomTypeOK
<1> HIDE DEF h
<1>3. got[c] = {}
  BY <1>1 DEF RoomInv
<1>4. RoomTypeOK'
  <2>1. got' \in [Conns -> SUBSET (Msgs \cup {Takeover, Answer})] /\ pc' \in [Conns -> Handler]
        /\ reader' \in [Conns -> {"none", "reading", "answering"}]
    BY <1>0, <1>1, <1>2 DEF RoomTypeOK, Handler
  <2> QED BY <1>0, <1>1, <2>1 DEF RoomTypeOK
<1>5. /\ got'[c] = h \/ (got'[c] = got[c] /\ c \in bare')
      /\ pc'[c] = "live" /\ \A d \in Conns \ {c} : got'[d] = got[d] /\ pc'[d] = pc[d]
      /\ bare \subseteq bare'
  BY <1>0, <1>1 DEF RoomTypeOK
<1>6. \A d \in Conns : Frames(d) \subseteq Frames(d)'
  <2>1. \A d \in Conns : got[d] \subseteq got'[d] /\ buffer'[d] = buffer[d]
    BY <1>1, <1>3, <1>5
  <2> QED BY <2>1 DEF Frames
<1>7. \A d \in Conns : Told(d) => Told(d)'
  BY <1>1, <1>6 DEF Told
<1>8. \A d \in Conns : pc'[d] \notin {"live", "over"} => got'[d] = {}
  BY <1>5 DEF RoomInv
<1>9. \A d \in Conns : pc'[d] \in {"tell", "leave", "close"} => pc[d] = pc'[d] /\ prior'[d] \in Conns
  BY <1>1, <1>5 DEF RoomInv
<1>10. ASSUME NEW d \in Conns, pc'[d] \in {"leave", "close"} PROVE Told(prior[d])'
  <2>1. PICK y \in Conns : y = prior[d]
    BY <1>1, <1>9, <1>10
  <2>2. Told(y)'
    BY <1>7, <1>9, <1>10, <2>1 DEF RoomInv
  <2>3. prior'[d] = y
    BY <1>1, <2>1
  <2> QED BY <2>2, <2>3 DEF Told, Frames
<1>11. \A d \in Conns : out'[d] = "closed" => Told(d)'
  BY <1>1, <1>7 DEF RoomInv
<1>12. ReplayComplete'
  <2> SUFFICES ASSUME NEW d \in room, NEW i \in DOMAIN stored, pc'[d] = "live",
                      d \notin missed \union bare', i <= HistoryLimit, Served(stored[i], d)
               PROVE  stored[i] \in Frames(d)'
    BY <1>1 DEF ReplayComplete, Served
  <2>1. CASE d = c
    <3>1. stored[i] \in got'[c]
      BY <1>5, <2>1 DEF h
    <3> QED BY <2>1, <3>1 DEF Frames
  <2>2. CASE d # c
    <3>1. d \in Conns /\ pc[d] = "live" /\ d \notin bare
      BY <1>0, <1>5, <2>2 DEF RoomTypeOK
    <3>2. stored[i] \in Frames(d)
      BY <3>1 DEF RoomInv, ReplayComplete
    <3> QED BY <1>6, <3>1, <3>2
  <2> QED BY <2>1, <2>2
<1> QED BY <1>4, <1>8, <1>9, <1>10, <1>11, <1>12 DEF RoomInv

LEMMA WriteInv ==
    ASSUME RoomInv, NEW c \in Conns, Write(c)
    PROVE  RoomInv'
<1> DEFINE q == buffer[c]
           h == Head(q)
           t == Tail(q)
<1>0. RoomTypeOK /\ buffer \in [Conns -> Seq(Frame)] /\ q \in Seq(Frame) /\ q # <<>>
  BY DEF RoomInv, RoomTypeOK, Frame, Write
<1>1. /\ got' = [got EXCEPT ![c] = @ \union {h}] /\ buffer' = [buffer EXCEPT ![c] = t]
      /\ pc[c] = "live" /\ UNCHANGED <<room, prior, out, frames, pc, reader, missed, bare, stored, publisher,
                                      targets, panicked>>
  BY DEF Write, sockVars, msgVars
<1>2. t \in Seq(Frame) /\ h \in Frame /\ Len(t) = Len(q) - 1 /\ Entries(q) \subseteq {h} \cup Entries(t)
  BY <1>0, TailEntries
<1>3. Len(t) <= Buffer
  <2>1. Len(q) \in Nat /\ Len(q) <= Buffer /\ Buffer \in Nat
    BY <1>0, LenProperties, ChatRoomAssumption DEF RoomTypeOK
  <2> QED BY <1>2, <2>1
<1> HIDE DEF h, t
<1>4. /\ got'[c] = got[c] \cup {h} /\ buffer'[c] = t
      /\ \A d \in Conns \ {c} : got'[d] = got[d] /\ buffer'[d] = buffer[d]
  BY <1>0, <1>1 DEF RoomTypeOK
<1>5. RoomTypeOK'
  <2>1. got' \in [Conns -> SUBSET Frame]
    BY <1>0, <1>1, <1>2 DEF RoomTypeOK, Frame
  <2>2. buffer' \in [Conns -> Seq(Frame)] /\ \A d \in Conns : Len(buffer'[d]) <= Buffer
    BY <1>0, <1>1, <1>2, <1>3, <1>4 DEF RoomTypeOK
  <2> QED BY <1>0, <1>1, <2>1, <2>2 DEF RoomTypeOK, Frame
<1>6. \A d \in Conns : Frames(d) \subseteq Frames(d)'
  <2>1. \A d \in Conns : /\ Frames(d) = got[d] \cup Entries(buffer[d])
                         /\ Frames(d)' = got'[d] \cup Entries(buffer'[d])
    BY DEF Frames, Entries
  <2> QED BY <1>2, <1>4, <2>1
<1>7. \A d \in Conns : Told(d) => Told(d)'
  BY <1>1, <1>6 DEF Told
<1>8. \A d \in Conns : pc'[d] \notin {"live", "over"} => got'[d] = {}
  BY <1>1, <1>4 DEF RoomInv
<1>9. \A d \in Conns : pc'[d] \in {"tell", "leave", "close"} => prior'[d] \in Conns
  BY <1>1 DEF RoomInv
<1>10. ASSUME NEW d \in Conns, pc'[d] \in {"leave", "close"} PROVE Told(prior[d])'
  <2>1. PICK y \in Conns : y = prior[d]
    BY <1>1, <1>9, <1>10
  <2>2. Told(y)'
    BY <1>1, <1>7, <1>10, <2>1 DEF RoomInv
  <2>3. prior'[d] = y
    BY <1>1, <2>1
  <2> QED BY <2>2, <2>3 DEF Told, Frames
<1>11. \A d \in Conns : out'[d] = "closed" => Told(d)'
  BY <1>1, <1>7 DEF RoomInv
<1>12. ReplayComplete'
  <2> SUFFICES ASSUME NEW d \in room, NEW i \in DOMAIN stored, pc[d] = "live",
                      d \notin missed \union bare, i <= HistoryLimit, Served(stored[i], d)
               PROVE  stored[i] \in Frames(d)'
    BY <1>1 DEF ReplayComplete, Served
  <2>1. d \in Conns /\ stored[i] \in Frames(d)
    BY <1>0 DEF RoomInv, ReplayComplete, RoomTypeOK
  <2> QED BY <1>6, <2>1
<1> QED BY <1>5, <1>8, <1>9, <1>10, <1>11, <1>12 DEF RoomInv

\* The store and the publisher's copy touch no socket: a message is served to
\* nobody when Publish has just copied the room.
LEMMA MessageInv ==
    ASSUME RoomInv, NEW m \in Msgs, AppendMessage(m) \/ Publish(m)
    PROVE  RoomInv'
<1>0. RoomTypeOK /\ stored \in Seq(Msgs)
  BY DEF RoomInv, RoomTypeOK
<1>1. UNCHANGED <<sockVars, dataVars, panicked>>
  BY DEF AppendMessage, Publish
<1>2. UNCHANGED <<room, pc, prior, out, reader, frames, buffer, got, missed, bare, panicked>>
  BY <1>1 DEF sockVars, dataVars
<1>3. RoomTypeOK' /\ ReplayComplete'
  <2>1. CASE AppendMessage(m)
    <3> DEFINE a == Append(stored, m)
    <3>1. /\ publisher[m] = "idle" /\ publisher' = [publisher EXCEPT ![m] = "stored"]
          /\ stored' = a /\ targets' = targets
      BY <2>1 DEF AppendMessage
    <3>2. /\ a \in Seq(Msgs) /\ Len(a) = Len(stored) + 1 /\ Len(stored) \in Nat
          /\ DOMAIN stored = 1..Len(stored) /\ DOMAIN a = 1..Len(a)
          /\ (\A i \in 1..Len(stored) : a[i] = stored[i]) /\ a[Len(stored) + 1] = m
      BY <1>0, AppendProperties, LenProperties
    <3> HIDE DEF a
    <3>3. RoomTypeOK'
      BY <1>0, <1>2, <3>1, <3>2 DEF RoomTypeOK
    <3>4. publisher'[m] = "stored" /\ \A x \in Msgs \ {m} : publisher'[x] = publisher[x]
      BY <1>0, <3>1 DEF RoomTypeOK
    <3>5. ASSUME NEW c \in room, NEW i \in DOMAIN a, pc[c] = "live", c \notin missed \union bare,
                 i <= HistoryLimit, publisher'[a[i]] = "sending", c \notin targets[a[i]]
          PROVE  a[i] \in Frames(c)
      <4>1. a[i] \in Msgs /\ a[i] # m
        BY <3>2, <3>4, <3>5
      <4>2. i \in DOMAIN stored /\ a[i] = stored[i]
        BY <3>2, <4>1
      <4>3. Served(stored[i], c)
        BY <3>4, <3>5, <4>1, <4>2 DEF Served
      <4> QED BY <3>5, <4>2, <4>3 DEF RoomInv, ReplayComplete
    <3>6. ReplayComplete'
      BY <1>2, <3>1, <3>5 DEF ReplayComplete, Served, Frames
    <3> QED BY <3>3, <3>6
  <2>2. CASE Publish(m)
    <3>1. /\ publisher' = [publisher EXCEPT ![m] = "sending"]
          /\ stored' = stored /\ targets' = [targets EXCEPT ![m] = room]
      BY <2>2 DEF Publish
    <3>2. RoomTypeOK'
      BY <1>0, <1>2, <3>1 DEF RoomTypeOK
    <3>3. ASSUME NEW c \in room, NEW x \in Msgs, publisher'[x] = "sending", c \notin targets'[x]
          PROVE  Served(x, c)
      BY <1>0, <3>1, <3>3 DEF Served, RoomTypeOK
    <3>4. \A i \in DOMAIN stored : stored[i] \in Msgs
      BY <1>0
    <3>5. ReplayComplete'
      BY <1>2, <3>1, <3>3, <3>4 DEF RoomInv, ReplayComplete, Served, Frames
    <3> QED BY <3>2, <3>5
  <2> QED BY <2>1, <2>2
<1> QED BY <1>2, <1>3 DEF RoomInv, Told, Frames

LEMMA StoppedInv ==
    ASSUME RoomInv, Stopped, panicked' \in BOOLEAN
    PROVE  RoomInv'
<1>1. UNCHANGED <<room, pc, prior, out, reader, frames, buffer, got, missed, bare, stored, publisher, targets>>
  BY DEF Stopped, sockVars, dataVars, msgVars
<1>2. RoomTypeOK'
  BY <1>1 DEF RoomInv, RoomTypeOK
<1>3. ReplayComplete'
  BY <1>1 DEF RoomInv, ReplayComplete, Served, Frames
<1> QED BY <1>1, <1>2, <1>3 DEF RoomInv, Told, Frames

LEMMA PanickedType ==
    ASSUME RoomTypeOK, [RoomNext]_roomVars
    PROVE  panicked' \in BOOLEAN
<1>1. panicked' = panicked \/ panicked' = TRUE
  BY DEF RoomNext, ConnStep, MsgStep, Connect, FindPrior, Tell, Unsubscribe, Close, HubSubscribe, Greet, Replay, Write,
     Displaced, Disconnect, Return, ReaderFrame, ReaderAnswer, AppendMessage, Publish, Deliver, Panic, Send, roomVars
<1> QED BY <1>1 DEF RoomTypeOK

LEMMA RoomStep == RoomInv /\ [RoomNext]_roomVars => RoomInv'
<1> SUFFICES ASSUME RoomInv, [RoomNext]_roomVars PROVE RoomInv'
  OBVIOUS
<1>0. RoomTypeOK
  BY DEF RoomInv
<1>t. /\ pc \in [Conns -> Handler] /\ targets \in [Msgs -> SUBSET Conns]
      /\ reader \in [Conns -> {"none", "reading", "answering"}]
  BY <1>0 DEF RoomTypeOK
<1>1. CASE Stopped
  BY <1>0, <1>1, StoppedInv, PanickedType
<1>2. CASE \E c \in Conns : HandlerStep(c) /\ ~ Stopped /\ UNCHANGED <<dataVars, msgVars>>
  BY <1>2, HandlerInv
<1>3. ASSUME NEW c \in Conns, Tell(c), Send(prior[c], Takeover), Goto(c, "leave"),
             UNCHANGED <<room, prior, out, reader, frames, msgVars>>
      PROVE  RoomInv'
  <2>1. pc[c] = "tell" /\ pc' = [pc EXCEPT ![c] = "leave"] /\ prior[c] \in Conns
    BY <1>3 DEF Tell, Goto, RoomInv
  <2>2. pc' \in [Conns -> Handler] /\ pc'[c] = "leave" /\ \A d \in Conns \ {c} : pc'[d] = pc[d]
    BY <1>t, <2>1 DEF Handler
  <2>3. UNCHANGED <<room, prior, out, reader, frames, stored, publisher, targets>>
    BY <1>3 DEF msgVars
  <2>4. \A d \in Conns : \/ pc'[d] = pc[d]
                         \/ pc[d] = "tell" /\ pc'[d] = "leave" /\ prior[c] = prior[d]
    BY <2>1, <2>2
  <2>5. Takeover \in Frame
    BY DEF Frame
  <2> QED BY <1>3, <1>t, <2>1, <2>2, <2>3, <2>4, <2>5, SentInv
<1>4. ASSUME NEW c \in Conns, Greet(c), Send(c, Answer), Goto(c, "replay"),
             UNCHANGED <<room, prior, out, reader, frames, msgVars>>
      PROVE  RoomInv'
  <2>1. pc[c] = "greet" /\ pc' = [pc EXCEPT ![c] = "replay"]
    BY <1>4 DEF Greet, Goto
  <2>2. pc' \in [Conns -> Handler] /\ pc'[c] = "replay" /\ \A d \in Conns \ {c} : pc'[d] = pc[d]
    BY <1>t, <2>1 DEF Handler
  <2>3. UNCHANGED <<room, prior, out, reader, frames, stored, publisher, targets>>
    BY <1>4 DEF msgVars
  <2>4. \A d \in Conns : pc'[d] = pc[d] \/ (pc[d] = "greet" /\ pc'[d] = "replay")
    BY <2>1, <2>2
  <2>5. Answer \in Frame
    BY DEF Frame
  <2> QED BY <1>4, <1>t, <2>2, <2>3, <2>4, <2>5, SentInv
<1>5. ASSUME NEW c \in Conns, Send(c, Answer), reader' = [reader EXCEPT ![c] = "reading"],
             UNCHANGED <<room, pc, prior, out, frames, msgVars>>
      PROVE  RoomInv'
  <2>1. reader' \in [Conns -> {"none", "reading", "answering"}]
    BY <1>5, <1>t
  <2>2. UNCHANGED <<room, pc, prior, out, frames, stored, publisher, targets>>
    BY <1>5 DEF msgVars
  <2>3. Answer \in Frame
    BY DEF Frame
  <2> QED BY <1>5, <1>t, <2>1, <2>2, <2>3, SentInv
<1>6. ASSUME NEW m \in Msgs, NEW c \in Conns, Send(c, m),
             targets' = [targets EXCEPT ![m] = @ \ {c}],
             UNCHANGED <<stored, publisher, sockVars>>
      PROVE  RoomInv'
  <2>1. /\ targets' \in [Msgs -> SUBSET Conns] /\ targets'[m] = targets[m] \ {c}
        /\ \A x \in Msgs \ {m} : targets'[x] = targets[x]
    BY <1>6, <1>t
  <2>2. UNCHANGED <<room, pc, prior, out, reader, frames, stored, publisher>>
    BY <1>6 DEF sockVars
  <2>3. \A x \in Msgs : targets'[x] = targets[x] \/ (m = x /\ targets'[x] = targets[x] \ {c})
    BY <2>1
  <2>4. m \in Frame
    BY DEF Frame
  <2> QED BY <1>6, <1>t, <2>1, <2>2, <2>3, <2>4, SentInv
<1>7. CASE \E c \in Conns : Replay(c)
  BY <1>7, ReplayInv
<1>8. CASE \E c \in Conns : Write(c)
  BY <1>8, WriteInv
<1>9. CASE \E m \in Msgs : AppendMessage(m) \/ Publish(m)
  BY <1>9, MessageInv
<1> QED BY <1>1, <1>2, <1>3, <1>4, <1>5, <1>6, <1>7, <1>8, <1>9, Steps

LEMMA RoomInvariant == RoomSafety => []RoomInv
  BY RoomInvInit, RoomStep, PTL DEF RoomSafety

\* Every channel, buffer, handler and publisher has its shape, and no buffer is
\* ever longer than SubscriberOutBufferSize.
THEOREM RoomTypeCorrect == RoomSafety => []RoomTypeOK
<1>1. RoomInv => RoomTypeOK
  BY DEF RoomInv
<1> QED BY <1>1, RoomInvariant, PTL

\* Subscribe before replay is enough: whatever is stored and published while a
\* socket joins reaches it from the one side or the other.
THEOREM RoomReplayComplete == RoomSafety => []ReplayComplete
<1>1. RoomInv => ReplayComplete
  BY DEF RoomInv
<1> QED BY <1>1, RoomInvariant, PTL

\* However takeovers, sends and departures interleave, a socket whose channel was
\* closed under it and that ends for it has been sent session_takeover, unless its
\* buffer overflowed.
THEOREM RoomDisplacedIsTold == RoomSafety => DisplacedIsTold
<1>1. ASSUME RoomInv, NEW c \in Conns, Displaced(c), c \notin missed
      PROVE  Takeover \in got[c]
  <2>1. buffer[c] = <<>> /\ out[c] = "closed"
    BY <1>1 DEF Displaced
  <2>2. DOMAIN buffer[c] = {}
    BY <2>1
  <2> QED BY <1>1, <2>1, <2>2 DEF RoomInv, Told, Frames
<1>2. RoomInv /\ [RoomNext]_roomVars =>
        [\A c \in Conns : Displaced(c) /\ c \notin missed => Takeover \in got[c]]_roomVars
  BY <1>1
<1> QED BY <1>2, RoomInvariant, PTL DEF RoomSafety, DisplacedIsTold
=============================================================================
