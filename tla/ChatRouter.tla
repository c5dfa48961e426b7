----------------------------- MODULE ChatRouter -----------------------------
(***************************************************************************)
(* The chat router (pkg/chat/router.go): per server a ring of ready agents *)
(* and a queue of waiting sessions, and for every session that was offered *)
(* to an agent and not taken up yet a pending assignment with a 30 s       *)
(* timer.  One mutex makes every operation one step; a timer that has      *)
(* fired is a goroutine waiting for that mutex, and cancelling its context *)
(* then comes too late: it finds whatever assignment is there by that      *)
(* time.  Such a timer, and one whose assignment was deleted without a     *)
(* cancel, is a stray.                                                     *)
(*                                                                         *)
(* An agent is in the ring while its control socket is open (AgentReady    *)
(* when it opens, AgentGone when it ends).  Nobody tells the router that a *)
(* session was closed: it is offered on and on, and an agent that opens    *)
(* its socket is refused before the router hears of it.                    *)
(***************************************************************************)
EXTENDS Naturals, Sequences, FiniteSets, Boot

CONSTANTS
    Servers, Agents, Sessions, NoOne,
    Leaving,     \* the agents whose sockets may end
    Responsive,  \* the agents that decline nothing and take up, in the end, what they are offered
    MaxSockets,  \* bound: control sockets of one agent on one server
    MaxRestarts  \* bound: restarts of the process

Assignment == [agent : Agents, server : Servers, fired : BOOLEAN]

ASSUME ChatRouterAssumption ==
    /\ Leaving \subseteq Agents /\ Responsive \subseteq Agents
    /\ NoOne \notin Servers /\ NoOne \notin Assignment
    /\ IsFiniteSet(Sessions)
    /\ MaxSockets \in Nat /\ MaxRestarts \in Nat

VARIABLES
    sockets,   \* open control sockets per server and agent
    ready,     \* server -> ring of agents, head = next pick
    queued,    \* server -> FIFO of sessions
    pending,   \* session -> assignment, or NoOne
    strays,    \* timers that no pending assignment owns
    home,      \* history: the server a session was started on
    acked,     \* history: sessions an agent took up
    ended,    \* sessions whose row is closed
    forgotten, \* history: sessions that waited when the process restarted
    restarts

queueVars == <<ready, queued, pending, strays>>
history == <<home, acked, ended, forgotten>>
routerVars == <<sockets, queueVars, history, restarts>>

Timer == [session : Sessions, agent : Agents, server : Servers, fired : BOOLEAN]

Elements(q) == {q[i] : i \in DOMAIN q}

RouterInit ==
    /\ sockets = [v \in Servers |-> [a \in Agents |-> 0]]
    /\ ready = [v \in Servers |-> <<>>]
    /\ queued = [v \in Servers |-> <<>>]
    /\ pending = [s \in Sessions |-> NoOne]
    /\ strays = {}
    /\ home = [s \in Sessions |-> NoOne] /\ acked = {} /\ ended = {} /\ forgotten = {}
    /\ restarts = 0
-----------------------------------------------------------------------------
\* The other agents' slots, in their order.
Without(ring, a) ==
    LET kept == {i \in DOMAIN ring : ring[i] # a}
        Rank(i) == Cardinality({h \in kept : h <= i})
    IN  [n \in 1..Cardinality(kept) |-> ring[CHOOSE i \in kept : Rank(i) = n]]

\* Mutant: the agent stays where it is.
NotShuffled(ring, a) == ring

\* shuffleToTailLocked: the first slot of that name goes to the tail.
ShuffleToTail(ring, a) ==
    IF a \notin Elements(ring) THEN ring
    ELSE LET i == CHOOSE j \in DOMAIN ring : ring[j] = a /\ \A h \in 1..(j - 1) : ring[h] # a
         IN  Append(SubSeq(ring, 1, i - 1) \o SubSeq(ring, i + 1, Len(ring)), a)

TimerOf(s) == [session |-> s, agent |-> pending[s].agent,
               server |-> pending[s].server, fired |-> pending[s].fired]

\* Cancelling the timers of the sessions in S stops those that have not fired.
Cancelled(S) == strays \union {TimerOf(s) : s \in {x \in S : pending[x].fired}}

\* assignLocked with a ring that is not empty: its head is offered s.
Offered(v, ring, s) ==
    /\ ready' = [ready EXCEPT ![v] = ShuffleToTail(ring, Head(ring))]
    /\ pending' = [pending EXCEPT ![s] = [agent |-> Head(ring), server |-> v, fired |-> FALSE]]

\* The assignment of s is taken back and s waits at the head of the queue.
Requeued(v, ring, s) ==
    /\ ready' = [ready EXCEPT ![v] = ring]
    /\ pending' = [pending EXCEPT ![s] = NoOne]
    /\ queued' = [queued EXCEPT ![v] = <<s>> \o @]

\* A control socket opens.  At most one waiting session is offered, and to the
\* newcomer, who is at the tail before and after.
AgentReady(v, a) ==
    /\ sockets[v][a] < MaxSockets
    /\ sockets' = [sockets EXCEPT ![v][a] = @ + 1]
    /\ LET ring == Append(ready[v], a)
       IN  IF queued[v] = <<>>
             THEN ready' = [ready EXCEPT ![v] = ring] /\ UNCHANGED <<queued, pending>>
             ELSE /\ ready' = [ready EXCEPT ![v] = ShuffleToTail(ring, a)]
                  /\ pending' = [pending EXCEPT ![Head(queued[v])] =
                                    [agent |-> a, server |-> v, fired |-> FALSE]]
                  /\ queued' = [queued EXCEPT ![v] = Tail(@)]
    /\ UNCHANGED <<strays, history, restarts>>

\* Mutant: the agent's unanswered assignments stay with it.
AgentGoneKeeps(v, a) ==
    /\ a \in Leaving
    /\ sockets[v][a] > 0
    /\ sockets' = [sockets EXCEPT ![v][a] = @ - 1]
    /\ ready' = [ready EXCEPT ![v] = Without(@, a)]
    /\ UNCHANGED <<pending, queued, strays, history, restarts>>

\* Mutant: they are dropped instead of queued.
AgentGoneDrops(v, a) ==
    /\ a \in Leaving
    /\ sockets[v][a] > 0
    /\ sockets' = [sockets EXCEPT ![v][a] = @ - 1]
    /\ ready' = [ready EXCEPT ![v] = Without(@, a)]
    /\ pending' = [s \in Sessions |->
          IF pending[s] # NoOne /\ pending[s].agent = a THEN NoOne ELSE pending[s]]
    /\ UNCHANGED <<queued, strays, history, restarts>>

\* A control socket ends: every slot of that name leaves the ring, and every
\* unanswered assignment of that name, in whatever order the map yields them,
\* goes to the head of this server's queue.
AgentGone(v, a) ==
    /\ a \in Leaving
    /\ sockets[v][a] > 0
    /\ sockets' = [sockets EXCEPT ![v][a] = @ - 1]
    /\ ready' = [ready EXCEPT ![v] = Without(@, a)]
    /\ LET mine == {s \in Sessions : pending[s] # NoOne /\ pending[s].agent = a}
       IN  /\ \E order \in {f \in [1..Cardinality(mine) -> mine] : Elements(f) = mine} :
                 queued' = [queued EXCEPT ![v] = order \o @]
           /\ pending' = [s \in Sessions |-> IF s \in mine THEN NoOne ELSE pending[s]]
           /\ strays' = Cancelled(mine)
    /\ UNCHANGED <<history, restarts>>

\* Service.Start: a new session is offered to the head of the ring at once,
\* whoever may be waiting, or else joins the queue.
Enqueue(v, s) ==
    /\ home[s] = NoOne
    /\ home' = [home EXCEPT ![s] = v]
    /\ IF ready[v] = <<>>
         THEN queued' = [queued EXCEPT ![v] = Append(@, s)] /\ UNCHANGED <<ready, pending>>
         ELSE Offered(v, ready[v], s) /\ UNCHANGED queued
    /\ UNCHANGED <<sockets, strays, acked, ended, forgotten, restarts>>

\* The agent took the session up: its session socket opened, or it said so on
\* the control socket or through AckSession.
Ack(a, s) ==
    /\ pending[s] # NoOne /\ pending[s].agent = a
    /\ pending' = [pending EXCEPT ![s] = NoOne]
    /\ strays' = Cancelled({s})
    /\ acked' = acked \union {s}
    /\ UNCHANGED <<sockets, ready, queued, home, ended, forgotten, restarts>>

\* The visitor, an agent or the sweeper closes the session.
CloseSession(s) ==
    /\ home[s] # NoOne
    /\ ended' = ended \union {s}
    /\ UNCHANGED <<sockets, queueVars, home, acked, forgotten, restarts>>

\* The agent declines, naming the server itself.
Decline(v, a, s) ==
    /\ a \notin Responsive
    /\ pending[s] # NoOne /\ pending[s].agent = a
    /\ strays' = Cancelled({s})
    /\ LET ring == ShuffleToTail(ready[v], a)
       IN  IF ring = <<>> \/ Head(ring) = a
             THEN Requeued(v, ring, s)
             ELSE Offered(v, ring, s) /\ UNCHANGED queued
    /\ UNCHANGED <<sockets, history, restarts>>

\* 30 s are over.
Fire(s) ==
    /\ pending[s] # NoOne /\ ~ pending[s].fired
    /\ pending' = [pending EXCEPT ![s].fired = TRUE]
    /\ UNCHANGED <<sockets, ready, queued, strays, history, restarts>>

FireStray(t) ==
    /\ ~ t.fired
    /\ strays' = (strays \ {t}) \union {[t EXCEPT !.fired = TRUE]}
    /\ UNCHANGED <<sockets, ready, queued, pending, history, restarts>>

\* What a timer does when it gets the mutex and finds the assignment: the agent
\* goes to the tail, the session to the head of the queue and from there to the
\* next agent (tryDrainLocked).
Reroute(v, a, s) ==
    LET ring == ShuffleToTail(ready[v], a)
    IN  IF ring = <<>> THEN Requeued(v, ring, s)
        ELSE Offered(v, ring, s) /\ UNCHANGED queued

AckTimer(s) ==
    /\ pending[s] # NoOne /\ pending[s].fired
    /\ Reroute(pending[s].server, pending[s].agent, s)
    /\ UNCHANGED <<sockets, strays, history, restarts>>

\* Only the agent's name is compared, so a stray may end a later assignment of
\* the same session to the same agent, and leaves that one's timer behind.
AckTimerStray(t) ==
    /\ t.fired
    /\ IF pending[t.session] # NoOne /\ pending[t.session].agent = t.agent
         THEN /\ Reroute(t.server, t.agent, t.session)
              /\ strays' = (strays \ {t}) \union {TimerOf(t.session)}
         ELSE strays' = strays \ {t} /\ UNCHANGED <<ready, queued, pending>>
    /\ UNCHANGED <<sockets, history, restarts>>

Waiting == {s \in Sessions : home[s] # NoOne} \ acked

\* The process restarts: NewRouter's maps are empty, nothing fills them from
\* chat_sessions, and the sockets are gone.
Restart ==
    /\ restarts < MaxRestarts /\ restarts' = restarts + 1
    /\ sockets' = [v \in Servers |-> [a \in Agents |-> 0]]
    /\ ready' = [v \in Servers |-> <<>>]
    /\ queued' = [v \in Servers |-> <<>>]
    /\ pending' = [s \in Sessions |-> NoOne]
    /\ strays' = {}
    /\ forgotten' = Waiting
    /\ UNCHANGED <<home, acked, ended>>

RouterNext ==
    \/ \E v \in Servers, a \in Agents :
          \/ AgentReady(v, a) \/ AgentGone(v, a)
          \/ \E s \in Sessions : Decline(v, a, s)
    \/ \E v \in Servers, s \in Sessions : Enqueue(v, s)
    \/ \E a \in Agents, s \in Sessions : Ack(a, s)
    \/ \E s \in Sessions : Fire(s) \/ AckTimer(s) \/ CloseSession(s)
    \/ \E t \in strays : FireStray(t) \/ AckTimerStray(t)
    \/ Restart

RouterSafety == RouterInit /\ [][RouterNext]_routerVars

\* Timers fire and get the mutex; a responsive agent that is offered an open
\* session again and again takes it up.
RouterFairness ==
    /\ \A s \in Sessions : WF_routerVars(Running("router") /\ (Fire(s) \/ AckTimer(s)))
    /\ WF_routerVars(Running("router") /\ \E t \in strays : FireStray(t) \/ AckTimerStray(t))
    /\ \A a \in Responsive, s \in Sessions : SF_routerVars(Running("router") /\ s \notin ended /\ Ack(a, s))
-----------------------------------------------------------------------------
RouterTypeOK ==
    /\ sockets \in [Servers -> [Agents -> 0..MaxSockets]]
    /\ ready \in [Servers -> Seq(Agents)]
    /\ queued \in [Servers -> Seq(Sessions)]
    /\ pending \in [Sessions -> Assignment \union {NoOne}]
    /\ strays \subseteq Timer
    /\ home \in [Sessions -> Servers \union {NoOne}]
    /\ acked \subseteq Sessions /\ ended \subseteq Sessions /\ forgotten \subseteq Sessions
    /\ restarts \in 0..MaxRestarts

\* How often s is held: in some queue, or by an assignment.
Slots(s) == UNION {{v} \X {i \in DOMAIN queued[v] : queued[v][i] = s} : v \in Servers}
Places(s) == Cardinality(Slots(s)) + (IF pending[s] # NoOne THEN 1 ELSE 0)

\* Through timeouts, declines, departures and stray timers a session is in exactly
\* one place until it is taken up, and in none afterwards.  Nothing is said here of
\* the sessions that waited when the process restarted: they are in none, although
\* the comment of Router says that they are recovered from chat_sessions.
InOnePlace ==
    \A s \in Sessions \ forgotten : Places(s) = IF s \in Waiting THEN 1 ELSE 0

\* An unanswered assignment is always one to an agent in the ring it came from:
\* no session waits for somebody who is gone.
PendingHasAgent ==
    \A s \in Sessions : pending[s] # NoOne => pending[s].agent \in Elements(ready[pending[s].server])

\* With more than two agents, two that never answer may pass an open session on
\* between them while the others are offered a closed one that goes round.
CrowdedOut == Cardinality(Agents) > 2 /\ \E t \in ended : pending[t] # NoOne

\* No open session is offered round for ever while a responsive agent is in the
\* ring, whatever other agents decline or leave unanswered and whichever late
\* timers fire: it is taken up, unless it is closed or crowded out by closed ones,
\* that agent leaves, or another agent leaves while it is offered to them, which
\* puts it back in the queue (see AgentGone).
TakenUp ==
    \A v \in Servers, a \in Responsive, s \in Sessions :
       []<>(pending[s] # NoOne /\ pending[s].server = v /\ a \in Elements(ready[v])
               => s \in ended \/ CrowdedOut)
=============================================================================
