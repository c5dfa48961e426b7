---------------------------- MODULE ChatSession ----------------------------
(***************************************************************************)
(* One live-chat session: its row in ClickHouse, the hub of the process    *)
(* that serves it, and the requests that work on both (pkg/chat and the    *)
(* handlers in server/chat_*.go, pkg/api/v1/chat).                         *)
(*                                                                         *)
(* chat_sessions is a ReplacingMergeTree: an update is a read of the       *)
(* newest version (SELECT .. FINAL), a change in memory, and an insert of  *)
(* another version; FINAL keeps the version with the greatest              *)
(* last_message_at, the one inserted last when they tie.  Nothing holds a  *)
(* lock from the read to the insert.                                       *)
(*                                                                         *)
(* A request is a task that goes through the steps of its Path.  Agents'   *)
(* names, e-mail, and the text of messages are left out; "expired" is a    *)
(* status no code writes.                                                  *)
(***************************************************************************)
EXTENDS Naturals, Sequences, FiniteSets

CONSTANTS
    Tasks,       \* requests in progress at the same time
    Requests,    \* the kinds of request that occur
    NoRow,
    IdleTimeout, \* chat.idle_timeout in whole ticks (0: shorter than one tick;
                 \* the setting 0, no sweeper, is Requests without "sweep")
    MaxStarts,   \* bound: requests started, the sweeper's passes not counted
    MaxWork,     \* bound: the last tick at which requests run
    MaxFaults    \* bound: failed inserts and process crashes

Kinds == {"connect", "visitor_msg", "agent_join", "agent_msg", "post",
          "close", "visitor_close", "sweep", "assign", "take", "release"}

ASSUME ChatSessionAssumption ==
    /\ IsFiniteSet(Tasks) /\ Requests \subseteq Kinds
    /\ IdleTimeout \in Nat /\ MaxStarts \in Nat /\ MaxWork \in Nat /\ MaxFaults \in Nat

Closing == {"close", "visitor_close", "sweep"}

MaxTime == MaxWork + IdleTimeout + 1

VARIABLES
    row,       \* what SELECT .. FINAL returns
    visitor,   \* the visitor's socket: off, live, or read-only from the start
    readOnly,  \* the reader goroutine's latch
    agents,    \* agent sockets in the room
    closed,    \* Hub.closed holds the session
    task,      \* the requests in progress
    now, starts, faults,
    inserted,  \* chat_messages: how many rows
    settled    \* history: since when (now) a close has been over for this visitor's socket

hubVars == <<visitor, readOnly, agents, closed, settled>>
sessionVars == <<row, hubVars, task, now, starts, faults, inserted>>

Statuses == {"queued", "assigned", "open", "closed"}
Rows == [status : Statuses, count : Nat, ver : Nat]

\* The steps of each request; look is a read that only decides whether to go on.
Path(k) ==
    CASE k = "connect"     -> <<"look", "subscribe">>
      [] k = "visitor_msg" -> <<"gate", "look", "insert", "get", "put">>
      [] k = "agent_join"  -> <<"look", "enter", "get", "put">>
      [] k = "agent_msg"   -> <<"insert", "get", "put">>
      [] k = "post"        -> <<"look", "insert", "get", "put">>
      [] k \in {"close", "visitor_close"} -> <<"look", "get", "put", "mark">>
      [] k = "sweep"       -> <<"list", "look", "get", "put", "mark">>
      [] k = "take"        -> <<"look", "get", "put">>
      [] OTHER             -> <<"get", "put">>

Idle == [kind |-> "none", pc |-> 0, row |-> NoRow, next |-> NoRow, when |-> 0, late |-> FALSE]

TaskRecords == [kind : Kinds \cup {"none"}, pc : Nat, row : Rows \cup {NoRow},
                next : Rows \cup {NoRow}, when : Nat, late : BOOLEAN]

At(t, label) == task[t].kind # "none" /\ Path(task[t].kind)[task[t].pc] = label

\* The task moves on to its next step, or is over.
Advanced(r) == IF r.pc = Len(Path(r.kind)) THEN Idle ELSE [r EXCEPT !.pc = @ + 1]
Go(t, r) == task' = [task EXCEPT ![t] = Advanced(r)]
End(t) == task' = [task EXCEPT ![t] = Idle]

SessionInit ==
    /\ row = [status |-> "queued", count |-> 0, ver |-> 0]
    /\ visitor = "off" /\ readOnly = FALSE /\ agents = 0 /\ closed = FALSE
    /\ settled = FALSE
    /\ task = [t \in Tasks |-> Idle]
    /\ now = 0 /\ starts = 0 /\ faults = 0 /\ inserted = 0
-----------------------------------------------------------------------------
AllIdle == \A t \in Tasks : task[t] = Idle

\* The visitor's requests come from one reader goroutine per socket, an agent's
\* messages from an agent that is in the room; the assignment is a part of
\* Service.Start, before the visitor has a token to connect with.
OnSocket == {"connect", "visitor_msg", "visitor_close"}

CanStart(k) ==
    /\ k = "connect" => visitor = "off"
    /\ k \in {"visitor_msg", "visitor_close"} => visitor = "live"
    /\ k \in OnSocket => \A t \in Tasks : task[t].kind \notin OnSocket
    /\ k = "agent_msg" => agents > 0
    /\ k = "assign" => starts = 0
    /\ k = "connect" => \A t \in Tasks : task[t].kind # "assign"

Begin(t, k) ==
    /\ task[t] = Idle
    /\ k \in Requests \ {"sweep"} /\ CanStart(k)
    /\ starts < MaxStarts /\ now <= MaxWork
    /\ starts' = starts + 1
    /\ task' = [task EXCEPT ![t] =
          [Idle EXCEPT !.kind = k, !.pc = 1, !.when = now, !.late = settled]]
    /\ UNCHANGED <<row, hubVars, now, faults, inserted>>

\* One pass of the sweeper, a goroutine of its own.
Sweep(t) ==
    /\ task[t] = Idle
    /\ "sweep" \in Requests
    /\ \A u \in Tasks : task[u].kind # "sweep"
    /\ task' = [task EXCEPT ![t] = [Idle EXCEPT !.kind = "sweep", !.pc = 1]]
    /\ UNCHANGED <<row, hubVars, now, starts, faults, inserted>>

\* Mutant: statuses are listed by name and one is forgotten.
StaleAssigned(r) == r.status \in {"queued", "open"} /\ r.ver + IdleTimeout < now

\* ListStaleSessions: last_message_at < cutoff.
Stale(r) == r.status # "closed" /\ r.ver + IdleTimeout < now

List(t) ==
    /\ At(t, "list")
    /\ IF Stale(row) THEN Go(t, task[t]) ELSE End(t)
    /\ UNCHANGED <<row, hubVars, now, starts, faults, inserted>>

\* Hub.IsClosed and the latch, before anything is read from the database.
Gate(t) ==
    /\ At(t, "gate")
    /\ IF readOnly \/ closed
         THEN End(t) /\ readOnly' = TRUE
         ELSE Go(t, task[t]) /\ UNCHANGED readOnly
    /\ UNCHANGED <<row, visitor, agents, closed, settled, now, starts, faults, inserted>>

\* GetSession.  A closed session: a visitor message latches the socket
\* read-only, a visitor connecting is served read-only, a close marks the hub
\* again and is over, everything else is refused.
Marked == closed \/ visitor = "live" \/ agents > 0

Look(t) ==
    /\ At(t, "look")
    /\ IF row.status = "closed" \/ (task[t].kind = "connect" /\ closed)
         THEN /\ End(t)
              /\ readOnly' = (readOnly \/ task[t].kind \in {"visitor_msg", "visitor_close"})
              /\ visitor' = IF task[t].kind = "connect" THEN "readonly" ELSE visitor
              /\ closed' = IF task[t].kind \in Closing THEN Marked ELSE closed
         ELSE /\ task' = [task EXCEPT ![t] = [Advanced(@) EXCEPT !.row = row]]
              /\ UNCHANGED <<visitor, readOnly, closed>>
    /\ UNCHANGED <<row, agents, settled, now, starts, faults, inserted>>

\* The visitor's socket joins the room.
Subscribe(t) ==
    /\ At(t, "subscribe")
    /\ visitor' = "live" /\ readOnly' = FALSE /\ settled' = FALSE
    /\ End(t)
    /\ UNCHANGED <<row, agents, closed, now, starts, faults, inserted>>

\* An agent's socket joins; an open session needs no status change.
Enter(t) ==
    /\ At(t, "enter")
    /\ agents' = agents + 1
    /\ IF task[t].row.status \in {"queued", "assigned"} THEN Go(t, task[t]) ELSE End(t)
    /\ UNCHANGED <<row, visitor, readOnly, closed, settled, now, starts, faults, inserted>>

\* Mutant: an insert that failed is not noticed.
InsertUnchecked(t) ==
    /\ At(t, "insert")
    /\ inserted' \in {inserted, inserted + 1}
    /\ Go(t, task[t])
    /\ UNCHANGED <<row, hubVars, now, starts, faults>>

\* INSERT INTO chat_messages.
Insert(t) ==
    /\ At(t, "insert")
    /\ inserted' = inserted + 1
    /\ Go(t, task[t])
    /\ UNCHANGED <<row, hubVars, now, starts, faults>>

\* The mutators of MarkSessionClosed, AssignSession, ReleaseSession,
\* MarkSessionOpen and AppendMessage.
After(k, r) ==
    CASE k \in Closing -> [r EXCEPT !.status = "closed"]
      [] k \in {"assign", "take"}  -> [r EXCEPT !.status = IF @ = "queued" THEN "assigned" ELSE @]
      [] k = "release"             -> [r EXCEPT !.status = IF @ \in {"assigned", "open"} THEN "queued" ELSE @]
      [] k = "agent_join"          -> [r EXCEPT !.status = IF @ = "closed" THEN @ ELSE "open"]
      [] OTHER                     -> [r EXCEPT !.count = @ + 1]

\* Mutant: UpdateSession keeps the version the mutator chose.
VersionAsGiven(k, r, when) == IF k \in {"visitor_msg", "agent_msg", "post"} THEN when ELSE now

\* last_message_at of the next version: a message's own time when that is later
\* than the row's, else the present.
Version(k, r, when) ==
    IF k \in {"visitor_msg", "agent_msg", "post"} /\ when > r.ver THEN when ELSE now

\* UpdateSession: read the row and build its next version.
Get(t) ==
    /\ At(t, "get")
    /\ LET k == task[t].kind
           next == [After(k, row) EXCEPT !.ver = Version(k, row, task[t].when)]
       IN  task' = [task EXCEPT ![t] = [Advanced(@) EXCEPT !.row = row, !.next = next]]
    /\ UNCHANGED <<row, hubVars, now, starts, faults, inserted>>

\* ... and insert it.
Stored(next) == IF next.ver >= row.ver THEN next ELSE row

Put(t) ==
    /\ At(t, "put")
    /\ row' = Stored(task[t].next)
    /\ Go(t, task[t])
    /\ UNCHANGED <<hubVars, now, starts, faults, inserted>>

\* The insert fails, or lands and is reported as failed: either way the request
\* is over, and a close has told nobody.
PutError(t) ==
    /\ At(t, "put")
    /\ faults < MaxFaults /\ faults' = faults + 1
    /\ row' \in {row, Stored(task[t].next)}
    /\ End(t)
    /\ UNCHANGED <<hubVars, now, starts, inserted>>

\* CloseSession after the insert: Hub.MarkClosed (only while somebody is in the
\* room), then session_closed to everybody.
Mark(t) ==
    /\ At(t, "mark")
    /\ closed' = Marked
    /\ settled' = (settled \/ visitor = "live")
    /\ readOnly' = (readOnly \/ task[t].kind = "visitor_close")
    /\ End(t)
    /\ UNCHANGED <<row, visitor, agents, now, starts, faults, inserted>>

\* Mutant: any subscriber that leaves takes the closed flag along.
AgentLeavesWithFlag ==
    /\ agents > 0
    /\ agents' = agents - 1
    /\ closed' = FALSE
    /\ UNCHANGED <<row, visitor, readOnly, settled, task, now, starts, faults, inserted>>

\* Hub.Unsubscribe: the last one to leave takes the closed flag along.
AgentLeaves ==
    /\ agents > 0
    /\ agents' = agents - 1
    /\ closed' = (closed /\ (visitor = "live" \/ agents > 1))
    /\ UNCHANGED <<row, visitor, readOnly, settled, task, now, starts, faults, inserted>>

VisitorLeaves ==
    /\ visitor # "off"
    /\ visitor' = "off" /\ readOnly' = FALSE /\ settled' = FALSE
    /\ closed' = (closed /\ agents > 0)
    /\ UNCHANGED <<row, agents, task, now, starts, faults, inserted>>

\* The process is restarted: sockets, hub and requests are gone.
Crash ==
    /\ faults < MaxFaults /\ faults' = faults + 1
    /\ visitor' = "off" /\ readOnly' = FALSE /\ agents' = 0 /\ closed' = FALSE
    /\ settled' = FALSE
    /\ task' = [t \in Tasks |-> Idle]
    /\ UNCHANGED <<row, now, starts, inserted>>

\* The clock.  The ticks after MaxWork are kept for the time when only the
\* sweeper is left.
Tick ==
    /\ now < IF AllIdle THEN MaxTime ELSE MaxWork
    /\ now' = now + 1
    /\ UNCHANGED <<row, hubVars, task, starts, faults, inserted>>

TaskStep(t) ==
    \/ List(t) \/ Gate(t) \/ Look(t) \/ Subscribe(t) \/ Enter(t)
    \/ Insert(t) \/ Get(t) \/ Put(t) \/ Mark(t)

SessionNext ==
    \/ \E t \in Tasks : Sweep(t) \/ TaskStep(t) \/ PutError(t) \/ \E k \in Kinds : Begin(t, k)
    \/ AgentLeaves \/ VisitorLeaves \/ Crash \/ Tick

\* Requests run to their end, the sweeper's ticker fires again and again, time
\* passes.
SessionFairness ==
    /\ \A t \in Tasks : WF_sessionVars(TaskStep(t))
    /\ SF_sessionVars(\E t \in Tasks : Sweep(t))
    /\ SF_sessionVars(Tick)

SessionSpec == SessionInit /\ [][SessionNext]_sessionVars /\ SessionFairness
-----------------------------------------------------------------------------
SessionTypeOK ==
    /\ row \in Rows
    /\ visitor \in {"off", "live", "readonly"} /\ agents \in Nat
    /\ readOnly \in BOOLEAN /\ closed \in BOOLEAN /\ settled \in BOOLEAN
    /\ task \in [Tasks -> TaskRecords]
    /\ \A t \in Tasks : task[t].kind # "none" => task[t].pc \in 1..Len(Path(task[t].kind))
    /\ now \in Nat /\ starts \in Nat /\ faults \in Nat /\ inserted \in Nat

\* A message the visitor sends after a close was over, on a socket that was
\* there and stays, is never stored, even when the row has been reopened by a
\* stale writer.
LateSendsRejected ==
    [][\A t \in Tasks : At(t, "insert") /\ task[t].kind = "visitor_msg"
                          /\ task[t].late /\ settled
          => inserted' = inserted]_sessionVars

\* An update that no other one overlaps takes effect: the version column of the
\* new row always beats the row it was computed from.
UpdateTakesEffect ==
    [][\A t \in Tasks : At(t, "put") /\ row = task[t].row /\ faults' = faults
                          /\ task'[t] # task[t]
          => row' = task[t].next]_sessionVars

\* A closed session stays closed.  close.go:3-5: "A closed (or expired) session
\* is terminal: the visitor can never send another message, and the server is
\* the authority".
ClosedIsTerminal == [][row.status = "closed" => row'.status = "closed"]_sessionVars

\* What reopens a closed session: only a request that read the row before the
\* close was stored and inserts its own version after it.
ReopenedOnlyByStaleWrite ==
    [][row.status = "closed" /\ row'.status # "closed"
          => \E t \in Tasks : At(t, "put") /\ task[t].row.status # "closed"]_sessionVars

\* message_count never exceeds the messages stored.
CountNotAhead == row.count <= inserted

\* An abandoned session is closed in the end, and stays closed once no other
\* request is running (sweeper.go: "Without this, every abandoned chat stays
\* queued/assigned/open forever").
AbandonedIsClosed == <>[](row.status = "closed")
=============================================================================
