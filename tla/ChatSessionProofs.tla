------------------------- MODULE ChatSessionProofs -------------------------
(***************************************************************************)
(* Proofs about ChatSession, for any number of requests that overlap in    *)
(* any way, with any number of failed inserts and crashes.  Three          *)
(* inductive invariants: the versions a request has read and built, the    *)
(* messages stored and not counted yet, and the visitor's one reader.      *)
(***************************************************************************)
EXTENDS ChatSession, FiniteSetTheorems, TLAPS

Message == {"visitor_msg", "agent_msg", "post"}

\* The order of the steps in each request's path.
LEMMA PathSteps ==
    ASSUME NEW k \in Kinds
    PROVE  /\ Len(Path(k)) \in Nat \ {0}
           /\ \A i \in 1..Len(Path(k)) :
                 /\ Path(k)[i] = "put" => i > 1 /\ Path(k)[i - 1] = "get"
                 /\ Path(k)[i] = "get" => k # "connect" /\ i < Len(Path(k)) /\ Path(k)[i + 1] = "put"
                 /\ Path(k)[i] = "insert" =>
                       k \in Message /\ i < Len(Path(k)) /\ Path(k)[i + 1] = "get"
                 /\ Path(k)[i] = "get" /\ k \in Message => i > 1 /\ Path(k)[i - 1] = "insert"
                 /\ Path(k)[i] = "subscribe" => k = "connect"
                 /\ k = "visitor_msg" => (Path(k)[i] = "gate" <=> i = 1)
                 /\ Path(k)[i] = "mark" => k \in Closing
                 /\ Path(k)[i] = "look" => i < Len(Path(k))
<1> DEFINE Step(i) ==
      /\ Path(k)[i] = "put" => i > 1 /\ Path(k)[i - 1] = "get"
      /\ Path(k)[i] = "get" => k # "connect" /\ i < Len(Path(k)) /\ Path(k)[i + 1] = "put"
      /\ Path(k)[i] = "insert" => k \in Message /\ i < Len(Path(k)) /\ Path(k)[i + 1] = "get"
      /\ Path(k)[i] = "get" /\ k \in Message => i > 1 /\ Path(k)[i - 1] = "insert"
      /\ Path(k)[i] = "subscribe" => k = "connect"
      /\ k = "visitor_msg" => (Path(k)[i] = "gate" <=> i = 1)
      /\ Path(k)[i] = "mark" => k \in Closing
      /\ Path(k)[i] = "look" => i < Len(Path(k))
<1> SUFFICES Len(Path(k)) \in Nat \ {0} /\ \A i \in 1..Len(Path(k)) : Step(i)
  OBVIOUS
<1> USE DEF Message, Closing
<1>1. CASE k = "connect"
  <2>1. Path(k) = <<"look", "subscribe">>
    BY <1>1 DEF Path
  <2>2. Len(Path(k)) = 2 /\ Path(k)[1] = "look" /\ Path(k)[2] = "subscribe"
    BY <2>1
  <2> HIDE <2>1
  <2>3. ASSUME NEW i \in 1..2 PROVE Step(i)
    <3>0. i = 1 \/ i = 2
      OBVIOUS
    <3>1. CASE i = 1
      BY <1>1, <2>2, <3>1
    <3>2. CASE i = 2
      BY <1>1, <2>2, <3>2
    <3> QED BY <3>0, <3>1, <3>2
  <2> QED BY <2>2, <2>3
<1>2. CASE k = "visitor_msg"
  <2>1. Path(k) = <<"gate", "look", "insert", "get", "put">>
    BY <1>2 DEF Path
  <2>2. Len(Path(k)) = 5 /\ Path(k)[1] = "gate" /\ Path(k)[2] = "look" /\ Path(k)[3] = "insert" /\ Path(k)[4] = "get" /\ Path(k)[5] = "put"
    BY <2>1
  <2> HIDE <2>1
  <2>3. ASSUME NEW i \in 1..5 PROVE Step(i)
    <3>0. i = 1 \/ i = 2 \/ i = 3 \/ i = 4 \/ i = 5
      OBVIOUS
    <3>1. CASE i = 1
      BY <1>2, <2>2, <3>1
    <3>2. CASE i = 2
      BY <1>2, <2>2, <3>2
    <3>3. CASE i = 3
      BY <1>2, <2>2, <3>3
    <3>4. CASE i = 4
      BY <1>2, <2>2, <3>4
    <3>5. CASE i = 5
      BY <1>2, <2>2, <3>5
    <3> QED BY <3>0, <3>1, <3>2, <3>3, <3>4, <3>5
  <2> QED BY <2>2, <2>3
<1>3. CASE k = "agent_join"
  <2>1. Path(k) = <<"look", "enter", "get", "put">>
    BY <1>3 DEF Path
  <2>2. Len(Path(k)) = 4 /\ Path(k)[1] = "look" /\ Path(k)[2] = "enter" /\ Path(k)[3] = "get" /\ Path(k)[4] = "put"
    BY <2>1
  <2> HIDE <2>1
  <2>3. ASSUME NEW i \in 1..4 PROVE Step(i)
    <3>0. i = 1 \/ i = 2 \/ i = 3 \/ i = 4
      OBVIOUS
    <3>1. CASE i = 1
      BY <1>3, <2>2, <3>1
    <3>2. CASE i = 2
      BY <1>3, <2>2, <3>2
    <3>3. CASE i = 3
      BY <1>3, <2>2, <3>3
    <3>4. CASE i = 4
      BY <1>3, <2>2, <3>4
    <3> QED BY <3>0, <3>1, <3>2, <3>3, <3>4
  <2> QED BY <2>2, <2>3
<1>4. CASE k = "agent_msg"
  <2>1. Path(k) = <<"insert", "get", "put">>
    BY <1>4 DEF Path
  <2>2. Len(Path(k)) = 3 /\ Path(k)[1] = "insert" /\ Path(k)[2] = "get" /\ Path(k)[3] = "put"
    BY <2>1
  <2> HIDE <2>1
  <2>3. ASSUME NEW i \in 1..3 PROVE Step(i)
    <3>0. i = 1 \/ i = 2 \/ i = 3
      OBVIOUS
    <3>1. CASE i = 1
      BY <1>4, <2>2, <3>1
    <3>2. CASE i = 2
      BY <1>4, <2>2, <3>2
    <3>3. CASE i = 3
      BY <1>4, <2>2, <3>3
    <3> QED BY <3>0, <3>1, <3>2, <3>3
  <2> QED BY <2>2, <2>3
<1>5. CASE k = "post"
  <2>1. Path(k) = <<"look", "insert", "get", "put">>
    BY <1>5 DEF Path
  <2>2. Len(Path(k)) = 4 /\ Path(k)[1] = "look" /\ Path(k)[2] = "insert" /\ Path(k)[3] = "get" /\ Path(k)[4] = "put"
    BY <2>1
  <2> HIDE <2>1
  <2>3. ASSUME NEW i \in 1..4 PROVE Step(i)
    <3>0. i = 1 \/ i = 2 \/ i = 3 \/ i = 4
      OBVIOUS
    <3>1. CASE i = 1
      BY <1>5, <2>2, <3>1
    <3>2. CASE i = 2
      BY <1>5, <2>2, <3>2
    <3>3. CASE i = 3
      BY <1>5, <2>2, <3>3
    <3>4. CASE i = 4
      BY <1>5, <2>2, <3>4
    <3> QED BY <3>0, <3>1, <3>2, <3>3, <3>4
  <2> QED BY <2>2, <2>3
<1>6. CASE k \in {"close", "visitor_close"}
  <2>1. Path(k) = <<"look", "get", "put", "mark">>
    BY <1>6 DEF Path
  <2>2. Len(Path(k)) = 4 /\ Path(k)[1] = "look" /\ Path(k)[2] = "get" /\ Path(k)[3] = "put" /\ Path(k)[4] = "mark"
    BY <2>1
  <2> HIDE <2>1
  <2>3. ASSUME NEW i \in 1..4 PROVE Step(i)
    <3>0. i = 1 \/ i = 2 \/ i = 3 \/ i = 4
      OBVIOUS
    <3>1. CASE i = 1
      BY <1>6, <2>2, <3>1
    <3>2. CASE i = 2
      BY <1>6, <2>2, <3>2
    <3>3. CASE i = 3
      BY <1>6, <2>2, <3>3
    <3>4. CASE i = 4
      BY <1>6, <2>2, <3>4
    <3> QED BY <3>0, <3>1, <3>2, <3>3, <3>4
  <2> QED BY <2>2, <2>3
<1>7. CASE k = "sweep"
  <2>1. Path(k) = <<"list", "look", "get", "put", "mark">>
    BY <1>7 DEF Path
  <2>2. Len(Path(k)) = 5 /\ Path(k)[1] = "list" /\ Path(k)[2] = "look" /\ Path(k)[3] = "get" /\ Path(k)[4] = "put" /\ Path(k)[5] = "mark"
    BY <2>1
  <2> HIDE <2>1
  <2>3. ASSUME NEW i \in 1..5 PROVE Step(i)
    <3>0. i = 1 \/ i = 2 \/ i = 3 \/ i = 4 \/ i = 5
      OBVIOUS
    <3>1. CASE i = 1
      BY <1>7, <2>2, <3>1
    <3>2. CASE i = 2
      BY <1>7, <2>2, <3>2
    <3>3. CASE i = 3
      BY <1>7, <2>2, <3>3
    <3>4. CASE i = 4
      BY <1>7, <2>2, <3>4
    <3>5. CASE i = 5
      BY <1>7, <2>2, <3>5
    <3> QED BY <3>0, <3>1, <3>2, <3>3, <3>4, <3>5
  <2> QED BY <2>2, <2>3
<1>8. CASE k = "take"
  <2>1. Path(k) = <<"look", "get", "put">>
    BY <1>8 DEF Path
  <2>2. Len(Path(k)) = 3 /\ Path(k)[1] = "look" /\ Path(k)[2] = "get" /\ Path(k)[3] = "put"
    BY <2>1
  <2> HIDE <2>1
  <2>3. ASSUME NEW i \in 1..3 PROVE Step(i)
    <3>0. i = 1 \/ i = 2 \/ i = 3
      OBVIOUS
    <3>1. CASE i = 1
      BY <1>8, <2>2, <3>1
    <3>2. CASE i = 2
      BY <1>8, <2>2, <3>2
    <3>3. CASE i = 3
      BY <1>8, <2>2, <3>3
    <3> QED BY <3>0, <3>1, <3>2, <3>3
  <2> QED BY <2>2, <2>3
<1>9. CASE k \in {"assign", "release"}
  <2>1. Path(k) = <<"get", "put">>
    BY <1>9 DEF Path
  <2>2. Len(Path(k)) = 2 /\ Path(k)[1] = "get" /\ Path(k)[2] = "put"
    BY <2>1
  <2> HIDE <2>1
  <2>3. ASSUME NEW i \in 1..2 PROVE Step(i)
    <3>0. i = 1 \/ i = 2
      OBVIOUS
    <3>1. CASE i = 1
      BY <1>9, <2>2, <3>1
    <3>2. CASE i = 2
      BY <1>9, <2>2, <3>2
    <3> QED BY <3>0, <3>1, <3>2
  <2> QED BY <2>2, <2>3
<1> QED BY <1>1, <1>2, <1>3, <1>4, <1>5, <1>6, <1>7, <1>8, <1>9 DEF Kinds

LEMMA IdleTyped == Idle \in TaskRecords /\ Idle.kind = "none" /\ Idle.when = 0
  BY DEF Idle, TaskRecords

\* A request in progress is of some kind and at some step of its path.
LEMMA InProgress ==
    ASSUME SessionTypeOK, NEW t \in Tasks, task[t].kind # "none"
    PROVE  /\ task[t] \in TaskRecords /\ task[t].kind \in Kinds
           /\ task[t].pc \in 1..Len(Path(task[t].kind)) /\ Len(Path(task[t].kind)) \in Nat
<1>1. task[t] \in TaskRecords
  BY DEF SessionTypeOK
<1>2. task[t].kind \in Kinds
  BY <1>1 DEF TaskRecords
<1> QED BY <1>1, <1>2, PathSteps DEF SessionTypeOK

\* A request that moves on keeps its kind, its time and what it knows of the
\* close; it is one step further on its path, or over.
Onward(r, x) ==
    /\ x \in TaskRecords
    /\ \/ x = Idle
       \/ /\ x.kind = r.kind /\ x.pc = r.pc + 1 /\ x.when = r.when /\ x.late = r.late
          /\ r.pc < Len(Path(r.kind))

LEMMA AdvancedOnward ==
    ASSUME NEW r \in TaskRecords, r.kind \in Kinds, r.pc \in 1..Len(Path(r.kind))
    PROVE  /\ Onward(r, Advanced(r))
           /\ Advanced(r) # Idle => Advanced(r) = [r EXCEPT !.pc = @ + 1]
<1>0. Len(Path(r.kind)) \in Nat
  BY PathSteps
<1>1. CASE r.pc = Len(Path(r.kind))
  BY <1>1, IdleTyped DEF Advanced, Onward
<1>2. CASE r.pc # Len(Path(r.kind))
  <2> DEFINE x == [r EXCEPT !.pc = @ + 1]
  <2>1. Advanced(r) = x
    BY <1>2 DEF Advanced
  <2>2. x \in TaskRecords /\ x.kind = r.kind /\ x.pc = r.pc + 1 /\ x.when = r.when /\ x.late = r.late
    BY DEF TaskRecords
  <2>3. r.pc < Len(Path(r.kind))
    BY <1>0, <1>2
  <2> QED BY <2>1, <2>2, <2>3 DEF Onward
<1> QED BY <1>1, <1>2
\* What UpdateSession builds from the row it read: a row that beats it, counts
\* one message more if it is for a message, and is closed if it was closed.
NextRow(k, r, when) == [After(k, r) EXCEPT !.ver = Version(k, r, when)]

LEMMA NextRowOK ==
    ASSUME NEW k \in Kinds \ {"connect"}, NEW r \in Rows, NEW when \in Nat, now \in Nat
    PROVE  /\ NextRow(k, r, when) \in Rows
           /\ r.status = "closed" => NextRow(k, r, when).status = "closed"
           /\ NextRow(k, r, when).count = IF k \in Message THEN r.count + 1 ELSE r.count
           /\ r.ver <= now /\ when <= now =>
                 r.ver <= NextRow(k, r, when).ver /\ NextRow(k, r, when).ver <= now
<1> DEFINE a == After(k, r)
           v == Version(k, r, when)
<1>0. r.status \in Statuses /\ r.count \in Nat /\ r.ver \in Nat
  BY DEF Rows
<1>1. /\ a \in Rows /\ (r.status = "closed" => a.status = "closed")
      /\ a.count = IF k \in Message THEN r.count + 1 ELSE r.count
  <2>1. CASE k \in Closing
    <3>1. a = [r EXCEPT !.status = "closed"] /\ k \notin Message
      BY <2>1 DEF After, Closing, Message
    <3> QED BY <1>0, <3>1 DEF Rows, Statuses
  <2>2. CASE k \in {"assign", "take"}
    <3>1. a = [r EXCEPT !.status = IF @ = "queued" THEN "assigned" ELSE @] /\ k \notin Message
      BY <2>2 DEF After, Closing, Message
    <3> QED BY <1>0, <3>1 DEF Rows, Statuses
  <2>3. CASE k = "release"
    <3>1. a = [r EXCEPT !.status = IF @ \in {"assigned", "open"} THEN "queued" ELSE @]
          /\ k \notin Message
      BY <2>3 DEF After, Closing, Message
    <3> QED BY <1>0, <3>1 DEF Rows, Statuses
  <2>4. CASE k = "agent_join"
    <3>1. a = [r EXCEPT !.status = IF @ = "closed" THEN @ ELSE "open"] /\ k \notin Message
      BY <2>4 DEF After, Closing, Message
    <3> QED BY <1>0, <3>1 DEF Rows, Statuses
  <2>5. CASE k \in Message
    <3>1. a = [r EXCEPT !.count = @ + 1]
      BY <2>5 DEF After, Closing, Message
    <3> QED BY <1>0, <2>5, <3>1 DEF Rows, Statuses
  <2> QED BY <2>1, <2>2, <2>3, <2>4, <2>5 DEF Kinds, Closing, Message
<1>2. v \in Nat /\ (r.ver <= now /\ when <= now => r.ver <= v /\ v <= now)
  BY <1>0 DEF Version
<1> HIDE DEF a, v
<1>3. NextRow(k, r, when) = [a EXCEPT !.ver = v]
  BY DEF NextRow, a, v
<1> DEFINE b == [a EXCEPT !.ver = v]
<1>4. b \in Rows /\ b.status = a.status /\ b.count = a.count /\ b.ver = v
  BY <1>1, <1>2 DEF Rows
<1> QED BY <1>1, <1>2, <1>3, <1>4

\* The request after Get.
Built(t) ==
    [[task[t] EXCEPT !.pc = @ + 1] EXCEPT
        !.row = row, !.next = NextRow(task[t].kind, row, task[t].when)]

LEMMA GetBuilds ==
    ASSUME SessionTypeOK, NEW t \in Tasks, Get(t)
    PROVE  /\ task' = [task EXCEPT ![t] = Built(t)]
           /\ Onward(task[t], Built(t)) /\ Built(t).kind = task[t].kind
           /\ Built(t).row = row /\ Built(t).next = NextRow(task[t].kind, row, task[t].when)
           /\ task[t].kind \in Kinds \ {"connect"} /\ task[t].when \in Nat
<1> DEFINE r == task[t]
           b == NextRow(r.kind, row, r.when)
           y == [r EXCEPT !.pc = @ + 1]
           x == [y EXCEPT !.row = row, !.next = b]
<1>1. At(t, "get")
  BY DEF Get
<1>2. /\ r \in TaskRecords /\ r.kind \in Kinds /\ r.pc \in 1..Len(Path(r.kind))
      /\ Len(Path(r.kind)) \in Nat /\ r.when \in Nat /\ row \in Rows /\ now \in Nat
  BY <1>1, InProgress DEF At, SessionTypeOK, TaskRecords
<1>3. r.pc < Len(Path(r.kind)) /\ r.kind # "connect"
  BY <1>1, <1>2, PathSteps DEF At
<1>4. Advanced(r) = y
  BY <1>2, <1>3 DEF Advanced
<1>5. b \in Rows
  BY <1>2, <1>3, NextRowOK
<1>6. y \in TaskRecords /\ y.kind = r.kind /\ y.pc = r.pc + 1 /\ y.when = r.when /\ y.late = r.late
  BY <1>2 DEF TaskRecords
<1> HIDE DEF b
<1>7. task' = [task EXCEPT ![t] = x]
  BY <1>2, <1>4 DEF Get, NextRow, SessionTypeOK, b
<1> HIDE DEF y
<1>8. x \in TaskRecords /\ x.kind = y.kind /\ x.pc = y.pc /\ x.when = y.when /\ x.late = y.late
      /\ x.row = row /\ x.next = b
  BY <1>2, <1>5, <1>6 DEF TaskRecords
<1>9. Built(t) = x
  BY DEF Built, y, b
<1> HIDE DEF x
<1> QED BY <1>2, <1>3, <1>6, <1>7, <1>8, <1>9 DEF Onward, b

\* Every step of a request touches no other request, and the request moves on.
LEMMA TaskMoves ==
    ASSUME SessionTypeOK, NEW t \in Tasks, TaskStep(t) \/ PutError(t)
    PROVE  /\ task[t].kind # "none"
           /\ task' = [task EXCEPT ![t] = task'[t]]
           /\ \A u \in Tasks \ {t} : task'[u] = task[u]
           /\ Onward(task[t], task'[t])
<1> DEFINE r == task[t]
<1>0. r.kind # "none"
  BY DEF TaskStep, PutError, List, Gate, Look, Subscribe, Enter, Insert, Get, Put, Mark, At
<1>1. /\ r \in TaskRecords /\ r.kind \in Kinds /\ task \in [Tasks -> TaskRecords]
      /\ r.pc \in 1..Len(Path(r.kind)) /\ Len(Path(r.kind)) \in Nat
  BY <1>0, InProgress DEF SessionTypeOK
<1>2. ASSUME NEW x, task' = [task EXCEPT ![t] = x]
      PROVE  task'[t] = x /\ (\A u \in Tasks \ {t} : task'[u] = task[u])
             /\ task' = [task EXCEPT ![t] = task'[t]]
  BY <1>1, <1>2
<1>3. CASE End(t)
  <2>1. task' = [task EXCEPT ![t] = Idle]
    BY <1>3 DEF End
  <2> QED BY <1>0, <1>2, <2>1, IdleTyped DEF Onward
<1>4. CASE Go(t, r)
  <2>1. task' = [task EXCEPT ![t] = Advanced(r)]
    BY <1>4 DEF Go
  <2> QED BY <1>0, <1>1, <1>2, <2>1, AdvancedOnward
<1>5. CASE Look(t) /\ ~ End(t)
  <2> DEFINE y == [r EXCEPT !.pc = @ + 1]
             x == [y EXCEPT !.row = row]
  <2>1. task' = [task EXCEPT ![t] = [Advanced(r) EXCEPT !.row = row]] /\ At(t, "look")
    BY <1>1, <1>5 DEF Look
  <2>2. r.pc < Len(Path(r.kind))
    BY <1>1, <2>1, PathSteps DEF At
  <2>3. Advanced(r) = y
    BY <1>1, <2>2 DEF Advanced
  <2>4. y \in TaskRecords /\ y.kind = r.kind /\ y.pc = r.pc + 1 /\ y.when = r.when /\ y.late = r.late
    BY <1>1 DEF TaskRecords
  <2> HIDE DEF y
  <2>5. x \in TaskRecords /\ x.kind = y.kind /\ x.pc = y.pc /\ x.when = y.when /\ x.late = y.late
    BY <2>4 DEF TaskRecords, SessionTypeOK
  <2>6. task' = [task EXCEPT ![t] = x]
    BY <2>1, <2>3
  <2> HIDE DEF x
  <2> QED BY <1>0, <1>2, <2>2, <2>4, <2>5, <2>6 DEF Onward
<1>6. CASE Get(t)
  <2>1. /\ Onward(r, Built(t)) /\ task' = [task EXCEPT ![t] = Built(t)]
    BY <1>6, GetBuilds
  <2> QED BY <1>0, <1>2, <2>1
<1> QED BY <1>3, <1>4, <1>5, <1>6 DEF TaskStep, PutError, List, Gate, Subscribe, Enter, Insert, Put, Mark, Look
-----------------------------------------------------------------------------
(* Versions.  The row that a request is about to insert beats the row it   *)
(* was computed from, is not in the future, and does not reopen it.        *)
PutOK(t) ==
    At(t, "put") =>
       /\ task[t].row \in Rows /\ task[t].next \in Rows
       /\ task[t].row.ver <= task[t].next.ver /\ task[t].next.ver <= now
       /\ task[t].row.status = "closed" => task[t].next.status = "closed"

VersionInv ==
    /\ SessionTypeOK
    /\ row.ver <= now
    /\ \A t \in Tasks : task[t].when <= now /\ PutOK(t)

\* A request that comes to its insert has just read the row.
LEMMA PutAfterGet ==
    ASSUME SessionTypeOK, NEW t \in Tasks, TaskStep(t) \/ PutError(t), At(t, "put")'
    PROVE  Get(t)
<1>1. task[t].kind # "none" /\ Onward(task[t], task'[t]) /\ task'[t].kind # "none"
  BY TaskMoves DEF At
<1>2. /\ task'[t].kind = task[t].kind /\ task'[t].pc = task[t].pc + 1
      /\ task[t].pc < Len(Path(task[t].kind))
  BY <1>1, IdleTyped DEF Onward
<1>3. /\ task[t].kind \in Kinds /\ task[t].pc \in 1..Len(Path(task[t].kind))
      /\ Len(Path(task[t].kind)) \in Nat
  BY <1>1, InProgress
<1>4. task[t].pc + 1 \in 1..Len(Path(task[t].kind)) /\ (task[t].pc + 1) - 1 = task[t].pc
  BY <1>2, <1>3
<1>5. Path(task[t].kind)[task[t].pc + 1] = "put"
  BY <1>2 DEF At
<1>6. Path(task[t].kind)[task[t].pc] = "get"
  BY <1>3, <1>4, <1>5, PathSteps
<1> QED BY <1>6 DEF TaskStep, PutError, List, Gate, Look, Subscribe, Enter, Insert, Get, Put, Mark, At

LEMMA VersionInit == SessionInit => VersionInv
<1> SUFFICES ASSUME SessionInit PROVE VersionInv
  OBVIOUS
<1>1. row \in Rows /\ row.ver = 0 /\ now = 0
  BY DEF SessionInit, Rows, Statuses
<1>2. \A t \in Tasks : task[t] = Idle
  BY DEF SessionInit
<1>3. task \in [Tasks -> TaskRecords]
  BY IdleTyped DEF SessionInit
<1>4. /\ visitor \in {"off", "live", "readonly"} /\ agents \in Nat
      /\ readOnly \in BOOLEAN /\ closed \in BOOLEAN /\ settled \in BOOLEAN
      /\ now \in Nat /\ starts \in Nat /\ faults \in Nat /\ inserted \in Nat
  BY DEF SessionInit
<1>5. SessionTypeOK
  BY <1>1, <1>2, <1>3, <1>4, IdleTyped DEF SessionTypeOK
<1>6. \A t \in Tasks : task[t].when <= now /\ PutOK(t)
  BY <1>1, <1>2, IdleTyped DEF PutOK, At
<1> QED BY <1>1, <1>5, <1>6 DEF VersionInv

LEMMA VersionTask ==
    ASSUME VersionInv, NEW t \in Tasks, TaskStep(t) \/ PutError(t)
    PROVE  VersionInv'
<1>0. SessionTypeOK /\ row \in Rows /\ row.ver \in Nat /\ now \in Nat /\ row.ver <= now
  BY DEF VersionInv, SessionTypeOK, Rows
<1>1. /\ task[t].kind # "none" /\ Onward(task[t], task'[t])
      /\ task' = [task EXCEPT ![t] = task'[t]] /\ \A u \in Tasks \ {t} : task'[u] = task[u]
  BY <1>0, TaskMoves
<1>2. task[t] \in TaskRecords /\ task[t].kind \in Kinds /\ task[t].pc \in 1..Len(Path(task[t].kind))
      /\ Len(Path(task[t].kind)) \in Nat
  BY <1>0, <1>1, InProgress
<1>3. task' \in [Tasks -> TaskRecords]
  <2>1. task'[t] \in TaskRecords /\ task \in [Tasks -> TaskRecords]
    BY <1>0, <1>1 DEF Onward, SessionTypeOK
  <2> HIDE <1>0
  <2> DEFINE x == task'[t]
  <2>2. task' = [task EXCEPT ![t] = x] /\ x \in TaskRecords
    BY <1>1, <2>1
  <2> HIDE DEF x
  <2> QED BY <2>1, <2>2
<1>4. \A u \in Tasks : task'[u].kind # "none" => task'[u].pc \in 1..Len(Path(task'[u].kind))
  <2>1. task'[t].kind # "none" => task'[t].pc \in 1..Len(Path(task'[t].kind))
    BY <1>1, <1>2, IdleTyped DEF Onward
  <2> QED BY <1>0, <1>1, <2>1 DEF SessionTypeOK
<1>5. now' = now
  BY DEF TaskStep, PutError, List, Gate, Look, Subscribe, Enter, Insert, Get, Put, Mark
<1>6. row' \in Rows /\ row'.ver <= now'
  <2>1. CASE At(t, "put")
    <3>1. /\ task[t].next \in Rows /\ task[t].next.ver <= now
          /\ Stored(task[t].next) \in {row, task[t].next}
      BY <2>1 DEF VersionInv, PutOK, Stored
    <3>2. row' \in {row, Stored(task[t].next)}
      BY <2>1 DEF TaskStep, PutError, List, Gate, Look, Subscribe, Enter, Insert, Get, Put, Mark, At
    <3> QED BY <1>0, <1>5, <3>1, <3>2
  <2>2. CASE ~ At(t, "put")
    <3>1. row' = row
      BY <2>2 DEF TaskStep, PutError, List, Gate, Look, Subscribe, Enter, Insert, Get, Put, Mark, hubVars
    <3> QED BY <1>0, <1>5, <3>1
  <2> QED BY <2>1, <2>2
<1>7. visitor' \in {"off", "live", "readonly"} /\ agents' \in Nat
  BY <1>0 DEF SessionTypeOK, TaskStep, PutError, List, Gate, Look, Subscribe, Enter, Insert, Get, Put, Mark, hubVars
<1>8. readOnly' \in BOOLEAN /\ closed' \in BOOLEAN /\ settled' \in BOOLEAN
  BY <1>0, Zenon DEF SessionTypeOK, TaskStep, PutError, List, Gate, Look, Subscribe, Enter, Insert, Get, Put, Mark,
     hubVars, Marked
<1>9. starts' \in Nat /\ faults' \in Nat /\ inserted' \in Nat
  BY <1>0 DEF SessionTypeOK, TaskStep, PutError, List, Gate, Look, Subscribe, Enter, Insert, Get, Put, Mark
<1>10. SessionTypeOK'
  BY <1>0, <1>3, <1>4, <1>5, <1>6, <1>7, <1>8, <1>9 DEF SessionTypeOK
<1>11. \A u \in Tasks : task'[u].when <= now'
  <2>1. task'[t].when <= now
    BY <1>0, <1>1, IdleTyped DEF VersionInv, Onward
  <2> QED BY <1>1, <1>5, <2>1 DEF VersionInv
<1>12. ASSUME NEW u \in Tasks PROVE PutOK(u)'
  <2>1. CASE u # t
    BY <1>1, <1>5, <2>1 DEF VersionInv, PutOK, At
  <2>2. CASE u = t /\ At(t, "put")'
    <3>1. Get(t)
      BY <1>0, <2>2, PutAfterGet
    <3>2. /\ task'[t] = Built(t) /\ task[t].kind \in Kinds \ {"connect"} /\ task[t].when \in Nat
          /\ Built(t).row = row /\ Built(t).next = NextRow(task[t].kind, row, task[t].when)
      BY <1>0, <3>1, GetBuilds DEF SessionTypeOK
    <3>3. task[t].when <= now
      BY DEF VersionInv
    <3> QED BY <1>0, <1>5, <2>2, <3>2, <3>3, NextRowOK DEF PutOK
  <2> QED BY <2>1, <2>2 DEF PutOK
<1> QED BY <1>6, <1>10, <1>11, <1>12 DEF VersionInv
\* A request that starts: only an idle slot changes.
LEMMA Starting ==
    ASSUME SessionTypeOK, NEW t \in Tasks, NEW k \in Kinds, Begin(t, k) \/ (Sweep(t) /\ k = "sweep")
    PROVE  /\ task[t] = Idle /\ (\A u \in Tasks \ {t} : task'[u] = task[u])
           /\ task' \in [Tasks -> TaskRecords]
           /\ task'[t].kind = k /\ task'[t].pc = 1 /\ task'[t].when \in {0, now}
           /\ (Begin(t, k) => task'[t].late = settled)
           /\ UNCHANGED <<row, hubVars, now, faults, inserted>> /\ starts' \in Nat
<1>0. task \in [Tasks -> TaskRecords] /\ now \in Nat /\ settled \in BOOLEAN /\ starts \in Nat
  BY DEF SessionTypeOK
<1>1. CASE Begin(t, k)
  <2> DEFINE x == [Idle EXCEPT !.kind = k, !.pc = 1, !.when = now, !.late = settled]
  <2>2. x \in TaskRecords /\ x.kind = k /\ x.pc = 1 /\ x.when = now /\ x.late = settled
    BY <1>0, IdleTyped DEF TaskRecords
  <2>3. task' = [task EXCEPT ![t] = x] /\ task[t] = Idle /\ starts' = starts + 1
        /\ UNCHANGED <<row, hubVars, now, faults, inserted>>
    BY <1>1 DEF Begin
  <2> HIDE DEF x
  <2> QED BY <1>0, <2>2, <2>3
<1>2. CASE Sweep(t) /\ k = "sweep" /\ ~ Begin(t, k)
  <2> DEFINE x == [Idle EXCEPT !.kind = k, !.pc = 1]
  <2>2. x \in TaskRecords /\ x.kind = k /\ x.pc = 1 /\ x.when = 0
    BY <1>0, IdleTyped DEF TaskRecords
  <2>3. task' = [task EXCEPT ![t] = x] /\ task[t] = Idle /\ starts' = starts
        /\ UNCHANGED <<row, hubVars, now, faults, inserted>>
    BY <1>2 DEF Sweep
  <2> HIDE DEF x
  <2> QED BY <1>0, <1>2, <2>2, <2>3
<1> QED BY <1>1, <1>2

\* The steps of the requests, and the others.
LEMMA Steps ==
    ASSUME [SessionNext]_sessionVars
    PROVE  \/ \E t \in Tasks : TaskStep(t) \/ PutError(t)
           \/ \E t \in Tasks, k \in Kinds : Begin(t, k) \/ (Sweep(t) /\ k = "sweep")
           \/ AgentLeaves \/ VisitorLeaves \/ Crash \/ Tick \/ UNCHANGED sessionVars
  BY DEF SessionNext, Kinds

LEMMA VersionStep == VersionInv /\ [SessionNext]_sessionVars => VersionInv'
<1> SUFFICES ASSUME VersionInv, [SessionNext]_sessionVars PROVE VersionInv'
  OBVIOUS
<1>0. SessionTypeOK /\ row \in Rows /\ row.ver \in Nat /\ now \in Nat /\ row.ver <= now
  BY DEF VersionInv, SessionTypeOK, Rows
<1>1. CASE \E t \in Tasks : TaskStep(t) \/ PutError(t)
  BY <1>1, VersionTask
<1>2. ASSUME NEW t \in Tasks, NEW k \in Kinds, Begin(t, k) \/ (Sweep(t) /\ k = "sweep")
      PROVE  VersionInv'
  <2>1. /\ task[t] = Idle /\ (\A u \in Tasks \ {t} : task'[u] = task[u])
        /\ task' \in [Tasks -> TaskRecords]
        /\ task'[t].kind = k /\ task'[t].pc = 1 /\ task'[t].when \in {0, now}
        /\ UNCHANGED <<row, hubVars, now, faults, inserted>> /\ starts' \in Nat
    BY <1>0, <1>2, Starting
  <2>2. Len(Path(k)) \in Nat \ {0} /\ Path(k)[1] # "put"
    BY PathSteps
  <2>3. \A u \in Tasks : task'[u].kind # "none" => task'[u].pc \in 1..Len(Path(task'[u].kind))
    BY <1>0, <2>1, <2>2 DEF SessionTypeOK
  <2>4. SessionTypeOK'
    BY <1>0, <2>1, <2>3 DEF SessionTypeOK, hubVars
  <2>5. \A u \in Tasks : task'[u].when <= now' /\ PutOK(u)'
    BY <1>0, <2>1, <2>2 DEF VersionInv, PutOK, At
  <2> QED BY <1>0, <2>1, <2>4, <2>5 DEF VersionInv
<1>3. CASE AgentLeaves \/ VisitorLeaves \/ UNCHANGED sessionVars
  <2>1. UNCHANGED <<row, task, now, starts, faults, inserted>>
    BY <1>3 DEF AgentLeaves, VisitorLeaves, sessionVars
  <2>2. visitor' \in {"off", "live", "readonly"} /\ agents' \in Nat
    BY <1>0, <1>3 DEF AgentLeaves, VisitorLeaves, sessionVars, hubVars, SessionTypeOK
  <2>3. readOnly' \in BOOLEAN /\ closed' \in BOOLEAN /\ settled' \in BOOLEAN
    BY <1>0, <1>3, Zenon DEF AgentLeaves, VisitorLeaves, sessionVars, hubVars, SessionTypeOK
  <2> QED BY <1>0, <2>1, <2>2, <2>3 DEF VersionInv, PutOK, At, SessionTypeOK
<1>4. CASE Crash
  <2>1. /\ UNCHANGED <<row, now, starts, inserted>> /\ faults' = faults + 1
        /\ visitor' = "off" /\ agents' = 0
        /\ readOnly' = FALSE /\ closed' = FALSE /\ settled' = FALSE
    BY <1>4 DEF Crash
  <2>2. task' = [t \in Tasks |-> Idle]
    BY <1>4 DEF Crash
  <2>3. task' \in [Tasks -> TaskRecords] /\ \A t \in Tasks : task'[t] = Idle
    BY <2>2, IdleTyped
  <2>4. SessionTypeOK'
    <3>1. readOnly' \in BOOLEAN /\ closed' \in BOOLEAN /\ settled' \in BOOLEAN
      BY <2>1, Zenon
    <3>2. /\ row' \in Rows /\ visitor' \in {"off", "live", "readonly"} /\ agents' \in Nat
          /\ now' \in Nat /\ starts' \in Nat /\ faults' \in Nat /\ inserted' \in Nat
      BY <1>0, <2>1 DEF SessionTypeOK
    <3> QED BY <2>3, <3>1, <3>2, IdleTyped DEF SessionTypeOK
  <2> QED BY <1>0, <2>1, <2>3, <2>4, IdleTyped DEF VersionInv, PutOK, At
<1>5. CASE Tick
  <2>1. UNCHANGED <<row, hubVars, task, starts, faults, inserted>> /\ now' = now + 1
    BY <1>5 DEF Tick
  <2>2. SessionTypeOK'
    BY <1>0, <2>1 DEF SessionTypeOK, hubVars
  <2>3. ASSUME NEW t \in Tasks PROVE task'[t].when <= now' /\ PutOK(t)'
    <3>1. task[t].when \in Nat /\ task[t].when <= now
      BY <1>0 DEF VersionInv, SessionTypeOK, TaskRecords
    <3>2. \A r \in Rows : r.ver \in Nat
      BY DEF Rows
    <3> QED BY <1>0, <2>1, <3>1, <3>2 DEF VersionInv, PutOK, At
  <2> QED BY <1>0, <2>1, <2>2, <2>3 DEF VersionInv
<1> QED BY <1>1, <1>2, <1>3, <1>4, <1>5, Steps

LEMMA VersionInvariant == SessionSpec => []VersionInv
  BY VersionInit, VersionStep, PTL DEF SessionSpec

\* Every request, row and counter keeps its shape, and a request in progress is
\* at a step of its path.
THEOREM SessionTypeCorrect == SessionSpec => []SessionTypeOK
<1>1. VersionInv => SessionTypeOK
  BY DEF VersionInv
<1> QED BY <1>1, VersionInvariant, PTL

\* UpdateSession: however requests overlap, an insert computed from the row that
\* is still the newest becomes the newest.
THEOREM SessionUpdateTakesEffect == SessionSpec => UpdateTakesEffect
<1>1. ASSUME VersionInv, [SessionNext]_sessionVars, NEW t \in Tasks, At(t, "put"), row = task[t].row,
             faults' = faults, task'[t] # task[t]
      PROVE  row' = task[t].next
  <2>0. SessionTypeOK /\ faults \in Nat /\ task[t].kind # "none" /\ row \in Rows
    BY <1>1 DEF VersionInv, SessionTypeOK, At
  <2>1. CASE \E u \in Tasks : TaskStep(u) \/ PutError(u)
    <3>1. TaskStep(t) \/ PutError(t)
      BY <1>1, <2>0, <2>1, TaskMoves
    <3>2. ~ PutError(t)
      BY <1>1, <2>0 DEF PutError
    <3>3. Put(t)
      BY <1>1, <3>1, <3>2 DEF TaskStep, List, Gate, Look, Subscribe, Enter, Insert, Get, Put, Mark, At
    <3>4. task[t].next \in Rows /\ row.ver <= task[t].next.ver
      BY <1>1 DEF VersionInv, PutOK
    <3>5. row.ver \in Nat /\ task[t].next.ver \in Nat
      BY <2>0, <3>4 DEF Rows
    <3> QED BY <3>3, <3>4, <3>5 DEF Put, Stored
  <2>2. ASSUME NEW u \in Tasks, NEW k \in Kinds, Begin(u, k) \/ (Sweep(u) /\ k = "sweep")
        PROVE  FALSE
    BY <1>1, <2>0, <2>2, Starting, IdleTyped
  <2>3. CASE AgentLeaves \/ VisitorLeaves \/ Crash \/ Tick \/ UNCHANGED sessionVars
    BY <1>1, <2>0, <2>3 DEF AgentLeaves, VisitorLeaves, Crash, Tick, sessionVars
  <2> QED BY <1>1, <2>1, <2>2, <2>3, Steps
<1>2. VersionInv /\ [SessionNext]_sessionVars =>
        [\A t \in Tasks : At(t, "put") /\ row = task[t].row /\ faults' = faults
                              /\ task'[t] # task[t]
              => row' = task[t].next]_sessionVars
  BY <1>1
<1> QED BY <1>2, VersionInvariant, PTL DEF SessionSpec, UpdateTakesEffect

\* A closed session can be reopened (the run chat_reopened), but only in one way:
\* by UpdateSession's insert of a row version computed before the close.
THEOREM SessionReopenedOnlyByStaleWrite == SessionSpec => ReopenedOnlyByStaleWrite
<1>1. ASSUME VersionInv, [SessionNext]_sessionVars, row.status = "closed", row'.status # "closed"
      PROVE  \E t \in Tasks : At(t, "put") /\ task[t].row.status # "closed"
  <2>1. PICK t \in Tasks : TaskStep(t) \/ PutError(t)
    <3>1. ASSUME NEW u \in Tasks, NEW k \in Kinds, Begin(u, k) \/ (Sweep(u) /\ k = "sweep")
          PROVE  row' = row
      BY <3>1 DEF Begin, Sweep
    <3>2. ASSUME AgentLeaves \/ VisitorLeaves \/ Crash \/ Tick \/ UNCHANGED sessionVars
          PROVE  row' = row
      BY <3>2 DEF AgentLeaves, VisitorLeaves, Crash, Tick, sessionVars
    <3> QED BY <1>1, <3>1, <3>2, Steps
  <2>2. At(t, "put") /\ row' \in {row, Stored(task[t].next)}
    BY <1>1, <2>1 DEF TaskStep, PutError, List, Gate, Look, Subscribe, Enter, Insert, Get, Put, Mark
  <2>3. row' = task[t].next
    BY <1>1, <2>2 DEF Stored
  <2> QED BY <1>1, <2>2, <2>3 DEF VersionInv, PutOK
<1>2. VersionInv /\ [SessionNext]_sessionVars =>
        [row.status = "closed" /\ row'.status # "closed"
            => \E t \in Tasks : At(t, "put") /\ task[t].row.status # "closed"]_sessionVars
  BY <1>1
<1> QED BY <1>2, VersionInvariant, PTL DEF SessionSpec, ReopenedOnlyByStaleWrite
-----------------------------------------------------------------------------
(* Counting.  A message is stored first and counted later: the messages    *)
(* that are stored and whose request has not read the row yet are the      *)
(* credit that the counts in the row and in every row about to be inserted *)
(* leave untouched.                                                        *)
Due == {t \in Tasks : At(t, "get") /\ task[t].kind \in Message}

CountInv ==
    /\ row.count + Cardinality(Due) <= inserted
    /\ \A t \in Tasks : At(t, "put") => task[t].next.count + Cardinality(Due) <= inserted

LEMMA DueFinite == IsFiniteSet(Due) /\ Cardinality(Due) \in Nat
<1>1. Due \subseteq Tasks /\ IsFiniteSet(Tasks)
  BY ChatSessionAssumption DEF Due
<1>2. IsFiniteSet(Due)
  BY <1>1, FS_Subset
<1> QED BY <1>2, FS_CardinalityType

\* How the credit changes: a stored message adds to it, the read that counts it
\* takes it away.
LEMMA DueChange ==
    ASSUME SessionTypeOK, NEW t \in Tasks, TaskStep(t) \/ PutError(t)
    PROVE  /\ Insert(t) => Cardinality(Due') = Cardinality(Due) + 1
           /\ Get(t) /\ task[t].kind \in Message => Cardinality(Due') + 1 = Cardinality(Due)
           /\ ~ Insert(t) /\ ~ (Get(t) /\ task[t].kind \in Message) => Due' = Due
<1>1. /\ task[t].kind # "none" /\ Onward(task[t], task'[t])
      /\ \A u \in Tasks \ {t} : task'[u] = task[u]
  BY TaskMoves
<1>2. task[t] \in TaskRecords /\ task[t].kind \in Kinds /\ task[t].pc \in 1..Len(Path(task[t].kind))
      /\ Len(Path(task[t].kind)) \in Nat
  BY <1>1, InProgress
<1>3. \A u \in Tasks \ {t} : u \in Due' <=> u \in Due
  BY <1>1 DEF Due, At
<1>4. Due \subseteq Tasks /\ Due' \subseteq Tasks
  BY DEF Due
<1>5. t \in Due => Get(t)
  BY DEF Due, At, TaskStep, PutError, List, Gate, Look, Subscribe, Enter, Insert, Get, Put, Mark
<1>6. task'[t] = Idle => t \notin Due'
  BY IdleTyped DEF Due, At
<1>7. ASSUME task'[t] # Idle
      PROVE  /\ task'[t].kind = task[t].kind /\ task'[t].pc = task[t].pc + 1
             /\ task[t].pc + 1 \in 1..Len(Path(task[t].kind)) /\ (task[t].pc + 1) - 1 = task[t].pc
  BY <1>1, <1>2, <1>7 DEF Onward
<1>8. t \in Due' => At(t, "insert")
  <2> SUFFICES ASSUME t \in Due' PROVE At(t, "insert")
    OBVIOUS
  <2>1. task'[t] # Idle /\ Path(task'[t].kind)[task'[t].pc] = "get" /\ task'[t].kind \in Message
    BY <1>6 DEF Due, At
  <2>2. Path(task[t].kind)[task[t].pc] = "insert"
    BY <1>2, <1>7, <2>1, PathSteps
  <2> QED BY <1>1, <2>2 DEF At
<1>9. CASE Insert(t)
  <2>1. At(t, "insert") /\ task' = [task EXCEPT ![t] = Advanced(task[t])]
    BY <1>9 DEF Insert, Go
  <2>2. /\ task[t].kind \in Message /\ task[t].pc < Len(Path(task[t].kind))
        /\ Path(task[t].kind)[task[t].pc + 1] = "get"
    BY <1>2, <2>1, PathSteps DEF At
  <2>3. task'[t].kind = task[t].kind /\ task'[t].pc = task[t].pc + 1
    BY <1>2, <2>1, <2>2 DEF Advanced, SessionTypeOK, TaskRecords
  <2>4. t \in Due'
    BY <1>1, <2>2, <2>3 DEF Due, At
  <2>5. t \notin Due
    BY <2>1 DEF Due, At
  <2>6. Due' = Due \cup {t}
    BY <1>3, <1>4, <2>4
  <2>7. ~ Get(t)
    BY <2>1 DEF Get, At
  <2> QED BY <1>9, <2>5, <2>6, <2>7, DueFinite, FS_AddElement
<1>10. CASE Get(t) /\ task[t].kind \in Message
  <2>1. t \in Due /\ ~ At(t, "insert")
    BY <1>10 DEF Due, Get, At
  <2>2. Due' = Due \ {t}
    BY <1>3, <1>4, <1>8, <2>1
  <2>3. Cardinality(Due \ {t}) = Cardinality(Due) - 1
    BY <2>1, DueFinite, FS_RemoveElement
  <2>4. ~ Insert(t)
    BY <2>1 DEF Insert
  <2> QED BY <1>10, <2>2, <2>3, <2>4, DueFinite
<1>11. CASE ~ Insert(t) /\ ~ (Get(t) /\ task[t].kind \in Message)
  <2>1. t \notin Due
    BY <1>5, <1>11 DEF Due
  <2>2. ~ At(t, "insert")
    BY <1>11 DEF At, TaskStep, PutError, List, Gate, Look, Subscribe, Enter, Insert, Get, Put, Mark
  <2> QED BY <1>3, <1>4, <1>8, <1>11, <2>1, <2>2
<1> QED BY <1>9, <1>10, <1>11

LEMMA CountInit == SessionInit => CountInv
<1> SUFFICES ASSUME SessionInit PROVE CountInv
  OBVIOUS
<1>1. row.count = 0 /\ inserted = 0 /\ \A t \in Tasks : task[t] = Idle
  BY DEF SessionInit
<1>2. Due = {} /\ \A t \in Tasks : ~ At(t, "put")
  BY <1>1, IdleTyped DEF Due, At
<1> QED BY <1>1, <1>2, FS_EmptySet DEF CountInv

LEMMA CountTask ==
    ASSUME VersionInv, CountInv, NEW t \in Tasks, TaskStep(t) \/ PutError(t)
    PROVE  CountInv'
<1> DEFINE d == Cardinality(Due)
           e == Cardinality(Due')
<1>0. SessionTypeOK /\ row \in Rows /\ inserted \in Nat /\ now \in Nat
  BY DEF VersionInv, SessionTypeOK
<1>1. d \in Nat /\ row.count \in Nat /\ \A u \in Tasks : At(u, "put") => task[u].next.count \in Nat
  BY <1>0, DueFinite DEF VersionInv, PutOK, Rows
<1>2. /\ Insert(t) => e = d + 1
      /\ Get(t) /\ task[t].kind \in Message => e + 1 = d
      /\ ~ Insert(t) /\ ~ (Get(t) /\ task[t].kind \in Message) => e = d
  BY <1>0, DueChange
<1>3. \A u \in Tasks \ {t} : task'[u] = task[u]
  BY <1>0, TaskMoves
<1>4. /\ row.count + d <= inserted
      /\ \A u \in Tasks : At(u, "put") => task[u].next.count + d <= inserted
  BY DEF CountInv
<1>5. e \in Nat
  <2>1. CASE Get(t) /\ task[t].kind \in Message
    <3>1. t \in Due
      BY <2>1 DEF Due, Get
    <3>2. Due' \subseteq Tasks /\ IsFiniteSet(Tasks)
      BY ChatSessionAssumption DEF Due
    <3> QED BY <3>2, FS_Subset, FS_CardinalityType
  <2> QED BY <1>1, <1>2, <2>1
<1> HIDE DEF d, e
<1>6. /\ inserted' = IF Insert(t) THEN inserted + 1 ELSE inserted
      /\ ~ (Insert(t) /\ Get(t))
  BY DEF TaskStep, PutError, List, Gate, Look, Subscribe, Enter, Insert, Get, Put, Mark, At
<1>7. \A n \in Nat : n + d <= inserted => n + e <= inserted'
  BY <1>0, <1>1, <1>2, <1>5, <1>6
<1>8. row'.count + e <= inserted'
  <2>1. CASE At(t, "put")
    <3>1. row' \in {row, task[t].next}
      BY <2>1 DEF TaskStep, PutError, List, Gate, Look, Subscribe, Enter, Insert, Get, Put, Mark, At, Stored
    <3> QED BY <1>1, <1>4, <1>7, <2>1, <3>1
  <2>2. CASE ~ At(t, "put")
    <3>1. row' = row
      BY <2>2 DEF TaskStep, PutError, List, Gate, Look, Subscribe, Enter, Insert, Get, Put, Mark
    <3> QED BY <1>1, <1>4, <1>7, <3>1
  <2> QED BY <2>1, <2>2
<1>9. ASSUME NEW u \in Tasks, At(u, "put")' PROVE task'[u].next.count + e <= inserted'
  <2>1. CASE u # t
    BY <1>1, <1>3, <1>4, <1>7, <1>9, <2>1 DEF At
  <2>2. CASE u = t
    <3>1. Get(t)
      BY <1>0, <1>9, <2>2, PutAfterGet
    <3>2. /\ task'[t] = Built(t) /\ task[t].kind \in Kinds \ {"connect"} /\ task[t].when \in Nat
          /\ Built(t).next = NextRow(task[t].kind, row, task[t].when)
      BY <1>0, <3>1, GetBuilds DEF SessionTypeOK
    <3>3. task'[t].next.count = IF task[t].kind \in Message THEN row.count + 1 ELSE row.count
      BY <1>0, <3>2, NextRowOK
    <3>4. inserted' = inserted
      BY <1>6, <3>1
    <3> QED BY <1>0, <1>1, <1>2, <1>4, <1>5, <1>6, <2>2, <3>1, <3>3, <3>4
  <2> QED BY <2>1, <2>2
<1> QED BY <1>8, <1>9 DEF CountInv, e

LEMMA CountStep == VersionInv /\ CountInv /\ [SessionNext]_sessionVars => CountInv'
<1> SUFFICES ASSUME VersionInv, CountInv, [SessionNext]_sessionVars PROVE CountInv'
  OBVIOUS
<1>0. SessionTypeOK /\ row \in Rows /\ row.count \in Nat /\ inserted \in Nat /\ Cardinality(Due) \in Nat
  BY DueFinite DEF VersionInv, SessionTypeOK, Rows
<1>1. CASE \E t \in Tasks : TaskStep(t) \/ PutError(t)
  BY <1>1, CountTask
<1>2. ASSUME NEW t \in Tasks, NEW k \in Kinds, Begin(t, k) \/ (Sweep(t) /\ k = "sweep")
      PROVE  CountInv'
  <2>1. /\ task[t] = Idle /\ (\A u \in Tasks \ {t} : task'[u] = task[u])
        /\ task'[t].kind = k /\ task'[t].pc = 1
        /\ UNCHANGED <<row, inserted>>
    BY <1>0, <1>2, Starting
  <2>2. Len(Path(k)) \in Nat \ {0} /\ Path(k)[1] # "put" /\ (Path(k)[1] = "get" => k \notin Message)
    BY PathSteps
  <2>3. t \notin Due /\ t \notin Due' /\ ~ At(t, "put")'
    BY <2>1, <2>2, IdleTyped DEF Due, At
  <2>4. Due' = Due
    BY <2>1, <2>3 DEF Due, At
  <2> QED BY <2>1, <2>3, <2>4 DEF CountInv, At
<1>3. CASE AgentLeaves \/ VisitorLeaves \/ Tick \/ UNCHANGED sessionVars
  <2>1. UNCHANGED <<row, task, inserted>>
    BY <1>3 DEF AgentLeaves, VisitorLeaves, Tick, sessionVars
  <2>2. Due' = Due
    BY <2>1 DEF Due, At
  <2> QED BY <2>1, <2>2 DEF CountInv, At
<1>4. CASE Crash
  <2>1. UNCHANGED <<row, inserted>> /\ \A t \in Tasks : task'[t] = Idle
    BY <1>4 DEF Crash
  <2>2. Due' = {} /\ \A t \in Tasks : ~ At(t, "put")'
    BY <2>1, IdleTyped DEF Due, At
  <2>3. Cardinality(Due') = 0 /\ row.count + Cardinality(Due) <= inserted
    BY <2>2, FS_EmptySet DEF CountInv
  <2> QED BY <1>0, <2>1, <2>2, <2>3 DEF CountInv
<1> QED BY <1>1, <1>2, <1>3, <1>4, Steps

\* message_count never runs ahead of chat_messages, however AppendMessage's
\* insert and UpdateSession's read and insert interleave, fail or are cut off.
THEOREM SessionCountNotAhead == SessionSpec => []CountNotAhead
<1>1. VersionInv /\ CountInv => CountNotAhead
  <2> SUFFICES ASSUME VersionInv, CountInv PROVE CountNotAhead
    OBVIOUS
  <2>1. row.count \in Nat /\ inserted \in Nat /\ Cardinality(Due) \in Nat
        /\ row.count + Cardinality(Due) <= inserted
    BY DueFinite DEF VersionInv, SessionTypeOK, Rows, CountInv
  <2> QED BY <2>1 DEF CountNotAhead
<1>2. SessionSpec => [](VersionInv /\ CountInv)
  BY VersionInit, VersionStep, CountInit, CountStep, PTL DEF SessionSpec
<1> QED BY <1>1, <1>2, PTL
-----------------------------------------------------------------------------
(* The visitor's socket.  One reader goroutine: at most one request of the *)
(* visitor is in progress.  Once a close is over for a socket, the hub's   *)
(* closed flag stays up for as long as that socket is there, so a message  *)
(* sent afterwards gets past the gate only if the socket has left; and no  *)
(* other socket comes while that message is in progress.                   *)
OneReader == \A t, u \in Tasks :
    task[t].kind \in OnSocket /\ task[u].kind \in OnSocket => t = u

SocketOK(t) ==
    /\ task[t].kind = "connect" => visitor = "off"
    /\ task[t].kind = "visitor_msg" /\ task[t].late =>
          (settled /\ task[t].pc = 1) \/ visitor = "off"

SocketInv ==
    /\ OneReader
    /\ settled => visitor = "live" /\ closed
    /\ \A t \in Tasks : SocketOK(t)

LEMMA SocketInit == SessionInit => SocketInv
<1> SUFFICES ASSUME SessionInit PROVE SocketInv
  OBVIOUS
<1>1. settled = FALSE /\ \A t \in Tasks : task[t] = Idle
  BY DEF SessionInit
<1> QED BY <1>1, IdleTyped DEF SocketInv, OneReader, SocketOK, OnSocket

LEMMA SocketTask ==
    ASSUME SessionTypeOK, SocketInv, NEW t \in Tasks, TaskStep(t) \/ PutError(t)
    PROVE  SocketInv'
<1>1. /\ task[t].kind # "none" /\ Onward(task[t], task'[t])
      /\ \A u \in Tasks \ {t} : task'[u] = task[u]
  BY TaskMoves
<1>2. task[t].kind \in Kinds /\ task[t].pc \in 1..Len(Path(task[t].kind))
      /\ Len(Path(task[t].kind)) \in Nat
  BY <1>1, InProgress
<1>3. task'[t].kind = "none" \/ (/\ task'[t].kind = task[t].kind /\ task'[t].late = task[t].late
                                /\ task'[t].pc = task[t].pc + 1)
  BY <1>1, IdleTyped DEF Onward
<1>4. OneReader'
  BY <1>1, <1>3 DEF SocketInv, OneReader, OnSocket
<1>5. CASE At(t, "subscribe")
  <2>1. task[t].kind = "connect"
    BY <1>2, <1>5, PathSteps DEF At
  <2>2. task'[t] = Idle /\ settled' = FALSE
    BY <1>5 DEF TaskStep, PutError, List, Gate, Look, Subscribe, Enter, Insert, Get, Put, Mark, At, End,
       SessionTypeOK
  <2>3. \A u \in Tasks \ {t} : task[u].kind \notin OnSocket
    BY <2>1 DEF SocketInv, OneReader, OnSocket
  <2>4. \A u \in Tasks : SocketOK(u)'
    BY <1>1, <2>2, <2>3, IdleTyped DEF SocketOK, OnSocket
  <2> QED BY <1>4, <2>2, <2>4 DEF SocketInv
<1>6. CASE At(t, "look") /\ visitor' # visitor
  <2>1. task[t].kind = "connect" /\ task'[t] = Idle /\ settled' = settled
    BY <1>6 DEF TaskStep, PutError, List, Gate, Look, Subscribe, Enter, Insert, Get, Put, Mark, At, End,
       SessionTypeOK
  <2>2. ~ settled
    BY <2>1 DEF SocketInv, SocketOK
  <2>3. \A u \in Tasks \ {t} : task[u].kind \notin OnSocket
    BY <2>1 DEF SocketInv, OneReader, OnSocket
  <2>4. \A u \in Tasks : SocketOK(u)'
    BY <1>1, <2>1, <2>3, IdleTyped DEF SocketOK, OnSocket
  <2> QED BY <1>4, <2>1, <2>2, <2>4 DEF SocketInv
<1>7. CASE At(t, "gate")
  <2>1. Gate(t)
    BY <1>7 DEF TaskStep, PutError, List, Gate, Look, Subscribe, Enter, Insert, Get, Put, Mark, At
  <2>2. UNCHANGED <<visitor, closed, settled>>
    BY <2>1 DEF Gate
  <2>3. settled => task'[t] = Idle
    BY <2>1 DEF Gate, End, SocketInv, SessionTypeOK
  <2>4. SocketOK(t)'
    BY <1>3, <2>2, <2>3, IdleTyped DEF SocketInv, SocketOK
  <2>5. \A u \in Tasks : SocketOK(u)'
    BY <1>1, <2>2, <2>4 DEF SocketInv, SocketOK
  <2> QED BY <1>4, <2>2, <2>5 DEF SocketInv
<1>8. CASE visitor' = visitor /\ ~ At(t, "gate") /\ ~ At(t, "subscribe")
  <2>1. /\ settled => settled' /\ closed'
        /\ settled' => visitor = "live" /\ closed'
    <3>0. settled => visitor = "live" /\ closed
      BY DEF SocketInv
    <3>1. CASE Mark(t)
      <4>1. closed' = Marked /\ settled' = (settled \/ visitor = "live")
        BY <3>1 DEF Mark
      <4>2. visitor = "live" => closed'
        BY <4>1 DEF Marked
      <4>3. (settled => settled') /\ (settled' => settled \/ visitor = "live")
        BY <4>1
      <4> QED BY <3>0, <4>2, <4>3
    <3>2. CASE Look(t)
      <4>1. settled' = settled /\ (closed' = closed \/ closed' = Marked)
        BY <3>2 DEF Look
      <4> QED BY <3>0, <4>1 DEF Marked
    <3>3. CASE ~ Mark(t) /\ ~ Look(t)
      <4>1. settled' = settled /\ closed' = closed
        BY <1>8, <3>3 DEF TaskStep, PutError, List, Gate, Subscribe, Enter, Insert, Get, Put, hubVars
      <4> QED BY <3>0, <4>1
    <3> QED BY <3>1, <3>2, <3>3
  <2>2. task[t].kind = "visitor_msg" => task[t].pc # 1
    BY <1>2, <1>8, PathSteps DEF At
  <2>3. SocketOK(t)'
    BY <1>3, <1>8, <2>1, <2>2 DEF SocketInv, SocketOK
  <2>4. \A u \in Tasks : SocketOK(u)'
    BY <1>1, <1>8, <2>1, <2>3 DEF SocketInv, SocketOK
  <2> QED BY <1>4, <1>8, <2>1, <2>4 DEF SocketInv
<1>9. visitor' # visitor => At(t, "look") \/ At(t, "subscribe")
  BY DEF TaskStep, PutError, List, Gate, Look, Subscribe, Enter, Insert, Get, Put, Mark, hubVars
<1> QED BY <1>5, <1>6, <1>7, <1>8, <1>9

LEMMA SocketStep == VersionInv /\ SocketInv /\ [SessionNext]_sessionVars => SocketInv'
<1> SUFFICES ASSUME VersionInv, SocketInv, [SessionNext]_sessionVars PROVE SocketInv'
  OBVIOUS
<1>0. SessionTypeOK
  BY DEF VersionInv
<1>1. CASE \E t \in Tasks : TaskStep(t) \/ PutError(t)
  BY <1>0, <1>1, SocketTask
<1>2. ASSUME NEW t \in Tasks, NEW k \in Kinds, Begin(t, k) \/ (Sweep(t) /\ k = "sweep")
      PROVE  SocketInv'
  <2>1. /\ task[t] = Idle /\ (\A u \in Tasks \ {t} : task'[u] = task[u])
        /\ task'[t].kind = k /\ task'[t].pc = 1
        /\ (Begin(t, k) => task'[t].late = settled)
        /\ UNCHANGED <<visitor, closed, settled>>
    BY <1>0, <1>2, Starting DEF hubVars
  <2>2. k \in OnSocket => Begin(t, k) /\ CanStart(k)
    BY <1>2 DEF OnSocket, Begin
  <2>3. k \in OnSocket => \A u \in Tasks : task[u].kind \notin OnSocket
    BY <2>2 DEF CanStart
  <2>4. OneReader'
    BY <2>1, <2>3 DEF SocketInv, OneReader
  <2>5. SocketOK(t)'
    BY <2>1, <2>2 DEF SocketOK, CanStart, OnSocket
  <2>6. \A u \in Tasks : SocketOK(u)'
    BY <2>1, <2>5 DEF SocketInv, SocketOK
  <2> QED BY <2>1, <2>4, <2>6 DEF SocketInv
<1>3. CASE AgentLeaves \/ Tick \/ UNCHANGED sessionVars
  <2>1. UNCHANGED <<task, visitor, settled>> /\ (visitor = "live" /\ closed => closed')
    <3>1. UNCHANGED <<task, visitor, settled>>
      BY <1>3 DEF AgentLeaves, Tick, sessionVars, hubVars
    <3>2. closed' = closed \/ closed' = (closed /\ (visitor = "live" \/ agents > 1))
      BY <1>3 DEF AgentLeaves, Tick, sessionVars, hubVars
    <3>3. visitor = "live" /\ closed => closed'
      BY <3>2
    <3> QED BY <3>1, <3>3
  <2> QED BY <2>1 DEF SocketInv, OneReader, SocketOK
<1>4. CASE VisitorLeaves
  <2>1. UNCHANGED task /\ visitor' = "off" /\ settled' = FALSE
    BY <1>4 DEF VisitorLeaves
  <2> QED BY <2>1 DEF SocketInv, OneReader, SocketOK
<1>5. CASE Crash
  <2>1. visitor' = "off" /\ settled' = FALSE /\ \A t \in Tasks : task'[t] = Idle
    BY <1>5 DEF Crash
  <2> QED BY <2>1, IdleTyped DEF SocketInv, OneReader, SocketOK, OnSocket
<1> QED BY <1>1, <1>2, <1>3, <1>4, <1>5, Steps

\* A message that the visitor sends after CloseSession has told the hub is never
\* stored, whatever stale writers do to the row and whoever else comes and goes.
THEOREM SessionLateSendsRejected == SessionSpec => LateSendsRejected
<1>1. ASSUME VersionInv, SocketInv, NEW t \in Tasks, At(t, "insert"), task[t].kind = "visitor_msg",
             task[t].late, settled
      PROVE  FALSE
  <2>1. task[t].pc = 1
    BY <1>1 DEF SocketInv, SocketOK
  <2>2. task[t].kind \in Kinds /\ 1 \in 1..Len(Path(task[t].kind))
    BY <1>1, <2>1, InProgress DEF VersionInv
  <2>3. Path(task[t].kind)[1] = "gate"
    BY <1>1, <2>2, PathSteps
  <2> QED BY <1>1, <2>1, <2>3 DEF At
<1>2. VersionInv /\ SocketInv /\ [SessionNext]_sessionVars =>
        [\A t \in Tasks : At(t, "insert") /\ task[t].kind = "visitor_msg"
                              /\ task[t].late /\ settled
              => inserted' = inserted]_sessionVars
  BY <1>1
<1>3. SessionSpec => [](VersionInv /\ SocketInv)
  BY VersionInit, VersionStep, SocketInit, SocketStep, PTL DEF SessionSpec
<1> QED BY <1>2, <1>3, PTL DEF SessionSpec, LateSendsRejected
=============================================================================
