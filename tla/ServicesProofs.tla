---------------------------- MODULE ServicesProofs --------------------------
(***************************************************************************)
(* Proofs about the background services, one section each, and about the   *)
(* services put together: a step of the process is, for each of them, a    *)
(* step of its own or none, so what is proved of one holds of the whole.   *)
(***************************************************************************)
EXTENDS Services, RelayProofs

-----------------------------------------------------------------------------
(* What an administrator decided about an alert rule stays, for any nodes, *)
(* rules, cooldown, cap and number of edits.  AdminHasLastWord is not      *)
(* inductive: it needs that the copies the evaluators hold of a rule not   *)
(* edited during a pass are what the administrators left (CopiesCurrent),  *)
(* and that an evaluator that is firing holds a copy to write (Firing).    *)

Firing ==
    \A n \in AlertNodes : phase[n] \in {"send", "store"} =>
       /\ current[n] \in AlertIDs
       /\ held[n][current[n]] # NoAlert
       /\ fires[n] < MaxFires

CopiesCurrent ==
    \A a \in AlertIDs \ overlapped, n \in AlertNodes :
       held[n][a] # NoAlert => held[n][a].rev = decided[a]

AlertsInv == AlertsTypeOK /\ Firing /\ CopiesCurrent /\ AdminHasLastWord

OptionalRow == AlertRow \union {NoAlert}
Edit == [alert : AlertIDs, enabled : BOOLEAN, age : Ages]

\* Getting older changes nothing about a row but its age.
LEMMA AgedRow ==
  ASSUME NEW row \in OptionalRow
  PROVE  /\ Aged(row) \in OptionalRow
         /\ Aged(row) = NoAlert <=> row = NoAlert
         /\ row # NoAlert => Aged(row).rev = row.rev
<1>1. CASE row = NoAlert
  BY <1>1 DEF Aged, OptionalRow
<1>2. CASE row # NoAlert
  <2>1. row \in AlertRow
    BY <1>2 DEF OptionalRow
  <2>2. row.age \in 0..Cooldown
    BY <2>1 DEF AlertRow, Ages
  <2>3. Older(row.age) \in Ages
    BY <2>2, AlertsAssumption DEF Older, Ages
  <2>4. Aged(row) = [row EXCEPT !.age = Older(row.age)]
    BY <1>2 DEF Aged
  <2>5. Aged(row) \in AlertRow /\ Aged(row).rev = row.rev
    BY <2>1, <2>3, <2>4 DEF AlertRow
  <2> QED
    BY <1>2, <2>5, NoAlertAssumption DEF OptionalRow
<1> QED
  BY <1>1, <1>2

\* A new rule is a row with the revision given.
LEMMA NewRuleRow ==
  ASSUME NEW rev \in 0..MaxAlertEvents, NEW on \in BOOLEAN
  PROVE  NewRule(rev, on) \in AlertRow /\ NewRule(rev, on).rev = rev
  BY AlertsAssumption DEF NewRule, AlertRow, Ages

\* A row that has just fired is a row of the same revision.
LEMMA FiredRow ==
  ASSUME NEW row \in AlertRow
  PROVE  [row EXCEPT !.age = 0] \in AlertRow /\ [row EXCEPT !.age = 0].rev = row.rev
  BY AlertsAssumption DEF AlertRow, Ages

\* Initially nothing is held and the rows are as the administrators left them.
LEMMA AlertsInvInit == AlertsInit => AlertsInv
<1> SUFFICES ASSUME AlertsInit PROVE AlertsInv
  OBVIOUS
<1>0. 0 \in 0..MaxAlertEvents
  BY AlertsAssumption
<1>1. NewRule(0, TRUE) \in AlertRow /\ NewRule(0, TRUE).rev = 0
  BY <1>0, NewRuleRow
<1>2. alerts \in [AlertIDs -> {NoAlert, NewRule(0, TRUE)}]
  BY DEF AlertsInit, Finds, NoCopies
<1>3. alerts \in [AlertIDs -> AlertRow \union {NoAlert}]
  BY <1>1, <1>2
<1>4. AlertsTypeOK
  BY <1>3, AlertsAssumption DEF AlertsInit, AlertsTypeOK, NoCopies, Ages
<1>5. Firing /\ CopiesCurrent
  BY DEF AlertsInit, Firing, CopiesCurrent, NoCopies
<1>6. AdminHasLastWord
  BY <1>1, <1>2, NoAlertAssumption DEF AlertsInit, AdminHasLastWord, RevOf
<1> QED
  BY <1>4, <1>5, <1>6 DEF AlertsInv
-----------------------------------------------------------------------------
\* The clock touches ages only.
LEMMA ClockStep ==
  ASSUME AlertsInv, AlertClock
  PROVE  AlertsInv'
<1> USE DEF AlertsInv, AlertsTypeOK
<1>1. \A a \in AlertIDs : /\ alerts[a] \in OptionalRow
                          /\ \A n \in AlertNodes : held[n][a] \in OptionalRow
  BY DEF OptionalRow
<1>2. alerts' = [a \in AlertIDs |-> Aged(alerts[a])]
  BY DEF AlertClock
<1>3. held' = [n \in AlertNodes |-> [a \in AlertIDs |-> Aged(held[n][a])]]
  BY DEF AlertClock
<1>4. alerts' \in [AlertIDs -> AlertRow \union {NoAlert}]
  BY <1>1, <1>2, AgedRow DEF OptionalRow
<1>5. held' \in [AlertNodes -> [AlertIDs -> AlertRow \union {NoAlert}]]
  BY <1>1, <1>3, AgedRow DEF OptionalRow
<1>6. \A g \in Ages : Older(g) \in Ages
  BY AlertsAssumption DEF Ages, Older
<1>7. lastRaised' \in [Standing -> Ages]
  BY <1>6 DEF AlertClock
<1>8. edit' \in Edit \union {NoAlert}
  BY <1>6 DEF AlertClock, Edit
<1>9. AlertsTypeOK'
  BY <1>4, <1>5, <1>7, <1>8 DEF AlertClock, Edit
<1>10. Firing'
  <2> SUFFICES ASSUME NEW n \in AlertNodes, phase'[n] \in {"send", "store"}
               PROVE  /\ current'[n] \in AlertIDs
                      /\ held'[n][current'[n]] # NoAlert
                      /\ fires'[n] < MaxFires
    BY DEF Firing
  <2>1. current[n] \in AlertIDs /\ held[n][current[n]] # NoAlert /\ fires[n] < MaxFires
    BY DEF AlertClock, Firing
  <2>2. held'[n][current[n]] = Aged(held[n][current[n]])
    BY <1>3, <2>1
  <2> QED
    BY <1>1, <2>1, <2>2, AgedRow DEF AlertClock
<1>11. CopiesCurrent'
  <2> SUFFICES ASSUME NEW a \in AlertIDs, a \notin overlapped', NEW n \in AlertNodes,
                      held'[n][a] # NoAlert
               PROVE  held'[n][a].rev = decided'[a]
    BY DEF CopiesCurrent
  <2>1. held'[n][a] = Aged(held[n][a]) /\ held[n][a] \in OptionalRow
    BY <1>1, <1>3
  <2>2. held[n][a] # NoAlert /\ held'[n][a].rev = held[n][a].rev
    BY <2>1, AgedRow
  <2> QED
    BY <2>2 DEF CopiesCurrent, AlertClock
<1>12. AdminHasLastWord'
  <2> SUFFICES ASSUME NEW a \in AlertIDs, a \notin overlapped'
               PROVE  RevOf(alerts'[a]) = decided'[a]
    BY DEF AdminHasLastWord
  <2>1. alerts'[a] = Aged(alerts[a]) /\ alerts[a] \in OptionalRow
    BY <1>1, <1>2
  <2>2. RevOf(alerts'[a]) = RevOf(alerts[a])
    BY <2>1, AgedRow DEF RevOf
  <2> QED
    BY <2>2 DEF AdminHasLastWord, AlertClock
<1> QED
  BY <1>9, <1>10, <1>11, <1>12

\* The evaluator lists, passes over, fires, and ends a pass; or its node crashes.
LEMMA PassStep ==
  ASSUME AlertsInv, NEW n \in AlertNodes,
         RunDue(n) \/ (\E a \in AlertIDs : Skip(n, a) \/ Fire(n, a)) \/ EndPass(n) \/ AlertCrash(n)
  PROVE  AlertsInv'
<1> USE DEF AlertsInv, AlertsTypeOK, Firing, CopiesCurrent, AdminHasLastWord, alertStore,
            evaluatorVars, adminVars
<1>1. CASE RunDue(n)
  <2>1. \A a \in AlertIDs \ overlapped : alerts[a] # NoAlert => alerts[a].rev = decided[a]
    BY DEF RevOf
  <2>2. held' = [held EXCEPT ![n] = alerts]
    BY <1>1 DEF RunDue
  <2>3. CopiesCurrent'
    BY <1>1, <2>1, <2>2 DEF RunDue
  <2> QED
    BY <1>1, <2>3, AlertsAssumption DEF RunDue
<1>2. ASSUME NEW a \in AlertIDs, Skip(n, a) PROVE AlertsInv'
  BY <1>2 DEF Skip, Scanning
<1>3. ASSUME NEW a \in AlertIDs, Fire(n, a) PROVE AlertsInv'
  BY <1>3 DEF Fire, Scanning
<1>4. CASE EndPass(n)
  BY <1>4, AlertsAssumption DEF EndPass, NoCopies
<1>5. CASE AlertCrash(n)
  BY <1>5, AlertsAssumption DEF AlertCrash, NoCopies, AlertEvent
<1> QED
  BY <1>1, <1>2, <1>3, <1>4, <1>5

\* The copy being fired gets its time: still a row of the same revision.
LEMMA RecordEventStep ==
  ASSUME AlertsInv, NEW n \in AlertNodes, RecordEvent(n)
  PROVE  AlertsInv'
<1> USE DEF AlertsInv, AlertsTypeOK, Firing, CopiesCurrent, AdminHasLastWord, adminVars
<1> DEFINE c == current[n]
<1>1. c \in AlertIDs /\ held[n][c] # NoAlert /\ fires[n] < MaxFires
  BY DEF RecordEvent
<1>2. held[n][c] \in AlertRow
  BY <1>1
<1> DEFINE fired == [held[n][c] EXCEPT !.age = 0]
<1>3. fired \in AlertRow /\ fired.rev = held[n][c].rev
  BY <1>2, FiredRow
<1>4. fired # NoAlert
  BY <1>3, NoAlertAssumption
<1>5. held' = [held EXCEPT ![n] = [held[n] EXCEPT ![c] = fired]]
  BY DEF RecordEvent
<1> HIDE DEF fired
<1>6. lastRaised' \in [Standing -> Ages]
  BY AlertsAssumption DEF RecordEvent, Ages
<1>7. AlertsTypeOK'
  <2>1. held' \in [AlertNodes -> [AlertIDs -> AlertRow \union {NoAlert}]]
    BY <1>1, <1>3, <1>5
  <2> QED
    BY <1>6, <2>1 DEF RecordEvent
<1>8. Firing'
  BY <1>1, <1>4, <1>5 DEF RecordEvent
<1>9. CopiesCurrent'
  BY <1>1, <1>3, <1>5 DEF RecordEvent
<1>10. AdminHasLastWord'
  BY DEF RecordEvent
<1> QED
  BY <1>7, <1>8, <1>9, <1>10

\* The write-back puts a copy that says what the administrators left.
LEMMA WriteBackStep ==
  ASSUME AlertsInv, NEW n \in AlertNodes, WriteBack(n)
  PROVE  AlertsInv'
<1> USE DEF AlertsInv, AlertsTypeOK, Firing, CopiesCurrent, AdminHasLastWord, adminVars
<1> DEFINE c == current[n]
<1>1. c \in AlertIDs /\ held[n][c] # NoAlert /\ fires[n] < MaxFires
  BY DEF WriteBack
<1>2. held[n][c] \in AlertRow
  BY <1>1
<1>3. \/ alerts' = [alerts EXCEPT ![c] = held[n][c]]
      \/ alerts' = alerts
  BY DEF WriteBack
<1>4. fires' \in [AlertNodes -> 0..MaxFires]
  BY <1>1, AlertsAssumption DEF WriteBack
<1>5. held' = [held EXCEPT ![n] = [held[n] EXCEPT ![c] = NoAlert]]
  BY DEF WriteBack
<1>6. alerts' \in [AlertIDs -> AlertRow \union {NoAlert}]
  BY <1>1, <1>2, <1>3
<1>7. AlertsTypeOK'
  BY <1>1, <1>4, <1>5, <1>6 DEF WriteBack
<1>8. Firing'
  BY <1>1, <1>5 DEF WriteBack
<1>9. CopiesCurrent'
  BY <1>1, <1>5 DEF WriteBack
<1>10. AdminHasLastWord'
  <2> SUFFICES ASSUME NEW a \in AlertIDs, a \notin overlapped
               PROVE  RevOf(alerts'[a]) = decided[a]
    BY DEF WriteBack
  <2>1. CASE alerts'[a] = alerts[a]
    BY <2>1
  <2>2. CASE a = c /\ alerts'[a] = held[n][c]
    BY <1>1, <2>2 DEF RevOf
  <2> QED
    BY <1>1, <1>3, <2>1, <2>2
<1> QED
  BY <1>7, <1>8, <1>9, <1>10
-----------------------------------------------------------------------------
\* An administrator's write: a rule of which nobody holds a copy is settled, one
\* of which somebody does is marked.
LEMMA DecideStep ==
  ASSUME AlertsInv, edit' \in Edit \union {NoAlert},
         NEW a \in AlertIDs, NEW row \in AlertRow \union {NoAlert},
         row # NoAlert => row.rev = alertEvents + 1,
         Decide(a, row)
  PROVE  AlertsInv'
<1> USE DEF AlertsInv, AlertsTypeOK, Firing, CopiesCurrent, AdminHasLastWord, evaluatorVars
<1>1. alertEvents' \in 0..MaxAlertEvents /\ alertEvents + 1 \in 0..MaxAlertEvents
  BY AlertsAssumption DEF Decide, AlertEvent
<1>2. decided' = [decided EXCEPT ![a] = IF row = NoAlert THEN NoAlert ELSE alertEvents + 1]
  BY DEF Decide
<1>3. decided' \in [AlertIDs -> (0..MaxAlertEvents) \union {NoAlert}]
  BY <1>1, <1>2
<1>4. alerts' = [alerts EXCEPT ![a] = row]
  BY DEF Decide
<1>5. overlapped' \subseteq AlertIDs
  BY DEF Decide
<1>6. AlertsTypeOK'
  BY <1>1, <1>3, <1>4, <1>5 DEF Decide, Edit
<1>7. Firing'
  BY DEF Decide
<1>8. CopiesCurrent'
  BY <1>2 DEF Decide
<1>9. AdminHasLastWord'
  <2> SUFFICES ASSUME NEW b \in AlertIDs, b \notin overlapped'
               PROVE  RevOf(alerts'[b]) = decided'[b]
    OBVIOUS
  <2>1. CASE b = a
    BY <2>1, <1>2, <1>4 DEF RevOf
  <2>2. CASE b # a
    <3>1. b \notin overlapped
      BY <2>2 DEF Decide
    <3> QED
      BY <2>2, <3>1, <1>2, <1>4
  <2> QED
    BY <2>1, <2>2
<1> QED
  BY <1>6, <1>7, <1>8, <1>9

\* Create, delete and update are such writes.
LEMMA AdminStep ==
  ASSUME AlertsInv,
         \/ \E a \in AlertIDs, on \in BOOLEAN : CreateAlert(a, on) \/ UpdateAlertRead(a, on)
         \/ \E a \in AlertIDs : DeleteAlert(a)
         \/ UpdateAlertWrite
  PROVE  AlertsInv'
<1>0. edit \in Edit \union {NoAlert} /\ alertEvents \in 0..MaxAlertEvents
  BY DEF AlertsInv, AlertsTypeOK, Edit
<1>1. ASSUME NEW a \in AlertIDs, NEW on \in BOOLEAN, CreateAlert(a, on)
      PROVE  AlertsInv'
  <2>1. alertEvents + 1 \in 0..MaxAlertEvents
    BY <1>0, <1>1, AlertsAssumption DEF CreateAlert, Decide, AlertEvent
  <2>2. /\ NewRule(alertEvents + 1, on) \in AlertRow
        /\ NewRule(alertEvents + 1, on).rev = alertEvents + 1
    BY <2>1, NewRuleRow
  <2>3. edit' \in Edit \union {NoAlert} /\ Decide(a, NewRule(alertEvents + 1, on))
    BY <1>0, <1>1 DEF CreateAlert
  <2> QED
    BY <2>2, <2>3, DecideStep
<1>2. ASSUME NEW a \in AlertIDs, DeleteAlert(a)
      PROVE  AlertsInv'
  <2>1. edit' \in Edit \union {NoAlert} /\ Decide(a, NoAlert)
    BY <1>0, <1>2 DEF DeleteAlert
  <2> QED
    BY <2>1, DecideStep
<1>3. ASSUME NEW a \in AlertIDs, NEW on \in BOOLEAN, UpdateAlertRead(a, on)
      PROVE  AlertsInv'
  <2>1. alerts[a] \in AlertRow
    BY <1>3 DEF AlertsInv, AlertsTypeOK, UpdateAlertRead
  <2>2. edit' \in Edit
    BY <1>3, <2>1 DEF UpdateAlertRead, Edit, AlertRow
  <2> QED
    BY <1>3, <2>2 DEF UpdateAlertRead, AlertsInv, AlertsTypeOK, Firing, CopiesCurrent,
       AdminHasLastWord, alertStore, evaluatorVars, Edit
<1>4. CASE UpdateAlertWrite
  <2>1. edit \in Edit
    BY <1>0, <1>4 DEF UpdateAlertWrite
  <2> DEFINE row == [rev |-> alertEvents + 1, enabled |-> edit.enabled, age |-> edit.age]
  <2>2. alertEvents + 1 \in 0..MaxAlertEvents
    BY <1>0, <1>4, AlertsAssumption DEF UpdateAlertWrite, Decide, AlertEvent
  <2>3. row \in AlertRow /\ row.rev = alertEvents + 1 /\ edit.alert \in AlertIDs
    BY <2>1, <2>2 DEF AlertRow, Edit
  <2>4. edit' = NoAlert /\ Decide(edit.alert, row)
    BY <1>4 DEF UpdateAlertWrite
  <2> HIDE DEF row
  <2> QED
    BY <2>3, <2>4, DecideStep
<1> QED
  BY <1>1, <1>2, <1>3, <1>4

\* The invariant is inductive.
LEMMA AlertsInvStep == AlertsInv /\ [AlertsNext]_alertsVars => AlertsInv'
<1> SUFFICES ASSUME AlertsInv, [AlertsNext]_alertsVars PROVE AlertsInv'
  OBVIOUS
<1>1. CASE AlertsNext
  BY <1>1, ClockStep, PassStep, RecordEventStep, WriteBackStep, AdminStep
  DEF AlertsNext, Evaluate
<1>2. CASE UNCHANGED alertsVars
  BY <1>2 DEF alertsVars, alertStore, evaluatorVars, adminVars, AlertsInv, AlertsTypeOK, Firing,
              CopiesCurrent, AdminHasLastWord
<1> QED
  BY <1>1, <1>2

\* Evaluator.fire writes whole rows back, and still an administrator's edit, switch
\* or deletion stays, unless it fell into the pass.
THEOREM AlertsAdminHasLastWord == AlertsSpec => []AdminHasLastWord
<1>1. AlertsInv => AdminHasLastWord
  BY DEF AlertsInv
<1> QED
  BY <1>1, AlertsInvInit, AlertsInvStep, PTL DEF AlertsSpec
-----------------------------------------------------------------------------
(* The redeem requests keep their types and never exceed the retries of    *)
(* Mutate, for any codes, devices and number of retries.                   *)

RoundsLeft ==
    \A d \in Devices : request[d] \in {"none", "read", "delete"} => tries[d] < PairRetries

PairingInv == PairingTypeOK /\ RoundsLeft

\* Initially no code is issued and nobody has asked.
LEMMA PairingInvInit == PairingInit => PairingInv
  BY PairingAssumption
  DEF PairingInit, PairingInv, PairingTypeOK, RoundsLeft, Progress

\* Every step of the handlers keeps the types and the number of rounds.
LEMMA PairingTypeStep ==
  ASSUME PairingTypeOK, RoundsLeft, PairingNext
  PROVE  PairingTypeOK' /\ RoundsLeft'
<1> USE PairingAssumption DEF PairingTypeOK, RoundsLeft, Progress, redeemVars
<1>1. ASSUME NEW c \in Codes, Issue(c) \/ CodeExpires(c)
      PROVE  PairingTypeOK' /\ RoundsLeft'
  BY <1>1 DEF Issue, CodeExpires
<1>2. ASSUME NEW d \in Devices, NEW c \in Codes, Redeem(d, c)
      PROVE  PairingTypeOK' /\ RoundsLeft'
  BY <1>2 DEF Redeem
<1>3. ASSUME NEW d \in Devices, ReadAbsent(d) \/ ReadRow(d)
      PROVE  PairingTypeOK' /\ RoundsLeft'
  BY <1>3 DEF ReadAbsent, ReadRow, Answer
<1>4. ASSUME NEW d \in Devices, Delete(d) \/ DeleteFails(d)
      PROVE  PairingTypeOK' /\ RoundsLeft'
  BY <1>4 DEF Delete, DeleteFails, Answer
<1>5. ASSUME NEW d \in Devices, Refuse(d)
      PROVE  PairingTypeOK' /\ RoundsLeft'
  BY <1>5 DEF Refuse
<1>6. ASSUME NEW d \in Devices, StoreKey(d) \/ Revoke(d)
      PROVE  PairingTypeOK' /\ RoundsLeft'
  BY <1>6 DEF StoreKey, Revoke
<1> QED
  BY <1>1, <1>2, <1>3, <1>4, <1>5, <1>6 DEF PairingNext

\* The invariant is inductive.
LEMMA PairingInvStep == PairingInv /\ [PairingNext]_pairingVars => PairingInv'
<1> SUFFICES ASSUME PairingInv, [PairingNext]_pairingVars PROVE PairingInv'
  OBVIOUS
<1>1. CASE PairingNext
  BY <1>1, PairingTypeStep DEF PairingInv
<1>2. CASE UNCHANGED pairingVars
  BY <1>2 DEF pairingVars, redeemVars, PairingInv, PairingTypeOK, RoundsLeft
<1> QED
  BY <1>1, <1>2
-----------------------------------------------------------------------------
(* Triggered builds are at work one by one, and the commit noted as built  *)
(* is honest, for any number of commits, builds and crashes.  The first    *)
(* rests on who holds the lock (WorkingHoldsLock).  For the second: as     *)
(* long as builds do not overlap there is one build at work (OneAtWork),   *)
(* what it has prepared comes from the commit checked out (Prepared), and  *)
(* what a rollback would put back is not older than the noted commit       *)
(* (Spare).  Overlap is for ever, so all of this is claimed without it     *)
(* only, but for the order of commits and the lock.                        *)

WorkingHoldsLock == \A b \in Requests : step[b] \in Working => serverLock = b

Moving == {"run", "clearOld", "moveOld", "moveNew", "removeOld", "mark"}

CommitOrder ==
    /\ repo # NoSite => repo <= upstream
    /\ marker # NoSite => repo # NoSite /\ marker <= repo

OneAtWork ==
    \A b, c \in BuildIDs : step[b] \in Moving /\ step[c] \in Moving => b = c

Prepared ==
    \A b \in BuildIDs :
       /\ step[b] = "run" => repo # NoSite
       /\ step[b] \in {"clearOld", "moveOld", "moveNew"} => source[b] = repo /\ repo # NoSite
       /\ step[b] = "moveOld" => old = NoSite
       /\ step[b] \in {"removeOld", "mark"} /\ ~ quiet => root = repo

Spare ==
    \A b \in BuildIDs : step[b] = "moveNew" =>
       (~ quiet /\ old # NoSite /\ marker # NoSite => old >= marker)

Alone == OneAtWork /\ Prepared /\ Spare /\ MarkerHonest

SiteInv == SiteTypeOK /\ CommitOrder /\ WorkingHoldsLock /\ (~ overlap => Alone)

\* Initially there is no build, and either no site or one built from commit 1.
LEMMA SiteInvInit == SiteInit => SiteInv
<1> SUFFICES ASSUME SiteInit PROVE SiteInv
  OBVIOUS
<1>1. repo \in {NoSite, 1} /\ root = repo /\ marker = repo
  BY DEF SiteInit, Finds
<1>2. \A b \in BuildIDs : step[b] \in {"none", "start"}
  BY DEF SiteInit
<1>3. step \in [BuildIDs -> Ended \union Working \union {"asked", "pending", "pull"}]
  BY DEF SiteInit, Ended
<1>4. /\ needsBuild \in BOOLEAN /\ quiet \in BOOLEAN /\ overlap \in BOOLEAN
  BY Zenon DEF SiteInit
<1>5. SiteTypeOK
  BY <1>1, <1>3, <1>4, SiteBuildAssumption DEF SiteInit, SiteTypeOK, Dirs, Commits
<1>6. CommitOrder
  BY <1>1 DEF SiteInit, CommitOrder
<1>7. OneAtWork /\ Prepared /\ Spare
  BY <1>2 DEF OneAtWork, Prepared, Spare, Moving
<1>8. WorkingHoldsLock
  BY <1>2 DEF WorkingHoldsLock, Working, BuildIDs
<1>9. MarkerHonest
  BY <1>1, SiteBuildAssumption DEF MarkerHonest
<1> QED
  BY <1>5, <1>6, <1>7, <1>8, <1>9 DEF SiteInv, Alone
-----------------------------------------------------------------------------
\* Every step keeps the types.
LEMMA SiteTypeStep ==
  ASSUME SiteTypeOK, SiteNext
  PROVE  SiteTypeOK'
<1> USE SiteBuildAssumption
    DEF SiteTypeOK, Goto, Release, Pulled, diskVars, memoryVars, buildHistory, Ended, Working,
        BuildIDs
<1>1. CASE Push
  BY <1>1 DEF Push, Commits
<1>2. CASE StartupCheck
  BY <1>2 DEF StartupCheck
<1>3. CASE StartupPull
  <2>1. repo' \in Dirs
    BY <1>3 DEF StartupPull, Dirs
  <2>2. overlap' \in BOOLEAN
    BY <1>3 DEF StartupPull
  <2>3. step' \in [BuildIDs -> Ended \union Working \union {"asked", "pending", "pull"}]
    BY <1>3 DEF StartupPull
  <2> QED
    BY <1>3, <2>1, <2>2, <2>3 DEF StartupPull
<1>4. CASE BuildCrash
  <2>1. buildEvents' \in 0..MaxBuildEvents
    BY <1>4 DEF BuildCrash
  <2>3. step' \in [BuildIDs -> Ended \union Working \union {"asked", "pending", "pull"}]
    BY <1>4 DEF BuildCrash
  <2>4. source' \in [BuildIDs -> Dirs]
    BY <1>4 DEF BuildCrash, Dirs
  <2> QED
    BY <1>4, <2>1, <2>3, <2>4 DEF BuildCrash
<1>5. ASSUME NEW b \in Requests, Trigger(b)
      PROVE  SiteTypeOK'
  <2>1. buildEvents' \in 0..MaxBuildEvents
    BY <1>5 DEF Trigger, Requests
  <2> QED
    BY <1>5, <2>1 DEF Trigger
<1>6. ASSUME NEW b \in Requests, Register(b) \/ Lock(b)
      PROVE  SiteTypeOK'
  BY <1>6 DEF Register, Lock
<1>7. ASSUME NEW b \in BuildIDs, Clone(b)
      PROVE  SiteTypeOK'
  <2>1. repo' \in Dirs
    BY <1>7 DEF Clone, Dirs
  <2>2. overlap' \in BOOLEAN
    BY <1>7 DEF Clone
  <2>3. step' \in [BuildIDs -> Ended \union Working \union {"asked", "pending", "pull"}]
    BY <1>7 DEF Clone
  <2> QED
    BY <1>7, <2>1, <2>2, <2>3 DEF Clone
<1>8. ASSUME NEW b \in BuildIDs, RunBuilder(b)
      PROVE  SiteTypeOK'
  BY <1>8 DEF RunBuilder
<1>9. ASSUME NEW b \in BuildIDs, Fail(b) \/ EndQuietly(b)
      PROVE  SiteTypeOK'
  BY <1>9 DEF Fail, EndQuietly
<1>10. ASSUME NEW b \in BuildIDs, ClearOld(b) \/ MoveOld(b)
      PROVE  SiteTypeOK'
  BY <1>10 DEF ClearOld, MoveOld, Dirs
<1>11. ASSUME NEW b \in BuildIDs, MoveNew(b) \/ MoveNewFails(b) \/ RemoveOld(b) \/ Mark(b)
      PROVE  SiteTypeOK'
  <2>1. CASE MoveNew(b)
    BY <2>1 DEF MoveNew, Dirs
  <2>2. CASE MoveNewFails(b)
    BY <2>2 DEF MoveNewFails, Dirs
  <2>3. CASE RemoveOld(b)
    BY <2>3 DEF RemoveOld, Dirs
  <2>4. CASE Mark(b)
    BY <2>4 DEF Mark
  <2> QED
    BY <1>11, <2>1, <2>2, <2>3, <2>4
<1> QED
  BY <1>1, <1>2, <1>3, <1>4, <1>5, <1>6, <1>7, <1>8, <1>9, <1>10, <1>11 DEF SiteNext, Build

\* The noted commit is never ahead of the repository, nor that of upstream.
LEMMA CommitOrderStep ==
  ASSUME SiteTypeOK, CommitOrder, SiteNext
  PROVE  CommitOrder'
<1> USE SiteBuildAssumption
    DEF SiteTypeOK, CommitOrder, Pulled, diskVars, Dirs, Commits
<1>1. CASE Push \/ StartupCheck \/ BuildCrash
  BY <1>1 DEF Push, StartupCheck, BuildCrash
<1>2. CASE StartupPull
  BY <1>2 DEF StartupPull
<1>3. ASSUME NEW b \in Requests, Trigger(b) \/ Register(b) \/ Lock(b)
      PROVE  CommitOrder'
  BY <1>3 DEF Trigger, Register, Lock
<1>4. ASSUME NEW b \in BuildIDs, Clone(b)
      PROVE  CommitOrder'
  BY <1>4 DEF Clone
<1>5. ASSUME NEW b \in BuildIDs,
             Fail(b) \/ RunBuilder(b) \/ EndQuietly(b) \/ ClearOld(b) \/ MoveOld(b)
             \/ MoveNew(b) \/ MoveNewFails(b) \/ RemoveOld(b)
      PROVE  CommitOrder'
  BY <1>5 DEF Fail, RunBuilder, EndQuietly, ClearOld, MoveOld, MoveNew, MoveNewFails, RemoveOld
<1>6. ASSUME NEW b \in BuildIDs, Mark(b), step[b] = "mark"
      PROVE  CommitOrder'
  BY <1>6 DEF Mark
<1> QED
  BY <1>1, <1>2, <1>3, <1>4, <1>5, <1>6 DEF SiteNext, Build, Mark
-----------------------------------------------------------------------------
\* Every step keeps what holds while builds do not overlap.
LEMMA AloneStep ==
  ASSUME SiteInv, SiteNext, ~ overlap'
  PROVE  Alone'
<1> USE SiteBuildAssumption
    DEF SiteInv, SiteTypeOK, Alone, OneAtWork, Prepared, Spare, MarkerHonest,
        Moving, Goto, Release, diskVars, memoryVars, buildHistory
<1>1. CASE Push
  BY <1>1 DEF Push
<1>2. CASE StartupCheck
  BY <1>2 DEF StartupCheck, BuildIDs
<1>3. CASE StartupPull
  <2>1. CASE UNCHANGED <<repo, overlap>> /\ Goto(StartupBuild, "idle")
    BY <1>3, <2>1 DEF StartupPull, BuildIDs
  <2>2. CASE Pulled(StartupBuild)
    <3>1. StartupBuild \in BuildIDs /\ step[StartupBuild] = "pull"
      BY <1>3 DEF StartupPull, BuildIDs
    <3>2. \A c \in BuildIDs : step[c] \notin Moving
      BY <2>2, <3>1 DEF Pulled, Working
    <3>3. step'[StartupBuild] \in {"clone", "idle"}
          /\ \A c \in BuildIDs \ {StartupBuild} : step'[c] = step[c]
      BY <1>3, <3>1 DEF StartupPull
    <3>4. \A c \in BuildIDs : step'[c] \notin Moving
      BY <3>2, <3>3
    <3>5. OneAtWork' /\ Prepared' /\ Spare'
      BY <3>4
    <3>6. MarkerHonest'
      BY <1>3, <2>2, <3>2 DEF StartupPull, Pulled
    <3> QED
      BY <3>5, <3>6
  <2> QED
    BY <1>3, <2>1, <2>2 DEF StartupPull
<1>4. CASE BuildCrash
  BY <1>4 DEF BuildCrash
<1>5. ASSUME NEW b \in Requests, Trigger(b) \/ Register(b) \/ Lock(b)
      PROVE  Alone'
  BY <1>5 DEF Trigger, Register, Lock, BuildIDs
<1>6. ASSUME NEW b \in BuildIDs, Clone(b)
      PROVE  Alone'
  <2>1. \A c \in BuildIDs : step[c] \notin Moving
    BY <1>6 DEF Clone, Pulled, Working
  <2>2. step'[b] = "run" /\ \A c \in BuildIDs \ {b} : step'[c] = step[c]
    BY <1>6 DEF Clone
  <2>3. repo' # NoSite
    BY <1>6 DEF Clone, Pulled, Commits
  <2>4. OneAtWork' /\ Prepared' /\ Spare'
    BY <2>1, <2>2, <2>3
  <2>5. MarkerHonest'
    BY <1>6, <2>1 DEF Clone, Pulled
  <2> QED
    BY <2>4, <2>5
<1>7. ASSUME NEW b \in BuildIDs, Fail(b)
      PROVE  Alone'
  BY <1>7 DEF Fail
<1>8. ASSUME NEW b \in BuildIDs, RunBuilder(b)
      PROVE  Alone'
  BY <1>8 DEF RunBuilder
<1>9. ASSUME NEW b \in BuildIDs, EndQuietly(b)
      PROVE  Alone'
  BY <1>9 DEF EndQuietly
<1>10. ASSUME NEW b \in BuildIDs, ClearOld(b)
      PROVE  Alone'
  BY <1>10 DEF ClearOld
<1>11. ASSUME NEW b \in BuildIDs, MoveOld(b)
      PROVE  Alone'
  BY <1>11 DEF MoveOld
<1>12. ASSUME NEW b \in BuildIDs, MoveNew(b)
      PROVE  Alone'
  BY <1>12 DEF MoveNew, CommitOrder
<1>13. ASSUME NEW b \in BuildIDs, MoveNewFails(b)
      PROVE  Alone'
  BY <1>13 DEF MoveNewFails
<1>14. ASSUME NEW b \in BuildIDs, RemoveOld(b)
      PROVE  Alone'
  BY <1>14 DEF RemoveOld
<1>15. ASSUME NEW b \in BuildIDs, Mark(b)
      PROVE  Alone'
  <2>1. step[b] = "mark" /\ ~ overlap /\ (~ quiet => root = repo)
    BY <1>15 DEF Mark
  <2>2. \A c \in BuildIDs : step'[c] \notin Moving
    BY <1>15, <2>1 DEF Mark
  <2>3. OneAtWork' /\ Prepared' /\ Spare'
    BY <2>2
  <2>5. MarkerHonest'
    <3>1. marker' \in {repo, marker} /\ root' = root /\ quiet' = quiet
      BY <1>15 DEF Mark
    <3>2. repo \in Commits \union {NoSite}
      BY DEF Dirs
    <3> QED
      BY <2>1, <3>1, <3>2 DEF Commits
  <2> QED
    BY <2>3, <2>5
<1> QED
  BY <1>1, <1>2, <1>3, <1>4, <1>5, <1>6, <1>7, <1>8, <1>9, <1>10, <1>11, <1>12, <1>13, <1>14,
     <1>15 DEF SiteNext, Build

\* A triggered build starts to work with the lock, and gives it back when it ends.
LEMMA WorkingHoldsLockStep ==
  ASSUME SiteTypeOK, WorkingHoldsLock, SiteNext
  PROVE  WorkingHoldsLock'
<1> USE SiteBuildAssumption
    DEF SiteTypeOK, WorkingHoldsLock, Working, BuildIDs, Goto, diskVars, memoryVars, buildHistory
<1>1. CASE Push \/ BuildCrash
  BY <1>1 DEF Push, BuildCrash
<1>2. CASE StartupCheck \/ StartupPull
  <2>1. StartupBuild \notin Requests
    BY DEF StartupBuild, Requests
  <2> QED
    BY <1>2, <2>1 DEF StartupCheck, StartupPull
<1>3. ASSUME NEW b \in Requests, Trigger(b) \/ Register(b)
      PROVE  WorkingHoldsLock'
  BY <1>3 DEF Trigger, Register
<1>4. ASSUME NEW b \in Requests, Lock(b)
      PROVE  WorkingHoldsLock'
  <2>1. \A c \in Requests : step[c] \notin Working
    BY <1>4 DEF Lock, Requests
  <2> QED
    BY <1>4, <2>1 DEF Lock
<1>5. ASSUME NEW b \in BuildIDs,
             Clone(b) \/ RunBuilder(b) \/ EndQuietly(b) \/ ClearOld(b) \/ MoveNew(b) \/ RemoveOld(b)
      PROVE  WorkingHoldsLock'
  BY <1>5 DEF Clone, RunBuilder, EndQuietly, ClearOld, MoveNew, RemoveOld
<1>6. ASSUME NEW b \in BuildIDs, Fail(b) \/ MoveOld(b) \/ MoveNewFails(b) \/ Mark(b)
      PROVE  WorkingHoldsLock'
  <2>1. \A c \in Requests \ {b} : step'[c] = step[c]
    BY <1>6 DEF Fail, MoveOld, MoveNewFails, Mark
  <2>2. \A c \in Requests \ {b} : serverLock = c => serverLock' = c
    BY <1>6 DEF Fail, MoveOld, MoveNewFails, Mark, Release
  <2>3. step'[b] \in Working => step[b] \in Working /\ serverLock' = serverLock
    BY <1>6 DEF Fail, MoveOld, MoveNewFails, Mark
  <2> QED
    BY <2>1, <2>2, <2>3
<1> QED
  BY <1>1, <1>2, <1>3, <1>4, <1>5, <1>6 DEF SiteNext, Build

\* The invariant is inductive.
LEMMA SiteInvStep == SiteInv /\ [SiteNext]_siteVars => SiteInv'
<1> SUFFICES ASSUME SiteInv, [SiteNext]_siteVars PROVE SiteInv'
  OBVIOUS
<1>1. CASE SiteNext
  BY <1>1, SiteTypeStep, CommitOrderStep, WorkingHoldsLockStep, AloneStep DEF SiteInv
<1>2. CASE UNCHANGED siteVars
  BY <1>2 DEF siteVars, diskVars, memoryVars, buildHistory, SiteInv, SiteTypeOK, CommitOrder,
              WorkingHoldsLock, Alone, OneAtWork, Prepared, Spare, MarkerHonest
<1> QED
  BY <1>1, <1>2

\* TriggerBuild: however many requests pass its check at once, their builds work on
\* the site one after the other, for any number of commits, builds and crashes.
THEOREM SiteTriggeredOneByOne == SiteSpec => []TriggeredOneByOne
<1>1. SiteInv => TriggeredOneByOne
  BY DEF SiteInv, WorkingHoldsLock, TriggeredOneByOne
<1> QED
  BY <1>1, SiteInvInit, SiteInvStep, PTL DEF SiteSpec

\* The deployed site is not older than the commit in .last-build-commit.
THEOREM SiteMarkerHonest == SiteSpec => []MarkerHonest
<1>1. SiteInv => MarkerHonest
  BY DEF SiteInv, Alone, MarkerHonest
<1> QED
  BY <1>1, SiteInvInit, SiteInvStep, PTL DEF SiteSpec
-----------------------------------------------------------------------------
(* The change feed never sends on a closed channel or closes one twice,    *)
(* for any watchers, publishers and buffer size.  The argument: whoever is *)
(* subscribed or detached has an open channel, and is not both (OpenOnce); *)
(* and what a publisher has still to serve is subscribed (SendsToSubs),    *)
(* which the read lock it holds keeps true.                                *)

OpenOnce ==
    /\ subs \subseteq open /\ closing \subseteq open
    /\ subs \intersect closing = {}
    /\ \A w \in subs \union closing : watch[w] \notin {"new", "admitted"}

SendsToSubs ==
    \A p \in Publishers :
       /\ sending[p] \subseteq subs
       /\ sending[p] # {} => p \in reading

FeedInv == FeedTypeOK /\ OpenOnce /\ SendsToSubs /\ ChannelsSafe

\* Initially there is neither watcher nor event.
LEMMA FeedInvInit == FeedInit => FeedInv
<1> SUFFICES ASSUME FeedInit PROVE FeedInv
  OBVIOUS
<1>1. buffered \in [Watchers -> 0..WatchCap]
  BY FeedAssumption DEF FeedInit
<1>2. storageOpen \in BOOLEAN /\ panicked \in BOOLEAN
  BY Zenon DEF FeedInit
<1>3. FeedTypeOK
  BY <1>1, <1>2 DEF FeedInit, FeedTypeOK
<1>4. ChannelsSafe
  BY Zenon DEF FeedInit, ChannelsSafe
<1>5. OpenOnce /\ SendsToSubs
  BY DEF FeedInit, OpenOnce, SendsToSubs
<1> QED
  BY <1>3, <1>4, <1>5 DEF FeedInv

\* With the write lock nobody has anything left to send.
LEMMA WriteLockAlone ==
  ASSUME SendsToSubs, WriteLock
  PROVE  \A p \in Publishers : sending[p] = {}
  BY DEF SendsToSubs, WriteLock

\* Every step keeps the types.
LEMMA FeedTypeStep ==
  ASSUME FeedTypeOK, FeedNext
  PROVE  FeedTypeOK'
<1> USE FeedAssumption DEF FeedTypeOK
<1>1. ASSUME NEW w \in Watchers, Watch(w) \/ Subscribe(w) \/ Cancel(w) \/ Leave(w)
      PROVE  FeedTypeOK'
  BY <1>1 DEF Watch, Subscribe, Cancel, Leave
<1>2. ASSUME NEW w \in Watchers, Receive(w)
      PROVE  FeedTypeOK'
  BY <1>2 DEF Receive
<1>3. ASSUME NEW w \in Watchers, Unsubscribe(w) \/ ShutdownOne(w)
      PROVE  FeedTypeOK'
  BY <1>3 DEF Unsubscribe, ShutdownOne
<1>4. ASSUME NEW w \in Watchers, NEW p \in Publishers, Offer(p, w)
      PROVE  FeedTypeOK'
  BY <1>4 DEF Offer
<1>5. ASSUME NEW p \in Publishers, Published(p)
      PROVE  FeedTypeOK'
  BY <1>5 DEF Published
<1>6. ASSUME NEW p \in Publishers, NEW M \in SUBSET Watchers, Publish(p, M)
      PROVE  FeedTypeOK'
  BY <1>6 DEF Publish
<1>7. CASE Shutdown
  BY <1>7 DEF Shutdown
<1> QED
  BY <1>1, <1>2, <1>3, <1>4, <1>5, <1>6, <1>7 DEF FeedNext

\* Every step keeps channels open for those who use them.
LEMMA FeedSafetyStep ==
  ASSUME FeedInv, FeedNext
  PROVE  OpenOnce' /\ SendsToSubs' /\ ChannelsSafe'
<1> USE DEF FeedInv, FeedTypeOK, OpenOnce, SendsToSubs, ChannelsSafe
<1>1. ASSUME NEW w \in Watchers, Watch(w) \/ Cancel(w) \/ Leave(w) \/ Receive(w)
      PROVE  OpenOnce' /\ SendsToSubs' /\ ChannelsSafe'
  BY <1>1 DEF Watch, Cancel, Leave, Receive
<1>2. ASSUME NEW w \in Watchers, Subscribe(w)
      PROVE  OpenOnce' /\ SendsToSubs' /\ ChannelsSafe'
  BY <1>2, WriteLockAlone DEF Subscribe
<1>3. ASSUME NEW w \in Watchers, Unsubscribe(w)
      PROVE  OpenOnce' /\ SendsToSubs' /\ ChannelsSafe'
  <2>1. \A p \in Publishers : sending'[p] = {}
    BY <1>3, WriteLockAlone DEF Unsubscribe
  <2> QED
    BY <1>3, <2>1 DEF Unsubscribe
<1>4. ASSUME NEW w \in Watchers, ShutdownOne(w)
      PROVE  OpenOnce' /\ SendsToSubs' /\ ChannelsSafe'
  BY <1>4 DEF ShutdownOne
<1>5. ASSUME NEW w \in Watchers, NEW p \in Publishers, Offer(p, w)
      PROVE  OpenOnce' /\ SendsToSubs' /\ ChannelsSafe'
  BY <1>5 DEF Offer
<1>6. ASSUME NEW p \in Publishers, Published(p)
      PROVE  OpenOnce' /\ SendsToSubs' /\ ChannelsSafe'
  BY <1>6 DEF Published
<1>7. ASSUME NEW p \in Publishers, NEW M \in SUBSET Watchers, Publish(p, M)
      PROVE  OpenOnce' /\ SendsToSubs' /\ ChannelsSafe'
  BY <1>7 DEF Publish
<1>8. CASE Shutdown
  <2>1. \A p \in Publishers : sending'[p] = {}
    BY <1>8, WriteLockAlone DEF Shutdown
  <2> QED
    BY <1>8, <2>1 DEF Shutdown
<1> QED
  BY <1>1, <1>2, <1>3, <1>4, <1>5, <1>6, <1>7, <1>8 DEF FeedNext

\* The invariant is inductive.
LEMMA FeedInvStep == FeedInv /\ [FeedNext]_feedVars => FeedInv'
<1> SUFFICES ASSUME FeedInv, [FeedNext]_feedVars PROVE FeedInv'
  OBVIOUS
<1>1. CASE FeedNext
  BY <1>1, FeedTypeStep, FeedSafetyStep DEF FeedInv
<1>2. CASE UNCHANGED feedVars
  BY <1>2 DEF feedVars, FeedInv, FeedTypeOK, OpenOnce, SendsToSubs, ChannelsSafe
<1> QED
  BY <1>1, <1>2

\* informer.go: no panic, whoever leaves, publishes or closes the storage when.
THEOREM FeedChannelsSafe == FeedSpec => []ChannelsSafe
<1>1. FeedInv => ChannelsSafe
  BY DEF FeedInv
<1> QED
  BY <1>1, FeedInvInit, FeedInvStep, PTL DEF FeedSpec
-----------------------------------------------------------------------------
(* Scheduled reports keep their types, for any nodes, reports, queue       *)
(* capacity and number of attempts.                                        *)

\* The rows a dispatcher starts with are rows.
LEMMA ReportsTypeInit == ReportsInit => ReportsTypeOK
<1> SUFFICES ASSUME ReportsInit PROVE ReportsTypeOK
  OBVIOUS
<1>1. reports \in [ReportIDs -> ReportRow \union {NoReport}]
  <2>1. [enabled |-> TRUE, next |-> "later"] \in ReportRow
    BY DEF ReportRow
  <2>2. reports \in [ReportIDs -> {NoReport, [enabled |-> TRUE, next |-> "later"]}]
        \/ reports = [r \in ReportIDs |-> NoReport]
    BY DEF ReportsInit, Finds
  <2> QED
    BY <2>1, <2>2
<1>2. \A n \in ReportNodes : queue[n] = <<>> /\ job[n] = NoReport
  BY DEF ReportsInit
<1>3. queue \in [ReportNodes -> Seq(ReportIDs)] /\ \A n \in ReportNodes : Len(queue[n]) <= QueueCap
  BY ReportsAssumption DEF ReportsInit
<1>4. /\ due \in [ReportNodes -> SUBSET ReportIDs] /\ job \in [ReportNodes -> Job \union {NoReport}]
      /\ odd \subseteq ReportIDs /\ unscheduled \subseteq ReportIDs
  BY DEF ReportsInit
<1>5. /\ reportEdits \in 0..MaxReportEdits /\ sendNows \in 0..MaxSendNows
      /\ reportFaults \in 0..MaxReportFaults
  BY ReportsAssumption DEF ReportsInit
<1> QED
  BY <1>1, <1>2, <1>3, <1>4, <1>5 DEF ReportsTypeOK

\* A step that touches neither the jobs nor the queues.
LEMMA ReportRowsStep ==
  ASSUME ReportsTypeOK, UNCHANGED <<queue, job>>,
         reports' \in [ReportIDs -> ReportRow \union {NoReport}],
         due' \in [ReportNodes -> SUBSET ReportIDs],
         odd' \subseteq ReportIDs, unscheduled' \subseteq ReportIDs,
         reportEdits' \in 0..MaxReportEdits, UNCHANGED <<sendNows, reportFaults>>
  PROVE  ReportsTypeOK'
  BY DEF ReportsTypeOK

\* sendOne: nothing, or a job that has just begun.
LEMMA SendOneStep ==
  ASSUME ReportsTypeOK, NEW n \in ReportNodes, NEW r \in ReportIDs, SendOne(n, r)
  PROVE  /\ job' \in [ReportNodes -> Job \union {NoReport}] /\ odd' \subseteq ReportIDs
         /\ reportFaults' \in 0..MaxReportFaults
<1>1. odd' \subseteq ReportIDs /\ reportFaults' \in 0..MaxReportFaults
  BY ReportsAssumption DEF SendOne, SendEnds, ReportsTypeOK
<1>2. CASE UNCHANGED job
  BY <1>1, <1>2 DEF ReportsTypeOK
<1>3. CASE reports[r] # NoReport /\ ~ UNCHANGED job
  <2>1. reports[r] \in ReportRow /\ 1 \in 1..Attempts
    BY <1>3, ReportsAssumption DEF ReportsTypeOK
  <2>2. \A s \in {"mail", "advance"} :
           [report |-> r, row |-> reports[r], step |-> s, attempt |-> 1] \in Job
    BY <2>1 DEF Job
  <2>3. \E s \in {"mail", "advance"} :
           job' = [job EXCEPT ![n] = [report |-> r, row |-> reports[r], step |-> s, attempt |-> 1]]
    BY <1>3 DEF SendOne
  <2> QED
    BY <1>1, <2>2, <2>3 DEF ReportsTypeOK
<1> QED
  BY <1>2, <1>3 DEF SendOne

\* The rest of a send: another attempt, the last one, the end.
LEMMA JobStep ==
  ASSUME ReportsTypeOK, NEW n \in ReportNodes,
         MailFails(n) \/ MailSent(n) \/ AdvanceNextFire(n)
  PROVE  ReportsTypeOK'
<1>1. job[n] \in Job
  BY DEF ReportsTypeOK, MailFails, MailSent, Mailing, AdvanceNextFire
<1>2. /\ job[n].report \in ReportIDs /\ job[n].row \in ReportRow /\ job[n].attempt \in 1..Attempts
  BY <1>1 DEF Job
<1>3. CASE MailFails(n) \/ MailSent(n)
  <2>1. /\ UNCHANGED <<reports, due, queue, unscheduled, reportEdits, sendNows, reportFaults>>
        /\ odd' \subseteq odd \union {job[n].report}
    BY <1>3 DEF MailFails, MailSent, AttemptsOver, SendEnds, reportBounds
  <2>2. \E j \in Job : job' = [job EXCEPT ![n] = j]
    <3>1. CASE AttemptsOver(n)
      <4>1. [job[n] EXCEPT !.step = "advance"] \in Job
        BY <1>1 DEF Job
      <4> QED
        BY <3>1, <4>1 DEF AttemptsOver
    <3>2. CASE job[n].attempt # Attempts /\ job' = [job EXCEPT ![n].attempt = @ + 1]
      <4>1. job[n].attempt + 1 \in 1..Attempts
        BY <1>2, <3>2, ReportsAssumption
      <4>2. [job[n] EXCEPT !.attempt = @ + 1] \in Job
        BY <1>1, <4>1 DEF Job
      <4> QED
        BY <3>2, <4>2
    <3> QED
      BY <1>3, <3>1, <3>2 DEF MailFails, MailSent
  <2>3. job' \in [ReportNodes -> Job \union {NoReport}]
    BY <2>2 DEF ReportsTypeOK
  <2> QED
    BY <1>2, <2>1, <2>3 DEF ReportsTypeOK
<1>4. CASE AdvanceNextFire(n)
  <2>1. /\ job' = [job EXCEPT ![n] = NoReport]
        /\ UNCHANGED <<due, queue, odd, reportEdits, sendNows, reportFaults>>
        /\ unscheduled' \subseteq unscheduled
    BY <1>4 DEF AdvanceNextFire, reportBounds
  <2>2. [job[n].row EXCEPT !.next = "later"] \in ReportRow
    BY <1>2 DEF ReportRow
  <2>3. reports' \in [ReportIDs -> ReportRow \union {NoReport}]
    BY <1>2, <1>4, <2>2 DEF AdvanceNextFire, ReportsTypeOK
  <2>4. job' \in [ReportNodes -> Job \union {NoReport}]
    BY <2>1 DEF ReportsTypeOK
  <2> QED
    BY <2>1, <2>3, <2>4 DEF ReportsTypeOK
<1> QED
  BY <1>3, <1>4

\* Every step keeps the types.
LEMMA ReportsTypeStep == ReportsTypeOK /\ [ReportsNext]_reportsVars => ReportsTypeOK'
<1> SUFFICES ASSUME ReportsTypeOK, [ReportsNext]_reportsVars PROVE ReportsTypeOK'
  OBVIOUS
<1> USE ReportsAssumption
<1>1. ASSUME NEW r \in ReportIDs, NEW on \in BOOLEAN, SaveReport(r, on) PROVE ReportsTypeOK'
  <2>1. [enabled |-> on, next |-> "zero"] \in ReportRow
    BY DEF ReportRow
  <2> QED
    BY <1>1, <2>1, ReportRowsStep DEF SaveReport, ReportsTypeOK, dispatchVars
<1>2. ASSUME NEW r \in ReportIDs, DeleteReport(r) PROVE ReportsTypeOK'
  BY <1>2, ReportRowsStep DEF DeleteReport, ReportsTypeOK, dispatchVars
<1>3. ASSUME NEW r \in ReportIDs, ReportClock(r) PROVE ReportsTypeOK'
  <2>1. reports[r] \in ReportRow
    BY <1>3 DEF ReportClock, ReportsTypeOK
  <2>2. [reports[r] EXCEPT !.next = "due"] \in ReportRow
    BY <2>1 DEF ReportRow
  <2>3. reports' \in [ReportIDs -> ReportRow \union {NoReport}]
    BY <1>3, <2>2 DEF ReportClock, ReportsTypeOK
  <2> QED
    BY <1>3, <2>3, ReportRowsStep DEF ReportClock, ReportsTypeOK, dispatchVars, reportBounds
<1>4. ASSUME NEW n \in ReportNodes, NEW r \in ReportIDs, SendNow(n, r) PROVE ReportsTypeOK'
  <2>1. queue[n] \in Seq(ReportIDs) /\ Len(queue[n]) \in Nat
    BY DEF ReportsTypeOK
  <2>2. Append(queue[n], r) \in Seq(ReportIDs) /\ Len(Append(queue[n], r)) = Len(queue[n]) + 1
    BY <2>1, AppendProperties
  <2>3. queue' \in [ReportNodes -> Seq(ReportIDs)] /\ \A m \in ReportNodes : Len(queue'[m]) <= QueueCap
    BY <1>4, <2>1, <2>2 DEF SendNow, ReportsTypeOK
  <2>4. sendNows' \in 0..MaxSendNows
    BY <1>4 DEF SendNow, ReportsTypeOK
  <2> QED
    BY <1>4, <2>3, <2>4 DEF SendNow, ReportsTypeOK
<1>5. ASSUME NEW n \in ReportNodes, RunDueReports(n) PROVE ReportsTypeOK'
  BY <1>5, ReportRowsStep DEF RunDueReports, ReportsTypeOK, reportBounds
<1>6. ASSUME NEW n \in ReportNodes, SendQueued(n) PROVE ReportsTypeOK'
  <2>1. queue[n] \in Seq(ReportIDs) /\ queue[n] # <<>> /\ Len(queue[n]) <= QueueCap
    BY <1>6 DEF SendQueued, ReportsTypeOK
  <2>2. /\ Tail(queue[n]) \in Seq(ReportIDs) /\ Head(queue[n]) \in ReportIDs
        /\ Len(Tail(queue[n])) <= QueueCap
    BY <2>1, HeadTailProperties
  <2>3. queue' \in [ReportNodes -> Seq(ReportIDs)] /\ \A m \in ReportNodes : Len(queue'[m]) <= QueueCap
    BY <1>6, <2>2 DEF SendQueued, ReportsTypeOK
  <2>4. /\ job' \in [ReportNodes -> Job \union {NoReport}] /\ odd' \subseteq ReportIDs
        /\ reportFaults' \in 0..MaxReportFaults
    BY <1>6, <2>2, SendOneStep DEF SendQueued
  <2> QED
    BY <1>6, <2>3, <2>4 DEF SendQueued, ReportsTypeOK, reportBounds
<1>7. ASSUME NEW n \in ReportNodes, NEW r \in ReportIDs, SendDue(n, r) PROVE ReportsTypeOK'
  <2>1. /\ job' \in [ReportNodes -> Job \union {NoReport}] /\ odd' \subseteq ReportIDs
        /\ reportFaults' \in 0..MaxReportFaults
    BY <1>7, SendOneStep DEF SendDue
  <2>2. due' \in [ReportNodes -> SUBSET ReportIDs]
    BY <1>7 DEF SendDue, ReportsTypeOK
  <2> QED
    BY <1>7, <2>1, <2>2 DEF SendDue, ReportsTypeOK, reportBounds
<1>8. ASSUME NEW n \in ReportNodes, MailFails(n) \/ MailSent(n) \/ AdvanceNextFire(n) PROVE ReportsTypeOK'
  BY <1>8, JobStep
<1>9. ASSUME NEW n \in ReportNodes, ReportCrash(n) PROVE ReportsTypeOK'
  <2>1. /\ due' \in [ReportNodes -> SUBSET ReportIDs] /\ queue' \in [ReportNodes -> Seq(ReportIDs)]
        /\ job' \in [ReportNodes -> Job \union {NoReport}]
    BY <1>9 DEF ReportCrash, ReportsTypeOK
  <2>2. \A m \in ReportNodes : Len(queue'[m]) <= QueueCap
    BY <1>9 DEF ReportCrash, ReportsTypeOK
  <2>4. reportFaults' \in 0..MaxReportFaults
    BY <1>9 DEF ReportCrash, ReportsTypeOK
  <2> QED
    BY <1>9, <2>1, <2>2, <2>4 DEF ReportCrash, ReportsTypeOK
<1>10. CASE UNCHANGED reportsVars
  BY <1>10 DEF reportsVars, dispatchVars, reportBounds, ReportsTypeOK
<1> QED
  BY <1>1, <1>2, <1>3, <1>4, <1>5, <1>6, <1>7, <1>8, <1>9, <1>10 DEF ReportsNext, Dispatch

-----------------------------------------------------------------------------
(* Leadership priority keeps its types.                                    *)

LEMMA PriorityTypeInit == PriorityInit => PriorityTypeOK
<1> SUFFICES ASSUME PriorityInit PROVE PriorityTypeOK
  OBVIOUS
<1>1. leader \in Team \union {Nobody}
  BY DEF PriorityInit, Finds
<1>2. chConnected \in [Team -> BOOLEAN]
  <2>1. [n \in Team |-> n \in Steady] \in [Team -> BOOLEAN]
    OBVIOUS
  <2> QED
    BY <2>1 DEF PriorityInit, Finds
<1> QED
  BY <1>1, <1>2, PriorityAssumption DEF PriorityInit, PriorityTypeOK

LEMMA PriorityTypeStep == PriorityTypeOK /\ [PriorityNext]_priorityVars => PriorityTypeOK'
<1> SUFFICES ASSUME PriorityTypeOK, [PriorityNext]_priorityVars PROVE PriorityTypeOK'
  OBVIOUS
<1>1. ASSUME NEW n \in Team, Refresh(n) PROVE PriorityTypeOK'
  BY <1>1 DEF Refresh, PriorityTypeOK
<1>2. ASSUME NEW n \in Team, Expire(n) PROVE PriorityTypeOK'
  BY <1>2 DEF Expire, PriorityTypeOK
<1>3. ASSUME NEW n \in Team, EvaluateTransfer(n) PROVE PriorityTypeOK'
  BY <1>3 DEF EvaluateTransfer, PriorityTypeOK
<1>4. ASSUME NEW n \in Team, Elect(n) PROVE PriorityTypeOK'
  BY <1>4 DEF Elect, PriorityTypeOK
<1>5. ASSUME NEW n \in Team, GoDown(n) PROVE PriorityTypeOK'
  BY <1>5, PriorityAssumption DEF GoDown, PriorityTypeOK
<1>6. ASSUME NEW n \in Team, ComeUp(n) PROVE PriorityTypeOK'
  BY <1>6 DEF ComeUp, PriorityTypeOK
<1>7. CASE UNCHANGED priorityVars
  BY <1>7 DEF priorityVars, PriorityTypeOK
<1> QED
  BY <1>1, <1>2, <1>3, <1>4, <1>5, <1>6, <1>7 DEF PriorityNext
-----------------------------------------------------------------------------
(* The services together.                                                  *)

\* RunUnified's services, seen one at a time.
LEMMA OneServiceAtATime ==
  ASSUME [Next]_vars
  PROVE  /\ [RelayNext]_relayVars
         /\ [AlertsNext]_alertsVars /\ [ReportsNext]_reportsVars /\ [SiteNext]_siteVars
         /\ [PriorityNext]_priorityVars /\ [PairingNext]_pairingVars /\ [FeedNext]_feedVars
<1>1. CASE UNCHANGED vars
  BY <1>1 DEF vars
<1>2. CASE AlertsNext /\ UNCHANGED <<relayVars, reportsVars, siteVars, priorityVars, pairingVars, feedVars>>
  BY <1>2
<1>3. CASE ReportsNext /\ UNCHANGED <<relayVars, alertsVars, siteVars, priorityVars, pairingVars, feedVars>>
  BY <1>3
<1>4. CASE SiteNext /\ UNCHANGED <<relayVars, alertsVars, reportsVars, priorityVars, pairingVars, feedVars>>
  BY <1>4
<1>5. CASE PriorityNext /\ UNCHANGED <<relayVars, alertsVars, reportsVars, siteVars, pairingVars, feedVars>>
  BY <1>5
<1>6. CASE PairingNext /\ UNCHANGED <<relayVars, alertsVars, reportsVars, siteVars, priorityVars, feedVars>>
  BY <1>6
<1>7. CASE FeedNext /\ UNCHANGED <<relayVars, alertsVars, reportsVars, siteVars, priorityVars, pairingVars>>
  BY <1>7
<1>8. CASE RelayNext /\ UNCHANGED <<alertsVars, reportsVars, siteVars, priorityVars, pairingVars, feedVars>>
  BY <1>8
<1> QED
  BY <1>1, <1>2, <1>3, <1>4, <1>5, <1>6, <1>7, <1>8 DEF Next

\* Every behaviour of the process is one of each service.
THEOREM ServicesImplementEach ==
  Spec => RelaySpec /\ AlertsSpec /\ ReportsSpec /\ SiteSpec /\ PrioritySpec /\ PairingSpec /\ FeedSpec
<1>1. Init => /\ RelayInit /\ AlertsInit /\ ReportsInit /\ SiteInit
              /\ PriorityInit /\ PairingInit /\ FeedInit
  BY DEF Init
<1> QED
  BY <1>1, OneServiceAtATime, PTL
     DEF Spec, RelaySpec, AlertsSpec, ReportsSpec, SiteSpec, PrioritySpec, PairingSpec, FeedSpec

\* The safety of the services holds in the whole, whichever are started.
THEOREM ServicesSafe ==
  Spec => /\ []InOrder /\ []OnePlace /\ []DuplicatesPaid /\ NoSilentLoss /\ DiskRowsSurvive
          /\ []AdminHasLastWord /\ []TriggeredOneByOne /\ []MarkerHonest /\ []ChannelsSafe
  BY ServicesImplementEach, RelayInOrder, RelayOnePlace, RelayDuplicatesPaid,
     RelayNoSilentLoss, RelayDiskRowsSurvive, AlertsAdminHasLastWord, SiteTriggeredOneByOne, SiteMarkerHonest,
     FeedChannelsSafe, PTL

\* Every variable of every service keeps its type: queues, buffers, attempts and
\* retries stay within what the code allows them.
THEOREM ServicesTypeCorrect == Spec => []ServicesTypeOK
<1>1. RelayTypeOK /\ AlertsInv /\ ReportsTypeOK /\ SiteInv /\ PriorityTypeOK /\ PairingInv /\ FeedInv
         => ServicesTypeOK
  BY DEF AlertsInv, SiteInv, PairingInv, FeedInv, ServicesTypeOK
<1>2. /\ AlertsSpec => []AlertsInv
      /\ ReportsSpec => []ReportsTypeOK
      /\ SiteSpec => []SiteInv
  BY AlertsInvInit, AlertsInvStep, ReportsTypeInit, ReportsTypeStep, SiteInvInit, SiteInvStep, PTL
     DEF AlertsSpec, ReportsSpec, SiteSpec
<1>3. /\ PrioritySpec => []PriorityTypeOK
      /\ PairingSpec => []PairingInv
      /\ FeedSpec => []FeedInv
  BY PriorityTypeInit, PriorityTypeStep, PairingInvInit, PairingInvStep, FeedInvInit, FeedInvStep, PTL
     DEF PrioritySpec, PairingSpec, FeedSpec
<1> QED
  BY <1>1, <1>2, <1>3, RelayTypeCorrect, ServicesImplementEach, PTL
=============================================================================
