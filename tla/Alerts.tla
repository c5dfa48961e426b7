------------------------------- MODULE Alerts -------------------------------
(***************************************************************************)
(* Alert rules (pkg/alerts/evaluator, pkg/api/v1/alerts, the alert rows of *)
(* pkg/store/bolt).  Every node runs an evaluator: each minute it lists    *)
(* the rules, walks the copies in map order, and for a rule that is        *)
(* enabled, out of its cooldown and whose query holds it sends a           *)
(* notification, appends an event row and writes its copy back with        *)
(* LastFiredAt set.  Administrators edit the same rows meanwhile.          *)
(*                                                                         *)
(* LastFiredAt is modelled by its age, which stops at Cooldown: from there *)
(* on, and for a rule that never fired, inCooldown is false.  There is one *)
(* store: a pass that lists the rows of a replica that is behind is a pass *)
(* that listed them that much earlier.                                     *)
(***************************************************************************)
EXTENDS Boot, Naturals

CONSTANTS
    AlertNodes, AlertIDs, NoAlert,
    Standing,       \* the rules whose query holds whenever it is asked
    Cooldown,       \* the cooldown of every rule, in steps of the clock
    MaxFires,       \* maxFiresPerTick
    MaxAlertEvents  \* bound: edits by administrators and crashes of evaluating nodes

ASSUME AlertsAssumption ==
    /\ Standing \subseteq AlertIDs
    /\ Cooldown \in Nat \ {0} /\ MaxFires \in Nat \ {0}
    /\ MaxAlertEvents \in Nat
    /\ NoAlert \notin AlertIDs

Ages == 0..Cooldown
\* A row; rev stands for all the fields an administrator sets.
AlertRow == [rev : 0..MaxAlertEvents, enabled : BOOLEAN, age : Ages]
ASSUME NoAlertAssumption == NoAlert \notin AlertRow

VARIABLES
    alerts,     \* stored rows, NoAlert where there is none
    lastRaised,  \* age of the last notification of each standing rule
    phase,      \* node -> what its evaluator is doing
    held,       \* node -> the copies of this pass, NoAlert once dealt with
    current,    \* node -> the rule being fired
    fires,      \* node -> rules fired in this pass, or in the last one
    edit,       \* an UpdateAlert between its read and its write
    decided,    \* history: rev the administrators left, NoAlert for deleted
    overlapped, \* history: rules whose last edit fell into a pass
    alertEvents

alertStore == <<alerts, lastRaised>>
evaluatorVars == <<phase, held, current, fires>>
adminVars == <<edit, decided, overlapped>>
alertsVars == <<alertStore, evaluatorVars, adminVars, alertEvents>>

NoCopies == [a \in AlertIDs |-> NoAlert]
NewRule(rev, on) == [rev |-> rev, enabled |-> on, age |-> Cooldown]

AlertsInit ==
    /\ alerts \in Finds("alerts", [AlertIDs -> {NoAlert, NewRule(0, TRUE)}], NoCopies)
    /\ lastRaised = [a \in Standing |-> Cooldown]
    /\ phase = [n \in AlertNodes |-> "idle"]
    /\ held = [n \in AlertNodes |-> NoCopies]
    /\ current = [n \in AlertNodes |-> NoAlert]
    /\ fires = [n \in AlertNodes |-> 0]
    /\ edit = NoAlert
    /\ decided = [a \in AlertIDs |-> IF alerts[a] = NoAlert THEN NoAlert ELSE 0]
    /\ overlapped = {} /\ alertEvents = 0
-----------------------------------------------------------------------------
AlertEvent == alertEvents < MaxAlertEvents /\ alertEvents' = alertEvents + 1

Older(age) == IF age < Cooldown THEN age + 1 ELSE age
Aged(row) == IF row = NoAlert THEN row ELSE [row EXCEPT !.age = Older(@)]

\* Time passes for every LastFiredAt, stored or held.
AlertClock ==
    /\ alerts' = [a \in AlertIDs |-> Aged(alerts[a])]
    /\ lastRaised' = [a \in Standing |-> Older(lastRaised[a])]
    /\ held' = [n \in AlertNodes |-> [a \in AlertIDs |-> Aged(held[n][a])]]
    /\ edit' = IF edit = NoAlert THEN edit ELSE [edit EXCEPT !.age = Older(@)]
    /\ UNCHANGED <<phase, current, fires, decided, overlapped, alertEvents>>

\* Mutant: the count of fires is a field of the evaluator, not of the pass.
RunDueKeepsCount(n) ==
    /\ phase[n] = "idle"
    /\ phase' = [phase EXCEPT ![n] = "scan"]
    /\ held' = [held EXCEPT ![n] = alerts]
    /\ UNCHANGED <<alertStore, current, fires, adminVars, alertEvents>>

\* The minute tick (or the start): runDue lists the rules.
RunDue(n) ==
    /\ phase[n] = "idle"
    /\ phase' = [phase EXCEPT ![n] = "scan"]
    /\ held' = [held EXCEPT ![n] = alerts]
    /\ fires' = [fires EXCEPT ![n] = 0]
    /\ UNCHANGED <<alertStore, current, adminVars, alertEvents>>

Scanning(n, a) == phase[n] = "scan" /\ fires[n] < MaxFires /\ held[n][a] # NoAlert

\* Enabled and not in its cooldown.
Due(row) == row.enabled /\ row.age = Cooldown

\* The loop passes over a rule: disabled, in its cooldown, or the query fails
\* or does not hold.
Skip(n, a) ==
    /\ Scanning(n, a)
    /\ ~ Due(held[n][a]) \/ a \notin Standing
    /\ held' = [held EXCEPT ![n][a] = NoAlert]
    /\ UNCHANGED <<alertStore, phase, current, fires, adminVars, alertEvents>>

\* fire: the notification goes out, to whatever end.
Fire(n, a) ==
    /\ Scanning(n, a) /\ Due(held[n][a])
    /\ phase' = [phase EXCEPT ![n] = "send"]
    /\ current' = [current EXCEPT ![n] = a]
    /\ UNCHANGED <<alertStore, held, fires, adminVars, alertEvents>>

\* Delivered or not, and whether or not the event row could be stored, the copy
\* gets its FiredAt.
RecordEvent(n) ==
    /\ phase[n] = "send"
    /\ phase' = [phase EXCEPT ![n] = "store"]
    /\ lastRaised' = [a \in Standing |-> IF a = current[n] THEN 0 ELSE lastRaised[a]]
    /\ held' = [held EXCEPT ![n][current[n]].age = 0]
    /\ UNCHANGED <<alerts, current, fires, adminVars, alertEvents>>

\* Mutant: only the identity and LastFiredAt of the row are filled in.
WriteBackBare(n) ==
    /\ phase[n] = "store"
    /\ alerts' = [alerts EXCEPT ![current[n]] = [NewRule(0, TRUE) EXCEPT !.age = 0]]
    /\ phase' = [phase EXCEPT ![n] = "scan"]
    /\ held' = [held EXCEPT ![n][current[n]] = NoAlert]
    /\ current' = [current EXCEPT ![n] = NoAlert]
    /\ fires' = [fires EXCEPT ![n] = @ + 1]
    /\ UNCHANGED <<lastRaised, adminVars, alertEvents>>

\* PutAlert of the whole copy; its Mutate may run out of retries.
WriteBack(n) ==
    /\ phase[n] = "store"
    /\ \/ alerts' = [alerts EXCEPT ![current[n]] = held[n][current[n]]]
       \/ UNCHANGED alerts
    /\ phase' = [phase EXCEPT ![n] = "scan"]
    /\ held' = [held EXCEPT ![n][current[n]] = NoAlert]
    /\ current' = [current EXCEPT ![n] = NoAlert]
    /\ fires' = [fires EXCEPT ![n] = @ + 1]
    /\ UNCHANGED <<lastRaised, adminVars, alertEvents>>

\* All rules seen, or the cap is reached and the rest wait for the next tick.
EndPass(n) ==
    /\ phase[n] = "scan"
    /\ held[n] = NoCopies \/ fires[n] = MaxFires
    /\ phase' = [phase EXCEPT ![n] = "idle"]
    /\ held' = [held EXCEPT ![n] = NoCopies]
    /\ UNCHANGED <<alertStore, current, fires, adminVars, alertEvents>>

\* The node goes down and comes back; a pass it was in is forgotten.
AlertCrash(n) ==
    /\ AlertEvent
    /\ phase' = [phase EXCEPT ![n] = "idle"]
    /\ held' = [held EXCEPT ![n] = NoCopies]
    /\ current' = [current EXCEPT ![n] = NoAlert]
    /\ fires' = [fires EXCEPT ![n] = 0]
    /\ UNCHANGED <<alertStore, adminVars>>
-----------------------------------------------------------------------------
\* An administrator's write of row (NoAlert: delete) for a.
Decide(a, row) ==
    /\ AlertEvent
    /\ alerts' = [alerts EXCEPT ![a] = row]
    /\ decided' = [decided EXCEPT ![a] = IF row = NoAlert THEN NoAlert ELSE alertEvents + 1]
    /\ overlapped' = IF \E n \in AlertNodes : held[n][a] # NoAlert
                       THEN overlapped \union {a} ELSE overlapped \ {a}
    /\ UNCHANGED <<lastRaised, evaluatorVars>>

\* The client may bring the ID itself: a create can replace a row.
CreateAlert(a, on) == Decide(a, NewRule(alertEvents + 1, on)) /\ UNCHANGED edit

DeleteAlert(a) == Decide(a, NoAlert) /\ UNCHANGED edit

\* UpdateAlert reads the row to keep its LastFiredAt...
UpdateAlertRead(a, on) ==
    /\ alertEvents < MaxAlertEvents
    /\ edit = NoAlert
    /\ alerts[a] # NoAlert
    /\ edit' = [alert |-> a, enabled |-> on, age |-> alerts[a].age]
    /\ UNCHANGED <<alertStore, evaluatorVars, decided, overlapped, alertEvents>>

\* ... and puts the new one in its place.
UpdateAlertWrite ==
    /\ edit # NoAlert
    /\ Decide(edit.alert, [rev |-> alertEvents + 1, enabled |-> edit.enabled, age |-> edit.age])
    /\ edit' = NoAlert

Evaluate(n) ==
    \/ RunDue(n) \/ RecordEvent(n) \/ WriteBack(n) \/ EndPass(n)
    \/ \E a \in AlertIDs : Skip(n, a)

AlertsNext ==
    /\ Running("alerts")
    /\ \/ AlertClock
       \/ \E n \in AlertNodes :
             Evaluate(n) \/ AlertCrash(n) \/ \E a \in AlertIDs : Fire(n, a)
       \/ \E a \in AlertIDs, on \in BOOLEAN : CreateAlert(a, on) \/ UpdateAlertRead(a, on)
       \/ \E a \in AlertIDs : DeleteAlert(a)
       \/ UpdateAlertWrite

AlertsSpec == AlertsInit /\ [][AlertsNext]_alertsVars

\* The clock and the evaluators go on; Go iterates over a map in random order,
\* so a rule that is due in pass after pass is not always behind the cap.
AlertsFairness ==
    /\ WF_alertsVars(Running("alerts") /\ AlertClock)
    /\ \A n \in AlertNodes :
          /\ WF_alertsVars(Running("alerts") /\ Evaluate(n))
          /\ \A a \in Standing : SF_alertsVars(Running("alerts") /\ Fire(n, a))
-----------------------------------------------------------------------------
AlertsTypeOK ==
    /\ alerts \in [AlertIDs -> AlertRow \union {NoAlert}]
    /\ lastRaised \in [Standing -> Ages]
    /\ phase \in [AlertNodes -> {"idle", "scan", "send", "store"}]
    /\ held \in [AlertNodes -> [AlertIDs -> AlertRow \union {NoAlert}]]
    /\ current \in [AlertNodes -> AlertIDs \union {NoAlert}]
    /\ fires \in [AlertNodes -> 0..MaxFires]
    /\ edit \in [alert : AlertIDs, enabled : BOOLEAN, age : Ages] \union {NoAlert}
    /\ decided \in [AlertIDs -> (0..MaxAlertEvents) \union {NoAlert}]
    /\ overlapped \subseteq AlertIDs
    /\ alertEvents \in 0..MaxAlertEvents

RevOf(row) == IF row = NoAlert THEN NoAlert ELSE row.rev

\* What an administrator decided about a rule (its fields, disabling or deleting
\* it) stays, whatever the evaluators write back, unless the decision fell
\* between a pass's listing and its write-back.
AdminHasLastWord ==
    \A a \in AlertIDs \ overlapped : RevOf(alerts[a]) = decided[a]

\* A rule that is enabled and holds is raised again and again, although passes stop
\* at the cap, write-backs of LastFiredAt fail and evaluators crash.  That the same
\* other rules do not use up the cap in every pass is assumed (AlertsFairness).
StandingAlertFires ==
    \A a \in Standing :
       []<>(\/ lastRaised[a] = 0
            \/ alerts[a] = NoAlert \/ ~ alerts[a].enabled)
=============================================================================
