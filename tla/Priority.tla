------------------------------- MODULE Priority -----------------------------
(***************************************************************************)
(* Leadership preference of a team (pkg/team/priority).  Every node keeps  *)
(* a replicated flag _team/ch_connected/<id> with the time of its last     *)
(* refresh while it is configured with ClickHouse, and deletes it if not.  *)
(* A leader without ClickHouse hands leadership to the first other member  *)
(* whose flag is fresh.                                                    *)
(*                                                                         *)
(* A flag is refreshed every 60 s and fresh for 90 s: one refresh that     *)
(* fails is enough to let it lapse.  Raft (elections, the transfer itself) *)
(* is external.                                                            *)
(***************************************************************************)
EXTENDS Boot, Naturals, Sequences, FiniteSets

CONSTANTS
    Members,     \* the voters in the order of the Raft configuration
    Steady,      \* nodes that are always configured with ClickHouse and never go down
    Nobody,
    MaxOutages   \* bound: nodes going down

Team == {Members[i] : i \in DOMAIN Members}

ASSUME PriorityAssumption ==
    /\ Members \in Seq(Team) /\ Steady \subseteq Team
    /\ Nobody \notin Team
    /\ MaxOutages \in Nat

VARIABLES
    leader, up,
    chConnected, \* node -> whether its configuration has ClickHouse
    flag,        \* node -> "absent", "fresh" or "stale"
    outages

priorityVars == <<leader, up, chConnected, flag, outages>>

PriorityInit ==
    /\ leader \in Finds("priority", Team, Nobody)
    /\ up = Team
    /\ chConnected \in Finds("priority", {f \in [Team -> BOOLEAN] : \A n \in Steady : f[n]},
                             [n \in Team |-> n \in Steady])
    /\ flag = [n \in Team |-> "absent"]
    /\ outages = 0
-----------------------------------------------------------------------------
\* refreshOnce; without a leader the write fails.
Refresh(n) ==
    /\ n \in up /\ leader # Nobody
    /\ flag' = [flag EXCEPT ![n] = IF chConnected[n] THEN "fresh" ELSE "absent"]
    /\ UNCHANGED <<leader, up, chConnected, outages>>

\* 90 s without a refresh.
Expire(n) ==
    /\ flag[n] = "fresh"
    /\ flag' = [flag EXCEPT ![n] = "stale"]
    /\ UNCHANGED <<leader, up, chConnected, outages>>

\* Mutant: a flag counts however old it is.
AnyFlag(n, i) == Members[i] # n /\ flag[Members[i]] # "absent"

Qualifies(n, i) == Members[i] # n /\ flag[Members[i]] = "fresh"

\* findPreferredCandidate.
Candidates(n) ==
    {Members[i] : i \in {j \in DOMAIN Members :
        Qualifies(n, j) /\ \A h \in 1..(j - 1) : ~ Qualifies(n, h)}}

\* evaluateTransfer; a transfer to a node that is down fails, and is tried again
\* at the next tick.
EvaluateTransfer(n) ==
    /\ leader = n /\ ~ chConnected[n]
    /\ \E c \in Candidates(n) : c \in up /\ leader' = c
    /\ UNCHANGED <<up, chConnected, flag, outages>>

HasQuorum(S) == 2 * Cardinality(S) > Len(Members)

\* Raft elects any node that is up.
Elect(n) ==
    /\ leader = Nobody /\ n \in up /\ HasQuorum(up)
    /\ leader' = n
    /\ UNCHANGED <<up, chConnected, flag, outages>>

GoDown(n) ==
    /\ n \in up \ Steady
    /\ outages < MaxOutages /\ outages' = outages + 1
    /\ up' = up \ {n}
    /\ leader' = IF leader = n \/ ~ HasQuorum(up') THEN Nobody ELSE leader
    /\ UNCHANGED <<chConnected, flag>>

\* A node comes back, perhaps with another configuration.
ComeUp(n) ==
    /\ n \notin up
    /\ up' = up \union {n}
    /\ \E ch \in BOOLEAN : chConnected' = [chConnected EXCEPT ![n] = ch]
    /\ UNCHANGED <<leader, flag, outages>>

PriorityNext ==
    /\ Running("priority")
    /\ \E n \in Team :
          \/ Refresh(n) \/ Expire(n) \/ EvaluateTransfer(n)
          \/ Elect(n) \/ GoDown(n) \/ ComeUp(n)

\* What the members may do; the composed specification adds the fairness below.
PrioritySpec == PriorityInit /\ [][PriorityNext]_priorityVars

\* The tickers tick, flags age and Raft elects.  A transfer to a node that is up
\* may fail, but not for ever.
PriorityFairness ==
    /\ \A n \in Team :
          /\ WF_priorityVars(Running("priority") /\ Refresh(n))
          /\ WF_priorityVars(Running("priority") /\ Expire(n))
    /\ SF_priorityVars(Running("priority") /\ \E n \in Team : EvaluateTransfer(n))
    /\ WF_priorityVars(Running("priority") /\ \E n \in Team : Elect(n))
-----------------------------------------------------------------------------
PriorityTypeOK ==
    /\ leader \in Team \union {Nobody} /\ up \subseteq Team
    /\ chConnected \in [Team -> BOOLEAN]
    /\ flag \in [Team -> {"absent", "fresh", "stale"}]
    /\ outages \in 0..MaxOutages

\* A majority is up, and led by a node with ClickHouse.
WellLed == HasQuorum(up) => leader # Nobody /\ chConnected[leader]

\* With a node that stays up with ClickHouse, and while a majority is up,
\* leadership comes to rest on a node with ClickHouse: past flags of nodes that
\* are down (the transfer to them fails) and flags left by nodes that have come
\* back without it.
SettlesOnCH == <>[](Running("priority") /\ Steady # {} => WellLed)
=============================================================================
