------------------------------ MODULE Services ------------------------------
(***************************************************************************)
(* The background services of one deployment, put together.  They share    *)
(* the process and the storage but no keys, so a step is a step of one of  *)
(* them; which of them run is up to the configuration (Boot).              *)
(***************************************************************************)
EXTENDS Relay, Alerts, Reports, SiteBuild, Priority, Pairing, Feed

vars == <<started, relayVars, alertsVars, reportsVars, siteVars, priorityVars, pairingVars, feedVars>>

Init ==
    /\ BootInit /\ RelayInit
    /\ AlertsInit /\ ReportsInit /\ SiteInit /\ PriorityInit /\ PairingInit /\ FeedInit

Next ==
    /\ UNCHANGED started
    /\ \/ /\ Running("relay") /\ RelayNext
          /\ UNCHANGED <<alertsVars, reportsVars, siteVars, priorityVars, pairingVars, feedVars>>
       \/ /\ AlertsNext
          /\ UNCHANGED <<relayVars, reportsVars, siteVars, priorityVars, pairingVars, feedVars>>
       \/ /\ ReportsNext
          /\ UNCHANGED <<relayVars, alertsVars, siteVars, priorityVars, pairingVars, feedVars>>
       \/ /\ SiteNext
          /\ UNCHANGED <<relayVars, alertsVars, reportsVars, priorityVars, pairingVars, feedVars>>
       \/ /\ PriorityNext
          /\ UNCHANGED <<relayVars, alertsVars, reportsVars, siteVars, pairingVars, feedVars>>
       \/ /\ PairingNext
          /\ UNCHANGED <<relayVars, alertsVars, reportsVars, siteVars, priorityVars, feedVars>>
       \/ /\ FeedNext
          /\ UNCHANGED <<relayVars, alertsVars, reportsVars, siteVars, priorityVars, pairingVars>>

Spec ==
    /\ Init /\ [][Next]_vars
    /\ RelayFairness
    /\ AlertsFairness /\ ReportsFairness /\ PriorityFairness /\ FeedFairness

\* Every variable of the services keeps its type.
ServicesTypeOK ==
    /\ RelayTypeOK /\ AlertsTypeOK /\ ReportsTypeOK /\ SiteTypeOK
    /\ PriorityTypeOK /\ PairingTypeOK /\ FeedTypeOK
-----------------------------------------------------------------------------
MCMembers == <<"m1", "m2", "m3">>
=============================================================================
