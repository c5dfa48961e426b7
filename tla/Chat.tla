-------------------------------- MODULE Chat --------------------------------
(***************************************************************************)
(* The two halves of the live chat that a server keeps in memory: the      *)
(* sockets of a visitor on the hub, and the router that offers waiting     *)
(* sessions to agents.  RunUnified makes one of each; the handlers of      *)
(* pkg/server call both, neither waits for the other, and they share no    *)
(* state, so a step is a step of one of them.  Started (Boot) are those to *)
(* which somebody gives something to do.                                   *)
(***************************************************************************)
EXTENDS ChatRoom, ChatRouter

vars == <<started, roomVars, routerVars>>

Init == BootInit /\ RoomInit /\ RouterInit

Next ==
    /\ UNCHANGED started
    /\ \/ Running("room") /\ RoomNext /\ UNCHANGED routerVars
       \/ Running("router") /\ RouterNext /\ UNCHANGED roomVars

Spec ==
    /\ Init /\ [][Next]_vars
    /\ RoomFairness /\ RouterFairness
=============================================================================
