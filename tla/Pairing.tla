------------------------------- MODULE Pairing ------------------------------
(***************************************************************************)
(* Device pairing (server/pair_handlers.go, the pair-code and device-key   *)
(* stores of pkg/store/bolt) on the Raft backend.  An administrator issues *)
(* a code; a device redeems it: Consume deletes the row with a             *)
(* Storage.Mutate whose function notes, in variables outside the loop,     *)
(* that it has seen a code that is not expired; then the device's key is   *)
(* stored.                                                                 *)
(*                                                                         *)
(* Mutate reads the node's own replica, which may be behind, proposes a    *)
(* delete that compares, and runs the function again when that is refused. *)
(* What was noted in an earlier round is not taken back.                   *)
(***************************************************************************)
EXTENDS Boot, Naturals, FiniteSets

CONSTANTS
    Codes, Devices,
    NoCode,
    PairRetries,  \* MaxMutateRetries of the storage
    ReplicasLag   \* whether a node's replica may be behind

ASSUME PairingAssumption ==
    NoCode \notin Codes /\ PairRetries \in Nat \ {0} /\ ReplicasLag \in BOOLEAN

VARIABLES
    codeRow,     \* code -> "unissued", "stored" or "consumed"
    expired,     \* codes whose TTL is over
    request,     \* device -> where its redeem request is
    wanted,      \* device -> the code it redeems
    late,        \* devices that came after the code had expired
    found,       \* devices whose request has noted the code
    tries,       \* device -> rounds of Mutate that were refused
    keys         \* devices with a stored key

redeemVars == <<request, wanted, late, found, tries>>
pairingVars == <<codeRow, expired, keys, redeemVars>>

PairingInit ==
    /\ codeRow = [c \in Codes |-> "unissued"] /\ expired = {}
    /\ request = [d \in Devices |-> "none"]
    /\ wanted = [d \in Devices |-> NoCode]
    /\ late = {} /\ found = {}
    /\ tries = [d \in Devices |-> 0]
    /\ keys = {}
-----------------------------------------------------------------------------
\* pairIssueHandler.  An error of the Put is swallowed: the administrator then
\* holds a code that is unknown.
Issue(c) ==
    /\ codeRow[c] = "unissued"
    /\ codeRow' = [codeRow EXCEPT ![c] = "stored"]
    /\ UNCHANGED <<expired, keys, redeemVars>>

CodeExpires(c) ==
    /\ codeRow[c] # "unissued" /\ c \notin expired
    /\ expired' = expired \union {c}
    /\ UNCHANGED <<codeRow, keys, redeemVars>>

\* pairRedeemHandler takes the time and calls Consume.
Redeem(d, c) ==
    /\ request[d] = "none"
    /\ request' = [request EXCEPT ![d] = "read"]
    /\ wanted' = [wanted EXCEPT ![d] = c]
    /\ late' = IF c \in expired THEN late \union {d} ELSE late
    /\ UNCHANGED <<codeRow, expired, keys, found, tries>>

Answer(d, ok) == request' = [request EXCEPT ![d] = IF ok THEN "granted" ELSE "gone"]

\* One round of Mutate shows the function no row, because it is consumed or the
\* replica does not have it yet: nothing to delete.
ReadAbsent(d) ==
    /\ request[d] = "read" /\ (codeRow[wanted[d]] = "stored" => ReplicasLag)
    /\ Answer(d, d \in found)
    /\ UNCHANGED <<codeRow, expired, keys, wanted, late, found, tries>>

\* It shows the row, which a replica that is behind still has when it is consumed.
ReadRow(d) ==
    /\ request[d] = "read" /\ codeRow[wanted[d]] # "unissued"
    /\ codeRow[wanted[d]] = "consumed" => ReplicasLag
    /\ found' = IF d \in late THEN found ELSE found \union {d}
    /\ request' = [request EXCEPT ![d] = "delete"]
    /\ UNCHANGED <<codeRow, expired, keys, wanted, late, tries>>

\* The delete finds the row it was computed from.
Delete(d) ==
    /\ request[d] = "delete" /\ codeRow[wanted[d]] = "stored"
    /\ codeRow' = [codeRow EXCEPT ![wanted[d]] = "consumed"]
    /\ Answer(d, d \in found)
    /\ UNCHANGED <<expired, keys, wanted, late, found, tries>>

\* It does not: another round, or an error.  (A conflict that the leader found for
\* another node is DeleteFails: it does not come back as ErrCASFailed.)
Refuse(d) ==
    /\ request[d] = "delete" /\ codeRow[wanted[d]] = "consumed"
    /\ tries' = [tries EXCEPT ![d] = @ + 1]
    /\ request' = [request EXCEPT ![d] = IF tries[d] + 1 < PairRetries THEN "read" ELSE "gone"]
    /\ UNCHANGED <<codeRow, expired, keys, wanted, late, found>>

\* Mutate fails for another reason, the delete done or not: 410 as well.
DeleteFails(d) ==
    /\ request[d] = "delete"
    /\ \/ UNCHANGED codeRow
       \/ codeRow' = [codeRow EXCEPT ![wanted[d]] = "consumed"]
    /\ Answer(d, FALSE)
    /\ UNCHANGED <<expired, keys, wanted, late, found, tries>>

\* PutDeviceKey, or its failure: the code is used up all the same.
StoreKey(d) ==
    /\ request[d] = "granted"
    /\ \/ keys' = keys \union {d} /\ request' = [request EXCEPT ![d] = "paired"]
       \/ UNCHANGED keys /\ request' = [request EXCEPT ![d] = "unpaired"]
    /\ UNCHANGED <<codeRow, expired, wanted, late, found, tries>>

\* pairRevokeDeviceHandler.
Revoke(d) ==
    /\ d \in keys
    /\ keys' = keys \ {d}
    /\ UNCHANGED <<codeRow, expired, redeemVars>>

PairingNext ==
    /\ Running("pairing")
    /\ \/ \E c \in Codes : Issue(c) \/ CodeExpires(c)
       \/ \E d \in Devices :
             \/ \E c \in Codes : Redeem(d, c)
             \/ ReadAbsent(d) \/ ReadRow(d) \/ Delete(d) \/ Refuse(d)
             \/ DeleteFails(d) \/ StoreKey(d) \/ Revoke(d)

PairingSpec == PairingInit /\ [][PairingNext]_pairingVars
-----------------------------------------------------------------------------
Progress == {"none", "read", "delete", "granted", "gone", "paired", "unpaired"}

PairingTypeOK ==
    /\ codeRow \in [Codes -> {"unissued", "stored", "consumed"}]
    /\ expired \subseteq Codes
    /\ request \in [Devices -> Progress]
    /\ wanted \in [Devices -> Codes \union {NoCode}]
    /\ \A d \in Devices : request[d] # "none" => wanted[d] \in Codes
    /\ late \subseteq Devices /\ found \subseteq Devices
    /\ tries \in [Devices -> 0..PairRetries]
    /\ keys \subseteq Devices

Successful == {d \in Devices : request[d] \in {"granted", "paired", "unpaired"}}

\* A code is good for one redemption: no two devices succeed with the same one
\* ("Single-use by design", and the comment on PairCodeStore.Consume).
RedeemedOnce ==
    \A d, e \in Successful : wanted[d] = wanted[e] => d = e
=============================================================================
