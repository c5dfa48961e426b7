---------------------------- MODULE AtomicMutate ----------------------------
(***************************************************************************)
(* What storage.Storage promises the callers of Mutate and                 *)
(* CompareAndCreate about one key that holds a counter (0: no row): each   *)
(* call takes effect at most once, atomically, and not after it returned   *)
(* success; a call that failed may still take effect, then or later.  A    *)
(* delete may be withdrawn: its caller believes that the row is gone.  It  *)
(* then never takes effect, and the object promises nothing about the row  *)
(* (the caller's belief comes from a replica that may lag).                *)
(***************************************************************************)
EXTENDS Naturals

CONSTANTS
    Calls,
    Created   \* the value CompareAndCreate stores

Kinds == {"add", "drop", "create"}

VARIABLES kind, value, status, took

vars == <<kind, value, status, took>>

\* What a call of each kind does to the counter, and when it can.
Effect(k, v) == CASE k = "drop" -> 0 [] k = "add" -> v + 1 [] OTHER -> Created
CanTake(k, v) == (k = "drop" => v > 0) /\ (k = "create" => v = 0)

Init ==
    /\ kind \in [Calls -> Kinds]
    /\ value = 0
    /\ status = [c \in Calls |-> "idle"]
    /\ took = [c \in Calls |-> FALSE]

Begin(c) ==
    /\ status[c] = "idle"
    /\ status' = [status EXCEPT ![c] = "open"]
    /\ UNCHANGED <<kind, value, took>>

TakeEffect(c) ==
    /\ status[c] \in {"open", "failed"} /\ ~took[c]
    /\ CanTake(kind[c], value)
    /\ value' = Effect(kind[c], value)
    /\ took' = [took EXCEPT ![c] = TRUE]
    /\ UNCHANGED <<kind, status>>

Return(c, s) ==
    /\ status[c] = "open"
    /\ s = "ok" => took[c]
    /\ s = "withdrawn" => kind[c] = "drop" /\ ~took[c]
    /\ status' = [status EXCEPT ![c] = s]
    /\ UNCHANGED <<kind, value, took>>

Next ==
    \E c \in Calls :
        Begin(c) \/ TakeEffect(c) \/ \E s \in {"ok", "withdrawn", "failed"} : Return(c, s)

Spec == Init /\ [][Next]_vars
=============================================================================
