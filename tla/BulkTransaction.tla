--------------------------- MODULE BulkTransaction ---------------------------
(***************************************************************************)
(* What a bulk insert promises its application: a single transaction under *)
(* a table lock.  The rows accepted before the commit are all kept, each   *)
(* once, or none of them is; the verdict is final; and the table is locked *)
(* from before the first row until after the verdict.                      *)
(***************************************************************************)
EXTENDS Naturals

VARIABLES
    state,      \* idle, open, committed or rolledback
    locked,     \* the table is locked for this transaction
    accepted,   \* rows accepted so far
    kept        \* copies that the decided transaction keeps of each row

vars == <<state, locked, accepted, kept>>

Init == state = "idle" /\ locked = FALSE /\ accepted = 0 /\ kept = <<>>

Begin ==
    /\ state = "idle" /\ state' = "open"
    /\ UNCHANGED <<locked, accepted, kept>>

Lock ==
    /\ state = "open" /\ accepted = 0 /\ ~locked /\ locked' = TRUE
    /\ UNCHANGED <<state, accepted, kept>>

Accept ==
    /\ state = "open" /\ locked
    /\ accepted' = accepted + 1
    /\ UNCHANGED <<state, locked, kept>>

Commit ==
    /\ state = "open" /\ locked
    /\ state' = "committed"
    /\ kept' = [r \in 1 .. accepted |-> 1]
    /\ UNCHANGED <<locked, accepted>>

Abort ==
    /\ state = "open"
    /\ state' = "rolledback"
    /\ kept' = [r \in 1 .. accepted |-> 0]
    /\ UNCHANGED <<locked, accepted>>

Release ==
    /\ state \in {"committed", "rolledback"} /\ locked
    /\ locked' = FALSE
    /\ UNCHANGED <<state, accepted, kept>>

Next == Begin \/ Lock \/ Accept \/ Commit \/ Abort \/ Release

Spec == Init /\ [][Next]_vars
=============================================================================
