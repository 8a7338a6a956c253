---------------------------- MODULE MCBulkInsert ----------------------------
(* BulkInsert for TLC, and its refinement of BulkTransaction: where no     *)
(* command fails, a bulk insert is the transaction it promises to be.      *)
EXTENDS BulkInsert, FiniteSets

TxnState ==
    IF "committed" \in verdicts THEN "committed"
    ELSE IF "rolledback" \in verdicts THEN "rolledback"
    ELSE IF txn = "open" THEN "open" ELSE "idle"

(* The decided transaction keeps the rows below the high water marks if it *)
(* is committed, and whatever is still stored if it is rolled back.        *)
KeptCopies(r) ==
    {c \in Copies(r) : "committed" \in verdicts => c[2] <= published[c[1]]}

Kept ==
    IF verdicts = {} THEN <<>>
    ELSE [r \in 1 .. insertedCount |-> Cardinality(KeptCopies(r))]

Transaction == INSTANCE BulkTransaction WITH
    state <- TxnState, locked <- lock # "free", accepted <- insertedCount, kept <- Kept

(* A bulk insert whose commands are all answered takes every row it        *)
(* accepts into one transaction, under the table lock.                     *)
ImplementsTransaction == Transaction!Spec

=============================================================================
