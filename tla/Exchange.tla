------------------------------ MODULE Exchange ------------------------------
(***************************************************************************)
(* What ColumnStoreCommands needs of its connections: commands are         *)
(* executed one after the other and a command that returns was executed by *)
(* the server exactly once.  One that throws before it has a connection    *)
(* (unsent) never is, and says nothing of those after it; one that throws  *)
(* later (failed) is executed at most once, possibly after it has thrown,  *)
(* and after it none returns.                                              *)
(***************************************************************************)
EXTENDS Naturals

CONSTANT MaxCommands

VARIABLES
    current,    \* the command being executed, or the last one
    served,     \* how often the server executed a command
    outcome     \* none, answered, unsent or failed

Commands == 1 .. MaxCommands

Init ==
    /\ current = 0
    /\ served = [k \in Commands |-> 0]
    /\ outcome = [k \in Commands |-> "none"]

Begin ==
    /\ current < MaxCommands
    /\ current > 0 => outcome[current] # "none"
    /\ current' = current + 1
    /\ UNCHANGED <<served, outcome>>

TurnDown ==
    /\ current < MaxCommands
    /\ current > 0 => outcome[current] # "none"
    /\ current' = current + 1
    /\ outcome' = [outcome EXCEPT ![current'] = "unsent"]
    /\ UNCHANGED served

Serve(k) ==
    /\ k <= current /\ served[k] = 0 /\ outcome[k] \notin {"answered", "unsent"}
    /\ served' = [served EXCEPT ![k] = 1]
    /\ UNCHANGED <<current, outcome>>

Answer ==
    /\ current > 0 /\ outcome[current] = "none" /\ served[current] = 1
    /\ \A k \in Commands : outcome[k] # "failed"
    /\ outcome' = [outcome EXCEPT ![current] = "answered"]
    /\ UNCHANGED <<current, served>>

Fail ==
    /\ current > 0 /\ outcome[current] = "none"
    /\ outcome' = [outcome EXCEPT ![current] = "failed"]
    /\ UNCHANGED <<current, served>>

Next == Begin \/ TurnDown \/ Answer \/ Fail \/ \E k \in Commands : Serve(k)

Spec == Init /\ [][Next]_<<current, served, outcome>>

=============================================================================
