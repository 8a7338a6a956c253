----------------------------- MODULE MCNetwork -----------------------------
(* Network for TLC, and its refinement of Exchange, which is what          *)
(* BulkInsert assumes of a command.                                        *)
EXTENDS Network

(* How each command has ended, for Exchange.                               *)
Answers ==
    [k \in Commands |->
        CASE outcome[k] = <<"reply", k>> -> "answered"
          [] outcome[k][1] = "reply" /\ outcome[k][2] # k -> "mistaken"
          [] OTHER -> outcome[k][1]]

Abstract == INSTANCE Exchange WITH current <- command, outcome <- Answers

(* Commands are executed one after the other: once if they return, never   *)
(* if they throw for want of a connection, at most once if they throw on   *)
(* one, and none returns after that.                                       *)
ImplementsExchange == Abstract!Spec

=============================================================================
