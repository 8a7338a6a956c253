---------------------------- MODULE MCRowBuffer ----------------------------
(* RowBuffer for TLC.  The history variables are part of the state: every  *)
(* sequence of calls within the bounds is told apart.                      *)
EXTENDS RowBuffer

=============================================================================
