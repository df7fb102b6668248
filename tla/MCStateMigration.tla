-------------------------- MODULE MCStateMigration --------------------------
(* The instance of StateMigration that TLC checks. *)
EXTENDS StateMigration
=============================================================================
