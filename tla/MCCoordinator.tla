--------------------------- MODULE MCCoordinator ---------------------------
(***************************************************************************)
(* An instance of Coordinator for TLC: the two validators of               *)
(* NewBlazeDagCoordinator.                                                 *)
(***************************************************************************)
EXTENDS Coordinator

TwoValidators == <<"validator1", "validator2">>
=============================================================================
