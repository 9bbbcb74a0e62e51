---------------------------- MODULE MCUtxoCreate ----------------------------
(***************************************************************************)
(* Small instances of UtxoCreate: the cfg files give the constants model   *)
(* values; no symmetry is declared because the run checks liveness.        *)
(***************************************************************************)
EXTENDS UtxoCreate

=============================================================================
