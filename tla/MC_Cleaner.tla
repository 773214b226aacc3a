----------------------------- MODULE MC_Cleaner -----------------------------
(* Model-checking instance of Cleaner: three capture ids, two in the       *)
(* initial configuration and one a reconfiguration can add.                *)
EXTENDS Cleaner

MC_Captures == {1, 2, 3}
MC_InitCaptured == {1, 2}

=============================================================================
