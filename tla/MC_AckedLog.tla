---------------------------- MODULE MC_AckedLog ----------------------------
(* Model-checking instance of AckedLog: 2-bit ids, so region 3 is the     *)
(* largest region id and UINT64_MAX - seq covers every seq id.             *)
EXTENDS AckedLog

MC_Regions == {1, 3}
MC_Seqs == {1, 2, 3}

=============================================================================
