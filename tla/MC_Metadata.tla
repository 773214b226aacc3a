------------------------------ MODULE MC_Metadata ------------------------------
EXTENDS Metadata

CONSTANTS v_current, v_rc1, v_rc2, v_old

MC_Legacy == {v_rc1, v_rc2}
MC_Foreign == {v_old}
=============================================================================
