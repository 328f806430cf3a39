----------------------------- MODULE MCDapShift -----------------------------
(* Every length DAP_SWJ_Sequence can be asked for, and lengths on both sides  *)
(* of each boundary of DAP_JTAG_Sequence, whose headers hold six bits.        *)
EXTENDS DapShift

AllCounts == 0..255
ShortCounts == {1, 7, 8, 9, 16, 63}
=============================================================================
