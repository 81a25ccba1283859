---------------------------- MODULE MC_IoMmuInit ----------------------------
(* Instantiation of IoMmuInit for TLC: every satp mode an RV64 HART can  *)
(* be in, two capability versions, hardware accepting all multi-level    *)
(* DDT modes or only the one-level mode, and two calls of                *)
(* IoMmuCommonInitialise (enough to see a second call after the first).  *)
EXTENDS IoMmuInit

MC_Versions == {"1.0", "0.9"}
MC_V10 == "1.0"
MC_SatpModes == {"Bare", "Sv39", "Sv48", "Sv57", "Sv64"}
MC_DdtModeSets == {{"1LVL", "2LVL", "3LVL"}, {"1LVL"}}
(* An uninitialised stack local may hold zero or any other bits. *)
MC_StackGarbage == {FALSE, TRUE}
(* A zeroed stack: the outcome of the uninitialised locals on which the  *)
(* properties that hold are checked independently of garbage.            *)
MC_ZeroStack == {FALSE}
MC_MaxCalls == 2
=============================================================================
