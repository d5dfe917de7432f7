--------------------------- MODULE MCModuleLadder ---------------------------
(***************************************************************************)
(* ModuleLadder with the drivers of DriverLadders.  MCModuleLadder.cfg     *)
(* runs all of them, and leaves out of a property the drivers README.md    *)
(* lists as known to break it.                                             *)
(***************************************************************************)
EXTENDS LadderOrder, DriverLadders, TLC

MCLadder ==
    "II_06" :> II_06 @@ "tp_II_02" :> tp_II_02
    @@ "III_03" :> III_03 @@ "III_04" :> III_04
    @@ "IV_02" :> IV_02 @@ "IV_03" :> IV_03 @@ "tp_IV_04" :> tp_IV_04
    @@ "V_01" :> V_01 @@ "V_01_with_fdt" :> V_01_with_fdt @@ "V_02" :> V_02
    @@ "V_03" :> V_03 @@ "V_04" :> V_04 @@ "V_05" :> V_05 @@ "V_06" :> V_06
    @@ "V_07" :> V_07 @@ "V_08" :> V_08 @@ "V_09" :> V_09
    @@ "example_select" :> example_select @@ "V_10" :> V_10 @@ "V_11" :> V_11
    @@ "VI_01" :> VI_01 @@ "VI_02" :> VI_02 @@ "VI_03" :> VI_03
    @@ "VII_03" :> VII_03 @@ "VII_04" :> VII_04

MCDrivers == DOMAIN MCLadder

MCExempt ==
    "ReleasesHeld" :> {"tp_IV_04", "V_01_with_fdt", "VI_01"}
    @@ "UsersHold" :> {"V_01_with_fdt", "V_11", "VI_02", "VI_03", "VII_03", "VII_04"}
    @@ "BaseHeld"  :> {}
    @@ "Quiescent" :> {"III_03", "V_11", "VII_03", "VII_04"}

\* No driver is exempt that its order clears: each one breaks the condition of LadderOrder.
ASSUME ExemptAssumption ==
    /\ \A d \in Exempt["ReleasesHeld"] : ~ ReleasesInOrder(d)
    /\ \A d \in Exempt["UsersHold"] : ~ UsesInOrder(d)
    /\ \A d \in Exempt["BaseHeld"] : ~ BasesInOrder(d)
    /\ \A d \in Exempt["Quiescent"] : ~ EndsClean(d)
=============================================================================
