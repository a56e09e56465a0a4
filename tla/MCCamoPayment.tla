--------------------------- MODULE MCCamoPayment ----------------------------
(***************************************************************************)
(* An instance of CamoPayment: two devices, two accounts of the payer that *)
(* may both notify, two CAMO accounts of one wallet.                       *)
(***************************************************************************)
EXTENDS CamoPayment

CONSTANTS d1, d2

MCFirst == {1}
MCRoom == [a \in Own |-> IF a = Sender THEN 2 ELSE 1]
Makes(d, r, n) == [by |-> d, to |-> r, notifier |-> n]
MCPlan == {Makes(d1, 0, 0), Makes(d2, 0, 1), Makes(d2, 1, 1)}
=============================================================================
