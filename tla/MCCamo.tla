------------------------------- MODULE MCCamo -------------------------------
(***************************************************************************)
(* Instances of CamoWallet: all eight versions, of which this release      *)
(* supports the first.  A later one supports the second as well.           *)
(***************************************************************************)
EXTENDS CamoWallet

MCSupported == {1}
MCFirst == {1}
MCBoth == {1, 2}
MCOnlySecond == {{2}}
MCAnyOfBoth == SUBSET MCBoth \ {{}}
=============================================================================
