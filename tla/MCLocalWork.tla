----------------------------- MODULE MCLocalWork ----------------------------
(***************************************************************************)
(* Small widths of LocalWork: bytes of three values, a nonce of two bytes  *)
(* in front of a hash of one, and every hash function that makes at most   *)
(* two of the 27 buffers good.                                             *)
(***************************************************************************)
EXTENDS LocalWork

MCGoods == {{}} \cup {{d, e} : d, e \in Data}
=============================================================================
