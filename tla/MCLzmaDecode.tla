---------------------------- MODULE MCLzmaDecode ----------------------------
(***************************************************************************)
(* Instances of LzmaDecode for TLC.                                        *)
(***************************************************************************)
EXTENDS LzmaDecode

MCSizes == {0, 1, 7}
MCBytes == {0, 1}
=============================================================================
