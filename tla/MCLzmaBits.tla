----------------------------- MODULE MCLzmaBits -----------------------------
(***************************************************************************)
(* An instance of LzmaBits for TLC: the tables of the code, each a bit or  *)
(* more narrower.                                                          *)
(***************************************************************************)
EXTENDS LzmaBits

MCSettings ==
  {[nowPos |-> 0, pb |-> 0, lp |-> 0, lc |-> 1],
   [nowPos |-> 1, pb |-> 1, lp |-> 0, lc |-> 2],
   [nowPos |-> 3, pb |-> 1, lp |-> 1, lc |-> 1]}
=============================================================================
