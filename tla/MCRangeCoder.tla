---------------------------- MODULE MCRangeCoder ----------------------------
(***************************************************************************)
(* An instance of RangeCoder for TLC: bytes of two bits, 8 probability     *)
(* steps, words of three bytes.                                            *)
(***************************************************************************)
EXTENDS RangeCoder

\* Data that holds its header, and data that is empty: with nothing behind it, with RAM
\* that ends among the bytes of RC_INIT2, and with RAM that lasts for some bits.
MCData ==
  [size : 1 .. 6, room : 0 .. 2] \cup [size : {7}, room : {1}] \cup [size : {0}, room : {0, 2, 6}]
=============================================================================
