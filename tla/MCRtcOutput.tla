---------------------------- MODULE MCRtcOutput -----------------------------
(***************************************************************************)
(* RtcOutput for TLC: a queue of three, a ring of two, cursors that wrap   *)
(* every six steps, in both builds (with and without the pacer).           *)
(***************************************************************************)
EXTENDS RtcOutput, TLC

Symmetric == Permutations(Packets) \cup Permutations(TxSlots)
=============================================================================
