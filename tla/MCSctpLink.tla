---------------------------- MODULE MCSctpLink ------------------------------
(***************************************************************************)
(* SctpLink for TLC: a reliable message and a message of two fragments     *)
(* that may not be retransmitted share an ordered stream.                  *)
(***************************************************************************)
EXTENDS SctpLink

Msg(sid, unordered, lens) == [sid |-> sid, unordered |-> unordered, lens |-> lens]

LinkMsgs == <<Msg(1, FALSE, <<1, 1>>), Msg(1, FALSE, <<1>>)>>
LinkRetries == <<0, -1>>
=============================================================================
