----------------------------- MODULE MCSctpRecv -----------------------------
(***************************************************************************)
(* Instances of SctpRecv for TLC: the traffic of the peer in each run.     *)
(***************************************************************************)
EXTENDS SctpRecv

Msg(sid, unordered, lens) == [sid |-> sid, unordered |-> unordered, lens |-> lens]

\* Ordered messages of stream 1, of which the peer may give up the fragmented
\* one, and an unordered fragmented message of stream 2: one chunk more than
\* the table has slots, and two bytes more than the pool holds.
MixedMsgs == <<Msg(1, FALSE, <<2>>), Msg(2, TRUE, <<1, 1>>),
               Msg(1, FALSE, <<1, 1>>), Msg(1, FALSE, <<2>>)>>

\* Two fragments lost while three later messages arrive.
LeadingMsgs == <<Msg(1, FALSE, <<1, 1>>), Msg(1, FALSE, <<1>>),
                 Msg(2, TRUE, <<1>>), Msg(1, FALSE, <<1>>)>>

\* A message of three fragments and one behind it on the same stream.
ThreePartMsgs == <<Msg(1, FALSE, <<1, 1, 1>>), Msg(1, FALSE, <<1>>)>>
=============================================================================
