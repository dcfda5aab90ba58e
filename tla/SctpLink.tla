------------------------------ MODULE SctpLink ------------------------------
(***************************************************************************)
(* One direction of an association, end to end: the code's sender          *)
(* (SctpSend) and the code's receiver (SctpRecv) over a network that       *)
(* loses, delays, duplicates and reorders packets.                         *)
(*                                                                         *)
(* net holds every packet ever sent. Each may arrive at any later time,    *)
(* any number of times, or never: a lost packet is one that never arrives. *)
(* Both endpoints are single threaded; their drivers poll, tick and        *)
(* deliver in any order.                                                   *)
(***************************************************************************)
EXTENDS SctpRecv, SctpSend

VARIABLES
    snd,        \* the send fields of the sender's nano_sctp_t
    accepted,   \* how many of Msgs the application has sent
    rcv_out,    \* the SACKs in the receiver's out_bufs
    net

sndVars == <<snd, accepted>>
linkVars == <<rx, out_count, gone, delivered, snd, accepted, rcv_out, net>>

LinkInit == /\ Init
            /\ snd = SndInit /\ accepted = 0
            /\ rcv_out = <<>> /\ net = {}

\* A packet leaves an endpoint.
Transmit(p) == net' = net \cup {p}

-----------------------------------------------------------------------------
(* The sender.                                                              *)

\* The messages s has abandoned, now or before.
GivenUp(s) == gone \cup {s.queue[i].msg : i \in {j \in DOMAIN s.queue : s.queue[j].abandoned}}

\* Next state of the sender: its history of abandoned messages follows.
SetSnd(s) == snd' = s /\ gone' = GivenUp(s)

AppSend ==
    /\ accepted < Len(Msgs)
    /\ snd.state = "established" /\ Reserved(snd, accepted + 1)
    /\ SetSnd(nsctp_send_options(snd, accepted + 1))
    /\ accepted' = accepted + 1
    /\ UNCHANGED <<rx, out_count, delivered, rcv_out, net>>

\* nsctp_poll_output of the sender, called by rtc_pump_sctp_through_dtls.
PollSender ==
    /\ \/ /\ ForwardsNow(snd)
          /\ Transmit(ForwardTsn(snd))
          /\ SetSnd(AfterForward(snd))
       \/ /\ SendsData(snd)
          /\ LET i == Min(Sendable(snd))
             IN /\ Transmit(DataPacket(snd, snd.queue[i]))
                /\ SetSnd(AfterData(snd, i))
       \/ /\ ~ForwardsNow(snd) /\ ~SendsData(snd)
          /\ SetSnd(AfterNoData(snd))
          /\ UNCHANGED net
    /\ UNCHANGED <<accepted, rx, out_count, delivered, rcv_out>>

SackArrives(p) ==
    /\ p \in net /\ p.type = "sack"
    /\ SetSnd(nsctp_handle_sack_chunk(snd, p.cum, p.gaps))
    /\ UNCHANGED <<accepted, rx, out_count, delivered, rcv_out, net>>

\* nanortc_handle_input: the clock advances, then the timers run.
HandleTimeout(d) ==
    /\ SetSnd(IF snd.state = "established" THEN nsctp_handle_timeout(Older(snd, d)) ELSE snd)
    /\ UNCHANGED <<accepted, rx, out_count, delivered, rcv_out, net>>

-----------------------------------------------------------------------------
(* The receiver and the network.                                            *)

\* nsctp_encode_sack_with_gaps, of the state in which the SACK is queued.
Sack(s) ==
    [type |-> "sack", cum |-> s.cumulative_tsn,
     gaps |-> {n \in 1..MAX_RECV_GAP * Len(Msgs) :
                 /\ 2 * n < TSN_MOD
                 /\ Duplicate(s, Plus(s.cumulative_tsn, n, TSN_MOD))}]

\* A SACK is queued whenever the receive step makes the queue longer.
QueuesSack == rcv_out' = IF out_count' > out_count THEN Append(rcv_out, Sack(rx')) ELSE rcv_out

DataArrives(p) ==
    /\ p \in net /\ p.type = "data"
    /\ HandleChunk(p.chunk, p.tsn)
    /\ QueuesSack
    /\ UNCHANGED <<sndVars, net>>

ForwardArrives(p) ==
    /\ p \in net /\ p.type = "forward"
    /\ QueueSack(nsctp_handle_forward_tsn(rx, p.tsn, p.pairs))
    /\ QueuesSack
    /\ UNCHANGED <<gone, delivered, sndVars, net>>

Receive ==
    /\ PollDelivery
    /\ UNCHANGED <<sndVars, rcv_out, net>>

\* nsctp_poll_output of the receiver: the oldest queued SACK, or one built now.
PollReceiver ==
    /\ PollOutput
    /\ IF rcv_out # <<>>
       THEN Transmit(Head(rcv_out)) /\ rcv_out' = Tail(rcv_out)
       ELSE Transmit(Sack(rx)) /\ UNCHANGED rcv_out
    /\ UNCHANGED sndVars

LinkNext ==
    \/ AppSend
    \/ PollSender
    \/ \E p \in net : SackArrives(p)
    \/ \E d \in 1..RTO_MAX : HandleTimeout(d)
    \/ \E p \in net : DataArrives(p)
    \/ \E p \in net : ForwardArrives(p)
    \/ Receive
    \/ PollReceiver

LinkSpec == LinkInit /\ [][LinkNext]_linkVars

-----------------------------------------------------------------------------
(* Properties.                                                              *)

\* The code's sender is a peer SctpRecv allows: every chunk it puts on the wire
\* has the TSN, SSN, flags and bytes of the message it was given, and its
\* FORWARD-TSNs skip abandoned messages only and nothing unacknowledged before.
ConformingPeer == Spec

Stream == INSTANCE MessageStream
            WITH skipped <- gone, got <- delivered

\* End to end the association is a message stream: whatever the network and the
\* timers do, messages arrive whole, once, in order, and only messages sent with
\* limited retransmissions are skipped.
ImplementsStream == Stream!Spec

\* Until a message has arrived or been abandoned, each of its chunks is still in
\* the sender's queue or in the receiver's buffer: no SACK, however stale or
\* duplicated, frees an entry too early.
NothingLost ==
    \A k \in DOMAIN Chunks :
      LET m == Chunks[k].msg
      IN m <= accepted /\ m \notin gone =>
           \/ \E n \in DOMAIN delivered : delivered[n].msg = m
           \/ \E i \in DOMAIN snd.queue : snd.queue[i].tsn = TsnOf(k)
           \/ Acked(rx, k) /\ Buffered(rx, k)

\* As long as the queue is not empty, nsctp_next_timeout_ms reports a deadline
\* or there is output to poll: a driver that sleeps until the deadline never
\* sleeps over a retransmission or a repeated FORWARD-TSN. And the deadline is
\* served: after nsctp_handle_timeout nothing stays due unless it is output.
WakesUp ==
    /\ snd.state = "established" /\ snd.queue # <<>> =>
         nsctp_has_pending_output(snd) \/ nsctp_next_timeout(snd) # {}
    /\ \A d \in 0..RTO_MAX :
         LET after == nsctp_handle_timeout(Older(snd, d))
         IN 0 \in nsctp_next_timeout(after) => nsctp_has_pending_output(after)
=============================================================================
