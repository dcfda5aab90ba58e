----------------------------- MODULE RtcOutput ------------------------------
(***************************************************************************)
(* The output queue of a connection and the buffers its entries point into *)
(* (src/nano_rtc.c, src/nano_rtc_media.c).                                 *)
(*                                                                         *)
(* A queued TRANSMIT output stores a pointer, not the packet. The packet   *)
(* lives in a managed slot (tx_slots, nack_retx_buf, fec_tx_buf: a busy    *)
(* bit and the cursor at which the slot is free again) or in pkt_ring, the *)
(* ring the video fragments are written to, with the send pacer's FIFO     *)
(* over the ring in builds that have the pacer. The application drains the *)
(* queue when it likes.                                                    *)
(*                                                                         *)
(* The library is single threaded: a handler runs to its end. Only the     *)
(* loop of nanortc_send_video, one iteration per fragment, is cut into     *)
(* steps, and no other handler runs while frame_left > 0.                  *)
(*                                                                         *)
(* The cursors are uint16_t in the code and wrap at CURSOR_MOD here. What  *)
(* the code never reads again (a dequeued entry, the content and the       *)
(* free_at of a slot that is not busy) is reset to a fixed value.          *)
(***************************************************************************)
EXTENDS Integers, FiniteSets

CONSTANTS
    OUT_QUEUE_SIZE,       \* NANORTC_OUT_QUEUE_SIZE
    PKT_RING_SIZE,        \* NANORTC_VIDEO_PKT_RING_SIZE
    CURSOR_MOD,           \* 2^16
    TxSlots,              \* indices of tx_slots
    NackSlots,            \* indices of nack_retx_buf
    FecSlots,             \* indices of fec_tx_buf
    Packets,              \* packet contents
    NoPacket              \* content that is no queued packet

\* nanortc_config.h requires powers of two; all the argument needs is that a
\* ring size divides the range of its cursor.
ASSUME OutputSizes ==
    /\ OUT_QUEUE_SIZE \in Nat \ {0}
    /\ PKT_RING_SIZE \in Nat \ {0}
    /\ CURSOR_MOD \in Nat
    /\ \E k \in 2..CURSOR_MOD : CURSOR_MOD = k * OUT_QUEUE_SIZE
    /\ \E k \in 2..CURSOR_MOD : CURSOR_MOD = k * PKT_RING_SIZE
    /\ NoPacket \notin Packets

VARIABLES
    pacing,         \* is the build one with NANORTC_FEATURE_VIDEO_PACING?
    out_head, out_tail, out_queue, via_turn,
    in_use, free_at, slot_buf,        \* the managed slots
    pkt_ring_tail, pkt_ring,          \* the video ring
    pacer_head,                       \* pacer.head; pacer.tail = pkt_ring_tail
    frame_left, fec_budget,           \* locals of nanortc_send_video
    committed                         \* history: the packet at a ring cursor
                                      \* until the pacer releases it

queueVars == <<out_head, out_tail, out_queue, via_turn>>
slotVars == <<in_use, free_at, slot_buf>>
ringVars == <<pkt_ring_tail, pkt_ring, pacer_head, committed>>
frameVars == <<frame_left, fec_budget>>
vars == <<pacing, queueVars, slotVars, ringVars, frameVars>>

Cursors == 0..(CURSOR_MOD - 1)
Managed == TxSlots \cup NackSlots \cup FecSlots

\* (uint16_t)(c + 1) and (uint16_t)(b - a).
IncWide(c) == c + 1
Inc(c) == IF c = CURSOR_MOD - 1 THEN 0 ELSE c + 1
Dist(a, b) == IF a <= b THEN b - a ELSE b - a + CURSOR_MOD

\* c & (SIZE - 1).
QSlot(c) == c % OUT_QUEUE_SIZE
RSlot(c) == c % PKT_RING_SIZE

Used == Dist(out_head, out_tail)
rtc_output_has_space == Used < OUT_QUEUE_SIZE

\* The unreleased fragments of the pacer, counted by pacer.tail - pacer.head.
Backlog == IF pacing THEN Dist(pacer_head, pkt_ring_tail) ELSE 0

\* An output entry: what it points to (a managed slot, or the ring cursor of a
\* fragment), and for the properties the packet it was queued for and whether
\* it is to go through the TURN relay.
Event == [kind |-> "event", data |-> 0, pkt |-> NoPacket, turn |-> FALSE]
FromSlot(b, p, t) == [kind |-> "slot", data |-> b, pkt |-> p, turn |-> t]
FromRing(c, p, t) == [kind |-> "ring", data |-> c, pkt |-> p, turn |-> t]

Init ==
    /\ pacing \in BOOLEAN
    /\ out_head = 0 /\ out_tail = 0
    /\ out_queue = [i \in 0..(OUT_QUEUE_SIZE - 1) |-> Event]
    /\ via_turn = [i \in 0..(OUT_QUEUE_SIZE - 1) |-> FALSE]
    /\ in_use = {}
    /\ free_at = [b \in Managed |-> 0]
    /\ slot_buf = [b \in Managed |-> NoPacket]
    /\ pkt_ring_tail = 0 /\ pacer_head = 0
    /\ pkt_ring = [i \in 0..(PKT_RING_SIZE - 1) |-> NoPacket]
    /\ committed = [c \in Cursors |-> NoPacket]
    /\ frame_left = 0 /\ fec_budget = 0

-----------------------------------------------------------------------------
EnqueueKeepsWrap(e) ==
    /\ out_queue' = [out_queue EXCEPT ![QSlot(out_tail)] = e]
    /\ via_turn' = [via_turn EXCEPT ![QSlot(out_tail)] = @ \/ e.turn]
    /\ out_tail' = Inc(out_tail)
    /\ UNCHANGED out_head

\* rtc_enqueue_output, which clears the TURN flag of the reused queue slot, and
\* rtc_enqueue_transmit_ref, which sets it again for a relayed output.
Enqueue(e) ==
    /\ out_queue' = [out_queue EXCEPT ![QSlot(out_tail)] = e]
    /\ via_turn' = [via_turn EXCEPT ![QSlot(out_tail)] = e.turn]
    /\ out_tail' = Inc(out_tail)
    /\ UNCHANGED out_head

\* A managed slot is written and, if there is room, queued and marked busy until
\* the queue entry now at the tail has been dequeued.
QueueSlot(b, p, t) ==
    /\ \/ /\ rtc_output_has_space
          /\ slot_buf' = [slot_buf EXCEPT ![b] = p]
          /\ Enqueue(FromSlot(b, p, t))
          /\ free_at' = [free_at EXCEPT ![b] = Inc(out_tail)]
          /\ in_use' = in_use \cup {b}
       \/ /\ ~rtc_output_has_space
          /\ slot_buf' = [slot_buf EXCEPT ![b] = NoPacket]
          /\ UNCHANGED <<queueVars, in_use, free_at>>

AnyTxSlot == TxSlots
FreeTxSlots == TxSlots \ in_use

\* nano_rtc_tx_slot_acquire, the protocol that writes the slot, and
\* rtc_tx_slot_commit_route. The round-robin cursor only decides which free slot
\* is taken.
TxSend(b, p, t) ==
    /\ frame_left = 0
    /\ rtc_output_has_space
    /\ b \in FreeTxSlots
    /\ QueueSlot(b, p, t)
    /\ UNCHANGED <<pacing, ringVars, frameVars>>

\* The protocol has nothing to send or fails after it got the slot (for
\* instance rtc_pump_sctp_through_dtls): the slot is scribbled on, not queued.
TxAbort(b) ==
    /\ frame_left = 0
    /\ rtc_output_has_space
    /\ b \in FreeTxSlots
    /\ slot_buf' = [slot_buf EXCEPT ![b] = NoPacket]
    /\ UNCHANGED <<pacing, queueVars, in_use, free_at, ringVars, frameVars>>

\* The queue's part of nano_rtc_emit_event_full.
EmitEvent ==
    /\ frame_left = 0
    /\ rtc_output_has_space
    /\ Enqueue(Event)
    /\ UNCHANGED <<pacing, slotVars, ringVars, frameVars>>

\* A generic NACK names a packet still in the ring: a copy of it is queued.
NackRetransmit(i, b, t) ==
    /\ frame_left = 0
    /\ pkt_ring[i] # NoPacket
    /\ b \in NackSlots \ in_use
    /\ QueueSlot(b, pkt_ring[i], t)
    /\ UNCHANGED <<pacing, ringVars, frameVars>>

\* nanortc_poll_output: rtc_poll_queued_output takes the entry at the head (or
\* drops it, if the TURN wrap fails), and rtc_release_output_backing frees the
\* slots that were busy until the new head.
ReleasedLate(head) == {b \in in_use : free_at[b] = out_head}
ReleasedSlots(head) == {b \in in_use : free_at[b] = head}

PollOutput ==
    /\ frame_left = 0
    /\ out_head # out_tail
    /\ out_head' = Inc(out_head)
    /\ out_queue' = [out_queue EXCEPT ![QSlot(out_head)] = Event]
    /\ in_use' = in_use \ ReleasedSlots(Inc(out_head))
    /\ free_at' = [b \in Managed |-> IF b \in in_use' THEN free_at[b] ELSE 0]
    /\ slot_buf' = [b \in Managed |-> IF b \in in_use' THEN slot_buf[b] ELSE NoPacket]
    /\ UNCHANGED <<pacing, out_tail, via_turn, ringVars, frameVars>>

\* One release of nano_rtc_pacer_pump: a fragment with budget, or aged.
PacerRelease(t) ==
    /\ pacing /\ frame_left = 0
    /\ Backlog > 0
    /\ rtc_output_has_space
    /\ Enqueue(FromRing(pacer_head, committed[pacer_head], t))
    /\ pacer_head' = Inc(pacer_head)
    /\ committed' = [committed EXCEPT ![pacer_head] = NoPacket]
    /\ UNCHANGED <<pacing, slotVars, pkt_ring_tail, pkt_ring, frameVars>>

-----------------------------------------------------------------------------
(* nanortc_send_video.                                                      *)

IgnoresQueue(needed) == Backlog + needed <= PKT_RING_SIZE /\ needed <= OUT_QUEUE_SIZE

\* The admission check: the whole frame fits the ring (and, without the pacer,
\* the output queue) beside everything not yet drained.
Admitted(needed) ==
    /\ Used + Backlog + needed <= PKT_RING_SIZE
    /\ pacing \/ Used + needed <= OUT_QUEUE_SIZE

\* FEC packets are sent only if the frame's whole overhead fits beside the
\* media. With the pacer they have no budget: at most one per fragment.
FecAdmitted(needed, groups) ==
    \/ groups = 0
    \/ pacing /\ groups = needed
    \/ /\ ~pacing /\ groups <= needed
       /\ groups <= Cardinality(FecSlots \ in_use)
       /\ Used + needed + groups <= OUT_QUEUE_SIZE

SendVideo(needed, groups) ==
    /\ frame_left = 0
    /\ needed > 0
    /\ Admitted(needed)
    /\ FecAdmitted(needed, groups)
    /\ frame_left' = needed /\ fec_budget' = groups
    /\ UNCHANGED <<pacing, queueVars, slotVars, ringVars>>

\* rtc_fec_commit with a complete group; a failed enqueue drops the packet.
FecCommit(b, p, t) ==
    /\ frame_left > 0 /\ fec_budget > 0
    /\ b \in FecSlots \ in_use
    /\ QueueSlot(b, p, t)
    /\ fec_budget' = IF rtc_output_has_space THEN fec_budget - 1 ELSE fec_budget
    /\ UNCHANGED <<pacing, ringVars, frame_left>>

\* One fragment: pkt_ring_alloc_slot, rtp_pack, nano_srtp_protect,
\* pkt_ring_commit_slot, then nano_rtc_pacer_enqueue or nano_rtc_enqueue_transmit.
VideoFragment(p, t) ==
    /\ frame_left > 0
    /\ pkt_ring' = [pkt_ring EXCEPT ![RSlot(pkt_ring_tail)] = p]
    /\ pkt_ring_tail' = Inc(pkt_ring_tail)
    /\ \/ /\ pacing
          /\ committed' = [committed EXCEPT ![pkt_ring_tail] = p]
          /\ frame_left' = frame_left - 1
          /\ UNCHANGED queueVars
       \/ /\ ~pacing /\ rtc_output_has_space
          /\ Enqueue(FromRing(pkt_ring_tail, p, t))
          /\ frame_left' = frame_left - 1
          /\ UNCHANGED committed
       \/ /\ ~pacing /\ ~rtc_output_has_space
          /\ frame_left' = 0
          /\ UNCHANGED <<queueVars, committed>>
    /\ fec_budget' = IF frame_left' = 0 THEN 0 ELSE fec_budget
    /\ UNCHANGED <<pacing, slotVars, pacer_head>>

\* The packetiser or nano_srtp_protect fails after it wrote into the ring slot:
\* the slot is not committed and the rest of the frame is not sent.
VideoFail(p) ==
    /\ frame_left > 0
    /\ pkt_ring' = [pkt_ring EXCEPT ![RSlot(pkt_ring_tail)] = p]
    /\ frame_left' = 0 /\ fec_budget' = 0
    /\ UNCHANGED <<pacing, queueVars, slotVars, pkt_ring_tail, pacer_head, committed>>

\* The frame had fewer fragments than video_frame_worst_packets allowed for.
VideoEnd ==
    /\ frame_left > 0
    /\ frame_left' = 0 /\ fec_budget' = 0
    /\ UNCHANGED <<pacing, queueVars, slotVars, ringVars>>

Next ==
    \/ \E b \in TxSlots, p \in Packets, t \in BOOLEAN : TxSend(b, p, t)
    \/ \E b \in TxSlots : TxAbort(b)
    \/ EmitEvent
    \/ \E i \in 0..(PKT_RING_SIZE - 1), b \in NackSlots, t \in BOOLEAN :
          NackRetransmit(i, b, t)
    \/ PollOutput
    \/ \E t \in BOOLEAN : PacerRelease(t)
    \/ \E needed, groups \in 0..PKT_RING_SIZE : SendVideo(needed, groups)
    \/ \E b \in FecSlots, p \in Packets, t \in BOOLEAN : FecCommit(b, p, t)
    \/ \E p \in Packets, t \in BOOLEAN : VideoFragment(p, t)
    \/ \E p \in Packets : VideoFail(p)
    \/ VideoEnd

Spec == Init /\ [][Next]_vars

-----------------------------------------------------------------------------
(* Properties.                                                              *)

Queued(c) == Dist(out_head, c) < Used
Entry(c) == out_queue[QSlot(c)]
Unreleased(k) == pacing /\ Dist(pacer_head, k) < Backlog

Entries ==
    [kind : {"event"}, data : {0}, pkt : {NoPacket}, turn : {FALSE}]
      \cup [kind : {"slot"}, data : Managed, pkt : Packets, turn : BOOLEAN]
      \cup [kind : {"ring"}, data : Cursors, pkt : Packets, turn : BOOLEAN]

\* Type invariant of the output queue, the managed slots and the video ring.
TypeOK ==
    /\ pacing \in BOOLEAN
    /\ out_head \in Cursors /\ out_tail \in Cursors
    /\ out_queue \in [0..(OUT_QUEUE_SIZE - 1) -> Entries]
    /\ via_turn \in [0..(OUT_QUEUE_SIZE - 1) -> BOOLEAN]
    /\ in_use \subseteq Managed
    /\ free_at \in [Managed -> Cursors]
    /\ slot_buf \in [Managed -> Packets \cup {NoPacket}]
    /\ pkt_ring_tail \in Cursors /\ pacer_head \in Cursors
    /\ pkt_ring \in [0..(PKT_RING_SIZE - 1) -> Packets \cup {NoPacket}]
    /\ committed \in [Cursors -> Packets \cup {NoPacket}]
    /\ frame_left \in Nat /\ fec_budget \in Nat

\* The lifetime contract of nanortc_output_t: whatever is queued or paced, its
\* buffer still holds the packet it was queued for. No slot is handed out while
\* an entry points to it, and no fragment wraps over an undrained one, also when
\* the uint16_t cursors have wrapped.
QueuedIntact ==
    /\ \A c \in Cursors : Queued(c) =>
         /\ Entry(c).kind = "slot" => slot_buf[Entry(c).data] = Entry(c).pkt
         /\ Entry(c).kind = "ring" => pkt_ring[RSlot(Entry(c).data)] = Entry(c).pkt
    /\ \A k \in Cursors : Unreleased(k) => pkt_ring[RSlot(k)] = committed[k]

\* An output is wrapped for the TURN relay exactly if it was queued for it: the
\* flag of a reused queue slot is never stale.
WrapIsOwn == \A c \in Cursors : Queued(c) =>
                via_turn[QSlot(c)] = Entry(c).turn

\* A frame ships whole: once nanortc_send_video has admitted it, no fragment is
\* refused by the output queue, with the FEC packets it interleaves.
FrameFits == ~pacing /\ frame_left > 0 =>
                Used + frame_left + fec_budget <= OUT_QUEUE_SIZE

\* Every busy slot belongs to a queued entry, so draining the queue frees them
\* all: no slot leaks, however long the queue was idle or its cursors wrapped.
BusyIsQueued == \A b \in in_use :
                  \E c \in Cursors : Queued(c) /\ Entry(c).kind = "slot" /\ Entry(c).data = b
=============================================================================
