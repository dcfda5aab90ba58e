---------------------------- MODULE MediaBuffers ----------------------------
(***************************************************************************)
(* The video reorder buffer of src/nano_reorder.c and the audio jitter     *)
(* buffer of src/nano_jitter.c. A slot is None, or the sequence number and *)
(* the payload it holds, with the time they have waited, which is not      *)
(* counted beyond what the buffer compares it with.                        *)
(***************************************************************************)
EXTENDS Serial, FiniteSets

CONSTANTS SEQ_MOD,          \* sequence numbers: 2^16 in the code
          REORDER_SLOTS,    \* NANORTC_VIDEO_REORDER_SLOTS
          MAX_WAIT,         \* NANORTC_VIDEO_REORDER_MAX_WAIT_MS
          JITTER_SLOTS,     \* NANORTC_JITTER_SLOTS
          DEPTH,            \* depth_ms, the playout delay
          None

ASSUME BufferSizes ==
    /\ {SEQ_MOD, REORDER_SLOTS, MAX_WAIT, JITTER_SLOTS, DEPTH} \subseteq Nat \ {0}
    /\ \A n \in {REORDER_SLOTS, JITTER_SLOTS} : 2 * n < SEQ_MOD /\ SEQ_MOD % n = 0

Slot(seq, payload) == [seq |-> seq, payload |-> payload, waited |-> 0]

\* A tick of the clock for what waits in slots.
Aged(slots, limit) ==
    [i \in DOMAIN slots |->
        IF slots[i] = None THEN None
        ELSE [slots[i] EXCEPT !.waited = IF @ < limit THEN @ + 1 ELSE @]]

-----------------------------------------------------------------------------
(* The reorder buffer.                                                      *)

reorder_init == [inited |-> FALSE, next_seq |-> 0, pending_lost |-> FALSE,
                 slots |-> [i \in 0 .. REORDER_SLOTS - 1 |-> None]]

reorder_slot_idx(seq) == seq % REORDER_SLOTS

reorder_push(r, seq, payload) ==
    LET next == IF r.inited THEN r.next_seq ELSE seq
        diff == Diff(seq, next, SEQ_MOD)
        slot == r.slots[reorder_slot_idx(seq)]
        ahead == diff >= REORDER_SLOTS
    IN IF diff < 0 THEN r
       ELSE [inited |-> TRUE,
             next_seq |-> IF ahead THEN (seq - REORDER_SLOTS + 1) % SEQ_MOD ELSE next,
             pending_lost |-> r.pending_lost \/ ahead,
             slots |-> IF slot # None /\ slot.seq = seq THEN r.slots
                       ELSE [r.slots EXCEPT ![reorder_slot_idx(seq)] = Slot(seq, payload)]]

\* How far ahead of next_seq the packets are that the window holds.
Held(r) == {d \in 0 .. REORDER_SLOTS - 1 :
                LET slot == r.slots[reorder_slot_idx(r.next_seq + d)]
                IN /\ r.inited /\ slot # None
                   /\ slot.seq = Plus(r.next_seq, d, SEQ_MOD)}
HeldSlot(r, d) == r.slots[reorder_slot_idx(r.next_seq + d)]
Ahead(r) == Held(r) \ {0}

\* A missing next_seq is skipped once a packet ahead of it has waited long enough.
reorder_should_skip(r) == \E d \in Ahead(r) : HeldSlot(r, d).waited >= MAX_WAIT

\* The loop of reorder_pop skips all that are missing before the nearest packet.
Nearest(r) == CHOOSE d \in Held(r) : \A e \in Held(r) : d <= e
CanPop(r) == 0 \in Held(r) \/ reorder_should_skip(r)
Popped(r) == [payload |-> HeldSlot(r, Nearest(r)).payload,
              lost |-> r.pending_lost \/ Nearest(r) > 0]
reorder_pop(r) ==
    [r EXCEPT !.next_seq = Plus(@, Nearest(r) + 1, SEQ_MOD), !.pending_lost = FALSE,
              !.slots[reorder_slot_idx(r.next_seq + Nearest(r))] = None]

\* The time until reorder_pop has something to do, None when nothing is held.
OnlyInOrder(r) == IF 0 \in Held(r) THEN 0 ELSE None
reorder_next_timeout_ms(r) ==
    LET oldest == CHOOSE d \in Ahead(r) :
                      \A e \in Ahead(r) : HeldSlot(r, d).waited >= HeldSlot(r, e).waited
    IN IF 0 \in Held(r) THEN 0
       ELSE IF Ahead(r) = {} THEN None ELSE MAX_WAIT - HeldSlot(r, oldest).waited

-----------------------------------------------------------------------------
(* The jitter buffer.                                                       *)

jitter_init == [started |-> FALSE, head_seq |-> 0,
                slots |-> [i \in 0 .. JITTER_SLOTS - 1 |-> None]]

JitterSlot(jb, i) == jb.slots[(jb.head_seq + i) % JITTER_SLOTS]

\* A packet far ahead moves the head and empties what it passes; one behind the head by
\* less than the buffer is stored, in the slot of a later one.
jitter_push(jb, seq, payload) ==
    LET head == IF jb.started THEN jb.head_seq ELSE seq
        delta == Diff(seq, head, SEQ_MOD)
        passed == {(head + i) % JITTER_SLOTS : i \in 0 .. delta - JITTER_SLOTS}
    IN IF delta <= -JITTER_SLOTS THEN jb
       ELSE [started |-> TRUE,
             head_seq |-> IF delta < JITTER_SLOTS THEN head
                          ELSE (seq - JITTER_SLOTS + 1) % SEQ_MOD,
             slots |-> [i \in DOMAIN jb.slots |->
                IF i = seq % JITTER_SLOTS THEN Slot(seq, payload)
                ELSE IF i \in passed THEN None ELSE jb.slots[i]]]

\* How far ahead of the head the packets are that the buffer holds.
AnySlot(jb) == {i \in 0 .. JITTER_SLOTS - 1 : jb.started /\ JitterSlot(jb, i) # None}
Buffered(jb) == {i \in 0 .. JITTER_SLOTS - 1 :
                    /\ jb.started /\ JitterSlot(jb, i) # None
                    /\ JitterSlot(jb, i).seq = Plus(jb.head_seq, i, SEQ_MOD)}
First(jb) == CHOOSE i \in Buffered(jb) : \A j \in Buffered(jb) : i <= j
FirstIsDue(jb) == Buffered(jb) # {} /\ JitterSlot(jb, First(jb)).waited >= DEPTH

\* jitter_pop discards an older packet from the head's slot; else it plays the first
\* packet when it is due, which skips the missing ones before it.
HasStaleHead(jb) == /\ jb.started /\ JitterSlot(jb, 0) # None
                    /\ JitterSlot(jb, 0).seq # jb.head_seq
CanPlay(jb) == ~HasStaleHead(jb) /\ FirstIsDue(jb)
jitter_pop(jb) ==
    LET i == IF HasStaleHead(jb) THEN 0 ELSE First(jb)
    IN [jb EXCEPT !.head_seq = Plus(@, i + 1, SEQ_MOD),
                  !.slots[(jb.head_seq + i) % JITTER_SLOTS] = None]

jitter_next_timeout_ms(jb) ==
    IF Buffered(jb) = {} THEN None ELSE DEPTH - JitterSlot(jb, First(jb)).waited
=============================================================================
