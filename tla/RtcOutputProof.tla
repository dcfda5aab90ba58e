--------------------------- MODULE RtcOutputProof ---------------------------
(***************************************************************************)
(* For every queue size, ring size, number of slots and cursor width: what *)
(* RtcOutput queues stays intact until it is polled.                       *)
(*                                                                         *)
(* The argument. A cursor c is in the queue when it lies between out_head  *)
(* and out_tail on the circle of CURSOR_MOD cursors. A managed slot is     *)
(* busy exactly while an entry points to it, because free_at is the cursor *)
(* after that entry (SlotOwned, BusyIsQueued). A fragment in the ring is   *)
(* at most as far behind pkt_ring_tail as the entries queued since plus    *)
(* the pacer's backlog (RingLag), which is what the admission check of     *)
(* nanortc_send_video counts; so while a frame is being sent the ring has  *)
(* room for all of it in front of every undrained fragment (FrameRoom).    *)
(***************************************************************************)
EXTENDS RtcOutput, TLAPS

-----------------------------------------------------------------------------
(* The inductive invariant.                                                 *)

SlotOwned ==
    \A c \in Cursors : Queued(c) /\ Entry(c).kind = "slot" =>
       /\ Entry(c).data \in in_use
       /\ free_at[Entry(c).data] = Inc(c)

RingLag ==
    \A c \in Cursors : Queued(c) /\ Entry(c).kind = "ring" =>
       /\ Dist(Entry(c).data, pkt_ring_tail) >= 1
       /\ Dist(Entry(c).data, pkt_ring_tail) <= Dist(c, out_tail) + Backlog

FrameRoom ==
    frame_left > 0 =>
       /\ Backlog + frame_left <= PKT_RING_SIZE
       /\ \A c \in Cursors : Queued(c) /\ Entry(c).kind = "ring" =>
             Dist(Entry(c).data, pkt_ring_tail) + frame_left <= PKT_RING_SIZE

Bounded == /\ Used <= OUT_QUEUE_SIZE
           /\ Backlog <= PKT_RING_SIZE
           /\ \A k \in Cursors : Unreleased(k) => committed[k] \in Packets

IInv == /\ TypeOK
        /\ Bounded
        /\ SlotOwned
        /\ BusyIsQueued
        /\ RingLag
        /\ FrameRoom
        /\ FrameFits
        /\ WrapIsOwn
        /\ QueuedIntact

-----------------------------------------------------------------------------
(* Arithmetic: a ring whose size divides the range of its cursor gives      *)
(* different slots to cursors less than a turn apart.                       *)

\* Division with remainder, for any ring size.
LEMMA DivMod ==
  ASSUME NEW Q \in Nat, Q > 0, NEW x \in Nat
  PROVE  /\ x % Q \in 0..(Q - 1)
         /\ x \div Q \in Nat
         /\ x = Q * (x \div Q) + (x % Q)
BY SMT

\* A multiple of Q other than 0 is at least Q away from 0.
LEMMA MultipleFar ==
  ASSUME NEW Q \in Nat, Q > 0, NEW k \in Int, k # 0
  PROVE  Q * k >= Q \/ Q * k <= -Q
BY SMT

\* Numbers less than Q apart have different remainders.
LEMMA ModInjective ==
  ASSUME NEW Q \in Nat, Q > 0, NEW x \in Nat, NEW y \in Nat, x < y, y - x < Q
  PROVE  x % Q # y % Q
<1> SUFFICES ASSUME x % Q = y % Q PROVE FALSE
  OBVIOUS
<1> DEFINE k == (y \div Q) - (x \div Q)
<1>1. k \in Int
  BY DivMod
<1>2. y - x = Q * k
  BY DivMod, SMT
<1> HIDE DEF k
<1>3. k # 0
  BY <1>1, <1>2, SMT
<1>4. y - x >= Q \/ y - x <= -Q
  BY <1>1, <1>2, <1>3, MultipleFar
<1> QED
  BY <1>4

\* Going round the whole circle of cursors does not change the slot.
LEMMA ModPeriod ==
  ASSUME NEW Q \in Nat, Q > 0, NEW K \in Nat, NEW x \in Nat
  PROVE  (x + K * Q) % Q = x % Q
<1> DEFINE z == x + K * Q
<1> DEFINE k == ((x \div Q) + K) - (z \div Q)
<1>1. z \in Nat
  BY SMT
<1>2. z = Q * ((x \div Q) + K) + (x % Q)
  BY DivMod, SMT
<1> HIDE DEF z
<1>3. z = Q * (z \div Q) + (z % Q) /\ z % Q \in 0..(Q - 1) /\ z \div Q \in Nat
  BY <1>1, DivMod
<1>4. x % Q \in 0..(Q - 1) /\ x \div Q \in Nat
  BY DivMod
<1>5. k \in Int
  BY <1>3, <1>4
<1>6. Q * k = (z % Q) - (x % Q)
  BY <1>2, <1>3, <1>4, SMT
<1> HIDE DEF k
<1>7. k = 0 \/ Q * k >= Q \/ Q * k <= -Q
  BY <1>5, MultipleFar
<1>8. k = 0
  BY <1>3, <1>4, <1>6, <1>7
<1>9. z % Q = x % Q
  BY <1>3, <1>4, <1>6, <1>8, SMT
<1> QED
  BY <1>9 DEF z

\* Both rings: cursors at a positive distance below the ring size are in
\* different slots.
LEMMA SlotsDiffer ==
  ASSUME NEW Q \in Nat, Q > 0, NEW K \in Nat, CURSOR_MOD = K * Q,
         NEW a \in Cursors, NEW b \in Cursors,
         0 < Dist(a, b), Dist(a, b) < Q
  PROVE  a % Q # b % Q
<1>0. CURSOR_MOD \in Nat
  BY OutputSizes
<1>1. CASE a <= b
  BY <1>0, <1>1, ModInjective DEF Dist, Cursors
<1>2. CASE ~(a <= b)
  <2>1. a < b + CURSOR_MOD /\ (b + CURSOR_MOD) - a < Q
    BY <1>0, <1>2 DEF Dist, Cursors
  <2>4. a \in Nat /\ b + CURSOR_MOD \in Nat
    BY <1>0 DEF Cursors
  <2>2. a % Q # (b + CURSOR_MOD) % Q
    <3> DEFINE y == b + CURSOR_MOD
    <3> HIDE DEF y
    <3>1. a < y /\ y - a < Q /\ y \in Nat /\ a \in Nat
      BY <2>1, <2>4 DEF y
    <3>2. a % Q # y % Q
      BY <3>1, ModInjective
    <3> QED
      BY <3>2 DEF y
  <2>3. (b + K * Q) % Q = b % Q
    <3>1. b \in Nat
      BY <1>0 DEF Cursors
    <3> QED
      BY <3>1, ModPeriod, Zenon
  <2>5. b + CURSOR_MOD = b + K * Q
    OBVIOUS
  <2> QED
    BY <2>2, <2>3, <2>5, Zenon
<1> QED
  BY <1>1, <1>2

\* Cursors less than the queue size apart are in different slots of the queue.
LEMMA QSlotsDiffer ==
  ASSUME NEW a \in Cursors, NEW b \in Cursors,
         0 < Dist(a, b), Dist(a, b) < OUT_QUEUE_SIZE
  PROVE  QSlot(a) # QSlot(b)
<1>1. PICK K \in 2..CURSOR_MOD : CURSOR_MOD = K * OUT_QUEUE_SIZE
  BY OutputSizes
<1>2. K \in Nat /\ OUT_QUEUE_SIZE \in Nat /\ OUT_QUEUE_SIZE > 0
  BY OutputSizes
<1> QED
  BY <1>1, <1>2, SlotsDiffer DEF QSlot

\* Cursors less than the ring size apart are in different slots of the ring.
LEMMA RSlotsDiffer ==
  ASSUME NEW a \in Cursors, NEW b \in Cursors,
         0 < Dist(a, b), Dist(a, b) < PKT_RING_SIZE
  PROVE  RSlot(a) # RSlot(b)
<1>1. PICK K \in 2..CURSOR_MOD : CURSOR_MOD = K * PKT_RING_SIZE
  BY OutputSizes
<1>2. K \in Nat /\ PKT_RING_SIZE \in Nat /\ PKT_RING_SIZE > 0
  BY OutputSizes
<1> QED
  BY <1>1, <1>2, SlotsDiffer DEF RSlot

\* The slots are indices of their arrays, and both rings are at most half the
\* range of the cursors.
LEMMA Sizes ==
  /\ CURSOR_MOD \in Nat /\ CURSOR_MOD > 1
  /\ OUT_QUEUE_SIZE \in Nat /\ 0 < OUT_QUEUE_SIZE /\ OUT_QUEUE_SIZE < CURSOR_MOD
  /\ PKT_RING_SIZE \in Nat /\ 0 < PKT_RING_SIZE /\ PKT_RING_SIZE < CURSOR_MOD
<1>1. PICK K \in 2..CURSOR_MOD : CURSOR_MOD = K * OUT_QUEUE_SIZE
  BY OutputSizes
<1>2. PICK L \in 2..CURSOR_MOD : CURSOR_MOD = L * PKT_RING_SIZE
  BY OutputSizes
<1>3. OUT_QUEUE_SIZE < CURSOR_MOD
  BY <1>1, OutputSizes, SMT
<1>4. PKT_RING_SIZE < CURSOR_MOD
  BY <1>2, OutputSizes, SMT
<1> QED
  BY <1>3, <1>4, OutputSizes

\* The slots of a cursor are slots.
LEMMA SlotTypes ==
  ASSUME NEW c \in Cursors
  PROVE  QSlot(c) \in 0..(OUT_QUEUE_SIZE - 1) /\ RSlot(c) \in 0..(PKT_RING_SIZE - 1)
BY Sizes, DivMod DEF QSlot, RSlot, Cursors

-----------------------------------------------------------------------------
(* The circle of cursors.                                                   *)

\* The next cursor is a cursor.
LEMMA IncType == ASSUME NEW c \in Cursors PROVE Inc(c) \in Cursors
BY Sizes DEF Inc, Cursors

\* Different cursors have different next cursors.
LEMMA IncInjective ==
  ASSUME NEW a \in Cursors, NEW b \in Cursors, Inc(a) = Inc(b) PROVE a = b
BY Sizes DEF Inc, Cursors

\* The distance of two cursors, which is 0 only for the same.
LEMMA DistType ==
  ASSUME NEW a \in Cursors, NEW b \in Cursors
  PROVE  Dist(a, b) \in Nat /\ Dist(a, b) < CURSOR_MOD /\ (Dist(a, b) = 0 <=> a = b)
BY Sizes DEF Dist, Cursors

\* Moving the far end forward lengthens a window, unless it closes the circle.
LEMMA DistGrows ==
  ASSUME NEW a \in Cursors, NEW b \in Cursors, Dist(a, b) < CURSOR_MOD - 1
  PROVE  Dist(a, Inc(b)) = Dist(a, b) + 1
BY Sizes DEF Dist, Inc, Cursors

\* Moving the near end forward shortens a window that is not empty.
LEMMA DistShrinks ==
  ASSUME NEW a \in Cursors, NEW b \in Cursors, a # b
  PROVE  Dist(Inc(a), b) = Dist(a, b) - 1
BY Sizes DEF Dist, Inc, Cursors

\* A cursor inside a window cuts it in two.
LEMMA DistSplits ==
  ASSUME NEW a \in Cursors, NEW c \in Cursors, NEW b \in Cursors, Dist(a, c) <= Dist(a, b)
  PROVE  Dist(c, b) = Dist(a, b) - Dist(a, c)
BY Sizes DEF Dist, Cursors

-----------------------------------------------------------------------------
(* What rtc_enqueue_output does to the queue.                               *)

\* The entries the actions queue are entries.
LEMMA EntryTypes ==
  /\ Event \in Entries
  /\ \A b \in Managed, p \in Packets, t \in BOOLEAN : FromSlot(b, p, t) \in Entries
  /\ \A c \in Cursors, p \in Packets, t \in BOOLEAN : FromRing(c, p, t) \in Entries
BY DEF Event, FromSlot, FromRing, Entries

\* A new entry is appended: the queued ones keep their place and content.
LEMMA EnqueueFacts ==
  ASSUME TypeOK, Bounded, rtc_output_has_space, NEW e \in Entries, Enqueue(e)
  PROVE  /\ out_head' = out_head /\ out_tail' = Inc(out_tail) /\ out_tail' \in Cursors
         /\ out_queue' \in [0..(OUT_QUEUE_SIZE - 1) -> Entries]
         /\ via_turn' \in [0..(OUT_QUEUE_SIZE - 1) -> BOOLEAN]
         /\ Used' = Used + 1 /\ Used' <= OUT_QUEUE_SIZE
         /\ \A c \in Cursors : Queued(c)' <=> (Queued(c) \/ c = out_tail)
         /\ out_queue'[QSlot(out_tail)] = e
         /\ via_turn'[QSlot(out_tail)] = e.turn
         /\ Dist(out_tail, out_tail') = 1
         /\ \A c \in Cursors : Queued(c) =>
              /\ Entry(c)' = Entry(c)
              /\ via_turn'[QSlot(c)] = via_turn[QSlot(c)]
              /\ Dist(c, out_tail') = Dist(c, out_tail) + 1
              /\ c # out_tail
<1>1. out_head \in Cursors /\ out_tail \in Cursors
      /\ out_queue \in [0..(OUT_QUEUE_SIZE - 1) -> Entries]
      /\ via_turn \in [0..(OUT_QUEUE_SIZE - 1) -> BOOLEAN]
  BY DEF TypeOK
<1>2. out_head' = out_head /\ out_tail' = Inc(out_tail) /\ out_tail' \in Cursors
  BY <1>1, IncType DEF Enqueue
<1>3. Used < OUT_QUEUE_SIZE /\ Used \in Nat
  BY <1>1, DistType DEF rtc_output_has_space, Used
<1>4. Used' = Used + 1 /\ Used' <= OUT_QUEUE_SIZE
  BY <1>1, <1>2, <1>3, DistGrows, Sizes DEF Used
<1>5. e.turn \in BOOLEAN
  BY DEF Entries
<1>6. QSlot(out_tail) \in 0..(OUT_QUEUE_SIZE - 1)
  BY <1>1, SlotTypes
<1>7. /\ out_queue' \in [0..(OUT_QUEUE_SIZE - 1) -> Entries]
      /\ via_turn' \in [0..(OUT_QUEUE_SIZE - 1) -> BOOLEAN]
      /\ out_queue'[QSlot(out_tail)] = e
      /\ via_turn'[QSlot(out_tail)] = e.turn
  BY <1>1, <1>5, <1>6 DEF Enqueue
<1>8. ASSUME NEW c \in Cursors PROVE Queued(c)' <=> (Queued(c) \/ c = out_tail)
  <2>1. Dist(out_head, c) \in Nat /\ (Dist(out_head, c) = Used => c = out_tail)
    <3>1. Dist(out_head, c) = Used => Dist(c, out_tail) = 0
      BY <1>1, <1>3, DistSplits DEF Used
    <3> QED
      BY <3>1, <1>1, DistType
  <2>2. Dist(out_head, out_tail) = Used
    BY DEF Used
  <2> QED
    BY <1>2, <1>3, <1>4, <2>1, <2>2 DEF Queued
<1>9. ASSUME NEW c \in Cursors, Queued(c)
      PROVE  /\ Entry(c)' = Entry(c)
             /\ via_turn'[QSlot(c)] = via_turn[QSlot(c)]
             /\ Dist(c, out_tail') = Dist(c, out_tail) + 1
             /\ c # out_tail
  <2>1. Dist(c, out_tail) = Used - Dist(out_head, c) /\ Dist(out_head, c) \in Nat
    BY <1>1, <1>9, <1>3, DistSplits, DistType DEF Queued, Used
  <2>2. 0 < Dist(c, out_tail) /\ Dist(c, out_tail) < OUT_QUEUE_SIZE
    BY <2>1, <1>3, <1>9, Sizes DEF Queued
  <2>3. QSlot(c) # QSlot(out_tail)
    BY <1>1, <2>2, QSlotsDiffer
  <2>4. QSlot(c) \in 0..(OUT_QUEUE_SIZE - 1)
    BY SlotTypes
  <2>5. Dist(c, out_tail') = Dist(c, out_tail) + 1
    BY <1>1, <1>2, <2>2, DistGrows, DistType, Sizes
  <2>6. c # out_tail
    BY <2>2, <1>1, DistType
  <2> QED
    BY <1>1, <2>3, <2>4, <2>5, <2>6 DEF Enqueue, Entry
<1>10. Dist(out_tail, out_tail') = 1
  BY <1>1, <1>2, DistGrows, DistType, Sizes
<1> QED
  BY <1>2, <1>4, <1>7, <1>8, <1>9, <1>10

\* Types of what a queued entry points to.
LEMMA EntryFacts ==
  ASSUME TypeOK, NEW c \in Cursors
  PROVE  /\ Entry(c) \in Entries
         /\ Entry(c).kind = "slot" => Entry(c).data \in Managed /\ Entry(c).pkt \in Packets
         /\ Entry(c).kind = "ring" => Entry(c).data \in Cursors /\ Entry(c).pkt \in Packets
<1>1. Entry(c) \in Entries
  BY SlotTypes DEF TypeOK, Entry
<1> QED
  BY <1>1 DEF Entries

-----------------------------------------------------------------------------
(* Steps that queue a managed slot: TxSend, NackRetransmit, FecCommit.      *)

\* A slot that is not busy may be overwritten: no queued entry points to it.
LEMMA ScribbleStep ==
  ASSUME IInv, NEW b \in Managed \ in_use,
         slot_buf' = [slot_buf EXCEPT ![b] = NoPacket],
         UNCHANGED <<pacing, queueVars, in_use, free_at, ringVars, frame_left>>,
         fec_budget' \in Nat, FrameFits'
  PROVE  IInv'
<1> USE DEF IInv
<1>1. Backlog' = Backlog
  BY DEF Backlog, ringVars
<1>2. \A k \in Cursors : Unreleased(k)' <=> Unreleased(k)
  BY <1>1 DEF Unreleased, ringVars
<1>3. Used' = Used /\ \A c \in Cursors : (Queued(c)' <=> Queued(c)) /\ Entry(c)' = Entry(c)
  BY DEF Used, Queued, Entry, queueVars
<1>4. TypeOK'
  BY DEF TypeOK, queueVars, ringVars
<1>5. Bounded'
  BY <1>1, <1>2, <1>3 DEF Bounded, ringVars
<1>6. SlotOwned' /\ BusyIsQueued' /\ RingLag' /\ FrameRoom' /\ WrapIsOwn'
  BY <1>1, <1>3 DEF SlotOwned, BusyIsQueued, RingLag, FrameRoom, WrapIsOwn, ringVars, queueVars
<1>7. QueuedIntact'
  <2>1. slot_buf \in [Managed -> Packets \cup {NoPacket}]
    BY DEF TypeOK
  <2>2. ASSUME NEW c \in Cursors, Queued(c), Entry(c).kind = "slot"
        PROVE slot_buf'[Entry(c).data] = slot_buf[Entry(c).data]
    BY <2>1, <2>2, EntryFacts DEF SlotOwned
  <2> QED
    BY <1>2, <1>3, <2>2 DEF QueuedIntact, ringVars
<1> QED
  BY <1>4, <1>5, <1>6, <1>7

\* Queueing a slot that is not busy: the new entry owns it, and the others keep
\* what they point to.
LEMMA QueueSlotStep ==
  ASSUME IInv, NEW b \in Managed \ in_use, NEW p \in Packets, NEW t \in BOOLEAN,
         QueueSlot(b, p, t), UNCHANGED <<pacing, ringVars, frame_left>>,
         fec_budget' \in Nat, FrameFits'
  PROVE  IInv'
<1> USE DEF IInv
<1>t. /\ out_tail \in Cursors /\ out_head \in Cursors
      /\ slot_buf \in [Managed -> Packets \cup {NoPacket}]
      /\ free_at \in [Managed -> Cursors] /\ in_use \subseteq Managed
      /\ pkt_ring_tail \in Cursors
  BY DEF TypeOK
<1>r. Backlog' = Backlog
  BY DEF Backlog, ringVars
<1>u. \A k \in Cursors : Unreleased(k)' <=> Unreleased(k)
  BY <1>r DEF Unreleased, ringVars
<1>1. CASE ~rtc_output_has_space
  BY <1>1, ScribbleStep DEF QueueSlot
<1>2. CASE rtc_output_has_space
  <2> DEFINE e == FromSlot(b, p, t)
  <2>1. Enqueue(e) /\ e \in Entries
    BY <1>2, EntryTypes DEF QueueSlot
  <2>e. e.kind = "slot" /\ e.data = b /\ e.pkt = p
    BY DEF FromSlot
  <2> HIDE DEF e
  <2>2. /\ slot_buf' = [slot_buf EXCEPT ![b] = p]
        /\ free_at' = [free_at EXCEPT ![b] = Inc(out_tail)]
        /\ in_use' = in_use \cup {b}
    BY <1>2 DEF QueueSlot
  <2>3. /\ out_head' = out_head /\ out_tail' = Inc(out_tail) /\ out_tail' \in Cursors
        /\ out_queue' \in [0..(OUT_QUEUE_SIZE - 1) -> Entries]
        /\ via_turn' \in [0..(OUT_QUEUE_SIZE - 1) -> BOOLEAN]
        /\ Used' <= OUT_QUEUE_SIZE
    BY <1>2, <2>1, EnqueueFacts
  <2>4. \A c \in Cursors : Queued(c)' <=> (Queued(c) \/ c = out_tail)
    BY <1>2, <2>1, EnqueueFacts
  <2>5. /\ Entry(out_tail) = Entry(out_tail)
        /\ out_queue'[QSlot(out_tail)] = e /\ via_turn'[QSlot(out_tail)] = e.turn
    BY <1>2, <2>1, EnqueueFacts
  <2>6. \A c \in Cursors : Queued(c) =>
              /\ Entry(c)' = Entry(c)
              /\ via_turn'[QSlot(c)] = via_turn[QSlot(c)]
              /\ Dist(c, out_tail') = Dist(c, out_tail) + 1
              /\ c # out_tail
    BY <1>2, <2>1, EnqueueFacts
  <2>7. \A c \in Cursors : c = out_tail => Entry(c)' = e
    BY <2>5 DEF Entry
  <2>8. TypeOK'
    BY <1>t, <2>2, <2>3, IncType DEF TypeOK, ringVars
  <2>9. Bounded'
    BY <2>3, <1>r, <1>u DEF Bounded, ringVars
  <2>10. SlotOwned'
    <3> SUFFICES ASSUME NEW c \in Cursors, Queued(c)', Entry(c)'.kind = "slot"
                 PROVE  Entry(c)'.data \in in_use' /\ free_at'[Entry(c)'.data] = Inc(c)
      BY DEF SlotOwned
    <3>1. CASE c = out_tail
      BY <3>1, <2>7, <2>e, <2>2, <1>t
    <3>2. CASE c # out_tail
      <4>1. Queued(c) /\ Entry(c)' = Entry(c)
        BY <3>2, <2>4, <2>6
      <4>2. Entry(c).data \in in_use /\ free_at[Entry(c).data] = Inc(c)
        BY <4>1 DEF SlotOwned
      <4> QED
        BY <4>1, <4>2, <2>2, <1>t
    <3> QED
      BY <3>1, <3>2
  <2>11. BusyIsQueued'
    <3> SUFFICES ASSUME NEW d \in in_use'
                 PROVE  \E c \in Cursors : /\ Queued(c)' /\ Entry(c)'.kind = "slot"
                                           /\ Entry(c)'.data = d
      BY DEF BusyIsQueued
    <3>1. CASE d = b
      BY <3>1, <2>4, <2>7, <2>e, <1>t
    <3>2. CASE d # b
      <4>1. d \in in_use
        BY <3>2, <2>2
      <4>2. PICK c \in Cursors : Queued(c) /\ Entry(c).kind = "slot" /\ Entry(c).data = d
        BY <4>1 DEF BusyIsQueued
      <4> QED
        BY <4>2, <2>4, <2>6
    <3> QED
      BY <3>1, <3>2
  <2>12. RingLag'
    <3> SUFFICES ASSUME NEW c \in Cursors, Queued(c)', Entry(c)'.kind = "ring"
                 PROVE  /\ Dist(Entry(c)'.data, pkt_ring_tail') >= 1
                        /\ Dist(Entry(c)'.data, pkt_ring_tail') <= Dist(c, out_tail') + Backlog'
      BY DEF RingLag
    <3>1. c # out_tail
      BY <2>7, <2>e
    <3>2. Queued(c) /\ Entry(c)' = Entry(c) /\ Dist(c, out_tail') = Dist(c, out_tail) + 1
      BY <3>1, <2>4, <2>6
    <3>3. /\ Dist(Entry(c).data, pkt_ring_tail) >= 1
          /\ Dist(Entry(c).data, pkt_ring_tail) <= Dist(c, out_tail) + Backlog
      BY <3>2 DEF RingLag
    <3>4. pkt_ring_tail' = pkt_ring_tail
      BY DEF ringVars
    <3>5. Dist(c, out_tail) \in Nat /\ Backlog \in Nat /\ Dist(Entry(c).data, pkt_ring_tail) \in Nat
      BY <3>2, <1>t, DistType, EntryFacts DEF Backlog, TypeOK
    <3> QED
      BY <3>2, <3>3, <3>4, <3>5, <1>r
  <2>13. FrameRoom'
    BY <2>4, <2>6, <2>7, <2>e, <1>r DEF FrameRoom, ringVars
  <2>14. WrapIsOwn'
    BY <2>4, <2>5, <2>6, <2>7 DEF WrapIsOwn
  <2>15. QueuedIntact'
    <3>1. ASSUME NEW c \in Cursors, Queued(c)', Entry(c)'.kind = "slot"
          PROVE  slot_buf'[Entry(c)'.data] = Entry(c)'.pkt
      <4>1. CASE c = out_tail
        BY <4>1, <2>7, <2>e, <2>2, <1>t
      <4>2. CASE c # out_tail
        <5>1. Queued(c) /\ Entry(c)' = Entry(c)
          BY <3>1, <4>2, <2>4, <2>6
        <5>2. Entry(c).data \in in_use /\ Entry(c).data # b
          BY <3>1, <5>1 DEF SlotOwned
        <5>3. slot_buf[Entry(c).data] = Entry(c).pkt
          BY <3>1, <5>1 DEF QueuedIntact
        <5> QED
          BY <5>1, <5>2, <5>3, <2>2, <1>t
      <4> QED
        BY <4>1, <4>2
    <3>2. ASSUME NEW c \in Cursors, Queued(c)', Entry(c)'.kind = "ring"
          PROVE  pkt_ring'[RSlot(Entry(c)'.data)] = Entry(c)'.pkt
      <4>1. c # out_tail
        BY <3>2, <2>7, <2>e
      <4> QED
        BY <3>2, <4>1, <2>4, <2>6 DEF QueuedIntact, ringVars
    <3> QED
      BY <3>1, <3>2, <1>u DEF QueuedIntact, ringVars
  <2> QED
    BY <2>8, <2>9, <2>10, <2>11, <2>12, <2>13, <2>14, <2>15
<1> QED
  BY <1>1, <1>2

-----------------------------------------------------------------------------
(* The initial state and the other steps.                                   *)

\* Nothing is queued, paced or busy at the start.
LEMMA InitIInv == ASSUME Init PROVE IInv
<1>1. Used = 0 /\ Backlog = 0
  BY DEF Init, Used, Backlog, Dist
<1>2. TypeOK
  BY Sizes, EntryTypes DEF Init, TypeOK, Cursors
<1>3. \A c \in Cursors : ~Queued(c) /\ ~Unreleased(c)
  <2> TAKE c \in Cursors
  <2>1. out_head \in Cursors /\ pacer_head \in Cursors
    BY <1>2 DEF TypeOK
  <2>2. Dist(out_head, c) \in Nat /\ Dist(pacer_head, c) \in Nat
    BY <2>1, DistType
  <2>3. ~(Dist(out_head, c) < Used) /\ ~(Dist(pacer_head, c) < Backlog)
    BY <1>1, <2>2
  <2> QED
    BY <2>3 DEF Queued, Unreleased
<1>4. in_use = {} /\ frame_left = 0
  BY DEF Init
<1> QED
  BY <1>1, <1>2, <1>3, <1>4, Sizes
     DEF IInv, Bounded, SlotOwned, BusyIsQueued, RingLag, FrameRoom, FrameFits, WrapIsOwn, QueuedIntact

\* An event is queued: it points to no buffer.
LEMMA EmitEventStep == ASSUME IInv, EmitEvent PROVE IInv'
<1> USE DEF IInv
<1>1. Enqueue(Event) /\ rtc_output_has_space /\ Event \in Entries
      /\ UNCHANGED <<pacing, slotVars, ringVars, frameVars>> /\ frame_left = 0
  BY EntryTypes DEF EmitEvent
<1>2. Event.kind = "event" /\ Event.turn = FALSE
  BY DEF Event
<1>3. /\ out_head' = out_head /\ out_tail' = Inc(out_tail) /\ out_tail' \in Cursors
      /\ out_queue' \in [0..(OUT_QUEUE_SIZE - 1) -> Entries]
      /\ via_turn' \in [0..(OUT_QUEUE_SIZE - 1) -> BOOLEAN]
      /\ Used' <= OUT_QUEUE_SIZE
  BY <1>1, EnqueueFacts
<1>4. \A c \in Cursors : Queued(c)' <=> (Queued(c) \/ c = out_tail)
  BY <1>1, EnqueueFacts
<1>5. out_queue'[QSlot(out_tail)] = Event /\ via_turn'[QSlot(out_tail)] = Event.turn
  BY <1>1, EnqueueFacts
<1>6. \A c \in Cursors : Queued(c) =>
            /\ Entry(c)' = Entry(c)
            /\ via_turn'[QSlot(c)] = via_turn[QSlot(c)]
            /\ Dist(c, out_tail') = Dist(c, out_tail) + 1
            /\ c # out_tail
  BY <1>1, EnqueueFacts
<1>7. \A c \in Cursors : c = out_tail => Entry(c)' = Event
  BY <1>5 DEF Entry
<1>8. Backlog' = Backlog /\ \A k \in Cursors : Unreleased(k)' <=> Unreleased(k)
  BY <1>1 DEF Backlog, Unreleased, ringVars
<1>9. TypeOK'
  BY <1>1, <1>3 DEF TypeOK, slotVars, ringVars, frameVars
<1>10. Bounded'
  BY <1>1, <1>3, <1>8 DEF Bounded, ringVars
<1>11. SlotOwned' /\ BusyIsQueued'
  BY <1>1, <1>2, <1>4, <1>6, <1>7 DEF SlotOwned, BusyIsQueued, slotVars
<1>12. RingLag'
  <2> SUFFICES ASSUME NEW c \in Cursors, Queued(c)', Entry(c)'.kind = "ring"
               PROVE  /\ Dist(Entry(c)'.data, pkt_ring_tail') >= 1
                      /\ Dist(Entry(c)'.data, pkt_ring_tail') <= Dist(c, out_tail') + Backlog'
    BY DEF RingLag
  <2>1. Queued(c) /\ Entry(c)' = Entry(c) /\ Dist(c, out_tail') = Dist(c, out_tail) + 1
    BY <1>2, <1>4, <1>6, <1>7
  <2>2. /\ Dist(Entry(c).data, pkt_ring_tail) >= 1
        /\ Dist(Entry(c).data, pkt_ring_tail) <= Dist(c, out_tail) + Backlog
    BY <2>1 DEF RingLag
  <2>3. Dist(c, out_tail) \in Nat /\ Backlog \in Nat /\ Dist(Entry(c).data, pkt_ring_tail) \in Nat
    BY <2>1, DistType, EntryFacts DEF Backlog, TypeOK
  <2> QED
    BY <1>1, <1>8, <2>1, <2>2, <2>3 DEF ringVars
<1>13. FrameRoom' /\ FrameFits'
  BY <1>1 DEF FrameRoom, FrameFits, frameVars
<1>14. WrapIsOwn'
  BY <1>4, <1>5, <1>6, <1>7 DEF WrapIsOwn
<1>15. QueuedIntact'
  BY <1>1, <1>2, <1>4, <1>6, <1>7, <1>8 DEF QueuedIntact, slotVars, ringVars
<1> QED
  BY <1>9, <1>10, <1>11, <1>12, <1>13, <1>14, <1>15

\* The entry at the head leaves: exactly the slot it pointed to becomes free.
LEMMA PollOutputStep == ASSUME IInv, PollOutput PROVE IInv'
<1> USE DEF IInv
<1>1. /\ out_head \in Cursors /\ out_tail \in Cursors /\ in_use \subseteq Managed
      /\ free_at \in [Managed -> Cursors]
      /\ slot_buf \in [Managed -> Packets \cup {NoPacket}]
      /\ out_queue \in [0..(OUT_QUEUE_SIZE - 1) -> Entries]
  BY DEF TypeOK
<1>2. /\ frame_left = 0 /\ out_head # out_tail
      /\ out_head' = Inc(out_head)
      /\ out_queue' = [out_queue EXCEPT ![QSlot(out_head)] = Event]
      /\ in_use' = in_use \ {b \in in_use : free_at[b] = Inc(out_head)}
      /\ free_at' = [b \in Managed |-> IF b \in in_use' THEN free_at[b] ELSE 0]
      /\ slot_buf' = [b \in Managed |-> IF b \in in_use' THEN slot_buf[b] ELSE NoPacket]
      /\ UNCHANGED <<pacing, out_tail, via_turn, ringVars, frameVars>>
  BY DEF PollOutput, ReleasedSlots
<1>3. Used \in Nat /\ Used' = Used - 1 /\ Used <= OUT_QUEUE_SIZE /\ out_head' \in Cursors
  BY <1>1, <1>2, DistShrinks, DistType, IncType DEF Used, Bounded
<1>4. ASSUME NEW c \in Cursors
      PROVE  Queued(c)' <=> (Queued(c) /\ c # out_head)
  <2>1. CASE c = out_head
    <3>1. Dist(Inc(out_head), out_head) = CURSOR_MOD - 1
      BY <1>1, Sizes DEF Dist, Inc, Cursors
    <3> QED
      BY <2>1, <3>1, <1>2, <1>3, Sizes DEF Queued
  <2>2. CASE c # out_head
    <3>1. Dist(Inc(out_head), c) = Dist(out_head, c) - 1 /\ Dist(out_head, c) \in Nat
      BY <1>1, <2>2, DistShrinks, DistType
    <3> QED
      BY <3>1, <2>2, <1>2, <1>3 DEF Queued
  <2> QED
    BY <2>1, <2>2
<1>5. ASSUME NEW c \in Cursors, Queued(c)' PROVE Entry(c)' = Entry(c)
  <2>1. 0 < Dist(out_head, c) /\ Dist(out_head, c) < OUT_QUEUE_SIZE
    <3>1. Dist(out_head, c) < Used /\ c # out_head
      BY <1>4, <1>5 DEF Queued
    <3>2. Dist(out_head, c) \in Nat /\ Dist(out_head, c) # 0
      BY <1>1, <3>1, DistType
    <3> QED
      BY <1>3, <3>1, <3>2, Sizes
  <2>2. QSlot(out_head) # QSlot(c) /\ QSlot(c) \in 0..(OUT_QUEUE_SIZE - 1)
    BY <1>1, <2>1, QSlotsDiffer, SlotTypes
  <2> QED
    BY <1>1, <1>2, <2>2 DEF Entry
<1>6. Backlog' = Backlog /\ \A k \in Cursors : Unreleased(k)' <=> Unreleased(k)
  BY <1>2 DEF Backlog, Unreleased, ringVars
<1>7. ASSUME NEW c \in Cursors, Queued(c)', Entry(c).kind = "slot"
      PROVE  /\ Entry(c).data \in in_use' /\ Entry(c).data \in Managed
             /\ free_at[Entry(c).data] = Inc(c)
  <2>1. Entry(c).data \in in_use /\ free_at[Entry(c).data] = Inc(c) /\ c # out_head
    BY <1>4, <1>7 DEF SlotOwned
  <2>2. Inc(c) # Inc(out_head)
    BY <1>1, <2>1, IncInjective
  <2> QED
    BY <1>1, <1>2, <2>1, <2>2
<1>8. TypeOK'
  <2>1. Event \in Entries /\ 0 \in Cursors
    BY EntryTypes, Sizes DEF Cursors
  <2>2. free_at' \in [Managed -> Cursors] /\ slot_buf' \in [Managed -> Packets \cup {NoPacket}]
    BY <1>1, <1>2, <2>1
  <2>3. out_queue' \in [0..(OUT_QUEUE_SIZE - 1) -> Entries] /\ in_use' \subseteq Managed
    BY <1>1, <1>2, <2>1
  <2> QED
    BY <1>2, <1>3, <2>2, <2>3 DEF TypeOK, ringVars, frameVars
<1>9. Bounded'
  BY <1>2, <1>3, <1>6, Sizes DEF Bounded, ringVars
<1>10. SlotOwned'
  BY <1>2, <1>5, <1>7 DEF SlotOwned
<1>11. BusyIsQueued'
  <2> SUFFICES ASSUME NEW d \in in_use'
               PROVE  \E c \in Cursors : /\ Queued(c)' /\ Entry(c)'.kind = "slot"
                                         /\ Entry(c)'.data = d
    BY DEF BusyIsQueued
  <2>1. d \in in_use /\ free_at[d] # Inc(out_head)
    BY <1>2
  <2>2. PICK c \in Cursors : Queued(c) /\ Entry(c).kind = "slot" /\ Entry(c).data = d
    BY <2>1 DEF BusyIsQueued
  <2>3. c # out_head
    BY <2>1, <2>2 DEF SlotOwned
  <2> QED
    BY <1>4, <1>5, <2>2, <2>3
<1>12. RingLag'
  BY <1>2, <1>4, <1>5, <1>6 DEF RingLag, ringVars
<1>13. FrameRoom' /\ FrameFits'
  BY <1>2 DEF FrameRoom, FrameFits, frameVars
<1>14. WrapIsOwn'
  BY <1>2, <1>4, <1>5 DEF WrapIsOwn
<1>15. QueuedIntact'
  <2>1. ASSUME NEW c \in Cursors, Queued(c)', Entry(c)'.kind = "slot"
        PROVE  slot_buf'[Entry(c)'.data] = Entry(c)'.pkt
    BY <1>2, <1>4, <1>5, <1>7, <2>1 DEF QueuedIntact
  <2>2. ASSUME NEW c \in Cursors, Queued(c)', Entry(c)'.kind = "ring"
        PROVE  pkt_ring'[RSlot(Entry(c)'.data)] = Entry(c)'.pkt
    BY <1>2, <1>4, <1>5, <2>2 DEF QueuedIntact, ringVars
  <2> QED
    BY <1>2, <1>6, <2>1, <2>2 DEF QueuedIntact, ringVars
<1> QED
  BY <1>8, <1>9, <1>10, <1>11, <1>12, <1>13, <1>14, <1>15

\* The pacer's oldest fragment moves to the queue: what it was behind
\* pkt_ring_tail in the backlog, it now is in the queue and the backlog.
LEMMA PacerReleaseStep ==
  ASSUME IInv, NEW t \in BOOLEAN, PacerRelease(t) PROVE IInv'
<1> USE DEF IInv
<1> DEFINE e == FromRing(pacer_head, committed[pacer_head], t)
<1>1. /\ pacing /\ frame_left = 0 /\ Backlog > 0 /\ rtc_output_has_space /\ Enqueue(e)
      /\ pacer_head' = Inc(pacer_head)
      /\ committed' = [committed EXCEPT ![pacer_head] = NoPacket]
      /\ UNCHANGED <<pacing, slotVars, pkt_ring_tail, pkt_ring, frameVars>>
  BY DEF PacerRelease
<1>2. /\ pacer_head \in Cursors /\ pkt_ring_tail \in Cursors
      /\ out_tail \in Cursors /\ out_head \in Cursors
      /\ committed \in [Cursors -> Packets \cup {NoPacket}]
  BY DEF TypeOK
<1>3. Backlog = Dist(pacer_head, pkt_ring_tail) /\ Backlog \in Nat /\ Backlog <= PKT_RING_SIZE
  BY <1>1, <1>2, DistType DEF Backlog, Bounded
<1>4. pacer_head # pkt_ring_tail /\ Dist(pacer_head, pacer_head) = 0
  BY <1>1, <1>2, <1>3, DistType
<1>5. Backlog' = Backlog - 1 /\ pacer_head' \in Cursors
  BY <1>1, <1>2, <1>3, <1>4, DistShrinks, IncType DEF Backlog
<1>6. Unreleased(pacer_head) /\ committed[pacer_head] \in Packets
  BY <1>1, <1>2, <1>4 DEF Unreleased, Bounded
<1>7. ASSUME NEW k \in Cursors
      PROVE  Unreleased(k)' <=> (Unreleased(k) /\ k # pacer_head)
  <2>1. CASE k = pacer_head
    <3>1. Dist(Inc(pacer_head), pacer_head) = CURSOR_MOD - 1
      BY <1>2, Sizes DEF Dist, Inc, Cursors
    <3> QED
      BY <2>1, <3>1, <1>1, <1>3, <1>5, Sizes DEF Unreleased
  <2>2. CASE k # pacer_head
    <3>1. Dist(Inc(pacer_head), k) = Dist(pacer_head, k) - 1 /\ Dist(pacer_head, k) \in Nat
      BY <1>2, <2>2, DistShrinks, DistType
    <3> QED
      BY <3>1, <2>2, <1>1, <1>3, <1>5 DEF Unreleased
  <2> QED
    BY <2>1, <2>2
<1>8. e \in Entries /\ e.kind = "ring" /\ e.data = pacer_head /\ e.pkt = committed[pacer_head]
  BY <1>2, <1>6, EntryTypes DEF FromRing
<1> HIDE DEF e
<1>9. /\ out_head' = out_head /\ out_tail' = Inc(out_tail) /\ out_tail' \in Cursors
      /\ out_queue' \in [0..(OUT_QUEUE_SIZE - 1) -> Entries]
      /\ via_turn' \in [0..(OUT_QUEUE_SIZE - 1) -> BOOLEAN]
      /\ Used' <= OUT_QUEUE_SIZE /\ Dist(out_tail, out_tail') = 1
  BY <1>1, <1>8, EnqueueFacts
<1>10. \A c \in Cursors : Queued(c)' <=> (Queued(c) \/ c = out_tail)
  BY <1>1, <1>8, EnqueueFacts
<1>11. out_queue'[QSlot(out_tail)] = e /\ via_turn'[QSlot(out_tail)] = e.turn
  BY <1>1, <1>8, EnqueueFacts
<1>12. \A c \in Cursors : Queued(c) =>
            /\ Entry(c)' = Entry(c)
            /\ via_turn'[QSlot(c)] = via_turn[QSlot(c)]
            /\ Dist(c, out_tail') = Dist(c, out_tail) + 1
            /\ c # out_tail
  BY <1>1, <1>8, EnqueueFacts
<1>13. \A c \in Cursors : c = out_tail => Entry(c)' = e
  BY <1>11 DEF Entry
<1>14. TypeOK'
  BY <1>1, <1>2, <1>5, <1>9 DEF TypeOK, slotVars, frameVars
<1>15. Bounded'
  <2>1. ASSUME NEW k \in Cursors, Unreleased(k)' PROVE committed'[k] \in Packets
    BY <1>1, <1>2, <1>7, <2>1 DEF Bounded
  <2> QED
    BY <1>3, <1>5, <1>9, <2>1, Sizes DEF Bounded
<1>16. SlotOwned' /\ BusyIsQueued'
  BY <1>1, <1>8, <1>10, <1>12, <1>13 DEF SlotOwned, BusyIsQueued, slotVars
<1>17. RingLag'
  <2> SUFFICES ASSUME NEW c \in Cursors, Queued(c)', Entry(c)'.kind = "ring"
               PROVE  /\ Dist(Entry(c)'.data, pkt_ring_tail') >= 1
                      /\ Dist(Entry(c)'.data, pkt_ring_tail') <= Dist(c, out_tail') + Backlog'
    BY DEF RingLag
  <2>1. CASE c = out_tail
    BY <1>1, <1>3, <1>5, <1>8, <1>9, <1>13, <2>1
  <2>2. CASE c # out_tail
    <3>1. Queued(c) /\ Entry(c)' = Entry(c) /\ Dist(c, out_tail') = Dist(c, out_tail) + 1
      BY <1>10, <1>12, <2>2
    <3>2. /\ Dist(Entry(c).data, pkt_ring_tail) >= 1
          /\ Dist(Entry(c).data, pkt_ring_tail) <= Dist(c, out_tail) + Backlog
      BY <3>1 DEF RingLag
    <3>3. Dist(c, out_tail) \in Nat /\ Dist(Entry(c).data, pkt_ring_tail) \in Nat
      BY <1>2, <3>1, DistType, EntryFacts
    <3> QED
      BY <1>1, <1>3, <1>5, <3>1, <3>2, <3>3
  <2> QED
    BY <2>1, <2>2
<1>18. FrameRoom' /\ FrameFits'
  BY <1>1 DEF FrameRoom, FrameFits, frameVars
<1>19. WrapIsOwn'
  BY <1>10, <1>11, <1>12, <1>13 DEF WrapIsOwn
<1>20. QueuedIntact'
  <2>1. ASSUME NEW c \in Cursors, Queued(c)', Entry(c)'.kind = "slot"
        PROVE  slot_buf'[Entry(c)'.data] = Entry(c)'.pkt
    BY <1>1, <1>8, <1>10, <1>12, <1>13, <2>1 DEF QueuedIntact, slotVars
  <2>2. ASSUME NEW c \in Cursors, Queued(c)', Entry(c)'.kind = "ring"
        PROVE  pkt_ring'[RSlot(Entry(c)'.data)] = Entry(c)'.pkt
    <3>1. CASE c = out_tail
      BY <1>1, <1>2, <1>6, <1>8, <1>13, <3>1 DEF QueuedIntact
    <3>2. CASE c # out_tail
      BY <1>1, <1>10, <1>12, <2>2, <3>2 DEF QueuedIntact
    <3> QED
      BY <3>1, <3>2
  <2>3. ASSUME NEW k \in Cursors, Unreleased(k)' PROVE pkt_ring'[RSlot(k)] = committed'[k]
    BY <1>1, <1>2, <1>7, <2>3 DEF QueuedIntact
  <2> QED
    BY <2>1, <2>2, <2>3 DEF QueuedIntact
<1> QED
  BY <1>14, <1>15, <1>16, <1>17, <1>18, <1>19, <1>20

\* The admission check establishes FrameRoom and FrameFits: a fragment is at most
\* Used + Backlog behind the ring's tail.
LEMMA SendVideoStep ==
  ASSUME IInv, NEW needed \in 0..PKT_RING_SIZE, NEW groups \in 0..PKT_RING_SIZE,
         SendVideo(needed, groups)
  PROVE  IInv'
<1> USE DEF IInv
<1>1. /\ Admitted(needed) /\ FecAdmitted(needed, groups)
      /\ frame_left' = needed /\ fec_budget' = groups
      /\ UNCHANGED <<pacing, queueVars, slotVars, ringVars>>
  BY DEF SendVideo
<1>2. Used' = Used /\ \A c \in Cursors : (Queued(c)' <=> Queued(c)) /\ Entry(c)' = Entry(c)
  BY <1>1 DEF Used, Queued, Entry, queueVars
<1>3. Backlog' = Backlog
  BY <1>1 DEF Backlog, ringVars
<1>4. \A k \in Cursors : Unreleased(k)' <=> Unreleased(k)
  BY <1>1, <1>3 DEF Unreleased, ringVars
<1>5. needed \in Nat /\ groups \in Nat /\ Used \in Nat /\ Backlog \in Nat
  BY Sizes, DistType DEF TypeOK, Used, Backlog
<1>6. TypeOK'
  BY <1>1, <1>5 DEF TypeOK, queueVars, slotVars, ringVars
<1>7. Bounded' /\ QueuedIntact'
  BY <1>1, <1>2, <1>3, <1>4 DEF Bounded, QueuedIntact, slotVars, ringVars
<1>8. SlotOwned' /\ BusyIsQueued' /\ WrapIsOwn'
  BY <1>1, <1>2 DEF SlotOwned, BusyIsQueued, WrapIsOwn, queueVars, slotVars
<1>9. RingLag'
  BY <1>1, <1>2, <1>3 DEF RingLag, queueVars, ringVars
<1>10. FrameRoom'
  <2>1. ASSUME NEW c \in Cursors, Queued(c), Entry(c).kind = "ring"
        PROVE  Dist(Entry(c).data, pkt_ring_tail) + needed <= PKT_RING_SIZE
    <3>1. Dist(c, out_tail) = Used - Dist(out_head, c) /\ Dist(out_head, c) \in Nat
      <4>1. out_head \in Cursors /\ out_tail \in Cursors
        BY DEF TypeOK
      <4>2. Dist(out_head, c) \in Nat /\ Dist(out_head, c) < Dist(out_head, out_tail)
        BY <2>1, <4>1, DistType DEF Queued, Used
      <4>3. Dist(out_head, out_tail) \in Nat
        BY <4>1, DistType
      <4> QED
        BY <4>1, <4>2, <4>3, DistSplits DEF Used
    <3>2. Dist(Entry(c).data, pkt_ring_tail) <= Dist(c, out_tail) + Backlog
      BY <2>1 DEF RingLag
    <3>3. Dist(Entry(c).data, pkt_ring_tail) \in Nat
      BY <2>1, EntryFacts, DistType DEF TypeOK
    <3> QED
      BY <1>1, <1>5, <3>1, <3>2, <3>3, Sizes DEF Admitted
  <2>2. Backlog + needed <= PKT_RING_SIZE
    BY <1>1, <1>5, Sizes DEF Admitted
  <2> QED
    BY <1>1, <1>2, <1>3, <2>1, <2>2 DEF FrameRoom, ringVars
<1>11. FrameFits'
  BY <1>1, <1>2, <1>5, Sizes DEF FrameFits, Admitted, FecAdmitted
<1> QED
  BY <1>6, <1>7, <1>10, <1>11, <1>8, <1>9

\* While a frame is being sent, the ring slot the next fragment is written to
\* holds no queued and no paced fragment.
LEMMA RingWriteFacts ==
  ASSUME IInv, frame_left > 0
  PROVE  /\ \A c \in Cursors : Queued(c) /\ Entry(c).kind = "ring" =>
              /\ RSlot(Entry(c).data) # RSlot(pkt_ring_tail)
              /\ Dist(Entry(c).data, Inc(pkt_ring_tail))
                   = Dist(Entry(c).data, pkt_ring_tail) + 1
         /\ \A k \in Cursors : Unreleased(k) =>
              k # pkt_ring_tail /\ RSlot(k) # RSlot(pkt_ring_tail)
         /\ Backlog < PKT_RING_SIZE
<1> USE DEF IInv
<1>1. pkt_ring_tail \in Cursors /\ pacer_head \in Cursors /\ frame_left \in Nat
  BY DEF TypeOK
<1>2. Backlog \in Nat /\ Backlog < PKT_RING_SIZE
  BY <1>1, DistType, Sizes DEF Backlog, FrameRoom
<1>3. ASSUME NEW c \in Cursors, Queued(c), Entry(c).kind = "ring"
      PROVE  /\ RSlot(Entry(c).data) # RSlot(pkt_ring_tail)
             /\ Dist(Entry(c).data, Inc(pkt_ring_tail))
                  = Dist(Entry(c).data, pkt_ring_tail) + 1
  <2>1. Entry(c).data \in Cursors
    BY <1>3, EntryFacts
  <2>2. Dist(Entry(c).data, pkt_ring_tail) \in Nat
    BY <1>1, <2>1, DistType
  <2>3. /\ 0 < Dist(Entry(c).data, pkt_ring_tail)
        /\ Dist(Entry(c).data, pkt_ring_tail) < PKT_RING_SIZE
    BY <1>1, <1>3, <2>2, Sizes DEF RingLag, FrameRoom
  <2> QED
    BY <1>1, <2>1, <2>2, <2>3, RSlotsDiffer, DistGrows, Sizes
<1>4. ASSUME NEW k \in Cursors, Unreleased(k)
      PROVE  k # pkt_ring_tail /\ RSlot(k) # RSlot(pkt_ring_tail)
  <2>1. Backlog = Dist(pacer_head, pkt_ring_tail) /\ Dist(pacer_head, k) < Backlog
    BY <1>4 DEF Unreleased, Backlog
  <2>2. Dist(pacer_head, k) \in Nat
    BY <1>1, DistType
  <2>3. Dist(k, pkt_ring_tail) = Backlog - Dist(pacer_head, k)
    BY <1>1, <1>2, <2>1, <2>2, DistSplits
  <2>4. 0 < Dist(k, pkt_ring_tail) /\ Dist(k, pkt_ring_tail) < PKT_RING_SIZE
    BY <1>2, <2>1, <2>2, <2>3, Sizes
  <2> QED
    BY <1>1, <2>4, RSlotsDiffer, DistType
<1> QED
  BY <1>2, <1>3, <1>4

\* A fragment handed to the pacer.
LEMMA PacedFragment ==
  ASSUME IInv, NEW p \in Packets, frame_left > 0, pacing,
         pkt_ring' = [pkt_ring EXCEPT ![RSlot(pkt_ring_tail)] = p],
         pkt_ring_tail' = Inc(pkt_ring_tail),
         committed' = [committed EXCEPT ![pkt_ring_tail] = p],
         frame_left' = frame_left - 1, fec_budget' \in Nat,
         UNCHANGED <<pacing, slotVars, pacer_head, queueVars>>
  PROVE  IInv'
<1> USE DEF IInv
<1>1. /\ pkt_ring_tail \in Cursors /\ pacer_head \in Cursors /\ frame_left \in Nat
      /\ pkt_ring \in [0..(PKT_RING_SIZE - 1) -> Packets \cup {NoPacket}]
      /\ committed \in [Cursors -> Packets \cup {NoPacket}]
      /\ RSlot(pkt_ring_tail) \in 0..(PKT_RING_SIZE - 1)
      /\ pkt_ring_tail' \in Cursors
  BY SlotTypes, IncType DEF TypeOK
<1>2. Used' = Used /\ \A c \in Cursors : (Queued(c)' <=> Queued(c)) /\ Entry(c)' = Entry(c)
  BY DEF Used, Queued, Entry, queueVars
<1>3. Backlog = Dist(pacer_head, pkt_ring_tail) /\ Backlog \in Nat /\ Backlog < PKT_RING_SIZE
  BY <1>1, DistType, RingWriteFacts DEF Backlog
<1>4. Backlog' = Backlog + 1
  BY <1>1, <1>3, DistGrows, Sizes DEF Backlog
<1>5. ASSUME NEW k \in Cursors, Unreleased(k)' PROVE Unreleased(k) \/ k = pkt_ring_tail
  <2>1. Dist(pacer_head, k) \in Nat /\ Dist(pacer_head, k) < Backlog + 1
    BY <1>1, <1>4, <1>5, DistType DEF Unreleased
  <2>2. CASE Dist(pacer_head, k) < Backlog
    BY <2>2 DEF Unreleased
  <2>3. CASE Dist(pacer_head, k) = Backlog
    <3>1. Dist(k, pkt_ring_tail) = 0
      BY <1>1, <1>3, <2>3, DistSplits
    <3> QED
      BY <1>1, <3>1, DistType
  <2> QED
    BY <1>3, <2>1, <2>2, <2>3
<1>6. TypeOK'
  BY <1>1 DEF TypeOK, queueVars, slotVars
<1>7. Bounded'
  <2>1. ASSUME NEW k \in Cursors, Unreleased(k)' PROVE committed'[k] \in Packets
    BY <1>1, <1>5, <2>1, RingWriteFacts DEF Bounded
  <2> QED
    BY <1>2, <1>3, <1>4, <2>1, Sizes DEF Bounded
<1>8. SlotOwned' /\ BusyIsQueued' /\ WrapIsOwn'
  BY <1>2 DEF SlotOwned, BusyIsQueued, WrapIsOwn, queueVars, slotVars
<1>9. ASSUME NEW c \in Cursors, Queued(c)', Entry(c)'.kind = "ring"
      PROVE  /\ Dist(Entry(c)'.data, pkt_ring_tail') >= 1
             /\ Dist(Entry(c)'.data, pkt_ring_tail') <= Dist(c, out_tail') + Backlog'
             /\ Dist(Entry(c)'.data, pkt_ring_tail') + frame_left' <= PKT_RING_SIZE
             /\ pkt_ring'[RSlot(Entry(c)'.data)] = Entry(c)'.pkt
  <2>1. Queued(c) /\ Entry(c)' = Entry(c) /\ Entry(c).kind = "ring"
    BY <1>2, <1>9
  <2>2. Entry(c).data \in Cursors /\ RSlot(Entry(c).data) \in 0..(PKT_RING_SIZE - 1)
    BY <2>1, EntryFacts, SlotTypes
  <2>3. Dist(Entry(c).data, pkt_ring_tail) \in Nat /\ Dist(c, out_tail) \in Nat
    BY <1>1, <2>2, DistType DEF TypeOK
  <2>4. /\ RSlot(Entry(c).data) # RSlot(pkt_ring_tail)
        /\ Dist(Entry(c).data, pkt_ring_tail') = Dist(Entry(c).data, pkt_ring_tail) + 1
    BY <2>1, RingWriteFacts
  <2>5. /\ Dist(Entry(c).data, pkt_ring_tail) <= Dist(c, out_tail) + Backlog
        /\ Dist(Entry(c).data, pkt_ring_tail) + frame_left <= PKT_RING_SIZE
        /\ pkt_ring[RSlot(Entry(c).data)] = Entry(c).pkt
    BY <2>1 DEF RingLag, FrameRoom, QueuedIntact
  <2>6. out_tail' = out_tail
    BY DEF queueVars
  <2>7. pkt_ring'[RSlot(Entry(c).data)] = Entry(c).pkt
    BY <1>1, <2>2, <2>4, <2>5
  <2> QED
    <3>1. /\ Dist(Entry(c).data, pkt_ring_tail') >= 1
          /\ Dist(Entry(c).data, pkt_ring_tail') <= Dist(c, out_tail) + Backlog'
          /\ Dist(Entry(c).data, pkt_ring_tail') + (frame_left - 1) <= PKT_RING_SIZE
      <4> DEFINE d == Dist(Entry(c).data, pkt_ring_tail)
                 n == Dist(c, out_tail)
                 k == Backlog
      <4>1. d \in Nat /\ n \in Nat /\ d <= n + k /\ d + frame_left <= PKT_RING_SIZE
        BY <2>3, <2>5
      <4>2. frame_left \in Nat /\ k \in Nat /\ PKT_RING_SIZE \in Nat
        BY <1>1, <1>3, Sizes
      <4> HIDE DEF d, n, k
      <4>3. d + 1 >= 1 /\ d + 1 <= n + (k + 1) /\ (d + 1) + (frame_left - 1) <= PKT_RING_SIZE
        BY <4>1, <4>2
      <4>4. Dist(Entry(c).data, pkt_ring_tail') = d + 1 /\ Backlog' = k + 1
        BY <1>4, <2>4 DEF d, k
      <4> QED
        BY <4>3, <4>4 DEF n
    <3> QED
      BY <2>1, <2>6, <2>7, <3>1
<1>10. RingLag'
  BY <1>9 DEF RingLag
<1>11. FrameRoom'
  <2>1. Backlog' + frame_left' <= PKT_RING_SIZE
    BY <1>1, <1>3, <1>4, Sizes DEF FrameRoom
  <2> QED
    BY <1>9, <2>1 DEF FrameRoom
<1>12. FrameFits'
  BY DEF FrameFits
<1>13. QueuedIntact'
  <2>1. ASSUME NEW c \in Cursors, Queued(c)', Entry(c)'.kind = "slot"
        PROVE  slot_buf'[Entry(c)'.data] = Entry(c)'.pkt
    BY <1>2, <2>1 DEF QueuedIntact, slotVars
  <2>2. ASSUME NEW k \in Cursors, Unreleased(k)' PROVE pkt_ring'[RSlot(k)] = committed'[k]
    <3>1. CASE k = pkt_ring_tail
      BY <1>1, <3>1
    <3>2. CASE k # pkt_ring_tail
      <4>1. Unreleased(k) /\ RSlot(k) # RSlot(pkt_ring_tail) /\ RSlot(k) \in 0..(PKT_RING_SIZE - 1)
        BY <1>5, <2>2, <3>2, RingWriteFacts, SlotTypes
      <4> QED
        BY <1>1, <3>2, <4>1 DEF QueuedIntact
    <3> QED
      BY <3>1, <3>2
  <2> QED
    BY <1>9, <2>1, <2>2 DEF QueuedIntact
<1> QED
  BY <1>6, <1>7, <1>8, <1>10, <1>11, <1>12, <1>13

\* A fragment queued directly, in a build without the pacer.
LEMMA QueuedFragment ==
  ASSUME IInv, NEW p \in Packets, NEW t \in BOOLEAN, frame_left > 0, ~pacing,
         pkt_ring' = [pkt_ring EXCEPT ![RSlot(pkt_ring_tail)] = p],
         pkt_ring_tail' = Inc(pkt_ring_tail), rtc_output_has_space,
         Enqueue(FromRing(pkt_ring_tail, p, t)),
         frame_left' = frame_left - 1, NEW g \in Nat, fec_budget' = g, g <= fec_budget,
         UNCHANGED <<pacing, slotVars, pacer_head, committed>>
  PROVE  IInv'
<1> USE DEF IInv
<1> DEFINE e == FromRing(pkt_ring_tail, p, t)
<1>1. /\ pkt_ring_tail \in Cursors /\ out_tail \in Cursors /\ out_head \in Cursors
      /\ frame_left \in Nat /\ fec_budget \in Nat
      /\ pkt_ring \in [0..(PKT_RING_SIZE - 1) -> Packets \cup {NoPacket}]
      /\ RSlot(pkt_ring_tail) \in 0..(PKT_RING_SIZE - 1)
      /\ pkt_ring_tail' \in Cursors
  BY SlotTypes, IncType DEF TypeOK
<1>2. e \in Entries /\ e.kind = "ring" /\ e.data = pkt_ring_tail /\ e.pkt = p
  BY <1>1, EntryTypes DEF FromRing
<1>3. Enqueue(e)
  OBVIOUS
<1> HIDE DEF e
<1>4. /\ out_head' = out_head /\ out_tail' = Inc(out_tail) /\ out_tail' \in Cursors
      /\ out_queue' \in [0..(OUT_QUEUE_SIZE - 1) -> Entries]
      /\ via_turn' \in [0..(OUT_QUEUE_SIZE - 1) -> BOOLEAN]
      /\ Used' = Used + 1 /\ Used' <= OUT_QUEUE_SIZE /\ Dist(out_tail, out_tail') = 1
  BY <1>2, <1>3, EnqueueFacts
<1>5. \A c \in Cursors : Queued(c)' <=> (Queued(c) \/ c = out_tail)
  BY <1>2, <1>3, EnqueueFacts
<1>6. out_queue'[QSlot(out_tail)] = e /\ via_turn'[QSlot(out_tail)] = e.turn
  BY <1>2, <1>3, EnqueueFacts
<1>7. \A c \in Cursors : Queued(c) =>
            /\ Entry(c)' = Entry(c)
            /\ via_turn'[QSlot(c)] = via_turn[QSlot(c)]
            /\ Dist(c, out_tail') = Dist(c, out_tail) + 1
            /\ c # out_tail
  BY <1>2, <1>3, EnqueueFacts
<1>8. \A c \in Cursors : c = out_tail => Entry(c)' = e
  BY <1>6 DEF Entry
<1>9. Backlog = 0 /\ Backlog' = 0 /\ \A k \in Cursors : ~Unreleased(k) /\ ~Unreleased(k)'
  BY DEF Backlog, Unreleased
<1>10. TypeOK'
  BY <1>1, <1>4 DEF TypeOK, slotVars
<1>11. Bounded'
  BY <1>4, <1>9, Sizes DEF Bounded
<1>12. SlotOwned' /\ BusyIsQueued'
  BY <1>2, <1>5, <1>7, <1>8 DEF SlotOwned, BusyIsQueued, slotVars
<1>13. ASSUME NEW c \in Cursors, Queued(c)', Entry(c)'.kind = "ring"
       PROVE  /\ Dist(Entry(c)'.data, pkt_ring_tail') >= 1
              /\ Dist(Entry(c)'.data, pkt_ring_tail') <= Dist(c, out_tail') + Backlog'
              /\ Dist(Entry(c)'.data, pkt_ring_tail') + frame_left' <= PKT_RING_SIZE
              /\ pkt_ring'[RSlot(Entry(c)'.data)] = Entry(c)'.pkt
  <2>1. CASE c = out_tail
    <3>1. Entry(c)' = e
      BY <1>8, <2>1
    <3>2. Dist(pkt_ring_tail, pkt_ring_tail') = 1
      <4>1. Dist(pkt_ring_tail, pkt_ring_tail) = 0
        BY <1>1, DistType
      <4> QED
        BY <1>1, <4>1, DistGrows, Sizes
    <3>3. frame_left <= PKT_RING_SIZE
      BY <1>1, <1>9 DEF FrameRoom
    <3>4. pkt_ring'[RSlot(pkt_ring_tail)] = p
      BY <1>1
    <3> QED
      BY <1>1, <1>2, <1>4, <1>9, <2>1, <3>1, <3>2, <3>3, <3>4, Sizes
  <2>2. CASE c # out_tail
    <3>1. /\ Queued(c) /\ Entry(c)' = Entry(c) /\ Entry(c).kind = "ring"
          /\ Dist(c, out_tail') = Dist(c, out_tail) + 1
      BY <1>5, <1>7, <1>13, <2>2
    <3>2. Entry(c).data \in Cursors /\ RSlot(Entry(c).data) \in 0..(PKT_RING_SIZE - 1)
      BY <3>1, EntryFacts, SlotTypes
    <3>3. Dist(Entry(c).data, pkt_ring_tail) \in Nat /\ Dist(c, out_tail) \in Nat
      BY <1>1, <3>2, DistType
    <3>4. /\ RSlot(Entry(c).data) # RSlot(pkt_ring_tail)
          /\ Dist(Entry(c).data, pkt_ring_tail') = Dist(Entry(c).data, pkt_ring_tail) + 1
      BY <3>1, RingWriteFacts
    <3>5. /\ Dist(Entry(c).data, pkt_ring_tail) <= Dist(c, out_tail) + Backlog
          /\ Dist(Entry(c).data, pkt_ring_tail) + frame_left <= PKT_RING_SIZE
          /\ pkt_ring[RSlot(Entry(c).data)] = Entry(c).pkt
      BY <3>1 DEF RingLag, FrameRoom, QueuedIntact
    <3>6. pkt_ring'[RSlot(Entry(c).data)] = Entry(c).pkt
      BY <1>1, <3>2, <3>4, <3>5
    <3> QED
      BY <1>1, <1>9, <3>1, <3>3, <3>4, <3>5, <3>6, Sizes
  <2> QED
    BY <2>1, <2>2
<1>14. RingLag'
  BY <1>13 DEF RingLag
<1>15. FrameRoom'
  <2>1. Backlog' + frame_left' <= PKT_RING_SIZE
    BY <1>1, <1>9, Sizes DEF FrameRoom
  <2> QED
    BY <1>13, <2>1 DEF FrameRoom
<1>16. FrameFits'
  <2>1. Used \in Nat /\ Used + frame_left + fec_budget <= OUT_QUEUE_SIZE
    BY <1>1, DistType DEF FrameFits, Used
  <2>2. Used' + frame_left' + fec_budget' <= OUT_QUEUE_SIZE
    BY <1>1, <1>4, <2>1, Sizes
  <2> QED
    BY <2>2 DEF FrameFits
<1>17. WrapIsOwn'
  BY <1>5, <1>6, <1>7, <1>8 DEF WrapIsOwn
<1>18. QueuedIntact'
  <2>1. ASSUME NEW c \in Cursors, Queued(c)', Entry(c)'.kind = "slot"
        PROVE  slot_buf'[Entry(c)'.data] = Entry(c)'.pkt
    BY <1>2, <1>5, <1>7, <1>8, <2>1 DEF QueuedIntact, slotVars
  <2> QED
    BY <1>9, <1>13, <2>1 DEF QueuedIntact
<1> QED
  BY <1>10, <1>11, <1>12, <1>14, <1>15, <1>16, <1>17, <1>18

\* Whichever way a fragment goes; the queue never refuses it (FrameFits).
LEMMA VideoFragmentStep ==
  ASSUME IInv, NEW p \in Packets, NEW t \in BOOLEAN, VideoFragment(p, t) PROVE IInv'
<1>1. /\ frame_left > 0 /\ frame_left \in Nat /\ fec_budget \in Nat
      /\ pkt_ring' = [pkt_ring EXCEPT ![RSlot(pkt_ring_tail)] = p]
      /\ pkt_ring_tail' = Inc(pkt_ring_tail)
      /\ UNCHANGED <<pacing, slotVars, pacer_head>>
  BY DEF VideoFragment, IInv, TypeOK
<1>2. PICK g \in Nat : fec_budget' = g /\ g <= fec_budget
  BY <1>1 DEF VideoFragment
<1>3. CASE pacing
  <2>1. /\ committed' = [committed EXCEPT ![pkt_ring_tail] = p]
        /\ frame_left' = frame_left - 1 /\ UNCHANGED queueVars
    BY <1>3 DEF VideoFragment
  <2> QED
    BY <1>1, <1>2, <1>3, <2>1, PacedFragment
<1>4. CASE ~pacing
  <2>1. Used + frame_left + fec_budget <= OUT_QUEUE_SIZE /\ Used \in Nat
    BY <1>1, <1>4, DistType DEF IInv, TypeOK, FrameFits, Used
  <2>2. rtc_output_has_space
    BY <1>1, <2>1, Sizes DEF rtc_output_has_space
  <2>3. /\ Enqueue(FromRing(pkt_ring_tail, p, t))
        /\ frame_left' = frame_left - 1 /\ UNCHANGED committed
    BY <1>4, <2>2 DEF VideoFragment
  <2> QED
    BY <1>1, <1>2, <1>4, <2>2, <2>3, QueuedFragment
<1> QED
  BY <1>3, <1>4

\* The frame ends early: nothing queued or paced is in the ring slot that was
\* written last.
LEMMA VideoStopStep ==
  ASSUME IInv, frame_left > 0, frame_left' = 0, fec_budget' = 0,
         pkt_ring' \in [0..(PKT_RING_SIZE - 1) -> Packets \cup {NoPacket}],
         \A i \in 0..(PKT_RING_SIZE - 1) : i # RSlot(pkt_ring_tail) => pkt_ring'[i] = pkt_ring[i],
         UNCHANGED <<pacing, queueVars, slotVars, pkt_ring_tail, pacer_head, committed>>
  PROVE  IInv'
<1> USE DEF IInv
<1>1. Used' = Used /\ \A c \in Cursors : (Queued(c)' <=> Queued(c)) /\ Entry(c)' = Entry(c)
  BY DEF Used, Queued, Entry, queueVars
<1>2. Backlog' = Backlog
  BY DEF Backlog
<1>3. \A k \in Cursors : Unreleased(k)' <=> Unreleased(k)
  BY <1>2 DEF Unreleased
<1>4. TypeOK'
  BY DEF TypeOK, queueVars, slotVars
<1>5. Bounded'
  BY <1>1, <1>2, <1>3 DEF Bounded
<1>6. SlotOwned' /\ BusyIsQueued' /\ WrapIsOwn'
  BY <1>1 DEF SlotOwned, BusyIsQueued, WrapIsOwn, queueVars, slotVars
<1>7. RingLag' /\ FrameRoom' /\ FrameFits'
  BY <1>1, <1>2 DEF RingLag, FrameRoom, FrameFits, queueVars
<1>8. ASSUME NEW c \in Cursors, Queued(c), Entry(c).kind = "ring"
      PROVE  pkt_ring'[RSlot(Entry(c).data)] = Entry(c).pkt
  <2>1. Entry(c).data \in Cursors /\ RSlot(Entry(c).data) # RSlot(pkt_ring_tail)
    BY <1>8, EntryFacts, RingWriteFacts
  <2> QED
    BY <1>8, <2>1, SlotTypes DEF QueuedIntact
<1>9. ASSUME NEW k \in Cursors, Unreleased(k) PROVE pkt_ring'[RSlot(k)] = committed[k]
  BY <1>9, RingWriteFacts, SlotTypes DEF QueuedIntact
<1>10. QueuedIntact'
  BY <1>1, <1>3, <1>8, <1>9 DEF QueuedIntact, slotVars
<1> QED
  BY <1>4, <1>5, <1>6, <1>7, <1>10

-----------------------------------------------------------------------------
(* Every step, and the theorems.                                            *)

\* No step breaks the inductive invariant.
LEMMA NextIInv == ASSUME IInv, [Next]_vars PROVE IInv'
<1>1. ASSUME NEW b \in TxSlots, NEW p \in Packets, NEW t \in BOOLEAN, TxSend(b, p, t)
      PROVE  IInv'
  <2>1. /\ b \in Managed \ in_use /\ QueueSlot(b, p, t)
        /\ UNCHANGED <<pacing, ringVars, frame_left>> /\ fec_budget' \in Nat
    BY <1>1 DEF TxSend, FreeTxSlots, Managed, frameVars, IInv, TypeOK
  <2>2. FrameFits'
    BY <1>1 DEF TxSend, FrameFits, frameVars
  <2> QED
    BY <2>1, <2>2, QueueSlotStep
<1>2. ASSUME NEW b \in TxSlots, TxAbort(b) PROVE IInv'
  <2>1. /\ b \in Managed \ in_use /\ slot_buf' = [slot_buf EXCEPT ![b] = NoPacket]
        /\ UNCHANGED <<pacing, queueVars, in_use, free_at, ringVars, frame_left>>
        /\ fec_budget' \in Nat
    BY <1>2 DEF TxAbort, FreeTxSlots, Managed, frameVars, IInv, TypeOK
  <2>2. FrameFits'
    BY <1>2 DEF TxAbort, FrameFits, frameVars
  <2> QED
    BY <2>1, <2>2, ScribbleStep
<1>3. ASSUME NEW i \in 0..(PKT_RING_SIZE - 1), NEW b \in NackSlots, NEW t \in BOOLEAN,
             NackRetransmit(i, b, t)
      PROVE  IInv'
  <2>1. /\ b \in Managed \ in_use /\ QueueSlot(b, pkt_ring[i], t)
        /\ UNCHANGED <<pacing, ringVars, frame_left>> /\ fec_budget' \in Nat
    BY <1>3 DEF NackRetransmit, Managed, frameVars, IInv, TypeOK
  <2>2. pkt_ring[i] \in Packets
    BY <1>3 DEF NackRetransmit, IInv, TypeOK
  <2>3. FrameFits'
    BY <1>3 DEF NackRetransmit, FrameFits, frameVars
  <2> QED
    BY <2>1, <2>2, <2>3, QueueSlotStep
<1>4. ASSUME NEW b \in FecSlots, NEW p \in Packets, NEW t \in BOOLEAN, FecCommit(b, p, t)
      PROVE  IInv'
  <2>1. /\ b \in Managed \ in_use /\ QueueSlot(b, p, t)
        /\ UNCHANGED <<pacing, ringVars, frame_left>>
        /\ fec_budget' = IF rtc_output_has_space THEN fec_budget - 1 ELSE fec_budget
        /\ frame_left > 0 /\ fec_budget > 0
    BY <1>4 DEF FecCommit, Managed
  <2>2. /\ Used \in Nat /\ fec_budget \in Nat /\ frame_left \in Nat
        /\ out_head \in Cursors /\ out_tail \in Cursors
    BY DistType DEF IInv, TypeOK, Used
  <2>3. fec_budget' \in Nat
    BY <2>1, <2>2
  <2>4. ~pacing => Used + frame_left + fec_budget <= OUT_QUEUE_SIZE
    BY <2>1 DEF FrameFits, IInv
  <2>5. FrameFits'
    <3>1. CASE rtc_output_has_space
      <4>1. Enqueue(FromSlot(b, p, t)) /\ FromSlot(b, p, t) \in Entries
        BY <2>1, <3>1, EntryTypes DEF QueueSlot
      <4>2. Used' = Used + 1 /\ fec_budget' = fec_budget - 1 /\ frame_left' = frame_left
        BY <2>1, <3>1, <4>1, EnqueueFacts DEF IInv
      <4>3. ~pacing => Used' + frame_left' + fec_budget' <= OUT_QUEUE_SIZE
        BY <2>2, <2>4, <4>2, Sizes
      <4> QED
        BY <2>1, <4>3 DEF FrameFits
    <3>2. CASE ~rtc_output_has_space
      <4>1. Used' = Used /\ fec_budget' = fec_budget /\ frame_left' = frame_left
        BY <2>1, <3>2 DEF QueueSlot, queueVars, Used
      <4> QED
        BY <2>1, <2>4, <4>1 DEF FrameFits
    <3> QED
      BY <3>1, <3>2
  <2> QED
    BY <2>1, <2>3, <2>5, QueueSlotStep
<1>5. ASSUME NEW p \in Packets, VideoFail(p) PROVE IInv'
  <2>1. pkt_ring \in [0..(PKT_RING_SIZE - 1) -> Packets \cup {NoPacket}]
    BY DEF IInv, TypeOK
  <2>2. /\ pkt_ring' = [pkt_ring EXCEPT ![RSlot(pkt_ring_tail)] = p]
        /\ frame_left > 0 /\ frame_left' = 0 /\ fec_budget' = 0
        /\ UNCHANGED <<pacing, queueVars, slotVars, pkt_ring_tail, pacer_head, committed>>
    BY <1>5 DEF VideoFail
  <2>3. /\ pkt_ring' \in [0..(PKT_RING_SIZE - 1) -> Packets \cup {NoPacket}]
        /\ \A i \in 0..(PKT_RING_SIZE - 1) : i # RSlot(pkt_ring_tail) => pkt_ring'[i] = pkt_ring[i]
    BY <2>1, <2>2
  <2> QED
    BY <2>2, <2>3, VideoStopStep
<1>6. ASSUME VideoEnd PROVE IInv'
  <2>1. /\ pkt_ring' = pkt_ring
        /\ frame_left > 0 /\ frame_left' = 0 /\ fec_budget' = 0
        /\ UNCHANGED <<pacing, queueVars, slotVars, pkt_ring_tail, pacer_head, committed>>
    BY <1>6 DEF VideoEnd, ringVars
  <2>2. /\ pkt_ring' \in [0..(PKT_RING_SIZE - 1) -> Packets \cup {NoPacket}]
        /\ \A i \in 0..(PKT_RING_SIZE - 1) : i # RSlot(pkt_ring_tail) => pkt_ring'[i] = pkt_ring[i]
    BY <2>1 DEF IInv, TypeOK
  <2> QED
    BY <2>1, <2>2, VideoStopStep
<1>7. ASSUME UNCHANGED vars PROVE IInv'
  <2>1. UNCHANGED <<pacing, queueVars, slotVars, ringVars, frameVars>>
    BY <1>7 DEF vars
  <2>2. Used' = Used /\ \A c \in Cursors : (Queued(c)' <=> Queued(c)) /\ Entry(c)' = Entry(c)
    BY <2>1 DEF Used, Queued, Entry, queueVars
  <2>3. Backlog' = Backlog
    BY <2>1 DEF Backlog, ringVars
  <2>4. \A k \in Cursors : Unreleased(k)' <=> Unreleased(k)
    BY <2>1, <2>3 DEF Unreleased, ringVars
  <2>5. TypeOK'
    BY <2>1 DEF IInv, TypeOK, queueVars, slotVars, ringVars, frameVars
  <2>6. Bounded' /\ QueuedIntact'
    BY <2>1, <2>2, <2>3, <2>4 DEF IInv, Bounded, QueuedIntact, slotVars, ringVars
  <2>7. SlotOwned' /\ BusyIsQueued' /\ WrapIsOwn'
    BY <2>1, <2>2 DEF IInv, SlotOwned, BusyIsQueued, WrapIsOwn, queueVars, slotVars
  <2>8. RingLag' /\ FrameRoom' /\ FrameFits'
    BY <2>1, <2>2, <2>3 DEF IInv, RingLag, FrameRoom, FrameFits, queueVars, ringVars, frameVars
  <2> QED
    BY <2>5, <2>6, <2>7, <2>8 DEF IInv
<1> QED
  BY <1>1, <1>2, <1>3, <1>4, <1>5, <1>6, <1>7, EmitEventStep, PollOutputStep,
     PacerReleaseStep, SendVideoStep, VideoFragmentStep DEF Next

\* The inductive invariant holds in every state of every behaviour.
THEOREM Invariant == Spec => []IInv
<1>1. Init => IInv
  BY InitIInv
<1>2. IInv /\ [Next]_vars => IInv'
  BY NextIInv
<1> QED
  BY <1>1, <1>2, PTL DEF Spec

\* Type correctness of the output queue, the slots and the ring.
THEOREM TypeCorrect == Spec => []TypeOK
<1>1. IInv => TypeOK
  BY DEF IInv
<1> QED
  BY <1>1, Invariant, PTL

\* The lifetime contract of nanortc_output_t: no queued or paced packet is
\* overwritten before it is polled, for any queue, ring and slot pools.
THEOREM OutputStaysIntact == Spec => []QueuedIntact
<1>1. IInv => QueuedIntact
  BY DEF IInv
<1> QED
  BY <1>1, Invariant, PTL

\* A frame that nanortc_send_video admits finds room for each of its fragments.
THEOREM AdmittedFrameFits == Spec => []FrameFits
<1>1. IInv => FrameFits
  BY DEF IInv
<1> QED
  BY <1>1, Invariant, PTL

\* No managed slot leaks: a busy slot is always one that a queued entry frees.
THEOREM NoSlotLeak == Spec => []BusyIsQueued
<1>1. IInv => BusyIsQueued
  BY DEF IInv
<1> QED
  BY <1>1, Invariant, PTL

\* No output inherits the TURN flag of the entry that had its queue slot before.
THEOREM WrapFlagIsOwn == Spec => []WrapIsOwn
<1>1. IInv => WrapIsOwn
  BY DEF IInv
<1> QED
  BY <1>1, Invariant, PTL
=============================================================================
