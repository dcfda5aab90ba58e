------------------------------ MODULE SctpRecv ------------------------------
(***************************************************************************)
(* The receive half of an established SCTP association                     *)
(* (src/nano_sctp.c): the bounded table of received fragments, the byte    *)
(* pool they share, the cumulative TSN, FORWARD-TSN, reassembly and        *)
(* delivery.                                                               *)
(*                                                                         *)
(* The peer is any conforming sender: it has cut the messages Msgs into    *)
(* chunks with consecutive TSNs, and may abandon the messages Abandonable. *)
(* Between the peer and this endpoint every chunk may be lost, delayed,    *)
(* duplicated and reordered, so each may arrive at any time any number of  *)
(* times.                                                                  *)
(*                                                                         *)
(* A slot that is not valid holds no information the code reads, so its    *)
(* other fields are normalised (NoEntry).                                  *)
(***************************************************************************)
EXTENDS SctpTraffic

CONSTANTS
    MAX_RECV_GAP,       \* NANORTC_SCTP_MAX_RECV_GAP: slots of the table
    RECV_GAP_BUF_SIZE,  \* bytes of the pool
    RESERVE,            \* NANORTC_SCTP_MTU - 28: payload of a full packet
    OUT_QUEUE_SIZE      \* queued control packets

ASSUME RecvSizes ==
    /\ MAX_RECV_GAP \in Nat \ {0, 1}
    /\ RECV_GAP_BUF_SIZE \in Nat \ {0}
    /\ MAX_MESSAGE_SIZE \in 1..RECV_GAP_BUF_SIZE
    /\ RESERVE \in 1..MAX_MESSAGE_SIZE
    /\ OUT_QUEUE_SIZE \in Nat \ {0}
    /\ TSN_MOD \in Nat /\ TSN_MOD > MAX_RECV_GAP
    /\ SSN_MOD \in Nat \ {0}
    /\ InitTsn \in 0..(TSN_MOD - 1) /\ InitSsn \in 0..(SSN_MOD - 1)

\* The peer's chunks take up less than half of the TSN space (2^31 chunks), so that
\* serial comparison tells old from new.
ASSUME TsnsFit ==
    /\ 2 * Len(Chunks) < TSN_MOD
    /\ Len(Chunks) + MAX_RECV_GAP < TSN_MOD

\* So do the ordered messages of a stream of the SSN space (2^15 messages).
ASSUME SsnsFit ==
    \A m \in Messages :
      2 * Cardinality({n \in Messages : Msgs[n].sid = Msgs[m].sid /\ ~Msgs[n].unordered}) < SSN_MOD

VARIABLES
    rx,         \* the receive fields of nano_sctp_t
    out_count,  \* out_tail - out_head: queued control packets
    gone,       \* the messages the peer has abandoned so far
    delivered   \* history: messages handed to the application, in order

vars == <<rx, out_count, gone, delivered>>

-----------------------------------------------------------------------------
(* nano_sctp_rx_entry_t and the receive fields of nano_sctp_t.              *)

Slots == 0..(MAX_RECV_GAP - 1)
SlotSeq == [i \in 1..MAX_RECV_GAP |-> i - 1]

NoEntry == [valid |-> FALSE, tsn |-> 0, msg |-> 0, sid |-> 0, ssn |-> 0,
            B |-> FALSE, E |-> FALSE, U |-> FALSE, off |-> 0, len |-> 0,
            delivered |-> FALSE, forwarded |-> FALSE]

Valid(s) == {i \in Slots : s.recv_gap[i].valid}
Live(s) == {i \in Valid(s) : ~s.recv_gap[i].delivered}

RxInit == [cumulative_tsn |-> Plus(InitTsn, -1, TSN_MOD),
           recv_gap |-> [i \in Slots |-> NoEntry], recv_gap_count |-> 0,
           recv_gap_buf |-> <<>>, recv_ssn |-> <<>>, sack_needed |-> FALSE]

\* nsctp_stream: the mapped streams are the domain of recv_ssn.
StreamKnown(s, sid) == sid \in DOMAIN s.recv_ssn
StreamFits(s, sid) == \/ StreamKnown(s, sid)
                      \/ Cardinality(DOMAIN s.recv_ssn) < MAX_DATACHANNELS
nsctp_stream(s, sid) ==
    IF StreamKnown(s, sid) THEN s
    ELSE [s EXCEPT !.recv_ssn = [x \in DOMAIN @ \cup {sid} |->
                                   IF x = sid THEN InitSsn ELSE @[x]]]

\* Has the cumulative TSN passed the entry, so that its marker is not needed?
PassedAlways(s, e) == TRUE
Passed(s, e) == TsnDiff(e.tsn, s.cumulative_tsn) <= 0

\* The pool without the len bytes after off.
CutOut(buf, off, len) == SubSeq(buf, 1, off) \o SubSeq(buf, off + len + 1, Len(buf))

\* One iteration of nsctp_rx_reclaim: take the bytes of a delivered entry out
\* of the pool, then free the slot once the cumulative TSN has passed it.
ReclaimSlot(s, i) ==
    LET g == s.recv_gap
        e == g[i]
        cut == [s EXCEPT
                  !.recv_gap_buf = CutOut(@, e.off, e.len),
                  !.sack_needed = TRUE,
                  !.recv_gap = [j \in Slots |->
                     IF j = i THEN [g[j] EXCEPT !.len = 0]
                     ELSE IF g[j].valid /\ g[j].off > e.off
                          THEN [g[j] EXCEPT !.off = g[j].off - e.len] ELSE g[j]]]
        compact == IF e.len > 0 THEN cut ELSE s
    IN IF ~(e.valid /\ e.delivered) THEN s
       ELSE IF Passed(s, e)
            THEN [compact EXCEPT !.recv_gap[i] = NoEntry,
                                 !.recv_gap_count = @ - 1]
            ELSE compact

nsctp_rx_reclaim(s) == FoldLeft(ReclaimSlot, s, SlotSeq)

\* How many TSNs after the cumulative one have been received without a gap.
RunPlusOne(s) == 1 + Max({n \in 0..MAX_RECV_GAP : \A d \in 1..n :
    \E i \in Valid(s) : s.recv_gap[i].tsn = Plus(s.cumulative_tsn, d, TSN_MOD)})
ContiguousRun(s) == Max({n \in 0..MAX_RECV_GAP : \A d \in 1..n :
    \E i \in Valid(s) : s.recv_gap[i].tsn = Plus(s.cumulative_tsn, d, TSN_MOD)})

\* nsctp_gap_drain: the cumulative TSN runs over every received TSN.
nsctp_gap_drain(s) ==
    nsctp_rx_reclaim([s EXCEPT !.cumulative_tsn = Plus(@, ContiguousRun(s), TSN_MOD)])

\* The len bytes after off rotated down to position pos.
RotateDown(buf, pos, off, len) ==
    SubSeq(buf, 1, pos) \o SubSeq(buf, off + 1, off + len)
      \o SubSeq(buf, pos + 1, off) \o SubSeq(buf, off + len + 1, Len(buf))

MoveForgetsOthers(s, slot, pos) ==
    LET e == s.recv_gap[slot]
    IN IF e.off = pos \/ e.len = 0 THEN s
       ELSE [s EXCEPT
              !.recv_gap_buf = RotateDown(@, pos, e.off, e.len),
              !.recv_gap[slot].off = pos]

\* nsctp_rx_move: rotate the bytes of a slot down to position pos.
nsctp_rx_move(s, slot, pos) ==
    LET g == s.recv_gap
        e == g[slot]
    IN IF e.off = pos \/ e.len = 0 THEN s
       ELSE [s EXCEPT
              !.recv_gap_buf = RotateDown(@, pos, e.off, e.len),
              !.recv_gap = [j \in Slots |->
                 IF j = slot THEN [g[j] EXCEPT !.off = pos]
                 ELSE IF g[j].valid /\ pos <= g[j].off /\ g[j].off < e.off
                      THEN [g[j] EXCEPT !.off = g[j].off + e.len] ELSE g[j]]]

nsctp_fragments_follow(a, b) ==
    /\ b.tsn = Plus(a.tsn, 1, TSN_MOD)
    /\ a.sid = b.sid /\ a.ssn = b.ssn /\ a.msg = b.msg /\ a.U = b.U
    /\ ~a.E /\ ~b.B

\* One merge of nsctp_rx_merge: the first pair of slots that continue each
\* other. A pair too long for a message stops the merging (an error return).
MergeOnce(s) ==
    LET g == s.recv_gap
        pairs == {p \in Live(s) \X Live(s) :
                    /\ TsnDiff(g[p[2]].tsn, s.cumulative_tsn) <= 0
                    /\ nsctp_fragments_follow(g[p[1]], g[p[2]])}
    IN IF pairs = {} THEN s
       ELSE LET i == Min({p[1] : p \in pairs})
                j == Min({p[2] : p \in {q \in pairs : q[1] = i}})
                moved == nsctp_rx_move(nsctp_rx_move(s, i, 0), j, g[i].len)
                joined == [moved.recv_gap[i] EXCEPT
                             !.len = g[i].len + g[j].len, !.tsn = g[j].tsn, !.E = g[j].E,
                             !.forwarded = g[i].forwarded \/ g[j].forwarded]
            IN IF g[i].len + g[j].len > MAX_MESSAGE_SIZE THEN s
               ELSE [moved EXCEPT !.recv_gap[i] = joined, !.recv_gap[j] = NoEntry,
                                  !.recv_gap_count = @ - 1]

nsctp_rx_merge(s) ==
    LET merged[n \in 0..MAX_RECV_GAP] ==
          IF n = 0 THEN s ELSE MergeOnce(merged[n - 1])
    IN merged[MAX_RECV_GAP]

-----------------------------------------------------------------------------
(* nsctp_handle_data_chunk: what each early return leaves behind.           *)

Duplicate(s, tsn) == \E i \in Valid(s) : s.recv_gap[i].tsn = tsn

\* A continuation that contradicts its predecessor, or outgrows a message.
BadContinuation(s, c, tsn) ==
    ~c.B /\ \E i \in Live(s) :
              LET p == s.recv_gap[i]
              IN /\ ~p.E /\ Plus(p.tsn, 1, TSN_MOD) = tsn
                 /\ \/ ~nsctp_fragments_follow(p, [tsn |-> tsn] @@ c)
                    \/ p.len + Len(c.payload) > MAX_MESSAGE_SIZE

\* Does the chunk leave a gap after the cumulative TSN?
NeverGap(s, tsn) == FALSE
IsGap(s, tsn) == tsn # Plus(s.cumulative_tsn, 1, TSN_MOD)

\* The receive window has no room (WOULD_BLOCK: the peer will retransmit).
NoRoom(s, c, tsn) ==
    LET gap == IsGap(s, tsn)
        reserve == IF gap THEN RESERVE ELSE 0
        free == RECV_GAP_BUF_SIZE - Len(s.recv_gap_buf)
    IN \/ Valid(s) = Slots
       \/ gap /\ s.recv_gap_count >= MAX_RECV_GAP - 1
       \/ free < reserve
       \/ Len(c.payload) > free - reserve

\* Store the chunk in the last free slot, its bytes at the end of the pool.
Store(s, c, tsn) ==
    LET slot == Max(Slots \ Valid(s))
        e == [NoEntry EXCEPT !.valid = TRUE, !.tsn = tsn, !.msg = c.msg,
                             !.sid = c.sid, !.ssn = c.ssn, !.B = c.B, !.E = c.E,
                             !.U = c.U, !.off = Len(s.recv_gap_buf),
                             !.len = Len(c.payload)]
    IN [nsctp_stream(s, c.sid) EXCEPT
          !.recv_gap_buf = @ \o c.payload,
          !.recv_gap[slot] = e, !.recv_gap_count = @ + 1]

nsctp_handle_data_chunk(s, c, tsn) ==
    LET s1 == [s EXCEPT !.sack_needed = TRUE]
        s2 == nsctp_rx_reclaim(s1)
    IN IF Len(c.payload) > MAX_MESSAGE_SIZE THEN s
       ELSE IF TsnDiff(tsn, s.cumulative_tsn) <= 0 THEN s1
       ELSE IF \/ Duplicate(s2, tsn)
               \/ BadContinuation(s2, c, tsn)
               \/ NoRoom(s2, c, tsn)
               \/ ~StreamFits(s2, c.sid)
            THEN s2
       ELSE nsctp_rx_merge(nsctp_gap_drain(Store(s2, c, tsn)))

-----------------------------------------------------------------------------
(* nsctp_handle_forward_tsn.                                                *)

DropAllBelow(s, new_tsn) ==
    [s EXCEPT !.recv_gap = [i \in Slots |->
        IF @[i].valid /\ TsnDiff(@[i].tsn, new_tsn) <= 0
        THEN [@[i] EXCEPT !.delivered = TRUE] ELSE @[i]]]

\* Fragments stranded below the new cumulative TSN are dropped.
DropStranded(s, new_tsn) ==
    [s EXCEPT !.recv_gap = [i \in Slots |->
        IF /\ @[i].valid /\ TsnDiff(@[i].tsn, new_tsn) <= 0
           /\ ~(@[i].B /\ @[i].E)
        THEN [@[i] EXCEPT !.delivered = TRUE] ELSE @[i]]]

\* One <<sid, ssn>> pair of the chunk: release the skipped sequence numbers.
ForwardStream(s0, pair) ==
    LET sid == pair[1]
        ssn == pair[2]
        s == nsctp_stream(s0, sid)
    IN IF SsnDiff(ssn, s.recv_ssn[sid]) < 0 THEN s
       ELSE [s EXCEPT
              !.recv_gap = [i \in Slots |->
                 IF /\ @[i].valid /\ @[i].sid = sid /\ ~@[i].U
                    /\ SsnDiff(@[i].ssn, ssn) <= 0
                 THEN [@[i] EXCEPT !.forwarded = TRUE] ELSE @[i]],
              !.recv_ssn[sid] = Plus(ssn, 1, SSN_MOD)]

nsctp_handle_forward_tsn(s, new_tsn, pairs) ==
    LET s1 == [s EXCEPT !.sack_needed = TRUE]
        s2 == nsctp_rx_merge([s1 EXCEPT !.cumulative_tsn = new_tsn])
    IN IF TsnDiff(new_tsn, s.cumulative_tsn) <= 0 THEN s1
       ELSE nsctp_gap_drain(FoldLeft(ForwardStream, DropStranded(s2, new_tsn), pairs))

-----------------------------------------------------------------------------
(* nsctp_poll_delivery.                                                     *)

\* The slots that hold the fragments of the message starting in slot i, in
\* order, as far as they are contiguous.
Parts(s, i) ==
    LET g == s.recv_gap
        At(n) == {j \in Live(s) : g[j].tsn = Plus(g[i].tsn, n, TSN_MOD)}
        IsEnd(n) == At(n) # {} /\ g[Min(At(n))].E
        last == {n \in 0..(MAX_RECV_GAP - 1) :
                   IsEnd(n) /\ \A d \in 0..n : At(d) # {} /\ (d < n => ~IsEnd(d))}
    IN IF last = {} THEN <<>>
       ELSE [k \in 1..(Max(last) + 1) |-> Min(At(k - 1))]
ForwardedFirst(s, i) ==
    LET e == s.recv_gap[i]
    IN \/ e.U
       \/ e.forwarded
       \/ StreamKnown(s, e.sid) /\ e.ssn = s.recv_ssn[e.sid]

\* Is the message in slot i next on its stream? A message a FORWARD-TSN released
\* goes before every later one.
InSequence(s, i) ==
    LET e == s.recv_gap[i]
    IN \/ e.U
       \/ /\ e.forwarded \/ (StreamKnown(s, e.sid) /\ e.ssn = s.recv_ssn[e.sid])
          /\ ~ \E j \in Live(s) :
                 /\ s.recv_gap[j].sid = e.sid /\ s.recv_gap[j].forwarded
                 /\ SsnDiff(s.recv_gap[j].ssn, e.ssn) < 0

Deliverable(s) == {i \in Live(s) : /\ s.recv_gap[i].B
                                   /\ InSequence(s, i)
                                   /\ Parts(s, i) # <<>>}

\* Gather the fragments at the front of the pool and mark them delivered.
GatherPart(acc, j) ==
    [st |-> [nsctp_rx_move(acc.st, j, acc.pos) EXCEPT !.recv_gap[j].delivered = TRUE],
     pos |-> acc.pos + acc.st.recv_gap[j].len]

Gather(s, parts) == FoldLeft(GatherPart, [st |-> s, pos |-> 0], parts)

\* The message handed out and the state after it; i is the first deliverable
\* slot of the scan.
DeliverFrom(s, i) ==
    LET e == s.recv_gap[i]
        g == Gather(s, Parts(s, i))
        next == IF e.U \/ e.forwarded THEN g.st
                ELSE [g.st EXCEPT !.recv_ssn[e.sid] = Plus(@, 1, SSN_MOD)]
    IN [st |-> next,
        message |-> [msg |-> e.msg, sid |-> e.sid,
                     data |-> SubSeq(next.recv_gap_buf, 1, g.pos)]]

-----------------------------------------------------------------------------
Init == /\ rx = RxInit
        /\ out_count = 0
        /\ gone = {}
        /\ delivered = <<>>

OutFullLate == out_count > OUT_QUEUE_SIZE
nsctp_out_full == out_count >= OUT_QUEUE_SIZE

\* The end of nsctp_handle_data: queue a SACK if one is due and there is room.
QueueSack(s) ==
    IF s.sack_needed /\ ~nsctp_out_full
    THEN /\ rx' = [s EXCEPT !.sack_needed = FALSE]
         /\ out_count' = out_count + 1
    ELSE rx' = s /\ UNCHANGED out_count

\* nsctp_handle_data with the DATA chunk c. Error returns leave the SACK for the
\* next poll; a refused chunk (WOULD_BLOCK) does not.
HandleChunk(c, tsn) ==
    LET s == nsctp_handle_data_chunk(rx, c, tsn)
        r == nsctp_rx_reclaim(rx)
        failed == /\ TsnDiff(tsn, rx.cumulative_tsn) > 0 /\ ~Duplicate(r, tsn)
                  /\ \/ BadContinuation(r, c, tsn)
                     \/ ~NoRoom(r, c, tsn) /\ ~StreamFits(r, c.sid)
    IN /\ IF failed THEN rx' = s /\ UNCHANGED out_count ELSE QueueSack(s)
       /\ UNCHANGED <<gone, delivered>>

\* Any chunk of the peer may arrive at any time.
HandleData(k) == HandleChunk(Chunks[k], TsnOf(k))

\* The <<stream, ssn>> pairs of a FORWARD-TSN for the messages h..m: the last ordered
\* message of each stream.
LastSkipped(h, m, sid) == Max({n \in h..m : Msgs[n].sid = sid /\ ~Msgs[n].unordered})
SkippedPairs(h, m) ==
    {<<Msgs[n].sid, Ssn(LastSkipped(h, m, Msgs[n].sid))>> : n \in {x \in h..m : ~Msgs[x].unordered}}

\* nsctp_handle_data with a FORWARD-TSN for the messages h..m. The peer's send
\* queue starts at h, so everything before h has been acknowledged, and it has
\* abandoned h..m (nsctp_forward_output). It may list the streams in any order.
HandleForwardTsn(h, m) ==
    /\ h <= m /\ h..m \subseteq gone
    /\ TsnDiff(TsnOf(FirstChunk(h)), rx.cumulative_tsn) <= 1
    /\ \E pairs \in SetToSeqs(SkippedPairs(h, m)) :
         QueueSack(nsctp_handle_forward_tsn(rx, TsnOf(LastChunk(m)), pairs))
    /\ UNCHANGED <<gone, delivered>>

\* The peer gives messages up, whatever it knows of their arrival.
PeerAbandon(given) ==
    /\ given # {} /\ given \subseteq Abandonable \ gone
    /\ gone' = gone \cup given
    /\ UNCHANGED <<rx, out_count, delivered>>

\* nsctp_poll_delivery, called by nanortc_poll_output.
PollDelivery ==
    LET s == nsctp_rx_reclaim(rx)
    IN /\ IF Deliverable(s) = {}
          THEN rx' = s /\ UNCHANGED delivered
          ELSE LET d == DeliverFrom(s, Min(Deliverable(s)))
               IN rx' = d.st /\ delivered' = Append(delivered, d.message)
       /\ UNCHANGED <<out_count, gone>>

\* The control-packet part of nsctp_poll_output.
PollOutput ==
    \/ /\ out_count > 0
       /\ out_count' = out_count - 1
       /\ UNCHANGED <<rx, gone, delivered>>
    \/ /\ out_count = 0 /\ rx.sack_needed
       /\ rx' = [rx EXCEPT !.sack_needed = FALSE]
       /\ UNCHANGED <<out_count, gone, delivered>>

Next == \/ \E k \in DOMAIN Chunks : HandleData(k)
        \/ \E h, m \in Messages : HandleForwardTsn(h, m)
        \/ \E given \in SUBSET Messages : PeerAbandon(given)
        \/ PollDelivery
        \/ PollOutput

Spec == Init /\ [][Next]_vars
-----------------------------------------------------------------------------
(* Properties.                                                              *)

\* Type invariant of the receive state.
TypeOK ==
    /\ rx.cumulative_tsn \in 0..(TSN_MOD - 1)
    /\ rx.recv_gap_count \in 0..MAX_RECV_GAP
    /\ rx.recv_gap_count = Cardinality(Valid(rx))
    /\ Len(rx.recv_gap_buf) <= RECV_GAP_BUF_SIZE
    /\ \A i \in Slots : DOMAIN rx.recv_gap[i] = DOMAIN NoEntry
    /\ \A sid \in DOMAIN rx.recv_ssn : rx.recv_ssn[sid] \in 0..(SSN_MOD - 1)
    /\ rx.sack_needed \in BOOLEAN
    /\ out_count \in 0..OUT_QUEUE_SIZE
    /\ gone \subseteq Messages

\* Every message handed to the application (nsctp_poll_delivery) carries
\* exactly the bytes the peer sent, however its fragments were reordered,
\* rotated within the pool and merged on the way.
Intact == \A n \in DOMAIN delivered :
            delivered[n].data = Bytes(delivered[n].msg)

\* nsctp_poll_delivery hands over no message twice, and the ordered messages of
\* a stream in the order of the peer, skipping only abandoned ones.
SameStream(x, m) ==
    Msgs[x].sid = Msgs[m].sid /\ ~Msgs[x].unordered /\ ~Msgs[m].unordered
DeliveredOnce ==
    \A n \in DOMAIN delivered : \A x \in 1..(n - 1) : delivered[x].msg # delivered[n].msg
DeliveredInOrder ==
    \A n \in DOMAIN delivered : \A x \in 1..(n - 1) :
       SameStream(delivered[x].msg, delivered[n].msg) => delivered[x].msg < delivered[n].msg
NoneSkipped ==
    \A n \in DOMAIN delivered : \A m \in 1..(delivered[n].msg - 1) :
       SameStream(m, delivered[n].msg) =>
          m \in gone \/ \E x \in 1..(n - 1) : delivered[x].msg = m
OrderedOnce == DeliveredOnce /\ DeliveredInOrder /\ NoneSkipped

\* Is chunk k acknowledged by a SACK built now (cumulative TSN or gap block)?
Acked(s, k) == \/ TsnDiff(TsnOf(k), s.cumulative_tsn) <= 0
               \/ Duplicate(s, TsnOf(k))

\* Are the bytes of chunk k in the pool, owned by an undelivered entry?
Buffered(s, k) ==
    \E i \in Live(s) :
      LET e == s.recv_gap[i]
          bytes == SubSeq(s.recv_gap_buf, e.off + 1, e.off + e.len)
      IN /\ e.msg = Chunks[k].msg
         /\ \A b \in Range(Chunks[k].payload) : b \in Range(bytes)

\* The table is also the delivery queue: what a SACK acknowledges is delivered,
\* held in the pool for delivery, or belongs to a message the peer gave up.
AckedIsKept ==
    \A k \in DOMAIN Chunks : Acked(rx, k) =>
       \/ \E n \in DOMAIN delivered : delivered[n].msg = Chunks[k].msg
       \/ Buffered(rx, k)
       \/ Chunks[k].msg \in gone

\* The entries of the table share the pool without overlap and leave no byte
\* of it unowned, so compaction (nsctp_rx_reclaim) can always get it back.
PoolTiled ==
    LET owned(i) == (rx.recv_gap[i].off + 1)..(rx.recv_gap[i].off + rx.recv_gap[i].len)
    IN /\ \A i, j \in Valid(rx) : i # j => owned(i) \cap owned(j) = {}
       /\ UNION {owned(i) : i \in Valid(rx)} = DOMAIN rx.recv_gap_buf

\* No step takes back the acknowledgement of a TSN, and the cumulative TSN
\* never moves backwards: delivered markers stay until it has passed them.
NoRenege ==
    [][/\ TsnDiff(rx'.cumulative_tsn, rx.cumulative_tsn) >= 0
       /\ \A k \in DOMAIN Chunks : Acked(rx, k) => Acked(rx', k)]_vars

\* A chunk the window can never accept again: the next one in sequence is
\* refused, nothing can be delivered and no marker can be freed.
Wedged ==
    LET s == nsctp_rx_reclaim(rx)
    IN /\ Deliverable(s) = {}
       /\ \E k \in DOMAIN Chunks :
            /\ TsnOf(k) = Plus(s.cumulative_tsn, 1, TSN_MOD)
            /\ NoRoom(s, Chunks[k], TsnOf(k))

\* nsctp_handle_data_chunk keeps a reserve for the missing leading packet so
\* that out-of-order data cannot permanently fill the receive window.
WindowReopens == ~Wedged

\* Reassembly completes (nsctp_rx_merge, nsctp_poll_delivery): once the
\* cumulative TSN has passed a message and nothing is left to deliver, the
\* message has been delivered or the peer gave it up.
PassedIsDelivered ==
    Deliverable(nsctp_rx_reclaim(rx)) = {} =>
      \A m \in Messages \ gone :
        (\A k \in DOMAIN Chunks :
           Chunks[k].msg = m => TsnDiff(TsnOf(k), rx.cumulative_tsn) <= 0)
          => \E n \in DOMAIN delivered : delivered[n].msg = m

\* Every message the peer does not abandon reaches the application, if the peer
\* keeps retransmitting what is not acknowledged and the application keeps
\* polling.
AllDelivered ==
    <>(\A m \in Messages \ Abandonable :
          \E n \in DOMAIN delivered : delivered[n].msg = m)

\* The peer's earliest outstanding chunk arrives.
LeadingArrives == \E k \in DOMAIN Chunks :
                    /\ TsnOf(k) = Plus(rx.cumulative_tsn, 1, TSN_MOD)
                    /\ HandleData(k)

\* The states in which LeadingArrives, PollDelivery and PollOutput change
\* something: what ENABLED <<A>>_vars says of them, in a form TLC evaluates fast.
LeadingUseful ==
    \E k \in DOMAIN Chunks :
      /\ TsnOf(k) = Plus(rx.cumulative_tsn, 1, TSN_MOD)
      /\ \/ out_count < OUT_QUEUE_SIZE
         \/ nsctp_handle_data_chunk(rx, Chunks[k], TsnOf(k)) # rx
DeliveryUseful == LET s == nsctp_rx_reclaim(rx) IN s # rx \/ Deliverable(s) # {}
OutputUseful == out_count > 0 \/ rx.sack_needed

\* Weak fairness: the peer retransmits its earliest outstanding chunk until it
\* is acknowledged, the network does not lose it for ever, and the driver polls
\* until nothing is left. The rest may arrive in any order or not at all.
FairSpec ==
    /\ Spec
    /\ <>[]LeadingUseful => []<><<LeadingArrives>>_vars
    /\ <>[]DeliveryUseful => []<><<PollDelivery>>_vars
    /\ <>[]OutputUseful => []<><<PollOutput>>_vars
=============================================================================
