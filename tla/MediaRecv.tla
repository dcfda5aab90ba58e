----------------------------- MODULE MediaRecv ------------------------------
(***************************************************************************)
(* The media receive path: SRTP's rollover estimate (src/nano_srtp.c), the *)
(* SSRC discovery, FEC, NACK and delivery of the RTP half of               *)
(* nano_rtc_media_handle_rtp_or_rtcp (src/nano_rtc_media.c), the           *)
(* depacketizers of src/nano_h264.c and src/nano_h265.c fed by their own   *)
(* packetizers, and the drain of the buffers of MediaBuffers by            *)
(* nanortc_poll_output. One track receives one stream after another, each  *)
(* under an SSRC of its own; the sender and the network are external.      *)
(* A payload is the set of the packets XORed into it: a packet received or *)
(* recovered as it was sent is a singleton, any other set is garbage.      *)
(***************************************************************************)
EXTENDS MediaBuffers, SequencesExt

CONSTANTS Builds,          \* by name: compile-time choices, codec and traffic of a track
          MTU,             \* NANORTC_VIDEO_MTU
          NAL_BUF,         \* NANORTC_VIDEO_NAL_BUF_SIZE
          MAX_SSRC_MAP,    \* NANORTC_MAX_SSRC_MAP
          GROUP,           \* NANORTC_FEC_GROUP_SIZE
          RING_COUNT_MOD,  \* fec_rx_n is a uint8_t: 2^8 in the code
          IN_FLIGHT,       \* bound of the model on the packets in flight
          PLI_INTERVAL     \* NANORTC_VIDEO_PLI_MIN_INTERVAL_MS

VARIABLES build,   \* the name of the build of this track
          sent,    \* how many packets the sender has sent
          copies,  \* how many more copies the network may make
          net,     \* packets in flight
          nacked,  \* packets the receiver has asked for again
          rx,      \* the receiver
          event    \* the last NANORTC_EV_MEDIA_DATA

vars == <<build, sent, copies, net, nacked, rx, event>>

-----------------------------------------------------------------------------
(* The packetizers: what one NAL or one access unit, given by its sizes,    *)
(* becomes on the wire.                                                     *)

Single(nal, len) == [type |-> "single", nal |-> nal, start |-> TRUE, end |-> TRUE, len |-> len]

Fragments(nal, data, max_frag) ==
    LET count == (data + max_frag - 1) \div max_frag
    IN [i \in 1 .. count |->
          [type |-> "fu", nal |-> nal, start |-> i = 1, end |-> i = count,
           len |-> IF i < count THEN max_frag ELSE data - (count - 1) * max_frag]]

h264_packetize(nal, len) ==
    IF len <= MTU THEN <<Single(nal, len)>> ELSE Fragments(nal, len - 1, MTU - 2)

h265_emit_fu(nal, len) == Fragments(nal, len - 2, MTU - 3)

\* The receiver takes the first NAL of an aggregate, so that is all it stands for.
h265_emit_ap(nal, len) == [Single(nal, len) EXCEPT !.type = "ap"]

\* The NALs from i that fit one aggregation packet, greedily, in 2 + (2 + len) + ...
AggregatedUpTo(au, i) ==
    LET bytes[j \in i .. Len(au)] ==
            2 + au[j] + (IF j = i THEN 2 ELSE bytes[j - 1])
    IN CHOOSE j \in i .. Len(au) :
          /\ \A k \in (i + 1) .. j : au[k] <= MTU /\ bytes[k] <= MTU
          /\ j < Len(au) => ~(au[j + 1] <= MTU /\ bytes[j + 1] <= MTU)

h265_packetize_au(nal, au) ==
    LET from[i \in 1 .. Len(au) + 1] ==
            IF i > Len(au) THEN <<>>
            ELSE LET j == AggregatedUpTo(au, i)
                 IN IF au[i] > MTU THEN h265_emit_fu(nal + i - 1, au[i]) \o from[i + 1]
                    ELSE IF j > i
                    THEN <<h265_emit_ap(nal + i - 1, au[i])>> \o from[j + 1]
                    ELSE <<Single(nal + i - 1, au[i])>> \o from[i + 1]
    IN from[1]

\* The packets of a stream of access units; their NALs are numbered through.
Packetized(b) ==
    LET first[a \in 1 .. Len(b.aus)] ==
            IF a = 1 THEN 1 ELSE first[a - 1] + Len(b.aus[a - 1])
        packets(a) == IF b.codec = "h265" THEN h265_packetize_au(first[a], b.aus[a])
                      ELSE FlattenSeq([i \in DOMAIN b.aus[a] |->
                               h264_packetize(first[a] + i - 1, b.aus[a][i])])
    IN FlattenSeq([a \in DOMAIN b.aus |-> packets(a)])

\* Packet id of the run of streams: its stream, its place there, its packet index.
Packets == [b \in DOMAIN Builds |-> Packetized(Builds[b])]
Size(b) == Len(Packets[b])
Stream(b, id) == 1 + ((id - 1) \div Size(b))
Place(b, id) == 1 + ((id - 1) % Size(b))
Index(b, id) == Builds[b].starts[Stream(b, id)] + Place(b, id) - 1
SeqNo(b, id) == Index(b, id) % SEQ_MOD
Payload(b, ids) == IF Cardinality(ids) = 1
                   THEN Packets[b][Place(b, CHOOSE id \in ids : TRUE)]
                   ELSE Single(0, 1)
Total(b) == Len(Builds[b].starts) * Size(b)

\* What is in flight: media packets and FEC packets, which have their own SSRC.
Media(id, copy) == [fec |-> FALSE, ids |-> {id}, copy |-> copy]
Fec(ids) == [fec |-> TRUE, ids |-> ids, copy |-> 0]
Latest(p) == CHOOSE id \in p.ids : \A other \in p.ids : other <= id
Ssrc(p) == <<Stream(build, Latest(p)), p.fec>>
WireIndex(p) == IF p.fec THEN Latest(p) ELSE Index(build, Latest(p))
Rtp(p) == [ssrc |-> Ssrc(p), seq |-> WireIndex(p) % SEQ_MOD, roc |-> WireIndex(p) \div SEQ_MOD]

-----------------------------------------------------------------------------
(* SRTP: the rollover counter is not on the wire, the receiver estimates    *)
(* it, and a wrong estimate fails the authentication.                       *)

Quarter == SEQ_MOD \div 4

srtp_get_ssrc_state(table, ssrc) ==
    IF ssrc \in DOMAIN table \/ Cardinality(DOMAIN table) = MAX_SSRC_MAP THEN table
    ELSE table @@ (ssrc :> [roc |-> 0, seq_max |-> 0])

EagerRoc(s, seq) ==
    IF (s.seq_max # 0 \/ s.roc # 0) /\ Diff(seq, s.seq_max, SEQ_MOD) < 0 THEN s.roc + 1 ELSE s.roc

EstimatedRoc(s, seq) ==
    LET ahead == Diff(seq, s.seq_max, SEQ_MOD)
    IN IF s.seq_max = 0 /\ s.roc = 0 THEN s.roc
       ELSE IF ahead < -Quarter THEN s.roc + 1
       ELSE IF ahead > Quarter /\ s.roc > 0 THEN s.roc - 1 ELSE s.roc

Authentic(table, rtp) ==
    /\ rtp.ssrc \in DOMAIN table
    /\ EstimatedRoc(table[rtp.ssrc], rtp.seq) = rtp.roc

\* The table after nano_srtp_unprotect, which adds the SSRC even of a packet it refuses.
nano_srtp_unprotect(srtp, rtp) ==
    LET table == srtp_get_ssrc_state(srtp, rtp.ssrc)
        s == table[rtp.ssrc]
        newer == \/ rtp.roc > s.roc
                 \/ rtp.roc = s.roc /\ Diff(rtp.seq, s.seq_max, SEQ_MOD) > 0
    IN IF Authentic(table, rtp) /\ newer
       THEN [table EXCEPT ![rtp.ssrc] = [roc |-> rtp.roc, seq_max |-> rtp.seq]]
       ELSE table

-----------------------------------------------------------------------------
(* The depacketizers. d is the reassembly of a fragmented NAL: its parts    *)
(* and its length. A result is the new d and the NAL completed, or None.    *)

depkt_init == [in_progress |-> FALSE, parts |-> <<>>, len |-> 0]
Pushed(d, nal) == [depkt |-> d, nal |-> nal]

\* A whole NAL, or an aggregate of which only the first is returned, ends a reassembly.
PushWhole(ids, p) ==
    Pushed(depkt_init, IF p.len > NAL_BUF THEN None ELSE <<ids>>)

PushFragment(d, ids, p, header) ==
    LET begun == IF p.start THEN [depkt_init EXCEPT !.len = header] ELSE d
        len == begun.len + p.len
        grown == [in_progress |-> ~p.end, parts |-> Append(begun.parts, ids), len |-> len]
    IN IF ~p.start /\ ~d.in_progress THEN Pushed(d, None)
       ELSE IF len > NAL_BUF THEN Pushed(depkt_init, None)
       ELSE IF p.end THEN Pushed(depkt_init, grown.parts) ELSE Pushed(grown, None)

h264_depkt_push(d, ids, p) ==
    IF p.type = "fu" THEN PushFragment(d, ids, p, 1) ELSE PushWhole(ids, p)

h265_depkt_push(d, ids, p) ==
    IF p.type = "fu" THEN PushFragment(d, ids, p, 2) ELSE PushWhole(ids, p)

depkt_push(d, ids) == IF Builds[build].codec = "h265"
                      THEN h265_depkt_push(d, ids, Payload(build, ids))
                      ELSE h264_depkt_push(d, ids, Payload(build, ids))

-----------------------------------------------------------------------------
(* The video track. An event remembers the one before it.                   *)

\* A gap before the payload: remember it for the next event; ask for a keyframe unless
\* one was asked for within PLI_INTERVAL.
rtc_video_on_lost(r, lost) ==
    IF ~lost THEN r
    ELSE [r EXCEPT !.lost_pending = TRUE,
                   !.last_pli = IF @ = None \/ @ >= PLI_INTERVAL THEN 0 ELSE @]

\* The receiver and the event after one payload in order.
ForgetfulEvent(r, ev, ids) ==
    LET pushed == depkt_push(r.depkt, ids)
        after == [r EXCEPT !.depkt = pushed.depkt, !.lost_pending = FALSE]
    IN IF pushed.nal = None THEN [rx |-> after, ev |-> ev, done |-> FALSE]
       ELSE [rx |-> after, done |-> TRUE,
             ev |-> [parts |-> pushed.nal, contiguous |-> ~r.lost_pending, before |-> ev.parts]]

rtc_video_complete_event(r, ev, ids) ==
    LET pushed == depkt_push(r.depkt, ids)
        after == [r EXCEPT !.depkt = pushed.depkt]
    IN IF pushed.nal = None THEN [rx |-> after, ev |-> ev, done |-> FALSE]
       ELSE [rx |-> [after EXCEPT !.lost_pending = FALSE], done |-> TRUE,
             ev |-> [parts |-> pushed.nal, contiguous |-> ~r.lost_pending, before |-> ev.parts]]

rtc_video_deliver(r, ev, ids, lost) ==
    rtc_video_complete_event(rtc_video_on_lost(r, lost), ev, ids)

\* One call pops until a NAL is complete or nothing more can be popped.
Popping(s) ==
    IF s.done \/ ~CanPop(s.rx.reorder) THEN s
    ELSE rtc_video_deliver([s.rx EXCEPT !.reorder = reorder_pop(@)], s.ev,
                           Popped(s.rx.reorder).payload, Popped(s.rx.reorder).lost)
nano_rtc_media_reorder_produce(r, ev) ==
    LET after[n \in 0 .. REORDER_SLOTS] ==
            IF n = 0 THEN {[rx |-> r, ev |-> ev, done |-> FALSE]}
            ELSE {Popping(s) : s \in after[n - 1]}
    IN CHOOSE s \in after[REORDER_SLOTS] : TRUE

nano_rtc_media_audio_produce(r, ev) ==
    [rx |-> [r EXCEPT !.jitter = jitter_pop(r.jitter)],
     ev |-> IF CanPlay(r.jitter)
            THEN [parts |-> <<JitterSlot(r.jitter, First(r.jitter)).payload>>,
                  contiguous |-> TRUE, before |-> ev.parts]
            ELSE ev]

\* Which sequence numbers of the stream a set of packets carries.
Seqs(ids) == {SeqNo(build, id) : id \in ids}

\* The ring holds the last GROUP media packets, as long as its counter has not wrapped.
InRing(r) == {i \in 0 .. GROUP - 1 : i < r.ring_count}

\* fec_recover: the one member the ring lacks, from the FEC packet XORed with every ring
\* entry whose number is a member's.
fec_recover(r, fec) ==
    LET members == {i \in InRing(r) : Seqs(r.ring[i]) \subseteq Seqs(fec)}
        missing == Seqs(fec) \ UNION {Seqs(r.ring[i]) : i \in members}
        xor(acc, i) == IF i \in members
                       THEN (acc \cup r.ring[i]) \ (acc \cap r.ring[i]) ELSE acc
    IN IF Cardinality(missing) # 1 THEN None
       ELSE [seq |-> CHOOSE s \in missing : TRUE,
             ids |-> FoldLeft(xor, fec, [i \in 1 .. GROUP |-> i - 1])]

\* A recovered packet goes to the reorder buffer; else the FEC packet stays pending.
rtc_fec_try(r, fec) ==
    LET got == fec_recover(r, fec)
    IN IF got = None THEN r
       ELSE [r EXCEPT !.reorder = reorder_push(@, got.seq, got.ids), !.pending = {}]

rtc_fec_on_recv(r, fec) == rtc_fec_try([r EXCEPT !.pending = fec, !.protected = fec], fec)

rtc_fec_buffer_media(r, ids) ==
    LET kept == [r EXCEPT !.ring[r.ring_count % GROUP] = ids,
                          !.ring_count = (@ + 1) % RING_COUNT_MOD]
    IN IF ~Builds[build].fec THEN r
       ELSE IF r.pending = {} THEN kept ELSE rtc_fec_try(kept, r.pending)

rtc_fec_protects(r, seq) == Builds[build].fec /\ seq \in Seqs(r.protected)

\* The lost numbers a NACK names: at most 17, those a FEC packet covers left out.
NackOf(r, seq) ==
    IF r.nack_seq = None THEN {}
    ELSE {s \in {Plus(r.nack_seq, k, SEQ_MOD) :
                    k \in 1 .. (IF Diff(seq, r.nack_seq, SEQ_MOD) - 1 < 17
                                THEN Diff(seq, r.nack_seq, SEQ_MOD) - 1 ELSE 17)} :
            ~rtc_fec_protects(r, s)}

Later(last, seq) == IF last = None \/ Diff(seq, last, SEQ_MOD) > 0 THEN seq ELSE last
ForwardGap(last, seq) == last # None /\ Diff(seq, last, SEQ_MOD) > 1

\* The SSRC of a packet is mapped to the track by its payload type; a change of SSRC
\* starts the video state again, the jitter buffer keeps the old one.
Fresh == [srtp |-> <<>>, ssrc_map |-> {}, remote_ssrc |-> None,
          ring |-> [i \in 0 .. GROUP - 1 |-> {}], ring_count |-> 0,
          pending |-> {}, protected |-> {}, nack_seq |-> None, last_seq |-> None,
          reorder |-> reorder_init, jitter |-> jitter_init, depkt |-> depkt_init,
          lost_pending |-> FALSE, last_pli |-> None]

Reseeded(r) == [Fresh EXCEPT !.srtp = r.srtp, !.ssrc_map = r.ssrc_map,
                             !.jitter = r.jitter, !.ring = r.ring]

ssrc_map_register(map, ssrc) ==
    IF Cardinality(map) < MAX_SSRC_MAP THEN map \cup {ssrc} ELSE map

Discovered(r, ssrc) ==
    LET changed == Builds[build].kind = "video" /\ r.remote_ssrc \notin {None, ssrc}
    IN IF ssrc \in r.ssrc_map THEN r
       ELSE [(IF changed THEN Reseeded(r) ELSE r)
                EXCEPT !.ssrc_map = ssrc_map_register(@, ssrc), !.remote_ssrc = ssrc]

\* What the track does with a media packet, up to its delivery.
Tracked(r, seq, ids) ==
    IF Builds[build].kind = "audio" THEN [r EXCEPT !.jitter = jitter_push(@, seq, ids)]
    ELSE LET buffered == rtc_fec_buffer_media(r, ids)
             counted == [buffered EXCEPT !.nack_seq = IF Builds[build].nack THEN Later(@, seq) ELSE @]
         IN IF Builds[build].reorder
            THEN [counted EXCEPT !.reorder = reorder_push(@, seq, ids)]
            ELSE [counted EXCEPT !.last_seq = Later(@, seq)]

-----------------------------------------------------------------------------
Init == /\ build \in DOMAIN Builds
        /\ sent = 0 /\ net = {} /\ nacked = {}
        /\ copies = Builds[build].copies
        /\ rx = Fresh
        /\ event = [parts |-> <<>>, contiguous |-> FALSE, before |-> <<>>]

\* The sender's next packet, with the FEC packet of a group that it completes; either may
\* be lost. A stream starts once nothing of the one before is in flight.
Send ==
    LET id == sent + 1
        group == {g \in Stream(build, id) * Size(build) - Size(build) + 1 .. id :
                    (Place(build, g) - 1) \div GROUP = (Place(build, id) - 1) \div GROUP}
    IN /\ sent < Total(build) /\ Cardinality(net) < IN_FLIGHT
       /\ Place(build, id) = 1 => net = {}
       /\ sent' = id
       /\ \E got \in SUBSET ({Media(id, 1)} \cup
                             IF Builds[build].fec /\ Place(build, id) % GROUP = 0 THEN {Fec(group)} ELSE {}) :
            net' = net \cup got
       /\ UNCHANGED <<build, copies, nacked, rx, event>>

\* A packet the receiver asked for is sent again, unless its stream is over.
Retransmit(id) ==
    /\ Stream(build, id) = Stream(build, sent)
    /\ net' = net \cup {Media(id, 2)}
    /\ nacked' = nacked \ {id}
    /\ UNCHANGED <<build, sent, copies, rx, event>>

Duplicate(p) ==
    /\ copies > 0 /\ p.copy = 1
    /\ copies' = copies - 1
    /\ net' = net \cup {[p EXCEPT !.copy = 3]}
    /\ UNCHANGED <<build, sent, nacked, rx, event>>

\* Without a reorder buffer the network is one that keeps the order.
Next_in_flight == IF Builds[build].kind = "audio" \/ Builds[build].reorder THEN net
                  ELSE {p \in net : \A q \in net : Latest(p) <= Latest(q)}

\* The packets of a stream that a NACK asks for.
rtc_emit_nack(stream, seqs) ==
    {id \in 1 .. sent : Stream(build, id) = stream /\ SeqNo(build, id) \in seqs}

\* handle_input with an RTP packet.
nano_rtc_media_handle_rtp(p) ==
    \E r \in {[rx EXCEPT !.srtp = nano_srtp_unprotect(@, Rtp(p))]} :
        LET known == Discovered(r, Ssrc(p))
            seq == Rtp(p).seq
            video == Builds[build].kind = "video" /\ ~p.fec
        IN /\ net' = net \ {p}
           /\ IF ~Authentic(srtp_get_ssrc_state(rx.srtp, Ssrc(p)), Rtp(p))
              THEN rx' = r /\ UNCHANGED <<nacked, event>>
              ELSE IF p.fec THEN rx' = rtc_fec_on_recv(r, p.ids) /\ UNCHANGED <<nacked, event>>
              ELSE /\ nacked' = IF video /\ Builds[build].nack
                                THEN nacked \cup rtc_emit_nack(Stream(build, Latest(p)), NackOf(known, seq))
                                ELSE nacked
                   /\ \E tracked \in {Tracked(known, seq, p.ids)} :
                        IF video /\ ~Builds[build].reorder
                        THEN \E d \in {rtc_video_deliver(tracked, event, p.ids,
                                                         ForwardGap(known.last_seq, seq))} :
                                rx' = d.rx /\ event' = d.ev
                        ELSE rx' = tracked /\ UNCHANGED event
           /\ UNCHANGED <<build, sent, copies>>

\* nanortc_poll_output when its deadline (nano_rtc_media_*_next_timeout) is reached.
nano_rtc_media_reorder_next_timeout ==
    IF Builds[build].kind = "video" THEN reorder_next_timeout_ms(rx.reorder) ELSE None
next_timeout == IF Builds[build].kind = "audio" THEN jitter_next_timeout_ms(rx.jitter)
                ELSE nano_rtc_media_reorder_next_timeout
Poll ==
    /\ next_timeout = 0
    /\ \E d \in {IF Builds[build].kind = "audio" THEN nano_rtc_media_audio_produce(rx, event)
                 ELSE nano_rtc_media_reorder_produce(rx, event)} :
          rx' = d.rx /\ event' = d.ev
    /\ UNCHANGED <<build, sent, copies, net, nacked>>

\* Time passes for what is held, and for the interval between two requests.
Tick ==
    /\ next_timeout \notin {None, 0}
    /\ rx' = [rx EXCEPT !.reorder.slots = Aged(@, MAX_WAIT),
                        !.jitter.slots = Aged(@, DEPTH),
                        !.last_pli = IF @ = None THEN None
                                     ELSE IF @ < PLI_INTERVAL THEN @ + 1 ELSE @]
    /\ UNCHANGED <<build, sent, copies, net, nacked, event>>

Next == \/ Send \/ Poll \/ Tick
        \/ \E id \in nacked : Retransmit(id)
        \/ \E p \in net : Duplicate(p)
        \/ \E p \in Next_in_flight : nano_rtc_media_handle_rtp(p)

\* The application polls at the deadline it was given, and time passes: weak fairness of
\* Poll \/ Tick, written with the condition that enables it.
Fairness == []<>(next_timeout = None) \/ []<><<Poll \/ Tick>>_vars
Spec == Init /\ [][Next]_vars /\ Fairness

-----------------------------------------------------------------------------
(* Properties.                                                              *)

Ids(parts) == UNION {parts[i] : i \in DOMAIN parts}

\* The parts are the packets of one NAL, all of them and in order.
Whole(parts) ==
    \E first \in parts[1] :
        /\ parts = [i \in DOMAIN parts |-> {first + i - 1}]
        /\ Payload(build, {first}).start /\ Payload(build, parts[Len(parts)]).end
        /\ \A i \in DOMAIN parts : Payload(build, parts[i]).nal = Payload(build, {first}).nal

\* The packets of the NALs too large for the depacketizer, which drops them silently.
Oversize ==
    [b \in DOMAIN Builds |->
        {i \in DOMAIN Packets[b] :
            LET same == {j \in DOMAIN Packets[b] : Packets[b][j].nal = Packets[b][i].nal}
            IN FoldFunctionOnSet(LAMBDA x, y : x + y, 0, [j \in same |-> Packets[b][j].len], same)
                 >= NAL_BUF}]

\* The packets of the event's stream between the event before it and the event.
Between == {id \in 1 .. sent :
              /\ \A e \in Ids(event.parts) : id < e /\ Stream(build, id) = Stream(build, e)
              /\ \A b \in Ids(event.before) : id > b /\ Stream(build, id) = Stream(build, b)}

\* An event flagged contiguous ("no gaps since previous frame") carries one NAL whole,
\* and nothing the depacketizer could hold was left out between it and the event before
\* (rtc_video_complete_event, recv_lost_pending).
FramesIntact ==
    event.contiguous /\ Builds[build].kind = "video" =>
        /\ Whole(event.parts)
        /\ event.before # <<>> =>
              \A id \in Between : Place(build, id) \in Oversize[build]

\* However the network loses packets and, in the builds with a reorder or jitter buffer,
\* delays, reorders and copies them, the application gets each at most once and in the order
\* they were sent, across NALs, and across a change of SSRC that nothing of the old stream
\* outlives in the network (Send). A later packet of the old SSRC is still found by
\* ssrc_map_lookup and enters the buffers re-seeded for the new one (nano_rtc_media.c:1937):
\* the code does not keep the order then.
FramesInOrder ==
    /\ \A b \in Ids(event.before), e \in Ids(event.parts) : b < e
    /\ \A i, j \in DOMAIN event.parts :
          i < j => \A a \in event.parts[i], b \in event.parts[j] : a < b

\* SRTP refuses no packet in flight of an SSRC it already follows: the rollover counter it
\* would estimate is the sender's (nano_srtp_unprotect).
AuthenticAccepted ==
    \A p \in net : Ssrc(p) \in DOMAIN rx.srtp => Authentic(rx.srtp, Rtp(p))

\* A packet waiting behind a missing one does not wait for ever: the deadlines that
\* nanortc_next_timeout_ms reports empty both buffers.
BuffersDrain == <>[](Held(rx.reorder) = {} /\ Buffered(rx.jitter) = {})
=============================================================================
