----------------------------- MODULE Signalling -----------------------------
(***************************************************************************)
(* Two endpoints negotiate a session: tracks, offer and answer, trickled   *)
(* candidates, and the data channels that DCEP opens once they connect     *)
(* (nano_rtc_negotiate.c, nano_datachannel.c, the gathering and the data   *)
(* channel parts of nano_rtc.c, the track API of nano_rtc_media.c).        *)
(*                                                                         *)
(* Each endpoint is driven by a program: todo[p] is the sequence of API    *)
(* calls its application still makes.  The application's signalling        *)
(* channel (wire) keeps order and loses nothing; the SCTP association      *)
(* (sctp) orders the ordered messages of one stream, and loses only        *)
(* messages of partially reliable channels.                                *)
(***************************************************************************)
EXTENDS Sdp, Addr

CONSTANTS
  Programs,                \* the pairs of programs, [Peers -> Seq(API call)]
  MAX_LOCAL_CANDIDATES, MAX_ICE_CANDIDATES, MAX_DATACHANNELS,
  SEND_QUEUE               \* messages SCTP takes before it answers WOULD_BLOCK

VARIABLES
  todo,      \* [Peers -> Seq(API call)]
  rtc,       \* [Peers -> the nanortc_t of the peer]
  wire,      \* [Peers -> what the signalling channel carries to the peer]
  sctp,      \* [Peers -> messages of the association on their way to the peer]
  said,      \* the offer and the answer the peers agreed on last
  heard      \* [Peers -> the <<stream, sender's label>> its DATA events came from]

vars == <<todo, rtc, wire, sctp, said, heard>>

Peers == {"off", "ans"}
Other(p) == IF p = "off" THEN "ans" ELSE "off"

HOST == 0
SRFLX == 1
RELAY == 2

Unsaid == [setup |-> "none", ufrag |-> 0, blocks |-> <<>>, candidates |-> <<>>, eoc |-> FALSE]

\* A server, as the address it will report or relay for the peer.
NoServer == [addr |-> NoAddr, port |-> 0]

nanortc_init ==
  [state |-> "NEW", sdp |-> sdp_init, media |-> <<>>, channels |-> <<>>,
   ice_local |-> <<>>, ice_remote |-> <<>>, end_of_candidates |-> FALSE,
   ice_ufrag |-> 0, ice_remote_ufrag |-> 0,
   host_pending |-> {}, srflx_pending |-> FALSE, relay_pending |-> FALSE,
   stun_server |-> NoServer, turn_server |-> NoServer,
   stun_retries |-> 0, srflx_discovered |-> FALSE,
   dtls |-> FALSE, is_server |-> FALSE, negotiated |-> FALSE]

Init ==
  /\ todo \in Programs
  /\ rtc = [p \in Peers |-> nanortc_init]
  /\ wire = [p \in Peers |-> <<>>]
  /\ sctp = [p \in Peers |-> <<>>]
  /\ said = [offer |-> Unsaid, answer |-> Unsaid]
  /\ heard = [p \in Peers |-> {}]

\* The application of p is about to make the call op.
Calls(p, op) == todo[p] # <<>> /\ Head(todo[p]).op = op
Call(p) == Head(todo[p])
Returned(p) == todo' = [todo EXCEPT ![p] = Tail(@)]

Signal(p, msg) == [wire EXCEPT ![Other(p)] = Append(@, msg)]
Description(desc) == [is |-> "description", desc |-> desc]
Candidate(c) == [is |-> "candidate", text |-> c.text, port |-> c.port, type |-> c.type]

-----------------------------------------------------------------------------
(* Tracks. *)

DefaultPt(codec) ==
  CASE codec = "PCMU" -> 0 [] codec = "PCMA" -> 8 [] codec = "OPUS" -> 111
    [] codec = "H265" -> 98 [] OTHER -> 96

track_init(mid, kind, direction, codec) ==
  [mid |-> mid, kind |-> kind, direction |-> direction, codec |-> codec,
   payload_type |-> 0, twcc_ext_id |-> 0]

nanortc_add_track(p) ==
  /\ Calls(p, "add_track")
  /\ rtc' = [rtc EXCEPT ![p] =
       IF Len(@.media) >= MAX_MEDIA_TRACKS \/ Len(@.sdp.mlines) >= MAX_MEDIA_TRACKS THEN @
       ELSE [@ EXCEPT
               !.sdp = sdp_add_mline(@, Call(p).kind, Call(p).codec,
                                     DefaultPt(Call(p).codec), Call(p).direction),
               !.media = Append(@, track_init(rtc[p].sdp.mid_count, Call(p).kind,
                                              Call(p).direction, Call(p).codec))]]
  /\ Returned(p)
  /\ UNCHANGED <<wire, sctp, said, heard>>

\* One m-line applied to the track with its mid, which the answerer creates if there is none.
ApplyMline(r, i) ==
  LET ml == r.sdp.mlines[i]
      known == {k \in 1..Len(r.media) : r.media[k].mid = ml.mid}
      k == IF known = {} THEN Len(r.media) + 1 ELSE Min(known)
      media == IF known = {}
               THEN Append(r.media, track_init(ml.mid, ml.kind,
                             direction_complement(ml.remote_direction), ml.codec))
               ELSE r.media
      m == media[k]
      direction == IF ml.remote_direction # "sendrecv" \/ m.direction = "sendrecv"
                   THEN direction_complement(ml.remote_direction) ELSE m.direction
      pt == IF ml.kind = "video" /\ ml.pt # 0 THEN ml.pt ELSE ml.remote_pt
  IN IF known = {} /\ Len(r.media) >= MAX_MEDIA_TRACKS THEN r
     ELSE [r EXCEPT !.media = [media EXCEPT ![k] =
                       [m EXCEPT !.direction = direction,
                                 !.payload_type = IF pt # 0 THEN pt ELSE @,
                                 !.twcc_ext_id = IF ml.kind = "video" THEN ml.twcc_ext_id ELSE @]],
                    !.sdp.mlines[i] = [ml EXCEPT !.direction = direction,
                                         !.pt = IF pt # 0 THEN pt ELSE @]]

rtc_apply_negotiated_media(r) ==
  FoldLeft(ApplyMline, r, [i \in 1..Len(r.sdp.mlines) |-> i])

-----------------------------------------------------------------------------
(* Candidates. *)

\* An address that cannot be parsed has already been written to the SDP slot, uncounted.
nanortc_add_local_candidate(p) ==
  LET idx == Len(rtc[p].sdp.local_candidates) + 1
      addr == addr_parse_auto(Call(p).text)
      entry == [addr |-> addr, port |-> Call(p).port, type |-> HOST]
  IN /\ Calls(p, "add_local_candidate")
     /\ rtc' = [rtc EXCEPT ![p] =
          IF idx > MAX_LOCAL_CANDIDATES \/ addr = NoAddr THEN @
          ELSE [@ EXCEPT !.sdp.local_candidates =
                           Append(@, [text |-> Call(p).text, port |-> Call(p).port]),
                         !.ice_local = SubSeq(@, 1, idx - 1) \o <<entry>>,
                         !.host_pending = @ \cup {idx}]]
     /\ Returned(p)
     /\ UNCHANGED <<wire, sctp, said, heard>>

\* A known address only has its type raised; a full table drops the candidate.
nanortc_add_remote_candidate(r, c) ==
  LET addr == addr_parse_auto(c.text)
      same == {i \in 1..Len(r.ice_remote) :
                 r.ice_remote[i].addr = addr /\ r.ice_remote[i].port = c.port}
  IN IF addr = NoAddr THEN r
     ELSE IF same # {}
     THEN [r EXCEPT !.ice_remote[Min(same)].type = IF c.type > @ THEN c.type ELSE @]
     ELSE IF Len(r.ice_remote) >= MAX_ICE_CANDIDATES THEN r
     ELSE [r EXCEPT !.ice_remote = Append(@, [addr |-> addr, port |-> c.port, type |-> c.type])]

\* Candidates of a description are passed on as "<addr> <port>": without their type.
rtc_add_sdp_candidates(r) ==
  [FoldLeft(LAMBDA s, c : nanortc_add_remote_candidate(s, [c EXCEPT !.type = HOST]),
            r, r.sdp.remote_candidates)
     EXCEPT !.end_of_candidates = @ \/ r.sdp.end_of_candidates]

\* The next candidate the application has not been told of, hosts first.
nano_rtc_candidate_produce(p) ==
  LET r == rtc[p]
      i == Min(r.host_pending)
  IN /\ r.host_pending # {} \/ r.srflx_pending \/ r.relay_pending
     /\ IF r.host_pending # {}
        THEN /\ rtc' = [rtc EXCEPT ![p].host_pending = @ \ {i}]
             /\ wire' = Signal(p, Candidate(r.sdp.local_candidates[i] @@ [type |-> HOST]))
        ELSE IF r.srflx_pending
        THEN /\ rtc' = [rtc EXCEPT ![p].srflx_pending = FALSE]
             /\ wire' = Signal(p, Candidate(r.sdp.srflx @@ [type |-> SRFLX]))
        ELSE /\ rtc' = [rtc EXCEPT ![p].relay_pending = FALSE]
             /\ wire' = Signal(p, Candidate(r.sdp.relay @@ [type |-> RELAY]))
     /\ UNCHANGED <<todo, sctp, said, heard>>

\* A trickled candidate reaches the peer's application, which passes it on at once.
Trickled(p) ==
  /\ wire[p] # <<>> /\ Head(wire[p]).is = "candidate"
  /\ rtc' = [rtc EXCEPT ![p] = nanortc_add_remote_candidate(@, Head(wire[p]))]
  /\ wire' = [wire EXCEPT ![p] = Tail(@)]
  /\ UNCHANGED <<todo, sctp, said, heard>>

nanortc_end_of_candidates(p) ==
  /\ Calls(p, "end_of_candidates")
  /\ rtc' = [rtc EXCEPT ![p].end_of_candidates = TRUE, ![p].sdp.end_of_candidates = TRUE]
  /\ Returned(p)
  /\ UNCHANGED <<wire, sctp, said, heard>>

\* The first STUN and the first TURN server whose address can be parsed are used.  A TURN
\* server without credentials ends the call with an error; what came before it stays.
ApplyUrl(acc, url) ==
  LET turn == url.scheme = "turn" /\ acc.r.turn_server = NoServer
      stun == url.scheme = "stun" /\ acc.r.stun_server = NoServer
      found == addr_parse_auto(url.host) # NoAddr
  IN IF acc.failed THEN acc
     ELSE IF turn /\ ~url.credential THEN [acc EXCEPT !.failed = TRUE]
     ELSE IF turn /\ found THEN [acc EXCEPT !.r.turn_server = url.server]
     ELSE IF stun /\ found THEN [acc EXCEPT !.r.stun_server = url.server]
     ELSE acc

nanortc_set_ice_servers(p) ==
  /\ Calls(p, "set_ice_servers")
  /\ rtc' = [rtc EXCEPT ![p] =
       FoldLeft(ApplyUrl, [r |-> @, failed |-> FALSE], Call(p).urls).r]
  /\ Returned(p)
  /\ UNCHANGED <<wire, sctp, said, heard>>

\* Up to three Binding requests with the same transaction id ask the STUN server.
StunRequest(p) ==
  /\ rtc[p].stun_server # NoServer
  /\ ~rtc[p].srflx_discovered /\ rtc[p].stun_retries < 3
  /\ rtc' = [rtc EXCEPT ![p].stun_retries = @ + 1]
  /\ UNCHANGED <<todo, wire, sctp, said, heard>>

\* A new local candidate joins the checklist unless it is there already or the table is full.
AddGathered(table, entry) ==
  IF \/ Len(table) >= MAX_LOCAL_CANDIDATES
     \/ \E i \in 1..Len(table) : table[i].addr = entry.addr /\ table[i].port = entry.port
  THEN table ELSE Append(table, entry)

\* The answer to any of the requests: the address the server saw.
StunResponse(p) ==
  LET server == rtc[p].stun_server
  IN /\ rtc[p].stun_retries > 0 /\ ~rtc[p].srflx_discovered
     /\ rtc' = [rtc EXCEPT
          ![p].sdp.srflx = [text |-> addr_format(server.addr), port |-> server.port],
          ![p].srflx_discovered = TRUE,
          ![p].srflx_pending = TRUE,
          ![p].ice_local = AddGathered(@, [addr |-> server.addr, port |-> server.port, type |-> SRFLX])]
     /\ UNCHANGED <<todo, wire, sctp, said, heard>>

\* The TURN client reaches ALLOCATED: the relayed address is a local candidate too.
TurnAllocated(p) ==
  LET server == rtc[p].turn_server
  IN /\ server # NoServer /\ rtc[p].sdp.relay = Nothing
     /\ rtc' = [rtc EXCEPT
          ![p].sdp.relay = [text |-> addr_format(server.addr), port |-> server.port],
          ![p].relay_pending = TRUE,
          ![p].ice_local = AddGathered(@, [addr |-> server.addr, port |-> server.port, type |-> RELAY])]
     /\ UNCHANGED <<todo, wire, sctp, said, heard>>

-----------------------------------------------------------------------------
(* Offer and answer. *)

\* Fresh credentials, never used before by either peer.
rtc_generate_ice_credentials(p) ==
  LET old == rtc[p].sdp.local_ufrag
      new == IF old # 0 THEN old + 2 ELSE IF p = "off" THEN 1 ELSE 2
  IN [rtc[p] EXCEPT !.sdp.local_ufrag = new, !.ice_ufrag = new]

rtc_apply_remote_sdp(r) == [r EXCEPT !.ice_remote_ufrag = r.sdp.remote_ufrag]

\* The role is fixed by the first dtls_init; accept_answer may still change it.
DtlsInit(r, server) == IF r.dtls THEN r ELSE [r EXCEPT !.dtls = TRUE, !.is_server = server]

\* An offer that does not fit the caller's buffer has still replaced the credentials.
nanortc_create_offer(p) ==
  LET r == DtlsInit([rtc_generate_ice_credentials(p) EXCEPT !.sdp.local_setup = "actpass"], FALSE)
      generated == sdp_generate_answer(r.sdp)
  IN /\ Calls(p, "create_offer") /\ rtc[p].state = "NEW"
     /\ IF Call(p).room
        THEN /\ rtc' = [rtc EXCEPT ![p] = [r EXCEPT !.sdp = generated.sdp]]
             /\ wire' = Signal(p, Description(generated.desc))
        ELSE rtc' = [rtc EXCEPT ![p] = r] /\ wire' = wire
     /\ Returned(p)
     /\ UNCHANGED <<sctp, said, heard>>

\* A description has arrived for p, and the application passes it on.
Arrived(p) == wire[p] # <<>> /\ Head(wire[p]).is = "description"
Taken(p) == [wire EXCEPT ![p] = Tail(@)]

\* A failed parse leaves what it read behind; an answer that does not fit the buffer leaves
\* the tracks and the role settled.  The application may call again.
nanortc_accept_offer(p) ==
  LET offer == Head(wire[p]).desc
      parsed == sdp_parse(rtc_generate_ice_credentials(p).sdp, offer)
      read == [rtc_generate_ice_credentials(p) EXCEPT !.sdp = parsed.sdp]
      agreed == rtc_apply_negotiated_media(rtc_apply_remote_sdp(read))
      setup == IF parsed.sdp.remote_setup = "passive" THEN "active" ELSE "passive"
      ready == DtlsInit([agreed EXCEPT !.sdp.local_setup = setup], setup = "passive")
      generated == sdp_generate_answer(ready.sdp)
      done == rtc_add_sdp_candidates([ready EXCEPT !.sdp = generated.sdp, !.negotiated = TRUE])
  IN /\ Calls(p, "accept_offer") /\ Arrived(p) /\ rtc[p].state = "NEW"
     /\ \/ /\ ~parsed.ok
           /\ rtc' = [rtc EXCEPT ![p] = read]
           /\ wire' = Taken(p)
           /\ said' = said
        \/ /\ parsed.ok /\ ~Call(p).room
           /\ rtc' = [rtc EXCEPT ![p] = ready]
           /\ UNCHANGED <<wire, said>>
        \/ /\ parsed.ok /\ Call(p).room
           /\ rtc' = [rtc EXCEPT ![p] = done]
           /\ wire' = [Taken(p) EXCEPT ![Other(p)] = Append(@, Description(generated.desc))]
           /\ said' = [offer |-> offer, answer |-> generated.desc]
     /\ Returned(p)
     /\ UNCHANGED <<sctp, heard>>

nanortc_accept_answer(p) ==
  LET parsed == sdp_parse(rtc[p].sdp, Head(wire[p]).desc)
      read == [rtc[p] EXCEPT !.sdp = parsed.sdp]
      setup == IF parsed.sdp.remote_setup = "active" THEN "passive" ELSE "active"
      role == [rtc_apply_remote_sdp(read) EXCEPT !.sdp.local_setup = setup,
                                                 !.is_server = setup = "passive"]
      done == rtc_add_sdp_candidates(rtc_apply_negotiated_media(role))
  IN /\ Calls(p, "accept_answer") /\ Arrived(p) /\ rtc[p].state = "NEW"
     /\ rtc' = [rtc EXCEPT ![p] = IF parsed.ok THEN [done EXCEPT !.negotiated = TRUE] ELSE read]
     /\ wire' = Taken(p)
     /\ Returned(p)
     /\ UNCHANGED <<sctp, said, heard>>

\* A peer that is not this library offers a description of its own, and takes the answer.
ForeignOffer(p) ==
  /\ Calls(p, "foreign_offer")
  /\ wire' = Signal(p, Description(Call(p).desc))
  /\ Returned(p)
  /\ UNCHANGED <<rtc, sctp, said, heard>>

ForeignAnswer(p) ==
  /\ Calls(p, "foreign_answer") /\ Arrived(p)
  /\ wire' = Taken(p)
  /\ Returned(p)
  /\ UNCHANGED <<rtc, sctp, said, heard>>

\* ICE, DTLS and SCTP come up (the RtcSession module): p is CONNECTED.
Connect(p) ==
  /\ \A q \in Peers : rtc[q].negotiated
  /\ rtc[p].state = "NEW"
  /\ rtc' = [rtc EXCEPT ![p].state = "CONNECTED"]
  /\ UNCHANGED <<todo, wire, sctp, said, heard>>

-----------------------------------------------------------------------------
(* Data channels. *)

\* The live channel of a stream: 0 when there is none.
dc_find_channel(r, stream) ==
  LET live == {i \in 1..Len(r.channels) :
                 r.channels[i].stream_id = stream /\ r.channels[i].state # "CLOSED"}
  IN IF live = {} THEN 0 ELSE Min(live)

\* Both sides count from zero.
EvenStreams(r) ==
  LET used == {r.channels[i].stream_id : i \in 1..Len(r.channels)}
  IN Max({0} \cup {sid + 2 : sid \in used})

\* Even identifiers for the DTLS client, odd ones for the server, none used twice.
rtc_alloc_stream_id(r) ==
  LET base == IF r.is_server THEN 1 ELSE 0
      used == {r.channels[i].stream_id : i \in 1..Len(r.channels)}
  IN Max({base} \cup {sid + 2 : sid \in {u \in used : u % 2 = base}})

Channel(stream, state, label, ordered, rexmit, pending) ==
  [stream_id |-> stream, state |-> state, label |-> label, ordered |-> ordered,
   rexmit |-> rexmit, pending |-> pending]

Message(stream, is, ch, inorder, lossy) ==
  [stream_id |-> stream, is |-> is, label |-> ch.label, ordered |-> ch.ordered,
   rexmit |-> ch.rexmit, inorder |-> inorder, lossy |-> lossy]

\* A new channel with its OPEN waiting; a full table refuses it.
dc_open_options(r, stream, c) ==
  IF Len(r.channels) >= MAX_DATACHANNELS THEN r
  ELSE [r EXCEPT !.channels =
          Append(@, Channel(stream, "OPENING", c.label, c.ordered, c.rexmit, "open"))]

\* The first live channel with a DCEP message to send: 0 when there is none.
dc_pending_channel(r) ==
  LET waiting == {i \in 1..Len(r.channels) :
                    r.channels[i].pending # "none" /\ r.channels[i].state # "CLOSED"}
  IN IF waiting = {} THEN 0 ELSE Min(waiting)

\* The DCEP message of channel i, always ordered and reliable.
dc_peek_output(r, i) ==
  Message(r.channels[i].stream_id, r.channels[i].pending, r.channels[i], TRUE, FALSE)

dc_commit_output(r, stream) ==
  LET i == dc_find_channel(r, stream)
  IN IF i = 0 THEN r ELSE [r EXCEPT !.channels[i].pending = "none"]

\* The waiting DCEP message is committed whether SCTP took it or not.
AlwaysCommitted(r, queue) ==
  LET i == dc_pending_channel(r)
  IN IF i = 0 THEN [r |-> r, queue |-> queue]
     ELSE [r |-> dc_commit_output(r, r.channels[i].stream_id),
           queue |-> IF Len(queue) >= SEND_QUEUE THEN queue ELSE Append(queue, dc_peek_output(r, i))]

\* The first DCEP message that waits is handed to SCTP, and committed only when SCTP took it.
rtc_pump_dc_through_sctp(r, queue) ==
  LET i == dc_pending_channel(r)
  IN IF i = 0 \/ Len(queue) >= SEND_QUEUE THEN [r |-> r, queue |-> queue]
     ELSE [r |-> dc_commit_output(r, r.channels[i].stream_id),
           queue |-> Append(queue, dc_peek_output(r, i))]

\* The channel and its m-line are registered at once; DCEP starts when the peer is connected.
nanortc_create_datachannel(p) ==
  LET r == rtc[p]
      registered == IF r.sdp.has_datachannel THEN r
                    ELSE [r EXCEPT !.sdp.has_datachannel = TRUE,
                                   !.sdp.dc_mid = r.sdp.mid_count, !.sdp.mid_count = @ + 1]
      opened == dc_open_options(registered, rtc_alloc_stream_id(r), Call(p))
      pumped == rtc_pump_dc_through_sctp(opened, sctp[Other(p)])
  IN /\ Calls(p, "create_datachannel")
     /\ \/ /\ opened = registered \/ r.state # "CONNECTED"
           /\ rtc' = [rtc EXCEPT ![p] = opened]
           /\ sctp' = sctp
        \/ /\ opened # registered /\ r.state = "CONNECTED"
           /\ rtc' = [rtc EXCEPT ![p] = pumped.r]
           /\ sctp' = [sctp EXCEPT ![Other(p)] = pumped.queue]
     /\ Returned(p)
     /\ UNCHANGED <<wire, said, heard>>

\* A received packet or a timer tick moves one waiting DCEP message.
Pump(p) ==
  \E pumped \in {rtc_pump_dc_through_sctp(rtc[p], sctp[Other(p)])} :
    /\ rtc[p].state = "CONNECTED"
    /\ pumped.r # rtc[p]
    /\ rtc' = [rtc EXCEPT ![p] = pumped.r]
    /\ sctp' = [sctp EXCEPT ![Other(p)] = pumped.queue]
    /\ UNCHANGED <<todo, wire, said, heard>>

\* An OPEN for a known stream is acknowledged again; a full table refuses a new channel.
dc_handle_message(r, msg) ==
  LET i == dc_find_channel(r, msg.stream_id)
  IN CASE msg.is = "open" /\ i # 0 -> [r EXCEPT !.channels[i].pending = "ack"]
       [] msg.is = "open" /\ i = 0 /\ Len(r.channels) < MAX_DATACHANNELS ->
            [r EXCEPT !.channels = Append(@, Channel(msg.stream_id, "OPEN", msg.label,
                                                     msg.ordered, msg.rexmit, "ack"))]
       [] msg.is = "ack" /\ i # 0 ->
            [r EXCEPT !.channels[i].state = IF @ = "OPENING" THEN "OPEN" ELSE @]
       [] OTHER -> r

\* SCTP delivers a message, not before the earlier ordered messages of its stream.
Deliver(p) ==
  \E i \in 1..Len(sctp[p]) :
    LET msg == sctp[p][i]
    IN /\ rtc[p].state = "CONNECTED"
       /\ msg.inorder => \A j \in 1..(i - 1) :
            ~(sctp[p][j].inorder /\ sctp[p][j].stream_id = msg.stream_id)
       /\ rtc' = [rtc EXCEPT ![p] = dc_handle_message(@, msg)]
       /\ heard' = [heard EXCEPT ![p] = IF msg.is = "data"
                      THEN @ \cup {<<msg.stream_id, msg.label>>} ELSE @]
       /\ sctp' = [sctp EXCEPT ![p] = RemoveAt(@, i)]
       /\ UNCHANGED <<todo, wire, said>>

\* A message of a partially reliable channel is abandoned.
Abandon(p) ==
  \E i \in 1..Len(sctp[p]) :
    /\ sctp[p][i].lossy
    /\ sctp' = [sctp EXCEPT ![p] = RemoveAt(@, i)]
    /\ UNCHANGED <<todo, rtc, wire, said, heard>>

\* The live channel the application calls by this label: 0 when there is none.
Labelled(r, label) ==
  LET live == {i \in 1..Len(r.channels) :
                 r.channels[i].label = label /\ r.channels[i].state # "CLOSED"}
  IN IF live = {} THEN 0 ELSE Min(live)

\* Sending needs a connected session, an open channel and room in SCTP.
CanSend(r, i, queue) ==
  r.state = "CONNECTED" /\ i # 0 /\ r.channels[i].state = "OPEN" /\ Len(queue) < SEND_QUEUE

rtc_datachannel_send(p) ==
  LET i == Labelled(rtc[p], Call(p).label)
      ch == rtc[p].channels[i]
  IN /\ Calls(p, "datachannel_send")
     /\ sctp' = [sctp EXCEPT ![Other(p)] =
          IF CanSend(rtc[p], i, @)
          THEN Append(@, Message(ch.stream_id, "data", ch, ch.ordered, ch.rexmit # -1))
          ELSE @]
     /\ Returned(p)
     /\ UNCHANGED <<rtc, wire, said, heard>>

\* Closing is local: the peer is not told, and the entry is never used again.
nanortc_datachannel_close(p) ==
  LET i == Labelled(rtc[p], Call(p).label)
  IN /\ Calls(p, "datachannel_close")
     /\ rtc' = IF i = 0 THEN rtc ELSE [rtc EXCEPT ![p].channels[i].state = "CLOSED"]
     /\ Returned(p)
     /\ UNCHANGED <<wire, sctp, said, heard>>

-----------------------------------------------------------------------------
ApiCall(p) ==
  \/ nanortc_add_track(p) \/ nanortc_add_local_candidate(p) \/ nanortc_end_of_candidates(p)
  \/ nanortc_set_ice_servers(p)
  \/ nanortc_create_offer(p) \/ nanortc_accept_offer(p) \/ nanortc_accept_answer(p)
  \/ ForeignOffer(p) \/ ForeignAnswer(p)
  \/ nanortc_create_datachannel(p) \/ rtc_datachannel_send(p) \/ nanortc_datachannel_close(p)

Next ==
  \E p \in Peers :
    \/ ApiCall(p)
    \/ nano_rtc_candidate_produce(p) \/ Trickled(p)
    \/ StunRequest(p) \/ StunResponse(p) \/ TurnAllocated(p)
    \/ Connect(p) \/ Pump(p) \/ Deliver(p) \/ Abandon(p)

\* Once negotiated the session comes up, timers tick, and SCTP is reliable; applications
\* need not go on.
Fairness ==
  \A p \in Peers : WF_vars(Connect(p)) /\ WF_vars(Pump(p)) /\ WF_vars(Deliver(p))

Spec == Init /\ [][Next]_vars
FairSpec == Spec /\ Fairness

-----------------------------------------------------------------------------
(* Properties. *)

Sends(direction) == direction \in {"sendrecv", "sendonly"}
Receives(direction) == direction \in {"sendrecv", "recvonly"}

\* The codec a block maps a payload type to.
CodecOf(block, pt) ==
  {block.attrs[i].codec : i \in {k \in 1..Len(block.attrs) :
                                   block.attrs[k].is = "rtpmap" /\ block.attrs[k].pt = pt}}

\* The answer fits the offer block by block: the same kind and mid, a payload type that the
\* offer maps to the codec the answer names, and no direction the offerer did not agree to.
AnswerFits(offer, answer) ==
  /\ Len(answer.blocks) = Len(offer.blocks)
  /\ \A i \in 1..Len(answer.blocks) :
       LET o == offer.blocks[i]
           a == answer.blocks[i]
       IN /\ a.kind = o.kind /\ a.mid = o.mid
          /\ a.kind # "application" =>
               /\ CodecOf(a, a.pts[1]) # {}
               /\ CodecOf(a, a.pts[1]) = CodecOf(o, a.pts[1])
               /\ Sends(a.direction) => Receives(o.direction)
               /\ Receives(a.direction) => Sends(o.direction)

\* The tracks of p are what the answer says, seen from its side.
TracksFollow(p, answer) ==
  \A i \in 1..Len(answer.blocks) :
    LET a == answer.blocks[i]
        own == {k \in 1..Len(rtc[p].media) : rtc[p].media[k].mid = a.mid}
    IN a.kind # "application" =>
         /\ Cardinality(own) = 1
         /\ \A k \in own : LET m == rtc[p].media[k] IN
              /\ m.kind = a.kind
              /\ m.payload_type = a.pts[1]
              /\ m.direction = (IF p = "ans" THEN a.direction ELSE direction_complement(a.direction))
              /\ m.codec = "H265" <=> "H265" \in CodecOf(a, a.pts[1])

(* An answer fits the offer it was made for, and once a side has negotiated its tracks, its
   view of the peer's credentials and its DTLS role are those of the descriptions, also after
   calls that failed half way (nanortc_accept_offer, rtc_apply_negotiated_media, sdp_parse). *)
NegotiationAgrees ==
  /\ said.answer # Unsaid => AnswerFits(said.offer, said.answer)
  /\ \A p \in Peers : rtc[p].negotiated =>
       /\ TracksFollow(p, said.answer)
       /\ rtc[Other(p)].dtls => rtc[p].ice_remote_ufrag = rtc[Other(p)].ice_ufrag
       /\ (\A q \in Peers : rtc[q].negotiated) => rtc[p].is_server # rtc[Other(p)].is_server

\* The local candidates of p with the addresses and types the peer must end up with.
Gathered(p) ==
  LET s == rtc[p].sdp
  IN {[addr |-> addr_parse_auto(s.local_candidates[i].text), port |-> s.local_candidates[i].port,
       type |-> HOST, waiting |-> i \in rtc[p].host_pending] : i \in 1..Len(s.local_candidates)}
     \cup (IF s.srflx = Nothing THEN {}
           ELSE {[addr |-> rtc[p].stun_server.addr, port |-> s.srflx.port, type |-> SRFLX,
                  waiting |-> rtc[p].srflx_pending]})
     \cup (IF s.relay = Nothing THEN {}
           ELSE {[addr |-> rtc[p].turn_server.addr, port |-> s.relay.port, type |-> RELAY,
                  waiting |-> rtc[p].relay_pending]})

(* No candidate is lost between gathering and the peer's table: it waits to be announced, is on
   the signalling channel, or the peer holds its very address with at least its type, whatever
   text it travelled as and whether the description carried it too
   (nano_rtc_candidate_produce, nanortc_add_remote_candidate, addr_format, addr_parse_auto). *)
CandidatesArrive ==
  \A p \in Peers : \A c \in Gathered(p) :
    \/ c.waiting
    \/ \E i \in 1..Len(wire[Other(p)]) : LET m == wire[Other(p)][i] IN
         m.is = "candidate" /\ addr_parse_auto(m.text) = c.addr /\ m.port = c.port /\ m.type = c.type
    \/ \E i \in 1..Len(rtc[Other(p)].ice_remote) : LET e == rtc[Other(p)].ice_remote[i] IN
         e.addr = c.addr /\ e.port = c.port /\ e.type >= c.type

(* The two ends of a stream are the same channel, and data reaches an application only for a
   channel it has, under the label the sender gave it: with channels created by the offerer
   before and after the negotiation and by the answerer after nanortc_accept_offer, DCEP held
   back by SCTP, and unordered messages overtaking the handshake (rtc_alloc_stream_id,
   rtc_datachannel_send, dc_handle_message). Earlier the answerer does not know that it is to be
   the DTLS server, takes even ids as the offerer does (nano_rtc.c:1807), and the streams clash. *)
ChannelsAgree ==
  /\ \A i \in 1..Len(rtc["off"].channels), j \in 1..Len(rtc["ans"].channels) :
       LET a == rtc["off"].channels[i]
           b == rtc["ans"].channels[j]
       IN a.stream_id = b.stream_id =>
            a.label = b.label /\ a.ordered = b.ordered /\ a.rexmit = b.rexmit
  /\ \A p \in Peers : \A h \in heard[p] :
       \E i \in 1..Len(rtc[p].channels) :
          rtc[p].channels[i].stream_id = h[1] /\ rtc[p].channels[i].label = h[2]

\* Channel i of p is still opening, and nothing the applications did stands in its way.
Opening(p, i) ==
  LET own == rtc[p].channels
      far == rtc[Other(p)].channels
  IN /\ own[i].state = "OPENING"
     /\ rtc[p].state = "CONNECTED"
     /\ \/ Len(far) < MAX_DATACHANNELS
        \/ \E j \in 1..Len(far) : far[j].stream_id = own[i].stream_id
     /\ \A j \in 1..Len(far) : far[j].stream_id = own[i].stream_id => far[j].state # "CLOSED"

(* A channel that was created opens, unless an application closes it or the peer's table is
   full: no DCEP message is forgotten while SCTP pushes back (rtc_pump_dc_through_sctp). *)
ChannelsOpen ==
  <>[](\A p \in Peers : \A i \in 1..Len(rtc[p].channels) : ~Opening(p, i))
=============================================================================
