----------------------------- MODULE RtcSession -----------------------------
(***************************************************************************)
(* The life of a connection between two endpoints that both run this code: *)
(* offer and answer, ICE, DTLS, the SCTP handshake, CONNECTED, heartbeats, *)
(* loss of consent, disconnect and ICE restart (src/nano_rtc.c,            *)
(* src/nano_rtc_negotiate.c, src/nano_sctp.c).                             *)
(*                                                                         *)
(* ICE checks retransmit until they succeed and are a single step here.    *)
(* DTLS flights and SCTP control packets are modelled one by one: a record *)
(* arrives in any order, or is lost; an SCTP packet arrives at most once.  *)
(* What belongs to an earlier negotiation has no effect, so packets carry  *)
(* gen, the number of the offer their DTLS association belongs to. The     *)
(* handshake itself is the crypto library's: four flights, each repeated   *)
(* by a timer or when the one before it comes again. The ClientHello is    *)
(* one record, or two fragments in datagrams of their own, as browsers do. *)
(***************************************************************************)
EXTENDS Naturals, Sequences, FiniteSetsExt, Functions

CONSTANTS
    MAX_RESTARTS,   \* calls of nanortc_ice_restart per endpoint (model bound)
    OUT_QUEUE_SIZE, \* NANORTC_SCTP_OUT_QUEUE_SIZE
    FreeSlots,      \* how many transmit slots a call may find free
    Hellos          \* how the client sends its hello: {"hello", "fragments"}

ASSUME SessionSizes ==
    /\ MAX_RESTARTS \in Nat /\ OUT_QUEUE_SIZE \in Nat \ {0}
    /\ FreeSlots \subseteq Nat /\ OUT_QUEUE_SIZE \in FreeSlots
    /\ Hellos # {} /\ Hellos \subseteq {"hello", "fragments"}

VARIABLES
    rtc,        \* nanortc_t of each endpoint
    offer,      \* the number of the last offer, and of the last answer
    answer,
    net,        \* DTLS flights and SCTP packets under way
    connects,   \* history: the CONNECTED events of each endpoint since it last restarted
    restarts    \* how often each endpoint has restarted

vars == <<rtc, offer, answer, net, connects, restarts>>

Endpoints == {"offerer", "answerer"}
Other(e) == CHOOSE x \in Endpoints : x # e

\* nano_conn_state_t, in the order the code compares.
States == <<"new", "ice_connected", "dtls_handshaking", "dtls_connected",
            "sctp_connecting", "connected", "closed">>
Rank(s) == CHOOSE i \in DOMAIN States : States[i] = s

\* nanortc_init
Fresh == [state |-> "new", gen |-> 0, negotiated |-> FALSE,
          ice |-> "new", dtls |-> "none", is_server |-> FALSE,
          flight |-> "none", dtls_out |-> {}, chlo |-> {}, chlo_have |-> 0,
          sctp |-> "closed", out |-> <<>>, heartbeat_pending |-> FALSE]

Init == /\ rtc = [e \in Endpoints |-> Fresh]
        /\ offer = 0 /\ answer = 0 /\ net = {}
        /\ connects = [e \in Endpoints |-> 0]
        /\ restarts = [e \in Endpoints |-> 0]

-----------------------------------------------------------------------------
(* Offer and answer. Signalling is reliable; both calls need state NEW.     *)

\* dtls_out is what waits in out_buf, and stays there until it is sent or a new context
\* is made; chlo is the fragments of a ClientHello in app_buf, chlo_have the largest end
\* among them. These and the last flight only matter during the handshake.
Forget(r) == [r EXCEPT !.flight = "none", !.chlo = {}, !.chlo_have = 0]
dtls_init(r, is_server) ==
    [Forget(r) EXCEPT !.dtls = "init", !.is_server = is_server, !.dtls_out = {}]
dtls_close(r) == [Forget(r) EXCEPT !.dtls = "closed"]
dtls_destroy(r) == [Forget(r) EXCEPT !.dtls = "none"]
WithDtls(r, is_server) == IF r.dtls = "none" THEN dtls_init(r, is_server) ELSE r

\* The offer says actpass; the role is tentatively client. One offer per
\* generation (model bound).
nanortc_create_offer ==
    LET r == rtc["offerer"]
    IN /\ r.state = "new" /\ r.dtls = "none"
       /\ offer' = offer + 1
       /\ rtc' = [rtc EXCEPT !["offerer"] = [WithDtls(r, FALSE) EXCEPT !.gen = offer + 1]]
       /\ UNCHANGED <<answer, net, connects, restarts>>

\* The answer to actpass is passive.
AnswersActive(r) == [WithDtls(r, FALSE) EXCEPT !.gen = offer, !.negotiated = TRUE]
AnswersPassive(r) == [WithDtls(r, TRUE) EXCEPT !.gen = offer, !.negotiated = TRUE]

nanortc_accept_offer ==
    LET r == rtc["answerer"]
    IN /\ r.state = "new" /\ offer > answer
       /\ answer' = offer
       /\ rtc' = [rtc EXCEPT !["answerer"] = AnswersPassive(r)]
       /\ UNCHANGED <<offer, net, connects, restarts>>

\* A passive answer, to the offer that is outstanding, makes the offerer the DTLS
\* client.
nanortc_accept_answer ==
    LET r == rtc["offerer"]
    IN /\ r.state = "new" /\ r.dtls # "none" /\ ~r.negotiated /\ answer = r.gen
       /\ rtc' = [rtc EXCEPT !["offerer"] = [r EXCEPT !.negotiated = TRUE, !.is_server = FALSE]]
       /\ UNCHANGED <<offer, answer, net, connects, restarts>>

-----------------------------------------------------------------------------
(* The SCTP handshake and heartbeats, as functions of nanortc_t.            *)
nsctp_out_full(r) == Len(r.out) >= OUT_QUEUE_SIZE
Queue(r, type) == [r EXCEPT !.out = Append(@, type)]

\* nsctp_start: only a closed association sends INIT; otherwise an error.
CanStart(r) == r.sctp = "closed" /\ ~nsctp_out_full(r)
nsctp_start(r) == [Queue(r, "init") EXCEPT !.sctp = "cookie_wait", !.state = "sctp_connecting"]

Types == {"init", "init_ack", "cookie_echo", "cookie_ack", "heartbeat", "heartbeat_ack",
          "shutdown"}

\* What nsctp_handle_data makes of a packet; Rejected if it returns an error.
Needs(type) == CASE type = "init_ack" -> {"cookie_wait"}
                 [] type = "cookie_ack" -> {"cookie_echoed"}
                 [] OTHER -> {"closed", "cookie_wait", "cookie_echoed", "established",
                              "shutdown_sent"}
Rejected(r, type) ==
    \/ r.sctp \notin Needs(type)
    \/ type \in {"init", "init_ack", "cookie_echo", "heartbeat"} /\ nsctp_out_full(r)

nsctp_handle_init(r) == Queue(r, "init_ack")
EarlyEstablished(r) == [Queue(r, "cookie_echo") EXCEPT !.sctp = "established"]
nsctp_handle_init_ack(r) == [Queue(r, "cookie_echo") EXCEPT !.sctp = "cookie_echoed"]
nsctp_handle_cookie_echo(r) == [Queue(r, "cookie_ack") EXCEPT !.sctp = "established"]
nsctp_handle_cookie_ack(r) == [r EXCEPT !.sctp = "established"]
nsctp_handle_heartbeat(r) == Queue(r, "heartbeat_ack")
nsctp_handle_heartbeat_ack(r) == [r EXCEPT !.heartbeat_pending = FALSE]

nsctp_handle_data(r, type) ==
    CASE type = "init" -> nsctp_handle_init(r)
      [] type = "init_ack" -> nsctp_handle_init_ack(r)
      [] type = "cookie_echo" -> nsctp_handle_cookie_echo(r)
      [] type = "cookie_ack" -> nsctp_handle_cookie_ack(r)
      [] type = "heartbeat" -> nsctp_handle_heartbeat(r)
      [] type = "heartbeat_ack" -> nsctp_handle_heartbeat_ack(r)
      [] type = "shutdown" -> r

\* nsctp_handle_timeout of an idle association: a heartbeat, if one is due.
Heartbeat(r) ==
    IF r.sctp = "established" /\ ~r.heartbeat_pending /\ ~nsctp_out_full(r)
    THEN [Queue(r, "heartbeat") EXCEPT !.heartbeat_pending = TRUE] ELSE r

-----------------------------------------------------------------------------
(* DTLS, as functions of nanortc_t.                                         *)

Fragments == <<"fragment1", "fragment2">>
Flights == {"hello", "server_hello", "client_finished", "server_finished"} \cup Range(Fragments)

\* The datagrams of a flight.
Datagrams(flight) == IF flight = "fragments" THEN Range(Fragments) ELSE {flight}

\* The library sends a flight, for the first time or again: bio_send_cb.
bio_send_cb(r, flight) == [r EXCEPT !.flight = flight, !.dtls_out = @ \cup {flight}]

\* What the library's handshake makes of a record.
Handshake(r, record) ==
    CASE record = "hole" -> [r EXCEPT !.dtls = "error"]
      [] r.is_server /\ record = "hello" /\ r.flight \in {"none", "server_hello"} ->
           bio_send_cb(r, "server_hello")
      [] r.is_server /\ record = "client_finished" /\ r.flight = "server_hello" ->
           [Forget(bio_send_cb(r, "server_finished")) EXCEPT !.dtls = "established"]
      [] ~r.is_server /\ record = "server_hello" -> bio_send_cb(r, "client_finished")
      [] ~r.is_server /\ record = "server_finished" /\ r.flight = "client_finished" ->
           [Forget(r) EXCEPT !.dtls = "established"]
      [] OTHER -> r

\* The fragments are complete when the largest end is the length of the message; what
\* app_buf held before fills the rest.
dtls_try_reassemble_chlo(r, fragment) ==
    LET end == CHOOSE i \in DOMAIN Fragments : Fragments[i] = fragment
        kept == [r EXCEPT !.chlo = @ \cup {fragment}, !.chlo_have = Max({@, end})]
    IN IF kept.chlo_have < Len(Fragments) THEN kept
       ELSE Handshake([kept EXCEPT !.chlo_have = 0],
                      IF kept.chlo = Range(Fragments) THEN "hello" ELSE "hole")

\* During the handshake a record drives it; afterwards the server repeats its last
\* flight for a client that still waits for it.
dtls_handle_data(r, record) ==
    LET begun == [r EXCEPT !.dtls = "handshaking"]
    IN CASE r.dtls \in {"init", "handshaking"} ->
              IF r.is_server /\ record \in Range(Fragments)
              THEN dtls_try_reassemble_chlo(begun, record) ELSE Handshake(begun, record)
         [] r.dtls = "established" /\ r.is_server /\ record = "client_finished" ->
              Forget(bio_send_cb(r, "server_finished"))
         [] OTHER -> r

\* The handshake timer: the last flight again.
dtls_handle_timeout(r) ==
    IF r.dtls = "handshaking" /\ r.flight # "none" THEN bio_send_cb(r, r.flight) ELSE r

\* rtc_finish_dtls: the client starts SCTP, unless nsctp_start fails.
rtc_finish_dtls(r) ==
    LET done == [r EXCEPT !.state = "dtls_connected"]
    IN IF r.dtls # "established" \/ Rank(r.state) >= Rank("dtls_connected") THEN r
       ELSE IF r.is_server \/ ~CanStart(r) THEN done ELSE nsctp_start(done)

\* The messages that can still have an effect.
UnderWay(ms, ends) ==
    {p \in ms : /\ p.gen = ends[p.to].gen
                /\ p.type \in Types => ends[p.to].dtls \notin {"closed", "error"}
                /\ p.type \in Flights =>
                     /\ ends[p.to].dtls \in {"init", "handshaking", "established"}
                     /\ \E e \in Endpoints : ends[e].dtls # "established"}

\* rtc_drain_dtls_output, then, if sctp says so, the rest of
\* rtc_pump_sctp_through_dtls: what waits in out_buf takes one transmit slot, then each
\* queued SCTP packet takes one. What finds no slot waits.
Blocked(r, slots) == r.dtls_out # {} /\ slots = 0
Pump(e, r, slots, sctp, arrived) ==
    LET free == IF r.dtls_out = {} \/ slots = 0 THEN slots ELSE slots - 1
        n == IF sctp /\ ~Blocked(r, slots) THEN Min({free, Len(r.out)}) ELSE 0
        flights == IF slots = 0 THEN {} ELSE UNION {Datagrams(f) : f \in r.dtls_out}
        Packets(types) == {[to |-> Other(e), type |-> t, gen |-> r.gen] : t \in types}
    IN /\ rtc' = [rtc EXCEPT ![e] = [r EXCEPT !.out = SubSeq(@, n + 1, Len(@)),
                                              !.dtls_out = IF slots = 0 THEN @ ELSE {}]]
       /\ net' = UnderWay((net \ arrived) \cup Packets(flights)
                            \cup Packets({r.out[i] : i \in 1 .. n}), rtc')

-----------------------------------------------------------------------------
(* nanortc_handle_input.                                                    *)

\* The client sends its first flight, the server waits for it.
dtls_start(r, hello) == bio_send_cb([r EXCEPT !.dtls = "handshaking"], hello)
rtc_begin_dtls_handshake(r, hello) ==
    LET begun == [r EXCEPT !.state = "dtls_handshaking"]
    IN IF r.is_server THEN begun ELSE dtls_start(begun, hello)

\* The Binding exchange that nominates a pair; rtc_begin_dtls_handshake follows.
IceConnects(e, hello, slots) ==
    LET r == [rtc[e] EXCEPT !.ice = "connected"]
    IN /\ \A x \in Endpoints : rtc[x].negotiated /\ rtc[x].gen = r.gen
       /\ rtc[e].ice = "new" /\ r.state = "new" /\ r.dtls = "init"
       /\ Pump(e, rtc_begin_dtls_handshake(r, hello), slots, FALSE, {})
       /\ UNCHANGED <<offer, answer, connects, restarts>>

\* A datagram of the handshake arrives; it is refused before ICE has connected.
DtlsArrives(e, p, slots) ==
    LET r == dtls_handle_data(rtc[e], p.type)
        done == rtc_finish_dtls(r)
    IN /\ p \in net /\ p.to = e /\ p.type \in Flights
       /\ IF Rank(rtc[e].state) < Rank("ice_connected") \/ p.gen # rtc[e].gen
          THEN net' = net \ {p} /\ UNCHANGED rtc
          ELSE Pump(e, done, slots, done.state = "sctp_connecting" /\ done # r, {p})
       /\ UNCHANGED <<offer, answer, connects, restarts>>

\* Is this the packet that completes the connection?
AlwaysCompletes(r) == r.sctp = "established"
Completes(r) == r.sctp = "established" /\ Rank(r.state) < Rank("connected")

\* An SCTP packet arrives over DTLS. An error return ends the handler; otherwise
\* the connection may be complete, and the response is sent.
SctpArrives(e, p, slots) ==
    LET r == nsctp_handle_data(rtc[e], p.type)
    IN /\ p \in net /\ p.to = e /\ p.type \in Types
       /\ p.gen = rtc[e].gen /\ rtc[e].dtls = "established"
       /\ IF Rejected(rtc[e], p.type) THEN net' = net \ {p} /\ UNCHANGED <<rtc, connects>>
          ELSE /\ Pump(e, IF Completes(r) THEN [r EXCEPT !.state = "connected"] ELSE r,
                       slots, TRUE, {p})
               /\ connects' = IF Completes(r) THEN [connects EXCEPT ![e] = @ + 1] ELSE connects
       /\ UNCHANGED <<offer, answer, restarts>>

\* The timers that may be due.
DtlsTimer(r) == IF r.state = "dtls_handshaking" THEN dtls_handle_timeout(r) ELSE r
Timers(r) == Heartbeat(DtlsTimer(r))

\* rtc_process_timers: what waits in out_buf goes first, and without a slot for it
\* nothing else happens; then the DTLS timer, the heartbeat and what an earlier pump
\* left behind. One transmit slot is free, or none; a flight that waited and is
\* repeated in the same tick is sent once.
TickNeverPumps(e, due, slots) ==
    /\ ~Blocked(rtc[e], slots)
    /\ Pump(e, IF due THEN Timers(rtc[e]) ELSE rtc[e], slots, FALSE, {})
    /\ UNCHANGED <<offer, answer, connects, restarts>>
Tick(e, due, slots) ==
    LET r == IF due THEN Timers(rtc[e]) ELSE rtc[e]
    IN /\ ~Blocked(rtc[e], slots)
       /\ Pump(e, r, slots, r.sctp # "closed" /\ r.dtls = "established", {})
       /\ UNCHANGED <<offer, answer, connects, restarts>>

\* Consent is not renewed in time.
ConsentExpires(e) ==
    /\ rtc[e].ice = "connected"
    /\ rtc' = [rtc EXCEPT ![e].ice = "disconnected", ![e].state = "closed"]
    /\ UNCHANGED <<offer, answer, net, connects, restarts>>

-----------------------------------------------------------------------------
(* The application, and the network.                                        *)

\* A SHUTDOWN joins what waits in out_buf; its packet leaves now if a slot is free.
nanortc_disconnect(e, slots) ==
    LET r == rtc[e]
        shutdown == IF r.sctp = "established" /\ r.dtls = "established" THEN {"shutdown"} ELSE {}
    IN /\ r.state \notin {"closed", "new"}
       /\ Pump(e, [dtls_close(r) EXCEPT !.state = "closed", !.dtls_out = @ \cup shutdown,
                                        !.sctp = IF @ = "established" THEN "shutdown_sent"
                                                 ELSE @],
               slots, FALSE, {})
       /\ UNCHANGED <<offer, answer, connects, restarts>>

\* A new generation: DTLS is torn down and ICE reset; SCTP is left as it is. What
\* is under way to e cannot be decrypted any more.
nanortc_ice_restart(e) ==
    /\ restarts[e] < MAX_RESTARTS
    /\ rtc' = [rtc EXCEPT ![e] =
                 [dtls_destroy(@) EXCEPT !.state = "new", !.ice = "new", !.negotiated = FALSE]]
    /\ restarts' = [restarts EXCEPT ![e] = @ + 1]
    /\ connects' = [connects EXCEPT ![e] = 0]
    /\ net' = {p \in net : p.to # e}
    /\ UNCHANGED <<offer, answer>>

\* A datagram of the handshake is lost. (A lost SCTP packet is one that never arrives.)
Lose(p) ==
    /\ p \in net /\ p.type \in Flights
    /\ net' = net \ {p}
    /\ UNCHANGED <<rtc, offer, answer, connects, restarts>>

Next == \/ nanortc_create_offer \/ nanortc_accept_offer \/ nanortc_accept_answer
        \/ \E e \in Endpoints : ConsentExpires(e) \/ nanortc_ice_restart(e)
        \/ \E e \in Endpoints, slots \in FreeSlots :
              \/ \E hello \in Hellos : IceConnects(e, hello, slots)
              \/ \E p \in net : DtlsArrives(e, p, slots) \/ SctpArrives(e, p, slots)
              \/ \E due \in BOOLEAN : Tick(e, due, slots)
              \/ nanortc_disconnect(e, slots)
        \/ \E p \in net : Lose(p)

Spec == Init /\ [][Next]_vars

Closed == \E e \in Endpoints : rtc[e].state = "closed"
Restarted == \E e \in Endpoints : restarts[e] > 0
Undisturbed == ~Restarted /\ ~Closed

\* A packet of one of these types arrives, at a time when transmit slots are free.
DtlsDelivered(types) ==
    Undisturbed /\ \E p \in net : p.type \in types /\ DtlsArrives(p.to, p, OUT_QUEUE_SIZE)
SctpDelivered(types) ==
    Undisturbed /\ \E p \in net : p.type \in types /\ SctpArrives(p.to, p, OUT_QUEUE_SIZE)

\* While nobody closes or restarts, the event loops run, signalling works, ICE (which
\* retransmits) succeeds, an SCTP packet of the handshake arrives, and so does a DTLS
\* flight that is sent again and again, whichever datagrams of it are lost.
FairSpec ==
    /\ Spec
    /\ WF_vars(/\ Undisturbed
               /\ nanortc_create_offer \/ nanortc_accept_offer \/ nanortc_accept_answer)
    /\ WF_vars(/\ Undisturbed
               /\ \E e \in Endpoints, hello \in Hellos : IceConnects(e, hello, OUT_QUEUE_SIZE))
    /\ \A e \in Endpoints : WF_vars(Undisturbed /\ Tick(e, TRUE, OUT_QUEUE_SIZE))
    /\ SF_vars(DtlsDelivered({"hello", "fragment1", "client_finished"}))
    /\ SF_vars(DtlsDelivered({"fragment2"}))
    /\ SF_vars(DtlsDelivered({"server_hello", "server_finished"}))
    /\ WF_vars(SctpDelivered({"init", "init_ack", "cookie_echo", "cookie_ack"}))

-----------------------------------------------------------------------------
(* Properties.                                                              *)

\* Two endpoints in one DTLS association never both act as client or as server:
\* nanortc_accept_offer and nanortc_accept_answer settle the roles.
RolesSettled ==
    LET Started(e) == rtc[e].dtls \in {"handshaking", "established"}
    IN Started("offerer") /\ Started("answerer") /\ rtc["offerer"].gen = rtc["answerer"].gen
         => rtc["offerer"].is_server # rtc["answerer"].is_server

\* An endpoint that is CONNECTED has a peer that holds its side of the SCTP
\* association: nobody is connected to a peer that has not echoed the cookie.
ConnectedTogether ==
    \A e \in Endpoints : rtc[e].state = "connected" =>
        rtc[Other(e)].sctp \in {"cookie_echoed", "established", "shutdown_sent"}

\* The application sees CONNECTED at most once per negotiation, whatever
\* heartbeats arrive.
ConnectedOnce ==
    \A e \in Endpoints : connects[e] <= 1

\* The server has taken a ClientHello with a hole for a complete one.
Holed == \E e \in Endpoints : rtc[e].dtls = "error"
BothConnected == \A e \in Endpoints : rtc[e].state = "connected"

\* Does an INIT-ACK wait for a transmit slot?
InitAckWaits == \E e \in Endpoints : \E i \in DOMAIN rtc[e].out : rtc[e].out[i] = "init_ack"

\* Without restart, closing or the loss of an SCTP packet, both endpoints become
\* CONNECTED: whatever DTLS datagrams are lost, and although the flights, the INIT,
\* COOKIE-ECHO and COOKIE-ACK may have to wait for a transmit slot. Not promised: a
\* ClientHello whose second fragment comes first, and an INIT-ACK that finds no slot.
Connects == <>(BothConnected \/ ~Undisturbed \/ InitAckWaits \/ Holed)
=============================================================================
