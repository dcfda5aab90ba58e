-------------------------- MODULE RtcSessionProof --------------------------
(***************************************************************************)
(* For every queue size, every number of restarts and every number of free *)
(* transmit slots: the safety invariants of RtcSession.                    *)
(*                                                                         *)
(* The argument. The roles are those of nanortc_create_offer and           *)
(* nanortc_accept_offer for as long as a DTLS context lives (RoleKept). An *)
(* endpoint has seen CONNECTED only if its state says so, and the state    *)
(* falls below "connected" only when the count starts anew (Counted). An   *)
(* endpoint Holds the association once it has echoed the cookie, and never *)
(* stops: so whoever sends or has sent a COOKIE-ECHO or a COOKIE-ACK holds *)
(* it (CookiesHeld), and whoever is established got one from a peer that   *)
(* does (PeerHolds).                                                       *)
(***************************************************************************)
EXTENDS RtcSession, TLAPS

-----------------------------------------------------------------------------
(* The inductive invariant.                                                 *)

ConnStates == {"new", "ice_connected", "dtls_handshaking", "dtls_connected",
               "sctp_connecting", "connected", "closed"}
DtlsStates == {"none", "init", "handshaking", "established", "closed", "error"}
SctpStates == {"closed", "cookie_wait", "cookie_echoed", "established", "shutdown_sent"}
FlightNames == {"hello", "fragments", "server_hello", "client_finished", "server_finished"}
FragmentNames == {"fragment1", "fragment2"}

Rtc == [state : ConnStates, gen : Nat, negotiated : BOOLEAN,
        ice : {"new", "connected", "disconnected"}, dtls : DtlsStates, is_server : BOOLEAN,
        flight : FlightNames \cup {"none"}, dtls_out : SUBSET (FlightNames \cup {"shutdown"}),
        chlo : SUBSET FragmentNames, chlo_have : Nat,
        sctp : SctpStates, out : Seq(Types), heartbeat_pending : BOOLEAN]

Message == [to : Endpoints, type : Types \cup Flights, gen : Nat]

SessionTypeOK ==
    /\ rtc \in [Endpoints -> Rtc]
    /\ offer \in Nat /\ answer \in Nat
    /\ net \subseteq Message
    /\ connects \in [Endpoints -> Nat] /\ restarts \in [Endpoints -> Nat]

RoleKept(e, r) == /\ r.state \in {"new", "closed"} \/ r.dtls # "none"
                  /\ IF e = "offerer" THEN ~r.is_server ELSE r.dtls # "none" => r.is_server

Counted(r, n) == n <= 1 /\ (Rank(r.state) < Rank("connected") => n = 0)

Cookies == {"cookie_echo", "cookie_ack"}
Holds(r) == r.sctp \in {"cookie_echoed", "established", "shutdown_sent"}
CookiesHeld(r) == /\ (\E i \in DOMAIN r.out : r.out[i] \in Cookies) => Holds(r)
                  /\ r.state = "connected" => r.sctp = "established"
PeerHolds(r, peer) == r.sctp \in {"established", "shutdown_sent"} => Holds(peer)
SendersHold == \A p \in net : p.type \in Cookies => Holds(rtc[Other(p.to)])

SessionInv ==
    /\ SessionTypeOK
    /\ SendersHold
    /\ \A e \in Endpoints : /\ RoleKept(e, rtc[e])
                            /\ Counted(rtc[e], connects[e])
                            /\ CookiesHeld(rtc[e])
                            /\ PeerHolds(rtc[e], rtc[Other(e)])

-----------------------------------------------------------------------------
(* Constants.                                                               *)

\* The order of nano_conn_state_t.
LEMMA Ranks ==
    /\ Rank("new") = 1 /\ Rank("ice_connected") = 2 /\ Rank("dtls_handshaking") = 3
    /\ Rank("dtls_connected") = 4 /\ Rank("sctp_connecting") = 5
    /\ Rank("connected") = 6 /\ Rank("closed") = 7
<1>1. DOMAIN States = 1 .. 7
  BY DEF States
<1> QED
  BY <1>1 DEF Rank, States

\* The two endpoints.
LEMMA Others ==
    /\ Other("offerer") = "answerer" /\ Other("answerer") = "offerer"
    /\ \A e \in Endpoints : Other(e) \in Endpoints /\ Other(e) # e /\ Other(Other(e)) = e
BY DEF Other, Endpoints

\* The fragments of a ClientHello.
LEMMA FragmentSet ==
    /\ Range(Fragments) = FragmentNames
    /\ DOMAIN Fragments = 1 .. 2 /\ Len(Fragments) = 2
    /\ Flights = {"hello", "server_hello", "client_finished", "server_finished"}
                    \cup FragmentNames
<1>1. DOMAIN Fragments = 1 .. 2 /\ Len(Fragments) = 2
  BY DEF Fragments
<1>2. Range(Fragments) = FragmentNames
  BY <1>1 DEF Range, Fragments, FragmentNames
<1> QED
  BY <1>1, <1>2 DEF Flights

\* The smaller, and the larger, of two numbers.
LEMMA MinMax2 ==
  ASSUME NEW a \in Nat, NEW b \in Nat
  PROVE  /\ Min({a, b}) \in Nat /\ Min({a, b}) <= a /\ Min({a, b}) <= b
         /\ Max({a, b}) \in Nat
<1>1. CASE a <= b
  <2>1. a \in {a, b} /\ \A y \in {a, b} : a <= y
    BY <1>1
  <2>2. b \in {a, b} /\ \A y \in {a, b} : b >= y
    BY <1>1
  <2> QED
    BY <2>1, <2>2 DEF Min, Max
<1>2. CASE b <= a
  <2>1. b \in {a, b} /\ \A y \in {a, b} : b <= y
    BY <1>2
  <2>2. a \in {a, b} /\ \A y \in {a, b} : a >= y
    BY <1>2
  <2> QED
    BY <2>1, <2>2 DEF Min, Max
<1> QED
  BY <1>1, <1>2

-----------------------------------------------------------------------------
(* What the operators of RtcSession return.                                 *)

\* From r to s only DTLS has moved, and its context is alive as before.
OnlyDtls(r, s) ==
    /\ s \in Rtc
    /\ s.state = r.state /\ s.sctp = r.sctp /\ s.out = r.out
    /\ s.is_server = r.is_server /\ s.gen = r.gen
    /\ s.dtls = "none" <=> r.dtls = "none"

\* bio_send_cb leaves everything but the DTLS output alone.
LEMMA SendCb ==
  ASSUME NEW r \in Rtc, NEW flight \in FlightNames
  PROVE  OnlyDtls(r, bio_send_cb(r, flight)) /\ bio_send_cb(r, flight).dtls = r.dtls
BY DEF bio_send_cb, OnlyDtls, Rtc

\* Dropping the fragments of a ClientHello leaves the DTLS state alone.
LEMMA Forgets ==
  ASSUME NEW r \in Rtc
  PROVE  OnlyDtls(r, Forget(r)) /\ Forget(r).dtls = r.dtls
BY DEF Forget, OnlyDtls, Rtc

\* A DTLS context that exists may take any state but "none".
LEMMA SetDtls ==
  ASSUME NEW r \in Rtc, r.dtls # "none", NEW d \in DtlsStates \ {"none"}
  PROVE  /\ OnlyDtls(r, [r EXCEPT !.dtls = d])
         /\ [r EXCEPT !.dtls = d].dtls = d
BY DEF OnlyDtls, Rtc

\* The library's handshake changes the fields of DTLS only.
LEMMA HandshakeMoves ==
  ASSUME NEW r \in Rtc, r.dtls # "none", NEW record
  PROVE  OnlyDtls(r, Handshake(r, record))
<1>1. OnlyDtls(r, r)
  BY DEF OnlyDtls
<1>2. OnlyDtls(r, [r EXCEPT !.dtls = "error"])
  BY SetDtls DEF DtlsStates
<1>3. \A f \in FlightNames : OnlyDtls(r, bio_send_cb(r, f))
  BY SendCb
<1>4. OnlyDtls(r, [Forget(bio_send_cb(r, "server_finished")) EXCEPT !.dtls = "established"])
  <2> DEFINE b == bio_send_cb(r, "server_finished")
             g == Forget(b)
  <2>1. b \in Rtc /\ OnlyDtls(r, b)
    BY SendCb DEF FlightNames, OnlyDtls
  <2>2. OnlyDtls(b, g)
    BY <2>1, Forgets
  <2>3. OnlyDtls(g, [g EXCEPT !.dtls = "established"])
    BY <2>1, <2>2, SetDtls DEF OnlyDtls, DtlsStates
  <2> QED
    BY <2>1, <2>2, <2>3 DEF OnlyDtls
<1>5. OnlyDtls(r, [Forget(r) EXCEPT !.dtls = "established"])
  <2> DEFINE g == Forget(r)
  <2>1. OnlyDtls(r, g)
    BY Forgets
  <2>2. OnlyDtls(g, [g EXCEPT !.dtls = "established"])
    BY <2>1, SetDtls DEF OnlyDtls, DtlsStates
  <2> QED
    BY <2>1, <2>2 DEF OnlyDtls
<1> QED
  BY <1>1, <1>2, <1>3, <1>4, <1>5 DEF Handshake, FlightNames

\* dtls_try_reassemble_chlo changes the fields of DTLS only.
LEMMA ReassembleMoves ==
  ASSUME NEW r \in Rtc, r.dtls # "none", NEW fragment \in Range(Fragments)
  PROVE  OnlyDtls(r, dtls_try_reassemble_chlo(r, fragment))
<1> DEFINE end == CHOOSE i \in DOMAIN Fragments : Fragments[i] = fragment
           have == Max({r.chlo_have, end})
           kept == [r EXCEPT !.chlo = @ \cup {fragment}, !.chlo_have = have]
           full == [kept EXCEPT !.chlo_have = 0]
<1>1. end \in 1 .. 2
  BY FragmentSet DEF Range
<1> HIDE DEF end
<1>2. have \in Nat
  <2>1. r.chlo_have \in Nat /\ end \in Nat
    BY <1>1 DEF Rtc
  <2> QED
    BY <2>1, MinMax2
<1> HIDE DEF have
<1>3. OnlyDtls(r, kept) /\ kept.dtls # "none"
  BY <1>2, FragmentSet DEF OnlyDtls, Rtc
<1>4. OnlyDtls(r, full) /\ full.dtls # "none"
  BY <1>2, FragmentSet DEF OnlyDtls, Rtc
<1>5. \A record : OnlyDtls(full, Handshake(full, record))
  BY <1>4, HandshakeMoves DEF OnlyDtls
<1>6. \A record : OnlyDtls(r, Handshake(full, record))
  BY <1>4, <1>5 DEF OnlyDtls
<1>7. dtls_try_reassemble_chlo(r, fragment) \in
          {kept} \cup {Handshake(full, record) : record \in {"hello", "hole"}}
  BY DEF dtls_try_reassemble_chlo, have, end
<1> QED
  BY <1>3, <1>6, <1>7

\* dtls_handle_data changes the fields of DTLS only, whatever the record.
LEMMA DtlsDataMoves ==
  ASSUME NEW r \in Rtc, NEW record
  PROVE  OnlyDtls(r, dtls_handle_data(r, record))
<1> DEFINE begun == [r EXCEPT !.dtls = "handshaking"]
<1>1. CASE r.dtls \in {"init", "handshaking"}
  <2>1. OnlyDtls(r, begun) /\ begun.dtls # "none"
    BY <1>1, SetDtls DEF DtlsStates
  <2>2. OnlyDtls(begun, Handshake(begun, record))
    BY <2>1, HandshakeMoves DEF OnlyDtls
  <2>3. record \in Range(Fragments) =>
           OnlyDtls(begun, dtls_try_reassemble_chlo(begun, record))
    BY <2>1, ReassembleMoves DEF OnlyDtls
  <2>4. dtls_handle_data(r, record) =
           IF r.is_server /\ record \in Range(Fragments)
           THEN dtls_try_reassemble_chlo(begun, record) ELSE Handshake(begun, record)
    BY <1>1 DEF dtls_handle_data
  <2> HIDE DEF begun
  <2> QED
    BY <2>1, <2>2, <2>3, <2>4 DEF OnlyDtls
<1>2. CASE r.dtls \notin {"init", "handshaking"}
  <2> DEFINE b == bio_send_cb(r, "server_finished")
  <2>1. b \in Rtc /\ OnlyDtls(r, b)
    BY SendCb DEF FlightNames, OnlyDtls
  <2>2. OnlyDtls(b, Forget(b))
    BY <2>1, Forgets
  <2>3. OnlyDtls(r, r) /\ OnlyDtls(r, Forget(b))
    BY <2>1, <2>2 DEF OnlyDtls
  <2> QED
    BY <1>2, <2>3 DEF dtls_handle_data
<1> QED
  BY <1>1, <1>2

\* What is queued is what was queued and t.
LEMMA QueueOne ==
  ASSUME NEW r \in Rtc, NEW t \in Types
  PROVE  /\ Append(r.out, t) \in Seq(Types)
         /\ \A i \in DOMAIN Append(r.out, t) :
               Append(r.out, t)[i] = t \/ \E j \in DOMAIN r.out : Append(r.out, t)[i] = r.out[j]
<1>1. r.out \in Seq(Types)
  BY DEF Rtc
<1> QED
  BY <1>1

\* A packet that carries no cookie is queued.
LEMMA QueueMoves ==
  ASSUME NEW r \in Rtc, NEW t \in Types \ Cookies
  PROVE  /\ Queue(r, t) \in Rtc
         /\ \A i \in DOMAIN Queue(r, t).out : Queue(r, t).out[i] \in Cookies =>
               \E j \in DOMAIN r.out : Queue(r, t).out[i] = r.out[j]
<1>1. Queue(r, t).out = Append(r.out, t)
  BY DEF Queue, Rtc
<1>2. Queue(r, t) \in Rtc
  BY QueueOne DEF Queue, Rtc
<1> QED
  BY <1>1, <1>2, QueueOne

\* rtc_finish_dtls: the state rises below "connected", and only the INIT is queued.
LEMMA FinishMoves ==
  ASSUME NEW r \in Rtc
  PROVE  LET s == rtc_finish_dtls(r)
         IN /\ s \in Rtc /\ s.is_server = r.is_server /\ s.dtls = r.dtls /\ s.gen = r.gen
            /\ \/ s.state = r.state
               \/ /\ Rank(r.state) < Rank("connected") /\ r.dtls = "established"
                  /\ s.state \in {"dtls_connected", "sctp_connecting"}
            /\ Holds(r) <=> Holds(s)
            /\ s.sctp = r.sctp \/ s.sctp = "cookie_wait"
            /\ \A i \in DOMAIN s.out : s.out[i] \in Cookies =>
                  \E j \in DOMAIN r.out : s.out[i] = r.out[j]
<1> DEFINE done == [r EXCEPT !.state = "dtls_connected"]
           queued == Queue(done, "init")
           started == [queued EXCEPT !.sctp = "cookie_wait", !.state = "sctp_connecting"]
<1>1. /\ done \in Rtc /\ done.is_server = r.is_server /\ done.dtls = r.dtls
      /\ done.gen = r.gen /\ done.sctp = r.sctp /\ done.out = r.out
      /\ done.state = "dtls_connected"
  BY DEF Rtc, ConnStates
<1> HIDE DEF done
<1>2. /\ queued \in Rtc
      /\ \A i \in DOMAIN queued.out : queued.out[i] \in Cookies =>
            \E j \in DOMAIN done.out : queued.out[i] = done.out[j]
  BY <1>1, QueueMoves DEF Types, Cookies
<1>3. queued.is_server = r.is_server /\ queued.dtls = r.dtls /\ queued.gen = r.gen
  BY <1>1 DEF Queue, Rtc
<1> HIDE DEF queued
<1>4. /\ started \in Rtc /\ started.is_server = r.is_server /\ started.dtls = r.dtls
      /\ started.gen = r.gen /\ started.sctp = "cookie_wait" /\ started.out = queued.out
      /\ started.state = "sctp_connecting"
  BY <1>2, <1>3 DEF Rtc, ConnStates, SctpStates
<1>5. nsctp_start(done) = started
  BY DEF nsctp_start, queued
<1> HIDE DEF started
<1>6. \/ rtc_finish_dtls(r) = r
      \/ /\ Rank(r.state) < Rank("dtls_connected") /\ r.dtls = "established"
         /\ \/ rtc_finish_dtls(r) = done
            \/ rtc_finish_dtls(r) = started /\ r.sctp = "closed"
  <2>1. Rank(r.state) \in Nat
    BY Ranks DEF Rtc, ConnStates
  <2> QED
    BY <1>1, <1>5, <2>1, Ranks DEF rtc_finish_dtls, CanStart, done
<1>7. Rank(r.state) < Rank("dtls_connected") => Rank(r.state) < Rank("connected")
  BY Ranks DEF Rtc, ConnStates
<1> QED
  BY <1>1, <1>2, <1>4, <1>6, <1>7 DEF Holds

\* nsctp_handle_data touches SCTP only; whoever holds the association goes on holding it,
\* and only the right cookie makes an association established.
LEMMA SctpMoves ==
  ASSUME NEW r \in Rtc, NEW type \in Types, ~Rejected(r, type)
  PROVE  LET s == nsctp_handle_data(r, type)
         IN /\ s \in Rtc /\ s.is_server = r.is_server /\ s.dtls = r.dtls /\ s.gen = r.gen
            /\ s.state = r.state
            /\ Holds(r) => Holds(s)
            /\ s.sctp = r.sctp \/ (type = "init_ack" /\ s.sctp = "cookie_echoed")
               \/ (type \in Cookies /\ s.sctp = "established")
            /\ \A i \in DOMAIN s.out : s.out[i] \in Cookies =>
                  Holds(s) \/ \E j \in DOMAIN r.out : s.out[i] = r.out[j]
            /\ r.sctp = "established" => s.sctp = "established"
<1> USE QueueOne
<1>1. CASE type = "init"
  <2> DEFINE s == Queue(r, "init_ack")
  <2>1. nsctp_handle_data(r, type) = s
    BY <1>1 DEF nsctp_handle_data, nsctp_handle_init
  <2>2. /\ s.is_server = r.is_server /\ s.dtls = r.dtls /\ s.gen = r.gen
        /\ s.state = r.state /\ s.sctp = r.sctp
    BY DEF Queue, Rtc
  <2> QED
    BY <2>1, <2>2, QueueMoves DEF Types, Cookies, Holds
<1>2. CASE type = "init_ack"
  BY <1>2 DEF nsctp_handle_data, nsctp_handle_init_ack, Queue, Rtc, Types, Cookies, Holds,
              SctpStates, Rejected, Needs
<1>3. CASE type = "cookie_echo"
  BY <1>3 DEF nsctp_handle_data, nsctp_handle_cookie_echo, Queue, Rtc, Types, Cookies, Holds,
              SctpStates
<1>4. CASE type = "cookie_ack"
  BY <1>4 DEF nsctp_handle_data, nsctp_handle_cookie_ack, Rtc, Cookies, Holds, SctpStates
<1>5. CASE type = "heartbeat"
  <2> DEFINE s == Queue(r, "heartbeat_ack")
  <2>1. nsctp_handle_data(r, type) = s
    BY <1>5 DEF nsctp_handle_data, nsctp_handle_heartbeat
  <2>2. /\ s.is_server = r.is_server /\ s.dtls = r.dtls /\ s.gen = r.gen
        /\ s.state = r.state /\ s.sctp = r.sctp
    BY DEF Queue, Rtc
  <2> QED
    BY <2>1, <2>2, QueueMoves DEF Types, Cookies, Holds
<1>6. CASE type = "heartbeat_ack"
  BY <1>6 DEF nsctp_handle_data, nsctp_handle_heartbeat_ack, Rtc, Holds
<1>7. CASE type = "shutdown"
  BY <1>7 DEF nsctp_handle_data
<1> QED
  BY <1>1, <1>2, <1>3, <1>4, <1>5, <1>6, <1>7 DEF Types

\* Heartbeat queues one, and the DTLS timer repeats a flight.
LEMMA TimersMove ==
  ASSUME NEW r \in Rtc
  PROVE  LET s == Timers(r)
         IN /\ s \in Rtc /\ s.is_server = r.is_server /\ s.gen = r.gen /\ s.state = r.state
            /\ s.dtls = r.dtls /\ s.sctp = r.sctp
            /\ \A i \in DOMAIN s.out : s.out[i] \in Cookies =>
                  \E j \in DOMAIN r.out : s.out[i] = r.out[j]
<1> DEFINE d == DtlsTimer(r)
           q == Queue(d, "heartbeat")
           h == [q EXCEPT !.heartbeat_pending = TRUE]
<1>1. OnlyDtls(r, d) /\ d.dtls = r.dtls
  <2>1. r.flight # "none" => r.flight \in FlightNames
    BY DEF Rtc
  <2>2. OnlyDtls(r, r)
    BY DEF OnlyDtls
  <2> QED
    BY <2>1, <2>2, SendCb DEF DtlsTimer, dtls_handle_timeout
<1> HIDE DEF d
<1>2. d \in Rtc /\ d.out = r.out
  BY <1>1 DEF OnlyDtls
<1>3. /\ q \in Rtc
      /\ \A i \in DOMAIN q.out : q.out[i] \in Cookies => \E j \in DOMAIN d.out : q.out[i] = d.out[j]
  BY <1>2, QueueMoves DEF Types, Cookies
<1>4. /\ q.is_server = d.is_server /\ q.gen = d.gen /\ q.state = d.state
      /\ q.dtls = d.dtls /\ q.sctp = d.sctp
  BY <1>2 DEF Queue, Rtc
<1> HIDE DEF q
<1>5. /\ h \in Rtc /\ h.is_server = d.is_server /\ h.gen = d.gen /\ h.state = d.state
      /\ h.dtls = d.dtls /\ h.sctp = d.sctp /\ h.out = q.out
  BY <1>3, <1>4 DEF Rtc
<1>6. Timers(r) = d \/ Timers(r) = h
  BY DEF Timers, Heartbeat, d, q
<1> HIDE DEF h
<1> QED
  BY <1>1, <1>2, <1>3, <1>5, <1>6 DEF OnlyDtls

\* Pump changes what waits in out_buf and in the SCTP queue, nothing else; what leaves is a
\* flight, a SHUTDOWN or a packet of that queue.
LEMMA PumpMoves ==
  ASSUME SessionTypeOK, NEW e \in Endpoints, NEW r \in Rtc, NEW slots \in Nat,
         NEW sctp, NEW arrived, Pump(e, r, slots, sctp, arrived)
  PROVE  \E q \in Rtc :
            /\ rtc' = [rtc EXCEPT ![e] = q]
            /\ q.state = r.state /\ q.is_server = r.is_server /\ q.dtls = r.dtls
            /\ q.gen = r.gen /\ q.sctp = r.sctp
            /\ \A i \in DOMAIN q.out : \E j \in DOMAIN r.out : q.out[i] = r.out[j]
            /\ \A p \in net' : \/ p \in net
                               \/ /\ p \in Message /\ p.to = Other(e)
                                  /\ p.type \in Cookies => \E j \in DOMAIN r.out : r.out[j] = p.type
<1> DEFINE free == IF r.dtls_out = {} \/ slots = 0 THEN slots ELSE slots - 1
           n == IF sctp /\ ~Blocked(r, slots) THEN Min({free, Len(r.out)}) ELSE 0
           flights == IF slots = 0 THEN {} ELSE UNION {Datagrams(f) : f \in r.dtls_out}
           Packets(types) == {[to |-> Other(e), type |-> t, gen |-> r.gen] : t \in types}
           rest == SubSeq(r.out, n + 1, Len(r.out))
           left == IF slots = 0 THEN r.dtls_out ELSE {}
           q == [r EXCEPT !.out = rest, !.dtls_out = left]
<1>1. r.out \in Seq(Types) /\ Len(r.out) \in Nat /\ r.gen \in Nat
  BY DEF Rtc
<1>2. n \in Nat /\ n <= Len(r.out)
  <2>1. free \in Nat
    OBVIOUS
  <2> HIDE DEF free
  <2> QED
    BY <1>1, <2>1, MinMax2
<1>3. /\ rtc' = [rtc EXCEPT ![e] = q]
      /\ net' = UnderWay((net \ arrived) \cup Packets(flights)
                            \cup Packets({r.out[i] : i \in 1 .. n}), rtc')
  BY DEF Pump
<1> HIDE DEF n
<1>4. rest \in Seq(Types) /\ \A i \in DOMAIN rest : \E j \in DOMAIN r.out : rest[i] = r.out[j]
  <2>1. /\ rest \in Seq(Types)
        /\ Len(rest) = Len(r.out) - n
        /\ \A i \in 1 .. Len(r.out) - n : rest[i] = r.out[n + i]
    BY <1>1, <1>2
  <2> HIDE DEF rest
  <2>2. ASSUME NEW i \in DOMAIN rest PROVE n + i \in DOMAIN r.out /\ rest[i] = r.out[n + i]
    <3>1. i \in 1 .. Len(r.out) - n
      BY <2>1, <2>2
    <3> QED
      BY <1>1, <1>2, <2>1, <3>1, SMTT(30)
  <2> QED
    BY <2>1, <2>2
<1>5. /\ q \in Rtc /\ q.state = r.state /\ q.is_server = r.is_server /\ q.dtls = r.dtls
      /\ q.gen = r.gen /\ q.sctp = r.sctp /\ q.out = rest
  <2> HIDE DEF rest
  <2> QED
    BY <1>4 DEF Rtc
<1>6. flights \subseteq Flights \cup {"shutdown"}
  <2>1. \A f \in FlightNames \cup {"shutdown"} : Datagrams(f) \subseteq Flights \cup {"shutdown"}
    BY FragmentSet DEF Datagrams, FlightNames, FragmentNames
  <2>2. r.dtls_out \subseteq FlightNames \cup {"shutdown"}
    BY DEF Rtc
  <2> QED
    BY <2>1, <2>2
<1>7. \A i \in 1 .. n : i \in DOMAIN r.out /\ r.out[i] \in Types
  BY <1>1, <1>2
<1>8. ASSUME NEW p \in net'
      PROVE  \/ p \in net
             \/ /\ p \in Message /\ p.to = Other(e)
                /\ p.type \in Cookies => \E j \in DOMAIN r.out : r.out[j] = p.type
  <2>1. \/ p \in net
        \/ \E t \in flights : p = [to |-> Other(e), type |-> t, gen |-> r.gen]
        \/ \E i \in 1 .. n : p = [to |-> Other(e), type |-> r.out[i], gen |-> r.gen]
    BY <1>3, <1>8 DEF UnderWay
  <2>2. CASE \E t \in flights : p = [to |-> Other(e), type |-> t, gen |-> r.gen]
    BY <1>1, <1>6, <2>2, Others, FragmentSet DEF Message, Types, Cookies, FragmentNames
  <2>3. CASE \E i \in 1 .. n : p = [to |-> Other(e), type |-> r.out[i], gen |-> r.gen]
    BY <1>1, <1>7, <2>3, Others DEF Message
  <2> QED
    BY <2>1, <2>2, <2>3
<1> HIDE DEF q, rest
<1> QED
  BY <1>3, <1>4, <1>5, <1>8

-----------------------------------------------------------------------------
(* Every step keeps the invariant.                                          *)

\* The invariant holds of two endpoints that have done nothing yet.
LEMMA InitInv == Init => SessionInv
<1> SUFFICES ASSUME Init PROVE SessionInv
  OBVIOUS
<1>1. Fresh \in Rtc
  BY DEF Fresh, Rtc, ConnStates, DtlsStates, SctpStates, FlightNames, FragmentNames
<1>2. SessionTypeOK
  BY <1>1 DEF Init, SessionTypeOK
<1>3. SendersHold
  BY DEF Init, SendersHold
<1>4. ASSUME NEW e \in Endpoints
      PROVE  /\ RoleKept(e, rtc[e]) /\ Counted(rtc[e], connects[e])
             /\ CookiesHeld(rtc[e]) /\ PeerHolds(rtc[e], rtc[Other(e)])
  BY Others DEF Init, Fresh, RoleKept, Counted, CookiesHeld, PeerHolds
<1> QED
  BY <1>2, <1>3, <1>4 DEF SessionInv

\* A step of endpoint e to the record q keeps the invariant if q does its part, e goes on
\* holding the association, and cookies leave e only while it holds it.
LEMMA EndpointStep ==
  ASSUME SessionInv, NEW e \in Endpoints, NEW q \in Rtc,
         rtc' = [rtc EXCEPT ![e] = q],
         offer' \in Nat, answer' \in Nat, restarts' \in [Endpoints -> Nat],
         connects' \in [Endpoints -> Nat], connects'[Other(e)] = connects[Other(e)],
         RoleKept(e, q), Counted(q, connects'[e]), CookiesHeld(q),
         PeerHolds(q, rtc[Other(e)]), Holds(rtc[e]) => Holds(q),
         \A p \in net' : \/ p \in net
                         \/ /\ p \in Message /\ p.to = Other(e)
                            /\ p.type \in Cookies => Holds(q)
  PROVE  SessionInv'
<1> DEFINE o == Other(e)
<1>1. o \in Endpoints /\ o # e /\ Other(o) = e /\ \A x \in Endpoints : x = e \/ x = o
  BY Others DEF Endpoints
<1>2. rtc'[e] = q /\ rtc'[o] = rtc[o]
  BY <1>1 DEF SessionInv, SessionTypeOK
<1>3. SessionTypeOK'
  BY DEF SessionInv, SessionTypeOK
<1>4. SendersHold'
  <2> SUFFICES ASSUME NEW p \in net', p.type \in Cookies PROVE Holds(rtc'[Other(p.to)])
    BY DEF SendersHold, Holds
  <2>1. CASE p \in net
    <3>1. Holds(rtc[Other(p.to)]) /\ p.to \in Endpoints
      BY <2>1 DEF SessionInv, SessionTypeOK, SendersHold, Message
    <3> QED
      BY <1>1, <1>2, <3>1
  <2>2. CASE p.to = o /\ Holds(q)
    BY <1>1, <1>2, <2>2
  <2> QED
    BY <2>1, <2>2
<1>5. /\ RoleKept(e, rtc'[e]) /\ Counted(rtc'[e], connects'[e])
      /\ CookiesHeld(rtc'[e]) /\ PeerHolds(rtc'[e], rtc'[o])
  BY <1>1, <1>2
<1>6. /\ RoleKept(o, rtc'[o]) /\ Counted(rtc'[o], connects'[o])
      /\ CookiesHeld(rtc'[o]) /\ PeerHolds(rtc'[o], rtc'[e])
  BY <1>1, <1>2 DEF SessionInv, PeerHolds
<1> QED
  BY <1>1, <1>3, <1>4, <1>5, <1>6 DEF SessionInv

\* The same when a message is dropped, or nothing happens.
LEMMA DropStep ==
  ASSUME SessionInv, UNCHANGED <<rtc, offer, answer, connects, restarts>>, net' \subseteq net
  PROVE  SessionInv'
<1>1. SessionTypeOK'
  BY DEF SessionInv, SessionTypeOK
<1>2. SendersHold'
  BY DEF SessionInv, SendersHold
<1> QED
  BY <1>1, <1>2 DEF SessionInv

\* The same for a step that ends with Pump.
LEMMA PumpStep ==
  ASSUME SessionInv, NEW e \in Endpoints, NEW r \in Rtc, NEW slots \in FreeSlots,
         NEW sctp, NEW arrived, Pump(e, r, slots, sctp, arrived),
         offer' \in Nat, answer' \in Nat, restarts' \in [Endpoints -> Nat],
         connects' \in [Endpoints -> Nat], connects'[Other(e)] = connects[Other(e)],
         RoleKept(e, r), Counted(r, connects'[e]), CookiesHeld(r),
         PeerHolds(r, rtc[Other(e)]), Holds(rtc[e]) => Holds(r)
  PROVE  SessionInv'
<1>1. slots \in Nat /\ SessionTypeOK
  BY SessionSizes DEF SessionInv
<1>2. PICK q \in Rtc :
         /\ rtc' = [rtc EXCEPT ![e] = q]
         /\ q.state = r.state /\ q.is_server = r.is_server /\ q.dtls = r.dtls
         /\ q.gen = r.gen /\ q.sctp = r.sctp
         /\ \A i \in DOMAIN q.out : \E j \in DOMAIN r.out : q.out[i] = r.out[j]
         /\ \A p \in net' : \/ p \in net
                            \/ /\ p \in Message /\ p.to = Other(e)
                               /\ p.type \in Cookies => \E j \in DOMAIN r.out : r.out[j] = p.type
  BY <1>1, PumpMoves
<1>3. /\ RoleKept(e, q) /\ Counted(q, connects'[e]) /\ PeerHolds(q, rtc[Other(e)])
      /\ Holds(r) <=> Holds(q)
  BY <1>2 DEF RoleKept, Counted, PeerHolds, Holds
<1>4. CookiesHeld(q)
  BY <1>2, <1>3 DEF CookiesHeld
<1>5. \A p \in net' : \/ p \in net
                      \/ /\ p \in Message /\ p.to = Other(e)
                         /\ p.type \in Cookies => Holds(q)
  BY <1>2, <1>3 DEF CookiesHeld
<1> QED
  BY <1>2, <1>3, <1>4, <1>5, EndpointStep

\* Offer and answer settle the roles and leave the rest alone.
LEMMA OfferStep ==
  ASSUME SessionInv, nanortc_create_offer
  PROVE  SessionInv'
<1> DEFINE r == rtc["offerer"]
           q == [WithDtls(r, FALSE) EXCEPT !.gen = offer + 1]
<1>1. "offerer" \in Endpoints /\ r \in Rtc /\ offer \in Nat
  BY DEF Endpoints, SessionInv, SessionTypeOK
<1>2. /\ q \in Rtc /\ ~q.is_server /\ q.sctp = r.sctp /\ q.out = r.out
      /\ q.state = r.state /\ r.state = "new"
  <2> DEFINE d == dtls_init(r, FALSE)
  <2>1. WithDtls(r, FALSE) = d
    BY DEF nanortc_create_offer, WithDtls
  <2>2. /\ d \in Rtc /\ d.is_server = FALSE /\ d.state = r.state
        /\ d.sctp = r.sctp /\ d.out = r.out
    BY <1>1 DEF dtls_init, Forget, Rtc, DtlsStates
  <2> HIDE DEF d
  <2>3. q = [d EXCEPT !.gen = offer + 1]
    BY <2>1
  <2>4. r.state = "new"
    BY DEF nanortc_create_offer
  <2> HIDE DEF q
  <2> QED
    <3>1. q \in Rtc
      BY <1>1, <2>2, <2>3, SMTT(30) DEF Rtc
    <3>2. /\ q.is_server = d.is_server /\ q.sctp = d.sctp /\ q.out = d.out
          /\ q.state = d.state
      BY <2>2, <2>3 DEF Rtc
    <3> QED
      BY <2>2, <2>4, <3>1, <3>2
<1>3. /\ rtc' = [rtc EXCEPT !["offerer"] = q] /\ offer' \in Nat
      /\ UNCHANGED <<answer, net, connects, restarts>>
  BY <1>1 DEF nanortc_create_offer
<1> HIDE DEF q
<1> QED
  BY <1>1, <1>2, <1>3, EndpointStep DEF SessionInv, SessionTypeOK, RoleKept, Counted,
     CookiesHeld, PeerHolds, Holds

\* nanortc_accept_offer keeps the invariant: it fixes the role of the answerer.
LEMMA AcceptOfferStep ==
  ASSUME SessionInv, nanortc_accept_offer
  PROVE  SessionInv'
<1> DEFINE r == rtc["answerer"]
           q == AnswersPassive(r)
<1>1. "answerer" \in Endpoints /\ r \in Rtc /\ offer \in Nat /\ RoleKept("answerer", r)
  BY DEF Endpoints, SessionInv, SessionTypeOK
<1>2. /\ q \in Rtc /\ q.is_server /\ q.sctp = r.sctp /\ q.out = r.out
      /\ q.state = r.state /\ r.state = "new"
  <2>1. CASE r.dtls = "none"
    BY <1>1, <2>1 DEF nanortc_accept_offer, AnswersPassive, WithDtls, dtls_init, Forget, Rtc, DtlsStates
  <2>2. CASE r.dtls # "none"
    BY <1>1, <2>2 DEF nanortc_accept_offer, AnswersPassive, WithDtls, Rtc, RoleKept
  <2> QED
    BY <2>1, <2>2
<1>3. /\ rtc' = [rtc EXCEPT !["answerer"] = q] /\ answer' \in Nat
      /\ UNCHANGED <<offer, net, connects, restarts>>
  BY <1>1 DEF nanortc_accept_offer
<1> HIDE DEF q
<1> QED
  <2>1. /\ Other("answerer") = "offerer" /\ r = rtc["answerer"]
        /\ offer' \in Nat /\ restarts' \in [Endpoints -> Nat] /\ connects' \in [Endpoints -> Nat]
        /\ connects'["offerer"] = connects["offerer"] /\ connects'["answerer"] = connects["answerer"]
        /\ \A p \in net' : p \in net
    BY <1>3, Others DEF SessionInv, SessionTypeOK
  <2>2. /\ RoleKept("answerer", r) /\ Counted(r, connects["answerer"]) /\ CookiesHeld(r)
        /\ PeerHolds(r, rtc["offerer"])
    BY <1>1, <2>1 DEF SessionInv
  <2> HIDE DEF r
  <2>3. /\ RoleKept("answerer", q) /\ Counted(q, connects'["answerer"]) /\ CookiesHeld(q)
        /\ PeerHolds(q, rtc["offerer"]) /\ (Holds(r) => Holds(q))
    BY <1>2, <2>1, <2>2 DEF RoleKept, Counted, CookiesHeld, PeerHolds, Holds
  <2> QED
    BY <1>1, <1>2, <1>3, <2>1, <2>3, EndpointStep

\* nanortc_accept_answer keeps the invariant.
LEMMA AcceptAnswerStep ==
  ASSUME SessionInv, nanortc_accept_answer
  PROVE  SessionInv'
<1> DEFINE r == rtc["offerer"]
           q == [r EXCEPT !.negotiated = TRUE, !.is_server = FALSE]
<1>1. "offerer" \in Endpoints /\ r \in Rtc
  BY DEF Endpoints, SessionInv, SessionTypeOK
<1>2. /\ q \in Rtc /\ ~q.is_server /\ q.sctp = r.sctp /\ q.out = r.out
      /\ q.state = r.state /\ r.state = "new"
  BY <1>1 DEF nanortc_accept_answer, Rtc
<1>3. /\ rtc' = [rtc EXCEPT !["offerer"] = q]
      /\ UNCHANGED <<offer, answer, net, connects, restarts>>
  BY <1>1 DEF nanortc_accept_answer
<1> HIDE DEF q
<1> QED
  BY <1>1, <1>2, <1>3, EndpointStep DEF SessionInv, SessionTypeOK, RoleKept, Counted,
     CookiesHeld, PeerHolds, Holds

\* ICE completion keeps the invariant: DTLS starts in the role that was agreed.
LEMMA IceConnectsStep ==
  ASSUME SessionInv, NEW e \in Endpoints, NEW hello \in Hellos, NEW slots \in FreeSlots,
         IceConnects(e, hello, slots)
  PROVE  SessionInv'
<1> DEFINE r == [rtc[e] EXCEPT !.ice = "connected"]
           q == rtc_begin_dtls_handshake(r, hello)
<1>1. rtc[e] \in Rtc /\ hello \in FlightNames
  BY SessionSizes DEF SessionInv, SessionTypeOK, FlightNames
<1>2. /\ r \in Rtc /\ r.state = rtc[e].state /\ r.sctp = rtc[e].sctp /\ r.out = rtc[e].out
      /\ r.is_server = rtc[e].is_server /\ r.dtls = rtc[e].dtls
  BY <1>1 DEF Rtc
<1>3. r.state = "new" /\ r.dtls = "init" /\ Pump(e, q, slots, FALSE, {})
      /\ UNCHANGED <<offer, answer, connects, restarts>>
  BY DEF IceConnects
<1> HIDE DEF r
<1>4. /\ q \in Rtc /\ q.state = "dtls_handshaking" /\ q.sctp = r.sctp /\ q.out = r.out
      /\ q.is_server = r.is_server /\ q.dtls # "none"
  BY <1>1, <1>2, <1>3 DEF rtc_begin_dtls_handshake, dtls_start, bio_send_cb, Rtc, ConnStates,
                          DtlsStates
<1> HIDE DEF q
<1>5. /\ RoleKept(e, q) /\ Counted(q, connects[e]) /\ CookiesHeld(q)
      /\ PeerHolds(q, rtc[Other(e)]) /\ (Holds(rtc[e]) => Holds(q))
  <2>1. RoleKept(e, q)
    BY <1>2, <1>3, <1>4 DEF SessionInv, RoleKept
  <2>2. Counted(q, connects[e])
    <3>1. Counted(rtc[e], connects[e]) /\ rtc[e].state = "new"
      BY <1>2, <1>3 DEF SessionInv
    <3> QED
      BY <3>1, Ranks DEF Counted
  <2>3. CookiesHeld(q) /\ PeerHolds(q, rtc[Other(e)]) /\ (Holds(rtc[e]) => Holds(q))
    BY <1>2, <1>3, <1>4 DEF SessionInv, CookiesHeld, PeerHolds, Holds
  <2> QED
    BY <2>1, <2>2, <2>3
<1> QED
  BY <1>3, <1>4, <1>5, PumpStep DEF SessionInv, SessionTypeOK

\* A DTLS record that arrives, completing the handshake or not, keeps the invariant.
LEMMA DtlsStep ==
  ASSUME SessionInv, NEW e \in Endpoints, NEW p \in net, NEW slots \in FreeSlots,
         DtlsArrives(e, p, slots)
  PROVE  SessionInv'
<1> DEFINE r == dtls_handle_data(rtc[e], p.type)
           done == rtc_finish_dtls(r)
<1>1. rtc[e] \in Rtc
  BY DEF SessionInv, SessionTypeOK
<1>2. OnlyDtls(rtc[e], r)
  BY <1>1, DtlsDataMoves
<1>3. \/ net' = net \ {p} /\ UNCHANGED rtc
      \/ Pump(e, done, slots, done.state = "sctp_connecting" /\ done # r, {p})
  BY DEF DtlsArrives
<1>4. UNCHANGED <<offer, answer, connects, restarts>>
  BY DEF DtlsArrives
<1> HIDE DEF r
<1>5. /\ done \in Rtc /\ done.is_server = r.is_server /\ done.dtls = r.dtls
      /\ \/ done.state = r.state
         \/ /\ Rank(r.state) < Rank("connected") /\ r.dtls = "established"
            /\ done.state \in {"dtls_connected", "sctp_connecting"}
      /\ Holds(r) <=> Holds(done)
      /\ done.sctp = r.sctp \/ done.sctp = "cookie_wait"
      /\ \A i \in DOMAIN done.out : done.out[i] \in Cookies =>
            \E j \in DOMAIN r.out : done.out[i] = r.out[j]
      /\ r.sctp = "established" => done.sctp = "established"
  BY <1>2, FinishMoves DEF OnlyDtls, Holds
<1> HIDE DEF done
<1>6. /\ RoleKept(e, done) /\ Counted(done, connects[e]) /\ CookiesHeld(done)
      /\ PeerHolds(done, rtc[Other(e)]) /\ (Holds(rtc[e]) => Holds(done))
  <2>1. RoleKept(e, done)
    BY <1>2, <1>5 DEF SessionInv, OnlyDtls, RoleKept
  <2>2. Counted(done, connects[e])
    BY <1>2, <1>5 DEF SessionInv, OnlyDtls, Counted
  <2>3. CookiesHeld(done)
    BY <1>2, <1>5 DEF SessionInv, OnlyDtls, CookiesHeld, Holds
  <2>4. PeerHolds(done, rtc[Other(e)]) /\ (Holds(rtc[e]) => Holds(done))
    BY <1>2, <1>5 DEF SessionInv, OnlyDtls, PeerHolds, Holds
  <2> QED
    BY <2>1, <2>2, <2>3, <2>4
<1>7. CASE net' = net \ {p} /\ UNCHANGED rtc
  BY <1>4, <1>7, DropStep
<1>8. CASE Pump(e, done, slots, done.state = "sctp_connecting" /\ done # r, {p})
  BY <1>4, <1>5, <1>6, <1>8, PumpStep DEF SessionInv, SessionTypeOK
<1> QED
  BY <1>3, <1>7, <1>8

\* An SCTP control packet that arrives keeps the invariant: only an endpoint that
\* holds the association answers with a cookie packet.
LEMMA SctpStep ==
  ASSUME SessionInv, NEW e \in Endpoints, NEW p \in net, NEW slots \in FreeSlots,
         SctpArrives(e, p, slots)
  PROVE  SessionInv'
<1> DEFINE r == nsctp_handle_data(rtc[e], p.type)
           q == IF Completes(r) THEN [r EXCEPT !.state = "connected"] ELSE r
<1>1. rtc[e] \in Rtc /\ p \in Message
  BY DEF SessionInv, SessionTypeOK
<1>2. /\ p.to = e /\ p.type \in Types /\ UNCHANGED <<offer, answer, restarts>>
      /\ \/ net' = net \ {p} /\ UNCHANGED <<rtc, connects>>
         \/ /\ ~Rejected(rtc[e], p.type) /\ rtc[e].dtls = "established"
            /\ Pump(e, q, slots, TRUE, {p})
            /\ connects' = IF Completes(r) THEN [connects EXCEPT ![e] = @ + 1] ELSE connects
  BY DEF SctpArrives
<1>3. CASE net' = net \ {p} /\ UNCHANGED <<rtc, connects>>
  BY <1>2, <1>3, DropStep
<1>4. CASE /\ ~Rejected(rtc[e], p.type) /\ rtc[e].dtls = "established"
           /\ Pump(e, q, slots, TRUE, {p})
           /\ connects' = IF Completes(r) THEN [connects EXCEPT ![e] = @ + 1] ELSE connects
  <2>1. /\ r \in Rtc /\ r.is_server = rtc[e].is_server /\ r.dtls = rtc[e].dtls
        /\ r.state = rtc[e].state
        /\ Holds(rtc[e]) => Holds(r)
        /\ r.sctp = rtc[e].sctp \/ (p.type = "init_ack" /\ r.sctp = "cookie_echoed")
              \/ (p.type \in Cookies /\ r.sctp = "established")
        /\ \A i \in DOMAIN r.out : r.out[i] \in Cookies =>
              Holds(r) \/ \E j \in DOMAIN rtc[e].out : r.out[i] = rtc[e].out[j]
        /\ rtc[e].sctp = "established" => r.sctp = "established"
    BY <1>1, <1>2, <1>4, SctpMoves
  <2>2. p.type \in Cookies => Holds(rtc[Other(e)])
    BY <1>2 DEF SessionInv, SendersHold
  <2> HIDE DEF r
  <2>3. /\ q \in Rtc /\ q.is_server = r.is_server /\ q.dtls = r.dtls /\ q.sctp = r.sctp
        /\ q.out = r.out
        /\ IF Completes(r) THEN q.state = "connected" ELSE q.state = r.state
    BY <2>1 DEF Rtc, ConnStates
  <2> HIDE DEF q
  <2>4. Completes(r) => q.sctp = "established" /\ Rank(rtc[e].state) < Rank("connected")
    BY <2>1, <2>3 DEF Completes
  <2>5. /\ connects' \in [Endpoints -> Nat] /\ connects'[Other(e)] = connects[Other(e)]
        /\ connects'[e] = IF Completes(r) THEN connects[e] + 1 ELSE connects[e]
    BY <1>4, Others DEF SessionInv, SessionTypeOK
  <2>6. RoleKept(e, q)
    BY <1>4, <2>1, <2>3 DEF SessionInv, RoleKept
  <2>7. Counted(q, connects'[e])
    <3>1. Counted(rtc[e], connects[e]) /\ connects[e] \in Nat
      BY DEF SessionInv, SessionTypeOK
    <3> QED
      BY <2>1, <2>3, <2>4, <2>5, <3>1, Ranks DEF Counted
  <2>8. CookiesHeld(q) /\ (Holds(rtc[e]) => Holds(q)) /\ PeerHolds(q, rtc[Other(e)])
    BY <2>1, <2>2, <2>3, <2>4 DEF SessionInv, CookiesHeld, PeerHolds, Holds
  <2> QED
    BY <1>2, <1>4, <2>3, <2>5, <2>6, <2>7, <2>8, PumpStep DEF SessionInv, SessionTypeOK
<1> QED
  BY <1>2, <1>3, <1>4

\* A run of the timers, the pump included, keeps the invariant.
LEMMA TickStep ==
  ASSUME SessionInv, NEW e \in Endpoints, NEW due \in BOOLEAN, NEW slots \in FreeSlots,
         Tick(e, due, slots)
  PROVE  SessionInv'
<1> DEFINE r == IF due THEN Timers(rtc[e]) ELSE rtc[e]
<1>1. /\ Pump(e, r, slots, r.sctp # "closed" /\ r.dtls = "established", {})
      /\ UNCHANGED <<offer, answer, connects, restarts>>
  BY DEF Tick
<1>2. rtc[e] \in Rtc
  BY DEF SessionInv, SessionTypeOK
<1>3. /\ r \in Rtc /\ r.is_server = rtc[e].is_server /\ r.state = rtc[e].state
      /\ r.dtls = rtc[e].dtls /\ r.sctp = rtc[e].sctp
      /\ \A i \in DOMAIN r.out : r.out[i] \in Cookies =>
            \E j \in DOMAIN rtc[e].out : r.out[i] = rtc[e].out[j]
  BY <1>2, TimersMove
<1> HIDE DEF r
<1>4. /\ RoleKept(e, r) /\ Counted(r, connects[e]) /\ CookiesHeld(r)
      /\ PeerHolds(r, rtc[Other(e)]) /\ (Holds(rtc[e]) => Holds(r))
  BY <1>3 DEF SessionInv, RoleKept, Counted, CookiesHeld, PeerHolds, Holds
<1> QED
  BY <1>1, <1>3, <1>4, PumpStep DEF SessionInv, SessionTypeOK

\* The expiry of ICE consent keeps the invariant.
LEMMA ConsentStep ==
  ASSUME SessionInv, NEW e \in Endpoints, ConsentExpires(e)
  PROVE  SessionInv'
<1> DEFINE q == [rtc[e] EXCEPT !.ice = "disconnected", !.state = "closed"]
<1>1. rtc[e] \in Rtc
  BY DEF SessionInv, SessionTypeOK
<1>2. /\ rtc' = [rtc EXCEPT ![e] = q]
      /\ UNCHANGED <<offer, answer, net, connects, restarts>>
  BY DEF ConsentExpires, SessionInv, SessionTypeOK
<1>3. /\ q \in Rtc /\ q.is_server = rtc[e].is_server /\ q.dtls = rtc[e].dtls
      /\ q.sctp = rtc[e].sctp /\ q.out = rtc[e].out /\ q.state = "closed"
  BY <1>1 DEF Rtc, ConnStates
<1> HIDE DEF q
<1>4. /\ RoleKept(e, q) /\ Counted(q, connects[e]) /\ CookiesHeld(q)
      /\ PeerHolds(q, rtc[Other(e)]) /\ (Holds(rtc[e]) => Holds(q))
  BY <1>3, Ranks DEF SessionInv, RoleKept, Counted, CookiesHeld, PeerHolds, Holds
<1> QED
  BY <1>2, <1>3, <1>4, EndpointStep DEF SessionInv, SessionTypeOK

\* nanortc_disconnect keeps the invariant.
LEMMA DisconnectStep ==
  ASSUME SessionInv, NEW e \in Endpoints, NEW slots \in FreeSlots,
         nanortc_disconnect(e, slots)
  PROVE  SessionInv'
<1> DEFINE r == rtc[e]
           shutdown == IF r.sctp = "established" /\ r.dtls = "established"
                       THEN {"shutdown"} ELSE {}
           sctp == IF r.sctp = "established" THEN "shutdown_sent" ELSE r.sctp
           c == dtls_close(r)
           q == [c EXCEPT !.state = "closed", !.dtls_out = @ \cup shutdown,
                          !.sctp = IF @ = "established" THEN "shutdown_sent" ELSE @]
<1>1. r \in Rtc
  BY DEF SessionInv, SessionTypeOK
<1>2. /\ r.state \notin {"closed", "new"} /\ Pump(e, q, slots, FALSE, {})
      /\ UNCHANGED <<offer, answer, connects, restarts>>
  BY DEF nanortc_disconnect
<1>3. /\ c \in Rtc /\ c.is_server = r.is_server /\ c.dtls = "closed"
      /\ c.sctp = r.sctp /\ c.out = r.out
  BY <1>1 DEF dtls_close, Forget, Rtc, DtlsStates
<1> HIDE DEF c
<1>4. /\ q \in Rtc /\ q.is_server = r.is_server /\ q.dtls = "closed"
      /\ q.sctp = sctp /\ q.out = r.out /\ q.state = "closed"
  BY <1>3, ZenonT(60) DEF Rtc, ConnStates, SctpStates
<1> HIDE DEF q
<1>5. RoleKept(e, q)
  BY <1>2, <1>4 DEF SessionInv, RoleKept
<1>6. /\ Counted(q, connects[e]) /\ CookiesHeld(q)
      /\ PeerHolds(q, rtc[Other(e)]) /\ (Holds(rtc[e]) => Holds(q))
  BY <1>4, Ranks DEF SessionInv, Counted, CookiesHeld, PeerHolds, Holds
<1> QED
  BY <1>2, <1>4, <1>5, <1>6, PumpStep DEF SessionInv, SessionTypeOK

\* nanortc_ice_restart keeps the invariant: the count starts anew, SCTP goes on.
LEMMA RestartStep ==
  ASSUME SessionInv, NEW e \in Endpoints, nanortc_ice_restart(e)
  PROVE  SessionInv'
<1> DEFINE d == dtls_destroy(rtc[e])
           q == [d EXCEPT !.state = "new", !.ice = "new", !.negotiated = FALSE]
<1>1. rtc[e] \in Rtc
  BY DEF SessionInv, SessionTypeOK
<1>2. /\ rtc' = [rtc EXCEPT ![e] = q] /\ connects' = [connects EXCEPT ![e] = 0]
      /\ restarts' = [restarts EXCEPT ![e] = @ + 1] /\ net' \subseteq net
      /\ UNCHANGED <<offer, answer>>
  BY DEF nanortc_ice_restart
<1>3. /\ d \in Rtc /\ d.is_server = rtc[e].is_server /\ d.dtls = "none"
      /\ d.sctp = rtc[e].sctp /\ d.out = rtc[e].out
  BY <1>1 DEF dtls_destroy, Forget, Rtc, DtlsStates
<1> HIDE DEF d
<1>4. /\ q \in Rtc /\ q.is_server = rtc[e].is_server /\ q.dtls = "none"
      /\ q.sctp = rtc[e].sctp /\ q.out = rtc[e].out /\ q.state = "new"
  BY <1>3 DEF Rtc, ConnStates
<1> HIDE DEF q
<1>5. /\ connects' \in [Endpoints -> Nat] /\ connects'[e] = 0
      /\ connects'[Other(e)] = connects[Other(e)] /\ restarts' \in [Endpoints -> Nat]
  BY <1>2, Others DEF SessionInv, SessionTypeOK
<1>6. /\ RoleKept(e, q) /\ Counted(q, connects'[e]) /\ CookiesHeld(q)
      /\ PeerHolds(q, rtc[Other(e)]) /\ (Holds(rtc[e]) => Holds(q))
  BY <1>4, <1>5, Ranks DEF SessionInv, RoleKept, Counted, CookiesHeld, PeerHolds, Holds
<1> QED
  BY <1>2, <1>4, <1>5, <1>6, EndpointStep DEF SessionInv, SessionTypeOK

\* Every step keeps the invariant.
LEMMA NextInv == SessionInv /\ [Next]_vars => SessionInv'
<1> SUFFICES ASSUME SessionInv, [Next]_vars PROVE SessionInv'
  OBVIOUS
<1>1. CASE nanortc_create_offer \/ nanortc_accept_offer \/ nanortc_accept_answer
  BY <1>1, OfferStep, AcceptOfferStep, AcceptAnswerStep
<1>2. CASE \E e \in Endpoints : ConsentExpires(e) \/ nanortc_ice_restart(e)
  BY <1>2, ConsentStep, RestartStep
<1>3. ASSUME NEW e \in Endpoints, NEW slots \in FreeSlots,
             \/ \E hello \in Hellos : IceConnects(e, hello, slots)
             \/ \E p \in net : DtlsArrives(e, p, slots) \/ SctpArrives(e, p, slots)
             \/ \E due \in BOOLEAN : Tick(e, due, slots)
             \/ nanortc_disconnect(e, slots)
      PROVE  SessionInv'
  BY <1>3, IceConnectsStep, DtlsStep, SctpStep, TickStep, DisconnectStep
<1>4. CASE \E p \in net : Lose(p)
  BY <1>4, DropStep DEF Lose
<1>5. CASE UNCHANGED vars
  BY <1>5, DropStep DEF vars
<1> QED
  BY <1>1, <1>2, <1>3, <1>4, <1>5 DEF Next

-----------------------------------------------------------------------------
(* The theorems.                                                            *)

\* The inductive invariant holds in every reachable state: in particular every field of
\* nanortc_t, every packet and every counter has its type.
THEOREM SessionInvariant == Spec => []SessionInv
BY InitInv, NextInv, PTL DEF Spec

\* Whatever is lost, restarted or answered twice, the two ends of one DTLS association
\* never both act as client or both as server (nanortc_accept_offer, dtls_init).
THEOREM RolesAreSettled == Spec => []RolesSettled
<1>1. SessionInv => RolesSettled
  BY DEF SessionInv, RoleKept, RolesSettled, Endpoints
<1> QED
  BY <1>1, SessionInvariant, PTL

\* An endpoint reports CONNECTED only to an application whose peer has echoed the cookie:
\* in any order of packets, with any number of them lost (nsctp_handle_cookie_echo,
\* nsctp_handle_cookie_ack).
THEOREM ConnectedMeansHeld == Spec => []ConnectedTogether
<1>1. SessionInv => ConnectedTogether
  BY DEF SessionInv, CookiesHeld, PeerHolds, Holds, ConnectedTogether
<1> QED
  BY <1>1, SessionInvariant, PTL

\* CONNECTED is reported at most once between two restarts, however many heartbeats and
\* repeated cookies arrive (rtc_process_receive).
THEOREM ReportedOnce == Spec => []ConnectedOnce
<1>1. SessionInv => ConnectedOnce
  BY DEF SessionInv, Counted, ConnectedOnce
<1> QED
  BY <1>1, SessionInvariant, PTL
=============================================================================
