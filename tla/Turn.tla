-------------------------------- MODULE Turn --------------------------------
(***************************************************************************)
(* The TURN client of src/nano_turn.c as the RTC core drives it (one       *)
(* request per run of the timers), against a server that follows RFC 8656. *)
(*                                                                         *)
(* Deadlines are kept as the ticks that are left; Unarmed stands for the   *)
(* value 0 that the code reserves. LateClock says in which half of its     *)
(* range the 32-bit clock is, which only a comparison with 0 can tell.     *)
(* A transaction id is random in the code; here it is any id that nothing  *)
(* else uses. A message arrives within the tick, unless it is delayed by   *)
(* up to MAX_AGE ticks, or lost: any message may be in an outage of up to  *)
(* MAX_OUTAGE ticks. Outages, delays, new nonces, refusals, ICE restarts   *)
(* and deallocations draw on the budget FAULTS.                            *)
(***************************************************************************)
EXTENDS Integers, SequencesExt

CONSTANTS
    Peers,              \* transport addresses of the remote peer, one per IP
    LateClock,          \* is the clock in the upper half of its range?
    MAX_PERMISSIONS,    \* NANORTC_TURN_MAX_PERMISSIONS
    MAX_CHANNELS,       \* NANORTC_TURN_MAX_CHANNELS
    MAX_TRANSMISSIONS,  \* NANORTC_TURN_MAX_TRANSMISSIONS
    RTO_MAX,            \* TURN_RTO_MAX_MULTIPLIER, in units of the RTO
    LIFETIME, MARGIN,   \* TURN_DEFAULT_LIFETIME, TURN_REFRESH_MARGIN_MS
    PERMISSION_INTERVAL, PERMISSION_LIFETIME,
    CHANNEL_REFRESH, CHANNEL_LIFETIME,
    MAX_AGE, MAX_OUTAGE, FAULTS

ASSUME TurnSizes ==
    /\ LateClock \in BOOLEAN
    /\ {MAX_PERMISSIONS, MAX_CHANNELS, MAX_TRANSMISSIONS, RTO_MAX, PERMISSION_INTERVAL,
        CHANNEL_REFRESH, MARGIN} \subseteq Nat \ {0}
    /\ {MAX_AGE, MAX_OUTAGE, FAULTS} \subseteq Nat
    /\ MARGIN < LIFETIME /\ PERMISSION_INTERVAL < PERMISSION_LIFETIME
    /\ CHANNEL_REFRESH < CHANNEL_LIFETIME

VARIABLES
    turn,       \* nano_turn_t
    remotes,    \* the ICE remote candidates in signalling order
    selected,   \* the peer of the selected pair when its local candidate is the relay
    server,     \* nonce, and the ticks each of its leases has left
    net,        \* messages under way
    outage,     \* ticks for which messages may still be lost
    faults

vars == <<turn, remotes, selected, server, net, outage, faults>>

Unarmed == -1
None == "none"
Channels == 1 .. MAX_CHANNELS

\* A transaction, a permission or a channel binding: held is active or bound, and a
\* pending request either waits for its answer or has to be sent anew (reauth). Its id and
\* its number of transmissions are 0 when none is pending.
Request(peer, held, txid) ==
    [peer |-> peer, held |-> held, terminal |-> FALSE, pending |-> "waiting",
     left |-> Unarmed, sent |-> 1, txid |-> txid]

NoTransaction == [type |-> None, auth |-> FALSE, reauth |-> FALSE, left |-> Unarmed,
                  sent |-> 0, txid |-> 0]

\* turn_init and turn_configure: auth holds the password until a key replaces it.
Configured == [state |-> "idle", auth |-> "password", key_valid |-> FALSE, nonce |-> 0,
               txn |-> NoTransaction, refresh |-> Unarmed,
               permissions |-> <<>>, channels |-> <<>>]

Init ==
    /\ turn = Configured /\ remotes = <<>> /\ selected = None
    /\ server = [nonce |-> 1, allocation |-> 0, permissions |-> [p \in Peers |-> 0],
                 channels |-> [c \in Channels |-> [peer |-> None, left |-> 0]]]
    /\ net = {} /\ outage = 0 /\ faults = 0

-----------------------------------------------------------------------------
(* Requests, their retransmission and their deadlines.                      *)

turn_retry_delay_ms(sent) == Min({2 ^ (sent - 1), RTO_MAX})

\* The margin of turn_refresh_delay_ms shrinks to half of a short lifetime.
turn_refresh_delay_ms(lifetime) ==
    Max({1, IF lifetime > MARGIN THEN lifetime - MARGIN ELSE lifetime - (lifetime \div 2)})

\* The ids of one kind of request: the first that neither the client nor a message has.
Transactions == {"allocate", "refresh"}
FreshTxid(t, types) ==
    LET used == {m.txid : m \in {x \in net : x.type \in types}} \cup
                CASE types = Transactions -> {t.txn.txid}
                  [] types = {"permission"} -> {r.txid : r \in Range(t.permissions)}
                  [] types = {"channel"} -> {r.txid : r \in Range(t.channels)}
    IN Min((1 .. Cardinality(used) + 1) \ used)

\* nano_time_is_due on a deadline of 0 depends on the half of the clock.
IsDue(left) == IF left = Unarmed THEN ~LateClock ELSE left = 0

\* The requests the client builds: all but the first Allocate carry its nonce and key.
Message(type, txid, t, peer, channel, lifetime) ==
    [to |-> "server", type |-> type, txid |-> txid, nonce |-> t.nonce, key |-> t.auth,
     auth |-> TRUE, peer |-> peer, channel |-> channel, lifetime |-> lifetime, age |-> 0]
turn_build_allocate(t, auth, txid) ==
    [Message("allocate", txid, t, None, 0, LIFETIME) EXCEPT
        !.auth = auth, !.nonce = IF auth THEN @ ELSE 0, !.key = IF auth THEN @ ELSE None]
turn_build_refresh(t, lifetime, txid) == Message("refresh", txid, t, None, 0, lifetime)
turn_build_permission(t, peer, txid) == Message("permission", txid, t, peer, 0, 0)
turn_build_channel_bind(t, c, txid) ==
    Message("channel", txid, t, t.channels[c].peer, c, 0)

\* turn_start_transaction
StartTransaction(t, type, auth, txid) ==
    [t EXCEPT !.txn = [type |-> type, auth |-> auth, reauth |-> FALSE, left |-> Unarmed,
                       sent |-> 1, txid |-> txid]]

\* turn_clear_transaction, with the client out of service.
Failed(t) == [t EXCEPT !.state = "failed", !.txn = NoTransaction]

\* turn_store_nonce: every request that waits has to be sent with the new nonce.
turn_store_nonce(t, nonce) ==
    LET Again(rs) == [i \in DOMAIN rs |-> IF rs[i].pending = None THEN rs[i]
                                          ELSE [rs[i] EXCEPT !.pending = "reauth"]]
    IN [t EXCEPT !.nonce = nonce,
                 !.txn.reauth = @ \/ (t.txn.type # None /\ t.txn.auth),
                 !.permissions = Again(@), !.channels = Again(@)]

turn_reset_peer_state(t) == [t EXCEPT !.permissions = <<>>, !.channels = <<>>]

\* turn_generate_retransmit: the first request of the table rs that can be sent again, or
\* 0 when there is none. Those before it are armed or, their transmissions used up, given up.
FirstDue(rs) ==
    LET due == {i \in DOMAIN rs : /\ rs[i].pending # None
                                  /\ rs[i].left # Unarmed \/ rs[i].pending = "reauth"
                                  /\ IsDue(rs[i].left) /\ rs[i].sent < MAX_TRANSMISSIONS}
    IN IF due = {} THEN 0 ELSE Min(due)

\* A request that is given up: a permission is no longer held, a channel stays bound.
KeepHeld(r) ==
    [r EXCEPT !.pending = None, !.terminal = FALSE, !.sent = 0, !.txid = 0,
              !.left = turn_retry_delay_ms(MAX_TRANSMISSIONS)]
PermissionExpired(r) ==
    [r EXCEPT !.pending = None, !.held = FALSE, !.terminal = FALSE, !.sent = 0,
              !.txid = 0, !.left = turn_retry_delay_ms(MAX_TRANSMISSIONS)]
ChannelExpired(r) == [r EXCEPT !.pending = None, !.left = Unarmed, !.sent = 0, !.txid = 0]

\* The table after the call.
Serviced(rs, kind, txid) ==
    LET first == FirstDue(rs)
        Expired(r) == IF kind = "permission" THEN PermissionExpired(r) ELSE ChannelExpired(r)
        Service(i) ==
            LET r == rs[i]
            IN CASE r.pending = None \/ (first # 0 /\ i > first) -> r
                 [] OTHER ->
                    IF r.left = Unarmed /\ r.pending = "waiting"
                    THEN [r EXCEPT !.left = turn_retry_delay_ms(r.sent)]
                    ELSE IF ~IsDue(r.left) THEN r
                    ELSE IF i # first THEN Expired(r)
                    ELSE [r EXCEPT !.txid = IF r.pending = "reauth" THEN txid ELSE @,
                                   !.pending = "waiting", !.sent = @ + 1,
                                   !.left = turn_retry_delay_ms(r.sent + 1)]
    IN [i \in DOMAIN rs |-> Service(i)]

\* turn_generate_retransmit: the transaction is due for another transmission.
TransactionDue(t) == /\ t.txn.type # None /\ IsDue(t.txn.left)
                     /\ t.txn.left # Unarmed \/ t.txn.reauth
TransactionAgain(t) ==
    [t EXCEPT !.txn.txid = IF t.txn.reauth THEN FreshTxid(t, Transactions) ELSE @, !.txn.reauth = FALSE,
              !.txn.sent = @ + 1, !.txn.left = turn_retry_delay_ms(t.txn.sent + 1)]

\* Otherwise it is armed if it has to be, and the tables are serviced up to the first
\* request that is sent.
TablesServiced(t) ==
    [t EXCEPT !.txn.left = IF t.txn.type # None /\ @ = Unarmed /\ ~t.txn.reauth
                           THEN turn_retry_delay_ms(t.txn.sent) ELSE @,
              !.permissions = Serviced(@, "permission", FreshTxid(t, {"permission"})),
              !.channels = IF FirstDue(t.permissions) # 0 THEN @
                           ELSE Serviced(@, "channel", FreshTxid(t, {"channel"}))]

-----------------------------------------------------------------------------
(* New requests.                                                            *)

\* The entry of rs for peer, 0 when there is none.
IndexOf(rs, peer) == LET found == {i \in DOMAIN rs : rs[i].peer = peer}
                     IN IF found = {} THEN 0 ELSE Min(found)

turn_can_create_permission(t, peer) ==
    LET i == IndexOf(t.permissions, peer)
    IN /\ t.state = "allocated"
       /\ IF i = 0 THEN Len(t.permissions) < MAX_PERMISSIONS
          ELSE LET p == t.permissions[i]
               IN ~p.held /\ p.pending = None /\ ~p.terminal /\ p.left \in {Unarmed, 0}

\* A peer that has no place, or that the server refused, does not hold ICE up.
FreezeUnplaced(t, peer) ==
    LET i == IndexOf(t.permissions, peer)
    IN i # 0 /\ (t.permissions[i].held \/ t.permissions[i].terminal)
turn_peer_is_ready(t, peer) ==
    LET i == IndexOf(t.permissions, peer)
    IN IF i = 0 THEN Len(t.permissions) >= MAX_PERMISSIONS
       ELSE t.permissions[i].held \/ t.permissions[i].terminal

turn_can_bind_channel(t, peer) ==
    LET i == IndexOf(t.permissions, peer)
        c == IndexOf(t.channels, peer)
    IN /\ t.state = "allocated" /\ i # 0 /\ t.permissions[i].held
       /\ IF c = 0 THEN Len(t.channels) < MAX_CHANNELS
          ELSE ~t.channels[c].held /\ t.channels[c].pending = None

\* Which channel carries data for peer, and which peer data of channel c is from.
turn_find_channel_for_peer(t, peer) ==
    LET c == IndexOf(t.channels, peer) IN IF c # 0 /\ t.channels[c].held THEN c ELSE 0
turn_find_peer_for_channel(t, c) ==
    IF c \in DOMAIN t.channels /\ t.channels[c].held THEN t.channels[c].peer ELSE None

\* Relayed data, without its payload: an indication names the peer, channel data a channel.
turn_wrap_send(peer) == [form |-> "indication", peer |-> peer]
nano_turn_wrap_channel_data(c) == [form |-> "channel", channel |-> c]

\* rtc_poll_queued_output wraps what was queued for peer with the bindings of that moment.
LazyWrap(t, peer) ==
    LET c == turn_find_channel_for_peer(t, peer)
    IN IF c # 0 THEN nano_turn_wrap_channel_data(c) ELSE turn_wrap_send(peer)

\* rtc_process_receive: the source that data d from the server is dispatched with.
UnwrappedSource(t, d) ==
    IF d.form = "channel" THEN turn_find_peer_for_channel(t, d.channel) ELSE d.peer

-----------------------------------------------------------------------------
(* Timers: rtc_process_timers lets turn_poll_output send one request, or     *)
(* asks for the permission of a remote candidate or the selected channel.   *)

\* turn_next_work: what is runnable now, in the order of turn_consider_work.
Runnable(left) == left \in {Unarmed, 0}
RefreshesDue(rs) == {i \in DOMAIN rs : /\ rs[i].pending = None /\ ~rs[i].terminal
                                       /\ Runnable(rs[i].left)}
BoundDue(rs) == {i \in RefreshesDue(rs) : rs[i].held}
turn_next_work(t) ==
    LET Pending(rs) == \E i \in DOMAIN rs : rs[i].pending # None /\ Runnable(rs[i].left)
    IN IF t.state = "failed" THEN None
       ELSE IF t.txn.type # None /\ Runnable(t.txn.left) THEN "retransmit"
       ELSE IF t.txn.type = None /\ t.state \in {"idle", "challenged"} THEN "allocate"
       ELSE IF t.state # "allocated" THEN None
       ELSE IF Pending(t.permissions) \/ Pending(t.channels) THEN "retransmit"
       ELSE IF t.txn.type = None /\ Runnable(t.refresh) THEN "refresh"
       ELSE IF RefreshesDue(t.permissions) # {} THEN "permission"
       ELSE IF BoundDue(t.channels) # {} THEN "channel"
       ELSE None

\* rtc_turn_next_permission_candidate
PermissionCandidates(t) ==
    {i \in DOMAIN remotes : turn_can_create_permission(t, remotes[i])}
\* rtc_turn_can_bind_channel
CanBindSelected(t) == selected # None /\ turn_can_bind_channel(t, selected)

Send(t, m) == /\ turn' = t /\ net' = net \cup {m}
              /\ UNCHANGED <<remotes, selected, server, faults, outage>>

turn_start_allocate(t) ==
    LET auth == t.state = "challenged" /\ t.key_valid
        txid == FreshTxid(t, Transactions)
    IN Send([StartTransaction(t, "allocate", auth, txid) EXCEPT !.state = "allocating"],
            turn_build_allocate(t, auth, txid))

turn_generate_refresh(t) ==
    LET txid == FreshTxid(t, Transactions)
    IN Send(StartTransaction(t, "refresh", TRUE, txid), turn_build_refresh(t, LIFETIME, txid))

\* A new request in the place i of rs that the peer has, or in a new one.
Placed(rs, i, peer, txid) ==
    IF i = 0 THEN Append(rs, Request(peer, FALSE, txid))
    ELSE [rs EXCEPT ![i] = Request(peer, @.held, txid)]
turn_create_permission(t, peer) ==
    LET txid == FreshTxid(t, {"permission"})
    IN Send([t EXCEPT !.permissions = Placed(@, IndexOf(@, peer), peer, txid)],
            turn_build_permission(t, peer, txid))
turn_channel_bind(t, peer) ==
    LET txid == FreshTxid(t, {"channel"})
        u == [t EXCEPT !.channels = Placed(@, IndexOf(@, peer), peer, txid)]
    IN Send(u, turn_build_channel_bind(u, IndexOf(u.channels, peer), txid))

\* turn_generate_retransmit finds something to send, or gives the transaction up.
Retransmit ==
    /\ turn_next_work(turn) = "retransmit"
    /\ \/ /\ TransactionDue(turn) /\ turn.txn.sent >= MAX_TRANSMISSIONS
          /\ turn' = Failed(turn)
          /\ UNCHANGED <<remotes, selected, server, net, faults, outage>>
       \/ /\ TransactionDue(turn) /\ turn.txn.sent < MAX_TRANSMISSIONS
          /\ \E t \in {TransactionAgain(turn)} :
                Send(t, IF t.txn.type = "allocate"
                        THEN turn_build_allocate(t, t.txn.auth, t.txn.txid)
                        ELSE turn_build_refresh(t, LIFETIME, t.txn.txid))
       \/ /\ ~TransactionDue(turn)
          /\ \E t \in {TablesServiced(turn)}, p \in {FirstDue(turn.permissions)},
                c \in {FirstDue(turn.channels)} :
             \/ p # 0 /\ Send(t, turn_build_permission(t, t.permissions[p].peer,
                                                      t.permissions[p].txid))
             \/ p = 0 /\ c # 0 /\ Send(t, turn_build_channel_bind(t, c, t.channels[c].txid))

\* It finds nothing to send: what is left is t.
NothingToRepeat ==
    \/ turn_next_work(turn) # "retransmit"
    \/ /\ ~TransactionDue(turn)
       /\ FirstDue(turn.permissions) = 0 /\ FirstDue(turn.channels) = 0
Rest == IF turn_next_work(turn) = "retransmit" THEN TablesServiced(turn) ELSE turn

\* The rest of turn_poll_output and of rtc_process_timers.
NewRequest(t, work) ==
    \/ work = "allocate" /\ turn_start_allocate(t)
    \/ work = "refresh" /\ turn_generate_refresh(t)
    \/ /\ work = "permission"
       /\ turn_create_permission(t, t.permissions[Min(RefreshesDue(t.permissions))].peer)
    \/ /\ work = "channel"
       /\ turn_channel_bind(t, t.channels[Min(BoundDue(t.channels))].peer)
    \/ /\ work \in {None, "retransmit"} /\ PermissionCandidates(t) # {}
       /\ turn_create_permission(t, remotes[Min(PermissionCandidates(t))])
    \/ /\ work \in {None, "retransmit"} /\ PermissionCandidates(t) = {} /\ CanBindSelected(t)
       /\ turn_channel_bind(t, selected)

Quiet(t, work) ==
    work \in {None, "retransmit"} /\ PermissionCandidates(t) = {} /\ ~CanBindSelected(t)

Poll ==
    \/ Retransmit
    \/ /\ NothingToRepeat
       /\ \E t \in {Rest} : \E work \in {turn_next_work(t)} :
             \/ NewRequest(t, work)
             \/ /\ Quiet(t, work) /\ t # turn /\ turn' = t
                /\ UNCHANGED <<remotes, selected, server, net, faults, outage>>

\* Running the timers again would change nothing.
AtRest == NothingToRepeat /\ Rest = turn /\ Quiet(turn, turn_next_work(turn))

-----------------------------------------------------------------------------
(* turn_handle_response, reached through rtc_process_receive.                *)

\* The table entry that waits for the answer m.
AnyWaiting(rs, m) == {i \in DOMAIN rs : rs[i].pending = "waiting"}
Waiting(rs, m) == {i \in DOMAIN rs : rs[i].pending = "waiting" /\ rs[i].txid = m.txid}
TxnMatches(t, m) == t.txn.type # None /\ ~t.txn.reauth /\ t.txn.txid = m.txid

\* 438: only the request it answers is due at once.
StaleNonce(t, m) ==
    LET u == turn_store_nonce(t, m.nonce)
        Now(rs, i) == [rs EXCEPT ![i].left = 0]
        Give(sent, v) == IF sent >= MAX_TRANSMISSIONS THEN Failed(t) ELSE v
    IN IF TxnMatches(t, m) THEN Give(t.txn.sent, [u EXCEPT !.txn.left = 0])
       ELSE IF m.type = "permission"
       THEN LET i == Min(Waiting(t.permissions, m))
            IN Give(t.permissions[i].sent, [u EXCEPT !.permissions = Now(@, i)])
       ELSE LET i == Min(Waiting(t.channels, m))
            IN Give(t.channels[i].sent, [u EXCEPT !.channels = Now(@, i)])

\* 401 with realm and nonce: the key is derived from auth, where it replaces the password.
turn_derive_key(t) == [t EXCEPT !.auth = IF @ = "password" THEN "key" ELSE "garbled",
                                !.key_valid = TRUE]
AllocateAnswer(t, m) ==
    CASE m.code = "ok" -> [t EXCEPT !.state = "allocated", !.txn = NoTransaction,
                                    !.refresh = turn_refresh_delay_ms(m.lifetime)]
      [] m.code = "401" /\ ~t.txn.auth ->
            [turn_derive_key(turn_store_nonce([t EXCEPT !.txn = NoTransaction], m.nonce))
                EXCEPT !.state = "challenged"]
      [] OTHER -> Failed(t)
RefreshAnswer(t, m) ==
    IF m.code = "ok" THEN [t EXCEPT !.txn = NoTransaction, !.refresh = turn_refresh_delay_ms(m.lifetime)]
    ELSE Failed(t)
PermissionAnswer(t, m) ==
    LET i == Min(Waiting(t.permissions, m))
        Answered(held, terminal, left) ==
            [t EXCEPT !.permissions[i].pending = None, !.permissions[i].held = held,
                      !.permissions[i].terminal = terminal, !.permissions[i].left = left,
                      !.permissions[i].sent = 0, !.permissions[i].txid = 0]
    IN CASE m.code = "ok" -> Answered(TRUE, FALSE, PERMISSION_INTERVAL)
         [] m.code = "403" -> Answered(FALSE, TRUE, Unarmed)
         [] m.code = "508" -> Answered(FALSE, FALSE, turn_retry_delay_ms(MAX_TRANSMISSIONS))
         [] OTHER -> [Answered(FALSE, FALSE, Unarmed) EXCEPT !.state = "failed"]
ChannelAnswer(t, m) ==
    LET i == Min(Waiting(t.channels, m))
    IN [t EXCEPT !.channels[i].pending = None, !.channels[i].sent = 0, !.channels[i].txid = 0,
                 !.channels[i].held = @ \/ m.code = "ok",
                 !.channels[i].left = IF m.code = "ok" THEN CHANNEL_REFRESH ELSE Unarmed]

\* Foreign and late answers are ignored.
Matches(t, m) ==
    CASE m.type = "permission" -> Waiting(t.permissions, m) # {}
      [] m.type = "channel" -> Waiting(t.channels, m) # {}
      [] OTHER -> TxnMatches(t, m)
turn_handle_response(t, m) ==
    CASE ~Matches(t, m) -> t
      [] m.code = "438" -> StaleNonce(t, m)
      [] m.type = "allocate" -> AllocateAnswer(t, m)
      [] m.type = "refresh" -> RefreshAnswer(t, m)
      [] m.type = "permission" -> PermissionAnswer(t, m)
      [] m.type = "channel" -> ChannelAnswer(t, m)

Receive(m) ==
    /\ m.to = "client"
    /\ turn' = turn_handle_response(turn, m) /\ net' = net \ {m}
    /\ UNCHANGED <<remotes, selected, server, faults, outage>>

-----------------------------------------------------------------------------
(* The rest of the library.                                                 *)

AddRemoteCandidate(p) ==
    /\ \A i \in DOMAIN remotes : remotes[i] # p
    /\ remotes' = Append(remotes, p)
    /\ UNCHANGED <<turn, selected, server, net, faults, outage>>

\* ICE selects a pair whose local candidate is the relay and whose peer answered.
SelectRelay(p) ==
    /\ selected = None /\ turn.state = "allocated"
    /\ \E i \in DOMAIN remotes : remotes[i] = p
    /\ IndexOf(turn.permissions, p) # 0 /\ turn.permissions[IndexOf(turn.permissions, p)].held
    /\ selected' = p
    /\ UNCHANGED <<turn, remotes, server, net, faults, outage>>

\* nanortc_ice_restart keeps the allocation and forgets the peers.
IceRestart ==
    /\ faults < FAULTS /\ faults' = faults + 1 /\ remotes # <<>>
    /\ turn' = turn_reset_peer_state(turn) /\ remotes' = <<>> /\ selected' = None
    /\ UNCHANGED <<server, net, outage>>

turn_deallocate ==
    /\ faults < FAULTS /\ faults' = faults + 1
    /\ turn.state = "allocated" /\ turn.key_valid
    /\ turn' = [turn_reset_peer_state(turn) EXCEPT
                    !.state = "idle", !.txn = NoTransaction, !.refresh = Unarmed]
    /\ net' = net \cup {turn_build_refresh(turn, 0, FreshTxid(turn, Transactions))}
    /\ UNCHANGED <<remotes, selected, server, outage>>

-----------------------------------------------------------------------------
(* The network and the server.                                              *)

Outage(n) ==
    /\ outage = 0 /\ faults < FAULTS /\ faults' = faults + 1 /\ outage' = n
    /\ UNCHANGED <<turn, remotes, selected, server, net>>

Lose(m) ==
    /\ outage > 0 /\ net' = net \ {m}
    /\ UNCHANGED <<turn, remotes, selected, server, outage, faults>>

Delay(m) ==
    /\ faults < FAULTS /\ faults' = faults + 1
    /\ net' = (net \ {m}) \cup {[m EXCEPT !.age = MAX_AGE]}
    /\ UNCHANGED <<turn, remotes, selected, server, outage>>

\* The client repeats a request that gets a 400 at once: time passes in between.
Answer(m, code) == [to |-> "client", type |-> m.type, txid |-> m.txid, code |-> code,
                    nonce |-> server.nonce, lifetime |-> m.lifetime,
                    age |-> IF code = "400" THEN MAX_AGE ELSE 0]

ChannelFree(m) ==
    \A c \in Channels : server.channels[c].peer # None =>
        (c = m.channel <=> server.channels[c].peer = m.peer)

\* The code the server answers m with.
Verdict(m) ==
    CASE ~m.auth \/ m.key # "key" -> "401"
      [] m.auth /\ m.key = "key" /\ m.nonce # server.nonce -> "438"
      [] OTHER ->
            CASE m.type = "allocate" -> "ok"
              [] server.allocation = 0 -> "437"
              [] server.allocation > 0 /\ m.type = "channel" /\ ~ChannelFree(m) -> "400"
              [] OTHER -> "ok"

Released == [server EXCEPT !.allocation = 0, !.permissions = [p \in Peers |-> 0],
                           !.channels = [c \in Channels |-> [peer |-> None, left |-> 0]]]
Granted(m) ==
    CASE m.type = "allocate" -> [server EXCEPT !.allocation = m.lifetime]
      [] m.type = "refresh" -> IF m.lifetime = 0 THEN Released
                               ELSE [server EXCEPT !.allocation = m.lifetime]
      [] m.type = "permission" -> [server EXCEPT !.permissions[m.peer] = PERMISSION_LIFETIME]
      [] m.type = "channel" ->
            [server EXCEPT !.permissions[m.peer] = PERMISSION_LIFETIME,
                           !.channels[m.channel] = [peer |-> m.peer, left |-> CHANNEL_LIFETIME]]

ServerAnswer(m) ==
    /\ m.to = "server"
    /\ net' = (net \ {m}) \cup {Answer(m, Verdict(m))}
    /\ server' = IF Verdict(m) = "ok" THEN Granted(m) ELSE server
    /\ UNCHANGED <<turn, remotes, selected, faults, outage>>

\* The peer that the server relays d to, if any, and what it relays from peer.
RelayedTo(d) ==
    IF d.form = "channel" THEN server.channels[d.channel].peer
    ELSE IF server.permissions[d.peer] > 0 THEN d.peer ELSE None
RelayedFrom(peer) ==
    LET bound == {c \in Channels : server.channels[c].peer = peer}
    IN IF server.permissions[peer] = 0 THEN {}
       ELSE IF bound = {} THEN {[form |-> "indication", peer |-> peer]}
       ELSE {[form |-> "channel", channel |-> c] : c \in bound}

\* The server has no room for a permission (508), or its policy forbids the peer (403).
ServerRefusal(m, code) ==
    /\ faults < FAULTS /\ faults' = faults + 1
    /\ m.to = "server" /\ m.type = "permission" /\ Verdict(m) = "ok"
    /\ net' = (net \ {m}) \cup {Answer(m, code)}
    /\ UNCHANGED <<turn, remotes, selected, server, outage>>

ServerNonce ==
    /\ faults < FAULTS /\ faults' = faults + 1
    /\ server.allocation > 0
    /\ server' = [server EXCEPT !.nonce = @ + 1]
    /\ UNCHANGED <<turn, remotes, selected, net, outage>>

\* A tick passes when the client has nothing to do and no message is overdue.
Less(n) == IF n > 0 THEN n - 1 ELSE n
Tick ==
    /\ AtRest /\ \A m \in net : m.age # 0
    /\ turn' = [turn EXCEPT !.txn.left = Less(@), !.refresh = Less(@),
                    !.permissions = [i \in DOMAIN @ |-> [@[i] EXCEPT !.left = Less(@)]],
                    !.channels = [i \in DOMAIN @ |-> [@[i] EXCEPT !.left = Less(@)]]]
    /\ server' = IF server.allocation = 1 THEN Released
                 ELSE [server EXCEPT
                    !.allocation = Less(@), !.permissions = [p \in Peers |-> Less(@[p])],
                    !.channels = [c \in Channels |->
                        IF @[c].left = 1 THEN [peer |-> None, left |-> 0]
                        ELSE [@[c] EXCEPT !.left = Less(@)]]]
    /\ net' = {[m EXCEPT !.age = @ - 1] : m \in net}
    /\ outage' = Less(outage)
    /\ UNCHANGED <<remotes, selected, faults>>

Next ==
    \/ Poll \/ Tick \/ IceRestart \/ turn_deallocate \/ ServerNonce
    \/ \E n \in 1 .. MAX_OUTAGE : Outage(n)
    \/ \E p \in Peers : AddRemoteCandidate(p) \/ SelectRelay(p)
    \/ \E m \in net : Receive(m) \/ Lose(m) \/ Delay(m) \/ ServerAnswer(m)
    \/ \E m \in net, code \in {"403", "508"} : ServerRefusal(m, code)

Spec == Init /\ [][Next]_vars

\* The run loop wakes at turn_next_timeout_ms and polls; the network delivers what it
\* does not lose.
Progress == (\E m \in net : Receive(m) \/ ServerAnswer(m)) \/ Poll \/ Tick
FairSpec == Spec /\ WF_vars(Progress)

-----------------------------------------------------------------------------
(* Properties.                                                              *)

\* While the client takes a relay address, a permission or a channel for granted, the
\* server has it: refreshes start early enough for every retransmission to be tried, and
\* a request that is given up takes back what the client believed (turn_generate_retransmit).
LeaseHeld ==
    turn.state = "allocated" =>
        /\ server.allocation > 0
        /\ \A i \in DOMAIN turn.permissions :
              turn.permissions[i].held => server.permissions[turn.permissions[i].peer] > 0

\* What the client sends for a peer reaches that peer or nobody, and what the server relays
\* from a peer is dispatched as coming from that peer or dropped: also when the packet was
\* queued before its channel was bound, and after an ICE restart has reused the channel
\* number (rtc_poll_queued_output, rtc_process_receive).
RelayKeepsPeers ==
    turn.state = "allocated" => \A p \in Peers :
        /\ RelayedTo(LazyWrap(turn, p)) \in {p, None}
        /\ \A d \in RelayedFrom(p) : UnwrappedSource(turn, d) \in {p, None}

\* No remote candidate holds the ICE checklist up for ever: its permission is granted or
\* refused, or it has no place, or the client has failed.
PeersReady ==
    \A p \in Peers : (\E i \in DOMAIN remotes : remotes[i] = p)
        ~> \/ turn.state = "failed" \/ turn_peer_is_ready(turn, p)
           \/ \A i \in DOMAIN remotes : remotes[i] # p
=============================================================================
