-------------------------------- MODULE Ice --------------------------------
(***************************************************************************)
(* Two ICE agents that run src/nano_ice.c: ordinary and triggered checks,  *)
(* the bounded table of pending checks, retransmission and expiry, and the *)
(* nomination that makes both agents CONNECTED.                            *)
(*                                                                         *)
(* Every candidate is a host address <<agent, index>> of one family, so a  *)
(* local candidate is its own base. Time is abstracted: a check that is in *)
(* flight may be due for retransmission, or overdue, whenever the agent's  *)
(* timers run. Messages that arrive pass authentication. Those under way   *)
(* arrive in any order and at any time, also after their check has expired *)
(* or was sent again; what is sent over a dead path is lost. A response    *)
(* to a transaction that is over is ignored and not kept in net.           *)
(***************************************************************************)
EXTENDS Naturals, Sequences, FiniteSetsExt

CONSTANTS
    Locals,             \* Locals[a]: the number of local candidates of agent a
    Signalled,          \* Signalled[a]: peer addresses that a is told of
    Works,              \* <<from, to>> address pairs over which packets arrive
    Timely,             \* does a check whose answer can arrive never expire?
    MAX_CANDIDATES,     \* NANORTC_MAX_ICE_CANDIDATES
    MAX_PENDING_CHECKS, \* NANORTC_ICE_MAX_PENDING_CHECKS
    MAX_CHECKS          \* NANORTC_ICE_MAX_CHECKS

Agents == {"controlling", "controlled"}
Peer(a) == CHOOSE b \in Agents : b # a

Addresses(a) == {<<a, i>> : i \in 1 .. Locals[a]}

ASSUME IceSizes ==
    /\ \A a \in Agents : Locals[a] \in Nat \ {0} /\ Signalled[a] \subseteq Addresses(Peer(a))
    /\ \A way \in Works : \E a \in Agents : way \in Addresses(a) \X Addresses(Peer(a))
    /\ Timely \in BOOLEAN
    /\ {MAX_CANDIDATES, MAX_PENDING_CHECKS, MAX_CHECKS} \subseteq Nat \ {0}

VARIABLES
    ice,    \* nano_ice_t of each agent
    net     \* messages under way

vars == <<ice, net>>

Slots == 1 .. MAX_PENDING_CHECKS
None == <<"none", 0>>

\* nano_ice_pending_t; position is sent_at_ms of a queued check.
Idle == [local |-> None, remote |-> None, in_flight |-> FALSE, flags |-> {},
         position |-> 0, txid |-> 0]

\* ice_init
Init ==
    /\ ice = [a \in Agents |->
                [state |-> "new", pending |-> [i \in Slots |-> Idle], remotes |-> <<>>,
                 check_count |-> 0, current |-> <<0, 0>>, selected |-> <<None, None>>]]
    /\ net = {}

Knows(r, c) == \E i \in DOMAIN r.remotes : r.remotes[i] = c

InFlight(r, txid) == {i \in Slots : r.pending[i].in_flight /\ r.pending[i].txid = txid}

\* The messages of ms that matter to the agents.
UnderWay(ms, agents) ==
    {m \in ms : /\ <<m.from, m.to>> \in Works
                /\ m.kind = "response" => InFlight(agents[m.to[1]], m.txid) # {}}

-----------------------------------------------------------------------------
(* The table of pending checks.                                             *)

Queued(p) == "queued" \in p.flags
InUse(p) == p.in_flight \/ p.flags # {}
QueuedSlots(pending) == {i \in Slots : Queued(pending[i])}

\* ice_queue_check: at the end of the queue.
QueueFirst(pending, i) ==
    [pending EXCEPT ![i].position = 0, ![i].flags = @ \cup {"queued"}]
ice_queue_check(pending, i) ==
    [pending EXCEPT ![i].position = Cardinality(QueuedSlots(pending)),
                    ![i].flags = @ \cup {"queued"}]

\* ice_unqueue_check: those behind move up.
ice_unqueue_check(pending, i) ==
    IF ~Queued(pending[i]) THEN pending
    ELSE [j \in Slots |->
            IF j = i THEN [pending[i] EXCEPT !.flags = @ \ {"queued"}]
            ELSE IF Queued(pending[j]) /\ pending[j].position > pending[i].position
                 THEN [pending[j] EXCEPT !.position = @ - 1] ELSE pending[j]]

ice_select_pair(r, local, remote) ==
    [r EXCEPT !.selected = <<local, remote>>, !.state = "connected"]

-----------------------------------------------------------------------------
(* Signalling: nanortc_add_remote_candidate.                                *)

AddRemoteCandidate(a, c) ==
    /\ c \in Signalled[a] /\ ~Knows(ice[a], c)
    /\ Len(ice[a].remotes) < MAX_CANDIDATES
    /\ ice' = [ice EXCEPT ![a].remotes = Append(@, c)]
    /\ UNCHANGED net

-----------------------------------------------------------------------------
(* Timers: ice_get_check chooses, ice_send_check acts.                      *)

MayCheck(a) == ice[a].state \in {"new", "checking"} /\ ice[a].remotes # <<>>
Active(a) == {i \in Slots : ice[a].pending[i].in_flight \/ Queued(ice[a].pending[i])}

\* The cursor current is <<current_local, current_remote>>: it keeps its place when
\* candidates are added. After a check of a pair it is at the pair that follows.
Pairs(a) == Locals[a] * Len(ice[a].remotes)
Cursor(a) == ice[a].current[1] * Len(ice[a].remotes) + ice[a].current[2]
PairAt(a, k) == <<<<a, (k \div Len(ice[a].remotes)) + 1>>,
                  ice[a].remotes[(k % Len(ice[a].remotes)) + 1]>>
After(a, k) == LET next == (k + 1) % Pairs(a)
               IN <<next \div Len(ice[a].remotes), next % Len(ice[a].remotes)>>
NumberOf(a, local, remote) ==
    CHOOSE k \in 0 .. Pairs(a) - 1 : PairAt(a, k) = <<local, remote>>

\* Only the controlling agent nominates.
BindingRequest(a, p) == [kind |-> "request", from |-> p.local, to |-> p.remote, txid |-> p.txid,
                         use |-> a = "controlling" /\ "nominate" \in p.flags]

\* The check of slot i is sent.
SendCheck(a, pending, i, count) ==
    LET p == pending[i]
    IN /\ ice' = [ice EXCEPT ![a].pending = pending, ![a].check_count = count,
                             ![a].state = "checking",
                             ![a].current = After(a, NumberOf(a, p.local, p.remote))]
       /\ net' = UnderWay(net \cup {BindingRequest(a, p)}, ice')

Start(a, pending, i) ==
    LET txid == ice[a].check_count + 1
    IN SendCheck(a, [ice_unqueue_check(pending, i) EXCEPT ![i].in_flight = TRUE,
                                                          ![i].txid = txid], i, txid)

\* The queued check at the head of the queue; without a valid pair only while
\* checks are left.
SendQueued(a, i) ==
    LET p == ice[a].pending[i]
    IN /\ MayCheck(a) /\ Queued(p)
       /\ \A j \in QueuedSlots(ice[a].pending) : p.position <= ice[a].pending[j].position
       /\ "valid" \in p.flags \/ ice[a].check_count < MAX_CHECKS
       /\ Start(a, ice[a].pending, i)

\* The same transaction again; a queued check goes first.
Retransmit(a, i) ==
    /\ MayCheck(a) /\ ice[a].pending[i].in_flight
    /\ QueuedSlots(ice[a].pending) = {}
    /\ SendCheck(a, ice[a].pending, i, ice[a].check_count)

\* The first pair from the cursor on that has no slot yet, if a slot is free.
Ordinary(a) ==
    LET pending == ice[a].pending
        Known(pair) == \E i \in Slots : /\ InUse(pending[i])
                                        /\ <<pending[i].local, pending[i].remote>> = pair
        At(n) == PairAt(a, (Cursor(a) + n) % Pairs(a))
        free == {i \in Slots : ~InUse(pending[i])}
        fresh == {n \in 0 .. Pairs(a) - 1 : ~Known(At(n))}
    IN /\ MayCheck(a) /\ QueuedSlots(pending) = {}
       /\ ice[a].check_count < MAX_CHECKS
       /\ free # {} /\ fresh # {}
       /\ Start(a, [pending EXCEPT ![Min(free)] = [Idle EXCEPT !.local = At(Min(fresh))[1],
                                                               !.remote = At(Min(fresh))[2]]],
                Min(free))

\* NANORTC_ICE_CHECK_TIMEOUT_MS without an answer, or no checks left for a pair
\* that is not valid.
CanBeAnswered(p) == {<<p.local, p.remote>>, <<p.remote, p.local>>} \subseteq Works
Expire(a, i) ==
    LET p == ice[a].pending[i]
    IN /\ MayCheck(a)
       /\ \/ p.in_flight /\ ~(Timely /\ CanBeAnswered(p))
          \/ Queued(p) /\ "valid" \notin p.flags /\ ice[a].check_count >= MAX_CHECKS
       /\ ice' = [ice EXCEPT ![a].pending = [ice_unqueue_check(@, i) EXCEPT ![i] = Idle]]
       /\ net' = UnderWay(net, ice')

\* All checks are used up and none is queued or in flight.
FailLate(a) ==
    /\ MayCheck(a) /\ ice[a].check_count > MAX_CHECKS /\ Active(a) = {}
    /\ ice' = [ice EXCEPT ![a].state = "failed"]
    /\ UNCHANGED net
Fail(a) ==
    /\ MayCheck(a) /\ ice[a].check_count >= MAX_CHECKS /\ Active(a) = {}
    /\ ice' = [ice EXCEPT ![a].state = "failed"]
    /\ UNCHANGED net

-----------------------------------------------------------------------------
(* ice_handle_stun.                                                         *)

\* ice_trigger_check: the slot for a pair is the one it has, else the first that is
\* neither in flight nor queued; 0 if there is none.
FirstFree(pending, pair) ==
    LET free == {i \in Slots : ~pending[i].in_flight /\ ~Queued(pending[i])}
    IN IF free # {} THEN Min(free) ELSE 0
SlotFor(pending, pair) ==
    LET same == {i \in Slots : InUse(pending[i]) /\ <<pending[i].local, pending[i].remote>> = pair}
        free == {i \in Slots : ~pending[i].in_flight /\ ~Queued(pending[i])}
    IN IF same # {} THEN Min(same) ELSE IF free # {} THEN Min(free) ELSE 0

\* Its slot, for that pair, after the request.
Claim(p, pair, nominate) ==
    LET own == IF InUse(p) /\ <<p.local, p.remote>> = pair THEN p
               ELSE [Idle EXCEPT !.local = pair[1], !.remote = pair[2]]
    IN [own EXCEPT !.flags = IF nominate THEN @ \cup {"nominate"} ELSE @]

\* What the agent becomes: a valid pair is selected if nominated; otherwise one
\* triggered check is queued in place of an ordinary one.
LatchOnRequest(r, i, p, nominate) ==
    ice_select_pair([r EXCEPT !.pending[i] = p], p.local, p.remote)
Trigger(r, i, p, nominate) ==
    LET kept == [r EXCEPT !.pending[i] = p]
    IN CASE "valid" \in p.flags /\ nominate -> ice_select_pair(kept, p.local, p.remote)
         [] "valid" \in p.flags /\ ~nominate -> kept
         [] "valid" \notin p.flags /\ "triggered" \in p.flags -> kept
         [] OTHER -> [r EXCEPT !.pending =
              ice_queue_check([r.pending EXCEPT ![i] = [p EXCEPT !.in_flight = FALSE,
                                  !.flags = (@ \cap {"nominate"}) \cup {"triggered"}]], i)]

\* A Binding Request: answered, unless it triggers a check that the tables have no
\* room for. Its source is learnt as a candidate.
BindingResponse(m) == [kind |-> "response", from |-> m.to, to |-> m.from,
                       txid |-> m.txid, use |-> FALSE]
HasRoom(r, m) == /\ SlotFor(r.pending, <<m.to, m.from>>) # 0
                 /\ Knows(r, m.from) \/ Len(r.remotes) < MAX_CANDIDATES
Learn(r, c) == IF Knows(r, c) THEN r ELSE [r EXCEPT !.remotes = Append(@, c)]

HandleRequest(a, m) ==
    LET r == ice[a]
        pair == <<m.to, m.from>>
        nominate == m.use /\ a = "controlled"
        slot == SlotFor(r.pending, pair)
    IN \/ /\ r.state \in {"connected", "failed"}
          /\ UNCHANGED ice
          /\ net' = UnderWay((net \ {m}) \cup {BindingResponse(m)}, ice)
       \/ /\ r.state \in {"new", "checking"} /\ HasRoom(r, m)
          /\ ice' = [ice EXCEPT ![a] = Trigger(Learn(r, m.from), slot,
                                           Claim(r.pending[slot], pair, nominate), nominate)]
          /\ net' = UnderWay((net \ {m}) \cup {BindingResponse(m)}, ice')
       \/ /\ r.state \in {"new", "checking"} /\ ~HasRoom(r, m)
          /\ net' = net \ {m}
          /\ UNCHANGED ice

\* A Binding Response to a transaction in flight makes the pair valid; the
\* controlling agent then nominates it, and a nominated pair is selected.
Succeed(a, i) ==
    LET r == ice[a]
        p == r.pending[i]
        valid == [r EXCEPT !.pending[i].in_flight = FALSE, !.pending[i].flags = {"valid"}]
    IN CASE r.state = "connected" -> [r EXCEPT !.pending[i].in_flight = FALSE]
         [] r.state # "connected" /\ "nominate" \in p.flags ->
              ice_select_pair(valid, p.local, p.remote)
         [] OTHER -> IF a = "controlled" THEN valid
                     ELSE [valid EXCEPT !.pending = ice_queue_check(
                             [valid.pending EXCEPT ![i].flags = @ \cup {"nominate"}], i)]

HandleResponse(a, m) ==
    /\ ice' = [ice EXCEPT ![a] = Succeed(a, Min(InFlight(ice[a], m.txid)))]
    /\ net' = UnderWay(net \ {m}, ice')

Receive(a, m) ==
    /\ m.to[1] = a
    /\ \/ m.kind = "request" /\ HandleRequest(a, m)
       \/ m.kind = "response" /\ HandleResponse(a, m)

-----------------------------------------------------------------------------

Next == \E a \in Agents :
          \/ \E c \in Signalled[a] : AddRemoteCandidate(a, c)
          \/ Ordinary(a) \/ Fail(a)
          \/ \E i \in Slots : SendQueued(a, i) \/ Retransmit(a, i) \/ Expire(a, i)
          \/ \E m \in net : Receive(a, m)

Spec == Init /\ [][Next]_vars

\* Signalling and timers run, and what is sent over a working path arrives.
Timers(a) == Ordinary(a) \/ Fail(a) \/ \E i \in Slots : SendQueued(a, i)

FairSpec ==
    /\ Spec
    /\ \A a \in Agents :
         /\ WF_vars(\E c \in Signalled[a] : AddRemoteCandidate(a, c))
         /\ WF_vars(Timers(a))
         /\ WF_vars(\E i \in Slots : Expire(a, i))
         /\ \A i \in Slots : WF_vars(Retransmit(a, i))
    /\ \A way \in Works, kind \in {"request", "response"} :
         WF_vars(\E m \in net : /\ <<m.from, m.to>> = way /\ m.kind = kind
                                /\ Receive(way[2][1], m))

-----------------------------------------------------------------------------
(* Properties.                                                              *)

\* The queue positions that ice_queue_check keeps in sent_at_ms are those of a
\* FIFO queue, and no queued check has a transaction in flight.
QueueOrdered ==
    \A a \in Agents :
      LET q == QueuedSlots(ice[a].pending)
      IN /\ {ice[a].pending[i].position : i \in q} = 0 .. Cardinality(q) - 1
         /\ \A i \in q : ~ice[a].pending[i].in_flight

\* A pair is checked in one slot at a time, whether its check was ordinary or
\* triggered.
OneSlotPerPair ==
    \A a \in Agents : \A i, j \in Slots :
      LET p == ice[a].pending[i]
          q == ice[a].pending[j]
      IN i # j /\ InUse(p) /\ InUse(q) => <<p.local, p.remote>> # <<q.local, q.remote>>

\* A CONNECTED agent has selected a pair that works in both directions, even if the
\* request that nominated it came over a path that works in one.
SelectedWorks ==
    \A a \in Agents : ice[a].state = "connected" =>
        LET pair == ice[a].selected
        IN {pair, <<pair[2], pair[1]>>} \subseteq Works

\* Each agent ends CONNECTED or FAILED: none waits for ever in CHECKING.
Settles == <>(\A a \in Agents : ice[a].state \in {"connected", "failed"})
=============================================================================
