# TLA+ specifications of nanortc

nanortc is a sans-I/O WebRTC stack in C for microcontrollers. The application feeds it
datagrams and time (`nanortc_handle_input`), calls its API (offer, answer, send) and
drains packets and events (`nanortc_poll_output`). The library has no threads and
allocates nothing: every queue, table and buffer has a fixed size, and what does not fit
is refused with `WOULD_BLOCK` or dropped. So what is hard here is not shared memory but

* the order of calls and packets: the driver polls, ticks and delivers in any order, and
  the network loses, delays, duplicates and reorders;
* full tables: what happens when the last slot goes to the wrong packet;
* references that outlive what they point to: a queued output is a pointer into a buffer
  that other calls reuse;
* waiting: every retry must have a timer, and every timer must be reported to a driver
  that sleeps until the next deadline;
* agreement: two endpoints (or an endpoint and a TURN server) each keep half of one state,
  stream ids, roles, leases, sequence spaces, and must not drift apart.

The models, the configurations that check them with TLC and the proofs checked with TLAPS
live in this directory. `PROJECT.json` maps every definition to the lines it models, and
lists the runs, one mutation per property that must break it, the hazards and the findings.

## Inventory

| Component | State | Operations | Talks to | What makes it correct |
|---|---|---|---|---|
| SCTP receive (`nano_sctp.c`) | `recv_gap` table, byte pool, cumulative TSN, SSN per stream | DATA, FORWARD-TSN, delivery, SACK | send half of the peer; data channels | each message whole, once, in order; nothing acknowledged is lost; the window reopens |
| SCTP send (`nano_sctp.c`) | send queue and buffer, TSN/SSN counters, RTO | send, SACK, timeout, poll | DTLS through `rtc_pump_sctp_through_dtls` | no entry freed too early; abandonment covers whole messages; a deadline whenever work is left |
| SCTP handshake | association state, control output ring | INIT ... COOKIE-ACK, HEARTBEAT, SHUTDOWN | session | both sides reach ESTABLISHED |
| Output queue (`nano_rtc.c`, `nano_rtc_media.c`) | `out_queue`, cursors, managed slots, `pkt_ring`, pacer FIFO | enqueue, poll, send video, FEC, NACK, pacer | every protocol writes into it; the application drains it | a queued packet is unchanged until polled; an admitted frame fits whole |
| Session (`nano_rtc.c`) | connection state, generation, roles | offer/answer, ICE and DTLS completion, timers, disconnect, restart | all others | opposite DTLS roles; CONNECTED once and together; it connects |
| DTLS wrapper (`nano_dtls.c`) | context, `out_buf`, ClientHello reassembly, timer | start, records, timeout, close, destroy | crypto library, session | the handshake completes whatever flights are lost |
| ICE (`nano_ice.c`) | candidates, pending table, check count, selected pair | check, retransmit, expire, request, response | session, TURN | only working pairs are selected; both agents settle |
| TURN (`nano_turn.c`) | allocation, permissions, channels, transactions and their deadlines | allocate, refresh, permission, bind, retransmit, reset | ICE, output queue, the server | what it believes to hold is held; channels belong to the right peer; no candidate waits for ever |
| Negotiation, SDP (`nano_rtc_negotiate.c`, `nano_sdp.c`) | tracks, m-lines, local and remote description, candidates | add track, offer, answer, accept, candidates, directions | signalling of the application, ICE, media | answer fits offer; candidates arrive as they were meant |
| Data channels (`nano_datachannel.c`) | channel table, retained DCEP output | open, ack, send, close | SCTP | the two ends of a stream are one channel; channels open |
| Media receive (`nano_reorder.c`, `nano_jitter.c`, depacketizers, `nano_rtc_media.c`) | windows of packets, fragments of a NAL, FEC ring, SSRC map | RTP in, recover, NACK, release | SRTP, RTCP, application | frames whole or flagged, once, in order; nothing held for ever |
| SRTP (`nano_srtp.c`) | rollover counter and replay window per SSRC | protect, unprotect | media | no authentic packet is refused |
| Rate (`nano_bwe.c`, `nano_twcc.c`, `nano_rate_control.c`, RTCP) | estimate, bounds, thresholds, ladder rung, report cadence | REMB, TWCC, reports, setters | application through events | the application knows the current estimate; rungs are justified; reports rotate |
| STUN codec, RTP and RTCP codecs, crypto, log, CRC, Base64 | none | pure functions | | |

## Modules

| Module | Models |
|---|---|
| `Serial` | serial-number and clock arithmetic of `nano_time.h` and the TSN/SSN comparisons |
| `SctpTraffic` | the messages of one direction and the chunks a conforming sender cuts them into |
| `SctpRecv` | the receive half of `nano_sctp.c` against any conforming peer |
| `SctpSend` | the send half, as functions of the sender's state |
| `MessageStream` | abstract specification: what a data channel needs of its transport |
| `SctpLink` | `SctpSend` and `SctpRecv` composed over an unreliable network; refines `MessageStream` |
| `RtcOutput` | output queue, managed slots, video ring, pacer |
| `RtcSession` | two endpoints from offer through ICE, DTLS and SCTP to CONNECTED, disconnect and restart |
| `Ice` | two ICE agents with host candidates |
| `Turn` | the TURN client against a server with leases, over a lossy network |
| `Addr` | IPv6 text: parsing and formatting |
| `Sdp` | offers and answers: generation and parsing attribute by attribute |
| `Signalling` | two applications with tracks, descriptions, candidates and data channels (uses `Sdp`, `Addr`) |
| `MediaBuffers` | reorder buffer and jitter buffer |
| `MediaRecv` | SRTP estimate, FEC, NACK, depacketizers and delivery of one track (uses `MediaBuffers`) |
| `Rate` | feedback, bandwidth estimate, ladder, events and sender reports |
| `RtcOutputProof`, `RtcSessionProof`, `IceProof`, `RateProof`, `SctpRecvProof`, `SctpLinkProof` | TLAPS proofs about the modules they are named after; the last extends `SctpRecvProof` |
| `BasicFacts`, `FoldFacts` | lemmas the proofs share: numbers, induction, cuts of sequences; folds |
| `MCSctpRecv`, `MCSctpLink`, `MCRtcOutput`, `MCIce`, `MCMediaRecv`, `MCSignalling`, `MCRate` | instances for TLC |

How state and actions correspond to the code:

* **SctpRecv.** `rx` holds the receive fields of `nano_sctp_t`; a payload byte is
  `<<message, position>>`, so that its origin can be told after it was moved and merged.
  `HandleData`, `HandleForwardTsn`, `PollDelivery` and `PollOutput` are the entry points;
  the operators `nsctp_...` are the functions they call, merge, drain and reclaim included,
  in the code's order. A received chunk or FORWARD-TSN may come at any time and any number
  of times. `gone` and `delivered` are history.
* **SctpSend / SctpLink.** `snd` holds the send fields. Time is kept as the age of each entry,
  up to `RTO_MAX`; a tick of any length may happen at any time. `net` holds every packet ever
  sent, and any of them may be delivered, also again. An entry acknowledged cumulatively
  leaves the queue in the same call, so entries need no `acked` flag.
* **RtcOutput.** An entry carries the pointer (a slot or a ring cursor) and, as history, the
  packet it was queued for. Handlers are atomic, except the loop of `nanortc_send_video`, which
  is one step per fragment. `pacing` chooses the build. Cursors are `uint16_t` in the code and
  wrap at `CURSOR_MOD`.
* **RtcSession.** ICE checks are one step. The DTLS handshake is the crypto library's and
  appears as its four flights (`Handshake`, external); what nanortc adds is modelled: the
  output buffer and its drain, the timer, the refusal before ICE has connected, reassembly of
  a fragmented ClientHello (`chlo`, `chlo_have`), completion, SHUTDOWN and closing. A record of
  an earlier generation has no effect. Each call finds 0 or 1 free transmit slots. A repeated
  flight in `out_buf` is merged with the copy that waits there. A lost SCTP packet is one that
  never arrives.
* **Ice.** `Works` says over which address pairs packets arrive. A check in flight may be
  retransmitted at any time, and may expire at any time, unless `Timely` says that a check that
  can be answered is answered before `NANORTC_ICE_CHECK_TIMEOUT_MS`. `flags` is the flag byte of
  a pending slot without its retry count, `position` is `sent_at_ms` of a queued check.
* **Turn.** Deadlines are the ticks that are left; the server counts its leases down in the same
  ticks. A transaction id is any id nothing else uses. `Poll` is one run of the timers, which
  sends at most one request. Outages, delays, nonce changes, refusals, restarts and
  deallocations draw on a budget.
* **Signalling.** Each application is a program, a sequence of API calls; the two interleave
  with each other, with gathering and, once connected, with the pump and the delivery of SCTP
  messages. A description is a sequence of blocks of attributes, so parsing depends on order
  as in the code. Addresses are sequences of groups.
* **MediaRecv.** A payload is the set of sent packets XORed into it, so whatever FEC or the
  depacketizer mixes up is visible. A build chooses buffers, codec and traffic; packets come from
  the code's own packetizers. A step is one RTP packet, one poll or one tick.
* **Rate.** Rates are in kbps, times in seconds. A compound packet is a sequence of members,
  feedback a list of status chunks in any encoding the format allows. `app` is what events told
  the application and `past` history.

## Runs

Each configuration is small, but chosen so that the tables are full, the counters wrap and
the failures happen. Each run takes between a few seconds and two minutes.

| Run | Instance | Shows |
|---|---|---|
| `sctp_recv` | four messages on two streams, ordered and unordered, two of them fragmented, one abandonable; six chunks for five slots, eight bytes for a pool of six; TSN 14, SSN 7, wrapping at 16 and 8 | no mixture of messages, once and in order, acknowledged means kept, the pool is tiled, no SACK reneges, the window never fills for good and all is delivered |
| `sctp_recv_wedge` | two fragments missing while three messages wait | **violated**: the reserve is one slot, two are needed |
| `sctp_recv_fragments` | a message of three fragments and one behind it | **violated**: the fragments arrive in the order 1, 3, 2, all are acknowledged, and the message is never complete |
| `sctp_link` | a two-fragment message that may not be retransmitted, then a reliable one; send queue of three | nothing lost, a deadline for all work, the sender is a conforming peer, refinement of `MessageStream` |
| `rtc_output` | queue of three, ring of two, one slot of each kind, cursors modulo six, both builds | queued packets intact, frames fit, no leaked slots, TURN flag current |
| `rtc_session` | one restart per endpoint, lost and delayed DTLS datagrams, ClientHello whole or in two fragments, 0 or 1 free slot, control ring of one | opposite roles, CONNECTED together and once, and connection when no SCTP packet is lost |
| `ice` | one by three addresses; tables for two; one pair works, one is one-way, one dead | FIFO of triggered checks, one slot per pair, only working pairs selected, both agents settle |
| `turn` | two peers, one permission and one channel; leases of six ticks, two transmissions, an outage of two | `LeaseHeld`, `RelayKeepsPeers`, `PeersReady` |
| `media_recv` | four builds (plain H.264, H.265 with NACK, H.264 with FEC, audio), windows of two, a change of SSRC with nothing of the old stream in flight, two packets in flight | frames whole or flagged, in order and once, no authentic packet refused, buffers drain |
| `media_rollover` | a stream that starts two before the wrap | **violated**: packets after the wrap are refused |
| `signalling` | all pairs of directions and codecs, m-lines in every order, browser offers, calls that fail and are repeated, IPv6 shapes, channels opened on both sides, by the answerer after `nanortc_accept_offer` | answers fit offers, candidates arrive, channels agree and open |
| `rate` | six scenarios: adaptation across a clock wrap, setters, every encoding of short feedback, a full queue, three reporting tracks, report blocks | `ApplicationIsTold`, `RungsJustified`, `FeedbackRead`, `ReportsRotate` |

Bounds. Three or four slots are enough for the interplay of a leading, a middle and a trailing
fragment with a delivered marker; two messages, three chunks and two retransmissions let every
pair of timeout, SACK, abandonment and FORWARD-TSN race. The output queue and ring have
different sizes, so that each is the limit in some state, and cursors wrap several times. An
agent needs two slots to have two queued checks and three pairs to fill the table. A TURN table
of one with two peers has an entry without a place. Windows of two packets have a stale, a
missing and a waiting packet at once; `SEQ_MOD` and `CLOCK` make every counter wrap.
`MAX_RESTARTS`, `FAULTS`, `MAX_AGE`, `MAX_OUTAGE`, `IN_FLIGHT` and the lengths of programs and
scenarios bound the environment. `CHECK_DEADLOCK FALSE` is set where the system may stop: agents
that have settled, programs and streams that have ended.

Restrictions of the instances, beyond size:

* `sctp_recv`: no message has more than two fragments, and the window holds what a reserve of one
  slot can let in; the two other runs of `SctpRecv` show what happens otherwise. All chunks of an
  association take up less than half of the TSN space (`TsnsFit`, 2^31 chunks in the code), the
  ordered messages of a stream less than half of the SSN space (`SsnsFit`, 2^15 messages).
* `rtc_session`: the fragments of a ClientHello travel in datagrams of their own, as browsers
  send them.
* `media_recv`: a new SSRC starts when nothing of the old one is in flight; the FEC build has
  no duplicated packets; without a reorder buffer the network keeps the order.
* `signalling`: the answerer creates channels after `nanortc_accept_offer` and adds its tracks
  in the order of the offer; codecs of the two sides agree; the build has H.265.
* `rate`: each setter is called at most once per scenario; the application clamps what it hears
  to its own bounds; the block of a report is about the track of its sender; malformed feedback
  does not include truncated chunk lists.
* `turn`: the clock is in the lower half of its range (`LateClock = FALSE`).

Each of these excludes a behaviour of the code listed under *Known disagreements*.

Fairness. `SctpRecv`: the peer repeats its earliest unacknowledged chunk, and the driver polls
while there is something to poll; both are obligations of the API and of RFC 9260. `RtcSession`:
while nobody closes or restarts, the driver's loop ticks, signalling works, an SCTP packet of
the handshake arrives, and so does a DTLS flight that is sent again and again (strong fairness:
the network may lose any number of copies, not all), at a time when slots are free, since the
driver drains the queue. `Ice`: timers run, and packets over a working path arrive, because a
check is retransmitted until it expires. `Turn`: messages are answered, timers run and time
passes; loss is bounded by the outage. `MediaRecv`: the driver polls when the deadline that
`nanortc_next_timeout_ms` gave is due; nothing is assumed when there is no deadline.
`Signalling`: the session comes up, the pump runs and SCTP delivers; applications may stop.

## Proofs

The theorems hold for every value of the constants that satisfies the named assumptions of the
modules. These say what the code's configuration guarantees (sizes are positive, a message fits
the pool), what a conforming peer does (`PeerConforms`), and two bounds: the chunks of an
association take up less than half of the TSN space (`TsnsFit`), and the ordered messages of a
stream less than half of the SSN space (`SsnsFit`). The numbers may wrap, because the first TSN and
SSN are arbitrary, but an association that outlives half a cycle is not covered. TLC evaluates each
of them on the instances it checks.

| Module | Theorem | Statement |
|---|---|---|
| `RtcOutputProof` | `TypeCorrect` | `[]TypeOK` |
| | `OutputStaysIntact` | `[]QueuedIntact`: no packet queued, or waiting in the pacer, is overwritten before it is polled |
| | `AdmittedFrameFits` | `[]FrameFits`: an admitted frame and its FEC packets fit the queue to the last fragment |
| | `NoSlotLeak` | `[]BusyIsQueued`: a slot is busy only while a queued entry points to it |
| | `WrapFlagIsOwn` | `[]WrapIsOwn`: the TURN flag belongs to the entry in its place |
| `SctpRecvProof` | `TypeCorrect` | `[]TypeOK`: the slots are counted and the pool does not overflow |
| | `PoolStaysTiled` | `[]PoolTiled`: the entries share the pool without overlap and without a gap |
| | `DeliveredIntact` | `[]Intact`: a delivered message has exactly the bytes the peer sent |
| | `AcksAreKept` | `NoRenege`: no step takes back an acknowledgement |
| | `DeliveredInTurn` | `[](DeliveredOnce /\ DeliveredInOrder)`: no message is delivered twice, and the ordered ones of a stream in the order of the peer |
| | `NothingIsSkipped` | `[](gone = {} => OrderedOnce)`: moreover none is skipped, as long as nothing is abandoned |
| | `AcknowledgedIsKept` | `[](gone = {} => AckedIsKept)`: what is acknowledged is delivered or in the pool, as long as nothing is abandoned |
| `SctpLinkProof` | `SenderConforms` | `ConformingPeer`: the code's sender is a peer that `SctpRecv` allows, so `LinkSpec` implements `SctpRecv`'s `Spec` |
| | `SenderWakesUp` | `[]WakesUp`: work in the send queue means output or a deadline, and serving a deadline leaves nothing due but output |
| | `LinkIntact` | `[](Intact /\ DeliveredOnce /\ DeliveredInOrder)` and `NoRenege` of the two endpoints together |
| | `LosesNothing` | `[](gone = {} => NothingLost)`: an accepted chunk is queued or buffered until its message is delivered, as long as nothing is abandoned |
| | `LinkIsAStream` | `[](gone = {}) => ImplementsStream`: as long as nothing is abandoned the association is a message stream |
| `RtcSessionProof` | `RolesAreSettled` | `[]RolesSettled` |
| | `ConnectedMeansHeld` | `[]ConnectedTogether` |
| | `ReportedOnce` | `[]ConnectedOnce` |
| `IceProof` | `QueueStaysOrdered` | `[]QueueOrdered` |
| | `PairHasOneSlot` | `[]OneSlotPerPair` |
| | `SelectedPairWorks` | `[]SelectedWorks` |
| `RateProof` | `EveryTrackReports` | `[]ReportsRotate` |
| | `ChangesReachTheApplication` | `[]ChangesTold`, the half of `ApplicationIsTold` about rung, directions and key frames |
| | `RungsAreJustified` | `[]RungsJustified`: a recommended rung fits the estimate, and a rise is one rung after a long enough stretch of headroom |
| | `LossesAreShown` | `[]LossesShown`, the half of `FeedbackRead` about the losses tracks show |

Each rests on an inductive invariant (`Invariant`, `RecvInvariant`, `SessionInvariant`,
`IceInvariant` state that it holds; `RotationInv`, `ToldInv`, `RungInv` and `LossInv` for `Rate`),
with one lemma per action or group of actions.

**RtcOutput** (`OutputSizes`: queue and ring size divide the range of the cursors at least twice;
they are powers of two in `nanortc_config.h`). `QueuedIntact` alone is not inductive: to know
that a write spares the queued packets one has to know who owns each slot and how far each
ring entry is behind the tail. `IInv` adds

* `SlotOwned`: the slot of a queued entry is busy until exactly the cursor after that entry. As
  cursors in the queue are pairwise different modulo the queue size (lemma `QSlotsDiffer`),
  equality with the new head frees the slot of the polled entry and no other, also after a wrap;
* `RingLag`: a queued fragment is at most as far behind `pkt_ring_tail` as there are entries
  queued since, plus the pacer's backlog. That is what lets the admission check, which counts
  entries and not ring slots, protect the ring;
* `FrameRoom`: in the middle of a frame, the fragments left fit the ring in front of every
  undrained one;
* `Bounded`: the queue and the backlog are within their sizes.

The arithmetic of wrapping cursors (`ModInjective`, `ModPeriod`, `DistGrows` ...) is proved once.

**SctpRecv** (`RecvSizes`, `PeerConforms`, `TsnsFit`, `SsnsFit`). Everything the receiver does is a change of
one table and one pool, so the invariant is about any such state (`RxStates`): the valid entries
tile the pool, the pool fits, the slots are counted, and an undelivered entry that is not a whole
message has bytes. The last part is needed because a merge rotates both fragments to the front
and an empty one would stay where it is. `SctpRecvProof` first proves that a cut, a rotation and a
new entry keep a tiling; then it follows the functions, `nsctp_rx_reclaim`, `nsctp_gap_drain`,
`nsctp_rx_move`, `nsctp_rx_merge`, storing, FORWARD-TSN and delivery, each by a lemma that also says
which entries it leaves the same (`SameEntry`, `Reclaimed`, `Kept`). Its second half adds the
labels: each undelivered entry holds the chunks `lo..hi` of the peer, consecutive fragments of
one message, and owns their bytes in order; no chunk is held twice; an entry of more than one
chunk lies below the cumulative TSN. A merged entry keeps only its last TSN, so without that part
a duplicate of an earlier fragment could be stored and merged a second time. For `NoRenege` every
function is shown to leave the state `Ahead` of the one before: the cumulative TSN is that of the
same or a later chunk, and a marker is given up only below it. Comparing serial numbers is
comparing chunks only because of `TsnsFit` (lemma `TsnOrder`).

Two more invariants go from bytes to messages. `Safe` (for `AckedIsKept`): as long as nothing is
abandoned, an acknowledged chunk lies in the labels of an undelivered entry or its message has been
delivered; every function is shown to be `Steady`, that is to keep the labelled chunks, but for the
delivery, which takes all chunks of one message. `OrderInv` (for `OrderedOnce`) compares three
things: the messages that wait in the table, the SSN each stream expects, and the messages delivered.
`Expects` says which message number `q[sid]` an expected SSN stands for, `InTurn` that every ordered
message below that number has been acknowledged whole, that all delivered ones are below it, and
that a waiting one is below it just when a FORWARD-TSN has released it (`forwarded`); in addition
delivered messages precede all that wait on their stream. It is the check in
`nsctp_poll_delivery` for an earlier released message that keeps the last part. That a delivered
message does not come again is `Once`: all its chunks are acknowledged, so a duplicate of any of
them is refused. A FORWARD-TSN lists the streams in any order and gives only the last SSN of each;
`ForwardTurns` follows the loop over the pairs and shows that the messages it passes have been
acknowledged, because the new cumulative TSN covers them. With abandoned messages `InTurn` says
less (its parameter `skip`), which is what remains true then.

**SctpLink** (the assumptions of `SctpRecv`, and `SendSizes`). `SctpRecv` supposes a conforming
peer: its traffic is cut from messages, and a FORWARD-TSN skips abandoned messages only and leaves
nothing unacknowledged before them. That the code's own sender is such a peer is what composes the
two halves. The invariant `Linked` says: the send queue bears, entry by entry, the chunks of the
messages accepted so far except the first `w` (`Sending`: TSN, SSN, flags, and bytes at the entry's
place in the buffer), the receiver has passed the first `c` chunks, and `w <= c`. It is
inductive because of what is said of packets under way, any of which may arrive at any later time:
a SACK names a TSN the receiver has passed (`SackSays`), a data packet is a chunk, the messages a
FORWARD-TSN skips have been abandoned (`Says`), and all of this stays true (`SaysStays`). So a SACK
frees only what is passed, however old it is. A FORWARD-TSN ends with a whole message
(`PrefixEnds`) because `nsctp_abandon_message` abandons every queued fragment of a message, and
its pairs are the last ordered SSNs of the skipped messages (`SkippedStreamsOK`, the loop
over the pairs). For `WakesUp` the first entry decides: it can be sent, is timed, or is abandoned,
and then the FORWARD-TSN is timed. `NothingLost` follows from `Linked` and `AckedIsKept`: a chunk of
an accepted message is in the queue, or it is one of the first `w`, which the receiver has passed.
For the refinement `LinkIsAStream` one also has to know that nothing arrives before it is
accepted: the messages that wait in the table and those of data packets under way are among the
accepted ones (`Offered`). Then a delivery is the abstract step `Arrive` by the order of `SctpRecv`,
accepting a message is `Accept`, and every other step stutters (`StreamStep`).

**RtcSession** (`SessionSizes`). The roles of a negotiation are kept as long as a DTLS context lives
(`RoleKept`); the count of CONNECTED events starts anew only when the state falls below connected
(`Counted`). For `ConnectedTogether` one has to know of the packets under way: whoever queues or has
sent a COOKIE-ECHO or COOKIE-ACK holds the association and never stops holding it (`CookiesHeld`,
`SendersHold`), so whoever is established has a peer that does (`PeerHolds`).

**Ice** (`IceSizes`). Queue positions are different and fill an interval from 0 (`InQueue`), which the
steps keep because only a check that is not queued is queued, and a queued check is marked
(`Marked`). A transaction id in flight is in one slot (`Txids`) and every message under way with
this id is about the pair of that slot (`MessageFits`), so the response that makes a pair valid has
travelled over it, as its request has the other way (`ValidWorks`).

**Rate** (`RateSizes`: the clock and the interval are not empty, a compound packet is a sequence of
members, key-frame requests and direction calls are about tracks that exist; the code finds the
track of a request by its SSRC and refuses a call about another). `ReportsRotate` is not inductive:
how long a track has waited bounds nothing unless one knows where the cursor is. `RotationInv` adds
`Fair`: the reports a track has waited plus its distance from the cursor stay below the number of
tracks, and a report of another track shortens that distance (lemma `TurnFalls`, arithmetic modulo
the number of tracks). For `ChangesTold` the queues matter: the last event of a kind, of those that
wait or else of those queued, carries what holds now, or there is none and the application
knows it (`Told`). An event that finds no room replaces the waiting one of its kind, so each kind
waits at most once (`WaitOnce`) and, by counting, finds a place (`RoomToWait`): none is dropped.
The order of the two queues is needed too: were the waiting events polled first, an older value
would arrive last.
`RungsJustified` and `LossesShown` also use `RateTypes`: rates are positive, the smoothing weight is
at most 256/256, the fields of feedback are numbers and a ladder ascends, as
`nanortc_set_capability_ladder` checks. What a rise needs is said of many ticks, the
controller keeps a target and a time. `Climb` connects the two: an armed `up_target` is the
next rung, and `up_since` is the time of a tick since which there has been a `Lead`, that is every
tick follows one at the present rung, has headroom for the next and, above the floor, no heavy loss.
A tick that breaks the lead disarms the timer (`rate_control_update`), one that keeps it extends
it, and one at which the timer is old enough turns the lead into the justification of a rise. The
search (`rate_control_select_target`) takes the last rung that fits the budget; because the ladder
ascends all rungs below it fit too, also those at which the controller stops on its way up or down.
The ticks of a compound packet are a fold beside that of its members (lemma `AddTickRungs`). For
`LossesShown` one has to know that nothing else touches the losses: the events and the estimate of
other members, the cadence and all calls.

**Induction.** Loops over a table and traffic of any length are folds of the community modules or
recursive functions. Their induction theorems with an operator parameter are out of reach of the
provers; `BasicFacts` proves induction for sets of numbers from the well-foundedness of `<`, and
`FoldFacts` proves that a fold of a constant operator `Op` exists and stays in a family of sets that
`Op` stays in. A proof instantiates `FoldFacts` with an operator of its own, which is why the
models name the operators they fold. `FoldFacts` extends as little as it can, because each
instance repeats what it extends: the well-foundedness is a hypothesis of its theorems
(`WellOrdered`), which `LeastNat` of `BasicFacts` discharges once per instance.

**Only model-checked.** Liveness (`AllDelivered`, `Connects`, `Settles`, `PeersReady`, `BuffersDrain`,
`ChannelsOpen`) needs fairness and ENABLED, which TLAPS does not handle. `WindowReopens` is no
theorem: with messages of three fragments, or with more missing chunks than the reserve lets in, it is
false (`sctp_recv_fragments` and `sctp_recv_wedge` show the causes), so it holds of the instances that
exclude these cases. `AckedIsKept`, the third part of `OrderedOnce`, `NothingLost` and
`ImplementsStream` are theorems as long as nothing is abandoned. Without that condition they are
false: a FORWARD-TSN that passes an abandoned message behind one of three fragments, which
`nsctp_rx_merge` has left in pieces, drops those pieces. With abandonment they hold of the instances,
whose messages have at most two fragments. It was the attempt to prove `AckedIsKept` that led to
this case. The other half of `ApplicationIsTold`, `BitrateTold`, holds of the
instance but not in general: `nanortc_set_bitrate_bounds` moves the estimate without an event, so
two calls while an event about a rate waits leave the application with that older rate (an event of
900, bounds up to 500 and then up to 2000: it knows 900, the estimate is 500). What is left of the
safety properties, those of `Turn`, `MediaRecv` and `Signalling`, has no proof. In the first half of
`FeedbackRead` of `Rate` what the peer lost is part of the instance, one number beside each
encoding of it: which encodings mean the same is not said in general, so it stays with the run.

## Findings and known disagreements

Three runs exhibit a contradiction between the code and a comment or document: `sctp_recv_wedge`
(`nano_sctp.c:953`), `sctp_recv_fragments` (`nano_sctp.c:811`) and `media_rollover`
(`nano_srtp.c:513`). Modelling met more places where
the code does less than one would expect. The properties above leave them out by name or by a
restriction, and they are listed here so that a reader can judge both.

*Session.* INIT and COOKIE-ECHO are never retransmitted (`nano_sctp.c:543`; the "Maximum INIT
retransmissions" of `nanortc_config.h:597` is read by no code). An INIT-ACK that finds no
transmit slot stays queued, because the pump skips CLOSED associations (`nano_rtc.c:1663`,
against the comment above it). `nanortc_ice_restart` keeps SCTP: in the middle of its handshake
`nsctp_start` then fails for good, and after a restart of an established session only arriving
data or a heartbeat reports CONNECTED. A second fragment of a ClientHello that comes first is
taken for a complete message (`nano_dtls.c:240`, "we track contiguous coverage from 0"), and the
context stays in its error state. `heartbeat_pending` is only cleared by an ACK
(`nano_sctp.c:1538`). A second INIT resets the TSNs of a live association (`nano_sctp.c:610`).
`nanortc_disconnect` leaves ICE connected, so DISCONNECTED is reported again when consent expires.

*ICE and TURN.* An acknowledged nomination lives in a pending slot that expiry clears
(`nano_ice.c:336`, `587`), after which the controlled agent checks for ever. Any valid STUN
message over the selected pair renews consent, and a disconnected agent still answers it. A TURN
request that must be sent with a new nonce has deadline 0, and `nano_time_is_due(now, 0)` is false
in the upper half of the 32-bit clock: after 24.8 days of uptime it is never sent
(`nano_turn.c:1073`). A channel stays bound in the client after its refresh was given up, so
`LeaseHeld` is about the allocation and permissions only. After `turn_deallocate` a new
allocation derives its key from the union that the old key has overwritten.

*Media.* FEC counts a duplicate as another packet (`nano_rtc_media.c:1488`); a late packet of the
old SSRC enters the buffers re-seeded for the new one (`nano_rtc_media.c:1937`); the audio jitter
buffer is not re-seeded; a late packet may replace a future one (`nano_jitter.c:61`); a PLI held
back by its minimum interval is not sent later; an oversize NAL is dropped without a loss flag;
only the first NAL of an aggregation packet is returned; without a reorder buffer a duplicated
fragment corrupts a frame flagged contiguous.

*Negotiation and channels.* An answerer that creates a channel before `nanortc_accept_offer`
takes even ids and may clash with the offerer, and so does an offerer that becomes DTLS server
(`nano_rtc.c:1807`). A host candidate added after a reflexive or relayed one replaces it in the
ICE table (`nano_rtc_negotiate.c:615`). Candidates inside a description become host candidates. A
track created for an H.265 offer answers H.264; codecs that differ are not rejected; the
sample rate of an audio track created by the library is 0. M-lines beyond
`NANORTC_MAX_MEDIA_TRACKS` are missing from the answer. Channels are closed locally only, their
entries are never freed, and an OPEN refused by a full table leaves the opener OPENING.

*Rate.* At the lowest rung sustained loss does not hold back an up-step
(`nano_rate_control.c:100`). Once an RTCP interval has passed and no track has sent,
`nanortc_next_timeout_ms` returns 0 until one does. `set_bounds` moves the estimate without an
event; a threshold lowered later may give an event whose direction contradicts the last. A report
block is credited to the track of its sender, and only the first is read.

## What is not modelled

Codecs of bytes (STUN attributes, RTP and RTCP headers, Base64, CRC), key derivation,
cryptography and the TLS libraries: pure functions or external code, tested by vectors and
fuzzing. The timing of ICE consent (one step of `RtcSession`), the end of a session after SCTP
gives up retransmitting (the sender's half is in `SctpSend`), reflexive and relayed pairs in `Ice`
(their gathering is in `Signalling`, their permissions and the addressing of
relayed data in `Turn`), SRTCP, H.265 parameter sets, Annex B scanning, statistics and logging. Examples, test programs
and vendored code.

## Plan

1. *Done:* SCTP data transfer and its refinement, the output queue and its proof, the session
   with DTLS, ICE with host candidates, TURN, media receive, negotiation and data channels, rate.
2. *Done:* proofs of the output queue, both halves of SCTP (types, tiling, intact messages, no reneging,
   order and completeness of delivery, the sender as a conforming peer, its deadlines, the
   refinement of `MessageStream` while nothing is abandoned), the session, ICE, and of the rotation, the
   events, the rungs and the losses of `Rate`.
3. Proofs: the leases of `Turn` (they need bounds on how late a timer is served and an answer
   comes, which the run has and the module does not state), `FramesInOrder` for the buffers of
   `MediaBuffers`.
4. Consent timing, relayed pairs in `Ice` composed with `Turn`, retransmission failure in
   `RtcSession`.
