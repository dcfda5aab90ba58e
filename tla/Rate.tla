-------------------------------- MODULE Rate --------------------------------
(***************************************************************************)
(* How a sender adapts: RTCP feedback read member by member (the RTCP half *)
(* of nano_rtc_media.c, nano_rtcp.c, nano_twcc.c), the bandwidth estimate  *)
(* (nano_bwe.c), the rung it recommends (nano_rate_control.c), the events  *)
(* that tell the application (nano_rtc_emit_event_full), and the cadence   *)
(* of Sender Reports.                                                      *)
(*                                                                         *)
(* Rates are in units of 1 kbps, times in units of one second; the clock   *)
(* wraps at CLOCK.  A compound packet is a sequence of members             *)
(*   [is |-> "remb", mantissa, exp, valid]                                 *)
(*   [is |-> "twcc", count, chunks, deltas, lost]                          *)
(*   [is |-> "pli", track]   [is |-> "other"]    [is |-> "broken"]         *)
(*   [is |-> "sr", track, block, cut]   [is |-> "rr", track, block, cut]   *)
(* "other" is any member that changes nothing modelled here, "broken" one  *)
(* whose length runs past the packet.  An SR comes from the peer's stream  *)
(* of a track and an RR is about ours; block is the fraction lost of the   *)
(* first report block, cut what is missing at its end ("", "block" or      *)
(* "info").  Track 0 is an SSRC that no track has.  A chunk is             *)
(* [kind, symbols]: kind is "run" (equal symbols) or "vector", a symbol    *)
(* "lost", "small", "large" or "reserved".  lost is what the peer really   *)
(* lost, -1 if it is malformed.                                            *)
(***************************************************************************)
EXTENDS Sequences, FiniteSets, SequencesExt, Serial

CONSTANTS
  BWE_MIN, BWE_MAX, BWE_INITIAL, EMA_ALPHA, EVENT_THRESHOLD_PCT,
  SAFETY_PCT, UP_HEADROOM_PCT, MIN_HOLD, LOSS_DOWN_Q8,
  RTCP_INTERVAL, OUT_QUEUE_SIZE, TX_SLOT_COUNT,
  TWCC_MAX_PACKETS, WORD, CLOCK,
  Scenarios      \* name |-> [inputs, gaps, calls, max_inputs, drains, tracks, ladder, start]

\* A ladder has a rate per rung, ascending: nanortc_set_capability_ladder refuses any other.
Ordered(ladder) == \A i \in 2..Len(ladder) : ladder[i] >= ladder[i - 1]

\* Intervals are not empty, a compound packet is a sequence of members, and requests and calls
\* are about tracks that exist.
ASSUME RateSizes ==
  /\ CLOCK \in Nat \ {0} /\ RTCP_INTERVAL \in Nat \ {0}
  /\ \A name \in DOMAIN Scenarios :
       LET s == Scenarios[name]
       IN /\ s.tracks \in Nat /\ s.start \in Int /\ s.gaps \subseteq Int
          /\ \A c \in s.inputs :
               /\ Len(c) \in Nat /\ c = [i \in 1..Len(c) |-> c[i]]
               /\ \A i \in 1..Len(c) : /\ "is" \in DOMAIN c[i]
                                       /\ c[i].is = "pli" => c[i].track \in 0..s.tracks
          /\ \A c \in s.calls : c.op = "direction" => c.track \in 1..s.tracks

\* Rates are positive, percentages and thresholds are numbers, the fields of feedback have
\* their types, and the application sets numbers, and ladders that ascend.
ASSUME RateTypes ==
  /\ {BWE_MIN, BWE_MAX, BWE_INITIAL} \subseteq Nat \ {0} /\ EMA_ALPHA \in 0..256
  /\ {SAFETY_PCT, UP_HEADROOM_PCT, MIN_HOLD, LOSS_DOWN_Q8, WORD} \subseteq Nat
  /\ \A name \in DOMAIN Scenarios :
       LET s == Scenarios[name]
       IN /\ s.ladder \in Seq(Nat) /\ Ordered(s.ladder)
          /\ \A c \in s.inputs : \A i \in 1..Len(c) :
               /\ c[i].is \in {"sr", "rr"} => "block" \in DOMAIN c[i] /\ c[i].block \in Nat
               /\ c[i].is = "remb" => c[i].mantissa \in Nat /\ c[i].exp \in Nat
               /\ c[i].is = "twcc" =>
                    /\ c[i].count \in Nat
                    /\ c[i].chunks \in Seq([kind : {"run", "vector"}, symbols : Seq(STRING)])
          /\ \A c \in s.calls : /\ c.op = "bounds" => c.min \in Nat /\ c.max \in Nat
                                /\ c.op = "initial" => c.bps \in Nat
                                /\ c.op = "ladder" => c.rungs \in Seq(Nat)

VARIABLES
  rtc,     \* the parts of nanortc_t that adapt
  app,     \* what the events told the application: [bitrate, rung, direction]
  past,    \* history: [ticks, read, pct, waited, asked, reported], see the properties
  plan     \* the scenario, how many inputs and which calls are left

vars == <<rtc, app, past, plan>>

Never == -1
Abs(n) == IF n < 0 THEN -n ELSE n

-----------------------------------------------------------------------------
(* Feedback packets. *)

\* Mutant: a chunk gives all of its symbols.
WholeChunk(acc, chunk) ==
  IF ~acc.ok \/ acc.left = 0 THEN acc
  ELSE IF chunk.symbols = <<>> \/ Contains(chunk.symbols, "reserved") THEN [acc EXCEPT !.ok = FALSE]
  ELSE [acc EXCEPT !.left = Max({0, @ - Len(chunk.symbols)}), !.used = @ + 1,
                   !.statuses = @ \o chunk.symbols]

\* A report that nothing has cut short.
Whole(m) == m.cut = ""

\* A Sender Report without its sender info is refused; one cut in its report block has none.
rtcp_parse(m) ==
  IF m.is \notin {"sr", "rr"} \/ Whole(m) THEN m
  ELSE IF m.is = "sr" /\ m.cut = "info" THEN [is |-> "other"]
  ELSE [m EXCEPT !.block = Never]

\* The next chunk: as many of its symbols as packets are still unaccounted for.
ParseChunk(acc, chunk) ==
  LET taken == SubSeq(chunk.symbols, 1, Min({acc.left, Len(chunk.symbols)}))
  IN IF ~acc.ok \/ acc.left = 0 THEN acc
     ELSE IF taken = <<>> \/ Contains(taken, "reserved") THEN [acc EXCEPT !.ok = FALSE]
     ELSE [acc EXCEPT !.left = @ - Len(taken), !.used = @ + 1, !.statuses = @ \o taken]

\* Chunks until every packet has a status.
parse_chunks(chunks, count) ==
  FoldLeft(ParseChunk, [left |-> count, used |-> 0, statuses |-> <<>>, ok |-> TRUE], chunks)

Count(statuses, symbol) == Cardinality({i \in 1..Len(statuses) : statuses[i] = symbol})

\* Header, chunks, deltas, and padding to a word.
Size(fb) == ((20 + 2 * Len(fb.chunks) + fb.deltas + 3) \div 4) * 4

\* The number of packets lost, Never when the feedback is rejected.
twcc_parse_feedback(fb) ==
  LET parsed == parse_chunks(fb.chunks, fb.count)
      deltas == Count(parsed.statuses, "small") + 2 * Count(parsed.statuses, "large")
      spare == Size(fb) - (20 + 2 * parsed.used) - deltas
  IN IF fb.count = 0 THEN 0
     ELSE IF fb.count > TWCC_MAX_PACKETS \/ ~parsed.ok \/ parsed.left > 0 \/ spare \notin 0..3
     THEN Never
     ELSE Count(parsed.statuses, "lost")

\* mantissa * 2^exp, saturated at the width of the word.
bwe_parse_remb(m) ==
  LET top == 2^WORD - 1
  IN IF m.exp >= WORD \/ (m.exp > 0 /\ m.mantissa > top \div (2^m.exp)) THEN top
     ELSE m.mantissa * 2^m.exp

-----------------------------------------------------------------------------
(* The estimate. *)

bwe_init ==
  [estimated |-> BWE_INITIAL, prev_event |-> BWE_INITIAL, remb |-> FALSE, twcc |-> FALSE,
   loss |-> 0, min |-> 0, max |-> 0, pct |-> 0]

bwe_effective_min(b) == IF b.min # 0 THEN b.min ELSE BWE_MIN
bwe_effective_max(b) == IF b.max # 0 THEN b.max ELSE BWE_MAX
ThresholdPct(b) == IF b.pct # 0 THEN b.pct ELSE EVENT_THRESHOLD_PCT

bwe_clamp(b, bps) ==
  IF bps < bwe_effective_min(b) THEN bwe_effective_min(b)
  ELSE IF bps > bwe_effective_max(b) THEN bwe_effective_max(b)
  ELSE bps

\* The bounds move the estimate and the baseline of the next event at once.
bwe_set_bounds(b, min, max) ==
  LET new == [b EXCEPT !.min = min, !.max = max]
  IN IF bwe_effective_min(new) > bwe_effective_max(new) THEN b
     ELSE [new EXCEPT !.estimated = bwe_clamp(new, @), !.prev_event = bwe_clamp(new, @)]

bwe_set_initial_bitrate(b, bps) ==
  LET initial == bwe_clamp(b, IF bps # 0 THEN bps ELSE BWE_INITIAL)
  IN IF b.remb \/ b.twcc THEN b
     ELSE [b EXCEPT !.estimated = initial, !.prev_event = initial]

\* The first sample of a kind is taken as it is, the others are smoothed.
bwe_apply(b, bps, first) ==
  LET candidate == bwe_clamp(b, bps)
  IN [b EXCEPT !.estimated = IF first THEN candidate
                             ELSE (EMA_ALPHA * candidate + (256 - EMA_ALPHA) * @) \div 256]

bwe_on_rtcp_feedback(b, m) ==
  IF ~m.valid THEN b
  ELSE [bwe_apply(b, bwe_parse_remb(m), ~b.remb) EXCEPT !.remb = TRUE]

\* Low loss probes upwards, high loss backs off, anything between holds.
bwe_on_twcc_loss(b, loss) ==
  LET base == IF b.estimated = 0 THEN BWE_INITIAL ELSE b.estimated
      target == IF loss < 5 THEN Min({(base * 108) \div 100, bwe_effective_max(b)})
                ELSE IF loss > 25 THEN Max({(base * (512 - loss)) \div 512, bwe_effective_min(b)})
                ELSE base
  IN [bwe_apply(b, target, ~b.twcc) EXCEPT
        !.twcc = TRUE, !.loss = IF b.twcc THEN (@ * 3 + loss) \div 4 ELSE loss]

\* The estimate is compared with the one the last event carried.
bwe_should_emit_event(b) ==
  /\ b.prev_event # 0
  /\ Abs(b.estimated - b.prev_event) > (b.prev_event \div 100) * ThresholdPct(b)

-----------------------------------------------------------------------------
(* The recommended rung: ladder[rung + 1] is its bit rate. *)

rate_control_init == [cur_rung |-> 0, has_rung |-> FALSE, up_target |-> 0, up_since |-> 0]

rate_control_clear_up(rc) == [rc EXCEPT !.up_target = 0, !.up_since = 0]

\* The highest rung inside the safety-discounted budget, rung 0 if there is none.
rate_control_select_target(estimate, ladder) ==
  Max({0} \cup {i - 1 : i \in {k \in 1..Len(ladder) : ladder[k] <= (estimate * SAFETY_PCT) \div 100}})

\* Mutant: the hold timer is not disarmed when the headroom lapses.
HoldsForEver(rc, estimate, loss, ladder, now) ==
  LET fits == rate_control_select_target(estimate, ladder)
      target == IF loss >= LOSS_DOWN_Q8 /\ rc.cur_rung > 0 THEN Min({fits, rc.cur_rung - 1}) ELSE fits
      next == rc.cur_rung + 1
      need == (ladder[next + 1] * (100 + UP_HEADROOM_PCT)) \div 100
      armed == IF rc.up_target = next THEN rc
               ELSE [rc EXCEPT !.up_target = next, !.up_since = now]
  IN IF ~rc.has_rung
     THEN rate_control_clear_up([rc EXCEPT !.cur_rung = fits, !.has_rung = TRUE])
     ELSE IF target < rc.cur_rung THEN rate_control_clear_up([rc EXCEPT !.cur_rung = target])
     ELSE IF target = rc.cur_rung \/ estimate < need THEN rc
     ELSE IF nano_time_elapsed(now, armed.up_since, CLOCK) >= MIN_HOLD
     THEN rate_control_clear_up([rc EXCEPT !.cur_rung = next])
     ELSE armed

\* Down at once; up by one rung, after the headroom has held for MIN_HOLD.
rate_control_update(rc, estimate, loss, ladder, now) ==
  LET fits == rate_control_select_target(estimate, ladder)
      target == IF loss >= LOSS_DOWN_Q8 /\ rc.cur_rung > 0 THEN Min({fits, rc.cur_rung - 1}) ELSE fits
      next == rc.cur_rung + 1
      need == (ladder[next + 1] * (100 + UP_HEADROOM_PCT)) \div 100
      armed == IF rc.up_target = next THEN rc
               ELSE [rc EXCEPT !.up_target = next, !.up_since = now]
  IN IF estimate = 0 THEN rc
     ELSE IF ~rc.has_rung
     THEN rate_control_clear_up([rc EXCEPT !.cur_rung = fits, !.has_rung = TRUE])
     ELSE IF target < rc.cur_rung THEN rate_control_clear_up([rc EXCEPT !.cur_rung = target])
     ELSE IF target = rc.cur_rung \/ estimate < need THEN rate_control_clear_up(rc)
     ELSE IF nano_time_elapsed(now, armed.up_since, CLOCK) >= MIN_HOLD
     THEN rate_control_clear_up([rc EXCEPT !.cur_rung = next])
     ELSE armed

-----------------------------------------------------------------------------
(* Events. *)

Event(is, key, value) == [is |-> is, key |-> key, value |-> value]

\* One for each type and key of the events modelled here.
PENDING_EVENT_SLOTS(r) == 2 * Len(r.media) + 2

\* Mutant: a waiting event of the same type and key is kept, the new one dropped.
FirstOneStays(r, event) ==
  LET same == \E i \in 1..Len(r.pending) : r.pending[i].is = event.is /\ r.pending[i].key = event.key
  IN IF r.pending = <<>> /\ Len(r.out) < OUT_QUEUE_SIZE THEN [r EXCEPT !.out = Append(@, event)]
     ELSE IF same \/ Len(r.pending) = PENDING_EVENT_SLOTS(r) THEN r
     ELSE [r EXCEPT !.pending = Append(@, event)]

\* An event that finds no room waits, and replaces a waiting one of its type and key.
nano_rtc_emit_event_full(r, event) ==
  LET same == {i \in 1..Len(r.pending) : r.pending[i].is = event.is /\ r.pending[i].key = event.key}
      others == IF same = {} THEN r.pending ELSE RemoveAt(r.pending, Min(same))
  IN IF r.pending = <<>> /\ Len(r.out) < OUT_QUEUE_SIZE THEN [r EXCEPT !.out = Append(@, event)]
     ELSE IF same # {} \/ Len(r.pending) < PENDING_EVENT_SLOTS(r)
     THEN [r EXCEPT !.pending = Append(others, event)]
     ELSE r

\* A tick of the controller; an event when the rung changed or is the first.
nano_rtc_media_rate_control_tick(r) ==
  LET rc == rate_control_update(r.rc, r.bwe.estimated, r.bwe.loss, r.ladder, r.now)
  IN IF r.ladder = <<>> THEN r
     ELSE IF rc.cur_rung = r.rc.cur_rung /\ r.rc.has_rung THEN [r EXCEPT !.rc = rc]
     ELSE nano_rtc_emit_event_full([r EXCEPT !.rc = rc], Event("spec", 0, rc.cur_rung))

\* The estimate has been updated: the event about it, then the controller.
Updated(r, b) ==
  LET new == [r EXCEPT !.bwe = b]
  IN nano_rtc_media_rate_control_tick(
       IF bwe_should_emit_event(b)
       THEN nano_rtc_emit_event_full([new EXCEPT !.bwe.prev_event = b.estimated],
                                     Event("bitrate", 0, b.estimated))
       ELSE new)

\* Does the member reach the estimator?
Feeds(m) == m.is = "remb" \/ (m.is = "twcc" /\ m.count > 0 /\ twcc_parse_feedback(m) # Never)

\* A report block changes the loss a track shows.
HandleReport(r, m) ==
  IF m.track = 0 \/ m.block = Never THEN r
  ELSE [r EXCEPT !.media[m.track].fraction_lost = m.block]

\* One member of a compound packet.
HandleMember(r, member) ==
  LET m == rtcp_parse(member)
  IN CASE m.is \in {"sr", "rr"} -> HandleReport(r, m)
       [] m.is = "remb" -> Updated(r, bwe_on_rtcp_feedback(r.bwe, m))
       [] m.is = "pli" /\ m.track # 0 -> nano_rtc_emit_event_full(r, Event("keyframe", m.track, 0))
       [] m.is = "twcc" /\ Feeds(m) ->
            Updated(r, bwe_on_twcc_loss(r.bwe, (twcc_parse_feedback(m) * 256) \div m.count))
       [] OTHER -> r

\* Members up to the first whose length runs past the packet.
BrokenAt(compound) ==
  SelectInSeq(compound, LAMBDA m : m.is = "broken")

Members(compound) ==
  IF BrokenAt(compound) = 0 THEN compound ELSE SubSeq(compound, 1, BrokenAt(compound) - 1)

-----------------------------------------------------------------------------
(* Sender Reports. *)

Sends(direction) == direction \in {"sendrecv", "sendonly"}

\* Tracks with something to report.
Reporting(r) == {t \in 1..Len(r.media) : Sends(r.media[t].direction) /\ r.media[t].sent}

\* The next of them, counting from the cursor: 0 when there is none.
NextReport(r) ==
  LET n == Len(r.media)
      Turn(t) == (t - 1 - r.sr_cursor) % n
  IN IF Reporting(r) = {} THEN 0
     ELSE CHOOSE t \in Reporting(r) : \A u \in Reporting(r) : Turn(t) <= Turn(u)

\* A packet needs a transmit slot, held until it is polled, and room in the queue.
CanTransmit(r) ==
  /\ Len(r.out) < OUT_QUEUE_SIZE
  /\ Cardinality({i \in 1..Len(r.out) : r.out[i].is \in {"sr", "media", "pli"}}) < TX_SLOT_COUNT

\* Mutant: the scan resumes at the track that has just reported.
CursorStays(r) ==
  LET t == NextReport(r)
  IN IF \/ nano_time_elapsed(r.now, r.last_sr, CLOCK) < RTCP_INTERVAL
        \/ t = 0 \/ ~CanTransmit(r)
     THEN r
     ELSE [r EXCEPT !.out = Append(@, Event("sr", t, 0)), !.last_sr = r.now, !.sr_cursor = t - 1]

\* At most one report per interval, if a slot and the queue have room for it.
nano_rtc_media_emit_rtcp_sr_cadence(r) ==
  LET t == NextReport(r)
  IN IF \/ nano_time_elapsed(r.now, r.last_sr, CLOCK) < RTCP_INTERVAL
        \/ t = 0 \/ ~CanTransmit(r)
     THEN r
     ELSE [r EXCEPT !.out = Append(@, Event("sr", t, 0)), !.last_sr = r.now,
                    !.sr_cursor = t % Len(r.media)]

-----------------------------------------------------------------------------
\* The connection is up: the first report is due one interval after the keys (rtc_finish_dtls).
Init ==
  \E name \in DOMAIN Scenarios :
    LET s == Scenarios[name]
    IN /\ rtc = [bwe |-> bwe_init, rc |-> rate_control_init, ladder |-> s.ladder,
                 media |-> [t \in 1..s.tracks |-> [direction |-> "sendrecv", sent |-> FALSE,
                                              fraction_lost |-> 0]],
                 out |-> <<>>, pending |-> <<>>, sr_cursor |-> 0, last_sr |-> s.start,
                 now |-> s.start]
       /\ app = [bitrate |-> BWE_INITIAL, rung |-> 0,
                 direction |-> [t \in 1..s.tracks |-> "sendrecv"]]
       /\ past = [ticks |-> <<>>, read |-> <<0, 0>>, pct |-> EVENT_THRESHOLD_PCT,
                  waited |-> [t \in 1..s.tracks |-> 0], asked |-> {},
                  reported |-> [t \in 1..s.tracks |-> 0]]
       /\ plan = [name |-> name, inputs |-> s.max_inputs, calls |-> s.calls]

Scenario == Scenarios[plan.name]

\* The controller's ticks, one for each member that feeds the estimator.
Tick(r) == [at |-> r.now, estimate |-> r.bwe.estimated, loss |-> r.bwe.loss, rung |-> r.rc.cur_rung]

AddTick(acc, member) ==
  LET s == HandleMember(acc.r, member)
  IN [r |-> s, ticks |-> IF Feeds(member) THEN Append(acc.ticks, Tick(s)) ELSE acc.ticks]

Ticks(r, members, old) == FoldLeft(AddTick, [r |-> r, ticks |-> old], members).ticks

\* What the peer lost and what was read of it, for the last feedback that was read.
Read(members, old) ==
  LET told == SelectSeq(members, LAMBDA m : m.is = "twcc")
  IN IF told = <<>> THEN old ELSE <<Last(told).lost, twcc_parse_feedback(Last(told))>>

\* The losses of our tracks as the peer's complete reports tell them.
Reported(old, m) ==
  IF m.is \in {"sr", "rr"} /\ m.track # 0 /\ Whole(m) THEN [old EXCEPT ![m.track] = m.block] ELSE old

\* Reports of others since a track's own.
Waited(old, before, after) ==
  IF after.last_sr = before.last_sr THEN old
  ELSE [t \in DOMAIN old |->
          IF t \notin Reporting(before) \/ t = Last(after.out).key THEN 0 ELSE old[t] + 1]

\* Time passes and a packet may arrive: first the timers, then the packet.  An application
\* that drains polls every output first.
nanortc_handle_input ==
  \E gap \in Scenario.gaps, compound \in Scenario.inputs :
    LET begun == [rtc EXCEPT !.now = (@ + gap) % CLOCK]
        timed == nano_rtc_media_emit_rtcp_sr_cadence(begun)
        members == Members(compound)
    IN /\ plan.inputs > 0 /\ (Scenario.drains => rtc.out \o rtc.pending = <<>>)
       /\ plan' = [plan EXCEPT !.inputs = @ - 1]
       /\ rtc' = FoldLeft(HandleMember, timed, members)
       /\ past' = [ticks |-> IF rtc.ladder = <<>> THEN <<>> ELSE Ticks(timed, members, past.ticks),
                   read |-> Read(members, past.read),
                   pct |-> IF \E i \in 1..Len(members) : Feeds(members[i])
                           THEN ThresholdPct(rtc.bwe) ELSE past.pct,
                   waited |-> Waited(past.waited, begun, timed),
                   asked |-> past.asked \cup
                     {t \in 1..Len(rtc.media) : Contains(members, [is |-> "pli", track |-> t])},
                   reported |-> FoldLeft(Reported, past.reported, members)]
       /\ app' = app

\* The application learns what one output says; it applies the bounds it set itself.
Learnt(event) ==
  CASE event.is = "bitrate" -> [app EXCEPT !.bitrate = bwe_clamp(rtc.bwe, event.value)]
    [] event.is = "spec" -> [app EXCEPT !.rung = event.value]
    [] event.is = "changed" -> [app EXCEPT !.direction[event.key] = event.value]
    [] OTHER -> app

\* The queue first, then the events that waited for room in it.
nanortc_poll_output ==
  /\ rtc.out \o rtc.pending # <<>>
  /\ rtc' = IF rtc.out # <<>> THEN [rtc EXCEPT !.out = Tail(@)] ELSE [rtc EXCEPT !.pending = Tail(@)]
  /\ LET event == Head(rtc.out \o rtc.pending)
     IN /\ app' = Learnt(event)
        /\ past' = IF event.is = "keyframe" THEN [past EXCEPT !.asked = @ \ {event.key}] ELSE past
  /\ UNCHANGED plan

-----------------------------------------------------------------------------
(* Calls of the application. *)

Calls(op) == {c \in plan.calls : c.op = op}
Called(c) == plan' = [plan EXCEPT !.calls = @ \ {c}]

nanortc_set_bitrate_bounds ==
  \E c \in Calls("bounds") :
    LET b == bwe_set_bounds(rtc.bwe, c.min, c.max)
    IN /\ rtc' = [rtc EXCEPT !.bwe = b]
       /\ app' = IF b = rtc.bwe THEN app ELSE [app EXCEPT !.bitrate = bwe_clamp(b, @)]
       /\ Called(c) /\ UNCHANGED past

nanortc_set_initial_bitrate ==
  \E c \in Calls("initial") :
    LET b == bwe_set_initial_bitrate(rtc.bwe, c.bps)
    IN /\ rtc' = [rtc EXCEPT !.bwe = b]
       /\ app' = IF b = rtc.bwe THEN app ELSE [app EXCEPT !.bitrate = b.estimated]
       /\ Called(c) /\ UNCHANGED past

nanortc_set_bwe_event_threshold ==
  \E c \in Calls("threshold") :
    /\ rtc' = IF c.pct > 100 THEN rtc ELSE [rtc EXCEPT !.bwe.pct = c.pct]
    /\ Called(c) /\ UNCHANGED <<app, past>>

\* A misordered ladder is refused; any other starts the controller afresh.
nanortc_set_capability_ladder ==
  \E c \in Calls("ladder") :
    /\ rtc' = IF Ordered(c.rungs) THEN [rtc EXCEPT !.ladder = c.rungs, !.rc = rate_control_init]
              ELSE rtc
    /\ past' = IF Ordered(c.rungs) THEN [past EXCEPT !.ticks = <<>>] ELSE past
    /\ Called(c) /\ UNCHANGED app

nanortc_set_direction ==
  \E c \in Calls("direction") :
    LET set == [rtc EXCEPT !.media[c.track].direction = c.direction]
    IN /\ rtc' = IF set = rtc THEN rtc
                 ELSE nano_rtc_emit_event_full(set, Event("changed", c.track, c.direction))
       /\ Called(c) /\ UNCHANGED <<app, past>>

\* A packet in a slot; only one that was queued counts as sent.
rtc_send_audio(r, t) ==
  IF ~CanTransmit(r) THEN r
  ELSE [r EXCEPT !.media[t].sent = TRUE, !.out = Append(@, Event("media", t, 0))]

nanortc_send_audio ==
  \E c \in Calls("send") :
    /\ rtc' = IF Sends(rtc.media[c.track].direction) THEN rtc_send_audio(rtc, c.track) ELSE rtc
    /\ Called(c) /\ UNCHANGED <<app, past>>

\* A request for a key frame takes a slot too, or is refused.
rtc_emit_pli(r, t) ==
  IF CanTransmit(r) THEN [r EXCEPT !.out = Append(@, Event("pli", t, 0))] ELSE r

nanortc_request_keyframe ==
  \E c \in Calls("request") :
    /\ rtc' = rtc_emit_pli(rtc, c.track)
    /\ Called(c) /\ UNCHANGED <<app, past>>

Next ==
  \/ nanortc_handle_input \/ nanortc_poll_output
  \/ nanortc_set_bitrate_bounds \/ nanortc_set_initial_bitrate
  \/ nanortc_set_bwe_event_threshold \/ nanortc_set_capability_ladder
  \/ nanortc_set_direction \/ nanortc_send_audio \/ nanortc_request_keyframe

Spec == Init /\ [][Next]_vars

-----------------------------------------------------------------------------
(* Properties. *)

\* An event of this type and key has not been polled yet.
Waiting(is, key) ==
  \E q \in {rtc.out, rtc.pending} : \E i \in 1..Len(q) : q[i].is = is /\ q[i].key = key

\* The estimate is within the threshold of the last the application was told.
BitrateTold ==
  ~Waiting("bitrate", 0) => 100 * Abs(rtc.bwe.estimated - app.bitrate) <= past.pct * app.bitrate

\* The recommended rung and the directions are the last it was told, and no request for a key
\* frame is lost.
ChangesTold ==
  /\ ~Waiting("spec", 0) /\ rtc.rc.has_rung => app.rung = rtc.rc.cur_rung
  /\ \A t \in 1..Len(rtc.media) :
       /\ ~Waiting("changed", t) => app.direction[t] = rtc.media[t].direction
       /\ t \in past.asked => Waiting("keyframe", t)

(* Once the events of a kind have been polled the application knows the truth: the estimate is
   within the threshold of the last it was told, however small the steps that moved it, the
   recommended rung and the directions are the last it was told, and no request for a key
   frame is lost, although events share one small queue, wait and replace each other
   (nano_rtc_emit_event_full, bwe_should_emit_event). *)
ApplicationIsTold == BitrateTold /\ ChangesTold

Headroom(tick, rung) ==
  tick.estimate >= (rtc.ladder[rung + 1] * (100 + UP_HEADROOM_PCT)) \div 100

(* A recommended rung above the floor fits the discounted estimate it was chosen from, and a
   rise is one rung after a stretch of at least MIN_HOLD in which every tick had headroom for
   it and, above the floor, no heavy loss, with nothing but the old rung recommended
   (rate_control_update; the clock wraps in the run). *)
RungsJustified ==
  \A i \in 1..Len(past.ticks) :
    LET tick == past.ticks[i]
        before == IF i = 1 THEN tick.rung ELSE past.ticks[i - 1].rung
    IN /\ tick.rung > 0 => rtc.ladder[tick.rung + 1] <= (tick.estimate * SAFETY_PCT) \div 100
       /\ tick.rung > before =>
            /\ tick.rung = before + 1
            /\ \E k \in 2..i :
                 /\ nano_time_elapsed(tick.at, past.ticks[k].at, CLOCK) >= MIN_HOLD
                 /\ \A j \in k..i :
                      /\ past.ticks[j - 1].rung = before
                      /\ Headroom(past.ticks[j], tick.rung)
                      /\ before > 0 => past.ticks[j].loss < LOSS_DOWN_Q8

\* A track shows the loss of the last whole report about it.
LossesShown == \A t \in 1..Len(rtc.media) : rtc.media[t].fraction_lost = past.reported[t]

(* A transport-wide feedback is read as what the peer lost, however it mixes its chunks and
   wherever the last chunk overshoots, and a malformed one is not used; and a track shows the
   loss of the last whole report about it, whatever else is in the compound packets
   (parse_chunks, twcc_parse_feedback, rtcp_parse, nano_rtc_media_handle_rtp_or_rtcp). *)
FeedbackRead == past.read[1] = past.read[2] /\ LossesShown

(* Sender Reports rotate: while a track has something to report the others never report as
   often as there are tracks before its turn, whatever is switched off and on in between
   (nano_rtc_media_emit_rtcp_sr_cadence). *)
ReportsRotate == \A t \in 1..Len(rtc.media) : past.waited[t] < Len(rtc.media)
=============================================================================
