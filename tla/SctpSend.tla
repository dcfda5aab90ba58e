------------------------------ MODULE SctpSend ------------------------------
(***************************************************************************)
(* The send half of an established SCTP association (src/nano_sctp.c): the *)
(* bounded send queue and its byte buffer, fragmentation, retransmission   *)
(* with exponential backoff, partial reliability (abandonment and          *)
(* FORWARD-TSN) and the processing of SACKs.                               *)
(*                                                                         *)
(* The handlers are functions of the sender's state s; SctpLink makes them *)
(* actions. A cumulative SACK always acknowledges a prefix of the queue,   *)
(* which leaves it in the same call, so an entry needs no acked flag. The  *)
(* clock is kept as ages: now_ms - sent_at_ms, capped at RTO_MAX because   *)
(* no comparison distinguishes more.                                       *)
(***************************************************************************)
EXTENDS SctpTraffic

CONSTANTS
    Retries,            \* max_retransmits of each message; -1: reliable
    MAX_SEND_QUEUE,     \* NANORTC_SCTP_MAX_SEND_QUEUE: entries
    SEND_BUF_SIZE,      \* bytes of send_buf
    RTO_INITIAL, RTO_MAX, MAX_RETRANSMITS

ASSUME SendSizes ==
    /\ MAX_SEND_QUEUE \in Nat \ {0} /\ SEND_BUF_SIZE \in Nat
    /\ RTO_MAX \in Nat /\ RTO_INITIAL \in 1..RTO_MAX /\ MAX_RETRANSMITS \in Nat
    /\ Retries \in [1..Len(Msgs) -> Int]
    /\ Abandonable = {m \in 1..Len(Msgs) : Retries[m] >= 0}

\* nsctp_init, then an established association in which the application has
\* not sent anything. forward_sent_at_ms is 0, long ago.
SndInit == [state |-> "established", closed_due_to_failure |-> FALSE,
            queue |-> <<>>, send_buf |-> <<>>,
            next_tsn |-> InitTsn, next_ssn |-> [m \in {} |-> 0],
            rto |-> RTO_INITIAL,
            forward_pending |-> FALSE, forward_age |-> RTO_MAX]

\* The clock advances by d. Only what is in flight and not abandoned has an age
\* that is read.
Age(a, d) == IF a + d < RTO_MAX THEN a + d ELSE RTO_MAX
Timed(e) == e.in_flight /\ ~e.abandoned
OlderEntry(e, d) == IF Timed(e) THEN [e EXCEPT !.age = Age(@, d)] ELSE e
Older(s, d) ==
    [s EXCEPT !.forward_age = Age(@, d),
              !.queue = [i \in DOMAIN @ |-> OlderEntry(@[i], d)]]

-----------------------------------------------------------------------------
(* nsctp_send_options.                                                      *)

\* All or nothing: every fragment finds an entry and every byte a place.
Reserved(s, m) ==
    /\ Len(Msgs[m].lens) <= MAX_SEND_QUEUE - Len(s.queue)
    /\ Sum(Msgs[m].lens) <= SEND_BUF_SIZE - Len(s.send_buf)

NextSsn(s, sid) == IF sid \in DOMAIN s.next_ssn THEN s.next_ssn[sid] ELSE InitSsn

nsctp_send_options(s, m) ==
    LET msg == Msgs[m]
        ssn == IF msg.unordered THEN 0 ELSE NextSsn(s, msg.sid)
        part(i) == [tsn |-> Plus(s.next_tsn, i - 1, TSN_MOD), msg |-> m,
                    sid |-> msg.sid, ssn |-> ssn,
                    B |-> i = 1, E |-> i = Len(msg.lens), U |-> msg.unordered,
                    off |-> Len(s.send_buf) + Sum(SubSeq(msg.lens, 1, i - 1)),
                    len |-> msg.lens[i], max_retransmits |-> Retries[m],
                    in_flight |-> FALSE, abandoned |-> FALSE,
                    retransmit_count |-> 0, age |-> 0]
    IN [s EXCEPT !.send_buf = @ \o Bytes(m),
                 !.queue = @ \o [i \in 1..Len(msg.lens) |-> part(i)],
                 !.next_tsn = Plus(@, Len(msg.lens), TSN_MOD),
                 !.next_ssn = IF msg.unordered THEN @
                              ELSE [x \in DOMAIN @ \cup {msg.sid} |->
                                      IF x = msg.sid THEN Plus(ssn, 1, SSN_MOD) ELSE @[x]]]

-----------------------------------------------------------------------------
(* Abandonment and FORWARD-TSN (RFC 3758).                                  *)

Abandoned(e) == [e EXCEPT !.abandoned = TRUE, !.age = 0, !.retransmit_count = 0]

AbandonOne(s, index) == [s EXCEPT !.forward_pending = TRUE, !.queue[index] = Abandoned(@)]

\* The entry at index and all the other fragments of its message: back to the
\* BEGIN fragment or the head of the queue, on to the END fragment.
nsctp_abandon_message(s, index) ==
    [s EXCEPT !.forward_pending = TRUE,
              !.queue = [j \in DOMAIN @ |->
                 IF @[j].msg = @[index].msg THEN Abandoned(@[j]) ELSE @[j]]]

\* Length of the abandoned prefix of the queue.
AbandonedPrefix(s) ==
    Max({n \in 0..Len(s.queue) : \A i \in 1..n : s.queue[i].abandoned})

\* The <<stream, ssn>> pairs of a FORWARD-TSN: the last skipped message of each
\* stream, streams in order of appearance.
SkipEntry(pairs, e) ==
    LET at == {j \in DOMAIN pairs : pairs[j][1] = e.sid}
    IN IF e.U THEN pairs
       ELSE IF at = {} THEN Append(pairs, <<e.sid, e.ssn>>)
       ELSE [pairs EXCEPT ![Min(at)] = <<e.sid, e.ssn>>]

SkippedStreams(entries) == FoldLeft(SkipEntry, <<>>, entries)

ForwardTsn(s) ==
    LET n == AbandonedPrefix(s)
    IN [type |-> "forward", tsn |-> s.queue[n].tsn,
        pairs |-> SkippedStreams(SubSeq(s.queue, 1, n))]

-----------------------------------------------------------------------------
(* nsctp_poll_output: one packet, or none.                                  *)

Sendable(s) == {i \in DOMAIN s.queue : ~s.queue[i].in_flight /\ ~s.queue[i].abandoned}

DataPacket(s, e) ==
    [type |-> "data", tsn |-> e.tsn,
     chunk |-> [msg |-> e.msg, sid |-> e.sid, ssn |-> e.ssn, B |-> e.B, E |-> e.E,
                U |-> e.U, payload |-> SubSeq(s.send_buf, e.off + 1, e.off + e.len)]]

ForwardsNow(s) == s.forward_pending /\ AbandonedPrefix(s) > 0
SendsData(s) == /\ ~ForwardsNow(s) /\ s.state = "established" /\ Sendable(s) # {}

AfterForward(s) == [s EXCEPT !.forward_pending = FALSE, !.forward_age = 0]
AfterData(s, i) == [s EXCEPT !.forward_pending = FALSE,
                             !.queue[i].in_flight = TRUE, !.queue[i].age = 0]
\* Nothing to send; a FORWARD-TSN that skips nothing is forgotten.
AfterNoData(s) == [s EXCEPT !.forward_pending = FALSE]

nsctp_has_pending_output(s) ==
    \/ s.forward_pending
    \/ s.state = "established" /\ Sendable(s) # {}

-----------------------------------------------------------------------------
(* nsctp_handle_sack_chunk; gaps is the set of offsets in the gap blocks.   *)

AckedNext(s, cum) ==
    Max({n \in 0..Len(s.queue) : \A i \in 1..n : TsnDiff(s.queue[i].tsn, cum) <= 1})
AckedPrefix(s, cum) ==
    Max({n \in 0..Len(s.queue) : \A i \in 1..n : TsnDiff(s.queue[i].tsn, cum) <= 0})

\* A fragment that may not be retransmitted is given up as soon as a later one
\* in flight is reported received.
Doomed(s, cum, gaps) ==
    LET off(i) == TsnDiff(s.queue[i].tsn, cum)
        later == {off(i) : i \in {j \in DOMAIN s.queue : s.queue[j].in_flight}} \cap gaps
    IN {i \in DOMAIN s.queue :
          LET e == s.queue[i]
          IN /\ e.in_flight /\ ~e.abandoned /\ e.max_retransmits = 0
             /\ off(i) > 0 /\ off(i) \notin gaps
             /\ \E h \in later : h > off(i)}

\* What is left of the queue and of send_buf, which is only reset when the queue
\* is empty.
Drop(s, cum) ==
    [s EXCEPT !.queue = SubSeq(@, AckedPrefix(s, cum) + 1, Len(@)),
              !.send_buf = IF AckedPrefix(s, cum) = Len(s.queue) THEN <<>> ELSE @]

nsctp_handle_sack_chunk(s, cum, gaps) ==
    Drop(FoldLeft(nsctp_abandon_message, s, SetToSeq(Doomed(s, cum, gaps))), cum)

-----------------------------------------------------------------------------
(* nsctp_handle_timeout.                                                    *)
\* Exponential backoff.
Doubled(rto) == IF 2 * rto > RTO_MAX THEN RTO_MAX ELSE 2 * rto

\* A message with limited retransmissions has used them up.
NoRetryLeft(e) == e.retransmit_count >= e.max_retransmits
RetriesUsedUp(e) == e.max_retransmits >= 0 /\ e.retransmit_count >= e.max_retransmits

\* One entry of the scan. A failure ends it; each expired entry doubles the RTO
\* the later ones are compared with.
ExpireEntry(s, i) ==
    LET e == s.queue[i]
    IN IF s.state # "established" \/ ~Timed(e) \/ e.age < s.rto THEN s
       ELSE IF RetriesUsedUp(e) THEN nsctp_abandon_message(s, i)
       ELSE IF e.max_retransmits < 0 /\ e.retransmit_count >= MAX_RETRANSMITS
            THEN [s EXCEPT !.state = "closed", !.closed_due_to_failure = TRUE]
       ELSE [s EXCEPT !.rto = Doubled(@),
                      !.queue[i] = [e EXCEPT !.in_flight = FALSE, !.age = 0,
                                             !.retransmit_count = @ + 1]]

\* The FORWARD-TSN is repeated until a SACK has covered what it skips.
ForwardOnce(s) == s
RepeatForward(s) ==
    IF s.state = "established" /\ s.forward_age >= s.rto /\ AbandonedPrefix(s) > 0
    THEN [s EXCEPT !.forward_pending = TRUE] ELSE s

\* rtc_process_timers runs it whenever the clock has advanced.
nsctp_handle_timeout(s) ==
    RepeatForward(FoldLeft(ExpireEntry, s, [i \in 1..Len(s.queue) |-> i]))

\* nsctp_next_timeout_ms without the heartbeat: the times left of the deadlines
\* it considers, none if the set is empty.
nsctp_next_timeout(s) ==
    LET left(age) == IF age >= s.rto THEN 0 ELSE s.rto - age
    IN IF s.state # "established" THEN {}
       ELSE {left(s.forward_age) :
               i \in {j \in DOMAIN s.queue : s.queue[j].abandoned /\ s.queue[1].abandoned}}
            \cup {left(s.queue[i].age) :
               i \in {j \in DOMAIN s.queue : Timed(s.queue[j])}}
=============================================================================
