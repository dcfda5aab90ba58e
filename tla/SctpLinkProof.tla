--------------------------- MODULE SctpLinkProof ---------------------------
(***************************************************************************)
(* For every traffic, network and timing: the code's sender is a peer      *)
(* SctpRecv allows (ConformingPeer), so what SctpRecvProof shows holds end *)
(* to end, and a sender with work left has output or a deadline (WakesUp). *)
(* As long as nothing is abandoned, nothing accepted is lost (NothingLost) *)
(* and the link implements MessageStream (ImplementsStream).               *)
(*                                                                         *)
(* The argument. The send queue bears the chunks of the messages accepted  *)
(* so far except the first w (Sending); the receiver has passed chunk c,   *)
(* and w <= c (Linked). That is inductive because whatever is under way    *)
(* says what is true and stays true (Says): a SACK names a TSN that is     *)
(* passed for good, a data packet a chunk, and a FORWARD-TSN messages that *)
(* are abandoned for good. nsctp_abandon_message abandons whole messages,  *)
(* so a prefix of abandoned entries ends with the last fragment of one     *)
(* (PrefixEnds), and the pairs of a FORWARD-TSN are the last ordered SSNs  *)
(* of the skipped streams (SkippedStreamsOK).                              *)
(*                                                                         *)
(* For the refinement one more fact is needed: what waits in the table or  *)
(* is under way belongs to accepted messages (Offered). The rest is the    *)
(* order of SctpRecvProof, and that a chunk is queued until it is passed.  *)
(***************************************************************************)
EXTENDS SctpLink, SctpRecvProof

-----------------------------------------------------------------------------
(* The sender's state.                                                      *)

SendEntry == [tsn : Int, msg : Messages, sid : Nat, ssn : Nat, B : BOOLEAN, E : BOOLEAN,
              U : BOOLEAN, off : Nat, len : Nat, max_retransmits : Int, in_flight : BOOLEAN,
              abandoned : BOOLEAN, retransmit_count : Nat, age : 0 .. RTO_MAX]

SsnTable == UNION {[D -> Int] : D \in SUBSET Nat}

Sender == [state : {"established", "closed"}, closed_due_to_failure : BOOLEAN,
           queue : Seq(SendEntry), send_buf : Seq(Byte), next_tsn : Int, next_ssn : SsnTable,
           rto : 1 .. RTO_MAX, forward_pending : BOOLEAN, forward_age : 0 .. RTO_MAX]

\* A message is given up whole, and only if it was sent with limited retransmissions.
Abandons(q) ==
    /\ \A i \in 1 .. Len(q) : /\ q[i].max_retransmits = Retries[q[i].msg]
                              /\ q[i].abandoned => q[i].max_retransmits >= 0
    /\ \A i, j \in 1 .. Len(q) : q[i].msg = q[j].msg => q[i].abandoned = q[j].abandoned

Senders == {s \in Sender : Abandons(s.queue)}

\* The entries carry the same chunk.
SameChunk(d, e) ==
    /\ e.tsn = d.tsn /\ e.msg = d.msg /\ e.sid = d.sid /\ e.ssn = d.ssn
    /\ e.B = d.B /\ e.E = d.E /\ e.U = d.U /\ e.off = d.off /\ e.len = d.len
    /\ e.max_retransmits = d.max_retransmits

\* The same chunks are queued, whatever became of their transmission.
Keeps(s, t) ==
    /\ t.send_buf = s.send_buf /\ t.next_tsn = s.next_tsn /\ t.next_ssn = s.next_ssn
    /\ Len(t.queue) = Len(s.queue)
    /\ \A i \in 1 .. Len(s.queue) : SameChunk(s.queue[i], t.queue[i])

\* The constants of the sender.
LEMMA SendConstants ==
  /\ RTO_MAX \in Nat /\ 1 <= RTO_MAX /\ RTO_INITIAL \in 1 .. RTO_MAX
  /\ Retries \in [Messages -> Int]
  /\ \A m \in Messages : Retries[m] >= 0 => m \in Abandonable
  /\ MAX_RETRANSMITS \in Nat
<1>1. RTO_INITIAL \in 1 .. RTO_MAX /\ MAX_RETRANSMITS \in Nat /\ Retries \in [Messages -> Int]
      /\ Abandonable = {m \in Messages : Retries[m] >= 0}
  BY SendSizes DEF Messages
<1>2. RTO_MAX \in Nat /\ 1 <= RTO_MAX
  BY SendSizes
<1> QED
  BY <1>1, <1>2

\* Keeping is reflexive and transitive.
LEMMA KeepsRefl ==
  ASSUME NEW s
  PROVE  Keeps(s, s)
BY DEF Keeps, SameChunk

\* Keeping is transitive.
LEMMA KeepsTrans ==
  ASSUME NEW s, NEW t, NEW u, Keeps(s, t), Keeps(t, u)
  PROVE  Keeps(s, u)
BY DEF Keeps, SameChunk

\* A sender's fields.
LEMMA SenderFields ==
  ASSUME NEW s \in Sender
  PROVE  /\ s.queue \in Seq(SendEntry) /\ Len(s.queue) \in Nat
         /\ DOMAIN s.queue = 1 .. Len(s.queue)
         /\ \A i \in 1 .. Len(s.queue) : s.queue[i] \in SendEntry
         /\ s.send_buf \in Seq(Byte) /\ s.next_ssn \in SsnTable /\ s.next_tsn \in Int
         /\ s.rto \in 1 .. RTO_MAX /\ s.forward_age \in 0 .. RTO_MAX
         /\ s.state \in {"established", "closed"} /\ s.forward_pending \in BOOLEAN
<1>1. s.queue \in Seq(SendEntry)
  BY DEF Sender
<1>2. Len(s.queue) \in Nat /\ DOMAIN s.queue = 1 .. Len(s.queue)
      /\ \A i \in 1 .. Len(s.queue) : s.queue[i] \in SendEntry
  BY <1>1
<1> QED
  BY <1>1, <1>2 DEF Sender

\* The queue with some entries replaced by entries of the same chunks.
LEMMA Requeue ==
  ASSUME NEW s \in Sender, NEW q,
         q = [i \in 1 .. Len(s.queue) |-> q[i]],
         \A i \in 1 .. Len(s.queue) : q[i] \in SendEntry /\ SameChunk(s.queue[i], q[i])
  PROVE  /\ q \in Seq(SendEntry) /\ Len(q) = Len(s.queue)
         /\ [s EXCEPT !.queue = q] \in Sender
         /\ [s EXCEPT !.queue = q].queue = q
         /\ Keeps(s, [s EXCEPT !.queue = q])
<1> DEFINE n == Len(s.queue)
           t == [s EXCEPT !.queue = q]
<1>1. n \in Nat
  BY SenderFields
<1> HIDE DEF n
<1>2. q \in [1 .. n -> SendEntry]
  BY DEF n
<1>3. q \in Seq(SendEntry) /\ Len(q) = n
  BY <1>1, <1>2
<1>4. t \in Sender /\ t.queue = q /\ t.send_buf = s.send_buf /\ t.next_tsn = s.next_tsn
      /\ t.next_ssn = s.next_ssn
  BY <1>3 DEF Sender
<1> HIDE DEF t
<1>5. Keeps(s, t)
  BY <1>3, <1>4 DEF Keeps, n
<1> QED
  BY <1>3, <1>4, <1>5 DEF n, t

\* Changing how far the transmission of an entry has come changes neither its type nor its chunk.
LEMMA EntryChange ==
  ASSUME NEW e \in SendEntry
  PROVE  /\ \A x \in BOOLEAN : LET d == [e EXCEPT !.abandoned = x]
                               IN /\ d \in SendEntry /\ SameChunk(e, d) /\ d.abandoned = x
                                  /\ d.in_flight = e.in_flight /\ d.age = e.age
         /\ \A x \in BOOLEAN : LET d == [e EXCEPT !.in_flight = x]
                               IN /\ d \in SendEntry /\ SameChunk(e, d) /\ d.in_flight = x
                                  /\ d.abandoned = e.abandoned /\ d.age = e.age
         /\ \A x \in 0 .. RTO_MAX : LET d == [e EXCEPT !.age = x]
                                   IN /\ d \in SendEntry /\ SameChunk(e, d) /\ d.age = x
                                      /\ d.abandoned = e.abandoned /\ d.in_flight = e.in_flight
         /\ \A x \in Nat : LET d == [e EXCEPT !.retransmit_count = x]
                           IN /\ d \in SendEntry /\ SameChunk(e, d) /\ d.age = e.age
                              /\ d.abandoned = e.abandoned /\ d.in_flight = e.in_flight
BY DEF SendEntry, SameChunk

\* SameChunk is transitive.
LEMMA ChunkTrans ==
  ASSUME NEW d, NEW e, NEW f, SameChunk(d, e), SameChunk(e, f)
  PROVE  SameChunk(d, f)
BY DEF SameChunk

\* An entry that is given up.
LEMMA AbandonedEntry ==
  ASSUME NEW e \in SendEntry
  PROVE  /\ Abandoned(e) \in SendEntry /\ SameChunk(e, Abandoned(e)) /\ Abandoned(e).abandoned = TRUE
         /\ Abandoned(e).in_flight = e.in_flight
<1> DEFINE x == [e EXCEPT !.abandoned = TRUE]
           y == [x EXCEPT !.age = 0]
           z == [y EXCEPT !.retransmit_count = 0]
<1>0. 0 \in 0 .. RTO_MAX
  BY SendConstants
<1>1. Abandoned(e) = z
  BY DEF Abandoned, SendEntry
<1>2. x \in SendEntry /\ SameChunk(e, x) /\ x.abandoned = TRUE /\ x.in_flight = e.in_flight
  BY EntryChange
<1> HIDE DEF x
<1>3. y \in SendEntry /\ SameChunk(x, y) /\ y.abandoned = x.abandoned /\ y.in_flight = x.in_flight
  BY <1>0, <1>2, EntryChange
<1> HIDE DEF y
<1>4. z \in SendEntry /\ SameChunk(y, z) /\ z.abandoned = y.abandoned /\ z.in_flight = y.in_flight
  BY <1>3, EntryChange
<1> HIDE DEF z
<1>5. SameChunk(e, z)
  BY <1>2, <1>3, <1>4, ChunkTrans
<1> QED
  BY <1>1, <1>2, <1>3, <1>4, <1>5

\* nsctp_abandon_message gives up one message.
LEMMA AbandonOK ==
  ASSUME NEW s \in Senders, NEW x \in 1 .. Len(s.queue), s.queue[x].max_retransmits >= 0
  PROVE  /\ nsctp_abandon_message(s, x) \in Senders /\ Keeps(s, nsctp_abandon_message(s, x))
         /\ nsctp_abandon_message(s, x).state = s.state
         /\ nsctp_abandon_message(s, x).rto = s.rto
         /\ nsctp_abandon_message(s, x).forward_pending = TRUE
         /\ \A i \in 1 .. Len(s.queue) :
              LET d == s.queue[i]
                  e == nsctp_abandon_message(s, x).queue[i]
              IN /\ d.abandoned => e.abandoned
                 /\ e.abandoned \/ e = d
                 /\ e.abandoned => (d.abandoned \/ d.max_retransmits >= 0)
                 /\ d.msg = s.queue[x].msg => e.abandoned
<1> DEFINE n == Len(s.queue)
           q == [i \in 1 .. n |-> IF s.queue[i].msg = s.queue[x].msg THEN Abandoned(s.queue[i])
                                  ELSE s.queue[i]]
           r == [s EXCEPT !.queue = q]
           t == [r EXCEPT !.forward_pending = TRUE]
<1>0. s \in Sender /\ n \in Nat /\ DOMAIN s.queue = 1 .. n
      /\ \A i \in 1 .. n : s.queue[i] \in SendEntry
  BY SenderFields DEF Senders
<1>1. nsctp_abandon_message(s, x) = t
  BY <1>0 DEF nsctp_abandon_message, Sender
<1>2. /\ \A i \in 1 .. n : s.queue[i].max_retransmits = Retries[s.queue[i].msg]
      /\ \A i \in 1 .. n : s.queue[i].abandoned => s.queue[i].max_retransmits >= 0
      /\ \A i, j \in 1 .. n : s.queue[i].msg = s.queue[j].msg =>
            s.queue[i].abandoned = s.queue[j].abandoned
  BY DEF Senders, Abandons
<1>3. ASSUME NEW i \in 1 .. n
      PROVE  /\ q[i] \in SendEntry /\ SameChunk(s.queue[i], q[i])
             /\ s.queue[i].msg = s.queue[x].msg => q[i].abandoned = TRUE
             /\ s.queue[i].msg # s.queue[x].msg => q[i] = s.queue[i]
  <2>1. s.queue[i] \in SendEntry
    BY <1>0
  <2>2. Abandoned(s.queue[i]) \in SendEntry /\ SameChunk(s.queue[i], Abandoned(s.queue[i]))
        /\ Abandoned(s.queue[i]).abandoned = TRUE
    BY <2>1, AbandonedEntry
  <2>3. SameChunk(s.queue[i], s.queue[i])
    BY DEF SameChunk
  <2> QED
    BY <2>1, <2>2, <2>3
<1>4. q = [i \in 1 .. n |-> q[i]]
  OBVIOUS
<1> HIDE DEF q
<1>5. q \in Seq(SendEntry) /\ Len(q) = n /\ r \in Sender /\ r.queue = q /\ Keeps(s, r)
  BY <1>0, <1>3, <1>4, Requeue
<1>6. r.state = s.state /\ r.rto = s.rto
  BY <1>0 DEF Sender
<1> HIDE DEF r
<1>7. /\ t \in Sender /\ t.queue = r.queue /\ t.send_buf = r.send_buf /\ t.next_tsn = r.next_tsn
      /\ t.next_ssn = r.next_ssn /\ t.forward_pending = TRUE /\ t.state = r.state /\ t.rto = r.rto
  BY <1>5 DEF Sender
<1>8. Keeps(s, t)
  BY <1>5, <1>7 DEF Keeps
<1>9. Abandons(q)
  <2>1. \A i \in 1 .. n : q[i].msg = s.queue[i].msg /\ q[i].max_retransmits = s.queue[i].max_retransmits
    BY <1>3 DEF SameChunk
  <2>2. ASSUME NEW i \in 1 .. n
        PROVE  /\ q[i].max_retransmits = Retries[q[i].msg]
               /\ q[i].abandoned => q[i].max_retransmits >= 0
    <3>1. s.queue[i].msg = s.queue[x].msg => s.queue[i].max_retransmits = s.queue[x].max_retransmits
      BY <1>2
    <3>2. CASE s.queue[i].msg = s.queue[x].msg
      BY <1>2, <2>1, <3>1, <3>2
    <3>3. CASE s.queue[i].msg # s.queue[x].msg
      <4>1. q[i] = s.queue[i]
        BY <1>3, <3>3
      <4> QED
        BY <1>2, <4>1, Zenon
    <3> QED
      BY <3>2, <3>3
  <2>3. ASSUME NEW i \in 1 .. n, NEW j \in 1 .. n, q[i].msg = q[j].msg
        PROVE  q[i].abandoned = q[j].abandoned
    <3>1. s.queue[i].msg = s.queue[j].msg
      BY <2>1, <2>3
    <3>2. CASE s.queue[i].msg = s.queue[x].msg
      BY <1>3, <3>1, <3>2, Zenon
    <3>3. CASE s.queue[i].msg # s.queue[x].msg
      <4>1. q[i] = s.queue[i] /\ q[j] = s.queue[j]
        BY <1>3, <3>1, <3>3
      <4> QED
        BY <1>2, <3>1, <4>1, ZenonT(30)
    <3> QED
      BY <3>2, <3>3
  <2> QED
    BY <1>5, <2>2, <2>3 DEF Abandons
<1>10. t \in Senders
  BY <1>5, <1>7, <1>9 DEF Senders
<1>11. ASSUME NEW i \in 1 .. n
       PROVE  /\ s.queue[i].abandoned => q[i].abandoned
              /\ q[i].abandoned \/ q[i] = s.queue[i]
              /\ q[i].abandoned => (s.queue[i].abandoned \/ s.queue[i].max_retransmits >= 0)
              /\ s.queue[i].msg = s.queue[x].msg => q[i].abandoned
  <2>1. CASE s.queue[i].msg = s.queue[x].msg
    <3>1. s.queue[i].max_retransmits = s.queue[x].max_retransmits
      BY <1>2, <2>1
    <3>2. s.queue[i].max_retransmits >= 0 /\ q[i].abandoned = TRUE
      BY <1>3, <2>1, <3>1
    <3> QED
      BY <3>2
  <2>2. CASE s.queue[i].msg # s.queue[x].msg
    <3>1. q[i] = s.queue[i]
      BY <1>3, <2>2
    <3> QED
      BY <2>2, <3>1, Zenon
  <2> QED
    BY <2>1, <2>2
<1> HIDE DEF t
<1> QED
  BY <1>1, <1>5, <1>6, <1>7, <1>8, <1>10, <1>11
\* Entries that change, but are given up neither more nor less.
LEMMA RequeueOK ==
  ASSUME NEW s \in Senders, NEW q,
         q = [i \in 1 .. Len(s.queue) |-> q[i]],
         \A i \in 1 .. Len(s.queue) : /\ q[i] \in SendEntry /\ SameChunk(s.queue[i], q[i])
                                      /\ q[i].abandoned = s.queue[i].abandoned
  PROVE  /\ [s EXCEPT !.queue = q] \in Senders
         /\ [s EXCEPT !.queue = q].queue = q /\ Len(q) = Len(s.queue)
         /\ Keeps(s, [s EXCEPT !.queue = q])
         /\ [s EXCEPT !.queue = q].state = s.state /\ [s EXCEPT !.queue = q].rto = s.rto
<1> DEFINE n == Len(s.queue)
           t == [s EXCEPT !.queue = q]
<1>0. s \in Sender /\ n \in Nat
  BY SenderFields DEF Senders
<1>1. q \in Seq(SendEntry) /\ Len(q) = n /\ t \in Sender /\ t.queue = q /\ Keeps(s, t)
  BY <1>0, Requeue
<1>2. t.state = s.state /\ t.rto = s.rto
  BY <1>0 DEF Sender
<1> HIDE DEF t
<1>3. Abandons(q)
  <2>1. /\ \A i \in 1 .. n : s.queue[i].max_retransmits = Retries[s.queue[i].msg]
        /\ \A i \in 1 .. n : s.queue[i].abandoned => s.queue[i].max_retransmits >= 0
        /\ \A i, j \in 1 .. n : s.queue[i].msg = s.queue[j].msg =>
              s.queue[i].abandoned = s.queue[j].abandoned
    BY DEF Senders, Abandons
  <2>2. \A i \in 1 .. n : /\ q[i].msg = s.queue[i].msg
                          /\ q[i].max_retransmits = s.queue[i].max_retransmits
                          /\ q[i].abandoned = s.queue[i].abandoned
    BY DEF SameChunk
  <2> HIDE DEF n
  <2>3. \A i \in 1 .. n : /\ q[i].max_retransmits = Retries[q[i].msg]
                          /\ q[i].abandoned => q[i].max_retransmits >= 0
    BY <2>1, <2>2, Zenon
  <2>4. ASSUME NEW i \in 1 .. n, NEW j \in 1 .. n, q[i].msg = q[j].msg
        PROVE  q[i].abandoned = q[j].abandoned
    <3>1. /\ q[i].msg = s.queue[i].msg /\ q[j].msg = s.queue[j].msg
          /\ q[i].abandoned = s.queue[i].abandoned /\ q[j].abandoned = s.queue[j].abandoned
      BY <2>2
    <3>2. s.queue[i].msg = s.queue[j].msg
      BY <2>4, <3>1
    <3> QED
      BY <2>1, <3>1, <3>2, Zenon
  <2> QED
    BY <1>1, <2>3, <2>4 DEF Abandons
<1> QED
  BY <1>1, <1>2, <1>3 DEF Senders, t

\* The fields beside the queue.
LEMMA FieldChange ==
  ASSUME NEW s \in Senders
  PROVE  /\ \A x \in BOOLEAN : LET t == [s EXCEPT !.forward_pending = x]
                               IN /\ t \in Senders /\ Keeps(s, t) /\ t.queue = s.queue
                                  /\ t.state = s.state /\ t.rto = s.rto
                                  /\ t.forward_age = s.forward_age /\ t.forward_pending = x
         /\ \A x \in 0 .. RTO_MAX : LET t == [s EXCEPT !.forward_age = x]
                                    IN t \in Senders /\ Keeps(s, t) /\ t.queue = s.queue
         /\ \A x \in 1 .. RTO_MAX : LET t == [s EXCEPT !.rto = x]
                                    IN /\ t \in Senders /\ Keeps(s, t) /\ t.queue = s.queue
                                       /\ t.state = s.state /\ t.rto = x
         /\ LET t == [s EXCEPT !.state = "closed", !.closed_due_to_failure = TRUE]
            IN t \in Senders /\ Keeps(s, t) /\ t.queue = s.queue /\ t.state = "closed" /\ t.rto = s.rto
<1>0. s \in Sender /\ Abandons(s.queue)
  BY DEF Senders
<1>1. ASSUME NEW x \in BOOLEAN
      PROVE  LET t == [s EXCEPT !.forward_pending = x]
             IN /\ t \in Sender /\ t.queue = s.queue /\ t.send_buf = s.send_buf
                /\ t.next_tsn = s.next_tsn /\ t.next_ssn = s.next_ssn /\ t.state = s.state
                /\ t.rto = s.rto /\ t.forward_age = s.forward_age /\ t.forward_pending = x
  BY <1>0 DEF Sender
<1>2. ASSUME NEW x \in 0 .. RTO_MAX
      PROVE  LET t == [s EXCEPT !.forward_age = x]
             IN /\ t \in Sender /\ t.queue = s.queue /\ t.send_buf = s.send_buf
                /\ t.next_tsn = s.next_tsn /\ t.next_ssn = s.next_ssn
  BY <1>0 DEF Sender
<1>3. ASSUME NEW x \in 1 .. RTO_MAX
      PROVE  LET t == [s EXCEPT !.rto = x]
             IN /\ t \in Sender /\ t.queue = s.queue /\ t.send_buf = s.send_buf
                /\ t.next_tsn = s.next_tsn /\ t.next_ssn = s.next_ssn /\ t.state = s.state /\ t.rto = x
  BY <1>0 DEF Sender
<1>4. LET t == [s EXCEPT !.state = "closed", !.closed_due_to_failure = TRUE]
      IN /\ t \in Sender /\ t.queue = s.queue /\ t.send_buf = s.send_buf
         /\ t.next_tsn = s.next_tsn /\ t.next_ssn = s.next_ssn /\ t.state = "closed" /\ t.rto = s.rto
  BY <1>0 DEF Sender
<1>5. ASSUME NEW t \in Sender, t.queue = s.queue, t.send_buf = s.send_buf,
             t.next_tsn = s.next_tsn, t.next_ssn = s.next_ssn
      PROVE  t \in Senders /\ Keeps(s, t)
  BY <1>0, <1>5 DEF Senders, Keeps, SameChunk
<1> QED
  BY <1>1, <1>2, <1>3, <1>4, <1>5

\* The clock advances.
LEMMA OlderOK ==
  ASSUME NEW s \in Senders, NEW d \in Nat
  PROVE  Older(s, d) \in Senders /\ Keeps(s, Older(s, d))
<1> DEFINE n == Len(s.queue)
           a == Age(s.forward_age, d)
           q == [i \in 1 .. n |-> OlderEntry(s.queue[i], d)]
           r == [s EXCEPT !.forward_age = a]
           t == [r EXCEPT !.queue = q]
<1>0. /\ s \in Sender /\ n \in Nat /\ DOMAIN s.queue = 1 .. n /\ s.forward_age \in 0 .. RTO_MAX
      /\ \A i \in 1 .. n : s.queue[i] \in SendEntry
  BY SenderFields DEF Senders
<1>1. Older(s, d) = t
  <2>1. [i \in DOMAIN s.queue |-> OlderEntry(s.queue[i], d)] = q
    BY <1>0
  <2> HIDE DEF q
  <2>2. Older(s, d) = [s EXCEPT !.forward_age = a, !.queue = q]
    BY <2>1 DEF Older
  <2> QED
    BY <1>0, <2>2 DEF Sender
<1>2. \A x \in 0 .. RTO_MAX : Age(x, d) \in 0 .. RTO_MAX
  BY SendConstants DEF Age
<1>3. ASSUME NEW i \in 1 .. n
      PROVE  /\ q[i] \in SendEntry /\ SameChunk(s.queue[i], q[i])
             /\ q[i].abandoned = s.queue[i].abandoned
  <2> DEFINE e == s.queue[i]
             x == Age(e.age, d)
             f == [e EXCEPT !.age = x]
  <2>1. e \in SendEntry /\ e.age \in 0 .. RTO_MAX
    BY <1>0 DEF SendEntry
  <2>2. x \in 0 .. RTO_MAX
    BY <1>2, <2>1
  <2>3. q[i] = IF Timed(e) THEN f ELSE e
    BY DEF OlderEntry
  <2> HIDE DEF e, x, q
  <2>4. f \in SendEntry /\ SameChunk(e, f) /\ f.abandoned = e.abandoned
    BY <2>1, <2>2, EntryChange
  <2>5. SameChunk(e, e)
    BY DEF SameChunk
  <2> HIDE DEF f
  <2> QED
    BY <2>1, <2>3, <2>4, <2>5 DEF e
<1>4. q = [i \in 1 .. n |-> q[i]]
  OBVIOUS
<1> HIDE DEF q
<1>5. r \in Senders /\ Keeps(s, r) /\ r.queue = s.queue
  BY <1>0, <1>2, FieldChange
<1> HIDE DEF r
<1>6. t \in Senders /\ Keeps(r, t)
  <2>1. /\ q = [i \in 1 .. Len(r.queue) |-> q[i]]
        /\ \A i \in 1 .. Len(r.queue) : /\ q[i] \in SendEntry /\ SameChunk(r.queue[i], q[i])
                                        /\ q[i].abandoned = r.queue[i].abandoned
    BY <1>3, <1>4, <1>5
  <2> QED
    BY <1>5, <2>1, RequeueOK
<1> HIDE DEF t
<1> QED
  BY <1>1, <1>5, <1>6, KeepsTrans

\* A packet leaves, or there is none to send.
LEMMA PollOK ==
  ASSUME NEW s \in Senders
  PROVE  /\ AfterForward(s) \in Senders /\ Keeps(s, AfterForward(s))
         /\ AfterNoData(s) \in Senders /\ Keeps(s, AfterNoData(s))
         /\ AfterForward(s).queue = s.queue /\ AfterNoData(s).queue = s.queue
         /\ \A i \in 1 .. Len(s.queue) : /\ AfterData(s, i) \in Senders /\ Keeps(s, AfterData(s, i))
                                         /\ \A j \in 1 .. Len(s.queue) :
                                              AfterData(s, i).queue[j].abandoned = s.queue[j].abandoned
<1> DEFINE r == [s EXCEPT !.forward_pending = FALSE]
           u == [r EXCEPT !.forward_age = 0]
           n == Len(s.queue)
<1>0. /\ s \in Sender /\ n \in Nat /\ DOMAIN s.queue = 1 .. n /\ 0 \in 0 .. RTO_MAX
      /\ \A i \in 1 .. n : s.queue[i] \in SendEntry
  BY SenderFields, SendConstants DEF Senders
<1>1. AfterForward(s) = u /\ AfterNoData(s) = r
  BY <1>0 DEF AfterForward, AfterNoData, Sender
<1>2. r \in Senders /\ Keeps(s, r) /\ r.queue = s.queue
  BY FieldChange
<1>3. ASSUME NEW i \in 1 .. n
      PROVE  /\ AfterData(s, i) \in Senders /\ Keeps(s, AfterData(s, i))
             /\ \A j \in 1 .. n : AfterData(s, i).queue[j].abandoned = s.queue[j].abandoned
  <2> DEFINE e == s.queue[i]
             f == [e EXCEPT !.in_flight = TRUE]
             g == [f EXCEPT !.age = 0]
             q == [j \in 1 .. n |-> IF j = i THEN g ELSE s.queue[j]]
             t == [r EXCEPT !.queue = q]
  <2>1. AfterData(s, i) = t
    <3>1. s.queue \in [1 .. n -> SendEntry]
      BY <1>0, SenderFields
    <3>2. [s.queue EXCEPT ![i] = g] = q
      BY <3>1
    <3>3. [s.queue EXCEPT ![i].in_flight = TRUE, ![i].age = 0] = [s.queue EXCEPT ![i] = g]
      BY <3>1
    <3> HIDE DEF q, g
    <3>4. AfterData(s, i) = [s EXCEPT !.forward_pending = FALSE, !.queue = q]
      BY <1>0, <3>2, <3>3 DEF AfterData
    <3> QED
      BY <1>0, <3>4 DEF Sender
  <2>2. e \in SendEntry
    BY <1>0
  <2>3. f \in SendEntry /\ SameChunk(e, f) /\ f.abandoned = e.abandoned
    BY <2>2, EntryChange
  <2> HIDE DEF f
  <2>4. g \in SendEntry /\ SameChunk(f, g) /\ g.abandoned = f.abandoned
    BY <1>0, <2>3, EntryChange
  <2> HIDE DEF g
  <2>5. SameChunk(e, g)
    BY <2>3, <2>4, ChunkTrans
  <2>6. \A j \in 1 .. n : /\ q[j] \in SendEntry /\ SameChunk(s.queue[j], q[j])
                          /\ q[j].abandoned = s.queue[j].abandoned
    <3> SUFFICES ASSUME NEW j \in 1 .. n
                 PROVE  /\ q[j] \in SendEntry /\ SameChunk(s.queue[j], q[j])
                        /\ q[j].abandoned = s.queue[j].abandoned
      OBVIOUS
    <3>1. SameChunk(s.queue[j], s.queue[j])
      BY DEF SameChunk
    <3>2. CASE j = i
      BY <2>3, <2>4, <2>5, <3>2
    <3>3. CASE j # i
      BY <1>0, <3>1, <3>3
    <3> QED
      BY <3>2, <3>3
  <2>7. q = [j \in 1 .. n |-> q[j]]
    OBVIOUS
  <2> HIDE DEF q, r
  <2>8. t \in Senders /\ Keeps(r, t) /\ t.queue = q
    <3>1. /\ q = [j \in 1 .. Len(r.queue) |-> q[j]]
          /\ \A j \in 1 .. Len(r.queue) : /\ q[j] \in SendEntry /\ SameChunk(r.queue[j], q[j])
                                          /\ q[j].abandoned = r.queue[j].abandoned
      BY <1>2, <2>6, <2>7
    <3> QED
      BY <1>2, <3>1, RequeueOK
  <2> HIDE DEF t
  <2>9. Keeps(s, t)
    BY <1>2, <2>8, KeepsTrans
  <2> QED
    BY <2>1, <2>6, <2>8, <2>9
<1> HIDE DEF r
<1>4. u \in Senders /\ Keeps(r, u) /\ u.queue = r.queue
  <2>1. \A x \in 0 .. RTO_MAX : LET t == [r EXCEPT !.forward_age = x]
                                IN t \in Senders /\ Keeps(r, t) /\ t.queue = r.queue
    BY <1>2, FieldChange, ZenonT(30)
  <2> QED
    BY <1>0, <2>1, ZenonT(30)
<1> HIDE DEF u
<1>5. Keeps(s, u)
  BY <1>2, <1>4, KeepsTrans
<1> QED
  BY <1>1, <1>2, <1>3, <1>4, <1>5

-----------------------------------------------------------------------------
(* Timeouts.                                                                *)

\* The retransmission timer of entry j does not wait any longer than it may.
Served(s, j) == ~Timed(s.queue[j]) \/ s.queue[j].age < s.rto

\* What the scan of nsctp_handle_timeout leaves alone.
Scanned(s, t) ==
    /\ t \in Senders /\ Keeps(s, t) /\ s.rto <= t.rto
    /\ t.state = "established" => s.state = "established"
    /\ \A j \in 1 .. Len(s.queue) : t.queue[j].abandoned \/ ~t.queue[j].in_flight
                                      \/ t.queue[j] = s.queue[j]

\* An entry that is retransmitted later.
LEMMA RetryOK ==
  ASSUME NEW s \in Senders, NEW i \in 1 .. Len(s.queue)
  PROVE  LET e == s.queue[i]
             t == [s EXCEPT !.rto = Doubled(@),
                            !.queue[i] = [e EXCEPT !.in_flight = FALSE, !.age = 0,
                                                   !.retransmit_count = @ + 1]]
         IN Scanned(s, t) /\ ~t.queue[i].in_flight
<1> DEFINE n == Len(s.queue)
           e == s.queue[i]
           f == [e EXCEPT !.in_flight = FALSE]
           g == [f EXCEPT !.age = 0]
           h == [g EXCEPT !.retransmit_count = e.retransmit_count + 1]
           q == [j \in 1 .. n |-> IF j = i THEN h ELSE s.queue[j]]
           x == Doubled(s.rto)
           r == [s EXCEPT !.rto = x]
           u == [r EXCEPT !.queue = q]
           t == [s EXCEPT !.rto = Doubled(@),
                          !.queue[i] = [e EXCEPT !.in_flight = FALSE, !.age = 0,
                                                 !.retransmit_count = @ + 1]]
<1>0. /\ s \in Sender /\ n \in Nat /\ s.queue \in [1 .. n -> SendEntry] /\ 0 \in 0 .. RTO_MAX
      /\ \A j \in 1 .. n : s.queue[j] \in SendEntry
  BY SenderFields, SendConstants DEF Senders
<1>1. t = u
  <2>0. e \in SendEntry
    BY <1>0
  <2>1. h = [e EXCEPT !.in_flight = FALSE, !.age = 0, !.retransmit_count = @ + 1]
    BY <2>0 DEF SendEntry
  <2>2. [s.queue EXCEPT ![i] = h] = q
    BY <1>0
  <2> HIDE DEF h, q
  <2>3. t = [s EXCEPT !.rto = x, !.queue = q]
    BY <1>0, <2>1, <2>2
  <2> QED
    BY <1>0, <2>3 DEF Sender
<1>2. x \in 1 .. RTO_MAX /\ s.rto <= x
  <2>1. s.rto \in 1 .. RTO_MAX
    BY <1>0, SenderFields
  <2> QED
    BY <2>1, SendConstants DEF Doubled
<1>3. e \in SendEntry /\ e.retransmit_count + 1 \in Nat
  BY <1>0 DEF SendEntry
<1>4. f \in SendEntry /\ SameChunk(e, f) /\ f.in_flight = FALSE /\ f.abandoned = e.abandoned
  BY <1>3, EntryChange
<1> HIDE DEF f
<1>5. g \in SendEntry /\ SameChunk(f, g) /\ g.in_flight = f.in_flight /\ g.abandoned = f.abandoned
  BY <1>0, <1>4, EntryChange
<1> HIDE DEF g
<1>6. h \in SendEntry /\ SameChunk(g, h) /\ h.in_flight = g.in_flight /\ h.abandoned = g.abandoned
  BY <1>3, <1>5, EntryChange
<1> HIDE DEF h
<1>7. SameChunk(e, h)
  BY <1>4, <1>5, <1>6, ChunkTrans
<1>8. ASSUME NEW j \in 1 .. n
      PROVE  /\ q[j] \in SendEntry /\ SameChunk(s.queue[j], q[j])
             /\ q[j].abandoned = s.queue[j].abandoned
             /\ j = i => q[j].in_flight = FALSE
             /\ j # i => q[j] = s.queue[j]
  <2>1. SameChunk(s.queue[j], s.queue[j])
    BY DEF SameChunk
  <2>2. CASE j = i
    BY <1>4, <1>5, <1>6, <1>7, <2>2
  <2>3. CASE j # i
    BY <1>0, <2>1, <2>3
  <2> QED
    BY <2>2, <2>3
<1>9. q = [j \in 1 .. n |-> q[j]]
  OBVIOUS
<1>10. r \in Senders /\ Keeps(s, r) /\ r.queue = s.queue /\ r.state = s.state /\ r.rto = x
  BY <1>2, FieldChange
<1> HIDE DEF q, r, x
<1>11. /\ u \in Senders /\ Keeps(r, u) /\ u.queue = q /\ u.state = r.state /\ u.rto = r.rto
  <2>1. /\ q = [j \in 1 .. Len(r.queue) |-> q[j]]
        /\ \A j \in 1 .. Len(r.queue) : /\ q[j] \in SendEntry /\ SameChunk(r.queue[j], q[j])
                                        /\ q[j].abandoned = r.queue[j].abandoned
    BY <1>8, <1>9, <1>10
  <2> QED
    BY <1>10, <2>1, RequeueOK
<1> HIDE DEF u
<1>12. Keeps(s, u)
  BY <1>10, <1>11, KeepsTrans
<1>13. ASSUME NEW j \in 1 .. n
       PROVE  u.queue[j].abandoned \/ ~u.queue[j].in_flight \/ u.queue[j] = s.queue[j]
  <2>1. CASE j = i
    BY <1>8, <1>11, <2>1
  <2>2. CASE j # i
    BY <1>8, <1>11, <2>2
  <2> QED
    BY <2>1, <2>2
<1>14. Scanned(s, u) /\ ~u.queue[i].in_flight
  BY <1>2, <1>8, <1>10, <1>11, <1>12, <1>13 DEF Scanned
<1> QED
  BY <1>1, <1>14

\* One entry of the scan.
LEMMA ExpireOK ==
  ASSUME NEW s \in Senders, NEW i \in 1 .. Len(s.queue)
  PROVE  LET t == ExpireEntry(s, i)
         IN Scanned(s, t) /\ (t.state = "established" => Served(t, i))
<1> DEFINE n == Len(s.queue)
           e == s.queue[i]
           t == ExpireEntry(s, i)
<1>0. /\ s \in Sender /\ n \in Nat /\ s.rto \in 1 .. RTO_MAX /\ s.state \in {"established", "closed"}
      /\ e \in SendEntry /\ e.age \in 0 .. RTO_MAX /\ e.max_retransmits \in Int
  <2>1. e \in SendEntry
    BY SenderFields DEF Senders
  <2> QED
    BY <2>1, SenderFields DEF Senders, SendEntry
<1>1. CASE s.state # "established" \/ ~Timed(e) \/ e.age < s.rto
  <2>1. t = s
    BY <1>1 DEF ExpireEntry
  <2> HIDE DEF t
  <2>2. Scanned(s, s)
    BY <1>0, KeepsRefl DEF Scanned
  <2> QED
    BY <1>1, <2>1, <2>2 DEF Served, t
<1>2. CASE ~(s.state # "established" \/ ~Timed(e) \/ e.age < s.rto) /\ RetriesUsedUp(e)
  <2>1. t = nsctp_abandon_message(s, i)
    BY <1>2 DEF ExpireEntry
  <2>2. e.max_retransmits >= 0
    BY <1>2 DEF RetriesUsedUp
  <2> HIDE DEF t
  <2>3. /\ t \in Senders /\ Keeps(s, t) /\ t.state = s.state /\ t.rto = s.rto
        /\ \A j \in 1 .. n : t.queue[j].abandoned \/ t.queue[j] = s.queue[j]
        /\ t.queue[i].abandoned
    BY <2>1, <2>2, AbandonOK
  <2>4. s.rto <= t.rto
    BY <1>0, <2>3
  <2>5. Scanned(s, t)
    BY <2>3, <2>4 DEF Scanned
  <2>6. Served(t, i)
    BY <2>3 DEF Served, Timed
  <2> QED
    BY <2>5, <2>6 DEF t
<1>3. CASE /\ ~(s.state # "established" \/ ~Timed(e) \/ e.age < s.rto) /\ ~RetriesUsedUp(e)
           /\ e.max_retransmits < 0 /\ e.retransmit_count >= MAX_RETRANSMITS
  <2> DEFINE u == [s EXCEPT !.state = "closed", !.closed_due_to_failure = TRUE]
  <2>1. t = u
    BY <1>3 DEF ExpireEntry
  <2>2. u \in Senders /\ Keeps(s, u) /\ u.queue = s.queue /\ u.state = "closed" /\ u.rto = s.rto
    BY FieldChange
  <2> HIDE DEF u, t
  <2>3. s.rto <= u.rto
    BY <1>0, <2>2
  <2>4. Scanned(s, u)
    BY <2>2, <2>3 DEF Scanned
  <2> QED
    BY <2>1, <2>2, <2>4 DEF t
<1>4. CASE /\ ~(s.state # "established" \/ ~Timed(e) \/ e.age < s.rto) /\ ~RetriesUsedUp(e)
           /\ ~(e.max_retransmits < 0 /\ e.retransmit_count >= MAX_RETRANSMITS)
  <2> DEFINE u == [s EXCEPT !.rto = Doubled(@),
                            !.queue[i] = [e EXCEPT !.in_flight = FALSE, !.age = 0,
                                                   !.retransmit_count = @ + 1]]
  <2>1. t = u
    BY <1>4 DEF ExpireEntry
  <2>2. Scanned(s, u) /\ ~u.queue[i].in_flight
    BY RetryOK
  <2> HIDE DEF u, t
  <2>3. Served(u, i)
    BY <2>2 DEF Served, Timed
  <2> QED
    BY <2>1, <2>2, <2>3 DEF t
<1> QED
  BY <1>1, <1>2, <1>3, <1>4
\* Scans follow one another.
LEMMA ScannedTrans ==
  ASSUME NEW s, NEW t, NEW u, s.rto \in Int, Scanned(s, t), Scanned(t, u)
  PROVE  Scanned(s, u)
<1>1. Keeps(s, u) /\ Len(t.queue) = Len(s.queue)
  BY KeepsTrans DEF Scanned, Keeps
<1>2. s.rto <= u.rto
  <2>1. t \in Sender /\ u \in Sender /\ s.rto <= t.rto /\ t.rto <= u.rto
    BY DEF Scanned, Senders
  <2>2. t.rto \in Int /\ u.rto \in Int
    BY <2>1 DEF Sender
  <2> QED
    BY <2>1, <2>2
<1>3. ASSUME NEW j \in 1 .. Len(s.queue)
      PROVE  u.queue[j].abandoned \/ ~u.queue[j].in_flight \/ u.queue[j] = s.queue[j]
  <2>1. /\ t.queue[j].abandoned \/ ~t.queue[j].in_flight \/ t.queue[j] = s.queue[j]
        /\ u.queue[j].abandoned \/ ~u.queue[j].in_flight \/ u.queue[j] = t.queue[j]
    BY <1>1 DEF Scanned
  <2> QED
    BY <2>1, Zenon
<1> QED
  BY <1>1, <1>2, <1>3 DEF Scanned

\* What a scan has served stays served.
LEMMA ServedStays ==
  ASSUME NEW s \in Senders, NEW t, Scanned(s, t), NEW j \in 1 .. Len(s.queue), Served(s, j)
  PROVE  Served(t, j)
<1>1. /\ s.rto \in Int /\ t.rto \in Int /\ s.rto <= t.rto /\ s.queue[j].age \in Int
  <2>1. t \in Sender /\ s \in Sender /\ s.rto <= t.rto
    BY DEF Scanned, Senders
  <2>2. s.queue[j] \in SendEntry
    BY <2>1, SenderFields
  <2>3. s.queue[j].age \in Int
    BY <2>2 DEF SendEntry
  <2>4. s.rto \in Int /\ t.rto \in Int
    BY <2>1, SenderFields
  <2> QED
    BY <2>1, <2>3, <2>4
<1>2. t.queue[j].abandoned \/ ~t.queue[j].in_flight \/ t.queue[j] = s.queue[j]
  BY DEF Scanned
<1>3. CASE t.queue[j].abandoned \/ ~t.queue[j].in_flight
  BY <1>3 DEF Served, Timed
<1>4. CASE t.queue[j] = s.queue[j]
  <2>1. CASE Timed(s.queue[j])
    <3>1. s.queue[j].age < s.rto
      BY <2>1 DEF Served
    <3>2. s.queue[j].age < t.rto
      BY <1>1, <3>1
    <3> QED
      BY <1>4, <3>2 DEF Served
  <2>2. CASE ~Timed(s.queue[j])
    BY <1>4, <2>2 DEF Served
  <2> QED
    BY <2>1, <2>2
<1> QED
  BY <1>2, <1>3, <1>4

\* The abandoned prefix of the queue.
LEMMA PrefixFacts ==
  ASSUME NEW s \in Sender
  PROVE  LET n == AbandonedPrefix(s)
         IN /\ n \in 0 .. Len(s.queue)
            /\ \A i \in 1 .. n : s.queue[i].abandoned
            /\ n < Len(s.queue) => ~s.queue[n + 1].abandoned
<1> DEFINE N == Len(s.queue)
           S == {n \in 0 .. N : \A i \in 1 .. n : s.queue[i].abandoned}
           n == Max(S)
<1>0. N \in Nat
  BY SenderFields
<1>1. S \in SUBSET (0 .. N) /\ 0 \in S
  BY <1>0
<1>2. n \in S /\ \A y \in S : y <= n
  <2> HIDE DEF S
  <2> QED
    BY <1>0, <1>1, MaxOf
<1>3. AbandonedPrefix(s) = n
  BY DEF AbandonedPrefix
<1>4. n \in 0 .. N /\ \A i \in 1 .. n : s.queue[i].abandoned
  BY <1>2
<1> HIDE DEF n
<1>5. ASSUME n < N, s.queue[n + 1].abandoned PROVE FALSE
  <2>1. n + 1 \in 0 .. N /\ ~(n + 1 <= n)
    BY <1>0, <1>4, <1>5
  <2>2. \A i \in 1 .. n + 1 : i = n + 1 \/ i \in 1 .. n
    BY <1>0, <1>4
  <2>3. n + 1 \in S
    BY <1>4, <1>5, <2>1, <2>2
  <2> QED
    BY <1>2, <2>1, <2>3
<1> QED
  BY <1>3, <1>4, <1>5

TimeoutFold == INSTANCE FoldFacts WITH Op <- ExpireEntry
AbandonFold == INSTANCE FoldFacts WITH Op <- nsctp_abandon_message
SkipFold == INSTANCE FoldFacts WITH Op <- SkipEntry

\* The numbers are well-ordered, as the facts of the instances suppose.
LEMMA SendWellOrdered ==
  TimeoutFold!WellOrdered /\ AbandonFold!WellOrdered /\ SkipFold!WellOrdered
BY LeastNat DEF TimeoutFold!WellOrdered, AbandonFold!WellOrdered, SkipFold!WellOrdered

\* The folds of the sender are those FoldFacts speaks of.
LEMMA SendFolds ==
  ASSUME NEW s, NEW q
  PROVE  /\ TimeoutFold!Fold(s, q) = FoldLeft(ExpireEntry, s, q)
         /\ AbandonFold!Fold(s, q) = FoldLeft(nsctp_abandon_message, s, q)
         /\ SkipFold!Fold(s, q) = FoldLeft(SkipEntry, s, q)
<1>1. TimeoutFold!Fold(s, q) = FoldLeft(ExpireEntry, s, q)
  BY DEF FoldLeft, MapThenFoldSet, Max, TimeoutFold!Fold, TimeoutFold!Largest
<1>2. AbandonFold!Fold(s, q) = FoldLeft(nsctp_abandon_message, s, q)
  BY DEF FoldLeft, MapThenFoldSet, Max, AbandonFold!Fold, AbandonFold!Largest
<1>3. SkipFold!Fold(s, q) = FoldLeft(SkipEntry, s, q)
  BY DEF FoldLeft, MapThenFoldSet, Max, SkipFold!Fold, SkipFold!Largest
<1> QED
  BY <1>1, <1>2, <1>3

\* The scan of nsctp_handle_timeout serves every entry, unless it ends in a failure.
LEMMA ScanOK ==
  ASSUME NEW s \in Senders
  PROVE  LET t == FoldLeft(ExpireEntry, s, [i \in 1 .. Len(s.queue) |-> i])
         IN /\ Scanned(s, t)
            /\ t.state = "established" => \A j \in 1 .. Len(s.queue) : Served(t, j)
<1> DEFINE n == Len(s.queue)
           seq == [i \in 1 .. n |-> i]
           P == [k \in 0 .. n |->
                   {t \in Senders : /\ Scanned(s, t)
                                    /\ t.state = "established" => \A j \in 1 .. k : Served(t, j)}]
<1>0. /\ n \in Nat /\ s \in Sender /\ s.rto \in Int
  BY SenderFields DEF Senders
<1>1. seq \in Seq(1 .. n) /\ Len(seq) = n /\ \A k \in 1 .. n : seq[k] = k
  <2> HIDE DEF n
  <2>1. seq \in [1 .. n -> 1 .. n]
    OBVIOUS
  <2> QED
    BY <1>0, <2>1
<1>2. s \in P[0]
  <2>1. Scanned(s, s)
    BY <1>0, KeepsRefl DEF Scanned
  <2> QED
    BY <1>0, <2>1
<1>3. ASSUME NEW k \in 1 .. n, NEW r \in P[k - 1] PROVE ExpireEntry(r, k) \in P[k]
  <2> DEFINE t == ExpireEntry(r, k)
  <2>0. k - 1 \in 0 .. n /\ k \in 0 .. n
    BY <1>0
  <2>1. /\ r \in Senders /\ Scanned(s, r)
        /\ r.state = "established" => \A j \in 1 .. k - 1 : Served(r, j)
    BY <1>3, <2>0
  <2>2. Len(r.queue) = n
    BY <2>1 DEF Scanned, Keeps
  <2>3. Scanned(r, t) /\ (t.state = "established" => Served(t, k))
    BY <2>1, <2>2, ExpireOK
  <2> HIDE DEF t
  <2>4. Scanned(s, t) /\ t \in Senders
    BY <1>0, <2>1, <2>3, ScannedTrans DEF Scanned
  <2>5. ASSUME t.state = "established", NEW j \in 1 .. k PROVE Served(t, j)
    <3>1. CASE j = k
      BY <2>3, <2>5, <3>1
    <3>2. CASE j # k
      <4>1. j \in 1 .. k - 1 /\ j \in 1 .. Len(r.queue)
        BY <1>0, <2>2, <3>2
      <4>2. r.state = "established"
        BY <2>3, <2>5 DEF Scanned
      <4>3. Served(r, j)
        BY <2>1, <4>1, <4>2
      <4> QED
        BY <2>1, <2>3, <4>1, <4>3, ServedStays
    <3> QED
      BY <3>1, <3>2
  <2>6. P[k] = {v \in Senders : /\ Scanned(s, v)
                                /\ v.state = "established" => \A j \in 1 .. k : Served(v, j)}
    BY <2>0
  <2> HIDE DEF P
  <2> QED
    BY <2>4, <2>5, <2>6 DEF t
<1>4. P[n] = {v \in Senders : /\ Scanned(s, v)
                              /\ v.state = "established" => \A j \in 1 .. n : Served(v, j)}
  BY <1>0
<1> HIDE DEF P, seq
<1>5. \A k \in 1 .. Len(seq) : \A r \in P[k - 1] : ExpireEntry(r, seq[k]) \in P[k]
  BY <1>1, <1>3
<1>6. TimeoutFold!Fold(s, seq) \in P[Len(seq)]
  BY <1>1, <1>2, <1>5, SendWellOrdered, TimeoutFold!FoldInduction
<1>7. FoldLeft(ExpireEntry, s, seq) \in P[n]
  BY <1>1, <1>6, SendFolds
<1> QED
  BY <1>4, <1>7 DEF seq

\* nsctp_handle_timeout keeps the chunks queued, and nothing stays due that is not output.
LEMMA TimeoutOK ==
  ASSUME NEW s \in Senders
  PROVE  LET t == nsctp_handle_timeout(s)
         IN /\ t \in Senders /\ Keeps(s, t)
            /\ 0 \in nsctp_next_timeout(t) => nsctp_has_pending_output(t)
<1> DEFINE r == FoldLeft(ExpireEntry, s, [i \in 1 .. Len(s.queue) |-> i])
           t == nsctp_handle_timeout(s)
           due == r.state = "established" /\ r.forward_age >= r.rto /\ AbandonedPrefix(r) > 0
           u == [r EXCEPT !.forward_pending = TRUE]
<1>1. /\ Scanned(s, r)
      /\ r.state = "established" => \A j \in 1 .. Len(s.queue) : Served(r, j)
  BY ScanOK
<1>2. t = IF due THEN u ELSE r
  BY DEF nsctp_handle_timeout, RepeatForward
<1>3. r \in Senders /\ Keeps(s, r) /\ r \in Sender /\ Len(r.queue) = Len(s.queue)
  BY <1>1 DEF Scanned, Senders, Keeps
<1> HIDE DEF r
<1>4. /\ u \in Senders /\ Keeps(r, u) /\ u.queue = r.queue /\ u.state = r.state /\ u.rto = r.rto
      /\ u.forward_age = r.forward_age /\ u.forward_pending = TRUE
  BY <1>3, FieldChange
<1> HIDE DEF u, t, due
<1>5. t \in Senders /\ Keeps(s, t)
  <2>1. Keeps(s, u)
    BY <1>3, <1>4, KeepsTrans
  <2> QED
    BY <1>2, <1>3, <1>4, <2>1
<1>6. /\ t.queue = r.queue /\ t.state = r.state /\ t.rto = r.rto /\ t.forward_age = r.forward_age
      /\ due => t.forward_pending = TRUE
  BY <1>2, <1>4
<1>7. ASSUME 0 \in nsctp_next_timeout(t) PROVE nsctp_has_pending_output(t)
  <2> DEFINE left(age) == IF age >= r.rto THEN 0 ELSE r.rto - age
  <2>0. /\ r.rto \in Int /\ r.forward_age \in Int /\ Len(r.queue) \in Nat
        /\ DOMAIN r.queue = 1 .. Len(r.queue)
        /\ \A i \in 1 .. Len(r.queue) : r.queue[i].age \in Int
    <3>1. \A i \in 1 .. Len(r.queue) : r.queue[i] \in SendEntry
      BY <1>3, SenderFields
    <3>2. \A i \in 1 .. Len(r.queue) : r.queue[i].age \in Int
      BY <3>1 DEF SendEntry
    <3> QED
      BY <1>3, <3>2, SenderFields
  <2>1. /\ r.state = "established"
        /\ \/ \E i \in DOMAIN r.queue : /\ r.queue[i].abandoned /\ r.queue[1].abandoned
                                        /\ 0 = left(r.forward_age)
           \/ \E i \in DOMAIN r.queue : Timed(r.queue[i]) /\ 0 = left(r.queue[i].age)
    BY <1>6, <1>7 DEF nsctp_next_timeout
  <2>2. ASSUME NEW i \in DOMAIN r.queue, r.queue[1].abandoned, 0 = left(r.forward_age)
        PROVE  due
    <3>1. r.forward_age >= r.rto
      BY <2>0, <2>2
    <3>2. 1 <= Len(r.queue)
      BY <2>0
    <3>3. AbandonedPrefix(r) > 0
      <4>1. /\ AbandonedPrefix(r) \in 0 .. Len(r.queue)
            /\ AbandonedPrefix(r) < Len(r.queue) => ~r.queue[AbandonedPrefix(r) + 1].abandoned
        BY <1>3, PrefixFacts
      <4>2. CASE AbandonedPrefix(r) = 0
        <5>1. 0 < Len(r.queue) /\ 0 + 1 = 1
          BY <2>0, <3>2
        <5>2. ~r.queue[1].abandoned
          BY <4>1, <4>2, <5>1
        <5> QED
          BY <2>2, <5>2
      <4>3. CASE AbandonedPrefix(r) # 0
        BY <2>0, <4>1, <4>3
      <4> QED
        BY <4>2, <4>3
    <3> QED
      BY <2>1, <3>1, <3>3 DEF due
  <2>3. ASSUME NEW i \in DOMAIN r.queue, Timed(r.queue[i]), 0 = left(r.queue[i].age)
        PROVE  FALSE
    <3>1. Served(r, i) /\ i \in 1 .. Len(r.queue)
      BY <1>1, <1>3, <2>0, <2>1
    <3>2. r.queue[i].age < r.rto
      BY <2>3, <3>1 DEF Served
    <3>3. r.queue[i].age \in Int
      BY <2>0, <3>1
    <3> QED
      BY <2>0, <2>3, <3>2, <3>3
  <2>4. t.forward_pending = TRUE
    BY <1>6, <2>1, <2>2, <2>3
  <2> QED
    BY <2>4 DEF nsctp_has_pending_output
<1> QED
  BY <1>5, <1>7 DEF t
-----------------------------------------------------------------------------
(* SACKs.                                                                   *)

\* A finite set as a sequence.
LEMMA SetToSeqType ==
  ASSUME NEW S, IsFiniteSet(S)
  PROVE  SetToSeq(S) \in Seq(S)
<1>1. Cardinality(S) \in Nat /\ ExistsBijection(1 .. Cardinality(S), S)
  BY FS_CardinalityType
<1>2. PICK f \in Bijection(1 .. Cardinality(S), S) : TRUE
  BY <1>1 DEF ExistsBijection
<1>3. f \in [1 .. Cardinality(S) -> S] /\ IsInjective(f)
  BY <1>2 DEF Bijection, Injection, IsInjective
<1>4. SetToSeq(S) \in [1 .. Cardinality(S) -> S]
  BY <1>1, <1>3 DEF SetToSeq
<1> QED
  BY <1>1, <1>4

\* Every message that a SACK dooms may be given up.
LEMMA DoomOK ==
  ASSUME NEW s \in Senders, NEW cum, NEW gaps
  PROVE  LET t == FoldLeft(nsctp_abandon_message, s, SetToSeq(Doomed(s, cum, gaps)))
         IN t \in Senders /\ Keeps(s, t)
<1> DEFINE n == Len(s.queue)
           S == Doomed(s, cum, gaps)
           R == {t \in Senders : Keeps(s, t)}
<1>0. s \in Sender /\ n \in Nat /\ DOMAIN s.queue = 1 .. n
  BY SenderFields DEF Senders
<1>1. S \in SUBSET (1 .. n) /\ \A i \in S : s.queue[i].max_retransmits = 0
  BY <1>0 DEF Doomed
<1> HIDE DEF S
<1>2. SetToSeq(S) \in Seq(S)
  <2>1. IsFiniteSet(1 .. n)
    BY <1>0, FS_Interval
  <2>2. IsFiniteSet(S)
    BY <1>1, <2>1, FS_Subset
  <2> QED
    BY <2>2, SetToSeqType
<1>3. s \in R
  BY KeepsRefl
<1>4. ASSUME NEW r \in R, NEW x \in S PROVE nsctp_abandon_message(r, x) \in R
  <2>1. r \in Senders /\ Keeps(s, r) /\ x \in 1 .. n /\ Len(r.queue) = n
    BY <1>1, <1>4 DEF Keeps
  <2>2. r.queue[x].max_retransmits = s.queue[x].max_retransmits
    BY <2>1 DEF Keeps, SameChunk
  <2>3. r.queue[x].max_retransmits >= 0
    BY <1>1, <2>2
  <2>4. nsctp_abandon_message(r, x) \in Senders /\ Keeps(r, nsctp_abandon_message(r, x))
    BY <2>1, <2>3, AbandonOK
  <2>5. Keeps(s, nsctp_abandon_message(r, x))
    BY <2>1, <2>4, KeepsTrans
  <2> QED
    BY <2>4, <2>5
<1> HIDE DEF R
<1>5. AbandonFold!Fold(s, SetToSeq(S)) \in R
  BY <1>2, <1>3, <1>4, SendWellOrdered, AbandonFold!FoldInvariant
<1>6. FoldLeft(nsctp_abandon_message, s, SetToSeq(S)) \in R
  BY <1>5, SendFolds
<1> QED
  BY <1>6 DEF R, S

\* The queue and the buffer of t are those of s without the first n entries.
Drops(s, t, n) ==
    /\ n \in 0 .. Len(s.queue) /\ t \in Senders
    /\ Len(t.queue) = Len(s.queue) - n
    /\ \A i \in 1 .. Len(t.queue) : t.queue[i] = s.queue[n + i]
    /\ t.queue # <<>> => t.send_buf = s.send_buf
    /\ t.next_tsn = s.next_tsn /\ t.next_ssn = s.next_ssn

\* The acknowledged entries leave the queue.
LEMMA DropOK ==
  ASSUME NEW s \in Senders, NEW cum
  PROVE  Drops(s, Drop(s, cum), AckedPrefix(s, cum))
         /\ \A i \in 1 .. AckedPrefix(s, cum) : TsnDiff(s.queue[i].tsn, cum) <= 0
<1> DEFINE N == Len(s.queue)
           S == {n \in 0 .. N : \A i \in 1 .. n : TsnDiff(s.queue[i].tsn, cum) <= 0}
           n == AckedPrefix(s, cum)
           q == SubSeq(s.queue, n + 1, N)
           b == IF n = N THEN <<>> ELSE s.send_buf
           r == [s EXCEPT !.queue = q]
           t == [r EXCEPT !.send_buf = b]
<1>0. s \in Sender /\ N \in Nat /\ s.queue \in Seq(SendEntry) /\ s.send_buf \in Seq(Byte)
  BY SenderFields DEF Senders
<1>1. n \in 0 .. N /\ \A i \in 1 .. n : TsnDiff(s.queue[i].tsn, cum) <= 0
  <2>1. S \in SUBSET (0 .. N) /\ 0 \in S /\ n = Max(S)
    BY <1>0 DEF AckedPrefix
  <2> HIDE DEF S, n
  <2>2. n \in S
    BY <1>0, <2>1, MaxOf
  <2> QED
    BY <2>2 DEF S
<1>2. Drop(s, cum) = t
  <2>1. t = [s EXCEPT !.queue = q, !.send_buf = b]
    BY <1>0 DEF Sender
  <2> QED
    BY <2>1 DEF Drop
<1> HIDE DEF n
<1>3. /\ q \in Seq(SendEntry) /\ Len(q) = N - n
      /\ \A i \in 1 .. N - n : q[i] = s.queue[n + i]
  <2>1. n \in Nat /\ n <= N
    BY <1>0, <1>1
  <2> QED
    BY <1>0, <2>1, Slice
<1>4. b \in Seq(Byte) /\ (q # <<>> => b = s.send_buf)
  <2>1. CASE n = N
    <3>1. Len(q) = 0
      BY <1>0, <1>3, <2>1
    <3>2. q = <<>>
      BY <1>3, <3>1
    <3> QED
      BY <2>1, <3>2
  <2>2. CASE n # N
    BY <1>0, <2>2
  <2> QED
    BY <2>1, <2>2
<1> HIDE DEF q, b
<1>5. r \in Sender /\ r.queue = q /\ r.next_tsn = s.next_tsn /\ r.next_ssn = s.next_ssn
  BY <1>0, <1>3 DEF Sender
<1> HIDE DEF r
<1>6. t \in Sender /\ t.queue = q /\ t.next_tsn = s.next_tsn /\ t.next_ssn = s.next_ssn
      /\ t.send_buf = b
  BY <1>4, <1>5 DEF Sender
<1> HIDE DEF t
<1>7. Abandons(q)
  <2>1. /\ \A i \in 1 .. N : s.queue[i].max_retransmits = Retries[s.queue[i].msg]
        /\ \A i \in 1 .. N : s.queue[i].abandoned => s.queue[i].max_retransmits >= 0
        /\ \A i, j \in 1 .. N : s.queue[i].msg = s.queue[j].msg =>
              s.queue[i].abandoned = s.queue[j].abandoned
    BY DEF Senders, Abandons
  <2>2. \A i \in 1 .. N - n : n + i \in 1 .. N
    BY <1>0, <1>1
  <2>3. \A i \in 1 .. N - n : /\ q[i].max_retransmits = Retries[q[i].msg]
                              /\ q[i].abandoned => q[i].max_retransmits >= 0
    BY <1>3, <2>1, <2>2
  <2>4. ASSUME NEW i \in 1 .. N - n, NEW j \in 1 .. N - n, q[i].msg = q[j].msg
        PROVE  q[i].abandoned = q[j].abandoned
    <3>1. q[i] = s.queue[n + i] /\ q[j] = s.queue[n + j] /\ n + i \in 1 .. N /\ n + j \in 1 .. N
      BY <1>3, <2>2
    <3> QED
      BY <2>1, <2>4, <3>1, Zenon
  <2> QED
    BY <1>3, <2>3, <2>4 DEF Abandons
<1>8. t \in Senders
  BY <1>6, <1>7 DEF Senders
<1>9. \A i \in 1 .. Len(q) : q[i] = s.queue[n + i]
  BY <1>3
<1>10. Drops(s, t, n)
  BY <1>1, <1>3, <1>4, <1>6, <1>8, <1>9 DEF Drops
<1> QED
  BY <1>1, <1>2, <1>10 DEF n
-----------------------------------------------------------------------------
(* The queue carries the chunks that are not acknowledged yet.              *)

\* Entry e, with its bytes in buf, carries chunk k.
Bears(e, k, buf) ==
    /\ e.tsn = TsnOf(k) /\ e.msg = Chunks[k].msg /\ e.sid = Chunks[k].sid /\ e.ssn = Chunks[k].ssn
    /\ e.B = Chunks[k].B /\ e.E = Chunks[k].E /\ e.U = Chunks[k].U
    /\ e.len = Size(k) /\ e.off + e.len <= Len(buf)
    /\ \A p \in 1 .. Size(k) : buf[e.off + p] = Chunks[k].payload[p]

\* The ordered messages of stream sid among the first a.
OrderedBefore(a, sid) == {n \in 1 .. a : Msgs[n].sid = sid /\ ~Msgs[n].unordered}

\* Of the chunks of the first a messages, all but the first w are queued.
Sending(s, a, w) ==
    /\ s \in Senders /\ a \in 0 .. NM /\ w \in 0 .. Base[a + 1]
    /\ Len(s.queue) = Base[a + 1] - w
    /\ \A i \in 1 .. Len(s.queue) : Bears(s.queue[i], w + i, s.send_buf)
    /\ s.next_tsn = TsnOf(Base[a + 1] + 1)
    /\ \A sid \in Nat :
         NextSsn(s, sid) = Plus(InitSsn, Cardinality(OrderedBefore(a, sid)), SSN_MOD)

\* Which chunks come before message x.
LEMMA ChunkPlace ==
  ASSUME NEW k \in 1 .. NC, NEW x \in 1 .. NM + 1
  PROVE  /\ k <= Base[x] => Chunks[k].msg < x
         /\ Base[x] < k => x <= Chunks[k].msg
<1> DEFINE m == Chunks[k].msg
<1>0. NM \in Nat /\ Messages = 1 .. NM /\ NC \in Nat
  BY BaseFacts, ChunkCount
<1>1. m \in 1 .. NM /\ Base[m] < k /\ k <= Base[m + 1]
  BY <1>0, MessageOf
<1> HIDE DEF m
<1>2. m + 1 \in 1 .. NM + 1 /\ m \in 1 .. NM + 1
  BY <1>0, <1>1
<1>3. Base[m] \in 0 .. NC /\ Base[m + 1] \in 0 .. NC /\ Base[x] \in 0 .. NC
  <2>1. Base[m] \in 0 .. NC
    BY <1>2, BaseGrows
  <2>2. Base[m + 1] \in 0 .. NC
    BY <1>2, BaseGrows
  <2>3. Base[x] \in 0 .. NC
    BY BaseGrows
  <2> QED
    BY <2>1, <2>2, <2>3
<1>4. ASSUME k <= Base[x], ~(m < x) PROVE FALSE
  <2>1. x <= m
    BY <1>0, <1>1, <1>4
  <2>2. Base[x] <= Base[m]
    BY <1>2, <2>1, BaseGrows
  <2> QED
    BY <1>0, <1>1, <1>3, <1>4, <2>2
<1>5. ASSUME Base[x] < k, ~(x <= m) PROVE FALSE
  <2>1. m + 1 <= x
    BY <1>0, <1>1, <1>5
  <2>2. Base[m + 1] <= Base[x]
    BY <1>2, <2>1, BaseGrows
  <2> QED
    BY <1>0, <1>1, <1>3, <1>5, <2>2
<1> QED
  BY <1>4, <1>5 DEF m

\* What a sending sender has queued.
LEMMA SendingFacts ==
  ASSUME NEW s, NEW a, NEW w, Sending(s, a, w)
  PROVE  /\ NM \in Nat /\ NC \in Nat /\ a + 1 \in 1 .. NM + 1 /\ a \in Nat /\ w \in Nat
         /\ Base[a + 1] \in 0 .. NC /\ w <= Base[a + 1] /\ Len(s.queue) \in Nat
         /\ \A i \in 1 .. Len(s.queue) :
              /\ w + i \in 1 .. NC /\ w + i <= Base[a + 1]
              /\ s.queue[i].msg = Chunks[w + i].msg /\ s.queue[i].tsn = TsnOf(w + i)
              /\ s.queue[i].msg \in Messages /\ s.queue[i].msg <= a
<1>1. /\ NM \in Nat /\ NC \in Nat /\ a + 1 \in 1 .. NM + 1 /\ a \in Nat
  BY BaseFacts, ChunkCount DEF Sending
<1>2. Base[a + 1] \in 0 .. NC
  BY <1>1, BaseGrows
<1>3. w \in Nat /\ w <= Base[a + 1] /\ Len(s.queue) \in Nat /\ Len(s.queue) = Base[a + 1] - w
  BY <1>1, <1>2 DEF Sending
<1>4. ASSUME NEW i \in 1 .. Len(s.queue)
      PROVE  /\ w + i \in 1 .. NC /\ w + i <= Base[a + 1]
             /\ s.queue[i].msg = Chunks[w + i].msg /\ s.queue[i].tsn = TsnOf(w + i)
             /\ s.queue[i].msg \in Messages /\ s.queue[i].msg <= a
  <2>1. w + i \in 1 .. NC /\ w + i <= Base[a + 1]
    BY <1>1, <1>2, <1>3
  <2>2. Bears(s.queue[i], w + i, s.send_buf)
    BY DEF Sending
  <2>3. s.queue[i].msg = Chunks[w + i].msg /\ s.queue[i].tsn = TsnOf(w + i)
    BY <2>2 DEF Bears
  <2>4. Chunks[w + i].msg \in Messages
    BY <2>1, MessageOf
  <2>5. Chunks[w + i].msg < a + 1
    BY <1>1, <2>1, ChunkPlace
  <2>6. Chunks[w + i].msg \in Nat
    BY <2>4, MessageFacts
  <2> QED
    BY <1>1, <2>1, <2>3, <2>4, <2>5, <2>6
<1> QED
  BY <1>1, <1>2, <1>3, <1>4

\* A sender that keeps its chunks keeps sending them.
LEMMA SendingKeeps ==
  ASSUME NEW s, NEW a, NEW w, Sending(s, a, w), NEW t \in Senders, Keeps(s, t)
  PROVE  Sending(t, a, w)
<1>1. ASSUME NEW i \in 1 .. Len(t.queue) PROVE Bears(t.queue[i], w + i, t.send_buf)
  <2>1. Len(t.queue) = Len(s.queue) /\ t.send_buf = s.send_buf
    BY DEF Keeps
  <2>2. i \in 1 .. Len(s.queue)
    BY <2>1
  <2>3. Bears(s.queue[i], w + i, s.send_buf) /\ SameChunk(s.queue[i], t.queue[i])
    BY <2>2 DEF Sending, Keeps
  <2> QED
    BY <2>1, <2>3 DEF Bears, SameChunk
<1>2. \A sid \in Nat : NextSsn(t, sid) = NextSsn(s, sid)
  BY DEF Keeps, NextSsn
<1>3. Len(t.queue) = Len(s.queue) /\ t.next_tsn = s.next_tsn
  BY DEF Keeps
<1>4. \A sid \in Nat :
        NextSsn(t, sid) = Plus(InitSsn, Cardinality(OrderedBefore(a, sid)), SSN_MOD)
  BY <1>2 DEF Sending
<1> QED
  BY <1>1, <1>3, <1>4 DEF Sending

\* A sender that drops acknowledged entries.
LEMMA SendingDrops ==
  ASSUME NEW s, NEW a, NEW w, Sending(s, a, w), NEW t, NEW n, Drops(s, t, n)
  PROVE  Sending(t, a, w + n)
<1>1. /\ Base[a + 1] \in Nat /\ w \in Nat /\ w <= Base[a + 1] /\ Len(s.queue) = Base[a + 1] - w
      /\ Len(s.queue) \in Nat
  <2>1. Base[a + 1] \in 0 .. NC /\ NC \in Nat /\ w \in Nat /\ w <= Base[a + 1]
        /\ Len(s.queue) \in Nat
    BY SendingFacts
  <2>2. Len(s.queue) = Base[a + 1] - w
    BY DEF Sending
  <2> QED
    BY <2>1, <2>2
<1>2. n \in 0 .. Len(s.queue) /\ t \in Senders /\ Len(t.queue) = Len(s.queue) - n
  BY DEF Drops
<1>3. w + n \in 0 .. Base[a + 1] /\ Len(t.queue) = Base[a + 1] - (w + n)
  BY <1>1, <1>2
<1>4. ASSUME NEW i \in 1 .. Len(t.queue) PROVE Bears(t.queue[i], (w + n) + i, t.send_buf)
  <2>1. n + i \in 1 .. Len(s.queue) /\ (w + n) + i = w + (n + i)
    BY <1>1, <1>2
  <2>2. t.queue # <<>>
    BY <1>2
  <2>3. t.queue[i] = s.queue[n + i] /\ t.send_buf = s.send_buf
    BY <2>2 DEF Drops
  <2>4. Bears(s.queue[n + i], w + (n + i), s.send_buf)
    BY <2>1 DEF Sending
  <2> QED
    BY <2>1, <2>3, <2>4
<1>5. \A sid \in Nat : NextSsn(t, sid) = NextSsn(s, sid)
  BY DEF Drops, NextSsn
<1>6. t.next_tsn = s.next_tsn
  BY DEF Drops
<1>7. \A sid \in Nat :
        NextSsn(t, sid) = Plus(InitSsn, Cardinality(OrderedBefore(a, sid)), SSN_MOD)
  BY <1>5 DEF Sending
<1> QED
  BY <1>2, <1>3, <1>4, <1>6, <1>7 DEF Sending
\* One more message of the stream, or of another.
LEMMA OrderedMore ==
  ASSUME NEW a \in 0 .. NM, a < NM, NEW sid \in Nat
  PROVE  /\ Cardinality(OrderedBefore(a, sid)) \in Nat
         /\ Cardinality(OrderedBefore(a + 1, sid))
              = Cardinality(OrderedBefore(a, sid))
                  + IF Msgs[a + 1].sid = sid /\ ~Msgs[a + 1].unordered THEN 1 ELSE 0
         /\ Msgs[a + 1].sid = sid =>
              Ssn(a + 1) = Plus(InitSsn, Cardinality(OrderedBefore(a, sid)), SSN_MOD)
<1> DEFINE S == OrderedBefore(a, sid)
           T == OrderedBefore(a + 1, sid)
           own == Msgs[a + 1].sid = sid /\ ~Msgs[a + 1].unordered
<1>0. a \in Nat
  BY BaseFacts
<1>1. S \in SUBSET (1 .. a) /\ IsFiniteSet(S) /\ Cardinality(S) \in Nat
  <2>1. IsFiniteSet(1 .. a)
    BY <1>0, FS_Interval
  <2>2. S \in SUBSET (1 .. a)
    BY DEF OrderedBefore
  <2> QED
    BY <2>1, <2>2, FS_Subset, FS_CardinalityType
<1>2. \A n \in 1 .. a + 1 : n = a + 1 \/ n \in 1 .. a
  BY <1>0
<1>3. ASSUME own PROVE Cardinality(T) = Cardinality(S) + 1
  <2>1. T = S \cup {a + 1}
    <3>1. 1 .. a + 1 = (1 .. a) \cup {a + 1}
      BY <1>0
    <3> QED
      BY <1>3, <3>1 DEF OrderedBefore
  <2>2. a + 1 \notin S
    BY <1>0, <1>1
  <2> HIDE DEF S, T
  <2> QED
    BY <1>1, <2>1, <2>2, FS_AddElement
<1>4. ASSUME ~own PROVE Cardinality(T) = Cardinality(S) + 0
  <2>1. T = S
    <3>1. 1 .. a + 1 = (1 .. a) \cup {a + 1}
      BY <1>0
    <3> QED
      BY <1>4, <3>1 DEF OrderedBefore
  <2> HIDE DEF S, T
  <2> QED
    BY <1>1, <2>1
<1>5. Msgs[a + 1].sid = sid => Ssn(a + 1) = Plus(InitSsn, Cardinality(S), SSN_MOD)
  <2>1. (a + 1) - 1 = a
    BY <1>0
  <2> QED
    BY <2>1 DEF Ssn, OrderedBefore
<1> HIDE DEF S, T, own
<1>6. Cardinality(T) = Cardinality(S) + IF own THEN 1 ELSE 0
  BY <1>3, <1>4
<1> QED
  BY <1>1, <1>5, <1>6 DEF S, T, own

\* Message m is the next that s accepts.
Accepts(s, a, w, m) == Sending(s, a, w) /\ a < NM /\ m = a + 1

\* The fragments that nsctp_send_options queues for message m.
Queued(s, m) ==
    [i \in 1 .. Len(Lengths(m)) |->
       [tsn |-> Plus(s.next_tsn, i - 1, TSN_MOD), msg |-> m, sid |-> Msgs[m].sid,
        ssn |-> IF Msgs[m].unordered THEN 0 ELSE NextSsn(s, Msgs[m].sid),
        B |-> i = 1, E |-> i = Len(Lengths(m)), U |-> Msgs[m].unordered,
        off |-> Len(s.send_buf) + Start(m, i), len |-> Lengths(m)[i],
        max_retransmits |-> Retries[m], in_flight |-> FALSE, abandoned |-> FALSE,
        retransmit_count |-> 0, age |-> 0]]

\* Entry e is new, of message m, and carries chunk k.
Unsent(e, m, k, buf) ==
    /\ e \in SendEntry /\ Bears(e, k, buf) /\ e.msg = m /\ e.abandoned = FALSE
    /\ e.max_retransmits = Retries[m]

\* They carry the chunks of the message.
LEMMA QueuedOK ==
  ASSUME NEW s, NEW a, NEW w, NEW m, Accepts(s, a, w, m), NEW i \in 1 .. Len(Lengths(m))
  PROVE  Unsent(Queued(s, m)[i], m, Base[m] + i, s.send_buf \o Bytes(m))
<1> DEFINE k == Base[m] + i
           N == Len(s.send_buf)
           v == IF Msgs[m].unordered THEN 0 ELSE NextSsn(s, Msgs[m].sid)
           e == [tsn |-> Plus(s.next_tsn, i - 1, TSN_MOD), msg |-> m, sid |-> Msgs[m].sid,
                 ssn |-> v, B |-> i = 1, E |-> i = Len(Lengths(m)), U |-> Msgs[m].unordered,
                 off |-> N + Start(m, i), len |-> Lengths(m)[i],
                 max_retransmits |-> Retries[m], in_flight |-> FALSE, abandoned |-> FALSE,
                 retransmit_count |-> 0, age |-> 0]
           b == s.send_buf \o Bytes(m)
<1>0. Queued(s, m)[i] = e
  BY DEF Queued
<1>a. Sending(s, a, w) /\ a < NM /\ m = a + 1
  BY DEF Accepts
<1> USE <1>a
<1>1. /\ NM \in Nat /\ NC \in Nat /\ a \in Nat /\ m \in Messages /\ m \in Nat
      /\ Base[m] \in Nat /\ s \in Sender
  <2>1. NM \in Nat /\ NC \in Nat /\ a \in Nat /\ Base[m] \in 0 .. NC
    BY SendingFacts
  <2>2. s \in Sender
    BY DEF Sending, Senders
  <2>3. Messages = 1 .. NM
    BY BaseFacts
  <2> QED
    BY <2>1, <2>2, <2>3
<1>2. /\ k \in 1 .. NC /\ Chunks[k].msg = m /\ Chunks[k].sid = Msgs[m].sid
      /\ Chunks[k].ssn = (IF Msgs[m].unordered THEN 0 ELSE Ssn(m))
      /\ Chunks[k].B = (i = 1) /\ Chunks[k].E = (i = Len(Lengths(m)))
      /\ Chunks[k].U = Msgs[m].unordered /\ Size(k) = Lengths(m)[i]
      /\ \A p \in 1 .. Lengths(m)[i] : Chunks[k].payload[p] = <<m, Start(m, i) + p>>
  <2>0. m \in Messages
    BY <1>1
  <2>1. /\ k \in 1 .. NC /\ Chunks[k].msg = m /\ Chunks[k].sid = Msgs[m].sid
        /\ Chunks[k].ssn = (IF Msgs[m].unordered THEN 0 ELSE Ssn(m))
        /\ Size(k) = Lengths(m)[i]
    BY <2>0, ChunkFields
  <2>2. Chunks[k].B = (i = 1) /\ Chunks[k].E = (i = Len(Lengths(m)))
        /\ Chunks[k].U = Msgs[m].unordered
    BY <2>0, ChunkFields
  <2>3. \A p \in 1 .. Lengths(m)[i] : Chunks[k].payload[p] = <<m, Start(m, i) + p>>
    BY <2>0, ChunkFields
  <2> QED
    BY <2>1, <2>2, <2>3
<1>3. /\ Msgs[m].sid \in Nat /\ Msgs[m].unordered \in BOOLEAN /\ Lengths(m) \in Seq(Nat)
      /\ Len(Lengths(m)) \in Nat /\ Lengths(m)[i] \in Nat /\ i \in Nat
  BY <1>1, MessageFacts
<1>4. Plus(s.next_tsn, i - 1, TSN_MOD) = TsnOf(k) /\ TsnOf(k) \in Int
  <2>1. s.next_tsn = TsnOf(Base[m] + 1)
    BY DEF Sending
  <2>2. Base[m] + 1 \in Int /\ i - 1 \in Int /\ (Base[m] + 1) + (i - 1) = k
    BY <1>1, <1>3
  <2>3. Plus(TsnOf(Base[m] + 1), i - 1, TSN_MOD) = TsnOf((Base[m] + 1) + (i - 1))
    BY <2>2, TsnPlus
  <2>4. TsnOf(k) \in 0 .. TSN_MOD - 1
    BY <1>2, ChunkCount, TsnType
  <2> HIDE DEF k
  <2> QED
    BY <2>1, <2>2, <2>3, <2>4
<1>5. v = Chunks[k].ssn /\ v \in Nat
  <2>1. NextSsn(s, Msgs[m].sid) = Plus(InitSsn, Cardinality(OrderedBefore(a, Msgs[m].sid)), SSN_MOD)
    BY <1>3 DEF Sending
  <2>2. Ssn(m) = Plus(InitSsn, Cardinality(OrderedBefore(a, Msgs[m].sid)), SSN_MOD)
    <3>1. a \in 0 .. NM
      BY DEF Sending
    <3> QED
      BY <1>3, <3>1, OrderedMore
  <2>3. Ssn(m) \in 0 .. SSN_MOD - 1
    BY <1>1, SsnType
  <2> HIDE DEF k
  <2> QED
    BY <1>2, <2>1, <2>2, <2>3
<1>6. /\ N \in Nat /\ Start(m, i) \in Nat /\ Start(m, i) + Lengths(m)[i] <= Sum(Lengths(m))
      /\ Sum(Lengths(m)) \in Nat
  <2>1. N \in Nat
    BY <1>1, SenderFields
  <2>2. /\ Sum(SubSeq(Lengths(m), 1, i)) = Sum(SubSeq(Lengths(m), 1, i - 1)) + Lengths(m)[i]
        /\ \A x \in 0 .. Len(Lengths(m)) : /\ Sum(SubSeq(Lengths(m), 1, x)) \in Nat
                                           /\ Sum(SubSeq(Lengths(m), 1, x)) <= Sum(Lengths(m))
        /\ Sum(SubSeq(Lengths(m), 1, Len(Lengths(m)))) = Sum(Lengths(m))
    BY <1>3, SumFacts
  <2>3. i \in 0 .. Len(Lengths(m)) /\ i - 1 \in 0 .. Len(Lengths(m))
        /\ Len(Lengths(m)) \in 0 .. Len(Lengths(m))
    BY <1>3
  <2> QED
    BY <2>1, <2>2, <2>3 DEF Start
<1>7. /\ Len(b) = N + Sum(Lengths(m))
      /\ \A p \in 1 .. Lengths(m)[i] : b[(N + Start(m, i)) + p] = <<m, Start(m, i) + p>>
  <2>1. s.send_buf \in Seq(Byte)
    BY <1>1, SenderFields
  <2>2. Bytes(m) = [p \in 1 .. Sum(Lengths(m)) |-> <<m, p>>]
    BY DEF Bytes, Lengths
  <2>3. Bytes(m) \in Seq(Byte) /\ Len(Bytes(m)) = Sum(Lengths(m))
    <3>1. Bytes(m) \in [1 .. Sum(Lengths(m)) -> Byte]
      BY <1>1, <1>6, <2>2 DEF Byte
    <3> QED
      BY <1>6, <3>1
  <2>4. /\ Len(b) = N + Sum(Lengths(m))
        /\ \A p \in 1 .. N + Sum(Lengths(m)) :
             b[p] = IF p <= N THEN s.send_buf[p] ELSE Bytes(m)[p - N]
    <3>1. /\ Len(s.send_buf \o Bytes(m)) = Len(s.send_buf) + Len(Bytes(m))
          /\ \A p \in 1 .. Len(s.send_buf) + Len(Bytes(m)) :
               (s.send_buf \o Bytes(m))[p] = IF p <= Len(s.send_buf) THEN s.send_buf[p]
                                             ELSE Bytes(m)[p - Len(s.send_buf)]
      BY <2>1, <2>3, ConcatBytes
    <3> QED
      BY <2>3, <3>1
  <2> SUFFICES ASSUME NEW p \in 1 .. Lengths(m)[i]
               PROVE  b[(N + Start(m, i)) + p] = <<m, Start(m, i) + p>>
    BY <2>4
  <2> DEFINE x == (N + Start(m, i)) + p
  <2>5. /\ x \in 1 .. N + Sum(Lengths(m)) /\ ~(x <= N) /\ x - N = Start(m, i) + p
        /\ Start(m, i) + p \in 1 .. Sum(Lengths(m))
    <3>1. ASSUME NEW A \in Nat, NEW L \in Nat, NEW T \in Nat, NEW n \in Nat, A + L <= T,
                 NEW y \in 1 .. L
          PROVE  /\ (n + A) + y \in 1 .. n + T /\ ~((n + A) + y <= n) /\ ((n + A) + y) - n = A + y
                 /\ A + y \in 1 .. T
      BY <3>1
    <3> HIDE DEF N
    <3> QED
      BY <1>3, <1>6, <3>1
  <2> HIDE DEF x, b
  <2>6. b[x] = Bytes(m)[Start(m, i) + p]
    BY <2>4, <2>5
  <2> QED
    BY <2>2, <2>5, <2>6 DEF x
<1>8. Bears(e, k, b)
  <2>1. /\ e.tsn = TsnOf(k) /\ e.msg = m /\ e.sid = Msgs[m].sid /\ e.ssn = v
        /\ e.B = (i = 1) /\ e.E = (i = Len(Lengths(m))) /\ e.U = Msgs[m].unordered
        /\ e.len = Lengths(m)[i] /\ e.off = N + Start(m, i)
    BY <1>4
  <2> HIDE DEF e, k, v, N, b
  <2>2. e.off + e.len <= Len(b)
    BY <1>3, <1>6, <1>7, <2>1, SMTT(30)
  <2>3. \A p \in 1 .. Size(k) : b[e.off + p] = Chunks[k].payload[p]
    BY <1>2, <1>7, <2>1
  <2> QED
    BY <1>2, <1>5, <2>1, <2>2, <2>3 DEF Bears
<1>9. e \in SendEntry
  <2>1. Retries[m] \in Int /\ 0 \in 0 .. RTO_MAX
    BY <1>1, SendConstants
  <2>2. N + Start(m, i) \in Nat
    BY <1>6
  <2>3. Plus(s.next_tsn, i - 1, TSN_MOD) \in Int
    BY <1>4
  <2> HIDE DEF N, v, k
  <2> QED
    BY <1>1, <1>3, <1>5, <2>1, <2>2, <2>3 DEF SendEntry
<1>10. e.msg = m /\ e.abandoned = FALSE /\ e.max_retransmits = Retries[m]
  OBVIOUS
<1> HIDE DEF e
<1> QED
  BY <1>0, <1>8, <1>9, <1>10 DEF Unsent
\* The sequence numbers after message m has been queued.
SsnsAfter(s, m) ==
    IF Msgs[m].unordered THEN s.next_ssn
    ELSE [x \in DOMAIN s.next_ssn \cup {Msgs[m].sid} |->
            IF x = Msgs[m].sid THEN Plus(NextSsn(s, Msgs[m].sid), 1, SSN_MOD) ELSE s.next_ssn[x]]

\* They count one message more.
LEMMA SsnsAfterOK ==
  ASSUME NEW s, NEW a, NEW w, NEW m, Accepts(s, a, w, m), NEW t, t.next_ssn = SsnsAfter(s, m)
  PROVE  /\ SsnsAfter(s, m) \in SsnTable
         /\ \A sid \in Nat :
              NextSsn(t, sid) = Plus(InitSsn, Cardinality(OrderedBefore(m, sid)), SSN_MOD)
<1> DEFINE own == Msgs[m].sid
           D == DOMAIN s.next_ssn
<1>a. Sending(s, a, w) /\ a < NM /\ m = a + 1
  BY DEF Accepts
<1> USE <1>a
<1>1. /\ NM \in Nat /\ a \in Nat /\ a \in 0 .. NM /\ m \in Messages
      /\ s.next_ssn \in SsnTable
  <2>1. NM \in Nat /\ a \in Nat /\ a \in 0 .. NM /\ Messages = 1 .. NM
    BY SendingFacts, BaseFacts DEF Sending
  <2>2. s.next_ssn \in SsnTable
    BY SenderFields DEF Sending, Senders
  <2> QED
    BY <2>1, <2>2
<1>2. D \in SUBSET Nat /\ s.next_ssn \in [D -> Int]
  BY <1>1 DEF SsnTable
<1>3. own \in Nat /\ Msgs[m].unordered \in BOOLEAN
  BY <1>1, MessageFacts
<1>4. \A sid \in Nat :
        /\ NextSsn(s, sid) = Plus(InitSsn, Cardinality(OrderedBefore(a, sid)), SSN_MOD)
        /\ Cardinality(OrderedBefore(a, sid)) \in Nat
        /\ Cardinality(OrderedBefore(m, sid))
             = Cardinality(OrderedBefore(a, sid)) + IF own = sid /\ ~Msgs[m].unordered THEN 1 ELSE 0
  <2> SUFFICES ASSUME NEW sid \in Nat
               PROVE  /\ NextSsn(s, sid)
                           = Plus(InitSsn, Cardinality(OrderedBefore(a, sid)), SSN_MOD)
                      /\ Cardinality(OrderedBefore(a, sid)) \in Nat
                      /\ Cardinality(OrderedBefore(m, sid))
                           = Cardinality(OrderedBefore(a, sid))
                               + IF own = sid /\ ~Msgs[m].unordered THEN 1 ELSE 0
    OBVIOUS
  <2>1. NextSsn(s, sid) = Plus(InitSsn, Cardinality(OrderedBefore(a, sid)), SSN_MOD)
    BY DEF Sending
  <2>2. /\ Cardinality(OrderedBefore(a, sid)) \in Nat
        /\ Cardinality(OrderedBefore(a + 1, sid))
             = Cardinality(OrderedBefore(a, sid))
                 + IF Msgs[a + 1].sid = sid /\ ~Msgs[a + 1].unordered THEN 1 ELSE 0
    BY <1>1, OrderedMore
  <2> QED
    BY <2>1, <2>2
<1>5. CASE Msgs[m].unordered
  <2>1. SsnsAfter(s, m) = s.next_ssn
    BY <1>5 DEF SsnsAfter
  <2>2. ASSUME NEW sid \in Nat
        PROVE  NextSsn(t, sid) = Plus(InitSsn, Cardinality(OrderedBefore(m, sid)), SSN_MOD)
    <3>1. NextSsn(t, sid) = NextSsn(s, sid)
      BY <2>1 DEF NextSsn
    <3>2. Cardinality(OrderedBefore(m, sid)) = Cardinality(OrderedBefore(a, sid))
      BY <1>4, <1>5
    <3> QED
      BY <1>4, <3>1, <3>2
  <2> QED
    BY <1>1, <2>1, <2>2
<1>6. CASE ~Msgs[m].unordered
  <2> DEFINE z == [x \in D \cup {own} |->
                     IF x = own THEN Plus(NextSsn(s, own), 1, SSN_MOD) ELSE s.next_ssn[x]]
  <2>1. SsnsAfter(s, m) = z
    BY <1>6 DEF SsnsAfter
  <2>2. /\ Plus(NextSsn(s, own), 1, SSN_MOD) \in Int
        /\ Plus(NextSsn(s, own), 1, SSN_MOD)
             = Plus(InitSsn, Cardinality(OrderedBefore(m, own)), SSN_MOD)
    <3> DEFINE c == Cardinality(OrderedBefore(a, own))
    <3>1. NextSsn(s, own) = Plus(InitSsn, c, SSN_MOD) /\ c \in Nat
          /\ Cardinality(OrderedBefore(m, own)) = c + 1
      BY <1>3, <1>4, <1>6
    <3>2. SSN_MOD \in Nat /\ SSN_MOD > 0 /\ InitSsn \in Int
      BY RecvSizes
    <3> HIDE DEF c
    <3>3. InitSsn + c \in Int /\ (InitSsn + c) + 1 = InitSsn + (c + 1) /\ c + 1 \in Int
      BY <3>1, <3>2
    <3>4. (((InitSsn + c) % SSN_MOD) + 1) % SSN_MOD = ((InitSsn + c) + 1) % SSN_MOD
      BY <3>2, <3>3, ModAdd
    <3>5. Plus(InitSsn, c + 1, SSN_MOD) \in 0 .. SSN_MOD - 1
      BY <3>2, <3>3, PlusSsn
    <3>6. Plus(NextSsn(s, own), 1, SSN_MOD) = Plus(InitSsn, c + 1, SSN_MOD)
      BY <3>1, <3>3, <3>4 DEF Plus
    <3> QED
      BY <3>1, <3>5, <3>6
  <2>3. z \in SsnTable
    <3>1. D \cup {own} \in SUBSET Nat
      BY <1>2, <1>3
    <3>2. z \in [D \cup {own} -> Int]
      BY <1>2, <2>2
    <3> HIDE DEF z
    <3> QED
      BY <3>1, <3>2 DEF SsnTable
  <2>4. ASSUME NEW sid \in Nat
        PROVE  NextSsn(t, sid) = Plus(InitSsn, Cardinality(OrderedBefore(m, sid)), SSN_MOD)
    <3>1. CASE sid = own
      BY <2>1, <2>2, <3>1 DEF NextSsn
    <3>2. CASE sid # own
      <4>1. NextSsn(t, sid) = NextSsn(s, sid)
        BY <2>1, <3>2 DEF NextSsn
      <4>2. Cardinality(OrderedBefore(m, sid)) = Cardinality(OrderedBefore(a, sid))
        BY <1>4, <3>2
      <4> QED
        BY <1>4, <4>1, <4>2
    <3> QED
      BY <3>1, <3>2
  <2> QED
    BY <2>1, <2>3, <2>4
<1> QED
  BY <1>3, <1>5, <1>6

\* A message is accepted.
LEMMA SendOptionsOK ==
  ASSUME NEW s, NEW a, NEW w, NEW m, Accepts(s, a, w, m)
  PROVE  /\ Sending(nsctp_send_options(s, m), m, w)
         /\ \A i \in 1 .. Len(nsctp_send_options(s, m).queue) :
              LET e == nsctp_send_options(s, m).queue[i]
              IN e.abandoned => i \in 1 .. Len(s.queue) /\ e = s.queue[i]
<1> DEFINE t == nsctp_send_options(s, m)
           n == Len(s.queue)
           l == Len(Lengths(m))
           new == Queued(s, m)
           q == s.queue \o new
           b == s.send_buf \o Bytes(m)
           y == Plus(s.next_tsn, l, TSN_MOD)
           z == SsnsAfter(s, m)
<1>a. Sending(s, a, w) /\ a < NM /\ m = a + 1
  BY DEF Accepts
<1> USE <1>a
<1>1. /\ NM \in Nat /\ NC \in Nat /\ a \in Nat /\ m \in Messages /\ m \in Nat /\ m \in 0 .. NM
      /\ Base[m] \in 0 .. NC /\ w \in Nat /\ w <= Base[m] /\ s \in Senders /\ s \in Sender
      /\ n \in Nat /\ n = Base[m] - w
  <2>1. /\ NM \in Nat /\ NC \in Nat /\ a \in Nat /\ Base[a + 1] \in 0 .. NC
        /\ w \in Nat /\ w <= Base[a + 1] /\ n \in Nat
    BY SendingFacts
  <2>2. s \in Senders /\ s \in Sender /\ n = Base[a + 1] - w
    BY DEF Sending, Senders
  <2>3. Messages = 1 .. NM
    BY BaseFacts
  <2> QED
    BY <2>1, <2>2, <2>3
<1>2. /\ Base[m + 1] \in 0 .. NC /\ Base[m + 1] = Base[m] + l /\ l \in Nat /\ l >= 1
  BY <1>1, BaseFacts, MessageFacts
<1>3. t = [s EXCEPT !.send_buf = b, !.queue = q, !.next_tsn = y, !.next_ssn = z]
  BY DEF nsctp_send_options, Queued, SsnsAfter, Start, Lengths
<1>4. /\ new \in Seq(SendEntry) /\ Len(new) = l
      /\ \A i \in 1 .. l : /\ Bears(new[i], Base[m] + i, b) /\ new[i].msg = m
                           /\ new[i].abandoned = FALSE /\ new[i].max_retransmits = Retries[m]
  <2>1. \A i \in 1 .. l : /\ new[i] \in SendEntry /\ Bears(new[i], Base[m] + i, b)
                          /\ new[i].msg = m /\ new[i].abandoned = FALSE
                          /\ new[i].max_retransmits = Retries[m]
    <3> SUFFICES ASSUME NEW i \in 1 .. Len(Lengths(m))
                 PROVE  /\ new[i] \in SendEntry /\ Bears(new[i], Base[m] + i, b)
                        /\ new[i].msg = m /\ new[i].abandoned = FALSE
                        /\ new[i].max_retransmits = Retries[m]
      OBVIOUS
    <3>1. Unsent(Queued(s, m)[i], m, Base[m] + i, s.send_buf \o Bytes(m))
      BY QueuedOK
    <3> QED
      BY <3>1 DEF Unsent
  <2>2. new = [i \in 1 .. l |-> new[i]]
    BY DEF Queued
  <2> HIDE DEF new, l
  <2>3. new \in [1 .. l -> SendEntry]
    BY <2>1, <2>2
  <2> QED
    BY <1>2, <2>1, <2>3
<1>5. /\ s.queue \in Seq(SendEntry) /\ s.send_buf \in Seq(Byte)
  BY <1>1, SenderFields
<1> HIDE DEF new
<1>6. /\ q \in Seq(SendEntry) /\ Len(q) = n + l
      /\ \A i \in 1 .. n : q[i] = s.queue[i]
      /\ \A i \in 1 .. n + l : ~(i <= n) => i - n \in 1 .. l /\ q[i] = new[i - n]
  <2>1. /\ q \in Seq(SendEntry) /\ Len(q) = n + Len(new)
        /\ \A i \in 1 .. n + Len(new) : q[i] = IF i <= n THEN s.queue[i] ELSE new[i - n]
    <3>1. new \in Seq(SendEntry)
      BY <1>4
    <3> QED
      BY <1>5, <3>1, ConcatBytes
  <2> HIDE DEF q
  <2>0. n \in Nat /\ l \in Nat
    BY <1>1, <1>2
  <2> HIDE DEF n, l
  <2>2. \A i \in 1 .. n : i \in 1 .. n + l /\ i <= n
    BY <2>0
  <2>3. \A i \in 1 .. n + l : ~(i <= n) => i - n \in 1 .. l
    BY <2>0
  <2> QED
    BY <1>4, <2>1, <2>2, <2>3
<1>7. /\ b \in Seq(Byte) /\ Len(s.send_buf) <= Len(b) /\ Len(b) \in Nat
      /\ \A p \in 1 .. Len(s.send_buf) : b[p] = s.send_buf[p]
  <2>1. Bytes(m) \in Seq(Byte)
    <3>1. Sum(Lengths(m)) \in Nat
      <4>1. Lengths(m) \in Seq(Nat)
        BY <1>1, MessageFacts
      <4>2. /\ \A x \in 0 .. Len(Lengths(m)) : Sum(SubSeq(Lengths(m), 1, x)) \in Nat
            /\ Sum(SubSeq(Lengths(m), 1, Len(Lengths(m)))) = Sum(Lengths(m))
        BY <4>1, SumFacts
      <4>3. l \in 0 .. l
        BY <1>2
      <4> QED
        BY <4>2, <4>3
    <3>2. Bytes(m) \in [1 .. Sum(Lengths(m)) -> Byte]
      BY <1>1 DEF Bytes, Lengths, Byte
    <3> QED
      BY <3>1, <3>2
  <2>2. /\ b \in Seq(Byte) /\ Len(b) = Len(s.send_buf) + Len(Bytes(m))
        /\ \A p \in 1 .. Len(s.send_buf) + Len(Bytes(m)) :
             b[p] = IF p <= Len(s.send_buf) THEN s.send_buf[p] ELSE Bytes(m)[p - Len(s.send_buf)]
    BY <1>5, <2>1, ConcatBytes
  <2>3. Len(s.send_buf) \in Nat /\ Len(Bytes(m)) \in Nat
    BY <1>5, <2>1
  <2> HIDE DEF b
  <2>4. Len(s.send_buf) <= Len(b) /\ Len(b) \in Nat
    <3>1. Len(b) = Len(s.send_buf) + Len(Bytes(m))
      BY <2>2
    <3>2. \A x, k \in Nat : x <= x + k /\ x + k \in Nat
      OBVIOUS
    <3> QED
      BY <2>3, <3>1, <3>2
  <2>5. \A p \in 1 .. Len(s.send_buf) : p \in 1 .. Len(s.send_buf) + Len(Bytes(m))
                                          /\ p <= Len(s.send_buf)
    <3>1. ASSUME NEW x \in Nat, NEW k \in Nat, NEW p \in 1 .. x PROVE p \in 1 .. x + k /\ p <= x
      BY <3>1
    <3> QED
      BY <2>3, <3>1
  <2> QED
    BY <2>2, <2>4, <2>5
<1>8. y = TsnOf(Base[m + 1] + 1) /\ y \in Int
  <2>1. s.next_tsn = TsnOf(Base[m] + 1)
    BY DEF Sending
  <2>2. Base[m] + 1 \in Int /\ l \in Int /\ (Base[m] + 1) + l = Base[m + 1] + 1
    <3>1. Base[m] \in Nat /\ l \in Nat /\ Base[m + 1] = Base[m] + l
      BY <1>1, <1>2
    <3>2. \A x, k \in Nat : x + 1 \in Int /\ k \in Int /\ (x + 1) + k = (x + k) + 1
      OBVIOUS
    <3> HIDE DEF l
    <3> QED
      BY <3>1, <3>2
  <2>3. Plus(TsnOf(Base[m] + 1), l, TSN_MOD) = TsnOf((Base[m] + 1) + l)
    BY <2>2, TsnPlus
  <2>4. s.next_tsn \in Int
    BY <1>1, SenderFields
  <2>5. Plus(s.next_tsn, l, TSN_MOD) \in 0 .. TSN_MOD - 1
    BY <2>2, <2>4, PlusTsn
  <2> HIDE DEF l
  <2> QED
    BY <2>1, <2>2, <2>3, <2>5
<1> HIDE DEF b, q, y, z
<1>9. z \in SsnTable
  <2> DEFINE v == [next_ssn |-> z]
  <2>1. v.next_ssn = SsnsAfter(s, m)
    BY DEF z
  <2> HIDE DEF v
  <2> QED
    BY <2>1, SsnsAfterOK DEF z
<1>10. /\ t \in Sender /\ t.queue = q /\ t.send_buf = b /\ t.next_tsn = y /\ t.next_ssn = z
  <2> DEFINE t1 == [s EXCEPT !.send_buf = b]
             t2 == [t1 EXCEPT !.queue = q]
             t3 == [t2 EXCEPT !.next_tsn = y]
             t4 == [t3 EXCEPT !.next_ssn = z]
  <2>1. t = t4
    BY <1>1, <1>3 DEF Sender
  <2> HIDE DEF t
  <2>2. t1 \in Sender /\ t1.send_buf = b
    BY <1>1, <1>7 DEF Sender
  <2> HIDE DEF t1
  <2>3. t2 \in Sender /\ t2.send_buf = b /\ t2.queue = q
    BY <1>6, <2>2 DEF Sender
  <2> HIDE DEF t2
  <2>4. t3 \in Sender /\ t3.send_buf = b /\ t3.queue = q /\ t3.next_tsn = y
    BY <1>8, <2>3 DEF Sender
  <2> HIDE DEF t3
  <2>5. /\ t4 \in Sender /\ t4.send_buf = b /\ t4.queue = q /\ t4.next_tsn = y
        /\ t4.next_ssn = z
    BY <1>9, <2>4 DEF Sender
  <2> HIDE DEF t4
  <2> QED
    BY <2>1, <2>5
<1> HIDE DEF t
<1>11. \A sid \in Nat :
         NextSsn(t, sid) = Plus(InitSsn, Cardinality(OrderedBefore(m, sid)), SSN_MOD)
  <2>1. t.next_ssn = SsnsAfter(s, m)
    BY <1>10 DEF z
  <2> QED
    BY <2>1, SsnsAfterOK
<1>12. ASSUME NEW i \in 1 .. n + l PROVE Bears(q[i], w + i, b)
  <2>1. CASE i <= n
    <3>1. i \in 1 .. n /\ q[i] = s.queue[i]
      BY <1>1, <1>6, <2>1, SMTT(30)
    <3>2. Bears(s.queue[i], w + i, s.send_buf)
      BY <3>1 DEF Sending
    <3>3. /\ s.queue[i].off + s.queue[i].len <= Len(s.send_buf) /\ s.queue[i].len = Size(w + i)
          /\ \A p \in 1 .. Size(w + i) :
               s.send_buf[s.queue[i].off + p] = Chunks[w + i].payload[p]
      BY <3>2 DEF Bears
    <3>4. s.queue[i].off \in Nat /\ s.queue[i].len \in Nat /\ Len(s.send_buf) \in Nat
      <4>1. s.queue[i] \in SendEntry
        BY <1>5, <3>1
      <4>2. s.queue[i].off \in Nat /\ s.queue[i].len \in Nat
        BY <4>1 DEF SendEntry
      <4> QED
        BY <1>5, <4>2
    <3>5. s.queue[i].off + s.queue[i].len <= Len(b)
      BY <1>7, <3>3, <3>4
    <3>6. \A p \in 1 .. Size(w + i) : b[s.queue[i].off + p] = Chunks[w + i].payload[p]
      <4>1. \A p \in 1 .. Size(w + i) : s.queue[i].off + p \in 1 .. Len(s.send_buf)
        BY <3>3, <3>4, SMTT(30)
      <4> QED
        BY <1>7, <3>3, <4>1
    <3> QED
      BY <3>1, <3>2, <3>5, <3>6 DEF Bears
  <2>2. CASE ~(i <= n)
    <3>1. i - n \in 1 .. l /\ q[i] = new[i - n]
      BY <1>6, <2>2
    <3>2. Base[m] + (i - n) = w + i
      BY <1>1, <3>1, SMTT(30)
    <3>3. Bears(new[i - n], Base[m] + (i - n), b)
      BY <1>4, <3>1
    <3> QED
      BY <3>1, <3>2, <3>3
  <2> QED
    BY <2>1, <2>2
<1>13. Abandons(q)
  <2>1. /\ \A i \in 1 .. n : s.queue[i].max_retransmits = Retries[s.queue[i].msg]
        /\ \A i \in 1 .. n : s.queue[i].abandoned => s.queue[i].max_retransmits >= 0
        /\ \A i, j \in 1 .. n : s.queue[i].msg = s.queue[j].msg =>
              s.queue[i].abandoned = s.queue[j].abandoned
    BY <1>1 DEF Senders, Abandons
  <2>2. \A i \in 1 .. n : s.queue[i].msg # m
    <3>1. \A i \in 1 .. n : s.queue[i].msg \in Messages /\ s.queue[i].msg <= a
      BY SendingFacts
    <3>2. \A x \in Messages : x \in Nat
      BY DEF Messages
    <3> QED
      BY <1>1, <3>1, <3>2
  <2>3. \A i \in 1 .. n + l : (i \in 1 .. n /\ q[i] = s.queue[i] /\ q[i].msg # m)
                             \/ (q[i].msg = m /\ q[i].abandoned = FALSE
                                   /\ q[i].max_retransmits = Retries[m])
    <3> SUFFICES ASSUME NEW i \in 1 .. n + l
                 PROVE  (i \in 1 .. n /\ q[i] = s.queue[i] /\ q[i].msg # m)
                        \/ (q[i].msg = m /\ q[i].abandoned = FALSE
                              /\ q[i].max_retransmits = Retries[m])
      OBVIOUS
    <3>1. CASE i <= n
      <4>1. i \in 1 .. n
        BY <1>1, <3>1
      <4> QED
        BY <1>6, <2>2, <4>1
    <3>2. CASE ~(i <= n)
      <4>1. i - n \in 1 .. l /\ q[i] = new[i - n]
        BY <1>6, <3>2
      <4> QED
        BY <1>4, <4>1
    <3> QED
      BY <3>1, <3>2
  <2>4. ASSUME NEW i \in 1 .. n + l
        PROVE  /\ q[i].max_retransmits = Retries[q[i].msg]
               /\ q[i].abandoned => q[i].max_retransmits >= 0
    <3>1. CASE i \in 1 .. n /\ q[i] = s.queue[i]
      BY <2>1, <3>1, Zenon
    <3>2. CASE q[i].msg = m /\ q[i].abandoned = FALSE /\ q[i].max_retransmits = Retries[m]
      BY <3>2
    <3> QED
      BY <2>3, <3>1, <3>2
  <2>5. ASSUME NEW i \in 1 .. n + l, NEW j \in 1 .. n + l, q[i].msg = q[j].msg
        PROVE  q[i].abandoned = q[j].abandoned
    <3>1. CASE q[i].msg = m
      BY <2>3, <2>5, <3>1
    <3>2. CASE q[i].msg # m
      <4>1. i \in 1 .. n /\ j \in 1 .. n /\ q[i] = s.queue[i] /\ q[j] = s.queue[j]
        BY <2>3, <2>5, <3>2
      <4> QED
        BY <2>1, <2>5, <4>1, Zenon
    <3> QED
      BY <3>1, <3>2
  <2> QED
    BY <1>6, <2>4, <2>5 DEF Abandons
<1>14. t \in Senders
  BY <1>10, <1>13 DEF Senders
<1>15. Sending(t, m, w)
  <2>1. w \in 0 .. Base[m + 1] /\ Len(q) = Base[m + 1] - w
    BY <1>1, <1>2, <1>6, SMTT(30)
  <2>2. \A i \in 1 .. Len(q) : Bears(q[i], w + i, b)
    BY <1>6, <1>12
  <2> QED
    BY <1>1, <1>8, <1>10, <1>11, <1>14, <2>1, <2>2 DEF Sending
<1>16. ASSUME NEW i \in 1 .. n + l, q[i].abandoned PROVE i \in 1 .. n /\ q[i] = s.queue[i]
  <2>1. CASE i <= n
    <3>1. i \in 1 .. n
      BY <1>1, <2>1
    <3> QED
      BY <1>6, <3>1
  <2>2. CASE ~(i <= n)
    <3>1. i - n \in 1 .. l /\ q[i] = new[i - n]
      BY <1>6, <2>2
    <3>2. new[i - n].abandoned = FALSE
      BY <1>4, <3>1
    <3> QED
      BY <1>16, <3>1, <3>2
  <2> QED
    BY <2>1, <2>2
<1> QED
  BY <1>6, <1>10, <1>15, <1>16 DEF t
-----------------------------------------------------------------------------
(* The pairs of a FORWARD-TSN.                                              *)

\* Entry i is the last ordered one of its stream among the first k of es.
LastOrdered(es, i, k) ==
    ~es[i].U /\ \A x \in 1 .. k : i < x /\ ~es[x].U => es[x].sid # es[i].sid

\* The pairs list the last ordered entry of each stream among the first k of es.
Lists(es, pairs, k) ==
    /\ pairs \in Seq(Nat \X Nat)
    /\ \A j \in 1 .. Len(pairs) : \E i \in 1 .. k : /\ LastOrdered(es, i, k)
                                                    /\ pairs[j] = <<es[i].sid, es[i].ssn>>
    /\ \A i \in 1 .. k : ~es[i].U => \E j \in 1 .. Len(pairs) : pairs[j][1] = es[i].sid
    /\ \A i, j \in 1 .. Len(pairs) : i # j => pairs[i][1] # pairs[j][1]

\* One entry more.
LEMMA SkipEntryOK ==
  ASSUME NEW es \in Seq(SendEntry), NEW k \in 1 .. Len(es), NEW pairs, Lists(es, pairs, k - 1)
  PROVE  Lists(es, SkipEntry(pairs, es[k]), k)
<1> DEFINE e == es[k]
           L == Len(pairs)
           at == {j \in DOMAIN pairs : pairs[j][1] = e.sid}
           p == <<e.sid, e.ssn>>
<1>0. /\ k \in Nat /\ \A i \in 1 .. k : i = k \/ i \in 1 .. k - 1
      /\ \A i \in 1 .. k - 1 : i \in 1 .. k /\ i < k
      /\ k \in 1 .. k
  OBVIOUS
<1>1. e \in SendEntry /\ e.sid \in Nat /\ e.ssn \in Nat /\ e.U \in BOOLEAN /\ p \in Nat \X Nat
  <2>1. e \in SendEntry
    OBVIOUS
  <2> HIDE DEF e
  <2>2. e.sid \in Nat /\ e.ssn \in Nat /\ e.U \in BOOLEAN
    BY <2>1 DEF SendEntry
  <2> QED
    BY <2>1, <2>2
<1>2. /\ pairs \in Seq(Nat \X Nat) /\ L \in Nat /\ DOMAIN pairs = 1 .. L
      /\ \A j \in 1 .. L : \E i \in 1 .. k - 1 : /\ LastOrdered(es, i, k - 1)
                                                 /\ pairs[j] = <<es[i].sid, es[i].ssn>>
      /\ \A i \in 1 .. k - 1 : ~es[i].U => \E j \in 1 .. L : pairs[j][1] = es[i].sid
      /\ \A i, j \in 1 .. L : i # j => pairs[i][1] # pairs[j][1]
  <2>1. pairs \in Seq(Nat \X Nat)
    BY Zenon DEF Lists
  <2>2. L \in Nat /\ DOMAIN pairs = 1 .. L
    BY <2>1
  <2> QED
    BY <2>1, <2>2, Zenon DEF Lists
<1>3. ASSUME NEW i \in 1 .. k - 1, LastOrdered(es, i, k - 1), e.U \/ e.sid # es[i].sid
      PROVE  i \in 1 .. k /\ LastOrdered(es, i, k)
  BY <1>0, <1>3 DEF LastOrdered
<1>4. ~e.U => LastOrdered(es, k, k)
  BY <1>0 DEF LastOrdered
<1>5. SkipEntry(pairs, e) = IF e.U THEN pairs
                            ELSE IF at = {} THEN Append(pairs, p) ELSE [pairs EXCEPT ![Min(at)] = p]
  BY DEF SkipEntry
<1> HIDE DEF e, L, p
<1>6. CASE e.U
  <2>1. ASSUME NEW j \in 1 .. L
        PROVE  \E i \in 1 .. k : LastOrdered(es, i, k) /\ pairs[j] = <<es[i].sid, es[i].ssn>>
    <3>1. PICK i \in 1 .. k - 1 : LastOrdered(es, i, k - 1) /\ pairs[j] = <<es[i].sid, es[i].ssn>>
      BY <1>2
    <3> QED
      BY <1>3, <1>6, <3>1
  <2>2. ASSUME NEW i \in 1 .. k, ~es[i].U PROVE \E j \in 1 .. L : pairs[j][1] = es[i].sid
    BY <1>0, <1>2, <1>6, <2>2 DEF e
  <2>3. SkipEntry(pairs, e) = pairs
    BY <1>5, <1>6
  <2> QED
    BY <1>2, <2>1, <2>2, <2>3 DEF Lists, L, e
<1>7. CASE ~e.U /\ at = {}
  <2> DEFINE q == Append(pairs, p)
  <2>1. /\ q \in Seq(Nat \X Nat) /\ Len(q) = L + 1 /\ q[L + 1] = p
        /\ \A j \in 1 .. L : q[j] = pairs[j]
        /\ \A j \in 1 .. L + 1 : j = L + 1 \/ j \in 1 .. L
        /\ \A j \in 1 .. L : j \in 1 .. L + 1
        /\ L + 1 \in 1 .. L + 1
    <3>1. /\ q \in Seq(Nat \X Nat) /\ Len(q) = Len(pairs) + 1 /\ q[Len(pairs) + 1] = p
          /\ \A j \in 1 .. Len(pairs) : q[j] = pairs[j]
      BY <1>1, <1>2
    <3>2. /\ \A j \in 1 .. L + 1 : j = L + 1 \/ j \in 1 .. L
          /\ \A j \in 1 .. L : j \in 1 .. L + 1
          /\ L + 1 \in 1 .. L + 1
      BY <1>2
    <3> QED
      BY <3>1, <3>2 DEF L
  <2>2. q = SkipEntry(pairs, e)
    BY <1>5, <1>7
  <2>3. \A j \in 1 .. L : pairs[j][1] # e.sid
    BY <1>2, <1>7
  <2>4. p[1] = e.sid
    BY DEF p
  <2> HIDE DEF q
  <2>5. ASSUME NEW j \in 1 .. L + 1
        PROVE  \E i \in 1 .. k : LastOrdered(es, i, k) /\ q[j] = <<es[i].sid, es[i].ssn>>
    <3>1. CASE j = L + 1
      BY <1>0, <1>4, <1>7, <2>1, <3>1 DEF p, e
    <3>2. CASE j \in 1 .. L
      <4>1. PICK i \in 1 .. k - 1 : LastOrdered(es, i, k - 1) /\ pairs[j] = <<es[i].sid, es[i].ssn>>
        BY <1>2, <3>2
      <4>2. pairs[j][1] = es[i].sid
        BY <4>1
      <4>3. i \in 1 .. k /\ LastOrdered(es, i, k)
        BY <1>3, <2>3, <3>2, <4>1, <4>2
      <4> QED
        BY <2>1, <3>2, <4>1, <4>3
    <3> QED
      BY <2>1, <3>1, <3>2
  <2>6. ASSUME NEW i \in 1 .. k, ~es[i].U PROVE \E j \in 1 .. L + 1 : q[j][1] = es[i].sid
    <3>1. CASE i = k
      BY <2>1, <2>4, <3>1 DEF e
    <3>2. CASE i \in 1 .. k - 1
      <4>1. PICK j \in 1 .. L : pairs[j][1] = es[i].sid
        BY <1>2, <2>6, <3>2
      <4> QED
        BY <2>1, <4>1
    <3> QED
      BY <1>0, <3>1, <3>2
  <2>7. ASSUME NEW i \in 1 .. L + 1, NEW j \in 1 .. L + 1, i # j PROVE q[i][1] # q[j][1]
    <3>1. CASE i = L + 1
      BY <2>1, <2>3, <2>4, <2>7, <3>1
    <3>2. CASE j = L + 1
      BY <2>1, <2>3, <2>4, <2>7, <3>2
    <3>3. CASE i \in 1 .. L /\ j \in 1 .. L
      BY <1>2, <2>1, <2>7, <3>3
    <3> QED
      BY <2>1, <3>1, <3>2, <3>3
  <2> QED
    BY <2>1, <2>2, <2>5, <2>6, <2>7 DEF Lists, e
<1>8. CASE ~e.U /\ at # {}
  <2> DEFINE x == Min(at)
             q == [pairs EXCEPT ![x] = p]
  <2>3. q = SkipEntry(pairs, e)
    <3> HIDE DEF at
    <3> QED
      BY <1>5, <1>8
  <2>1. x \in 1 .. L /\ pairs[x][1] = e.sid
    <3>1. at \in SUBSET Nat /\ at # {}
      BY <1>2, <1>8, SMTT(30)
    <3>2. x \in at
      <4> HIDE DEF at
      <4> QED
        BY <3>1, MinOf
    <3> HIDE DEF x
    <3> QED
      BY <1>2, <3>2
  <2> HIDE DEF x, at
  <2>2. /\ q \in Seq(Nat \X Nat) /\ Len(q) = L /\ q[x] = p
        /\ \A j \in 1 .. L : j # x => q[j] = pairs[j]
    <3>1. pairs \in [1 .. L -> Nat \X Nat]
      BY <1>2 DEF L
    <3>2. q \in [1 .. L -> Nat \X Nat]
      BY <1>1, <3>1
    <3>3. q[x] = p /\ \A j \in 1 .. L : j # x => q[j] = pairs[j]
      BY <2>1, <3>1
    <3>4. DOMAIN q = 1 .. L
      BY <3>2
    <3>5. q \in Seq(Nat \X Nat) /\ Len(q) = L
      BY <1>2, <3>2, <3>4
    <3> HIDE DEF q
    <3> QED
      BY <3>3, <3>5
  <2> HIDE DEF q
  <2>4. ASSUME NEW j \in 1 .. L PROVE q[j][1] = pairs[j][1]
    <3>1. p[1] = e.sid
      BY DEF p
    <3>2. CASE j = x
      BY <2>1, <2>2, <3>1, <3>2
    <3>3. CASE j # x
      BY <2>2, <3>3
    <3> QED
      BY <3>2, <3>3
  <2>5. ASSUME NEW j \in 1 .. L
        PROVE  \E i \in 1 .. k : LastOrdered(es, i, k) /\ q[j] = <<es[i].sid, es[i].ssn>>
    <3>1. CASE j = x
      BY <1>0, <1>4, <1>8, <2>2, <3>1 DEF p, e
    <3>2. CASE j # x
      <4>1. PICK i \in 1 .. k - 1 : LastOrdered(es, i, k - 1) /\ pairs[j] = <<es[i].sid, es[i].ssn>>
        BY <1>2
      <4>2. pairs[j][1] = es[i].sid
        BY <4>1
      <4>3. pairs[j][1] # pairs[x][1]
        BY <1>2, <2>1, <3>2
      <4>4. i \in 1 .. k /\ LastOrdered(es, i, k)
        BY <1>3, <2>1, <4>1, <4>2, <4>3
      <4> QED
        BY <2>2, <3>2, <4>1, <4>4
    <3> QED
      BY <3>1, <3>2
  <2>6. ASSUME NEW i \in 1 .. k, ~es[i].U PROVE \E j \in 1 .. L : q[j][1] = es[i].sid
    <3>1. CASE i = k
      BY <2>1, <2>4, <3>1 DEF e
    <3>2. CASE i \in 1 .. k - 1
      <4>1. PICK j \in 1 .. L : pairs[j][1] = es[i].sid
        BY <1>2, <2>6, <3>2
      <4> QED
        BY <2>4, <4>1
    <3> QED
      BY <1>0, <3>1, <3>2
  <2>7. ASSUME NEW i \in 1 .. L, NEW j \in 1 .. L, i # j PROVE q[i][1] # q[j][1]
    BY <1>2, <2>4, <2>7
  <2> QED
    BY <2>2, <2>3, <2>5, <2>6, <2>7 DEF Lists, e
<1> QED
  BY <1>6, <1>7, <1>8

\* The pairs that nsctp_forward_output lists.
LEMMA SkippedStreamsOK ==
  ASSUME NEW es \in Seq(SendEntry)
  PROVE  Lists(es, SkippedStreams(es), Len(es))
<1> DEFINE n == Len(es)
           P == [k \in 0 .. n |-> {pairs \in Seq(Nat \X Nat) : Lists(es, pairs, k)}]
<1>0. n \in Nat
  OBVIOUS
<1>1. \A k \in 0 .. n : P[k] = {pairs \in Seq(Nat \X Nat) : Lists(es, pairs, k)}
  OBVIOUS
<1>2. <<>> \in P[0]
  <2>1. <<>> \in Seq(Nat \X Nat) /\ Len(<<>>) = 0
    OBVIOUS
  <2>2. Lists(es, <<>>, 0)
    BY <2>1 DEF Lists
  <2> QED
    BY <1>0, <2>1, <2>2
<1> HIDE DEF P
<1>3. ASSUME NEW k \in 1 .. n, NEW r \in P[k - 1] PROVE SkipEntry(r, es[k]) \in P[k]
  <2>1. k - 1 \in 0 .. n /\ k \in 0 .. n
    BY <1>0
  <2>2. Lists(es, r, k - 1)
    BY <1>1, <1>3, <2>1
  <2>3. Lists(es, SkipEntry(r, es[k]), k)
    BY <2>2, SkipEntryOK
  <2> QED
    BY <1>1, <2>1, <2>3 DEF Lists
<1>4. SkipFold!Fold(<<>>, es) \in P[n]
  <2>1. \A k \in 1 .. Len(es) : \A r \in P[k - 1] : SkipEntry(r, es[k]) \in P[k]
    BY <1>3
  <2> QED
    BY <1>2, <2>1, SendWellOrdered, SkipFold!FoldInduction
<1>5. SkippedStreams(es) \in P[n]
  BY <1>4, SendFolds DEF SkippedStreams
<1>6. n \in 0 .. n
  BY <1>0
<1> QED
  BY <1>1, <1>5, <1>6
\* The entries es carry chunks of the messages h..m, in order and at least one of each.
Covers(es, h, m) ==
    /\ es \in Seq(SendEntry)
    /\ \A i \in 1 .. Len(es) :
         LET e == es[i]
         IN /\ e.msg \in h .. m /\ e.sid = Msgs[e.msg].sid /\ e.U = Msgs[e.msg].unordered
            /\ e.ssn = (IF Msgs[e.msg].unordered THEN 0 ELSE Ssn(e.msg))
    /\ \A i, j \in 1 .. Len(es) : i <= j => es[i].msg <= es[j].msg
    /\ \A y \in h .. m : \E i \in 1 .. Len(es) : es[i].msg = y

\* The last ordered entry of a stream is of the last ordered message of that stream.
LEMMA LastOrderedMessage ==
  ASSUME NEW h \in Messages, NEW m \in Messages, NEW es, Covers(es, h, m),
         NEW i \in 1 .. Len(es), LastOrdered(es, i, Len(es))
  PROVE  es[i].ssn = Ssn(LastSkipped(h, m, es[i].sid))
<1> DEFINE x == es[i].msg
           sid == es[i].sid
           S == {n \in h .. m : Msgs[n].sid = sid /\ ~Msgs[n].unordered}
<1>0. h \in Nat /\ m \in Nat /\ Len(es) \in Nat
  BY DEF Messages, Covers
<1>1. x \in h .. m /\ sid = Msgs[x].sid /\ ~Msgs[x].unordered /\ es[i].ssn = Ssn(x)
  <2>1. ~es[i].U
    BY DEF LastOrdered
  <2> QED
    BY <2>1 DEF Covers
<1>2. S \in SUBSET (0 .. m) /\ S # {} /\ x \in S
  BY <1>0, <1>1
<1>3. ASSUME NEW y \in S PROVE y <= x
  <2>1. y \in h .. m /\ Msgs[y].sid = sid /\ ~Msgs[y].unordered
    OBVIOUS
  <2>2. PICK j \in 1 .. Len(es) : es[j].msg = y
    BY <2>1 DEF Covers
  <2>3. es[j].sid = sid /\ ~es[j].U
    BY <2>1, <2>2 DEF Covers
  <2>4. j <= i
    <3>1. ~(i < j)
      BY <2>3 DEF LastOrdered
    <3> QED
      BY <1>0, <3>1
  <2> QED
    BY <2>2, <2>4 DEF Covers
<1> HIDE DEF S, x
<1>4. Max(S) \in S /\ \A y \in S : y <= Max(S)
  BY <1>0, <1>2, MaxOf
<1>5. Max(S) = x
  <2>1. Max(S) <= x /\ x <= Max(S)
    BY <1>2, <1>3, <1>4
  <2>2. Max(S) \in 0 .. m /\ x \in 0 .. m
    BY <1>2, <1>4
  <2>3. Max(S) \in Nat /\ x \in Nat
    BY <1>0, <2>2
  <2> QED
    BY <2>1, <2>3
<1>6. LastSkipped(h, m, sid) = Max(S)
  BY DEF LastSkipped, S
<1> QED
  BY <1>1, <1>5, <1>6

\* The pairs are those the receiver expects, each once.
LEMMA PairsOK ==
  ASSUME NEW h \in Messages, NEW m \in Messages, NEW es, Covers(es, h, m)
  PROVE  SkippedStreams(es) \in SetToSeqs(SkippedPairs(h, m))
<1> DEFINE q == SkippedStreams(es)
           L == Len(q)
           S == SkippedPairs(h, m)
<1>1. Lists(es, q, Len(es))
  BY SkippedStreamsOK DEF Covers
<1>2. /\ q \in Seq(Nat \X Nat)
      /\ \A j \in 1 .. L : \E i \in 1 .. Len(es) : /\ LastOrdered(es, i, Len(es))
                                                   /\ q[j] = <<es[i].sid, es[i].ssn>>
      /\ \A i \in 1 .. Len(es) : ~es[i].U => \E j \in 1 .. L : q[j][1] = es[i].sid
      /\ \A i, j \in 1 .. L : i # j => q[i][1] # q[j][1]
  BY <1>1 DEF Lists
<1> HIDE DEF q
<1>3. L \in Nat /\ DOMAIN q = 1 .. L /\ q = [j \in 1 .. L |-> q[j]]
  BY <1>2
<1>4. ASSUME NEW j \in 1 .. L
      PROVE  /\ q[j] \in S
             /\ q[j] = <<q[j][1], Ssn(LastSkipped(h, m, q[j][1]))>>
  <2>1. PICK i \in 1 .. Len(es) : LastOrdered(es, i, Len(es)) /\ q[j] = <<es[i].sid, es[i].ssn>>
    BY <1>2
  <2>2. es[i].ssn = Ssn(LastSkipped(h, m, es[i].sid))
    BY <2>1, LastOrderedMessage
  <2>3. ~es[i].U
    BY <2>1 DEF LastOrdered
  <2>4. es[i].msg \in h .. m /\ es[i].sid = Msgs[es[i].msg].sid /\ ~Msgs[es[i].msg].unordered
    BY <2>3 DEF Covers
  <2>5. q[j][1] = es[i].sid
    BY <2>1
  <2>6. q[j] = <<Msgs[es[i].msg].sid, Ssn(LastSkipped(h, m, Msgs[es[i].msg].sid))>>
    BY <2>1, <2>2, <2>4
  <2>7. q[j] \in S
    BY <2>4, <2>6 DEF SkippedPairs
  <2> QED
    BY <2>1, <2>2, <2>5, <2>7
<1>5. ASSUME NEW p \in S PROVE \E j \in 1 .. L : q[j] = p
  <2>1. PICK n \in h .. m :
           ~Msgs[n].unordered /\ p = <<Msgs[n].sid, Ssn(LastSkipped(h, m, Msgs[n].sid))>>
    BY DEF SkippedPairs
  <2>2. PICK i \in 1 .. Len(es) : es[i].msg = n
    BY DEF Covers
  <2>3. es[i].sid = Msgs[n].sid /\ ~es[i].U
    BY <2>1, <2>2 DEF Covers
  <2>4. PICK j \in 1 .. L : q[j][1] = es[i].sid
    BY <1>2, <2>3
  <2>5. q[j] = <<Msgs[n].sid, Ssn(LastSkipped(h, m, Msgs[n].sid))>>
    BY <1>4, <2>3, <2>4
  <2> QED
    BY <2>1, <2>5
<1>6. \A i, j \in 1 .. L : i # j => q[i] # q[j]
  BY <1>2
<1> HIDE DEF L, S
<1>7. Cardinality(S) = L
  <2>1. q \in [1 .. L -> S]
    BY <1>3, <1>4
  <2>2. q \in Bijection(1 .. L, S)
    BY <1>5, <1>6, <2>1 DEF Bijection, Injection, Surjection, IsInjective
  <2>3. ExistsBijection(1 .. L, S)
    BY <2>2 DEF ExistsBijection
  <2>4. IsFiniteSet(S)
    BY SkippedPairsType DEF S
  <2> QED
    BY <1>3, <2>3, <2>4, FS_CountingElements
<1>8. q \in [1 .. L -> S]
  BY <1>3, <1>4
<1> QED
  BY <1>6, <1>7, <1>8 DEF SetToSeqs, S, q

\* The abandoned prefix of the queue are the rest of its first messages.
LEMMA PrefixCovers ==
  ASSUME NEW s, NEW a, NEW w, Sending(s, a, w), NEW n \in 1 .. Len(s.queue)
  PROVE  LET h == s.queue[1].msg
             m == s.queue[n].msg
             es == SubSeq(s.queue, 1, n)
         IN /\ h \in Messages /\ m \in Messages /\ h <= m /\ Base[h] <= w
            /\ Covers(es, h, m)
            /\ Len(es) = n /\ \A i \in 1 .. n : es[i] = s.queue[i]
<1> DEFINE es == SubSeq(s.queue, 1, n)
           h == s.queue[1].msg
           m == s.queue[n].msg
<1>0. /\ NM \in Nat /\ NC \in Nat /\ w \in Nat /\ Len(s.queue) \in Nat
      /\ \A i \in 1 .. Len(s.queue) : /\ w + i \in 1 .. NC /\ s.queue[i].msg = Chunks[w + i].msg
                                      /\ s.queue[i].msg \in Messages
  BY SendingFacts, SMTT(30)
<1>1. n \in Nat /\ 1 \in 1 .. Len(s.queue) /\ \A i \in 1 .. n : i \in 1 .. Len(s.queue)
  BY <1>0
<1>2. s.queue \in Seq(SendEntry)
  BY SenderFields DEF Sending, Senders
<1>3. es \in Seq(SendEntry) /\ Len(es) = n /\ \A i \in 1 .. n : es[i] = s.queue[i]
  <2>1. /\ SubSeq(s.queue, 0 + 1, n) \in Seq(SendEntry)
        /\ Len(SubSeq(s.queue, 0 + 1, n)) = n - 0
        /\ \A p \in 1 .. n - 0 : SubSeq(s.queue, 0 + 1, n)[p] = s.queue[0 + p]
    <3>1. 0 \in Nat /\ n \in Nat /\ 0 <= n /\ n <= Len(s.queue)
      BY <1>0, <1>1
    <3> QED
      BY <1>2, <3>1, Slice
  <2>2. 0 + 1 = 1 /\ n - 0 = n /\ \A p \in 1 .. n : 0 + p = p
    BY <1>1
  <2> QED
    BY <2>1, <2>2
<1> HIDE DEF es
<1>4. ASSUME NEW i \in 1 .. n, NEW j \in 1 .. n, i <= j PROVE s.queue[i].msg <= s.queue[j].msg
  <2>1. w + i \in 1 .. NC /\ w + j \in 1 .. NC /\ w + i <= w + j
    BY <1>0, <1>1, <1>4
  <2>2. Chunks[w + i].msg <= Chunks[w + j].msg
    BY <2>1, MessageOrder
  <2> QED
    BY <1>0, <1>1, <2>2
<1>5. \A x \in Messages : x \in Nat
  BY DEF Messages
<1>6. /\ h \in Messages /\ m \in Messages /\ h \in Nat /\ m \in Nat /\ h <= m
      /\ \A i \in 1 .. n : s.queue[i].msg \in h .. m
  <2>1. h \in Messages /\ m \in Messages /\ 1 \in 1 .. n /\ n \in 1 .. n
    BY <1>0, <1>1
  <2>2. \A i \in 1 .. n : 1 <= i /\ i <= n
    BY <1>1
  <2>3. \A i \in 1 .. n : h <= s.queue[i].msg /\ s.queue[i].msg <= m /\ s.queue[i].msg \in Messages
    BY <1>0, <1>1, <1>4, <2>1, <2>2
  <2> QED
    BY <1>5, <2>1, <2>3
<1>7. /\ Base[h] < w + 1 /\ w + 1 <= Base[h + 1] /\ Base[m] < w + n /\ w + n <= Base[m + 1]
      /\ Base[h] \in Nat /\ Base[m] \in Nat
  <2>1. w + 1 \in 1 .. NC /\ w + n \in 1 .. NC /\ h = Chunks[w + 1].msg /\ m = Chunks[w + n].msg
    BY <1>0, <1>1
  <2> HIDE DEF h, m
  <2>2. Base[h] < w + 1 /\ w + 1 <= Base[h + 1]
    BY <2>1, MessageOf
  <2>3. Base[m] < w + n /\ w + n <= Base[m + 1]
    BY <2>1, MessageOf
  <2> QED
    BY <1>6, <2>2, <2>3, BaseFacts
<1>8. ASSUME NEW i \in 1 .. n
      PROVE  LET e == es[i]
             IN /\ e.msg \in h .. m /\ e.sid = Msgs[e.msg].sid /\ e.U = Msgs[e.msg].unordered
                /\ e.ssn = (IF Msgs[e.msg].unordered THEN 0 ELSE Ssn(e.msg))
  <2>1. es[i] = s.queue[i] /\ Bears(s.queue[i], w + i, s.send_buf) /\ w + i \in 1 .. NC
    BY <1>0, <1>1, <1>3 DEF Sending
  <2>2. LET x == Chunks[w + i].msg
        IN /\ Chunks[w + i].U = Msgs[x].unordered /\ Chunks[w + i].sid = Msgs[x].sid
           /\ Chunks[w + i].ssn = (IF Msgs[x].unordered THEN 0 ELSE Ssn(x))
    BY <2>1, MessageOf
  <2>3. s.queue[i].msg \in h .. m
    BY <1>6
  <2> HIDE DEF h, m
  <2> QED
    BY <2>1, <2>2, <2>3 DEF Bears
<1>9. ASSUME NEW y \in h .. m PROVE \E i \in 1 .. n : s.queue[i].msg = y
  <2>0. y \in Nat /\ h <= y /\ y <= m
    BY <1>6
  <2>1. CASE y = h
    <3>1. 1 \in 1 .. n
      BY <1>1
    <3> QED
      BY <2>1, <3>1
  <2>2. CASE y # h
    <3> DEFINE k == Base[y] + 1
    <3>1. /\ y \in Messages /\ h + 1 \in 1 .. NM + 1 /\ y \in 1 .. NM + 1 /\ h + 1 <= y
          /\ m \in 1 .. NM + 1
      <4>1. Messages = 1 .. NM
        BY BaseFacts
      <4> HIDE DEF h, m
      <4> QED
        BY <1>0, <1>6, <2>0, <2>2, <4>1
    <3>2. Base[h + 1] <= Base[y] /\ Base[h + 1] \in 0 .. NC
      BY <3>1, BaseGrows
    <3>3. Base[y] <= Base[m] /\ Base[y] \in 0 .. NC
      BY <2>0, <3>1, BaseGrows
    <3> HIDE DEF h, m
    <3>4. k - w \in 1 .. n /\ w + (k - w) = k /\ k \in Nat /\ Base[y] < k
      <4>1. ASSUME NEW b0 \in Nat, NEW b1 \in Nat, NEW b2 \in Nat, NEW p \in Nat, NEW c \in Nat,
                   p + 1 <= b0, b0 <= b1, b1 <= b2, b2 < p + c
            PROVE  /\ (b1 + 1) - p \in 1 .. c /\ p + ((b1 + 1) - p) = b1 + 1 /\ b1 + 1 \in Nat
                   /\ b1 < b1 + 1
        BY <4>1
      <4>2. w \in Nat /\ n \in Nat /\ NC \in Nat
        BY <1>0, <1>1
      <4>3. Base[h + 1] \in Nat /\ Base[y] \in Nat /\ Base[m] \in Nat
        BY <1>7, <3>2, <3>3, <4>2
      <4>4. w + 1 <= Base[h + 1] /\ Base[h + 1] <= Base[y] /\ Base[y] <= Base[m] /\ Base[m] < w + n
        BY <1>7, <3>2, <3>3
      <4> QED
        BY <4>1, <4>2, <4>3, <4>4
    <3>5. k <= Base[y + 1]
      <4>1. Base[y] < Base[y + 1] /\ Base[y + 1] \in 0 .. NC
        BY <3>1, BaseFacts
      <4> QED
        BY <1>0, <3>3, <4>1
    <3> HIDE DEF k
    <3>6. Chunks[k].msg = y
      BY <3>1, <3>4, <3>5, ChunkBetween
    <3>7. s.queue[k - w].msg = Chunks[w + (k - w)].msg
      BY <1>0, <1>1, <3>4
    <3> QED
      BY <3>4, <3>6, <3>7
  <2> QED
    BY <2>1, <2>2
<1>10. Base[h] <= w
  <2> HIDE DEF h
  <2> QED
    BY <1>0, <1>7
<1> HIDE DEF h, m
<1>11. Covers(es, h, m)
  <2>1. \A i, j \in 1 .. n : i <= j => es[i].msg <= es[j].msg
    BY <1>3, <1>4
  <2>2. \A y \in h .. m : \E i \in 1 .. n : es[i].msg = y
    BY <1>3, <1>9
  <2> QED
    BY <1>3, <1>8, <2>1, <2>2 DEF Covers
<1> QED
  BY <1>3, <1>6, <1>10, <1>11 DEF es, h, m
-----------------------------------------------------------------------------
(* The packets.                                                             *)

\* The messages s has abandoned.
AbandonedOf(s) == {s.queue[i].msg : i \in {j \in DOMAIN s.queue : s.queue[j].abandoned}}

\* What a packet in the network says while the receiver's cumulative TSN is that of chunk c
\* and the messages g are given up.
SackSays(p, c) == \E j \in 0 .. c : p.cum = TsnOf(j)
DataSays(p) == \E k \in 1 .. NC : p.tsn = TsnOf(k) /\ p.chunk = Chunks[k]
ForwardSays(p, c, g) ==
    \E h, m \in Messages : /\ h <= m /\ h .. m \subseteq g /\ Base[h] <= c
                           /\ p.tsn = TsnOf(LastChunk(m))
                           /\ p.pairs \in SetToSeqs(SkippedPairs(h, m))
Says(p, c, g) ==
    /\ p.type = "sack" => SackSays(p, c)
    /\ p.type = "data" => DataSays(p)
    /\ p.type = "forward" => ForwardSays(p, c, g)

\* What a packet says stays true.
LEMMA SaysStays ==
  ASSUME NEW p, NEW c \in 0 .. NC, NEW d \in 0 .. NC, NEW g, NEW r, Says(p, c, g), c <= d,
         g \subseteq r
  PROVE  Says(p, d, r)
<1>0. c \in Nat /\ d \in Nat
  BY ChunkCount
<1>1. ASSUME SackSays(p, c) PROVE SackSays(p, d)
  <2>1. PICK j \in 0 .. c : p.cum = TsnOf(j)
    BY <1>1 DEF SackSays
  <2>2. j \in 0 .. d
    BY <1>0
  <2> QED
    BY <2>1, <2>2 DEF SackSays
<1>2. ASSUME ForwardSays(p, c, g) PROVE ForwardSays(p, d, r)
  <2>1. PICK h \in Messages, m \in Messages :
           /\ h <= m /\ h .. m \subseteq g /\ Base[h] <= c /\ p.tsn = TsnOf(LastChunk(m))
           /\ p.pairs \in SetToSeqs(SkippedPairs(h, m))
    BY <1>2 DEF ForwardSays
  <2>2. h .. m \subseteq r
    BY <2>1
  <2>3. Base[h] \in Nat
    BY BaseFacts
  <2>4. Base[h] <= d
    BY <1>0, <2>1, <2>3
  <2> QED
    BY <2>1, <2>2, <2>4 DEF ForwardSays
<1> QED
  BY <1>1, <1>2 DEF Says

\* The abandoned prefix of the queue ends with the last chunk of a message.
LEMMA PrefixEnds ==
  ASSUME NEW s, NEW a, NEW w, Sending(s, a, w), AbandonedPrefix(s) > 0
  PROVE  LET n == AbandonedPrefix(s)
             m == s.queue[n].msg
         IN /\ n \in 1 .. Len(s.queue) /\ m \in Messages
            /\ w + n = LastChunk(m) /\ s.queue[n].tsn = TsnOf(LastChunk(m))
<1> DEFINE n == AbandonedPrefix(s)
           m == s.queue[n].msg
           N == Len(s.queue)
<1>0. /\ NM \in Nat /\ NC \in Nat /\ a + 1 \in 1 .. NM + 1 /\ a \in Nat /\ w \in Nat /\ N \in Nat
      /\ Base[a + 1] \in 0 .. NC
      /\ \A i \in 1 .. N : /\ w + i \in 1 .. NC /\ s.queue[i].msg = Chunks[w + i].msg
                           /\ s.queue[i].tsn = TsnOf(w + i)
                           /\ s.queue[i].msg \in Messages /\ s.queue[i].msg <= a
  BY SendingFacts, SMTT(30)
<1>1. s \in Sender /\ N = Base[a + 1] - w
  BY DEF Sending, Senders
<1>2. n \in 0 .. N /\ (\A i \in 1 .. n : s.queue[i].abandoned)
      /\ (n < N => ~s.queue[n + 1].abandoned)
  BY <1>1, PrefixFacts
<1>3. n > 0
  OBVIOUS
<1> HIDE DEF n
<1>4. n \in 1 .. N /\ n \in 1 .. n /\ n \in Nat
  BY <1>0, <1>2, <1>3
<1>5. w + n \in 1 .. NC /\ m = Chunks[w + n].msg /\ s.queue[n].tsn = TsnOf(w + n) /\ m \in Messages
      /\ m <= a
  BY <1>0, <1>4
<1> HIDE DEF m
<1>6. Base[m] < w + n /\ w + n <= Base[m + 1]
  BY <1>5, MessageOf
<1>7. Base[m] \in Nat /\ Base[m + 1] \in 0 .. NC /\ m \in Nat /\ m + 1 \in 1 .. NM + 1
  <2>1. Base[m] \in Nat /\ Base[m + 1] \in 0 .. NC /\ m \in 1 .. NM
    BY <1>5, BaseFacts
  <2>2. NM \in Nat
    BY <1>0
  <2>3. m \in Nat /\ m + 1 \in 1 .. NM + 1
    BY <2>1, <2>2
  <2> QED
    BY <2>1, <2>3
<1>8. Base[m + 1] <= Base[a + 1]
  <2>1. m + 1 <= a + 1
    BY <1>0, <1>5, <1>7, SMTT(30)
  <2> QED
    BY <1>0, <1>7, <2>1, BaseGrows
<1>9. ASSUME w + n # Base[m + 1] PROVE FALSE
  <2>1. /\ Base[m] < w + (n + 1) /\ w + (n + 1) <= Base[m + 1] /\ w + (n + 1) \in Nat
        /\ n < N /\ n + 1 \in 1 .. N
    <3>1. ASSUME NEW b \in Nat, NEW x \in Nat, NEW y \in Nat, NEW p \in Nat, NEW q \in Nat,
                 NEW z \in Nat, b < p + q, p + q <= x, p + q # x, x <= y, z = y - p
          PROVE  /\ b < p + (q + 1) /\ p + (q + 1) <= x /\ p + (q + 1) \in Nat
                 /\ q < z /\ q + 1 \in 1 .. z
      BY <3>1
    <3>2. Base[m + 1] \in Nat /\ Base[a + 1] \in Nat
      BY <1>0, <1>7
    <3> HIDE DEF N
    <3> QED
      BY <1>0, <1>1, <1>4, <1>6, <1>7, <1>8, <1>9, <3>1, <3>2
  <2>2. Chunks[w + (n + 1)].msg = m
    BY <1>5, <2>1, ChunkBetween
  <2>3. s.queue[n + 1].msg = s.queue[n].msg
    BY <1>0, <2>1, <2>2 DEF m
  <2>4. s.queue[n + 1].abandoned = s.queue[n].abandoned
    <3>1. \A i, j \in 1 .. N : s.queue[i].msg = s.queue[j].msg =>
             s.queue[i].abandoned = s.queue[j].abandoned
      BY DEF Sending, Senders, Abandons
    <3> QED
      BY <1>4, <2>1, <2>3, <3>1
  <2>5. s.queue[n].abandoned /\ ~s.queue[n + 1].abandoned
    BY <1>2, <1>4, <2>1
  <2> QED
    BY <2>4, <2>5
<1>10. LastChunk(m) = w + n
  BY <1>5, <1>9, FirstLast
<1> QED
  BY <1>4, <1>5, <1>10 DEF n, m

\* A FORWARD-TSN skips abandoned messages only, and nothing before them is unacknowledged.
LEMMA ForwardTsnSays ==
  ASSUME NEW s, NEW a, NEW w, Sending(s, a, w), ForwardsNow(s), NEW c \in Nat, w <= c,
         NEW g, AbandonedOf(s) \subseteq g
  PROVE  Says(ForwardTsn(s), c, g)
<1> DEFINE n == AbandonedPrefix(s)
           h == s.queue[1].msg
           m == s.queue[n].msg
           es == SubSeq(s.queue, 1, n)
           p == ForwardTsn(s)
<1>1. n > 0
  BY DEF ForwardsNow
<1>2. n \in 1 .. Len(s.queue) /\ s.queue[n].tsn = TsnOf(LastChunk(m))
  BY <1>1, PrefixEnds
<1>3. s \in Sender /\ Len(s.queue) \in Nat /\ DOMAIN s.queue = 1 .. Len(s.queue)
  BY SenderFields DEF Sending, Senders
<1>4. \A i \in 1 .. n : s.queue[i].abandoned /\ i \in DOMAIN s.queue
  <2>1. n \in 0 .. Len(s.queue) /\ \A i \in 1 .. n : s.queue[i].abandoned
    BY <1>3, PrefixFacts
  <2> HIDE DEF n
  <2> QED
    BY <1>3, <2>1
<1>5. p.type = "forward" /\ p.tsn = s.queue[n].tsn /\ p.pairs = SkippedStreams(es)
  BY DEF ForwardTsn
<1> HIDE DEF n, p
<1>6. /\ h \in Messages /\ m \in Messages /\ h <= m /\ Base[h] <= w
      /\ Covers(es, h, m)
      /\ Len(es) = n /\ \A i \in 1 .. n : es[i] = s.queue[i]
  BY <1>2, PrefixCovers
<1> HIDE DEF h, m, es
<1>7. SkippedStreams(es) \in SetToSeqs(SkippedPairs(h, m))
  BY <1>6, PairsOK
<1>8. ASSUME NEW y \in h .. m PROVE y \in g
  <2>1. PICK i \in 1 .. n : es[i].msg = y
    BY <1>6 DEF Covers
  <2>2. s.queue[i].msg = y /\ i \in {j \in DOMAIN s.queue : s.queue[j].abandoned}
    BY <1>4, <1>6, <2>1
  <2> QED
    BY <2>2 DEF AbandonedOf
<1>9. Base[h] <= c
  <2>1. Base[h] \in Nat /\ w \in Nat
    BY <1>6, BaseFacts, SendingFacts
  <2> QED
    BY <1>6, <2>1
<1>10. ForwardSays(p, c, g)
  BY <1>2, <1>5, <1>6, <1>7, <1>8, <1>9 DEF ForwardSays, m
<1> QED
  BY <1>5, <1>10 DEF Says, p

\* A DATA packet carries a chunk of the peer.
LEMMA DataPacketSays ==
  ASSUME NEW s, NEW a, NEW w, Sending(s, a, w), NEW i \in 1 .. Len(s.queue), NEW c, NEW g
  PROVE  Says(DataPacket(s, s.queue[i]), c, g)
<1> DEFINE e == s.queue[i]
           k == w + i
           n == Size(k)
           b == SubSeq(s.send_buf, e.off + 1, e.off + e.len)
           ch == [msg |-> e.msg, sid |-> e.sid, ssn |-> e.ssn, B |-> e.B, E |-> e.E,
                  U |-> e.U, payload |-> b]
           p == DataPacket(s, e)
<1>1. k \in 1 .. NC
  BY SendingFacts
<1>2. Bears(e, k, s.send_buf)
  BY DEF Sending
<1>3. e \in SendEntry /\ s.send_buf \in Seq(Byte)
  BY SenderFields DEF Sending, Senders
<1>4. e.off \in Nat /\ e.len \in Nat /\ Len(s.send_buf) \in Nat
  BY <1>3 DEF SendEntry
<1>5. p.type = "data" /\ p.tsn = e.tsn /\ p.chunk = ch
  BY DEF DataPacket
<1>6. Chunks[k] \in Chunk /\ e.tsn = TsnOf(k)
  BY <1>1, <1>2, ChunkCount DEF Bears
<1> HIDE DEF p, e, k
<1>7. n = e.len /\ e.off + e.len <= Len(s.send_buf)
      /\ \A q \in 1 .. n : s.send_buf[e.off + q] = Chunks[k].payload[q]
  BY <1>2 DEF Bears
<1>8. b = Chunks[k].payload
  <2>1. e.off + e.len \in Nat /\ e.off <= e.off + e.len /\ (e.off + e.len) - e.off = e.len
    BY <1>4
  <2>2. /\ b \in Seq(Byte) /\ Len(b) = e.len
        /\ \A q \in 1 .. e.len : b[q] = s.send_buf[e.off + q]
    <3> DEFINE x == e.off
               y == e.off + e.len
               buf == s.send_buf
    <3>1. x \in Nat /\ y \in Nat /\ x <= y /\ y <= Len(buf) /\ buf \in Seq(Byte)
      BY <1>3, <1>4, <1>7, <2>1
    <3>2. b = SubSeq(buf, x + 1, y) /\ y - x = e.len
      BY <2>1
    <3> HIDE DEF b, x, y, buf
    <3>3. SubSeq(buf, x + 1, y) \in Seq(Byte) /\ Len(SubSeq(buf, x + 1, y)) = y - x
          /\ \A q \in 1 .. y - x : SubSeq(buf, x + 1, y)[q] = buf[x + q]
      BY <3>1, Slice
    <3> QED
      BY <3>2, <3>3 DEF x, buf
  <2>3. Chunks[k].payload \in Seq(Byte) /\ Len(Chunks[k].payload) = n
    BY <1>6 DEF Chunk, Size
  <2> HIDE DEF b, n
  <2>4. b = [q \in 1 .. e.len |-> b[q]]
    BY <2>2
  <2>5. Chunks[k].payload = [q \in 1 .. e.len |-> Chunks[k].payload[q]]
    BY <1>7, <2>3
  <2>6. \A q \in 1 .. e.len : b[q] = Chunks[k].payload[q]
    BY <1>7, <2>2
  <2> QED
    BY <2>4, <2>5, <2>6
<1> HIDE DEF b
<1>9. ch = Chunks[k]
  <2>1. /\ e.msg = Chunks[k].msg /\ e.sid = Chunks[k].sid /\ e.ssn = Chunks[k].ssn
        /\ e.B = Chunks[k].B /\ e.E = Chunks[k].E /\ e.U = Chunks[k].U
    BY <1>2 DEF Bears
  <2> DEFINE x == Chunks[k]
  <2>2. x = [msg |-> x.msg, sid |-> x.sid, ssn |-> x.ssn, B |-> x.B, E |-> x.E, U |-> x.U,
             payload |-> x.payload]
    <3>1. x \in [msg : Nat, sid : Nat, ssn : Nat, B : BOOLEAN, E : BOOLEAN, U : BOOLEAN,
                 payload : Seq(Byte)]
      BY <1>6 DEF Chunk
    <3> HIDE DEF x
    <3> QED
      BY <3>1
  <2> QED
    BY <1>8, <2>1, <2>2
<1>10. DataSays(p)
  BY <1>1, <1>5, <1>6, <1>9 DEF DataSays
<1> QED
  BY <1>5, <1>10 DEF Says, p, e
-----------------------------------------------------------------------------
(* The steps of the link.                                                   *)

SackPacket == [type : {"sack"}, cum : 0 .. TSN_MOD - 1, gaps : SUBSET Nat]

\* The receiver has passed chunk c and the sender has dropped the first w chunks, no more;
\* whatever is under way says what is true.
Linked(w, c) ==
    /\ Tracked(rx, c) /\ Sending(snd, accepted, w) /\ w <= c
    /\ AbandonedOf(snd) \subseteq gone
    /\ \A p \in net : Says(p, c, gone)
    /\ rcv_out \in Seq(SackPacket) /\ \A i \in 1 .. Len(rcv_out) : SackSays(rcv_out[i], c)

LinkInv == IntactInv /\ \E w, c : Linked(w, c)

\* What a sender newly gives up may be given up.
LEMMA GivenUpOK ==
  ASSUME NEW t \in Senders, SetSnd(t), UNCHANGED <<rx, out_count, delivered>>
  PROVE  [Next]_vars /\ gone \subseteq gone' /\ AbandonedOf(t) \subseteq gone'
<1> DEFINE given == AbandonedOf(t) \ gone
<1>1. gone' = gone \cup AbandonedOf(t)
  BY DEF SetSnd, GivenUp, AbandonedOf
<1>2. ASSUME NEW x \in AbandonedOf(t) PROVE x \in Abandonable /\ x \in Messages
  <2>1. t \in Sender /\ DOMAIN t.queue = 1 .. Len(t.queue)
    BY SenderFields DEF Senders
  <2>2. PICK i \in 1 .. Len(t.queue) : t.queue[i].abandoned /\ x = t.queue[i].msg
    BY <2>1 DEF AbandonedOf
  <2>3. t.queue[i].max_retransmits = Retries[x] /\ t.queue[i].max_retransmits >= 0
    BY <2>2 DEF Senders, Abandons
  <2>4. x \in Messages
    <3>1. t.queue[i] \in SendEntry
      BY <2>1, SenderFields
    <3> QED
      BY <2>2, <3>1 DEF SendEntry
  <2> QED
    BY <2>3, <2>4, SendConstants
<1>3. given \in SUBSET Messages /\ given \subseteq Abandonable \ gone /\ gone' = gone \cup given
  BY <1>1, <1>2
<1>4. [Next]_vars
  <2>1. CASE given = {}
    <3>1. gone' = gone
      BY <1>3, <2>1
    <3> QED
      BY <3>1 DEF vars
  <2>2. CASE given # {}
    <3> HIDE DEF given
    <3>1. PeerAbandon(given)
      BY <1>3, <2>2 DEF PeerAbandon
    <3> QED
      BY <1>3, <3>1 DEF Next
  <2> QED
    BY <2>1, <2>2
<1> QED
  BY <1>1, <1>4

\* A step of the sender.
LEMMA SenderStep ==
  ASSUME NEW w, NEW c, Linked(w, c), NEW t, NEW a, NEW v, Sending(t, a, v), v <= c,
         SetSnd(t), accepted' = a, UNCHANGED <<rx, out_count, delivered, rcv_out>>,
         \A p \in net' : p \in net \/ Says(p, c, gone')
  PROVE  [Next]_vars /\ \E x, d : Linked(x, d)'
<1>1. t \in Senders
  BY DEF Sending
<1>2. [Next]_vars /\ gone \subseteq gone' /\ AbandonedOf(t) \subseteq gone'
  BY <1>1, GivenUpOK
<1>3. snd' = t /\ rx' = rx /\ rcv_out' = rcv_out
  BY DEF SetSnd
<1>4. /\ Tracked(rx, c) /\ rcv_out \in Seq(SackPacket)
      /\ \A i \in 1 .. Len(rcv_out) : SackSays(rcv_out[i], c)
      /\ \A p \in net : Says(p, c, gone)
  BY DEF Linked
<1>5. c \in 0 .. NC /\ c <= c
  BY <1>4, ChunkCount DEF Tracked
<1>6. \A p \in net' : Says(p, c, gone')
  BY <1>2, <1>4, <1>5, SaysStays
<1>7. Linked(v, c)'
  BY <1>2, <1>3, <1>4, <1>6 DEF Linked
<1> QED
  BY <1>2, <1>7

\* A step of the receiver or the network.
LEMMA ReceiverStep ==
  ASSUME IntactInv, NEW w, NEW c, Linked(w, c), [Next]_vars,
         UNCHANGED <<snd, accepted, gone>>,
         \/ rcv_out' = rcv_out
         \/ rcv_out' = Append(rcv_out, Sack(rx'))
         \/ rcv_out # <<>> /\ rcv_out' = Tail(rcv_out),
         \/ net' = net
         \/ net' = net \cup {Sack(rx)}
         \/ rcv_out # <<>> /\ net' = net \cup {Head(rcv_out)}
  PROVE  \E x, d : Linked(x, d)'
<1>1. PICK b \in 0 .. NC, d \in 0 .. NC : Tracked(rx, b) /\ Tracked(rx', d) /\ b <= d
  BY StepAhead DEF Ahead
<1>2. /\ Tracked(rx, c) /\ rcv_out \in Seq(SackPacket) /\ Sending(snd, accepted, w) /\ w <= c
      /\ \A i \in 1 .. Len(rcv_out) : SackSays(rcv_out[i], c)
      /\ \A p \in net : Says(p, c, gone)
      /\ AbandonedOf(snd) \subseteq gone
  BY DEF Linked
<1>3. b = c
  BY <1>1, <1>2, TrackedOnce
<1>4. c \in 0 .. NC /\ c <= d /\ c \in Nat /\ d \in Nat /\ w \in Nat
  BY <1>1, <1>2, <1>3, ChunkCount, SendingFacts
<1>5. w <= d
  BY <1>2, <1>4
<1>6. \A p : SackSays(p, c) => SackSays(p, d)
  <2>1. \A j \in 0 .. c : j \in 0 .. d
    BY <1>4
  <2> QED
    BY <2>1 DEF SackSays
<1>7. ASSUME NEW s, NEW k \in 0 .. NC, Tracked(s, k), s.cumulative_tsn \in 0 .. TSN_MOD - 1
      PROVE  Sack(s) \in SackPacket /\ SackSays(Sack(s), k) /\ Sack(s).type = "sack"
  <2>1. Sack(s).type = "sack" /\ Sack(s).cum = s.cumulative_tsn
    BY DEF Sack
  <2>2. Sack(s) \in SackPacket
    BY <1>7 DEF Sack, SackPacket
  <2>3. k \in 0 .. k
    BY ChunkCount
  <2>4. SackSays(Sack(s), k)
    BY <1>7, <2>1, <2>3 DEF SackSays, Tracked
  <2> QED
    BY <2>1, <2>2, <2>4
<1>8. rx.cumulative_tsn \in 0 .. TSN_MOD - 1 /\ rx'.cumulative_tsn \in 0 .. TSN_MOD - 1
  <2>1. IntactInv'
    BY IntactStep
  <2>2. rx \in State
    BY DEF IntactInv, Inv, RxStates
  <2>3. rx' \in State
    BY <2>1 DEF IntactInv, Inv, RxStates
  <2> QED
    BY <2>2, <2>3 DEF State
<1>9. rcv_out' \in Seq(SackPacket) /\ \A i \in 1 .. Len(rcv_out') : SackSays(rcv_out'[i], d)
  <2>1. CASE rcv_out' = rcv_out
    BY <1>2, <1>6, <2>1
  <2>2. CASE rcv_out' = Append(rcv_out, Sack(rx'))
    <3>1. Sack(rx') \in SackPacket /\ SackSays(Sack(rx'), d)
      BY <1>1, <1>7, <1>8
    <3> DEFINE k == Sack(rx')
               q == rcv_out
    <3> HIDE DEF k
    <3>2. /\ Append(q, k) \in Seq(SackPacket) /\ Len(Append(q, k)) = Len(q) + 1 /\ Len(q) \in Nat
          /\ \A i \in 1 .. Len(q) : Append(q, k)[i] = q[i]
          /\ Append(q, k)[Len(q) + 1] = k
      BY <1>2, <3>1 DEF k
    <3>3. \A i \in 1 .. Len(q) + 1 : i \in 1 .. Len(q) \/ i = Len(q) + 1
      BY <3>2
    <3>4. \A i \in 1 .. Len(q) : SackSays(q[i], d)
      BY <1>2, <1>6
    <3>5. SackSays(k, d) /\ rcv_out' = Append(q, k)
      BY <2>2, <3>1 DEF k
    <3> HIDE DEF q
    <3> QED
      BY <3>2, <3>3, <3>4, <3>5
  <2>3. CASE rcv_out # <<>> /\ rcv_out' = Tail(rcv_out)
    <3> DEFINE q == rcv_out
    <3>1. /\ Tail(q) \in Seq(SackPacket) /\ Len(Tail(q)) = Len(q) - 1 /\ Len(q) \in Nat
          /\ \A i \in 1 .. Len(q) - 1 : Tail(q)[i] = q[i + 1]
      BY <1>2, <2>3
    <3>2. \A i \in 1 .. Len(q) - 1 : i + 1 \in 1 .. Len(q)
      BY <3>1
    <3>3. \A i \in 1 .. Len(q) : SackSays(q[i], d)
      BY <1>2, <1>6
    <3>4. rcv_out' = Tail(q)
      BY <2>3
    <3> HIDE DEF q
    <3> QED
      BY <3>1, <3>2, <3>3, <3>4
  <2> QED
    BY <2>1, <2>2, <2>3
<1>10. \A p \in net' : Says(p, d, gone)
  <2>1. \A p \in net : Says(p, d, gone)
    BY <1>2, <1>4, SaysStays
  <2>2. ASSUME NEW p, p.type = "sack", SackSays(p, c) PROVE Says(p, d, gone)
    BY <1>6, <2>2 DEF Says
  <2>3. Says(Sack(rx), d, gone)
    BY <1>2, <1>4, <1>7, <1>8, <2>2
  <2>4. rcv_out # <<>> => Says(Head(rcv_out), d, gone)
    <3> SUFFICES ASSUME rcv_out # <<>> PROVE Says(Head(rcv_out), d, gone)
      OBVIOUS
    <3>1. Head(rcv_out) = rcv_out[1] /\ 1 \in 1 .. Len(rcv_out) /\ rcv_out[1] \in SackPacket
      BY <1>2
    <3>2. rcv_out[1].type = "sack"
      BY <3>1 DEF SackPacket
    <3> QED
      BY <1>2, <2>2, <3>1, <3>2
  <2> QED
    BY <2>1, <2>3, <2>4
<1>11. snd' = snd /\ accepted' = accepted /\ gone' = gone
  OBVIOUS
<1>12. Linked(w, d)'
  BY <1>1, <1>2, <1>5, <1>9, <1>10, <1>11 DEF Linked
<1> QED
  BY <1>12
\* Every action of the link keeps it linked, and is a step of SctpRecv or changes nothing
\* there.
LEMMA LinkStep == LinkInv /\ [LinkNext]_linkVars => LinkInv' /\ [Next]_vars
<1> SUFFICES ASSUME LinkInv, [LinkNext]_linkVars PROVE LinkInv' /\ [Next]_vars
  OBVIOUS
<1>0. PICK w, c : Linked(w, c)
  BY DEF LinkInv
<1>1. IntactInv
  BY DEF LinkInv
<1>2. /\ Sending(snd, accepted, w) /\ w <= c /\ c \in 0 .. NC /\ c \in Nat /\ w \in Nat
      /\ snd \in Senders /\ AbandonedOf(snd) \subseteq gone
      /\ rx.cumulative_tsn = TsnOf(c)
  <2>1. /\ Sending(snd, accepted, w) /\ w <= c /\ Tracked(rx, c) /\ AbandonedOf(snd) \subseteq gone
    BY <1>0 DEF Linked
  <2> QED
    BY <2>1, ChunkCount, SendingFacts DEF Tracked, Sending
<1>3. ASSUME [Next]_vars, \E x, d : Linked(x, d)'
      PROVE  LinkInv' /\ [Next]_vars
  BY <1>1, <1>3, IntactStep DEF LinkInv
<1>4. CASE AppSend
  <2> DEFINE t == nsctp_send_options(snd, accepted + 1)
  <2>1. Accepts(snd, accepted, w, accepted + 1)
    BY <1>2, <1>4 DEF AppSend, Accepts, NM
  <2>2. Sending(t, accepted + 1, w)
    BY <2>1, SendOptionsOK
  <2>3. SetSnd(t) /\ accepted' = accepted + 1 /\ UNCHANGED <<rx, out_count, delivered, rcv_out>>
        /\ net' = net
    BY <1>4 DEF AppSend
  <2> HIDE DEF t
  <2>4. [Next]_vars /\ \E x, d : Linked(x, d)'
    BY <1>0, <1>2, <2>2, <2>3, SenderStep
  <2> QED
    BY <1>3, <2>4
<1>5. CASE PollSender
  <2>1. accepted' = accepted /\ UNCHANGED <<rx, out_count, delivered, rcv_out>>
    BY <1>5 DEF PollSender
  <2>2. CASE ForwardsNow(snd) /\ Transmit(ForwardTsn(snd)) /\ SetSnd(AfterForward(snd))
    <3>1. Sending(AfterForward(snd), accepted, w)
      BY <1>2, PollOK, SendingKeeps
    <3>2. gone \subseteq gone'
      BY <2>2 DEF SetSnd, GivenUp
    <3>3. AbandonedOf(snd) \subseteq gone'
      BY <1>2, <3>2
    <3>4. Says(ForwardTsn(snd), c, gone')
      BY <1>2, <2>2, <3>3, ForwardTsnSays
    <3>5. \A p \in net' : p \in net \/ Says(p, c, gone')
      BY <2>2, <3>4 DEF Transmit
    <3>6. SetSnd(AfterForward(snd))
      BY <2>2
    <3>7. [Next]_vars /\ \E x, d : Linked(x, d)'
      BY <1>0, <1>2, <2>1, <3>1, <3>5, <3>6, SenderStep
    <3> QED
      BY <1>3, <3>7
  <2>3. CASE /\ SendsData(snd)
             /\ LET i == Min(Sendable(snd))
                IN Transmit(DataPacket(snd, snd.queue[i])) /\ SetSnd(AfterData(snd, i))
    <3> DEFINE i == Min(Sendable(snd))
    <3>1. i \in 1 .. Len(snd.queue)
      <4>1. DOMAIN snd.queue = 1 .. Len(snd.queue) /\ Len(snd.queue) \in Nat
        BY <1>2, SenderFields DEF Senders
      <4>2. Sendable(snd) \subseteq 1 .. Len(snd.queue) /\ Sendable(snd) # {}
        BY <2>3, <4>1 DEF SendsData, Sendable
      <4>3. Sendable(snd) \subseteq Nat
        BY <4>2
      <4>4. i \in Sendable(snd)
        BY <4>2, <4>3, MinOf
      <4> QED
        BY <4>2, <4>4
    <3>2. Transmit(DataPacket(snd, snd.queue[i])) /\ SetSnd(AfterData(snd, i))
      BY <2>3
    <3> HIDE DEF i
    <3>3. Sending(AfterData(snd, i), accepted, w)
      BY <1>2, <3>1, PollOK, SendingKeeps
    <3>4. Says(DataPacket(snd, snd.queue[i]), c, gone')
      BY <1>2, <3>1, DataPacketSays
    <3>5. \A p \in net' : p \in net \/ Says(p, c, gone')
      BY <3>2, <3>4 DEF Transmit
    <3>6. [Next]_vars /\ \E x, d : Linked(x, d)'
      BY <1>0, <1>2, <2>1, <3>2, <3>3, <3>5, SenderStep
    <3> QED
      BY <1>3, <3>6
  <2>4. CASE SetSnd(AfterNoData(snd)) /\ net' = net
    <3>1. Sending(AfterNoData(snd), accepted, w)
      BY <1>2, PollOK, SendingKeeps
    <3>2. [Next]_vars /\ \E x, d : Linked(x, d)'
      BY <1>0, <1>2, <2>1, <2>4, <3>1, SenderStep
    <3> QED
      BY <1>3, <3>2
  <2> QED
    BY <1>5, <2>2, <2>3, <2>4 DEF PollSender
<1>6. ASSUME NEW p \in net, SackArrives(p) PROVE LinkInv' /\ [Next]_vars
  <2> DEFINE s == FoldLeft(nsctp_abandon_message, snd, SetToSeq(Doomed(snd, p.cum, p.gaps)))
             n == AckedPrefix(s, p.cum)
             t == Drop(s, p.cum)
  <2>1. /\ SetSnd(t) /\ accepted' = accepted /\ net' = net
        /\ UNCHANGED <<rx, out_count, delivered, rcv_out>>
    BY <1>6 DEF SackArrives, nsctp_handle_sack_chunk
  <2>2. PICK j \in 0 .. c : p.cum = TsnOf(j)
    BY <1>0, <1>6 DEF SackArrives, Linked, Says, SackSays
  <2>3. s \in Senders /\ Keeps(snd, s)
    BY <1>2, DoomOK
  <2>4. Sending(s, accepted, w)
    BY <1>2, <2>3, SendingKeeps
  <2> HIDE DEF s
  <2>5. Drops(s, t, n) /\ \A i \in 1 .. n : TsnDiff(s.queue[i].tsn, p.cum) <= 0
    BY <2>3, DropOK
  <2> HIDE DEF n, t
  <2>6. Sending(t, accepted, w + n)
    BY <2>4, <2>5, SendingDrops
  <2>7. w + n <= c
    <3>1. n \in 0 .. Len(s.queue) /\ Len(s.queue) \in Nat
      BY <2>4, <2>5, SendingFacts DEF Drops
    <3>2. CASE n = 0
      BY <1>2, <3>2
    <3>3. CASE n # 0
      <4>1. n \in 1 .. Len(s.queue) /\ n \in 1 .. n /\ n \in Nat
        BY <3>1, <3>3
      <4>2. w + n \in 1 .. NC /\ s.queue[n].tsn = TsnOf(w + n)
        BY <2>4, <4>1, SendingFacts
      <4>3. w + n \in 0 .. NC /\ j \in 0 .. NC /\ j <= c
        BY <1>2, <4>2, ChunkCount
      <4>4. TsnDiff(TsnOf(w + n), TsnOf(j)) = (w + n) - j
        BY <4>3, TsnOrder
      <4>5. TsnDiff(TsnOf(w + n), TsnOf(j)) <= 0
        BY <2>2, <2>5, <4>1, <4>2
      <4>6. (w + n) - j <= 0 /\ j \in Nat
        BY <4>4, <4>5
      <4> QED
        BY <1>2, <4>1, <4>3, <4>6
    <3> QED
      BY <3>2, <3>3
  <2>8. [Next]_vars /\ \E x, d : Linked(x, d)'
    BY <1>0, <2>1, <2>6, <2>7, SenderStep
  <2> QED
    BY <1>3, <2>8
<1>7. ASSUME NEW d \in 1 .. RTO_MAX, HandleTimeout(d) PROVE LinkInv' /\ [Next]_vars
  <2> DEFINE s == Older(snd, d)
             t == IF snd.state = "established" THEN nsctp_handle_timeout(s) ELSE snd
  <2>1. /\ SetSnd(t) /\ accepted' = accepted /\ net' = net
        /\ UNCHANGED <<rx, out_count, delivered, rcv_out>>
    BY <1>7 DEF HandleTimeout
  <2>2. d \in Nat
    BY SendConstants
  <2>3. s \in Senders /\ Keeps(snd, s)
    BY <1>2, <2>2, OlderOK
  <2> HIDE DEF s
  <2>4. nsctp_handle_timeout(s) \in Senders /\ Keeps(s, nsctp_handle_timeout(s))
    BY <2>3, TimeoutOK
  <2>5. Sending(nsctp_handle_timeout(s), accepted, w)
    BY <1>2, <2>3, <2>4, KeepsTrans, SendingKeeps
  <2>6. Sending(t, accepted, w)
    BY <1>2, <2>5
  <2> HIDE DEF t
  <2>7. [Next]_vars /\ \E x, y : Linked(x, y)'
    BY <1>0, <1>2, <2>1, <2>6, SenderStep
  <2> QED
    BY <1>3, <2>7
<1>8. ASSUME NEW p \in net, DataArrives(p) PROVE LinkInv' /\ [Next]_vars
  <2>1. PICK k \in 1 .. NC : p.tsn = TsnOf(k) /\ p.chunk = Chunks[k]
    BY <1>0, <1>8 DEF DataArrives, Linked, Says, DataSays
  <2>2. HandleData(k) /\ k \in DOMAIN Chunks
    BY <1>8, <2>1, ChunkCount DEF DataArrives, HandleData
  <2>3. [Next]_vars
    BY <2>2 DEF Next
  <2>4. UNCHANGED <<snd, accepted, gone>> /\ net' = net
    BY <1>8 DEF DataArrives, HandleChunk, sndVars
  <2>5. rcv_out' = rcv_out \/ rcv_out' = Append(rcv_out, Sack(rx'))
    BY <1>8 DEF DataArrives, QueuesSack
  <2>6. \E x, y : Linked(x, y)'
    BY <1>0, <1>1, <2>3, <2>4, <2>5, ReceiverStep
  <2> QED
    BY <1>3, <2>3, <2>6
<1>9. ASSUME NEW p \in net, ForwardArrives(p) PROVE LinkInv' /\ [Next]_vars
  <2>1. PICK h \in Messages, m \in Messages :
           /\ h <= m /\ h .. m \subseteq gone /\ Base[h] <= c /\ p.tsn = TsnOf(LastChunk(m))
           /\ p.pairs \in SetToSeqs(SkippedPairs(h, m))
    BY <1>0, <1>9 DEF ForwardArrives, Linked, Says, ForwardSays
  <2>2. TsnDiff(TsnOf(FirstChunk(h)), rx.cumulative_tsn) <= 1
    <3>1. FirstChunk(h) = Base[h] + 1
      BY FirstLast
    <3>2. Base[h] \in Nat /\ Base[h] < Base[h + 1] /\ Base[h + 1] \in 0 .. NC
      BY BaseFacts
    <3>3. Base[h] + 1 \in 0 .. NC
      BY <3>2, ChunkCount
    <3>4. TsnDiff(TsnOf(Base[h] + 1), TsnOf(c)) = (Base[h] + 1) - c
      BY <1>2, <3>3, TsnOrder
    <3>5. (Base[h] + 1) - c <= 1
      BY <1>2, <2>1, <3>2
    <3> QED
      BY <1>2, <3>1, <3>4, <3>5
  <2>3. HandleForwardTsn(h, m)
    <3>1. QueueSack(nsctp_handle_forward_tsn(rx, p.tsn, p.pairs)) /\ UNCHANGED <<gone, delivered>>
      BY <1>9 DEF ForwardArrives
    <3> QED
      BY <2>1, <2>2, <3>1 DEF HandleForwardTsn
  <2>4. [Next]_vars
    BY <2>3 DEF Next
  <2>5. UNCHANGED <<snd, accepted, gone>> /\ net' = net
    BY <1>9 DEF ForwardArrives, sndVars
  <2>6. rcv_out' = rcv_out \/ rcv_out' = Append(rcv_out, Sack(rx'))
    BY <1>9 DEF ForwardArrives, QueuesSack
  <2>7. \E x, y : Linked(x, y)'
    BY <1>0, <1>1, <2>4, <2>5, <2>6, ReceiverStep
  <2> QED
    BY <1>3, <2>4, <2>7
<1>10. CASE Receive
  <2>1. [Next]_vars
    BY <1>10 DEF Receive, Next
  <2>2. UNCHANGED <<snd, accepted, gone>> /\ net' = net /\ rcv_out' = rcv_out
    BY <1>10 DEF Receive, PollDelivery, sndVars
  <2>3. \E x, y : Linked(x, y)'
    BY <1>0, <1>1, <2>1, <2>2, ReceiverStep
  <2> QED
    BY <1>3, <2>1, <2>3
<1>11. CASE PollReceiver
  <2>1. [Next]_vars
    BY <1>11 DEF PollReceiver, Next
  <2>2. UNCHANGED <<snd, accepted, gone>>
    BY <1>11 DEF PollReceiver, PollOutput, sndVars
  <2>3. /\ rcv_out' = rcv_out \/ (rcv_out # <<>> /\ rcv_out' = Tail(rcv_out))
        /\ net' = net \cup {Sack(rx)} \/ (rcv_out # <<>> /\ net' = net \cup {Head(rcv_out)})
    BY <1>11 DEF PollReceiver, Transmit
  <2>4. \E x, y : Linked(x, y)'
    BY <1>0, <1>1, <2>1, <2>2, <2>3, ReceiverStep
  <2> QED
    BY <1>3, <2>1, <2>4
<1>12. CASE UNCHANGED linkVars
  <2>1. UNCHANGED <<snd, accepted, gone>> /\ net' = net /\ rcv_out' = rcv_out /\ [Next]_vars
    BY <1>12 DEF linkVars, vars
  <2>2. \E x, y : Linked(x, y)'
    BY <1>0, <1>1, <2>1, ReceiverStep
  <2> QED
    BY <1>3, <2>1, <2>2
<1> QED
  BY <1>4, <1>5, <1>6, <1>7, <1>8, <1>9, <1>10, <1>11, <1>12 DEF LinkNext
\* A new association is linked.
LEMMA InitLinked == LinkInit => LinkInv
<1> SUFFICES ASSUME LinkInit PROVE LinkInv
  OBVIOUS
<1>0. /\ rx = RxInit /\ out_count = 0 /\ gone = {} /\ delivered = <<>>
      /\ snd = SndInit /\ accepted = 0 /\ rcv_out = <<>> /\ net = {}
  BY DEF LinkInit, Init
<1>1. IntactInv
  <2>1. Inv
    BY <1>0, InitOK, RecvSizes DEF Inv
  <2>2. \E f : Spans(f) /\ Filled(rx, f)
    BY <1>0, InitFilled
  <2>3. delivered \in Seq(Sent)
    BY <1>0
  <2> QED
    BY <2>1, <2>2, <2>3 DEF IntactInv
<1>2. PICK c : Tracked(rx, c)
  BY <1>1, FilledTracked DEF IntactInv, Filled
<1>3. c \in Nat
  BY <1>2, ChunkCount DEF Tracked
<1>4. SndInit \in Sender /\ SndInit.queue = <<>>
  <2>1. RTO_INITIAL \in 1 .. RTO_MAX /\ RTO_MAX \in 0 .. RTO_MAX
    BY SendConstants
  <2>2. InitTsn \in Int
    BY ChunkCount
  <2>3. [m \in {} |-> 0] \in SsnTable
    <3>1. [m \in {} |-> 0] \in [{} -> Int] /\ {} \in SUBSET Nat
      OBVIOUS
    <3> QED
      BY <3>1 DEF SsnTable
  <2>4. <<>> \in Seq(SendEntry) /\ <<>> \in Seq(Byte)
    OBVIOUS
  <2> QED
    BY <2>1, <2>2, <2>3, <2>4 DEF SndInit, Sender
<1>5. SndInit \in Senders /\ DOMAIN SndInit.queue = {} /\ Len(SndInit.queue) = 0
  BY <1>4 DEF Senders, Abandons
<1>6. Base[0 + 1] = 0 /\ 0 \in 0 .. NM /\ 0 \in 0 .. Base[0 + 1]
  <2>1. Base[1] = 0 /\ NM \in Nat /\ 0 + 1 = 1
    BY BaseFacts
  <2> QED
    BY <2>1
<1>7. SndInit.next_tsn = TsnOf(Base[0 + 1] + 1)
  <2>1. InitTsn \in 0 .. TSN_MOD - 1 /\ TSN_MOD \in Nat
    BY RecvSizes
  <2>2. (InitTsn + 0) % TSN_MOD = InitTsn
    BY <2>1
  <2>3. (0 + 1) - 1 = 0
    OBVIOUS
  <2>4. TsnOf(0 + 1) = InitTsn
    BY <2>2, <2>3 DEF TsnOf, Plus
  <2> QED
    BY <1>6, <2>4 DEF SndInit
<1>8. ASSUME NEW sid \in Nat
      PROVE  NextSsn(SndInit, sid) = Plus(InitSsn, Cardinality(OrderedBefore(0, sid)), SSN_MOD)
  <2>1. NextSsn(SndInit, sid) = InitSsn
    <3>1. SndInit.next_ssn = [m \in {} |-> 0]
      BY DEF SndInit
    <3>2. sid \notin DOMAIN SndInit.next_ssn
      BY <3>1
    <3> QED
      BY <3>2 DEF NextSsn
  <2>2. OrderedBefore(0, sid) = {}
    BY DEF OrderedBefore
  <2>3. Cardinality(OrderedBefore(0, sid)) = 0
    BY <2>2, FS_EmptySet
  <2>4. (InitSsn + 0) % SSN_MOD = InitSsn
    BY RecvSizes
  <2> QED
    BY <2>1, <2>3, <2>4 DEF Plus
<1>9. Sending(SndInit, 0, 0)
  <2>1. Len(SndInit.queue) = Base[0 + 1] - 0
    BY <1>5, <1>6
  <2>2. \A i \in 1 .. Len(SndInit.queue) : Bears(SndInit.queue[i], 0 + i, SndInit.send_buf)
    BY <1>5
  <2> QED
    BY <1>5, <1>6, <1>7, <1>8, <2>1, <2>2 DEF Sending
<1>10. AbandonedOf(SndInit) = {}
  BY <1>5 DEF AbandonedOf
<1>11. rcv_out \in Seq(SackPacket) /\ Len(rcv_out) = 0
  BY <1>0
<1>12. Linked(0, c)
  BY <1>0, <1>2, <1>3, <1>9, <1>10, <1>11 DEF Linked
<1> QED
  BY <1>1, <1>12 DEF LinkInv

\* A sender never sleeps over its queue.
LEMMA NeverSleepsOver == LinkInv => WakesUp
<1> SUFFICES ASSUME LinkInv PROVE WakesUp
  OBVIOUS
<1>1. snd \in Senders
  BY DEF LinkInv, Linked, Sending
<1>2. ASSUME snd.state = "established", snd.queue # <<>>
      PROVE  nsctp_has_pending_output(snd) \/ nsctp_next_timeout(snd) # {}
  <2>1. /\ DOMAIN snd.queue = 1 .. Len(snd.queue) /\ snd.queue \in Seq(SendEntry)
        /\ snd.queue[1] \in SendEntry /\ 1 \in DOMAIN snd.queue
    <3>1. snd.queue \in Seq(SendEntry)
      BY <1>1, SenderFields DEF Senders
    <3> QED
      BY <1>2, <3>1
  <2>2. CASE ~snd.queue[1].in_flight /\ ~snd.queue[1].abandoned
    <3>1. 1 \in Sendable(snd)
      BY <2>1, <2>2 DEF Sendable
    <3> QED
      BY <1>2, <3>1 DEF nsctp_has_pending_output
  <2>3. CASE snd.queue[1].abandoned
    BY <1>2, <2>1, <2>3 DEF nsctp_next_timeout
  <2>4. CASE snd.queue[1].in_flight /\ ~snd.queue[1].abandoned
    <3>1. Timed(snd.queue[1])
      BY <2>4 DEF Timed
    <3> QED
      BY <1>2, <2>1, <3>1 DEF nsctp_next_timeout
  <2> QED
    BY <2>2, <2>3, <2>4
<1>3. ASSUME NEW d \in 0 .. RTO_MAX
      PROVE  LET after == nsctp_handle_timeout(Older(snd, d))
             IN 0 \in nsctp_next_timeout(after) => nsctp_has_pending_output(after)
  <2>1. d \in Nat
    BY SendConstants
  <2>2. Older(snd, d) \in Senders
    BY <1>1, <2>1, OlderOK
  <2> QED
    BY <2>2, TimeoutOK
<1> QED
  BY <1>2, <1>3 DEF WakesUp

\* The code's sender is a peer SctpRecv allows (ConformingPeer): whatever the network, the
\* timers and the polling do, what reaches the receiver are the chunks of the messages its
\* application sent, and FORWARD-TSNs that skip abandoned messages only and leave nothing
\* unacknowledged behind. nsctp_handle_sack_chunk frees an entry only when its TSN is below
\* the receiver's cumulative TSN, however stale the SACK.
THEOREM SenderConforms == LinkSpec => ConformingPeer
<1>1. LinkInit => Init
  BY DEF LinkInit
<1> QED
  BY <1>1, InitLinked, LinkStep, PTL DEF LinkSpec, ConformingPeer, Spec

\* A driver that sleeps until the deadline nsctp_next_timeout_ms reports never sleeps over a
\* retransmission or a repeated FORWARD-TSN, and nsctp_handle_timeout leaves nothing due
\* unless there is output (WakesUp).
THEOREM SenderWakesUp == LinkSpec => []WakesUp
BY InitLinked, LinkStep, NeverSleepsOver, PTL DEF LinkSpec

\* End to end, every message nsctp_poll_delivery hands over carries exactly the bytes that
\* nsctp_send_options was given (Intact), none is handed over twice, the ordered ones of a
\* stream come in the order of sending, and no acknowledgement is taken back (NoRenege).
THEOREM LinkIntact ==
  LinkSpec => [](Intact /\ DeliveredOnce /\ DeliveredInOrder) /\ NoRenege
<1>1. Spec => []Intact
  BY DeliveredIntact
<1>2. Spec => NoRenege
  BY AcksAreKept
<1>3. Spec => [](DeliveredOnce /\ DeliveredInOrder)
  BY DeliveredInTurn
<1>4. LinkSpec => Spec
  BY SenderConforms DEF ConformingPeer
<1> QED
  BY <1>1, <1>2, <1>3, <1>4, PTL

-----------------------------------------------------------------------------
(* What has been accepted is kept, and arrives as a message stream.         *)

\* A chunk of an accepted message is in the queue until the receiver has passed it.
LEMMA QueuedOrAcked ==
  ASSUME LinkInv, NEW k \in 1 .. NC, Chunks[k].msg <= accepted
  PROVE  (\E i \in DOMAIN snd.queue : snd.queue[i].tsn = TsnOf(k)) \/ Acked(rx, k)
<1>0. PICK w, c : Linked(w, c)
  BY DEF LinkInv
<1>1. Sending(snd, accepted, w) /\ w <= c /\ Tracked(rx, c) /\ snd \in Senders
  BY <1>0 DEF Linked, Sending
<1>2. /\ accepted + 1 \in 1 .. NM + 1 /\ accepted \in Nat /\ w \in Nat /\ Base[accepted + 1] \in 0 .. NC
      /\ Len(snd.queue) \in Nat /\ Len(snd.queue) = Base[accepted + 1] - w
      /\ \A i \in 1 .. Len(snd.queue) : snd.queue[i].tsn = TsnOf(w + i)
  <2>1. Len(snd.queue) = Base[accepted + 1] - w
    BY <1>1 DEF Sending
  <2>2. /\ accepted + 1 \in 1 .. NM + 1 /\ accepted \in Nat /\ w \in Nat
        /\ Base[accepted + 1] \in 0 .. NC /\ Len(snd.queue) \in Nat
    BY <1>1, SendingFacts
  <2>3. \A i \in 1 .. Len(snd.queue) : snd.queue[i].tsn = TsnOf(w + i)
    BY <1>1, SendingFacts
  <2> QED
    BY <2>1, <2>2, <2>3
<1>3. k <= Base[accepted + 1]
  <2>1. Chunks[k].msg \in Nat /\ k \in Nat
    BY MessageOf, MessageFacts, ChunkCount
  <2>2. ~(accepted + 1 <= Chunks[k].msg)
    BY <1>2, <2>1
  <2> QED
    BY <1>2, <2>1, <2>2, ChunkPlace
<1>4. CASE w < k
  <2>1. k - w \in 1 .. Len(snd.queue) /\ w + (k - w) = k
    BY <1>2, <1>3, <1>4, ChunkCount
  <2>2. k - w \in DOMAIN snd.queue
    BY <1>1, <2>1, SenderFields DEF Senders
  <2>3. snd.queue[k - w].tsn = TsnOf(w + (k - w))
    BY <1>2, <2>1
  <2> QED
    BY <2>1, <2>2, <2>3
<1>5. CASE ~(w < k)
  <2>1. c \in 0 .. NC /\ rx.cumulative_tsn = TsnOf(c) /\ c \in Nat /\ k \in 0 .. NC /\ k \in Nat
    BY <1>1, ChunkCount DEF Tracked
  <2>2. k <= c
    BY <1>1, <1>2, <1>5, <2>1
  <2>3. TsnDiff(TsnOf(k), TsnOf(c)) = k - c
    BY <2>1, TsnOrder
  <2>4. TsnDiff(TsnOf(k), rx.cumulative_tsn) <= 0
    BY <2>1, <2>2, <2>3
  <2> QED
    BY <2>4 DEF Acked
<1> QED
  BY <1>4, <1>5

\* The messages that wait in the table, and those whose chunks are under way, are accepted ones.
AllFrom(s, a) == \A y \in Items(s) : y.msg \in 1 .. a
ChunkFrom(p, a) == p.type = "data" => p.chunk.msg \in 1 .. a
Offered == AllFrom(rx, accepted) /\ \A p \in net : ChunkFrom(p, accepted)

\* What nsctp_poll_delivery delivers waited in the table; it is new, it comes after the messages
\* delivered on its stream, and after all before it as long as nothing is abandoned.
LEMMA DeliveryArrives ==
  ASSUME OrderInv, PollDelivery
  PROVE  /\ Items(rx') \subseteq Items(rx)
         /\ \/ delivered' = delivered
            \/ \E x \in Items(rx) :
                 /\ x.msg \in Messages /\ x.msg \notin Handed(delivered)
                 /\ Comes(x.msg, Handed(delivered), gone # {})
                 /\ delivered' = Append(delivered, [msg |-> x.msg, sid |-> Msgs[x.msg].sid,
                                                    data |-> Bytes(x.msg)])
<1> DEFINE s == nsctp_rx_reclaim(rx)
           i == Min(Deliverable(s))
           d == DeliverFrom(s, i)
           x == Item(s.recv_gap[i])
           D == Handed(delivered)
           skip == gone # {}
<1>0. rx \in RxStates /\ Sorted(rx, D, skip)
  BY DEF OrderInv, IntactInv, Inv
<1>1. PICK f : Spans(f) /\ Filled(rx, f)
  BY DEF OrderInv, IntactInv
<1>2. s \in RxStates /\ Filled(s, f) /\ Sorted(s, D, skip) /\ Items(s) \subseteq Items(rx)
  <2>1. PICK c : FilledTo(rx, f, c)
    BY <1>1 DEF Filled
  <2>2. FilledTo(s, f, c)
    BY <1>0, <2>1, ReclaimCarries, CarryOK
  <2>3. Ahead(rx, rx)
    BY <1>1, FilledAhead DEF Filled
  <2>4. Acks(rx) \subseteq Acks(s)
    BY <1>0, <2>3, ReclaimRetains, RetainAfter, AheadOrdered
  <2>5. Fewer(rx, s)
    BY <1>0, ReclaimFewer
  <2>6. s \in RxStates
    BY <1>0, ReclaimOK
  <2> HIDE DEF s, D, skip
  <2>7. Sorted(s, D, skip)
    BY <1>0, <2>4, <2>5, FewerSorted
  <2> QED
    BY <2>2, <2>5, <2>6, <2>7 DEF Filled, Fewer
<1>3. \/ rx' = s /\ delivered' = delivered
      \/ Deliverable(s) # {} /\ rx' = d.st /\ delivered' = Append(delivered, d.message)
  BY DEF PollDelivery
<1>4. CASE rx' = s /\ delivered' = delivered
  BY <1>2, <1>4
<1>5. CASE Deliverable(s) # {} /\ rx' = d.st /\ delivered' = Append(delivered, d.message)
  <2>1. d.message.msg = s.recv_gap[i].msg /\ d.message.sid = s.recv_gap[i].sid
    BY DEF DeliverFrom
  <2>2. x.msg = s.recv_gap[i].msg /\ x.sid = s.recv_gap[i].sid
    BY DEF Item
  <2> HIDE DEF s, i, D, skip
  <2>3. i \in Deliverable(s)
    BY <1>2, <1>5, FirstDeliverable DEF i
  <2>4. x \in Items(s) /\ \A y \in Items(d.st) : y \in Items(s)
    BY <1>1, <1>2, <2>3, DeliverItems
  <2>5. d.message \in Sent /\ s.recv_gap[i].msg \notin D /\ Comes(s.recv_gap[i].msg, D, skip)
    BY <1>1, <1>2, <2>3, DeliverIntact, DeliverSorted
  <2> HIDE DEF x, d
  <2>6. x.msg \in Messages /\ x.sid = Msgs[x.msg].sid
    BY <1>2, <2>4 DEF Sorted, Turns, InTurn, Genuine
  <2>7. d.message = [msg |-> x.msg, sid |-> Msgs[x.msg].sid, data |-> Bytes(x.msg)]
    <3>1. PICK m \in Messages, y \in Nat : d.message = [msg |-> m, sid |-> y, data |-> Bytes(m)]
      BY <2>5 DEF Sent
    <3>2. m = x.msg /\ y = Msgs[x.msg].sid
      BY <2>1, <2>2, <2>6, <3>1
    <3> QED
      BY <3>1, <3>2
  <2>8. Items(rx') \subseteq Items(rx)
    BY <1>2, <1>5, <2>4
  <2>9. x \in Items(rx) /\ x.msg \notin D /\ Comes(x.msg, D, skip)
    BY <1>2, <2>2, <2>4, <2>5
  <2> QED
    BY <1>5, <2>6, <2>7, <2>8, <2>9 DEF D, skip
<1> QED
  BY <1>3, <1>4, <1>5
\* Every step of the link keeps offers to accepted messages.
LEMMA OfferedStep ==
  ASSUME OrderInv, LinkInv, Offered, [LinkNext]_linkVars
  PROVE  Offered'
<1>0. PICK w, c : Linked(w, c)
  BY DEF LinkInv
<1>1. PICK f : Spans(f) /\ Filled(rx, f)
  BY DEF OrderInv, IntactInv
<1>2. /\ rx \in RxStates /\ rx \in State /\ AllFrom(rx, accepted) /\ Sending(snd, accepted, w)
      /\ snd \in Senders /\ Sorted(rx, Handed(delivered), gone # {})
      /\ \A p \in net : ChunkFrom(p, accepted)
  BY <1>0 DEF OrderInv, IntactInv, Inv, RxStates, Linked, Sending, Offered
<1>3. ASSUME AllFrom(rx', accepted), accepted' = accepted,
             \A p \in net' : p \in net \/ ChunkFrom(p, accepted)
      PROVE  Offered'
  BY <1>2, <1>3 DEF Offered, AllFrom, ChunkFrom
<1>4. ASSUME NEW s \in State, AllFrom(s, accepted), rx' = s \/ QueueSack(s)
      PROVE  AllFrom(rx', accepted)
  <2> DEFINE t == [s EXCEPT !.sack_needed = FALSE]
  <2>1. t.recv_gap = s.recv_gap /\ t.recv_ssn = s.recv_ssn
    BY DEF State
  <2>2. rx' = t \/ rx' = s
    BY <1>4 DEF QueueSack
  <2> HIDE DEF t
  <2>3. Items(t) \subseteq Items(s)
    BY <2>1, SameFewer DEF Fewer
  <2> QED
    BY <1>4, <2>2, <2>3 DEF AllFrom
<1>5. CASE AppSend
  <2>1. accepted' = accepted + 1 /\ rx' = rx /\ net' = net
    BY <1>5 DEF AppSend
  <2>2. accepted \in Nat
    BY <1>2, SendingFacts
  <2>3. \A m : m \in 1 .. accepted => m \in 1 .. accepted + 1
    BY <2>2
  <2> QED
    BY <1>2, <2>1, <2>3 DEF Offered, AllFrom, ChunkFrom
<1>6. CASE PollSender
  <2>1. accepted' = accepted /\ rx' = rx
    BY <1>6 DEF PollSender
  <2>2. CASE net' = net
    BY <1>2, <1>3, <2>1, <2>2
  <2>3. CASE Transmit(ForwardTsn(snd))
    <3>1. ForwardTsn(snd).type = "forward"
      BY DEF ForwardTsn
    <3>2. ChunkFrom(ForwardTsn(snd), accepted)
      BY <3>1 DEF ChunkFrom
    <3> QED
      BY <1>2, <1>3, <2>1, <2>3, <3>2 DEF Transmit
  <2>4. CASE SendsData(snd) /\ Transmit(DataPacket(snd, snd.queue[Min(Sendable(snd))]))
    <3> DEFINE i == Min(Sendable(snd))
    <3>1. i \in 1 .. Len(snd.queue)
      <4>1. DOMAIN snd.queue = 1 .. Len(snd.queue) /\ Len(snd.queue) \in Nat
        BY <1>2, SenderFields DEF Senders
      <4>2. Sendable(snd) \subseteq 1 .. Len(snd.queue) /\ Sendable(snd) # {}
        BY <2>4, <4>1 DEF SendsData, Sendable
      <4>3. Sendable(snd) \subseteq Nat
        BY <4>2
      <4>4. i \in Sendable(snd)
        BY <4>2, <4>3, MinOf
      <4> QED
        BY <4>2, <4>4
    <3>2. Transmit(DataPacket(snd, snd.queue[i]))
      BY <2>4
    <3> HIDE DEF i
    <3>3. /\ snd.queue[i].msg \in Messages /\ snd.queue[i].msg <= accepted /\ accepted \in Nat
      BY <1>2, <3>1, SendingFacts
    <3>4. snd.queue[i].msg \in 1 .. accepted
      <4>1. snd.queue[i].msg \in 1 .. NM /\ NM \in Nat
        BY <3>3, BaseFacts
      <4> QED
        BY <3>3, <4>1
    <3>5. DataPacket(snd, snd.queue[i]).chunk.msg = snd.queue[i].msg
      BY DEF DataPacket
    <3>6. ChunkFrom(DataPacket(snd, snd.queue[i]), accepted)
      BY <3>4, <3>5 DEF ChunkFrom
    <3> QED
      BY <1>2, <1>3, <2>1, <3>2, <3>6 DEF Transmit
  <2> QED
    BY <1>6, <2>2, <2>3, <2>4 DEF PollSender
<1>7. ASSUME NEW p \in net, SackArrives(p) PROVE Offered'
  <2>1. accepted' = accepted /\ rx' = rx /\ net' = net
    BY <1>7 DEF SackArrives
  <2> QED
    BY <1>2, <1>3, <2>1
<1>8. ASSUME NEW d \in 1 .. RTO_MAX, HandleTimeout(d) PROVE Offered'
  <2>1. accepted' = accepted /\ rx' = rx /\ net' = net
    BY <1>8 DEF HandleTimeout
  <2> QED
    BY <1>2, <1>3, <2>1
<1>9. ASSUME NEW p \in net, DataArrives(p) PROVE Offered'
  <2>1. PICK k \in 1 .. NC : p.tsn = TsnOf(k) /\ p.chunk = Chunks[k]
    BY <1>0, <1>9 DEF DataArrives, Linked, Says, DataSays
  <2> DEFINE s == nsctp_handle_data_chunk(rx, Chunks[k], TsnOf(k))
  <2>2. HandleChunk(Chunks[k], TsnOf(k)) /\ accepted' = accepted /\ net' = net
    BY <1>9, <2>1 DEF DataArrives, sndVars
  <2>3. s \in State
    BY <1>2, ChunkCount, TsnType, DataChunkOK DEF RxStates
  <2>4. rx' = s \/ QueueSack(s)
    BY <2>2 DEF HandleChunk
  <2>5. Items(s) \subseteq Items(rx) \cup {Fresh(k)}
    BY <1>1, <1>2, DataChunkItems DEF Fewer, Grown
  <2> HIDE DEF s
  <2>6. Chunks[k].msg \in 1 .. accepted
    BY <1>2, <1>9, <2>1 DEF DataArrives, ChunkFrom
  <2>7. Fresh(k).msg = Chunks[k].msg
    BY DEF Fresh
  <2>8. AllFrom(s, accepted)
    BY <1>2, <2>5, <2>6, <2>7 DEF AllFrom
  <2>9. AllFrom(rx', accepted)
    BY <1>4, <2>3, <2>4, <2>8
  <2> QED
    BY <1>3, <2>2, <2>9
<1>10. ASSUME NEW p \in net, ForwardArrives(p) PROVE Offered'
  <2>1. PICK h \in Messages, m \in Messages :
           /\ h <= m /\ h .. m \subseteq gone /\ p.tsn = TsnOf(LastChunk(m))
           /\ p.pairs \in SetToSeqs(SkippedPairs(h, m))
    BY <1>0, <1>10 DEF ForwardArrives, Linked, Says, ForwardSays
  <2> DEFINE s == nsctp_handle_forward_tsn(rx, TsnOf(LastChunk(m)), p.pairs)
  <2>2. QueueSack(s) /\ accepted' = accepted /\ net' = net
    BY <1>10, <2>1 DEF ForwardArrives, sndVars
  <2>3. p.pairs \in Seq(PairsUpTo(m)) /\ PairsUpTo(m) \subseteq Pairs /\ p.pairs \in Seq(Pairs)
    BY <2>1, SkippedPairsUpTo, SkippedPairsType
  <2>4. s \in State
    BY <1>2, <2>3, LastChunkType, ForwardTsnOK DEF RxStates
  <2>5. Turns(Items(rx), rx.recv_ssn, Acks(rx), Handed(delivered), TRUE)
    <3>1. h \in h .. m
      BY <2>1 DEF Messages
    <3>2. (gone # {}) = TRUE
      BY <2>1, <3>1
    <3> QED
      BY <1>2, <3>2 DEF Sorted
  <2>6. \A y \in Items(s) : \E x \in Items(rx) : y.msg = x.msg
    BY <1>1, <1>2, <2>3, <2>5, ForwardTurns
  <2> HIDE DEF s
  <2>7. AllFrom(s, accepted)
    BY <1>2, <2>6 DEF AllFrom
  <2>8. AllFrom(rx', accepted)
    BY <1>4, <2>2, <2>4, <2>7
  <2> QED
    BY <1>3, <2>2, <2>8
<1>11. CASE Receive
  <2>1. PollDelivery /\ accepted' = accepted /\ net' = net
    BY <1>11 DEF Receive, sndVars
  <2>2. Items(rx') \subseteq Items(rx)
    BY <2>1, DeliveryArrives
  <2>3. AllFrom(rx', accepted)
    BY <1>2, <2>2 DEF AllFrom
  <2> QED
    BY <1>3, <2>1, <2>3
<1>12. CASE PollReceiver
  <2> DEFINE t == [rx EXCEPT !.sack_needed = FALSE]
  <2>1. accepted' = accepted /\ (rx' = rx \/ rx' = t)
    BY <1>12 DEF PollReceiver, PollOutput, sndVars
  <2>2. t.recv_gap = rx.recv_gap /\ t.recv_ssn = rx.recv_ssn
    BY <1>2 DEF State
  <2> HIDE DEF t
  <2>3. Items(t) \subseteq Items(rx)
    BY <2>2, SameFewer DEF Fewer
  <2>4. AllFrom(rx', accepted)
    BY <1>2, <2>1, <2>3 DEF AllFrom
  <2>5. \A p \in net' : p \in net \/ p.type = "sack"
    <3>1. \/ net' = net \cup {Sack(rx)}
          \/ rcv_out # <<>> /\ net' = net \cup {Head(rcv_out)}
      BY <1>12 DEF PollReceiver, Transmit
    <3>2. Sack(rx).type = "sack"
      BY DEF Sack
    <3>3. ASSUME rcv_out # <<>> PROVE Head(rcv_out).type = "sack"
      <4>1. rcv_out \in Seq(SackPacket)
        BY <1>0 DEF Linked
      <4>2. Head(rcv_out) \in SackPacket
        BY <3>3, <4>1
      <4> QED
        BY <4>2 DEF SackPacket
    <3> QED
      BY <3>1, <3>2, <3>3
  <2>6. \A p \in net' : p \in net \/ ChunkFrom(p, accepted)
    BY <2>5 DEF ChunkFrom
  <2> QED
    BY <1>3, <2>1, <2>4, <2>6
<1>13. CASE UNCHANGED linkVars
  <2>1. accepted' = accepted /\ rx' = rx /\ net' = net
    BY <1>13 DEF linkVars
  <2> QED
    BY <1>2, <1>3, <2>1
<1> QED
  BY <1>5, <1>6, <1>7, <1>8, <1>9, <1>10, <1>11, <1>12, <1>13 DEF LinkNext
\* The abstract stream has the messages and the bytes of the traffic.
LEMMA StreamData ==
  /\ Stream!Messages = Messages
  /\ \A m \in Messages : Stream!Bytes(m) = Bytes(m)
<1>1. ASSUME NEW m \in Messages PROVE Stream!Bytes(m) = Bytes(m)
  <2>1. Stream!Sum(Msgs[m].lens) = Sum(Msgs[m].lens)
    BY DEF Sum, Stream!Sum, Add, Stream!Add, FoldLeft, Stream!FoldLeft, MapThenFoldSet,
       Stream!MapThenFoldSet, Max, Stream!Max
  <2> QED
    BY <2>1 DEF Bytes, Stream!Bytes
<1> QED
  BY <1>1 DEF Messages, Stream!Messages

\* As long as nothing is abandoned, every step of the link is one of the stream.
LEMMA StreamStep ==
  ASSUME OrderInv, LinkInv, Offered, gone = {}, gone' = {}, [LinkNext]_linkVars
  PROVE  [Stream!Next]_(Stream!vars)
<1>1. ASSUME accepted' = accepted, delivered' = delivered PROVE [Stream!Next]_(Stream!vars)
  BY <1>1 DEF Stream!vars
<1>2. CASE AppSend
  <2>1. Stream!Accept
    BY <1>2 DEF AppSend, Stream!Accept
  <2> QED
    BY <2>1 DEF Stream!Next
<1>3. CASE PollSender
  BY <1>1, <1>3 DEF PollSender
<1>4. ASSUME NEW p \in net, SackArrives(p) PROVE [Stream!Next]_(Stream!vars)
  BY <1>1, <1>4 DEF SackArrives
<1>5. ASSUME NEW d \in 1 .. RTO_MAX, HandleTimeout(d) PROVE [Stream!Next]_(Stream!vars)
  BY <1>1, <1>5 DEF HandleTimeout
<1>6. ASSUME NEW p \in net, DataArrives(p) PROVE [Stream!Next]_(Stream!vars)
  BY <1>1, <1>6 DEF DataArrives, HandleChunk, sndVars
<1>7. ASSUME NEW p \in net, ForwardArrives(p) PROVE [Stream!Next]_(Stream!vars)
  BY <1>1, <1>7 DEF ForwardArrives, sndVars
<1>8. CASE Receive
  <2>1. PollDelivery /\ accepted' = accepted
    BY <1>8 DEF Receive, sndVars
  <2>2. CASE delivered' = delivered
    BY <1>1, <2>1, <2>2
  <2>3. ASSUME NEW x \in Items(rx), x.msg \in Messages, x.msg \notin Handed(delivered),
               Comes(x.msg, Handed(delivered), gone # {}),
               delivered' = Append(delivered, [msg |-> x.msg, sid |-> Msgs[x.msg].sid,
                                               data |-> Bytes(x.msg)])
        PROVE  [Stream!Next]_(Stream!vars)
    <3> DEFINE m == x.msg
    <3>1. Stream!Arrived = Handed(delivered)
      BY DEF Stream!Arrived, Handed, OrderInv, IntactInv
    <3>2. m \in 1 .. accepted
      BY DEF Offered, AllFrom
    <3> HIDE DEF m
    <3>3. m \in Messages /\ Messages \subseteq Nat /\ m \notin Handed(delivered)
          /\ Comes(m, Handed(delivered), FALSE)
      <4>1. (gone # {}) = FALSE
        OBVIOUS
      <4>2. Messages \subseteq Nat
        BY BaseFacts
      <4> QED
        BY <2>3, <4>1, <4>2 DEF m
    <3>4. ASSUME NEW y \in Stream!SameOrder(m)
          PROVE  /\ y < m => y \in Handed(delivered)
                 /\ y > m => y \notin Handed(delivered)
      <4>1. y \in Messages /\ y \in Nat /\ m \in Nat /\ SameStream(y, m)
        BY <3>3, StreamData DEF Stream!SameOrder, SameStream
      <4>2. ASSUME y > m, y \in Handed(delivered) PROVE FALSE
        <5>1. y < m
          BY <3>3, <4>1, <4>2 DEF Comes
        <5> QED
          BY <4>1, <4>2, <5>1
      <4> QED
        BY <3>3, <4>1, <4>2 DEF Comes
    <3>5. delivered' = Append(delivered, [msg |-> m, sid |-> Msgs[m].sid, data |-> Stream!Bytes(m)])
      BY <2>3, <3>3, StreamData DEF m
    <3>6. Stream!Arrive(m)
      BY <2>1, <3>1, <3>2, <3>3, <3>4, <3>5 DEF Stream!Arrive
    <3> QED
      BY <3>3, <3>6, StreamData DEF Stream!Next
  <2> QED
    BY <2>1, <2>2, <2>3, DeliveryArrives
<1>9. CASE PollReceiver
  BY <1>1, <1>9 DEF PollReceiver, PollOutput, sndVars
<1>10. CASE UNCHANGED linkVars
  BY <1>1, <1>10 DEF linkVars
<1> QED
  BY <1>2, <1>3, <1>4, <1>5, <1>6, <1>7, <1>8, <1>9, <1>10 DEF LinkNext

\* Initially nothing is on offer.
LEMMA InitOffered == LinkInit => Offered
<1> SUFFICES ASSUME LinkInit PROVE Offered
  OBVIOUS
<1>1. rx = RxInit /\ net = {}
  BY DEF LinkInit, Init
<1>2. Items(RxInit) = {}
  <2>1. RxInit.recv_gap = [j \in Slots |-> NoEntry]
    BY DEF RxInit
  <2>2. Live(RxInit) = {}
    BY <2>1 DEF Valid, Live, NoEntry
  <2> QED
    BY <2>2 DEF Items
<1> QED
  BY <1>1, <1>2 DEF Offered, AllFrom

\* A message nsctp_send_options has accepted is not lost (NothingLost), as long as none is
\* abandoned: until it has been handed to the application, each of its chunks is in the
\* sender's queue or in the receiver's buffer, however stale the SACKs are that free entries.
THEOREM LosesNothing == LinkSpec => [](gone = {} => NothingLost)
<1>1. LinkInv /\ (gone = {} => AckedIsKept) => (gone = {} => NothingLost)
  <2> SUFFICES ASSUME LinkInv, AckedIsKept, gone = {}, NEW k \in DOMAIN Chunks,
                      Chunks[k].msg <= accepted
               PROVE  \/ \E n \in DOMAIN delivered : delivered[n].msg = Chunks[k].msg
                      \/ \E i \in DOMAIN snd.queue : snd.queue[i].tsn = TsnOf(k)
                      \/ Acked(rx, k) /\ Buffered(rx, k)
    BY DEF NothingLost
  <2>1. (\E i \in DOMAIN snd.queue : snd.queue[i].tsn = TsnOf(k)) \/ Acked(rx, k)
    BY QueuedOrAcked, ChunkCount
  <2> QED
    BY <2>1 DEF AckedIsKept
<1>2. LinkSpec => Spec
  BY SenderConforms DEF ConformingPeer
<1> QED
  BY <1>1, <1>2, InitLinked, LinkStep, AcknowledgedIsKept, PTL DEF LinkSpec

\* As long as nothing is abandoned the two endpoints and the network are a message stream
\* (ImplementsStream): messages are accepted in order, and each arrives at most once and whole,
\* the ordered ones of a stream in the order of sending and none before an earlier one.
THEOREM LinkIsAStream == LinkSpec /\ [](gone = {}) => ImplementsStream
<1>1. LinkInit => Stream!Init
  BY DEF LinkInit, Init, Stream!Init
<1> DEFINE Firm == gone = {}
<1>2. OrderInv /\ LinkInv /\ Offered /\ Firm /\ Firm' /\ [LinkNext]_linkVars
        => [Stream!Next]_(Stream!vars)
  BY StreamStep
<1>3. OrderInv /\ LinkInv /\ Offered /\ [LinkNext]_linkVars => Offered'
  BY OfferedStep
<1>4. LinkSpec => []OrderInv
  <2>1. LinkSpec => Spec
    BY SenderConforms DEF ConformingPeer
  <2> QED
    BY <2>1, OrderInvariant, PTL
<1> HIDE DEF Firm
<1>5. LinkSpec /\ []Firm => Stream!Init /\ [][Stream!Next]_(Stream!vars)
  BY <1>1, <1>2, <1>3, <1>4, InitLinked, InitOffered, LinkStep, PTL DEF LinkSpec
<1> QED
  BY <1>5 DEF Firm, ImplementsStream, Stream!Spec
=============================================================================
