------------------------------ MODULE RateProof ------------------------------
(***************************************************************************)
(* For every number of tracks, every traffic and all calls of the          *)
(* application: Sender Reports rotate over the tracks of Rate, no event    *)
(* about the rung, a direction or a key frame is lost in its queues, every *)
(* recommended rung is justified, and tracks show the losses reported.     *)
(*                                                                         *)
(* The rotation. The cadence scans the tracks from sr_cursor, so           *)
(* TurnOf(r, t), the distance of track t from it, bounds the reports that  *)
(* can come before its own: with every report of another track it falls by *)
(* at least one, and waited[t] + TurnOf(rtc, t) never exceeds the last     *)
(* position.                                                               *)
(*                                                                         *)
(* The events. The last event of a kind, of those that wait or else of     *)
(* those in the queue, carries what holds now, and the application knows   *)
(* it when there is none (Told). An event that finds no room replaces the  *)
(* one of its kind that waits, so each kind waits at most once (WaitOnce), *)
(* and as there is a place for each kind none is ever dropped.             *)
(*                                                                         *)
(* The rungs. The controller is at the rung of its last tick, and its hold *)
(* timer, when it runs, was started at a tick since which every tick had   *)
(* headroom for the next rung (Climb). A rung fits the estimate it was     *)
(* chosen from because the ladder ascends and the estimate is positive.    *)
(*                                                                         *)
(* The losses. Only a whole report about a track changes what it shows     *)
(* (Shows).                                                                *)
(*                                                                         *)
(* A compound packet is a fold of HandleMember; FoldFacts carries all four *)
(* through it.                                                             *)
(***************************************************************************)
EXTENDS Rate, BasicFacts, TLAPS

-----------------------------------------------------------------------------
(* Sequences without a type. *)

IsSeq(s) == Len(s) \in Nat /\ s = [i \in 1 .. Len(s) |-> s[i]]

Elements(s) == {s[i] : i \in 1 .. Len(s)}

\* Such a sequence is one over the set of its elements.
LEMMA SeqOfElements ==
  ASSUME NEW s, IsSeq(s)
  PROVE  s \in Seq(Elements(s))
<1> DEFINE n == Len(s)
           X == Elements(s)
<1>1. n \in Nat /\ s = [i \in 1 .. n |-> s[i]]
  BY DEF IsSeq
<1>2. \A i \in 1 .. n : s[i] \in X
  BY DEF Elements
<1> HIDE DEF n, X
<1>3. s \in Seq(X)
  BY <1>1, <1>2
<1> QED
  BY <1>3 DEF X

\* A sequence over a set is such a sequence.
LEMMA SeqIs ==
  ASSUME NEW X, NEW s \in Seq(X)
  PROVE  IsSeq(s)
BY DEF IsSeq

\* A function on 1 .. n is one, of length n.
LEMMA FunctionIsSeq ==
  ASSUME NEW n \in Nat, NEW s, s = [i \in 1 .. n |-> s[i]]
  PROVE  IsSeq(s) /\ Len(s) = n
<1> DEFINE X == {s[i] : i \in 1 .. n}
<1>1. \A i \in 1 .. n : s[i] \in X
  OBVIOUS
<1> HIDE DEF X
<1>2. s \in Seq(X) /\ Len(s) = n
  BY <1>1
<1> QED
  BY <1>2, SeqIs

\* Append and Tail, element by element.
LEMMA AppendAt ==
  ASSUME NEW q, IsSeq(q), NEW e
  PROVE  /\ IsSeq(Append(q, e)) /\ Len(Append(q, e)) = Len(q) + 1
         /\ Append(q, e)[Len(q) + 1] = e
         /\ \A i \in 1 .. Len(q) : Append(q, e)[i] = q[i]
<1> DEFINE X == Elements(q) \cup {e}
<1>1. q \in Seq(X) /\ e \in X
  BY SeqOfElements
<1> HIDE DEF X
<1>2. /\ Append(q, e) \in Seq(X) /\ Len(Append(q, e)) = Len(q) + 1
      /\ Append(q, e)[Len(q) + 1] = e
      /\ \A i \in 1 .. Len(q) : Append(q, e)[i] = q[i]
  BY <1>1
<1> QED
  BY <1>2, SeqIs

\* Tail drops the first element and moves the others down.
LEMMA TailAt ==
  ASSUME NEW q, IsSeq(q), q # <<>>
  PROVE  /\ IsSeq(Tail(q)) /\ Len(q) > 0 /\ Len(Tail(q)) = Len(q) - 1 /\ Head(q) = q[1]
         /\ \A i \in 1 .. Len(q) - 1 : Tail(q)[i] = q[i + 1]
<1> DEFINE X == Elements(q)
<1>1. q \in Seq(X)
  BY SeqOfElements
<1> HIDE DEF X
<1>2. /\ Tail(q) \in Seq(X) /\ Len(q) > 0 /\ Len(Tail(q)) = Len(q) - 1 /\ Head(q) = q[1]
      /\ \A i \in 1 .. Len(q) - 1 : Tail(q)[i] = q[i + 1]
  BY <1>1
<1> QED
  BY <1>2, SeqIs

\* Append leads to a sequence whose last element is the new one.
LEMMA AppendIsSeq ==
  ASSUME NEW s, IsSeq(s), NEW e
  PROVE  IsSeq(Append(s, e)) /\ Last(Append(s, e)) = e
BY AppendAt DEF Last

-----------------------------------------------------------------------------
(* What feedback leaves alone. *)

Fields == {"bwe", "rc", "ladder", "media", "out", "pending", "sr_cursor", "last_sr", "now"}

\* s is r but for what feedback may change: the estimate, the rung, losses and events.
Kept(r, s) ==
  /\ DOMAIN s = Fields
  /\ s.sr_cursor = r.sr_cursor /\ s.last_sr = r.last_sr /\ s.now = r.now
  /\ IsSeq(s.out) /\ IsSeq(s.media) /\ Len(s.media) = Len(r.media)

WellFormed(r) == DOMAIN r = Fields /\ IsSeq(r.out) /\ IsSeq(r.media)

\* Kept is reflexive on well-formed states,
LEMMA KeptSelf ==
  ASSUME NEW r, WellFormed(r)
  PROVE  Kept(r, r)
BY DEF Kept, WellFormed

\* transitive,
LEMMA KeptTransitive ==
  ASSUME NEW r, NEW s, NEW t, Kept(r, s), Kept(s, t)
  PROVE  Kept(r, t)
BY DEF Kept

\* and leads to well-formed states.
LEMMA KeptWellFormed ==
  ASSUME NEW r, NEW s, Kept(r, s)
  PROVE  WellFormed(s)
BY DEF Kept, WellFormed

\* Fields that feedback may change.
LEMMA KeptUpdates ==
  ASSUME NEW r, WellFormed(r), NEW v
  PROVE  /\ Kept(r, [r EXCEPT !.bwe = v]) /\ Kept(r, [r EXCEPT !.rc = v])
         /\ Kept(r, [r EXCEPT !.pending = v]) /\ Kept(r, [r EXCEPT !.ladder = v])
         /\ IsSeq(v) => Kept(r, [r EXCEPT !.out = v])
         /\ IsSeq(v) /\ Len(v) = Len(r.media) => Kept(r, [r EXCEPT !.media = v])
BY DEF Kept, WellFormed, Fields

\* nano_rtc_emit_event_full.
LEMMA EmitKeeps ==
  ASSUME NEW r, WellFormed(r), NEW event
  PROVE  Kept(r, nano_rtc_emit_event_full(r, event))
<1> DEFINE same == {i \in 1 .. Len(r.pending) :
                     r.pending[i].is = event.is /\ r.pending[i].key = event.key}
           others == IF same = {} THEN r.pending ELSE RemoveAt(r.pending, Min(same))
           s == nano_rtc_emit_event_full(r, event)
<1>1. \/ s = [r EXCEPT !.out = Append(r.out, event)]
      \/ s = [r EXCEPT !.pending = Append(others, event)]
      \/ s = r
  BY DEF nano_rtc_emit_event_full
<1>2. IsSeq(Append(r.out, event))
  BY AppendIsSeq DEF WellFormed
<1> DEFINE a == Append(r.out, event)
           b == Append(others, event)
<1>3. (s = [r EXCEPT !.out = a] \/ s = [r EXCEPT !.pending = b] \/ s = r) /\ IsSeq(a)
  BY <1>1, <1>2, Zenon
<1> HIDE DEF a, b, s
<1>4. Kept(r, s)
  <2>1. Kept(r, [r EXCEPT !.out = a])
    BY <1>3, KeptUpdates
  <2>2. Kept(r, [r EXCEPT !.pending = b])
    BY KeptUpdates
  <2>3. Kept(r, r)
    BY KeptSelf
  <2> QED
    BY <1>3, <2>1, <2>2, <2>3
<1> QED
  BY <1>4 DEF s

\* nano_rtc_media_rate_control_tick.
LEMMA TickKeeps ==
  ASSUME NEW r, WellFormed(r)
  PROVE  Kept(r, nano_rtc_media_rate_control_tick(r))
<1> DEFINE rc == rate_control_update(r.rc, r.bwe.estimated, r.bwe.loss, r.ladder, r.now)
           q == [r EXCEPT !.rc = rc]
           s == nano_rtc_media_rate_control_tick(r)
<1>1. s = r \/ s = q \/ s = nano_rtc_emit_event_full(q, Event("spec", 0, rc.cur_rung))
  BY DEF nano_rtc_media_rate_control_tick
<1>2. Kept(r, q)
  <2> HIDE DEF rc
  <2> QED
    BY KeptUpdates
<1> HIDE DEF q, rc, s
<1>3. Kept(q, nano_rtc_emit_event_full(q, Event("spec", 0, rc.cur_rung)))
  BY <1>2, KeptWellFormed, EmitKeeps
<1>4. Kept(r, s)
  BY <1>1, <1>2, <1>3, KeptSelf, KeptTransitive
<1> QED
  BY <1>4 DEF s

\* Updated: the event about the estimate, then the tick.
LEMMA UpdatedKeeps ==
  ASSUME NEW r, WellFormed(r), NEW b
  PROVE  Kept(r, Updated(r, b))
<1> DEFINE new == [r EXCEPT !.bwe = b]
           told == [new EXCEPT !.bwe.prev_event = b.estimated]
           said == nano_rtc_emit_event_full(told, Event("bitrate", 0, b.estimated))
           next == IF bwe_should_emit_event(b) THEN said ELSE new
<1>1. Updated(r, b) = nano_rtc_media_rate_control_tick(next)
  BY DEF Updated
<1>2. Kept(r, new)
  BY KeptUpdates
<1> HIDE DEF new
<1>3. Kept(new, told)
  <2>1. told = [new EXCEPT !.bwe = [new.bwe EXCEPT !.prev_event = b.estimated]]
    OBVIOUS
  <2>2. WellFormed(new)
    BY <1>2, KeptWellFormed
  <2> DEFINE v == [new.bwe EXCEPT !.prev_event = b.estimated]
  <2> HIDE DEF v, told
  <2>3. told = [new EXCEPT !.bwe = v]
    BY <2>1 DEF v
  <2> QED
    BY <2>2, <2>3, KeptUpdates
<1> HIDE DEF told
<1>4. Kept(told, said)
  BY <1>3, KeptWellFormed, EmitKeeps
<1> HIDE DEF said
<1>5. Kept(r, next)
  BY <1>2, <1>3, <1>4, KeptTransitive
<1> HIDE DEF next
<1>6. Kept(next, nano_rtc_media_rate_control_tick(next))
  BY <1>5, KeptWellFormed, TickKeeps
<1> QED
  BY <1>1, <1>5, <1>6, KeptTransitive

\* HandleMember: one member of a compound packet.
LEMMA MemberKeeps ==
  ASSUME NEW r, WellFormed(r), NEW member
  PROVE  Kept(r, HandleMember(r, member))
<1> DEFINE m == rtcp_parse(member)
           s == HandleMember(r, member)
<1>1. \/ s = HandleReport(r, m)
      \/ \E b : s = Updated(r, b)
      \/ \E e : s = nano_rtc_emit_event_full(r, e)
      \/ s = r
  BY DEF HandleMember
<1>2. Kept(r, HandleReport(r, m))
  <2> HIDE DEF m
  <2> DEFINE v == [r.media EXCEPT ![m.track] = [r.media[m.track] EXCEPT !.fraction_lost = m.block]]
  <2>1. HandleReport(r, m) = r \/ HandleReport(r, m) = [r EXCEPT !.media = v]
    BY DEF HandleReport
  <2>2. IsSeq(v) /\ Len(v) = Len(r.media)
    <3> DEFINE n == Len(r.media)
    <3>1. n \in Nat /\ v = [t \in 1 .. n |-> v[t]]
      BY DEF WellFormed, IsSeq
    <3> HIDE DEF n, v
    <3>2. IsSeq(v) /\ Len(v) = n
      BY <3>1, FunctionIsSeq
    <3> QED
      BY <3>2 DEF n
  <2> HIDE DEF v
  <2> QED
    <3>1. Kept(r, [r EXCEPT !.media = v])
      BY <2>2, KeptUpdates
    <3>2. Kept(r, r)
      BY KeptSelf
    <3> QED
      BY <2>1, <3>1, <3>2
<1> HIDE DEF m, s
<1>3. Kept(r, s)
  BY <1>1, <1>2, UpdatedKeeps, EmitKeeps, KeptSelf
<1> QED
  BY <1>3 DEF s

MemberFold == INSTANCE FoldFacts WITH Op <- HandleMember

\* The numbers are well-ordered, as the facts of the instance suppose.
LEMMA MemberWellOrdered == MemberFold!WellOrdered
BY LeastNat DEF MemberFold!WellOrdered

\* A compound packet.
LEMMA MembersKeep ==
  ASSUME NEW r, WellFormed(r), NEW X, NEW members \in Seq(X)
  PROVE  Kept(r, FoldLeft(HandleMember, r, members))
<1>1. PICK G : MemberFold!Runs(G, r, members)
  BY MemberWellOrdered, MemberFold!FoldRun
<1>2. /\ G[0] = r
      /\ \A k \in 1 .. Len(members) : G[k] = HandleMember(G[k - 1], members[k])
      /\ FoldLeft(HandleMember, r, members) = G[Len(members)]
  <2>1. MemberFold!Fold(r, members) = FoldLeft(HandleMember, r, members)
    BY DEF FoldLeft, MapThenFoldSet, Max,
           MemberFold!Fold, MemberFold!Largest
  <2> QED
    BY <1>1, <2>1 DEF MemberFold!Runs
<1> DEFINE n == Len(members)
           Q == {k \in Nat : k <= n => Kept(r, G[k])}
<1>3. 0 \in Q
  BY <1>2, KeptSelf
<1>4. ASSUME NEW k \in Nat, k \in Q PROVE k + 1 \in Q
  <2> SUFFICES ASSUME k + 1 <= n PROVE Kept(r, G[k + 1])
    OBVIOUS
  <2>0. n \in Nat
    OBVIOUS
  <2>1. k + 1 \in 1 .. n /\ (k + 1) - 1 = k /\ k <= n
    BY <2>0
  <2>2. Kept(r, G[k]) /\ G[k + 1] = HandleMember(G[k], members[k + 1])
    BY <1>2, <1>4, <2>1
  <2>3. Kept(G[k], G[k + 1])
    BY <2>2, KeptWellFormed, MemberKeeps
  <2> QED
    BY <2>2, <2>3, KeptTransitive
<1>5. Nat \subseteq Q
  <2> HIDE DEF Q
  <2> QED
    BY <1>3, <1>4, SetInduction
<1>6. n \in Nat
  OBVIOUS
<1>7. Kept(r, G[n])
  BY <1>5, <1>6
<1> QED
  BY <1>2, <1>7

\* Members: what is read of a compound packet is a sequence of its first members.
LEMMA MembersSeq ==
  ASSUME NEW c, IsSeq(c)
  PROVE  /\ \E X : Members(c) \in Seq(X)
         /\ \A i \in 1 .. Len(Members(c)) : i \in 1 .. Len(c) /\ Members(c)[i] = c[i]
<1> DEFINE X == Elements(c)
           I == {i \in 1 .. Len(c) : c[i].is = "broken"}
           k == BrokenAt(c)
<1>1. c \in Seq(X) /\ Len(c) \in Nat
  BY SeqOfElements DEF IsSeq
<1> HIDE DEF X
<1>2. k = IF I # {} THEN Min(I) ELSE 0
  BY DEF BrokenAt, SelectInSeq
<1> HIDE DEF k
<1>3. k \in 0 .. Len(c)
  <2>1. I \subseteq Nat /\ \A i \in I : i \in 0 .. Len(c)
    BY <1>1
  <2> HIDE DEF I
  <2>2. I # {} => Min(I) \in I
    BY <2>1, MinOf
  <2> QED
    <3>1. CASE I # {}
      <4>1. k \in I
        BY <1>2, <2>2, <3>1
      <4> QED
        BY <2>1, <4>1
    <3>2. CASE I = {}
      BY <1>1, <1>2, <3>2
    <3> QED
      BY <3>1, <3>2
<1>4. k # 0 => /\ SubSeq(c, 1, k - 1) \in Seq(X) /\ Len(SubSeq(c, 1, k - 1)) = k - 1
               /\ \A i \in 1 .. k - 1 : SubSeq(c, 1, k - 1)[i] = c[i]
  BY <1>1, <1>3
<1>5. CASE k = 0
  <2>1. Members(c) = c
    BY <1>5 DEF Members, k
  <2> QED
    BY <1>1, <2>1
<1>6. CASE k # 0
  <2>1. Members(c) = SubSeq(c, 1, k - 1)
    BY <1>6 DEF Members, k
  <2>2. \A i \in 1 .. k - 1 : i \in 1 .. Len(c)
    BY <1>1, <1>3
  <2> QED
    BY <1>4, <1>6, <2>1, <2>2
<1> QED
  BY <1>5, <1>6

-----------------------------------------------------------------------------
(* The rotation. *)

\* How many tracks the scan looks at before track t.
TurnOf(r, t) == (t - 1 - r.sr_cursor) % Len(r.media)

Ready(r) ==
  /\ WellFormed(r) /\ r.now \in Int /\ r.last_sr \in Int /\ r.sr_cursor \in Int
  /\ Len(r.media) > 0 => r.sr_cursor \in 0 .. Len(r.media) - 1

\* No track can wait longer than the scan takes to come round.
Fair(r, w) ==
  /\ w \in [1 .. Len(r.media) -> Nat]
  /\ \A t \in 1 .. Len(r.media) : w[t] + TurnOf(r, t) <= Len(r.media) - 1

\* The track that comes next is the first of those with something to report.
LEMMA NextIsFirst ==
  ASSUME NEW r, Ready(r), Reporting(r) # {}
  PROVE  /\ NextReport(r) \in Reporting(r)
         /\ \A u \in Reporting(r) : TurnOf(r, NextReport(r)) <= TurnOf(r, u)
<1> DEFINE n == Len(r.media)
           S == {TurnOf(r, t) : t \in Reporting(r)}
<1>1. n \in Nat /\ r.sr_cursor \in Int /\ Reporting(r) \subseteq 1 .. n
  BY DEF Ready, WellFormed, IsSeq, Reporting
<1>2. n > 0
  BY <1>1
<1>3. \A t \in Reporting(r) : TurnOf(r, t) \in Nat
  <2> SUFFICES ASSUME NEW t \in Reporting(r) PROVE TurnOf(r, t) \in Nat
    OBVIOUS
  <2>1. t - 1 - r.sr_cursor \in Int
    BY <1>1
  <2>2. (t - 1 - r.sr_cursor) % n \in 0 .. n - 1
    BY <1>1, <1>2, <2>1, IntDivMod
  <2> QED
    BY <2>2 DEF TurnOf
<1>4. S \subseteq Nat /\ S # {}
  BY <1>3
<1>5. PICK x \in S : \A y \in S : x <= y
  BY <1>4, LeastNat
<1>6. PICK t \in Reporting(r) : TurnOf(r, t) = x
  BY <1>5
<1>7. \A u \in Reporting(r) : TurnOf(r, t) <= TurnOf(r, u)
  BY <1>5, <1>6
<1>8. NextReport(r) = CHOOSE v \in Reporting(r) : \A u \in Reporting(r) : TurnOf(r, v) <= TurnOf(r, u)
  BY DEF NextReport, TurnOf
<1> QED
  BY <1>7, <1>8

\* After a report of track u the turn of another track t comes sooner.
LEMMA TurnFalls ==
  ASSUME NEW n \in Nat, n > 0, NEW c \in 0 .. n - 1, NEW t \in 1 .. n, NEW u \in 1 .. n, t # u,
         (u - 1 - c) % n <= (t - 1 - c) % n
  PROVE  ((t - 1 - (u % n)) % n) + 1 <= (t - 1 - c) % n
<1> DEFINE x == t - 1 - c
           y == u - 1 - c
           p == x \div n
           a == x % n
           q == y \div n
           b == y % n
           k == u \div n
           v == u % n
           m == (p - q) + k
           z == t - 1 - v
<1>1. /\ x \in Int /\ y \in Int /\ u \in Int /\ x - y = t - u
      /\ x - y < n /\ y - x < n /\ x # y
  OBVIOUS
<1>2. p \in Int /\ a \in 0 .. n - 1 /\ x = n * p + a
  BY <1>1, IntDivMod
<1>3. q \in Int /\ b \in 0 .. n - 1 /\ y = n * q + b
  BY <1>1, IntDivMod
<1>4. k \in Int /\ v \in 0 .. n - 1 /\ u = n * k + v
  BY <1>1, IntDivMod
<1>5. a # b
  BY <1>1, ModSame
<1>6. b <= a
  OBVIOUS
<1> HIDE DEF p, a, q, b, k, v
<1>7. a - b - 1 \in 0 .. n - 1
  BY <1>2, <1>3, <1>5, <1>6
<1>8. m \in Int /\ z \in Int
  BY <1>2, <1>3, <1>4
<1>9. z = n * m + (a - b - 1)
  <2>1. z = (x - y - 1) + (u - v)
    BY <1>4
  <2>2. u - v = n * k
    BY <1>4
  <2>3. x - y = n * p - n * q + (a - b)
    BY <1>2, <1>3
  <2>4. n * m = n * p - n * q + n * k
    BY <1>2, <1>3, <1>4
  <2>5. n * p \in Int /\ n * q \in Int /\ n * k \in Int
    BY <1>2, <1>3, <1>4
  <2> HIDE DEF x, y, z, m
  <2> QED
    BY <1>1, <1>2, <1>3, <2>1, <2>2, <2>3, <2>4, <2>5
<1> HIDE DEF m, z
<1>10. z % n = a - b - 1
  BY <1>7, <1>8, <1>9, ModUnique
<1>11. (z % n) + 1 <= a
  BY <1>2, <1>3, <1>10
<1> QED
  BY <1>11 DEF z, v, a

\* nano_rtc_media_emit_rtcp_sr_cadence: a report or none.
LEMMA CadenceRotates ==
  ASSUME NEW r, Ready(r), NEW w, Fair(r, w)
  PROVE  LET s == nano_rtc_media_emit_rtcp_sr_cadence(r)
         IN Ready(s) /\ Len(s.media) = Len(r.media) /\ Fair(s, Waited(w, r, s))
<1> DEFINE n == Len(r.media)
           u == NextReport(r)
           s == nano_rtc_media_emit_rtcp_sr_cadence(r)
           sent == [r EXCEPT !.out = Append(r.out, Event("sr", u, 0)), !.last_sr = r.now,
                             !.sr_cursor = u % n]
<1>0. n \in Nat /\ r.now \in Int /\ r.last_sr \in Int /\ DOMAIN r = Fields /\ IsSeq(r.out)
      /\ IsSeq(r.media)
  BY DEF Ready, WellFormed, IsSeq
<1>1. CASE s = r
  <2>1. Waited(w, r, r) = w
    BY DEF Waited
  <2> QED
    BY <1>1, <2>1
<1>2. CASE s # r
  <2>1. /\ s = sent /\ u # 0
        /\ ~(nano_time_elapsed(r.now, r.last_sr, CLOCK) < RTCP_INTERVAL)
    BY <1>2 DEF nano_rtc_media_emit_rtcp_sr_cadence
  <2> HIDE DEF s
  <2>2. Reporting(r) # {}
    BY <2>1 DEF NextReport
  <2>3. u \in Reporting(r) /\ \A t \in Reporting(r) : TurnOf(r, u) <= TurnOf(r, t)
    BY <2>2, NextIsFirst
  <2> HIDE DEF u
  <2>4. u \in 1 .. n /\ n > 0
    BY <1>0, <2>3 DEF Reporting
  <2>5. r.sr_cursor \in 0 .. n - 1
    BY <2>4 DEF Ready
  <2>6. u % n \in 0 .. n - 1
    <3>1. n \in Nat /\ n > 0 /\ u \in Int
      BY <1>0, <2>4
    <3> HIDE DEF n
    <3> QED
      BY <3>1, IntDivMod
  <2>7. r.now # r.last_sr
    <3> SUFFICES ASSUME r.now = r.last_sr PROVE FALSE
      OBVIOUS
    <3>1. r.now - r.last_sr = 0
      BY <1>0
    <3>2. nano_time_elapsed(r.now, r.last_sr, CLOCK) = 0
      <4>1. CLOCK \in Nat /\ CLOCK > 0 /\ 0 \in 0 .. CLOCK - 1 /\ 0 = CLOCK * 0 + 0
        BY RateSizes
      <4>2. 0 % CLOCK = 0
        BY <4>1, ModUnique
      <4> QED
        BY <3>1, <4>2 DEF nano_time_elapsed
    <3> QED
      BY <2>1, <3>2, RateSizes
  <2>8. /\ DOMAIN s = Fields /\ s.last_sr = r.now /\ s.now = r.now /\ s.sr_cursor = u % n
        /\ s.media = r.media /\ s.out = Append(r.out, Event("sr", u, 0))
    <3> DEFINE o == Append(r.out, Event("sr", u, 0))
               v == u % n
    <3>1. s = [r EXCEPT !.out = o, !.last_sr = r.now, !.sr_cursor = v]
      BY <2>1
    <3> HIDE DEF o, v
    <3>2. /\ DOMAIN s = Fields /\ s.last_sr = r.now /\ s.now = r.now /\ s.sr_cursor = v
          /\ s.media = r.media /\ s.out = o
      BY <1>0, <3>1 DEF Fields
    <3> QED
      BY <3>2 DEF o, v
  <2>9. IsSeq(s.out) /\ Last(s.out) = Event("sr", u, 0) /\ Event("sr", u, 0).key = u
    BY <1>0, <2>8, AppendIsSeq DEF Event
  <2>10. Ready(s)
    BY <1>0, <2>6, <2>8, <2>9 DEF Ready, WellFormed
  <2> DEFINE x == Waited(w, r, s)
  <2>11. w \in [1 .. n -> Nat] /\ \A t \in 1 .. n : w[t] + TurnOf(r, t) <= n - 1
    BY DEF Fair
  <2>12. x = [t \in 1 .. n |-> IF t \notin Reporting(r) \/ t = u THEN 0 ELSE w[t] + 1]
    BY <2>7, <2>8, <2>9, <2>11 DEF Waited
  <2> HIDE DEF x
  <2>13. x \in [1 .. n -> Nat]
    BY <2>11, <2>12
  <2>14. ASSUME NEW t \in 1 .. n PROVE x[t] + TurnOf(s, t) <= n - 1
    <3>1. t - 1 - r.sr_cursor \in Int /\ t - 1 - (u % n) \in Int
      BY <1>0, <2>5, <2>6
    <3>2. TurnOf(r, t) = (t - 1 - r.sr_cursor) % n /\ TurnOf(s, t) = (t - 1 - (u % n)) % n
      BY <2>8 DEF TurnOf
    <3>3. TurnOf(r, t) \in 0 .. n - 1 /\ TurnOf(s, t) \in 0 .. n - 1
      BY <1>0, <2>4, <3>1, <3>2, IntDivMod
    <3>4. CASE t \notin Reporting(r) \/ t = u
      <4>1. x[t] = 0
        BY <2>12, <3>4
      <4> QED
        BY <1>0, <3>3, <4>1
    <3>5. CASE t \in Reporting(r) /\ t # u
      <4>1. x[t] = w[t] + 1 /\ w[t] \in Nat /\ w[t] + TurnOf(r, t) <= n - 1
        BY <2>11, <2>12, <3>5
      <4>2. (u - 1 - r.sr_cursor) % n <= (t - 1 - r.sr_cursor) % n
        BY <2>3, <3>5 DEF TurnOf
      <4>3. ((t - 1 - (u % n)) % n) + 1 <= (t - 1 - r.sr_cursor) % n
        BY <1>0, <2>4, <2>5, <3>5, <4>2, TurnFalls
      <4> QED
        BY <1>0, <3>2, <3>3, <4>1, <4>3
    <3> QED
      BY <3>4, <3>5
  <2>15. Fair(s, x)
    BY <2>8, <2>13, <2>14 DEF Fair
  <2> QED
    BY <2>8, <2>10, <2>15 DEF x, s
<1> QED
  BY <1>1, <1>2

-----------------------------------------------------------------------------
(* The invariant. *)

RotationInv ==
  /\ "name" \in DOMAIN plan /\ plan.name \in DOMAIN Scenarios
  /\ "waited" \in DOMAIN past
  /\ Ready(rtc) /\ Fair(rtc, past.waited)

\* A step that keeps the cursor, the clock and the counts keeps the rest.
LEMMA KeptStep ==
  ASSUME NEW r, NEW s, NEW w, Ready(r), Fair(r, w), Kept(r, s)
  PROVE  Ready(s) /\ Fair(s, w)
BY DEF Ready, Fair, Kept, TurnOf, WellFormed

\* The invariant of the rotation holds when the connection is up.
LEMMA InitRotation == Init => RotationInv
<1> SUFFICES ASSUME Init PROVE RotationInv
  OBVIOUS
<1>1. PICK name \in DOMAIN Scenarios :
        /\ rtc = [bwe |-> bwe_init, rc |-> rate_control_init, ladder |-> Scenarios[name].ladder,
                  media |-> [t \in 1 .. Scenarios[name].tracks |->
                               [direction |-> "sendrecv", sent |-> FALSE, fraction_lost |-> 0]],
                  out |-> <<>>, pending |-> <<>>, sr_cursor |-> 0,
                  last_sr |-> Scenarios[name].start, now |-> Scenarios[name].start]
        /\ past = [ticks |-> <<>>, read |-> <<0, 0>>, pct |-> EVENT_THRESHOLD_PCT,
                   waited |-> [t \in 1 .. Scenarios[name].tracks |-> 0], asked |-> {},
                   reported |-> [t \in 1 .. Scenarios[name].tracks |-> 0]]
        /\ plan = [name |-> name, inputs |-> Scenarios[name].max_inputs,
                   calls |-> Scenarios[name].calls]
  BY DEF Init
<1> DEFINE n == Scenarios[name].tracks
           start == Scenarios[name].start
           track == [direction |-> "sendrecv", sent |-> FALSE, fraction_lost |-> 0]
           m == [t \in 1 .. n |-> track]
           w == [t \in 1 .. n |-> 0]
<1>2. n \in Nat /\ start \in Int
  BY RateSizes
<1>3. /\ rtc.media = m /\ rtc.out = <<>> /\ rtc.sr_cursor = 0 /\ rtc.last_sr = start
      /\ rtc.now = start /\ DOMAIN rtc = Fields
  BY <1>1 DEF Fields
<1>4. past.waited = w /\ "waited" \in DOMAIN past
  BY <1>1
<1>5. "name" \in DOMAIN plan /\ plan.name \in DOMAIN Scenarios
  BY <1>1
<1> HIDE DEF n, start, track
<1>6. IsSeq(m) /\ Len(m) = n
  <2>1. m = [t \in 1 .. n |-> m[t]]
    OBVIOUS
  <2> HIDE DEF m
  <2> QED
    BY <1>2, <2>1, FunctionIsSeq
<1> HIDE DEF m
<1>7. IsSeq(rtc.out)
  BY <1>3 DEF IsSeq
<1>8. Ready(rtc)
  BY <1>2, <1>3, <1>6, <1>7 DEF Ready, WellFormed
<1>9. w \in [1 .. n -> Nat] /\ \A t \in 1 .. n : w[t] = 0
  OBVIOUS
<1> HIDE DEF w
<1>10. ASSUME NEW t \in 1 .. n PROVE TurnOf(rtc, t) \in 0 .. n - 1
  <2>1. n > 0 /\ t - 1 - 0 \in Int
    BY <1>2
  <2>2. TurnOf(rtc, t) = (t - 1 - 0) % n
    BY <1>3, <1>6 DEF TurnOf
  <2> QED
    BY <1>2, <2>1, <2>2, IntDivMod
<1>11. Fair(rtc, w)
  BY <1>2, <1>3, <1>6, <1>9, <1>10 DEF Fair
<1> QED
  BY <1>4, <1>5, <1>8, <1>11 DEF RotationInv

\* nanortc_handle_input: the timers, then the packet.
LEMMA InputRotates ==
  ASSUME RotationInv, nanortc_handle_input
  PROVE  RotationInv'
<1>1. PICK gap \in Scenario.gaps, compound \in Scenario.inputs :
        LET begun == [rtc EXCEPT !.now = (@ + gap) % CLOCK]
            timed == nano_rtc_media_emit_rtcp_sr_cadence(begun)
        IN /\ plan' = [plan EXCEPT !.inputs = @ - 1]
           /\ rtc' = FoldLeft(HandleMember, timed, Members(compound))
           /\ "waited" \in DOMAIN past'
           /\ past'.waited = Waited(past.waited, begun, timed)
  BY DEF nanortc_handle_input
<1> DEFINE begun == [rtc EXCEPT !.now = (rtc.now + gap) % CLOCK]
           timed == nano_rtc_media_emit_rtcp_sr_cadence(begun)
<1>2. /\ rtc' = FoldLeft(HandleMember, timed, Members(compound))
      /\ past'.waited = Waited(past.waited, begun, timed)
  BY <1>1
<1>3. gap \in Int /\ IsSeq(compound)
  BY RateSizes DEF RotationInv, Scenario, IsSeq
<1>4. Ready(begun) /\ Fair(begun, past.waited)
  <2> DEFINE v == (rtc.now + gap) % CLOCK
  <2>1. v \in Int
    <3>1. rtc.now + gap \in Int /\ CLOCK \in Nat /\ CLOCK > 0
      BY <1>3, RateSizes DEF RotationInv, Ready
    <3> QED
      BY <3>1, IntDivMod
  <2>2. begun = [rtc EXCEPT !.now = v]
    OBVIOUS
  <2> HIDE DEF v, begun
  <2>3. /\ DOMAIN begun = Fields /\ begun.now = v /\ begun.last_sr = rtc.last_sr
        /\ begun.sr_cursor = rtc.sr_cursor /\ begun.media = rtc.media /\ begun.out = rtc.out
    BY <2>2 DEF RotationInv, Ready, WellFormed, Fields
  <2> QED
    BY <2>1, <2>3 DEF RotationInv, Ready, WellFormed, Fair, TurnOf
<1> HIDE DEF begun
<1>5. Ready(timed) /\ Fair(timed, Waited(past.waited, begun, timed))
  BY <1>4, CadenceRotates
<1> HIDE DEF timed
<1>6. Kept(timed, rtc')
  <2>1. PICK X : Members(compound) \in Seq(X)
    BY <1>3, MembersSeq
  <2> QED
    BY <1>2, <1>5, <2>1, MembersKeep DEF Ready
<1>7. Ready(rtc)' /\ Fair(rtc, past.waited)'
  BY <1>2, <1>5, <1>6, KeptStep
<1>8. "name" \in DOMAIN plan' /\ plan'.name = plan.name
  BY <1>1 DEF RotationInv
<1> QED
  BY <1>1, <1>7, <1>8 DEF RotationInv

\* The other steps leave cursor, clock, counts and the number of tracks alone.
LEMMA QuietStep ==
  ASSUME RotationInv, Kept(rtc, rtc'), "waited" \in DOMAIN past', past'.waited = past.waited,
         "name" \in DOMAIN plan', plan'.name = plan.name
  PROVE  RotationInv'
<1>1. Ready(rtc)' /\ Fair(rtc, past.waited)'
  BY KeptStep DEF RotationInv
<1> QED
  BY <1>1 DEF RotationInv

\* Called uses up a call and nothing else of the plan.
LEMMA CalledKeeps ==
  ASSUME RotationInv, NEW c, Called(c)
  PROVE  "name" \in DOMAIN plan' /\ plan'.name = plan.name
BY DEF RotationInv, Called

\* nanortc_poll_output takes an output and nothing else.
LEMMA PollRotates ==
  ASSUME RotationInv, nanortc_poll_output
  PROVE  RotationInv'
<1>1. WellFormed(rtc) /\ "waited" \in DOMAIN past /\ "name" \in DOMAIN plan
  BY DEF RotationInv, Ready
<1>2. Kept(rtc, rtc')
  <2>1. CASE rtc.out # <<>>
    <3> DEFINE o == Tail(rtc.out)
    <3>1. rtc' = [rtc EXCEPT !.out = o]
      BY <2>1 DEF nanortc_poll_output
    <3>2. IsSeq(o)
      BY <1>1, <2>1, TailAt DEF WellFormed
    <3> HIDE DEF o
    <3> QED
      BY <1>1, <3>1, <3>2, KeptUpdates
  <2>2. CASE rtc.out = <<>>
    <3> DEFINE o == Tail(rtc.pending)
    <3>1. rtc' = [rtc EXCEPT !.pending = o]
      BY <2>2 DEF nanortc_poll_output
    <3> HIDE DEF o
    <3> QED
      BY <1>1, <3>1, KeptUpdates
  <2> QED
    BY <2>1, <2>2
<1>3. "waited" \in DOMAIN past' /\ past'.waited = past.waited /\ plan' = plan
  BY <1>1 DEF nanortc_poll_output
<1> QED
  BY <1>1, <1>2, <1>3, QuietStep

\* Calls that set something of the estimator or of the controller.
LEMMA SettingsRotate ==
  ASSUME RotationInv,
         \/ nanortc_set_bitrate_bounds \/ nanortc_set_initial_bitrate
         \/ nanortc_set_bwe_event_threshold \/ nanortc_set_capability_ladder
  PROVE  RotationInv'
<1>1. WellFormed(rtc) /\ "waited" \in DOMAIN past
  BY DEF RotationInv, Ready
<1>2. PICK c : Called(c)
  BY DEF nanortc_set_bitrate_bounds, nanortc_set_initial_bitrate,
         nanortc_set_bwe_event_threshold, nanortc_set_capability_ladder
<1>3. "waited" \in DOMAIN past' /\ past'.waited = past.waited
  BY <1>1 DEF nanortc_set_bitrate_bounds, nanortc_set_initial_bitrate,
              nanortc_set_bwe_event_threshold, nanortc_set_capability_ladder
<1>4. Kept(rtc, rtc')
  <2>1. CASE \E v : rtc' = [rtc EXCEPT !.bwe = v]
    <3>1. PICK v : rtc' = [rtc EXCEPT !.bwe = v]
      BY <2>1
    <3>2. Kept(rtc, [rtc EXCEPT !.bwe = v])
      BY <1>1, KeptUpdates
    <3> QED
      BY <3>1, <3>2
  <2>2. CASE \E v, u : rtc' = [rtc EXCEPT !.ladder = v, !.rc = u]
    <3>1. PICK v, u : rtc' = [rtc EXCEPT !.ladder = v, !.rc = u]
      BY <2>2
    <3> QED
      BY <1>1, <3>1 DEF Kept, WellFormed, Fields
  <2>3. CASE rtc' = rtc
    BY <1>1, <2>3, KeptSelf
  <2>4. CASE nanortc_set_bitrate_bounds
    BY <2>1, <2>4 DEF nanortc_set_bitrate_bounds
  <2>5. CASE nanortc_set_initial_bitrate
    BY <2>1, <2>5 DEF nanortc_set_initial_bitrate
  <2>6. CASE nanortc_set_bwe_event_threshold
    <3>1. PICK p : rtc' = rtc \/ rtc' = [rtc EXCEPT !.bwe.pct = p]
      BY <2>6 DEF nanortc_set_bwe_event_threshold
    <3> DEFINE v == [rtc.bwe EXCEPT !.pct = p]
    <3>2. [rtc EXCEPT !.bwe.pct = p] = [rtc EXCEPT !.bwe = v]
      OBVIOUS
    <3> HIDE DEF v
    <3> QED
      BY <2>1, <2>3, <3>1, <3>2
  <2>7. CASE nanortc_set_capability_ladder
    <3>1. PICK d : \/ rtc' = [rtc EXCEPT !.ladder = d.rungs, !.rc = rate_control_init]
                   \/ rtc' = rtc
      BY <2>7 DEF nanortc_set_capability_ladder
    <3> QED
      BY <2>2, <2>3, <3>1
  <2> QED
    BY <2>4, <2>5, <2>6, <2>7
<1> QED
  BY <1>2, <1>3, <1>4, CalledKeeps, QuietStep

\* A change of one track's state leaves as many tracks.
LEMMA TrackKept ==
  ASSUME NEW r, WellFormed(r), NEW t, NEW v
  PROVE  Kept(r, [r EXCEPT !.media[t] = v])
<1> DEFINE m == [r.media EXCEPT ![t] = v]
           n == Len(r.media)
<1>1. n \in Nat /\ m = [i \in 1 .. n |-> m[i]]
  BY DEF WellFormed, IsSeq
<1>2. [r EXCEPT !.media[t] = v] = [r EXCEPT !.media = m]
  OBVIOUS
<1> HIDE DEF m, n
<1>3. IsSeq(m) /\ Len(m) = n
  BY <1>1, FunctionIsSeq
<1>4. IsSeq(m) /\ Len(m) = Len(r.media)
  BY <1>3 DEF n
<1>5. Kept(r, [r EXCEPT !.media = m])
  BY <1>4, KeptUpdates
<1> QED
  BY <1>2, <1>5

\* One more output.
LEMMA AppendKept ==
  ASSUME NEW r, WellFormed(r), NEW e
  PROVE  Kept(r, [r EXCEPT !.out = Append(r.out, e)])
<1> DEFINE o == Append(r.out, e)
<1>1. IsSeq(o)
  BY AppendIsSeq DEF WellFormed
<1> HIDE DEF o
<1>2. Kept(r, [r EXCEPT !.out = o])
  BY <1>1, KeptUpdates
<1> QED
  BY <1>2 DEF o

\* Calls about a track.
LEMMA TrackCallsRotate ==
  ASSUME RotationInv, nanortc_set_direction \/ nanortc_send_audio \/ nanortc_request_keyframe
  PROVE  RotationInv'
<1>1. WellFormed(rtc) /\ "waited" \in DOMAIN past
  BY DEF RotationInv, Ready
<1>2. (\E c : Called(c)) /\ past' = past
  BY DEF nanortc_set_direction, nanortc_send_audio, nanortc_request_keyframe
<1>3. Kept(rtc, rtc')
  <2>0. Kept(rtc, rtc)
    BY <1>1, KeptSelf
  <2>1. CASE nanortc_set_direction
    <3>1. PICK c, e : LET set == [rtc EXCEPT !.media[c.track].direction = c.direction]
                      IN rtc' = rtc \/ rtc' = nano_rtc_emit_event_full(set, e)
      BY <2>1 DEF nanortc_set_direction
    <3> DEFINE v == [rtc.media[c.track] EXCEPT !.direction = c.direction]
               set == [rtc EXCEPT !.media[c.track] = v]
    <3>2. rtc' = rtc \/ rtc' = nano_rtc_emit_event_full(set, e)
      BY <3>1
    <3>3. Kept(rtc, set)
      <4> HIDE DEF v
      <4> QED
        BY <1>1, TrackKept
    <3> HIDE DEF set
    <3>4. Kept(set, nano_rtc_emit_event_full(set, e))
      BY <3>3, KeptWellFormed, EmitKeeps
    <3> QED
      BY <2>0, <3>2, <3>3, <3>4, KeptTransitive
  <2>2. CASE nanortc_send_audio
    <3>1. PICK t, e : \/ rtc' = rtc
                      \/ rtc' = [rtc EXCEPT !.media[t].sent = TRUE, !.out = Append(@, e)]
      BY <2>2 DEF nanortc_send_audio, rtc_send_audio
    <3> DEFINE v == [rtc.media[t] EXCEPT !.sent = TRUE]
               set == [rtc EXCEPT !.media[t] = v]
    <3>2. Kept(rtc, set)
      <4> HIDE DEF v
      <4> QED
        BY <1>1, TrackKept
    <3>3. set.out = rtc.out
      BY <1>1 DEF WellFormed, Fields
    <3>4. [rtc EXCEPT !.media[t].sent = TRUE, !.out = Append(@, e)]
            = [set EXCEPT !.out = Append(rtc.out, e)]
      BY <1>1 DEF WellFormed, Fields
    <3> HIDE DEF set
    <3>5. Kept(set, [set EXCEPT !.out = Append(set.out, e)])
      BY <3>2, KeptWellFormed, AppendKept
    <3>6. Kept(rtc, [set EXCEPT !.out = Append(rtc.out, e)])
      BY <3>2, <3>3, <3>5, KeptTransitive
    <3> QED
      BY <2>0, <3>1, <3>4, <3>6
  <2>3. CASE nanortc_request_keyframe
    <3>1. PICK e : rtc' = rtc \/ rtc' = [rtc EXCEPT !.out = Append(rtc.out, e)]
      BY <2>3 DEF nanortc_request_keyframe, rtc_emit_pli
    <3>2. Kept(rtc, [rtc EXCEPT !.out = Append(rtc.out, e)])
      BY <1>1, AppendKept
    <3> QED
      BY <2>0, <3>1, <3>2
  <2> QED
    BY <2>1, <2>2, <2>3
<1>4. PICK c : Called(c)
  BY <1>2
<1> QED
  BY <1>1, <1>2, <1>3, <1>4, CalledKeeps, QuietStep

\* Every step keeps the invariant of the rotation.
LEMMA RotationStep == RotationInv /\ [Next]_vars => RotationInv'
<1> SUFFICES ASSUME RotationInv, [Next]_vars PROVE RotationInv'
  OBVIOUS
<1>1. CASE UNCHANGED vars
  BY <1>1 DEF vars, RotationInv, Ready, Fair, WellFormed, IsSeq, TurnOf
<1>2. CASE nanortc_handle_input
  BY <1>2, InputRotates
<1>3. CASE nanortc_poll_output
  BY <1>3, PollRotates
<1>4. CASE \/ nanortc_set_bitrate_bounds \/ nanortc_set_initial_bitrate
           \/ nanortc_set_bwe_event_threshold \/ nanortc_set_capability_ladder
  BY <1>4, SettingsRotate
<1>5. CASE nanortc_set_direction \/ nanortc_send_audio \/ nanortc_request_keyframe
  BY <1>5, TrackCallsRotate
<1> QED
  BY <1>1, <1>2, <1>3, <1>4, <1>5 DEF Next

\* Sender Reports rotate, for every number of tracks, every clock and interval, and whatever
\* arrives and is called in between: while a track has something to report the others report
\* less often than there are tracks before its turn (nano_rtc_media_emit_rtcp_sr_cadence).
THEOREM EveryTrackReports == Spec => []ReportsRotate
<1>1. RotationInv => ReportsRotate
  <2> SUFFICES ASSUME RotationInv, NEW t \in 1 .. Len(rtc.media)
               PROVE  past.waited[t] < Len(rtc.media)
    BY DEF ReportsRotate
  <2> DEFINE n == Len(rtc.media)
             w == past.waited[t]
  <2>1. n \in Nat /\ n > 0 /\ t - 1 - rtc.sr_cursor \in Int
    BY DEF RotationInv, Ready, WellFormed, IsSeq
  <2>2. TurnOf(rtc, t) \in 0 .. n - 1
    BY <2>1, IntDivMod DEF TurnOf
  <2>3. w \in Nat /\ w + TurnOf(rtc, t) <= n - 1
    BY DEF RotationInv, Fair
  <2> QED
    BY <2>1, <2>2, <2>3
<1> QED
  BY <1>1, InitRotation, RotationStep, PTL DEF Spec
-----------------------------------------------------------------------------
(* Events in the queue and in the list of those that wait. *)

KeyOf(e) == <<e.is, e.key>>
Absent(q, k) == \A i \in 1 .. Len(q) : KeyOf(q[i]) # k

\* The last event of q with key k carries v.
LastIs(q, k, v) ==
  \E i \in 1 .. Len(q) : /\ KeyOf(q[i]) = k /\ q[i].value = v
                         /\ \A j \in 1 .. Len(q) : j > i => KeyOf(q[j]) # k

\* The last event with key k, of those that wait or else of those in the queue, carries the
\* value v that holds now; when there is none the application knows it.
Told(out, pending, k, v, known) ==
  \/ LastIs(pending, k, v)
  \/ Absent(pending, k) /\ LastIs(out, k, v)
  \/ Absent(pending, k) /\ Absent(out, k) /\ known = v

Present(out, pending, k) == ~Absent(out, k) \/ ~Absent(pending, k)

\* The number of a key among those of the events with n tracks.
NumberOf(k, n) ==
  IF k[1] = "bitrate" THEN 1 ELSE IF k[1] = "spec" THEN 2
  ELSE IF k[1] = "keyframe" THEN 2 + k[2] ELSE 2 + n + k[2]

Keys(n) == {<<"bitrate", 0>>, <<"spec", 0>>} \cup ({"keyframe", "changed"} \X (1 .. n))

\* Events wait one for each key.
WaitOnce(pending, n) ==
  /\ IsSeq(pending)
  /\ \A i \in 1 .. Len(pending) : KeyOf(pending[i]) \in Keys(n)
  /\ \A i, j \in 1 .. Len(pending) : i # j => KeyOf(pending[i]) # KeyOf(pending[j])

\* With n tracks there are 2 * n + 2 keys,
LEMMA Numbered ==
  ASSUME NEW n \in Nat, NEW k \in Keys(n)
  PROVE  NumberOf(k, n) \in 1 .. 2 * n + 2
<1>1. CASE k = <<"bitrate", 0>> \/ k = <<"spec", 0>>
  BY <1>1 DEF NumberOf
<1>2. CASE \E t \in 1 .. n : k = <<"keyframe", t>> \/ k = <<"changed", t>>
  BY <1>2 DEF NumberOf
<1> QED
  BY <1>1, <1>2 DEF Keys

\* each with a number of its own.
LEMMA NumbersDiffer ==
  ASSUME NEW n \in Nat, NEW k \in Keys(n), NEW l \in Keys(n), NumberOf(k, n) = NumberOf(l, n)
  PROVE  k = l
<1> DEFINE B(x) == x = <<"bitrate", 0>> /\ NumberOf(x, n) = 1
           S(x) == x = <<"spec", 0>> /\ NumberOf(x, n) = 2
           F(x) == \E t \in 1 .. n : x = <<"keyframe", t>> /\ NumberOf(x, n) = 2 + t
           C(x) == \E t \in 1 .. n : x = <<"changed", t>> /\ NumberOf(x, n) = 2 + n + t
<1>1. ASSUME NEW x \in Keys(n) PROVE B(x) \/ S(x) \/ F(x) \/ C(x)
  <2>1. \/ x = <<"bitrate", 0>> \/ x = <<"spec", 0>>
        \/ \E t \in 1 .. n : x = <<"keyframe", t>> \/ x = <<"changed", t>>
    BY DEF Keys
  <2> QED
    BY <2>1 DEF NumberOf
<1>2. (B(k) \/ S(k) \/ F(k) \/ C(k)) /\ (B(l) \/ S(l) \/ F(l) \/ C(l))
  BY <1>1
<1> QED
  BY <1>2

\* An event whose key does not wait finds room: there is one place for each key.
LEMMA RoomToWait ==
  ASSUME NEW n \in Nat, NEW p, WaitOnce(p, n), NEW k \in Keys(n), Absent(p, k)
  PROVE  Len(p) < 2 * n + 2
<1> DEFINE m == Len(p)
           S == 1 .. m + 1
           T == 1 .. 2 * n + 2
           key(i) == IF i <= m THEN KeyOf(p[i]) ELSE k
           f == [i \in S |-> NumberOf(key(i), n)]
<1>1. m \in Nat
  BY DEF WaitOnce, IsSeq
<1>2. \A i \in S : key(i) \in Keys(n)
  BY <1>1 DEF WaitOnce
<1>3. f \in [S -> T]
  BY <1>2, Numbered
<1>4. \A i, j \in S : i # j => f[i] # f[j]
  <2> SUFFICES ASSUME NEW i \in S, NEW j \in S, i # j PROVE f[i] # f[j]
    OBVIOUS
  <2>1. key(i) # key(j)
    BY <1>1 DEF WaitOnce, Absent
  <2>2. key(i) \in Keys(n) /\ key(j) \in Keys(n)
    BY <1>2
  <2>3. f[i] = NumberOf(key(i), n) /\ f[j] = NumberOf(key(j), n)
    OBVIOUS
  <2> HIDE DEF key, f
  <2> QED
    BY <2>1, <2>2, <2>3, NumbersDiffer
<1>5. /\ IsFiniteSet(S) /\ Cardinality(S) = m + 1
      /\ IsFiniteSet(T) /\ Cardinality(T) = 2 * n + 2
  <2>1. 1 \in Int /\ m + 1 \in Int /\ 2 * n + 2 \in Int
    BY <1>1
  <2>2. /\ IsFiniteSet(S) /\ Cardinality(S) = IF 1 > m + 1 THEN 0 ELSE (m + 1) - 1 + 1
        /\ IsFiniteSet(T) /\ Cardinality(T) = IF 1 > 2 * n + 2 THEN 0 ELSE (2 * n + 2) - 1 + 1
    BY <2>1, FS_Interval
  <2> QED
    BY <1>1, <2>2
<1> HIDE DEF f, S, T
<1>6. ~(Cardinality(T) < Cardinality(S))
  BY <1>3, <1>4, <1>5, FS_PigeonHole
<1> QED
  BY <1>1, <1>5, <1>6

\* The removal of an element.
LEMMA RemoveIndex ==
  ASSUME NEW q, IsSeq(q), NEW d \in 1 .. Len(q)
  PROVE  /\ IsSeq(RemoveAt(q, d)) /\ Len(RemoveAt(q, d)) = Len(q) - 1
         /\ \A i \in 1 .. Len(q) - 1 : RemoveAt(q, d)[i] = q[IF i < d THEN i ELSE i + 1]
<1> DEFINE X == Elements(q)
           o == d - 1
           c == SubSeq(q, 1, o) \o SubSeq(q, o + 1 + 1, Len(q))
<1>1. q \in Seq(X) /\ Len(q) \in Nat
  BY SeqOfElements DEF IsSeq
<1> HIDE DEF X
<1>2. o \in Nat /\ 1 \in Nat /\ o + 1 <= Len(q) /\ o + 1 + 1 = d + 1
  BY <1>1
<1>3. /\ c \in Seq(X) /\ Len(c) = Len(q) - 1
      /\ \A p \in 1 .. Len(c) : c[p] = q[IF p <= o THEN p ELSE p + 1]
  <2> DEFINE l == 1
             cut == SubSeq(q, 1, o) \o SubSeq(q, o + l + 1, Len(q))
  <2>1. l \in Nat /\ o + l <= Len(q) /\ cut = c
    BY <1>2
  <2>2. l = 1
    OBVIOUS
  <2> HIDE DEF o, l, c
  <2>3. o \in Nat
    BY <1>2
  <2>4. /\ cut \in Seq(X) /\ Len(cut) = Len(q) - l
        /\ \A p \in 1 .. Len(cut) : cut[p] = q[IF p <= o THEN p ELSE p + l]
    BY <1>1, <2>1, <2>3, CutBytes, ZenonT(60)
  <2> HIDE DEF cut
  <2> QED
    BY <2>1, <2>2, <2>4
<1>4. RemoveAt(q, d) = c
  BY <1>2 DEF RemoveAt
<1> HIDE DEF c
<1>5. IsSeq(c)
  BY <1>3, SeqIs
<1>6. ASSUME NEW i \in 1 .. Len(q) - 1 PROVE c[i] = q[IF i < d THEN i ELSE i + 1]
  <2>1. (i <= o) = (i < d)
    BY <1>1
  <2> HIDE DEF o
  <2> QED
    BY <1>3, <2>1
<1> QED
  BY <1>3, <1>4, <1>5, <1>6

\* What Append does to the last event of each key.
LEMMA AppendSame ==
  ASSUME NEW q, IsSeq(q), NEW e
  PROVE  LastIs(Append(q, e), KeyOf(e), e.value) /\ ~Absent(Append(q, e), KeyOf(e))
<1> DEFINE a == Append(q, e)
           n == Len(q) + 1
<1>1. Len(a) = n /\ n \in Nat /\ n > 0 /\ a[n] = e
  BY AppendAt DEF IsSeq
<1> HIDE DEF a, n
<1>2. n \in 1 .. Len(a) /\ \A j \in 1 .. Len(a) : ~(j > n)
  BY <1>1
<1>3. LastIs(a, KeyOf(e), e.value) /\ ~Absent(a, KeyOf(e))
  BY <1>1, <1>2 DEF LastIs, Absent
<1> QED
  BY <1>3 DEF a

\* It leaves the last event of every other key.
LEMMA AppendOther ==
  ASSUME NEW q, IsSeq(q), NEW e, NEW k, k # KeyOf(e)
  PROVE  /\ Absent(Append(q, e), k) <=> Absent(q, k)
         /\ \A v : LastIs(q, k, v) => LastIs(Append(q, e), k, v)
<1> DEFINE a == Append(q, e)
           n == Len(q)
<1>1. /\ n \in Nat /\ Len(a) = n + 1 /\ a[n + 1] = e
      /\ \A i \in 1 .. n : a[i] = q[i]
  BY AppendAt DEF IsSeq
<1>2. 1 .. n + 1 = (1 .. n) \cup {n + 1}
  BY <1>1
<1> HIDE DEF a
<1>3. Absent(a, k) <=> Absent(q, k)
  BY <1>1, <1>2 DEF Absent
<1>4. ASSUME NEW v, LastIs(q, k, v) PROVE LastIs(a, k, v)
  <2>1. PICK i \in 1 .. n : /\ KeyOf(q[i]) = k /\ q[i].value = v
                            /\ \A j \in 1 .. n : j > i => KeyOf(q[j]) # k
    BY <1>4 DEF LastIs
  <2>2. KeyOf(a[i]) = k /\ a[i].value = v /\ i \in 1 .. Len(a)
    BY <1>1, <1>2, <2>1
  <2>3. ASSUME NEW j \in 1 .. Len(a), j > i PROVE KeyOf(a[j]) # k
    <3>1. j \in 1 .. n \/ j = n + 1
      BY <1>1, <1>2
    <3>2. j \in 1 .. n => KeyOf(a[j]) # k
      BY <1>1, <2>1, <2>3
    <3> QED
      BY <1>1, <3>1, <3>2
  <2> QED
    BY <2>2, <2>3 DEF LastIs
<1> QED
  BY <1>3, <1>4 DEF a

\* Polling the first event of a queue: the last event with a key stays, or was the polled one.
LEMMA TailLast ==
  ASSUME NEW q, IsSeq(q), q # <<>>, NEW k
  PROVE  /\ Absent(q, k) => Absent(Tail(q), k) /\ KeyOf(Head(q)) # k
         /\ Absent(Tail(q), k) /\ KeyOf(Head(q)) # k => Absent(q, k)
         /\ \A v : LastIs(q, k, v) =>
              \/ LastIs(Tail(q), k, v)
              \/ Absent(Tail(q), k) /\ KeyOf(Head(q)) = k /\ Head(q).value = v
<1> DEFINE n == Len(q)
           a == Tail(q)
<1>1. /\ n \in Nat /\ n > 0 /\ Len(a) = n - 1 /\ Head(q) = q[1]
      /\ \A i \in 1 .. n - 1 : a[i] = q[i + 1]
  BY TailAt DEF IsSeq
<1>2. \A i \in 1 .. n : i = 1 \/ (i - 1 \in 1 .. n - 1 /\ a[i - 1] = q[i])
  <2> SUFFICES ASSUME NEW i \in 1 .. n, i # 1 PROVE i - 1 \in 1 .. n - 1 /\ a[i - 1] = q[i]
    OBVIOUS
  <2>1. i - 1 \in 1 .. n - 1 /\ (i - 1) + 1 = i
    BY <1>1
  <2> QED
    BY <1>1, <2>1
<1>3. \A i \in 1 .. n - 1 : i + 1 \in 1 .. n
  BY <1>1
<1> HIDE DEF a
<1>4. Absent(q, k) => Absent(a, k) /\ KeyOf(Head(q)) # k
  BY <1>1, <1>3 DEF Absent
<1>5. Absent(a, k) /\ KeyOf(Head(q)) # k => Absent(q, k)
  BY <1>1, <1>2 DEF Absent
<1>6. ASSUME NEW v, LastIs(q, k, v)
      PROVE  LastIs(a, k, v) \/ (Absent(a, k) /\ KeyOf(Head(q)) = k /\ Head(q).value = v)
  <2>1. PICK i \in 1 .. n : /\ KeyOf(q[i]) = k /\ q[i].value = v
                            /\ \A j \in 1 .. n : j > i => KeyOf(q[j]) # k
    BY <1>6 DEF LastIs
  <2>2. ASSUME NEW j \in 1 .. n - 1, j + 1 > i PROVE KeyOf(a[j]) # k
    BY <1>1, <1>3, <2>1, <2>2
  <2>3. CASE i = 1
    <3>1. \A j \in 1 .. n - 1 : KeyOf(a[j]) # k
      <4> SUFFICES ASSUME NEW j \in 1 .. n - 1 PROVE KeyOf(a[j]) # k
        OBVIOUS
      <4>1. j + 1 > i
        BY <1>1, <2>3
      <4> QED
        BY <2>2, <4>1
    <3> QED
      BY <1>1, <2>1, <2>3, <3>1 DEF Absent
  <2>4. CASE i # 1
    <3>1. i - 1 \in 1 .. Len(a) /\ a[i - 1] = q[i]
      BY <1>1, <1>2, <2>4
    <3>2. ASSUME NEW j \in 1 .. Len(a), j > i - 1 PROVE KeyOf(a[j]) # k
      <4>1. j \in 1 .. n - 1 /\ j + 1 > i
        BY <1>1, <3>2
      <4> QED
        BY <2>2, <4>1
    <3> QED
      BY <2>1, <3>1, <3>2 DEF LastIs
  <2> QED
    BY <2>3, <2>4
<1> QED
  BY <1>4, <1>5, <1>6 DEF a

\* Polling the first event that waits leaves one for each key.
LEMMA TailWaits ==
  ASSUME NEW n, NEW p, WaitOnce(p, n), p # <<>>
  PROVE  WaitOnce(Tail(p), n)
<1> DEFINE m == Len(p)
           a == Tail(p)
<1>1. /\ m \in Nat /\ IsSeq(a) /\ Len(a) = m - 1
      /\ \A i \in 1 .. m - 1 : a[i] = p[i + 1]
  BY TailAt DEF IsSeq, WaitOnce
<1> HIDE DEF a
<1>2. \A i \in 1 .. m - 1 : i + 1 \in 1 .. m
  BY <1>1
<1>3. \A i, j \in 1 .. m - 1 : i # j => i + 1 # j + 1
  BY <1>1
<1>4. /\ \A i \in 1 .. m : KeyOf(p[i]) \in Keys(n)
      /\ \A i, j \in 1 .. m : i # j => KeyOf(p[i]) # KeyOf(p[j])
  BY DEF WaitOnce
<1> HIDE DEF m
<1>5. \A i \in 1 .. m - 1 : KeyOf(a[i]) \in Keys(n)
  BY <1>1, <1>2, <1>4
<1>6. ASSUME NEW i \in 1 .. m - 1, NEW j \in 1 .. m - 1, i # j PROVE KeyOf(a[i]) # KeyOf(a[j])
  <2>1. i + 1 \in 1 .. m /\ j + 1 \in 1 .. m /\ i + 1 # j + 1
    BY <1>2, <1>3, <1>6
  <2> QED
    BY <1>1, <1>4, <2>1
<1>7. WaitOnce(a, n)
  BY <1>1, <1>5, <1>6 DEF WaitOnce
<1> QED
  BY <1>7 DEF a

\* A waiting event is taken out: its key waits no more, the others still do.
LEMMA RemoveWaits ==
  ASSUME NEW n, NEW p, WaitOnce(p, n), NEW d \in 1 .. Len(p)
  PROVE  /\ WaitOnce(RemoveAt(p, d), n) /\ Absent(RemoveAt(p, d), KeyOf(p[d]))
         /\ \A k : k # KeyOf(p[d]) =>
              /\ Absent(RemoveAt(p, d), k) <=> Absent(p, k)
              /\ \A v : LastIs(p, k, v) => LastIs(RemoveAt(p, d), k, v)
<1> DEFINE m == Len(p)
           a == RemoveAt(p, d)
           at(i) == IF i < d THEN i ELSE i + 1
           back(i) == IF i < d THEN i ELSE i - 1
<1>1. /\ m \in Nat /\ IsSeq(a) /\ Len(a) = m - 1
      /\ \A i \in 1 .. m - 1 : a[i] = p[at(i)]
  BY RemoveIndex DEF IsSeq, WaitOnce
<1>2. /\ \A i \in 1 .. m - 1 : at(i) \in 1 .. m /\ at(i) # d
      /\ \A i, j \in 1 .. m - 1 : i # j => at(i) # at(j)
      /\ \A i \in 1 .. m, j \in 1 .. m - 1 : i # d /\ j > back(i) => at(j) > i
  BY <1>1
<1>3. \A i \in 1 .. m : i # d => back(i) \in 1 .. m - 1 /\ at(back(i)) = i
  BY <1>1
<1> HIDE DEF a, at, back
<1>4. WaitOnce(a, n)
  BY <1>1, <1>2 DEF WaitOnce
<1>5. Absent(a, KeyOf(p[d]))
  BY <1>1, <1>2 DEF Absent, WaitOnce
<1>6. ASSUME NEW k, k # KeyOf(p[d]) PROVE Absent(a, k) <=> Absent(p, k)
  <2>1. Absent(p, k) => Absent(a, k)
    BY <1>1, <1>2 DEF Absent
  <2>2. ASSUME Absent(a, k), NEW i \in 1 .. m PROVE KeyOf(p[i]) # k
    BY <1>1, <1>3, <1>6, <2>2 DEF Absent
  <2> QED
    BY <2>1, <2>2 DEF Absent
<1>7. ASSUME NEW k, k # KeyOf(p[d]), NEW v, LastIs(p, k, v) PROVE LastIs(a, k, v)
  <2>1. PICK i \in 1 .. m : /\ KeyOf(p[i]) = k /\ p[i].value = v
                            /\ \A j \in 1 .. m : j > i => KeyOf(p[j]) # k
    BY <1>7 DEF LastIs
  <2>2. i # d
    BY <1>7, <2>1
  <2>3. back(i) \in 1 .. Len(a) /\ a[back(i)] = p[i]
    BY <1>1, <1>3, <2>2
  <2>4. ASSUME NEW j \in 1 .. Len(a), j > back(i) PROVE KeyOf(a[j]) # k
    <3>1. j \in 1 .. m - 1 /\ at(j) \in 1 .. m /\ at(j) > i
      BY <1>1, <1>2, <2>2, <2>4
    <3> QED
      BY <1>1, <2>1, <3>1
  <2> QED
    BY <2>1, <2>3, <2>4 DEF LastIs
<1> QED
  BY <1>4, <1>5, <1>6, <1>7 DEF a

\* An event whose key does not wait may join those that wait.
LEMMA AppendWaits ==
  ASSUME NEW n, NEW p, WaitOnce(p, n), NEW e, KeyOf(e) \in Keys(n), Absent(p, KeyOf(e))
  PROVE  WaitOnce(Append(p, e), n)
<1> DEFINE m == Len(p)
           a == Append(p, e)
<1>1. /\ m \in Nat /\ IsSeq(a) /\ Len(a) = m + 1 /\ a[m + 1] = e
      /\ \A i \in 1 .. m : a[i] = p[i]
  BY AppendAt DEF IsSeq, WaitOnce
<1>2. 1 .. m + 1 = (1 .. m) \cup {m + 1}
  BY <1>1
<1> HIDE DEF a
<1>3. \A i \in 1 .. Len(a) : KeyOf(a[i]) \in Keys(n)
  BY <1>1, <1>2 DEF WaitOnce
<1>4. ASSUME NEW i \in 1 .. Len(a), NEW j \in 1 .. Len(a), i # j PROVE KeyOf(a[i]) # KeyOf(a[j])
  <2>1. (i \in 1 .. m \/ i = m + 1) /\ (j \in 1 .. m \/ j = m + 1)
    BY <1>1, <1>2
  <2> QED
    BY <1>1, <1>4, <2>1 DEF WaitOnce, Absent
<1> QED
  <2>1. WaitOnce(a, n)
    BY <1>1, <1>3, <1>4 DEF WaitOnce
  <2> QED
    BY <2>1 DEF a
-----------------------------------------------------------------------------
(* Telling the application. *)

\* What was told of k with r's queues still is with s's.
Follows(r, s, k) ==
  /\ \A v, known : Told(r.out, r.pending, k, v, known) => Told(s.out, s.pending, k, v, known)
  /\ Present(r.out, r.pending, k) => Present(s.out, s.pending, k)

\* The rung has one key.
OneRung(q) == \A i \in 1 .. Len(q) : q[i].is = "spec" => q[i].key = 0

Queues(r, n) ==
  WellFormed(r) /\ Len(r.media) = n /\ WaitOnce(r.pending, n) /\ OneRung(r.out)

\* An output joins the queue.
LEMMA AppendRung ==
  ASSUME NEW q, IsSeq(q), OneRung(q), NEW e, e.is = "spec" => e.key = 0
  PROVE  OneRung(Append(q, e))
<1> DEFINE a == Append(q, e)
           n == Len(q)
<1>1. /\ n \in Nat /\ Len(a) = n + 1 /\ a[n + 1] = e
      /\ \A i \in 1 .. n : a[i] = q[i]
  BY AppendAt DEF IsSeq
<1>2. 1 .. n + 1 = (1 .. n) \cup {n + 1}
  BY <1>1
<1> HIDE DEF a
<1>3. OneRung(a)
  BY <1>1, <1>2 DEF OneRung
<1> QED
  BY <1>3 DEF a

\* Among the keys the rung has one.
LEMMA KeysRung ==
  ASSUME NEW n, NEW e, KeyOf(e) \in Keys(n), e.is = "spec"
  PROVE  e.key = 0
BY DEF KeyOf, Keys

\* The queue grows by one output.
LEMMA QueueGrows ==
  ASSUME NEW r, NEW s, NEW e, IsSeq(r.out), s.out = Append(r.out, e), s.pending = r.pending
  PROVE  /\ \A k : k # KeyOf(e) => Follows(r, s, k)
         /\ Absent(r.pending, KeyOf(e)) =>
              \A known : Told(s.out, s.pending, KeyOf(e), e.value, known)
         /\ Present(s.out, s.pending, KeyOf(e))
<1>1. ASSUME NEW k, k # KeyOf(e) PROVE Follows(r, s, k)
  <2>1. /\ Absent(s.out, k) <=> Absent(r.out, k)
        /\ \A v : LastIs(r.out, k, v) => LastIs(s.out, k, v)
    BY <1>1, AppendOther
  <2> QED
    BY <2>1 DEF Follows, Told, Present
<1>2. LastIs(s.out, KeyOf(e), e.value) /\ ~Absent(s.out, KeyOf(e))
  BY AppendSame
<1> QED
  BY <1>1, <1>2 DEF Told, Present

\* nano_rtc_emit_event_full: nothing told of another key is lost, and this event is told.
LEMMA EmitTells ==
  ASSUME NEW n \in Nat, NEW r, Queues(r, n), NEW e, KeyOf(e) \in Keys(n)
  PROVE  LET s == nano_rtc_emit_event_full(r, e)
         IN /\ Queues(s, n) /\ s.media = r.media /\ s.rc = r.rc
            /\ \A k : k # KeyOf(e) => Follows(r, s, k)
            /\ \A known : Told(s.out, s.pending, KeyOf(e), e.value, known)
            /\ Present(s.out, s.pending, KeyOf(e))
<1> DEFINE s == nano_rtc_emit_event_full(r, e)
           same == {i \in 1 .. Len(r.pending) : r.pending[i].is = e.is /\ r.pending[i].key = e.key}
           others == IF same = {} THEN r.pending ELSE RemoveAt(r.pending, Min(same))
           room == r.pending = <<>> /\ Len(r.out) < OUT_QUEUE_SIZE
<1>1. /\ DOMAIN r = Fields /\ IsSeq(r.out) /\ IsSeq(r.media) /\ Len(r.media) = n
      /\ WaitOnce(r.pending, n) /\ IsSeq(r.pending) /\ OneRung(r.out)
  BY DEF Queues, WellFormed, WaitOnce
<1>2. same = {i \in 1 .. Len(r.pending) : KeyOf(r.pending[i]) = KeyOf(e)}
  BY DEF KeyOf
<1>3. /\ WaitOnce(others, n) /\ Absent(others, KeyOf(e))
      /\ \A k : k # KeyOf(e) => /\ Absent(others, k) <=> Absent(r.pending, k)
                                /\ \A v : LastIs(r.pending, k, v) => LastIs(others, k, v)
  <2>1. CASE same = {}
    <3>1. Absent(r.pending, KeyOf(e)) /\ others = r.pending
      BY <1>2, <2>1 DEF Absent
    <3> QED
      BY <1>1, <3>1
  <2>2. CASE same # {}
    <3>1. same \subseteq Nat
      OBVIOUS
    <3> DEFINE d == Min(same)
    <3>2. d \in same
      <4> HIDE DEF same
      <4> QED
        BY <2>2, <3>1, MinOf
    <3>3. d \in 1 .. Len(r.pending) /\ KeyOf(r.pending[d]) = KeyOf(e)
      BY <1>2, <3>2
    <3>4. others = RemoveAt(r.pending, d)
      BY <2>2
    <3> HIDE DEF d, same, others
    <3> QED
      BY <1>1, <3>3, <3>4, RemoveWaits
  <2> QED
    BY <2>1, <2>2
<1>4. same = {} => Len(r.pending) < PENDING_EVENT_SLOTS(r)
  <2> SUFFICES ASSUME same = {} PROVE Len(r.pending) < PENDING_EVENT_SLOTS(r)
    OBVIOUS
  <2>1. Absent(r.pending, KeyOf(e))
    BY <1>2 DEF Absent
  <2>2. Len(r.pending) < 2 * n + 2
    BY <1>1, <2>1, RoomToWait
  <2> QED
    BY <1>1, <2>2 DEF PENDING_EVENT_SLOTS
<1>5. s = IF room THEN [r EXCEPT !.out = Append(r.out, e)]
          ELSE [r EXCEPT !.pending = Append(others, e)]
  BY <1>4 DEF nano_rtc_emit_event_full
<1> HIDE DEF s, others, same
<1>6. CASE room
  <2> DEFINE o == Append(r.out, e)
  <2>1. s = [r EXCEPT !.out = o]
    BY <1>5, <1>6
  <2>2. IsSeq(o) /\ OneRung(o)
    BY <1>1, AppendAt, AppendRung, KeysRung
  <2> HIDE DEF o
  <2>3. /\ DOMAIN s = Fields /\ s.out = o /\ s.pending = r.pending /\ s.media = r.media
        /\ s.rc = r.rc
    BY <1>1, <2>1 DEF Fields
  <2>4. Queues(s, n)
    BY <1>1, <2>2, <2>3 DEF Queues, WellFormed
  <2>5. Absent(r.pending, KeyOf(e))
    BY <1>6 DEF Absent
  <2>6. s.out = Append(r.out, e)
    BY <2>3 DEF o
  <2>7. /\ \A k : k # KeyOf(e) => Follows(r, s, k)
        /\ Absent(r.pending, KeyOf(e)) =>
             \A known : Told(s.out, s.pending, KeyOf(e), e.value, known)
        /\ Present(s.out, s.pending, KeyOf(e))
    BY <1>1, <2>3, <2>6, QueueGrows
  <2> QED
    BY <2>3, <2>4, <2>5, <2>7 DEF s
<1>7. CASE ~room
  <2> DEFINE p == Append(others, e)
  <2>1. s = [r EXCEPT !.pending = p]
    BY <1>5, <1>7
  <2>2. WaitOnce(p, n)
    BY <1>3, AppendWaits
  <2>3. LastIs(p, KeyOf(e), e.value) /\ ~Absent(p, KeyOf(e))
    BY <1>3, AppendSame DEF WaitOnce
  <2>4. ASSUME NEW k, k # KeyOf(e)
        PROVE  /\ Absent(p, k) <=> Absent(r.pending, k)
               /\ \A v : LastIs(r.pending, k, v) => LastIs(p, k, v)
    BY <1>3, <2>4, AppendOther DEF WaitOnce
  <2> HIDE DEF p
  <2>5. /\ DOMAIN s = Fields /\ s.out = r.out /\ s.pending = p /\ s.media = r.media
        /\ s.rc = r.rc
    BY <1>1, <2>1 DEF Fields
  <2>6. Queues(s, n)
    BY <1>1, <2>2, <2>5 DEF Queues, WellFormed
  <2>7. ASSUME NEW k, k # KeyOf(e) PROVE Follows(r, s, k)
    BY <2>4, <2>5, <2>7 DEF Follows, Told, Present
  <2>8. \A known : Told(s.out, s.pending, KeyOf(e), e.value, known)
    BY <2>3, <2>5 DEF Told
  <2>9. Present(s.out, s.pending, KeyOf(e))
    BY <2>3, <2>5 DEF Present
  <2> QED
    BY <2>5, <2>6, <2>7, <2>8, <2>9 DEF s
<1> QED
  BY <1>6, <1>7

\* What the application a knows or will be told of the rung and of the directions, but for the
\* keys X, and of the tracks S of which a key frame is asked.
Tells(r, a, S, n, X) ==
  /\ Queues(r, n)
  /\ \A t \in 1 .. n : "direction" \in DOMAIN r.media[t]
  /\ <<"spec", 0>> \notin X /\ r.rc.has_rung =>
       Told(r.out, r.pending, <<"spec", 0>>, r.rc.cur_rung, a.rung)
  /\ \A t \in 1 .. n : <<"changed", t>> \notin X =>
       Told(r.out, r.pending, <<"changed", t>>, r.media[t].direction, a.direction[t])
  /\ \A t \in S : t \in 1 .. n => Present(r.out, r.pending, <<"keyframe", t>>)

\* A step that keeps rung, directions and what is told of them.
LEMMA FollowTells ==
  ASSUME NEW r, NEW s, NEW a, NEW S, NEW n, Tells(r, a, S, n, {}),
         Queues(s, n), s.rc = r.rc,
         \A t \in 1 .. n : /\ "direction" \in DOMAIN s.media[t]
                           /\ s.media[t].direction = r.media[t].direction,
         Follows(r, s, <<"spec", 0>>),
         \A t \in 1 .. n : Follows(r, s, <<"changed", t>>) /\ Follows(r, s, <<"keyframe", t>>)
  PROVE  Tells(s, a, S, n, {})
BY DEF Tells, Follows

\* Unchanged queues.
LEMMA FollowsSelf ==
  ASSUME NEW r, NEW s, s.out = r.out, s.pending = r.pending
  PROVE  \A k : Follows(r, s, k)
BY DEF Follows

\* An event that says what holds makes up for what was not told before it.
LEMMA EmitCompletes ==
  ASSUME NEW n \in Nat, NEW r, NEW a, NEW S, NEW T, NEW e, Tells(r, a, S, n, {KeyOf(e)}),
         KeyOf(e) \in Keys(n),
         KeyOf(e) = <<"spec", 0>> => e.value = r.rc.cur_rung,
         \A t \in 1 .. n : KeyOf(e) = <<"changed", t>> => e.value = r.media[t].direction,
         \A t \in T : t \in S \/ KeyOf(e) = <<"keyframe", t>>
  PROVE  Tells(nano_rtc_emit_event_full(r, e), a, T, n, {})
<1> DEFINE s == nano_rtc_emit_event_full(r, e)
<1>1. /\ Queues(s, n) /\ s.media = r.media /\ s.rc = r.rc
      /\ \A k : k # KeyOf(e) => Follows(r, s, k)
      /\ \A known : Told(s.out, s.pending, KeyOf(e), e.value, known)
      /\ Present(s.out, s.pending, KeyOf(e))
  <2>1. Queues(r, n)
    BY DEF Tells
  <2> QED
    BY <2>1, EmitTells
<1> HIDE DEF s
<1>2. s.rc.has_rung => Told(s.out, s.pending, <<"spec", 0>>, s.rc.cur_rung, a.rung)
  <2>1. CASE KeyOf(e) = <<"spec", 0>>
    BY <1>1, <2>1
  <2>2. CASE KeyOf(e) # <<"spec", 0>>
    BY <1>1, <2>2 DEF Tells, Follows
  <2> QED
    BY <2>1, <2>2
<1>3. ASSUME NEW t \in 1 .. n
      PROVE  Told(s.out, s.pending, <<"changed", t>>, s.media[t].direction, a.direction[t])
  <2>1. CASE KeyOf(e) = <<"changed", t>>
    BY <1>1, <2>1
  <2>2. CASE KeyOf(e) # <<"changed", t>>
    BY <1>1, <2>2 DEF Tells, Follows
  <2> QED
    BY <2>1, <2>2
<1>4. ASSUME NEW t \in T, t \in 1 .. n PROVE Present(s.out, s.pending, <<"keyframe", t>>)
  <2>1. CASE KeyOf(e) = <<"keyframe", t>>
    BY <1>1, <2>1
  <2>2. CASE KeyOf(e) # <<"keyframe", t>>
    BY <1>1, <1>4, <2>2 DEF Tells, Follows
  <2> QED
    BY <2>1, <2>2
<1>5. \A t \in 1 .. n : "direction" \in DOMAIN s.media[t]
  BY <1>1 DEF Tells
<1>6. Tells(s, a, T, n, {})
  BY <1>1, <1>2, <1>3, <1>4, <1>5 DEF Tells
<1> QED
  BY <1>6 DEF s

\* nano_rtc_media_rate_control_tick: a change of the rung is told.
LEMMA TickTells ==
  ASSUME NEW n \in Nat, NEW r, NEW a, NEW S, Tells(r, a, S, n, {})
  PROVE  Tells(nano_rtc_media_rate_control_tick(r), a, S, n, {})
<1> DEFINE rc == rate_control_update(r.rc, r.bwe.estimated, r.bwe.loss, r.ladder, r.now)
           q == [r EXCEPT !.rc = rc]
           e == Event("spec", 0, rc.cur_rung)
           s == nano_rtc_media_rate_control_tick(r)
<1>1. \/ s = r
      \/ s = q /\ rc.cur_rung = r.rc.cur_rung /\ r.rc.has_rung
      \/ s = nano_rtc_emit_event_full(q, e)
  BY DEF nano_rtc_media_rate_control_tick
<1>2. DOMAIN r = Fields
  BY DEF Tells, Queues, WellFormed
<1> HIDE DEF rc, s
<1>3. /\ DOMAIN q = Fields /\ q.out = r.out /\ q.pending = r.pending /\ q.media = r.media
      /\ q.rc = rc
  BY <1>2 DEF Fields
<1>4. KeyOf(e) = <<"spec", 0>> /\ e.value = rc.cur_rung
  BY DEF KeyOf, Event
<1> HIDE DEF q, e
<1>5. Queues(q, n)
  BY <1>3 DEF Tells, Queues, WellFormed
<1>6. CASE s = q /\ rc.cur_rung = r.rc.cur_rung /\ r.rc.has_rung
  <2>1. Tells(q, a, S, n, {})
    BY <1>3, <1>5, <1>6 DEF Tells
  <2> QED
    BY <1>6, <2>1 DEF s
<1>7. CASE s = nano_rtc_emit_event_full(q, e)
  <2>1. Tells(q, a, S, n, {KeyOf(e)})
    BY <1>3, <1>4, <1>5 DEF Tells
  <2>2. KeyOf(e) \in Keys(n) /\ \A t \in 1 .. n : KeyOf(e) # <<"changed", t>>
    BY <1>4 DEF Keys
  <2>3. Tells(nano_rtc_emit_event_full(q, e), a, S, n, {})
    BY <1>3, <1>4, <2>1, <2>2, EmitCompletes
  <2> QED
    BY <1>7, <2>3 DEF s
<1> QED
  BY <1>1, <1>6, <1>7 DEF s

\* The estimate is not told here.
LEMMA EstimateTells ==
  ASSUME NEW n, NEW r, NEW a, NEW S, Tells(r, a, S, n, {}), NEW b
  PROVE  Tells([r EXCEPT !.bwe = b], a, S, n, {})
<1> DEFINE s == [r EXCEPT !.bwe = b]
<1>1. DOMAIN r = Fields
  BY DEF Tells, Queues, WellFormed
<1>2. /\ DOMAIN s = Fields /\ s.out = r.out /\ s.pending = r.pending /\ s.media = r.media
      /\ s.rc = r.rc
  BY <1>1 DEF Fields
<1> HIDE DEF s
<1>3. Tells(s, a, S, n, {})
  BY <1>2 DEF Tells, Queues, WellFormed
<1> QED
  BY <1>3 DEF s

\* Updated: the event about the estimate, then the tick.
LEMMA UpdatedTells ==
  ASSUME NEW n \in Nat, NEW r, NEW a, NEW S, Tells(r, a, S, n, {}), NEW b
  PROVE  Tells(Updated(r, b), a, S, n, {})
<1> DEFINE new == [r EXCEPT !.bwe = b]
           told == [new EXCEPT !.bwe.prev_event = b.estimated]
           e == Event("bitrate", 0, b.estimated)
           said == nano_rtc_emit_event_full(told, e)
           next == IF bwe_should_emit_event(b) THEN said ELSE new
<1>1. Updated(r, b) = nano_rtc_media_rate_control_tick(next)
  BY DEF Updated
<1>2. Tells(new, a, S, n, {})
  BY EstimateTells
<1> HIDE DEF new
<1>3. Tells(told, a, S, n, {})
  <2> DEFINE v == [new.bwe EXCEPT !.prev_event = b.estimated]
  <2>1. told = [new EXCEPT !.bwe = v]
    OBVIOUS
  <2> HIDE DEF v, told
  <2> QED
    BY <1>2, <2>1, EstimateTells
<1> HIDE DEF told
<1>4. /\ KeyOf(e) = <<"bitrate", 0>> /\ KeyOf(e) \in Keys(n) /\ KeyOf(e) # <<"spec", 0>>
      /\ \A t : KeyOf(e) # <<"changed", t>>
  BY DEF KeyOf, Event, Keys
<1> HIDE DEF e
<1>5. Tells(told, a, S, n, {KeyOf(e)})
  BY <1>3 DEF Tells
<1>6. Tells(said, a, S, n, {})
  BY <1>4, <1>5, EmitCompletes
<1> HIDE DEF said
<1>7. Tells(next, a, S, n, {})
  BY <1>2, <1>6
<1> HIDE DEF next
<1> QED
  BY <1>1, <1>7, TickTells

\* A report block changes no direction.
LEMMA ReportTells ==
  ASSUME NEW n \in Nat, NEW r, NEW a, NEW S, Tells(r, a, S, n, {}), NEW m
  PROVE  Tells(HandleReport(r, m), a, S, n, {})
<1> DEFINE v == [r.media[m.track] EXCEPT !.fraction_lost = m.block]
           s == [r EXCEPT !.media[m.track] = v]
<1>1. HandleReport(r, m) = r \/ HandleReport(r, m) = s
  BY DEF HandleReport
<1>2. WellFormed(r) /\ Len(r.media) = n /\ DOMAIN r = Fields /\ DOMAIN r.media = 1 .. n
  BY DEF Tells, Queues, WellFormed, IsSeq
<1>3. "direction" \in DOMAIN r.media[m.track] =>
        "direction" \in DOMAIN v /\ v.direction = r.media[m.track].direction
  OBVIOUS
<1> HIDE DEF v
<1>4. WellFormed(s) /\ Len(s.media) = n
  <2>1. Kept(r, s)
    BY <1>2, TrackKept
  <2> QED
    BY <1>2, <2>1, KeptWellFormed DEF Kept
<1>5. /\ s.out = r.out /\ s.pending = r.pending /\ s.rc = r.rc
      /\ s.media = [r.media EXCEPT ![m.track] = v]
  BY <1>2 DEF Fields
<1> HIDE DEF s
<1>6. ASSUME NEW t \in 1 .. n
      PROVE  "direction" \in DOMAIN s.media[t] /\ s.media[t].direction = r.media[t].direction
  <2>1. "direction" \in DOMAIN r.media[t]
    BY DEF Tells
  <2> QED
    BY <1>2, <1>3, <1>5, <2>1
<1>7. Queues(s, n)
  BY <1>4, <1>5 DEF Tells, Queues
<1>8. Tells(s, a, S, n, {})
  BY <1>5, <1>6, <1>7, FollowsSelf, FollowTells
<1> QED
  BY <1>1, <1>8

\* HandleMember: a request for a key frame is told.
LEMMA MemberTells ==
  ASSUME NEW n \in Nat, NEW r, NEW a, NEW S, Tells(r, a, S, n, {}), NEW member,
         "is" \in DOMAIN member, member.is = "pli" => member.track \in 0 .. n,
         NEW T, \A t \in T : t \in S \/ (t \in 1 .. n /\ member = [is |-> "pli", track |-> t])
  PROVE  Tells(HandleMember(r, member), a, T, n, {})
<1> DEFINE m == rtcp_parse(member)
           s == HandleMember(r, member)
<1>1. CASE member.is = "pli" /\ member.track # 0
  <2> DEFINE e == Event("keyframe", member.track, 0)
  <2>1. m = member
    BY <1>1 DEF rtcp_parse
  <2>2. s = nano_rtc_emit_event_full(r, e)
    BY <1>1, <2>1 DEF HandleMember
  <2>3. /\ KeyOf(e) = <<"keyframe", member.track>> /\ KeyOf(e) \in Keys(n)
        /\ KeyOf(e) # <<"spec", 0>> /\ \A t : KeyOf(e) # <<"changed", t>>
    <3>1. member.track \in 1 .. n
      BY <1>1
    <3> QED
      BY <3>1 DEF KeyOf, Event, Keys
  <2>4. \A t \in T : t \in S \/ KeyOf(e) = <<"keyframe", t>>
    BY <2>3
  <2>5. Tells(r, a, S, n, {KeyOf(e)})
    BY DEF Tells
  <2> HIDE DEF e
  <2>6. Tells(nano_rtc_emit_event_full(r, e), a, T, n, {})
    BY <2>3, <2>4, <2>5, EmitCompletes
  <2> QED
    BY <2>2, <2>6
<1>2. CASE ~(member.is = "pli" /\ member.track # 0)
  <2>1. \A t \in T : t \in S
    BY <1>2
  <2>2. Tells(r, a, T, n, {})
    BY <2>1 DEF Tells
  <2>3. \/ s = HandleReport(r, m)
        \/ \E b : s = Updated(r, b)
        \/ s = r
    <3>1. ~(m.is = "pli" /\ m.track # 0)
      <4>1. m = member \/ (member.is \in {"sr", "rr"} /\ m.is \in {"other", "sr", "rr"})
        BY DEF rtcp_parse
      <4> QED
        BY <1>2, <4>1
    <3> HIDE DEF m
    <3>2. s = CASE m.is \in {"sr", "rr"} -> HandleReport(r, m)
                [] m.is = "remb" -> Updated(r, bwe_on_rtcp_feedback(r.bwe, m))
                [] m.is = "pli" /\ m.track # 0 ->
                     nano_rtc_emit_event_full(r, Event("keyframe", m.track, 0))
                [] m.is = "twcc" /\ Feeds(m) ->
                     Updated(r, bwe_on_twcc_loss(r.bwe, (twcc_parse_feedback(m) * 256) \div m.count))
                [] OTHER -> r
      BY DEF HandleMember, m
    <3> QED
      BY <3>1, <3>2
  <2> HIDE DEF m, s
  <2>4. Tells(s, a, T, n, {})
    BY <2>2, <2>3, ReportTells, UpdatedTells
  <2> QED
    BY <2>4 DEF s
<1> QED
  BY <1>1, <1>2

\* An output that is no event about rung, direction or key frames.
LEMMA OutputTells ==
  ASSUME NEW n \in Nat, NEW r, NEW s, NEW a, NEW S, NEW e, Tells(r, a, S, n, {}),
         DOMAIN s = Fields, s.out = Append(r.out, e), s.pending = r.pending, s.rc = r.rc,
         e.is \notin {"spec", "changed", "keyframe"}, IsSeq(s.media), Len(s.media) = n,
         \A t \in 1 .. n : /\ "direction" \in DOMAIN s.media[t]
                           /\ s.media[t].direction = r.media[t].direction
  PROVE  Tells(s, a, S, n, {})
<1>1. IsSeq(r.out) /\ OneRung(r.out) /\ WaitOnce(r.pending, n)
  BY DEF Tells, Queues, WellFormed
<1>2. IsSeq(s.out) /\ OneRung(s.out)
  BY <1>1, AppendAt, AppendRung
<1>3. Queues(s, n)
  BY <1>1, <1>2 DEF Queues, WellFormed
<1>4. \A k : k # KeyOf(e) => Follows(r, s, k)
  BY <1>1, QueueGrows
<1>5. \A t : KeyOf(e) # <<"spec", 0>> /\ KeyOf(e) # <<"changed", t>> /\ KeyOf(e) # <<"keyframe", t>>
  BY DEF KeyOf
<1>6. /\ Follows(r, s, <<"spec", 0>>)
      /\ \A t \in 1 .. n : Follows(r, s, <<"changed", t>>) /\ Follows(r, s, <<"keyframe", t>>)
  BY <1>4, <1>5
<1> QED
  BY <1>3, <1>6, FollowTells

\* nano_rtc_media_emit_rtcp_sr_cadence.
LEMMA CadenceTells ==
  ASSUME NEW n \in Nat, NEW r, NEW a, NEW S, Tells(r, a, S, n, {})
  PROVE  Tells(nano_rtc_media_emit_rtcp_sr_cadence(r), a, S, n, {})
<1> DEFINE u == NextReport(r)
           e == Event("sr", u, 0)
           o == Append(r.out, e)
           v == u % Len(r.media)
           s == nano_rtc_media_emit_rtcp_sr_cadence(r)
<1>1. s = r \/ s = [r EXCEPT !.out = o, !.last_sr = r.now, !.sr_cursor = v]
  BY DEF nano_rtc_media_emit_rtcp_sr_cadence
<1>2. DOMAIN r = Fields /\ IsSeq(r.media) /\ Len(r.media) = n
  BY DEF Tells, Queues, WellFormed
<1>3. e.is = "sr"
  BY DEF Event
<1> HIDE DEF s, v, e
<1>4. CASE s = [r EXCEPT !.out = o, !.last_sr = r.now, !.sr_cursor = v]
  <2> HIDE DEF o
  <2>1. /\ DOMAIN s = Fields /\ s.out = o /\ s.pending = r.pending /\ s.rc = r.rc
        /\ s.media = r.media
    BY <1>2, <1>4 DEF Fields
  <2>2. s.out = Append(r.out, e)
    BY <2>1 DEF o
  <2>3. \A t \in 1 .. n : "direction" \in DOMAIN s.media[t]
    BY <2>1 DEF Tells
  <2>4. e.is \notin {"spec", "changed", "keyframe"}
    BY <1>3
  <2>5. Tells(s, a, S, n, {})
    BY <1>2, <2>1, <2>2, <2>3, <2>4, OutputTells
  <2> QED
    BY <2>5 DEF s
<1> QED
  BY <1>1, <1>4 DEF s

\* The members of a compound packet that asked for a key frame so far.
AskedBy(members, k, n) ==
  {t \in 1 .. n : \E i \in 1 .. k : members[i] = [is |-> "pli", track |-> t]}

\* A compound packet.
LEMMA MembersTell ==
  ASSUME NEW n \in Nat, NEW r, NEW a, NEW S, Tells(r, a, S, n, {}), NEW X, NEW members \in Seq(X),
         \A i \in 1 .. Len(members) :
           "is" \in DOMAIN members[i] /\ (members[i].is = "pli" => members[i].track \in 0 .. n)
  PROVE  Tells(FoldLeft(HandleMember, r, members), a, S \cup AskedBy(members, Len(members), n), n, {})
<1>1. PICK G : MemberFold!Runs(G, r, members)
  BY MemberWellOrdered, MemberFold!FoldRun
<1>2. /\ G[0] = r
      /\ \A k \in 1 .. Len(members) : G[k] = HandleMember(G[k - 1], members[k])
      /\ FoldLeft(HandleMember, r, members) = G[Len(members)]
  <2>1. MemberFold!Fold(r, members) = FoldLeft(HandleMember, r, members)
    BY DEF FoldLeft, MapThenFoldSet, Max,
           MemberFold!Fold, MemberFold!Largest
  <2> QED
    BY <1>1, <2>1 DEF MemberFold!Runs
<1> DEFINE l == Len(members)
           T(k) == S \cup AskedBy(members, k, n)
           Q == {k \in Nat : k <= l => Tells(G[k], a, T(k), n, {})}
<1>3. 0 \in Q
  <2>1. T(0) = S
    BY DEF AskedBy
  <2> QED
    BY <1>2, <2>1
<1>4. ASSUME NEW k \in Nat, k \in Q PROVE k + 1 \in Q
  <2> SUFFICES ASSUME k + 1 <= l PROVE Tells(G[k + 1], a, T(k + 1), n, {})
    OBVIOUS
  <2>0. l \in Nat
    OBVIOUS
  <2>1. k + 1 \in 1 .. l /\ (k + 1) - 1 = k /\ k <= l /\ 1 .. k + 1 = (1 .. k) \cup {k + 1}
    BY <2>0
  <2>2. Tells(G[k], a, T(k), n, {}) /\ G[k + 1] = HandleMember(G[k], members[k + 1])
    BY <1>2, <1>4, <2>1
  <2>3. \A t \in T(k + 1) : \/ t \in T(k)
                            \/ t \in 1 .. n /\ members[k + 1] = [is |-> "pli", track |-> t]
    BY <2>1 DEF AskedBy
  <2>4. /\ "is" \in DOMAIN members[k + 1]
        /\ members[k + 1].is = "pli" => members[k + 1].track \in 0 .. n
    BY <2>1
  <2> DEFINE new == T(k + 1)
             old == T(k)
             g == G[k]
             m == members[k + 1]
  <2>5. /\ Tells(g, a, old, n, {}) /\ G[k + 1] = HandleMember(g, m)
        /\ \A t \in new : t \in old \/ (t \in 1 .. n /\ m = [is |-> "pli", track |-> t])
        /\ "is" \in DOMAIN m /\ (m.is = "pli" => m.track \in 0 .. n)
    BY <2>2, <2>3, <2>4, Zenon
  <2> HIDE DEF T, old, new, g, m
  <2>6. Tells(HandleMember(g, m), a, new, n, {})
    BY <2>5, MemberTells
  <2> QED
    BY <2>5, <2>6 DEF new
<1>5. Nat \subseteq Q
  <2> HIDE DEF Q
  <2> QED
    BY <1>3, <1>4, SetInduction
<1>6. l \in Nat
  OBVIOUS
<1>7. Tells(G[l], a, T(l), n, {})
  <2>1. l \in Q
    BY <1>5, <1>6
  <2>2. l <= l
    BY <1>6
  <2> HIDE DEF l, T
  <2> QED
    BY <2>1, <2>2
<1> QED
  BY <1>2, <1>7
-----------------------------------------------------------------------------
(* The second invariant. *)

ToldInv ==
  /\ {"name", "calls"} \subseteq DOMAIN plan /\ plan.name \in DOMAIN Scenarios
  /\ plan.calls \subseteq Scenario.calls
  /\ {"rung", "direction"} \subseteq DOMAIN app /\ DOMAIN app.direction = 1 .. Scenario.tracks
  /\ "asked" \in DOMAIN past
  /\ Tells(rtc, app, past.asked, Scenario.tracks, {})

\* The properties speak of events in either queue as Present does.
LEMMA WaitingPresent ==
  ASSUME NEW is, NEW key
  PROVE  Waiting(is, key) <=> Present(rtc.out, rtc.pending, <<is, key>>)
<1>1. ASSUME NEW e PROVE (e.is = is /\ e.key = key) <=> KeyOf(e) = <<is, key>>
  BY DEF KeyOf
<1>2. ASSUME NEW q PROVE (\E i \in 1 .. Len(q) : q[i].is = is /\ q[i].key = key) <=>
                           ~Absent(q, <<is, key>>)
  BY <1>1 DEF Absent
<1> QED
  BY <1>2 DEF Waiting, Present

\* The invariant says that changes are told.
LEMMA ToldImplies == ToldInv => ChangesTold
<1> SUFFICES ASSUME ToldInv PROVE ChangesTold
  OBVIOUS
<1> DEFINE n == Scenario.tracks
<1>1. Tells(rtc, app, past.asked, n, {})
  BY DEF ToldInv
<1>2. Len(rtc.media) = n
  BY <1>1 DEF Tells, Queues
<1>3. ASSUME NEW k, NEW v, NEW known, Told(rtc.out, rtc.pending, k, v, known),
             ~Present(rtc.out, rtc.pending, k)
      PROVE  known = v
  BY <1>3 DEF Told, Present, LastIs, Absent
<1>4. ~Waiting("spec", 0) /\ rtc.rc.has_rung => app.rung = rtc.rc.cur_rung
  BY <1>1, <1>3, WaitingPresent DEF Tells
<1>5. ASSUME NEW t \in 1 .. n
      PROVE  /\ ~Waiting("changed", t) => app.direction[t] = rtc.media[t].direction
             /\ t \in past.asked => Waiting("keyframe", t)
  BY <1>1, <1>3, WaitingPresent DEF Tells
<1> QED
  BY <1>2, <1>4, <1>5 DEF ChangesTold

\* It holds when the connection is up.
LEMMA InitTold == Init => ToldInv
<1> SUFFICES ASSUME Init PROVE ToldInv
  OBVIOUS
<1>1. PICK name \in DOMAIN Scenarios :
        /\ rtc = [bwe |-> bwe_init, rc |-> rate_control_init, ladder |-> Scenarios[name].ladder,
                  media |-> [t \in 1 .. Scenarios[name].tracks |->
                               [direction |-> "sendrecv", sent |-> FALSE, fraction_lost |-> 0]],
                  out |-> <<>>, pending |-> <<>>, sr_cursor |-> 0,
                  last_sr |-> Scenarios[name].start, now |-> Scenarios[name].start]
        /\ app = [bitrate |-> BWE_INITIAL, rung |-> 0,
                  direction |-> [t \in 1 .. Scenarios[name].tracks |-> "sendrecv"]]
        /\ past = [ticks |-> <<>>, read |-> <<0, 0>>, pct |-> EVENT_THRESHOLD_PCT,
                   waited |-> [t \in 1 .. Scenarios[name].tracks |-> 0], asked |-> {},
                   reported |-> [t \in 1 .. Scenarios[name].tracks |-> 0]]
        /\ plan = [name |-> name, inputs |-> Scenarios[name].max_inputs,
                   calls |-> Scenarios[name].calls]
  BY DEF Init
<1> DEFINE n == Scenarios[name].tracks
           track == [direction |-> "sendrecv", sent |-> FALSE, fraction_lost |-> 0]
           m == [t \in 1 .. n |-> track]
<1>2. n \in Nat
  BY RateSizes
<1>3. /\ {"name", "calls"} \subseteq DOMAIN plan /\ plan.name = name
      /\ plan.calls = Scenarios[name].calls /\ past.asked = {} /\ "asked" \in DOMAIN past
  BY <1>1
<1>4. /\ rtc.media = m /\ rtc.out = <<>> /\ rtc.pending = <<>> /\ rtc.rc = rate_control_init
      /\ DOMAIN rtc = Fields
  BY <1>1 DEF Fields
<1>5. /\ {"rung", "direction"} \subseteq DOMAIN app /\ DOMAIN app.direction = 1 .. n
      /\ \A t \in 1 .. n : app.direction[t] = "sendrecv"
  BY <1>1
<1>6. "direction" \in DOMAIN track /\ track.direction = "sendrecv" /\ ~rate_control_init.has_rung
  BY DEF rate_control_init
<1> HIDE DEF track, n
<1>7. /\ IsSeq(m) /\ Len(m) = n
      /\ \A t \in 1 .. n : m[t] = track
  <2>1. m = [t \in 1 .. n |-> m[t]] /\ \A t \in 1 .. n : m[t] = track
    OBVIOUS
  <2> HIDE DEF m
  <2> QED
    BY <1>2, <2>1, FunctionIsSeq
<1> HIDE DEF m
<1>8. Queues(rtc, n)
  BY <1>4, <1>7 DEF Queues, WellFormed, IsSeq, WaitOnce, OneRung
<1>9. \A k : Absent(rtc.out, k) /\ Absent(rtc.pending, k)
  BY <1>4 DEF Absent
<1>10. ASSUME NEW t \in 1 .. n
       PROVE  Told(rtc.out, rtc.pending, <<"changed", t>>, rtc.media[t].direction, app.direction[t])
  BY <1>4, <1>5, <1>6, <1>7, <1>9 DEF Told
<1>11. Tells(rtc, app, past.asked, n, {})
  BY <1>3, <1>4, <1>6, <1>7, <1>8, <1>10 DEF Tells
<1>12. Scenario = Scenarios[name] /\ Scenario.tracks = n
  BY <1>3 DEF Scenario, n
<1> QED
  BY <1>1, <1>3, <1>5, <1>11, <1>12 DEF ToldInv

\* A step that the application does not see.
LEMMA UnseenStep ==
  ASSUME ToldInv, Tells(rtc', app, past'.asked, Scenario.tracks, {}), "asked" \in DOMAIN past',
         app' = app, {"name", "calls"} \subseteq DOMAIN plan', plan'.name = plan.name,
         plan'.calls \subseteq plan.calls
  PROVE  ToldInv'
<1>1. Scenario' = Scenario
  BY DEF Scenario
<1> QED
  BY <1>1 DEF ToldInv

\* nanortc_handle_input: the timers, then the packet.
LEMMA InputTells ==
  ASSUME ToldInv, nanortc_handle_input
  PROVE  ToldInv'
<1> DEFINE n == Scenario.tracks
<1>1. PICK gap \in Scenario.gaps, compound \in Scenario.inputs :
        LET begun == [rtc EXCEPT !.now = (@ + gap) % CLOCK]
            timed == nano_rtc_media_emit_rtcp_sr_cadence(begun)
            members == Members(compound)
        IN /\ plan' = [plan EXCEPT !.inputs = @ - 1]
           /\ rtc' = FoldLeft(HandleMember, timed, members)
           /\ "asked" \in DOMAIN past'
           /\ past'.asked = past.asked \cup
                {t \in 1 .. Len(rtc.media) : Contains(members, [is |-> "pli", track |-> t])}
           /\ app' = app
  BY DEF nanortc_handle_input
<1> DEFINE v == (rtc.now + gap) % CLOCK
           begun == [rtc EXCEPT !.now = v]
           timed == nano_rtc_media_emit_rtcp_sr_cadence(begun)
           members == Members(compound)
<1>2. /\ rtc' = FoldLeft(HandleMember, timed, members)
      /\ past'.asked = past.asked \cup
           {t \in 1 .. Len(rtc.media) : Contains(members, [is |-> "pli", track |-> t])}
  BY <1>1
<1>3. /\ n \in Nat /\ IsSeq(compound)
      /\ \A i \in 1 .. Len(compound) :
           "is" \in DOMAIN compound[i] /\ (compound[i].is = "pli" => compound[i].track \in 0 .. n)
  BY RateSizes DEF ToldInv, Scenario, IsSeq
<1>4. Tells(begun, app, past.asked, n, {})
  <2>0. Tells(rtc, app, past.asked, n, {})
    BY DEF ToldInv
  <2>1. DOMAIN rtc = Fields
    BY <2>0 DEF Tells, Queues, WellFormed
  <2> HIDE DEF v
  <2>2. /\ DOMAIN begun = Fields /\ begun.out = rtc.out /\ begun.pending = rtc.pending
        /\ begun.media = rtc.media /\ begun.rc = rtc.rc
    BY <2>1 DEF Fields
  <2> HIDE DEF begun, n
  <2> QED
    BY <2>0, <2>2 DEF Tells, Queues, WellFormed
<1> HIDE DEF begun, n
<1>5. Tells(timed, app, past.asked, n, {})
  BY <1>3, <1>4, CadenceTells
<1> HIDE DEF timed
<1>6. /\ \E X : members \in Seq(X)
      /\ \A i \in 1 .. Len(members) : i \in 1 .. Len(compound) /\ members[i] = compound[i]
  BY <1>3, MembersSeq
<1>7. Len(rtc.media) = n
  BY DEF ToldInv, Tells, Queues, n
<1> HIDE DEF members
<1>8. PICK X : members \in Seq(X)
  BY <1>6
<1>9. \A i \in 1 .. Len(members) :
        "is" \in DOMAIN members[i] /\ (members[i].is = "pli" => members[i].track \in 0 .. n)
  BY <1>3, <1>6
<1>10. Tells(rtc', app, past.asked \cup AskedBy(members, Len(members), n), n, {})
  BY <1>2, <1>3, <1>5, <1>8, <1>9, MembersTell
<1>11. past'.asked = past.asked \cup AskedBy(members, Len(members), n)
  BY <1>2, <1>7 DEF AskedBy, Contains
<1>12. /\ {"name", "calls"} \subseteq DOMAIN plan' /\ plan'.name = plan.name
       /\ plan'.calls = plan.calls
  BY <1>1 DEF ToldInv
<1>13. Tells(rtc', app, past'.asked, n, {})
  BY <1>10, <1>11
<1> QED
  BY <1>1, <1>12, <1>13, UnseenStep DEF n

\* Polling the first output of either queue: what was told of k is told still, or just was.
LEMMA PolledTold ==
  ASSUME NEW r, NEW s, NEW e, NEW k, IsSeq(r.out), IsSeq(r.pending),
         \/ r.out # <<>> /\ e = Head(r.out) /\ s.out = Tail(r.out) /\ s.pending = r.pending
         \/ /\ r.out = <<>> /\ r.pending # <<>> /\ e = Head(r.pending)
            /\ s.out = r.out /\ s.pending = Tail(r.pending)
  PROVE  /\ \A v, known : Told(r.out, r.pending, k, v, known) =>
              Told(s.out, s.pending, k, v, IF KeyOf(e) = k THEN e.value ELSE known)
         /\ KeyOf(e) # k /\ Present(r.out, r.pending, k) => Present(s.out, s.pending, k)
<1>1. CASE r.out # <<>> /\ e = Head(r.out) /\ s.out = Tail(r.out) /\ s.pending = r.pending
  <2>1. /\ Absent(r.out, k) => Absent(s.out, k) /\ KeyOf(e) # k
        /\ Absent(s.out, k) /\ KeyOf(e) # k => Absent(r.out, k)
        /\ \A v : LastIs(r.out, k, v) =>
             LastIs(s.out, k, v) \/ (Absent(s.out, k) /\ KeyOf(e) = k /\ e.value = v)
    BY <1>1, TailLast
  <2> QED
    BY <1>1, <2>1 DEF Told, Present
<1>2. CASE /\ r.out = <<>> /\ r.pending # <<>> /\ e = Head(r.pending)
           /\ s.out = r.out /\ s.pending = Tail(r.pending)
  <2>1. /\ Absent(r.pending, k) => Absent(s.pending, k) /\ KeyOf(e) # k
        /\ Absent(s.pending, k) /\ KeyOf(e) # k => Absent(r.pending, k)
        /\ \A v : LastIs(r.pending, k, v) =>
             LastIs(s.pending, k, v) \/ (Absent(s.pending, k) /\ KeyOf(e) = k /\ e.value = v)
    BY <1>2, TailLast
  <2>2. Absent(r.out, k) /\ Absent(s.out, k) /\ \A v : ~LastIs(r.out, k, v)
    BY <1>2 DEF Absent, LastIs
  <2> QED
    BY <2>1, <2>2 DEF Told, Present
<1> QED
  BY <1>1, <1>2

\* The first output, of the queue or else of those that wait.
LEMMA FirstOutput ==
  ASSUME NEW o, NEW p, IsSeq(o), IsSeq(p), o \o p # <<>>
  PROVE  /\ o # <<>> => Head(o \o p) = Head(o)
         /\ o = <<>> => p # <<>> /\ Head(o \o p) = Head(p)
<1> DEFINE X == Elements(o) \cup Elements(p)
<1>1. o \in Seq(Elements(o)) /\ p \in Seq(Elements(p))
  BY SeqOfElements
<1>2. o \in Seq(X) /\ p \in Seq(X)
  <2> DEFINE E == Elements(o)
             F == Elements(p)
  <2>1. o \in Seq(E) /\ p \in Seq(F) /\ E \subseteq X /\ F \subseteq X
    BY <1>1
  <2> HIDE DEF E, F, X
  <2> QED
    BY <2>1
<1> HIDE DEF X
<1>3. o # <<>> => Head(o \o p) = Head(o)
  BY <1>2
<1>4. o = <<>> => o \o p = p
  BY <1>2
<1> QED
  BY <1>3, <1>4

\* Learnt: the application knows what the event with its key says, of the rest what it knew.
LEMMA LearntIs ==
  ASSUME NEW e, {"rung", "direction"} \subseteq DOMAIN app, e.is = "spec" => e.key = 0
  PROVE  /\ {"rung", "direction"} \subseteq DOMAIN Learnt(e)
         /\ DOMAIN Learnt(e).direction = DOMAIN app.direction
         /\ Learnt(e).rung = IF KeyOf(e) = <<"spec", 0>> THEN e.value ELSE app.rung
         /\ \A t \in DOMAIN app.direction :
              Learnt(e).direction[t] = IF KeyOf(e) = <<"changed", t>> THEN e.value ELSE app.direction[t]
<1>0. /\ (KeyOf(e) = <<"spec", 0>>) <=> e.is = "spec" /\ e.key = 0
      /\ \A t : (KeyOf(e) = <<"changed", t>>) <=> e.is = "changed" /\ e.key = t
  BY DEF KeyOf
<1>1. CASE e.is = "spec"
  <2>1. Learnt(e) = [app EXCEPT !.rung = e.value]
    BY <1>1 DEF Learnt
  <2> QED
    BY <1>0, <1>1, <2>1
<1>2. CASE e.is = "changed"
  <2>1. Learnt(e) = [app EXCEPT !.direction[e.key] = e.value]
    BY <1>2 DEF Learnt
  <2> DEFINE d == [app.direction EXCEPT ![e.key] = e.value]
  <2>2. /\ DOMAIN d = DOMAIN app.direction
        /\ \A t \in DOMAIN app.direction : d[t] = IF e.key = t THEN e.value ELSE app.direction[t]
    OBVIOUS
  <2>3. Learnt(e).direction = d /\ Learnt(e).rung = app.rung /\ DOMAIN Learnt(e) = DOMAIN app
    BY <2>1
  <2> HIDE DEF d
  <2> QED
    BY <1>0, <1>2, <2>2, <2>3
<1>3. CASE e.is \notin {"spec", "changed"}
  <2>1. \/ Learnt(e) = app
        \/ Learnt(e) = [app EXCEPT !.bitrate = bwe_clamp(rtc.bwe, e.value)]
    BY <1>3 DEF Learnt
  <2> DEFINE x == bwe_clamp(rtc.bwe, e.value)
  <2> HIDE DEF x
  <2>2. Learnt(e) = app \/ Learnt(e) = [app EXCEPT !.bitrate = x]
    BY <2>1 DEF x
  <2> QED
    BY <1>0, <1>3, <2>2
<1> QED
  BY <1>1, <1>2, <1>3

\* nanortc_poll_output: the application learns what the polled output says.
LEMMA PollTells ==
  ASSUME ToldInv, nanortc_poll_output
  PROVE  ToldInv'
<1> DEFINE n == Scenario.tracks
           e == Head(rtc.out \o rtc.pending)
<1>1. Tells(rtc, app, past.asked, n, {}) /\ Queues(rtc, n)
  BY DEF ToldInv, Tells
<1>2. /\ DOMAIN rtc = Fields /\ IsSeq(rtc.out) /\ IsSeq(rtc.pending) /\ IsSeq(rtc.media)
      /\ Len(rtc.media) = n /\ WaitOnce(rtc.pending, n) /\ OneRung(rtc.out)
  BY <1>1 DEF Queues, WellFormed, WaitOnce
<1>3. /\ rtc.out # <<>> => e = Head(rtc.out)
      /\ rtc.out = <<>> => rtc.pending # <<>> /\ e = Head(rtc.pending)
  BY <1>2, FirstOutput DEF nanortc_poll_output
<1>4. /\ app' = Learnt(e) /\ plan' = plan /\ "asked" \in DOMAIN past'
      /\ past'.asked = IF e.is = "keyframe" THEN past.asked \ {e.key} ELSE past.asked
  BY DEF nanortc_poll_output, ToldInv
<1>5. rtc' = IF rtc.out # <<>> THEN [rtc EXCEPT !.out = Tail(rtc.out)]
             ELSE [rtc EXCEPT !.pending = Tail(rtc.pending)]
  BY DEF nanortc_poll_output
<1> HIDE DEF e, n
<1>6. /\ \/ rtc.out # <<>> /\ e = Head(rtc.out) /\ rtc'.out = Tail(rtc.out) /\ rtc'.pending = rtc.pending
         \/ /\ rtc.out = <<>> /\ rtc.pending # <<>> /\ e = Head(rtc.pending)
            /\ rtc'.out = rtc.out /\ rtc'.pending = Tail(rtc.pending)
      /\ DOMAIN rtc' = Fields /\ rtc'.media = rtc.media /\ rtc'.rc = rtc.rc
  <2> DEFINE o == Tail(rtc.out)
             p == Tail(rtc.pending)
  <2> HIDE DEF o, p
  <2>1. rtc' = IF rtc.out # <<>> THEN [rtc EXCEPT !.out = o] ELSE [rtc EXCEPT !.pending = p]
    BY <1>5 DEF o, p
  <2>2. /\ \/ rtc.out # <<>> /\ rtc'.out = o /\ rtc'.pending = rtc.pending
           \/ rtc.out = <<>> /\ rtc'.out = rtc.out /\ rtc'.pending = p
        /\ DOMAIN rtc' = Fields /\ rtc'.media = rtc.media /\ rtc'.rc = rtc.rc
    BY <1>2, <2>1 DEF Fields
  <2> QED
    BY <1>3, <2>2 DEF o, p
<1>7. Queues(rtc', n) /\ (e.is = "spec" => e.key = 0)
  <2>1. CASE rtc.out # <<>>
    <3>1. /\ IsSeq(rtc'.out) /\ Len(rtc.out) > 0 /\ Len(rtc'.out) = Len(rtc.out) - 1 /\ e = rtc.out[1]
          /\ \A i \in 1 .. Len(rtc.out) - 1 : rtc'.out[i] = rtc.out[i + 1]
      BY <1>2, <1>6, <2>1, TailAt
    <3>2. 1 \in 1 .. Len(rtc.out) /\ \A i \in 1 .. Len(rtc.out) - 1 : i + 1 \in 1 .. Len(rtc.out)
      BY <1>2, <3>1 DEF IsSeq
    <3>3. OneRung(rtc'.out) /\ (e.is = "spec" => e.key = 0)
      BY <1>2, <3>1, <3>2 DEF OneRung
    <3> QED
      BY <1>2, <1>6, <2>1, <3>1, <3>3 DEF Queues, WellFormed
  <2>2. CASE rtc.out = <<>>
    <3>1. WaitOnce(rtc'.pending, n)
      BY <1>2, <1>6, <2>2, TailWaits
    <3>2. Len(rtc.pending) > 0 /\ e = rtc.pending[1]
      BY <1>2, <1>6, <2>2, TailAt
    <3>3. 1 \in 1 .. Len(rtc.pending)
      BY <1>2, <3>2 DEF IsSeq
    <3>4. KeyOf(e) \in Keys(n)
      BY <1>2, <3>2, <3>3 DEF WaitOnce
    <3> QED
      BY <1>2, <1>6, <2>2, <3>1, <3>4, KeysRung DEF Queues, WellFormed
  <2> QED
    BY <2>1, <2>2
<1>8. ASSUME NEW k
      PROVE  /\ \A v, known : Told(rtc.out, rtc.pending, k, v, known) =>
                  Told(rtc'.out, rtc'.pending, k, v, IF KeyOf(e) = k THEN e.value ELSE known)
             /\ KeyOf(e) # k /\ Present(rtc.out, rtc.pending, k) => Present(rtc'.out, rtc'.pending, k)
  BY <1>2, <1>6, PolledTold
<1>9. /\ {"rung", "direction"} \subseteq DOMAIN app' /\ DOMAIN app'.direction = 1 .. n
      /\ app'.rung = IF KeyOf(e) = <<"spec", 0>> THEN e.value ELSE app.rung
      /\ \A t \in 1 .. n :
           app'.direction[t] = IF KeyOf(e) = <<"changed", t>> THEN e.value ELSE app.direction[t]
  <2>1. {"rung", "direction"} \subseteq DOMAIN app /\ DOMAIN app.direction = 1 .. n
    BY DEF ToldInv, n
  <2> QED
    BY <1>4, <1>7, <2>1, LearntIs
<1>10. rtc'.rc.has_rung => Told(rtc'.out, rtc'.pending, <<"spec", 0>>, rtc'.rc.cur_rung, app'.rung)
  BY <1>1, <1>6, <1>8, <1>9 DEF Tells
<1>11. ASSUME NEW t \in 1 .. n
       PROVE  /\ Told(rtc'.out, rtc'.pending, <<"changed", t>>, rtc'.media[t].direction,
                      app'.direction[t])
              /\ "direction" \in DOMAIN rtc'.media[t]
  BY <1>1, <1>6, <1>8, <1>9 DEF Tells
<1>12. ASSUME NEW t \in past'.asked, t \in 1 .. n
       PROVE  Present(rtc'.out, rtc'.pending, <<"keyframe", t>>)
  <2>1. t \in past.asked /\ KeyOf(e) # <<"keyframe", t>>
    BY <1>4, <1>12 DEF KeyOf
  <2> QED
    BY <1>1, <1>8, <1>12, <2>1 DEF Tells
<1>13. Tells(rtc', app', past'.asked, n, {})
  BY <1>7, <1>10, <1>11, <1>12 DEF Tells
<1>14. Scenario' = Scenario
  BY <1>4 DEF Scenario
<1> QED
  BY <1>4, <1>9, <1>13, <1>14 DEF ToldInv, n

\* Called uses up a call and nothing else of the plan.
LEMMA CalledTells ==
  ASSUME ToldInv, NEW c, Called(c)
  PROVE  /\ {"name", "calls"} \subseteq DOMAIN plan' /\ plan'.name = plan.name
         /\ plan'.calls \subseteq plan.calls
BY DEF ToldInv, Called

\* The bounds and the first bit rate change the estimate and what is known of it.
LEMMA BitrateCallsTell ==
  ASSUME ToldInv, nanortc_set_bitrate_bounds \/ nanortc_set_initial_bitrate
  PROVE  ToldInv'
<1> DEFINE n == Scenario.tracks
<1>1. Tells(rtc, app, past.asked, n, {})
  BY DEF ToldInv
<1>2. PICK c, b, x : /\ rtc' = [rtc EXCEPT !.bwe = b] /\ Called(c) /\ past' = past
                     /\ app' = app \/ app' = [app EXCEPT !.bitrate = x]
  BY DEF nanortc_set_bitrate_bounds, nanortc_set_initial_bitrate
<1>3. /\ {"rung", "direction"} \subseteq DOMAIN app' /\ app'.rung = app.rung
      /\ app'.direction = app.direction
  BY <1>2 DEF ToldInv
<1> HIDE DEF n
<1>4. Tells(rtc', app, past.asked, n, {})
  BY <1>1, <1>2, EstimateTells
<1>5. Tells(rtc', app', past'.asked, n, {})
  BY <1>2, <1>3, <1>4 DEF Tells
<1>6. /\ {"name", "calls"} \subseteq DOMAIN plan' /\ plan'.name = plan.name
      /\ plan'.calls \subseteq plan.calls
  BY <1>2, CalledTells
<1>7. Scenario' = Scenario
  BY <1>6 DEF Scenario
<1> QED
  BY <1>2, <1>3, <1>5, <1>6, <1>7 DEF ToldInv, n

\* The threshold and the ladder; a new ladder has no rung to tell yet.
LEMMA SettingsTell ==
  ASSUME ToldInv, nanortc_set_bwe_event_threshold \/ nanortc_set_capability_ladder
  PROVE  ToldInv'
<1> DEFINE n == Scenario.tracks
<1>1. Tells(rtc, app, past.asked, n, {})
  BY DEF ToldInv
<1>2. PICK c : Called(c) /\ app' = app /\ "asked" \in DOMAIN past' /\ past'.asked = past.asked
  BY DEF nanortc_set_bwe_event_threshold, nanortc_set_capability_ladder, ToldInv
<1> HIDE DEF n
<1>3. Tells(rtc', app, past.asked, n, {})
  <2>1. CASE nanortc_set_bwe_event_threshold
    <3>1. PICK p : rtc' = rtc \/ rtc' = [rtc EXCEPT !.bwe.pct = p]
      BY <2>1 DEF nanortc_set_bwe_event_threshold
    <3> DEFINE v == [rtc.bwe EXCEPT !.pct = p]
    <3>2. [rtc EXCEPT !.bwe.pct = p] = [rtc EXCEPT !.bwe = v]
      OBVIOUS
    <3> HIDE DEF v
    <3>3. Tells([rtc EXCEPT !.bwe = v], app, past.asked, n, {})
      BY <1>1, EstimateTells
    <3> QED
      BY <1>1, <3>1, <3>2, <3>3
  <2>2. CASE nanortc_set_capability_ladder
    <3>1. PICK l : rtc' = rtc \/ rtc' = [rtc EXCEPT !.ladder = l, !.rc = rate_control_init]
      BY <2>2 DEF nanortc_set_capability_ladder
    <3>2. CASE rtc' = [rtc EXCEPT !.ladder = l, !.rc = rate_control_init]
      <4>1. DOMAIN rtc = Fields
        BY <1>1 DEF Tells, Queues, WellFormed
      <4>2. /\ DOMAIN rtc' = Fields /\ rtc'.out = rtc.out /\ rtc'.pending = rtc.pending
            /\ rtc'.media = rtc.media /\ rtc'.rc = rate_control_init
        BY <3>2, <4>1 DEF Fields
      <4>3. ~rtc'.rc.has_rung
        BY <4>2 DEF rate_control_init
      <4> QED
        BY <1>1, <4>2, <4>3 DEF Tells, Queues, WellFormed
    <3> QED
      BY <1>1, <3>1, <3>2
  <2> QED
    BY <2>1, <2>2
<1> QED
  BY <1>2, <1>3, CalledTells, UnseenStep DEF n

\* nanortc_set_direction: a change of the direction is told.
LEMMA DirectionTells ==
  ASSUME ToldInv, nanortc_set_direction
  PROVE  ToldInv'
<1> DEFINE n == Scenario.tracks
           S == past.asked
<1>1. Tells(rtc, app, S, n, {}) /\ n \in Nat
  BY RateSizes DEF ToldInv, Scenario
<1>2. PICK c \in Calls("direction") :
        LET set == [rtc EXCEPT !.media[c.track].direction = c.direction]
        IN /\ rtc' = IF set = rtc THEN rtc
                     ELSE nano_rtc_emit_event_full(set, Event("changed", c.track, c.direction))
           /\ Called(c) /\ app' = app /\ past' = past
  BY DEF nanortc_set_direction
<1>3. c.track \in 1 .. n
  <2>1. c \in Scenario.calls /\ c.op = "direction"
    BY DEF Calls, ToldInv
  <2> QED
    BY <2>1, RateSizes DEF ToldInv, Scenario
<1> DEFINE u == c.track
           v == [rtc.media[u] EXCEPT !.direction = c.direction]
           set == [rtc EXCEPT !.media[u] = v]
           e == Event("changed", u, c.direction)
<1>4. rtc' = rtc \/ rtc' = nano_rtc_emit_event_full(set, e)
  BY <1>2
<1>5. /\ DOMAIN rtc = Fields /\ WellFormed(rtc) /\ Len(rtc.media) = n /\ DOMAIN rtc.media = 1 .. n
      /\ \A t \in 1 .. n : "direction" \in DOMAIN rtc.media[t]
  BY <1>1 DEF Tells, Queues, WellFormed, IsSeq
<1>6. "direction" \in DOMAIN v /\ v.direction = c.direction
  BY <1>3, <1>5
<1>7. /\ KeyOf(e) = <<"changed", u>> /\ e.value = c.direction /\ KeyOf(e) \in Keys(n)
      /\ KeyOf(e) # <<"spec", 0>>
  BY <1>3 DEF KeyOf, Event, Keys
<1> HIDE DEF v, e, n, S
<1>8. WellFormed(set) /\ Len(set.media) = n
  <2>1. Kept(rtc, set)
    <3> HIDE DEF u
    <3> QED
      BY <1>5, TrackKept
  <2> QED
    BY <1>5, <2>1, KeptWellFormed DEF Kept
<1>9. /\ set.out = rtc.out /\ set.pending = rtc.pending /\ set.rc = rtc.rc
      /\ set.media = [rtc.media EXCEPT ![u] = v]
  BY <1>5 DEF Fields
<1> HIDE DEF set
<1>10. /\ set.media[u] = v
       /\ \A t \in 1 .. n : t # u => set.media[t] = rtc.media[t]
  BY <1>3, <1>5, <1>9
<1>11. Queues(set, n)
  BY <1>1, <1>8, <1>9 DEF Tells, Queues
<1>12. Tells(set, app, S, n, {KeyOf(e)})
  <2>1. \A t \in 1 .. n : "direction" \in DOMAIN set.media[t]
    BY <1>5, <1>6, <1>10
  <2>2. ASSUME NEW t \in 1 .. n, <<"changed", t>> \notin {KeyOf(e)}
        PROVE  Told(set.out, set.pending, <<"changed", t>>, set.media[t].direction, app.direction[t])
    <3>1. t # u
      BY <1>7, <2>2
    <3> QED
      BY <1>1, <1>9, <1>10, <3>1 DEF Tells
  <2> QED
    BY <1>1, <1>9, <1>11, <2>1, <2>2 DEF Tells
<1>13. \A t \in 1 .. n : KeyOf(e) = <<"changed", t>> => e.value = set.media[t].direction
  BY <1>6, <1>7, <1>10
<1>14. Tells(nano_rtc_emit_event_full(set, e), app, S, n, {})
  BY <1>1, <1>7, <1>12, <1>13, EmitCompletes
<1>15. Tells(rtc', app, S, n, {})
  BY <1>1, <1>4, <1>14
<1>16. "asked" \in DOMAIN past' /\ past'.asked = S
  BY <1>2 DEF ToldInv, S
<1> QED
  BY <1>2, <1>15, <1>16, CalledTells, UnseenStep DEF n

\* Packets of the application and its own requests for key frames.
LEMMA SendingTells ==
  ASSUME ToldInv, nanortc_send_audio \/ nanortc_request_keyframe
  PROVE  ToldInv'
<1> DEFINE n == Scenario.tracks
           S == past.asked
<1>1. Tells(rtc, app, S, n, {}) /\ n \in Nat
  BY RateSizes DEF ToldInv, Scenario
<1>2. (\E c : Called(c)) /\ app' = app /\ past' = past
  BY DEF nanortc_send_audio, nanortc_request_keyframe
<1>3. /\ DOMAIN rtc = Fields /\ WellFormed(rtc) /\ Len(rtc.media) = n /\ DOMAIN rtc.media = 1 .. n
      /\ IsSeq(rtc.media) /\ \A t \in 1 .. n : "direction" \in DOMAIN rtc.media[t]
  BY <1>1 DEF Tells, Queues, WellFormed, IsSeq
<1> HIDE DEF n, S
<1>4. ASSUME nanortc_send_audio PROVE Tells(rtc', app, S, n, {})
  <2>1. PICK u : \/ rtc' = rtc
                 \/ rtc' = [rtc EXCEPT !.media[u].sent = TRUE, !.out = Append(@, Event("media", u, 0))]
    BY <1>4 DEF nanortc_send_audio, rtc_send_audio
  <2> DEFINE e == Event("media", u, 0)
             o == Append(rtc.out, e)
             v == [rtc.media[u] EXCEPT !.sent = TRUE]
             set == [rtc EXCEPT !.media[u] = v]
  <2>2. rtc' = rtc \/ rtc' = [rtc EXCEPT !.media[u] = v, !.out = o]
    BY <2>1
  <2>3. e.is \notin {"spec", "changed", "keyframe"}
    BY DEF Event
  <2>4. "direction" \in DOMAIN rtc.media[u] =>
          "direction" \in DOMAIN v /\ v.direction = rtc.media[u].direction
    OBVIOUS
  <2>5. CASE rtc' = [rtc EXCEPT !.media[u] = v, !.out = o]
    <3> HIDE DEF v, o, e
    <3>1. IsSeq(set.media) /\ Len(set.media) = n
      <4>1. Kept(rtc, set)
        BY <1>3, TrackKept
      <4> QED
        BY <1>3, <4>1 DEF Kept
    <3>2. set.media = [rtc.media EXCEPT ![u] = v]
      BY <1>3 DEF Fields
    <3>3. /\ DOMAIN rtc' = Fields /\ rtc'.out = o /\ rtc'.pending = rtc.pending /\ rtc'.rc = rtc.rc
          /\ rtc'.media = [rtc.media EXCEPT ![u] = v]
      BY <1>3, <2>5 DEF Fields
    <3>4. rtc'.out = Append(rtc.out, e)
      BY <3>3 DEF o
    <3>5. ASSUME NEW t \in 1 .. n
          PROVE  "direction" \in DOMAIN rtc'.media[t] /\ rtc'.media[t].direction = rtc.media[t].direction
      BY <1>3, <2>4, <3>3
    <3>6. IsSeq(rtc'.media) /\ Len(rtc'.media) = n
      BY <3>1, <3>2, <3>3
    <3> QED
      BY <1>1, <2>3, <3>3, <3>4, <3>5, <3>6, OutputTells
  <2> QED
    BY <1>1, <2>2, <2>5
<1>5. ASSUME nanortc_request_keyframe PROVE Tells(rtc', app, S, n, {})
  <2>1. PICK u : rtc' = rtc \/ rtc' = [rtc EXCEPT !.out = Append(rtc.out, Event("pli", u, 0))]
    BY <1>5 DEF nanortc_request_keyframe, rtc_emit_pli
  <2> DEFINE e == Event("pli", u, 0)
             o == Append(rtc.out, e)
  <2>2. rtc' = rtc \/ rtc' = [rtc EXCEPT !.out = o]
    BY <2>1
  <2>3. e.is \notin {"spec", "changed", "keyframe"}
    BY DEF Event
  <2>4. CASE rtc' = [rtc EXCEPT !.out = o]
    <3> HIDE DEF o, e
    <3>1. /\ DOMAIN rtc' = Fields /\ rtc'.out = o /\ rtc'.pending = rtc.pending /\ rtc'.rc = rtc.rc
          /\ rtc'.media = rtc.media
      BY <1>3, <2>4 DEF Fields
    <3>2. rtc'.out = Append(rtc.out, e)
      BY <3>1 DEF o
    <3> QED
      BY <1>1, <1>3, <2>3, <3>1, <3>2, OutputTells
  <2> QED
    BY <1>1, <2>2, <2>4
<1>6. Tells(rtc', app, S, n, {})
  BY <1>4, <1>5
<1>7. "asked" \in DOMAIN past' /\ past'.asked = S
  BY <1>2 DEF ToldInv, S
<1> QED
  BY <1>2, <1>6, <1>7, CalledTells, UnseenStep DEF n

\* Every step keeps it.
LEMMA ToldStep == ToldInv /\ [Next]_vars => ToldInv'
<1> SUFFICES ASSUME ToldInv, [Next]_vars PROVE ToldInv'
  OBVIOUS
<1>1. CASE UNCHANGED vars
  <2>1. Tells(rtc', app, past'.asked, Scenario.tracks, {})
    BY <1>1 DEF vars, ToldInv
  <2> QED
    BY <1>1, <2>1, UnseenStep DEF vars, ToldInv
<1>2. CASE nanortc_handle_input
  BY <1>2, InputTells
<1>3. CASE nanortc_poll_output
  BY <1>3, PollTells
<1>4. CASE nanortc_set_bitrate_bounds \/ nanortc_set_initial_bitrate
  BY <1>4, BitrateCallsTell
<1>5. CASE nanortc_set_bwe_event_threshold \/ nanortc_set_capability_ladder
  BY <1>5, SettingsTell
<1>6. CASE nanortc_set_direction
  BY <1>6, DirectionTells
<1>7. CASE nanortc_send_audio \/ nanortc_request_keyframe
  BY <1>7, SendingTells
<1> QED
  BY <1>1, <1>2, <1>3, <1>4, <1>5, <1>6, <1>7 DEF Next

\* Nothing the application must know is lost in the small queue, for every number of tracks,
\* size of the queue and traffic: once the events of a kind have been polled it knows the
\* recommended rung and the directions, and a request for a key frame waits until it is polled
\* (nano_rtc_emit_event_full replaces only by a newer event of the same kind, and has a place
\* for each kind).
THEOREM ChangesReachTheApplication == Spec => []ChangesTold
BY InitTold, ToldStep, ToldImplies, PTL DEF Spec
-----------------------------------------------------------------------------
(* The estimate stays positive and the loss a number. *)

BweFields == {"estimated", "prev_event", "remb", "twcc", "loss", "min", "max", "pct"}

GoodBwe(b) ==
  /\ DOMAIN b = BweFields
  /\ b.estimated \in Nat \ {0} /\ b.loss \in Int /\ b.min \in Nat /\ b.max \in Nat

\* The least and the greatest of two numbers are numbers.
LEMMA MinMaxInt ==
  ASSUME NEW x \in Int, NEW y \in Int
  PROVE  Min({x, y}) \in Int /\ Max({x, y}) \in Int
<1>1. \E z \in {x, y} : \A w \in {x, y} : z <= w
  OBVIOUS
<1>2. \E z \in {x, y} : \A w \in {x, y} : z >= w
  OBVIOUS
<1>3. Min({x, y}) \in {x, y}
  BY <1>1 DEF Min
<1>4. Max({x, y}) \in {x, y}
  BY <1>2 DEF Max
<1> QED
  BY <1>3, <1>4

\* bwe_clamp: never below one unit, as neither bound is.
LEMMA Clamped ==
  ASSUME NEW b, GoodBwe(b), NEW bps \in Int
  PROVE  bwe_clamp(b, bps) \in Nat \ {0}
<1>1. bwe_effective_min(b) \in Nat \ {0} /\ bwe_effective_max(b) \in Nat \ {0}
  BY RateTypes DEF GoodBwe, bwe_effective_min, bwe_effective_max
<1> DEFINE low == bwe_effective_min(b)
           high == bwe_effective_max(b)
<1>2. bwe_clamp(b, bps) = IF bps < low THEN low ELSE IF bps > high THEN high ELSE bps
  BY DEF bwe_clamp
<1>3. low \in Nat \ {0} /\ high \in Nat \ {0}
  BY <1>1
<1> HIDE DEF low, high
<1> QED
  BY <1>2, <1>3

\* A weighted mean of two positive numbers is one.
LEMMA Smoothed ==
  ASSUME NEW a \in 0 .. 256, NEW x \in Nat \ {0}, NEW y \in Nat \ {0}
  PROVE  (a * x + (256 - a) * y) \div 256 \in Nat \ {0}
<1> DEFINE c == 256 - a
           p == a * x
           q == c * y
<1>1. a \in Nat /\ c \in Nat /\ a + c = 256
  OBVIOUS
<1> HIDE DEF c
<1>2. p \in Nat /\ p >= a
  OBVIOUS
<1>3. q \in Nat /\ q >= c
  BY <1>1
<1> HIDE DEF p, q
<1>4. p + q >= 256 /\ p + q \in Nat
  BY <1>1, <1>2, <1>3
<1>5. (p + q) \div 256 \in Nat \ {0}
  BY <1>4
<1> QED
  BY <1>5 DEF c, p, q

\* bwe_apply.
LEMMA ApplyGood ==
  ASSUME NEW b, GoodBwe(b), NEW bps \in Int, NEW first
  PROVE  GoodBwe(bwe_apply(b, bps, first))
<1> DEFINE c == bwe_clamp(b, bps)
           e == b.estimated
           m == (EMA_ALPHA * c + (256 - EMA_ALPHA) * e) \div 256
           v == IF first THEN c ELSE m
<1>1. bwe_apply(b, bps, first) = [b EXCEPT !.estimated = v]
  BY DEF bwe_apply
<1>2. c \in Nat \ {0}
  BY Clamped
<1>3. e \in Nat \ {0} /\ EMA_ALPHA \in 0 .. 256
  BY RateTypes DEF GoodBwe
<1> HIDE DEF c, e
<1>4. m \in Nat \ {0}
  BY <1>2, <1>3, Smoothed
<1> HIDE DEF m
<1>5. v \in Nat \ {0}
  BY <1>2, <1>4
<1> HIDE DEF v
<1> QED
  BY <1>1, <1>5 DEF GoodBwe, BweFields

\* Fields that the rest of GoodBwe does not read.
LEMMA OtherGood ==
  ASSUME NEW b, GoodBwe(b), NEW v
  PROVE  /\ GoodBwe([b EXCEPT !.remb = v]) /\ GoodBwe([b EXCEPT !.twcc = v])
         /\ GoodBwe([b EXCEPT !.prev_event = v]) /\ GoodBwe([b EXCEPT !.pct = v])
         /\ v \in Int => GoodBwe([b EXCEPT !.loss = v])
         /\ v \in Nat \ {0} => GoodBwe([b EXCEPT !.estimated = v])
         /\ [b EXCEPT !.prev_event = v].estimated = b.estimated
         /\ [b EXCEPT !.prev_event = v].loss = b.loss
BY DEF GoodBwe, BweFields

\* bwe_on_rtcp_feedback: a REMB.
LEMMA RembGood ==
  ASSUME NEW b, GoodBwe(b), NEW m, m.mantissa \in Nat, m.exp \in Nat
  PROVE  GoodBwe(bwe_on_rtcp_feedback(b, m))
<1> DEFINE bps == bwe_parse_remb(m)
           new == bwe_apply(b, bps, ~b.remb)
<1>1. bps \in Int
  <2>1. WORD \in Nat
    BY RateTypes
  <2>2. 2^WORD \in Int /\ 2^(m.exp) \in Int
    BY <2>1
  <2>3. 2^WORD - 1 \in Int /\ m.mantissa * 2^m.exp \in Int
    BY <2>2
  <2> QED
    BY <2>3 DEF bwe_parse_remb
<1>2. bwe_on_rtcp_feedback(b, m) = IF ~m.valid THEN b ELSE [new EXCEPT !.remb = TRUE]
  BY DEF bwe_on_rtcp_feedback
<1> HIDE DEF bps
<1>3. GoodBwe(new)
  BY <1>1, ApplyGood
<1> HIDE DEF new
<1>4. GoodBwe([new EXCEPT !.remb = TRUE])
  BY <1>3, OtherGood
<1> QED
  BY <1>2, <1>4

\* bwe_on_twcc_loss.
LEMMA LossGood ==
  ASSUME NEW b, GoodBwe(b), NEW loss \in Int
  PROVE  GoodBwe(bwe_on_twcc_loss(b, loss))
<1> DEFINE base == IF b.estimated = 0 THEN BWE_INITIAL ELSE b.estimated
           high == bwe_effective_max(b)
           low == bwe_effective_min(b)
           more == (base * 108) \div 100
           less == (base * (512 - loss)) \div 512
           target == IF loss < 5 THEN Min({more, high})
                     ELSE IF loss > 25 THEN Max({less, low}) ELSE base
           new == bwe_apply(b, target, ~b.twcc)
           value == IF b.twcc THEN (new.loss * 3 + loss) \div 4 ELSE loss
           twcc == [new EXCEPT !.twcc = TRUE]
<1>1. bwe_on_twcc_loss(b, loss) = [twcc EXCEPT !.loss = value]
  BY DEF bwe_on_twcc_loss
<1>2. base \in Int /\ high \in Int /\ low \in Int
  BY RateTypes DEF GoodBwe, bwe_effective_min, bwe_effective_max
<1> HIDE DEF base, high, low
<1>3. more \in Int /\ less \in Int
  BY <1>2
<1> HIDE DEF more, less
<1>4. target \in Int
  BY <1>2, <1>3, MinMaxInt
<1> HIDE DEF target
<1>5. GoodBwe(new)
  BY <1>4, ApplyGood
<1> HIDE DEF new
<1>6. GoodBwe(twcc)
  BY <1>5, OtherGood
<1> HIDE DEF twcc
<1>7. value \in Int
  BY <1>5 DEF GoodBwe
<1> HIDE DEF value
<1>8. GoodBwe([twcc EXCEPT !.loss = value])
  BY <1>6, <1>7, OtherGood
<1> QED
  BY <1>1, <1>8

\* bwe_set_bounds.
LEMMA BoundsGood ==
  ASSUME NEW b, GoodBwe(b), NEW min \in Nat, NEW max \in Nat
  PROVE  GoodBwe(bwe_set_bounds(b, min, max))
<1> DEFINE new == [b EXCEPT !.min = min, !.max = max]
           v == bwe_clamp(new, new.estimated)
           w == bwe_clamp(new, new.prev_event)
           moved == [new EXCEPT !.estimated = v]
<1>1. bwe_set_bounds(b, min, max) = b \/ bwe_set_bounds(b, min, max) = [moved EXCEPT !.prev_event = w]
  BY DEF bwe_set_bounds
<1>2. GoodBwe(new)
  BY DEF GoodBwe, BweFields
<1> HIDE DEF new
<1>3. v \in Nat \ {0}
  BY <1>2, Clamped DEF GoodBwe
<1> HIDE DEF v, w
<1>4. GoodBwe(moved)
  BY <1>2, <1>3, OtherGood
<1> HIDE DEF moved
<1>5. GoodBwe([moved EXCEPT !.prev_event = w])
  BY <1>4, OtherGood
<1> QED
  BY <1>1, <1>5

\* bwe_set_initial_bitrate.
LEMMA InitialGood ==
  ASSUME NEW b, GoodBwe(b), NEW bps \in Nat
  PROVE  GoodBwe(bwe_set_initial_bitrate(b, bps))
<1> DEFINE start == IF bps # 0 THEN bps ELSE BWE_INITIAL
           v == bwe_clamp(b, start)
           moved == [b EXCEPT !.estimated = v]
<1>1. \/ bwe_set_initial_bitrate(b, bps) = b
      \/ bwe_set_initial_bitrate(b, bps) = [moved EXCEPT !.prev_event = v]
  BY DEF bwe_set_initial_bitrate
<1>2. start \in Int
  BY RateTypes
<1> HIDE DEF start
<1>3. v \in Nat \ {0}
  BY <1>2, Clamped
<1> HIDE DEF v
<1>4. GoodBwe(moved)
  BY <1>3, OtherGood
<1> HIDE DEF moved
<1>5. GoodBwe([moved EXCEPT !.prev_event = v])
  BY <1>4, OtherGood
<1> QED
  BY <1>1, <1>5

\* bwe_init.
LEMMA InitialBwe == GoodBwe(bwe_init)
BY RateTypes DEF bwe_init, GoodBwe, BweFields
ChunkFold == INSTANCE FoldFacts WITH Op <- ParseChunk

\* The numbers are well-ordered, as the facts of the instance suppose.
LEMMA ChunkWellOrdered == ChunkFold!WellOrdered
BY LeastNat DEF ChunkFold!WellOrdered

\* A transport-wide feedback.
IsFeedback(m) == m.count \in Nat /\ m.chunks \in Seq([kind : {"run", "vector"}, symbols : Seq(STRING)])

\* twcc_parse_feedback: the number of packets lost is a number.
LEMMA LossIsNumber ==
  ASSUME NEW m, IsFeedback(m)
  PROVE  twcc_parse_feedback(m) \in Int
<1> DEFINE X == [kind : {"run", "vector"}, symbols : Seq(STRING)]
           R == [left : Nat, used : Int, statuses : Seq(STRING), ok : BOOLEAN]
           base == [left |-> m.count, used |-> 0, statuses |-> <<>>, ok |-> TRUE]
           parsed == parse_chunks(m.chunks, m.count)
<1>1. m.chunks \in Seq(X) /\ m.count \in Nat
  BY DEF IsFeedback
<1>2. base \in R
  BY <1>1
<1>3. ASSUME NEW r \in R, NEW x \in X PROVE ParseChunk(r, x) \in R
  <2> DEFINE s == x.symbols
             n == Len(s)
             k == Min({r.left, n})
             taken == SubSeq(s, 1, k)
             left == r.left - Len(taken)
             used == r.used + 1
             statuses == r.statuses \o taken
  <2>1. \/ ParseChunk(r, x) = r
        \/ ParseChunk(r, x) = [r EXCEPT !.ok = FALSE]
        \/ ParseChunk(r, x) = [r EXCEPT !.left = left, !.used = used, !.statuses = statuses]
    BY DEF ParseChunk
  <2>2. s \in Seq(STRING) /\ r.left \in Nat /\ n \in Nat
    OBVIOUS
  <2>3. k \in Nat /\ k <= r.left /\ k <= n
    <3> DEFINE S == {r.left, n}
    <3>1. S \subseteq Nat /\ S # {} /\ k = Min(S)
      BY <2>2
    <3> HIDE DEF S, k
    <3>2. k \in S /\ \A y \in S : k <= y
      BY <3>1, MinOf
    <3> QED
      BY <3>1, <3>2 DEF S
  <2>4. taken \in Seq(STRING) /\ Len(taken) = k
    <3>1. s \in Seq(STRING) /\ k \in Nat /\ k <= Len(s)
      BY <2>2, <2>3
    <3> HIDE DEF s, k
    <3> QED
      BY <3>1
  <2> HIDE DEF s, k, taken
  <2>5. left \in Nat
    BY <2>2, <2>3, <2>4
  <2>6. statuses \in Seq(STRING) /\ used \in Int
    BY <2>4
  <2> HIDE DEF left, used, statuses
  <2> QED
    BY <2>1, <2>5, <2>6
<1> HIDE DEF R
<1>4. ChunkFold!Fold(base, m.chunks) \in R
  <2> HIDE DEF base, X
  <2> QED
    BY <1>1, <1>2, <1>3, ChunkWellOrdered, ChunkFold!FoldInvariant
<1>5. parsed = ChunkFold!Fold(base, m.chunks)
  BY DEF parse_chunks, FoldLeft, MapThenFoldSet, Max, ChunkFold!Fold, ChunkFold!Largest
<1>6. parsed.statuses \in Seq(STRING)
  BY <1>4, <1>5 DEF R
<1> HIDE DEF parsed
<1> DEFINE lost == Count(parsed.statuses, "lost")
<1>7. lost \in Int
  <2> DEFINE n == Len(parsed.statuses)
             S == {i \in 1 .. n : parsed.statuses[i] = "lost"}
  <2>1. n \in Nat
    BY <1>6
  <2>2. IsFiniteSet(1 .. n) /\ S \in SUBSET (1 .. n)
    BY <2>1, FS_Interval
  <2>3. lost = Cardinality(S)
    BY DEF Count
  <2> HIDE DEF S
  <2>4. Cardinality(S) \in Nat
    BY <2>2, FS_Subset, FS_CardinalityType
  <2> QED
    BY <2>3, <2>4
<1>8. twcc_parse_feedback(m) \in {0, Never, lost}
  BY DEF twcc_parse_feedback, parsed
<1> HIDE DEF lost
<1> QED
  BY <1>7, <1>8 DEF Never
-----------------------------------------------------------------------------
(* The controller and its ticks. *)

HeadroomFor(L, tick, rung) == tick.estimate >= (L[rung + 1] * (100 + UP_HEADROOM_PCT)) \div 100

\* Every tick from the k-th to the i-th comes after one of this rung, has headroom for the
\* next, and no heavy loss unless the rung is the floor.
Lead(L, T, k, i, rung) ==
  \A j \in k .. i : /\ T[j - 1].rung = rung /\ HeadroomFor(L, T[j], rung + 1)
                    /\ rung > 0 => T[j].loss < LOSS_DOWN_Q8

Fits(L, tick) == tick.rung > 0 => L[tick.rung + 1] <= (tick.estimate * SAFETY_PCT) \div 100

\* The i-th tick recommends no more than its predecessor, or one rung more after a lead.
Earned(L, T, i) ==
  LET before == IF i = 1 THEN T[i].rung ELSE T[i - 1].rung
  IN T[i].rung > before =>
       /\ T[i].rung = before + 1
       /\ \E k \in 2 .. i : /\ nano_time_elapsed(T[i].at, T[k].at, CLOCK) >= MIN_HOLD
                            /\ Lead(L, T, k, i, before)

Justified(L, T) == \A i \in 1 .. Len(T) : Fits(L, T[i]) /\ Earned(L, T, i)

RcFields == {"cur_rung", "has_rung", "up_target", "up_since"}

\* The controller is at the rung of its last tick; its hold timer, when it is armed, was armed at
\* a tick since which there has been a lead.
Climb(rc, L, T) ==
  /\ DOMAIN rc = RcFields /\ rc.has_rung \in BOOLEAN /\ IsSeq(T) /\ Justified(L, T)
  /\ rc.cur_rung \in 0 .. Len(L) - 1
  /\ IF rc.has_rung THEN Len(T) > 0 /\ T[Len(T)].rung = rc.cur_rung ELSE Len(T) = 0
  /\ rc.up_target # 0 =>
       /\ rc.has_rung /\ rc.up_target = rc.cur_rung + 1
       /\ \E k \in 2 .. Len(T) : T[k].at = rc.up_since /\ Lead(L, T, k, Len(T), rc.cur_rung)

\* A ladder ascends from any rung to any higher one.
LEMMA Ascends ==
  ASSUME NEW L \in Seq(Nat), Ordered(L), NEW i \in 1 .. Len(L), NEW j \in i .. Len(L)
  PROVE  L[i] <= L[j]
<1> DEFINE n == Len(L)
           Q == {d \in Nat : i + d <= n => L[i] <= L[i + d]}
<1>0. n \in Nat /\ i \in Nat /\ j \in Nat /\ \A k \in 1 .. n : L[k] \in Nat
  OBVIOUS
<1>1. 0 \in Q
  BY <1>0
<1>2. ASSUME NEW d \in Nat, d \in Q PROVE d + 1 \in Q
  <2> SUFFICES ASSUME i + (d + 1) <= n PROVE L[i] <= L[i + (d + 1)]
    OBVIOUS
  <2> DEFINE k == i + (d + 1)
  <2>1. k \in 2 .. n /\ k - 1 = i + d /\ i + d <= n /\ i + d \in 1 .. n /\ k \in 1 .. n
    BY <1>0, SMTT(30)
  <2>2. L[i] <= L[i + d] /\ L[k] >= L[k - 1]
    BY <1>2, <2>1 DEF Ordered
  <2>3. L[i] \in Nat /\ L[i + d] \in Nat /\ L[k] \in Nat
    BY <1>0, <2>1
  <2>4. L[k - 1] = L[i + d]
    BY <2>1
  <2> HIDE DEF k
  <2>5. \A x, y, z \in Nat : x <= y /\ z >= y => x <= z
    OBVIOUS
  <2>6. L[i] <= L[k]
    BY <2>2, <2>3, <2>4, <2>5, Zenon
  <2> QED
    BY <2>6 DEF k
<1>3. Nat \subseteq Q
  <2> HIDE DEF Q
  <2> QED
    BY <1>1, <1>2, SetInduction
<1>4. j - i \in Nat /\ i + (j - i) = j /\ j <= n
  BY <1>0
<1>5. j - i \in Q
  BY <1>3, <1>4
<1> QED
  BY <1>4, <1>5

\* rate_control_select_target: a rung of the ladder; it and those below it fit the budget.
LEMMA TargetFits ==
  ASSUME NEW L \in Seq(Nat), Ordered(L), L # <<>>, NEW e \in Nat
  PROVE  LET t == rate_control_select_target(e, L)
         IN /\ t \in 0 .. Len(L) - 1
            /\ \A u \in 1 .. t : L[u + 1] <= (e * SAFETY_PCT) \div 100
<1> DEFINE n == Len(L)
           budget == (e * SAFETY_PCT) \div 100
           K == {k \in 1 .. n : L[k] <= budget}
           S == {0} \cup {i - 1 : i \in K}
           t == rate_control_select_target(e, L)
<1>1. t = Max(S)
  BY DEF rate_control_select_target
<1>2. n \in Nat /\ n - 1 \in Nat /\ \A k \in 1 .. n : L[k] \in Nat
  OBVIOUS
<1>3. budget \in Int
  <2>1. SAFETY_PCT \in Nat
    BY RateTypes
  <2>2. e * SAFETY_PCT \in Int
    BY <2>1
  <2> QED
    BY <2>2
<1> HIDE DEF budget, t
<1>4. S \in SUBSET (0 .. n - 1) /\ S # {}
  BY <1>2
<1>5. t \in S /\ t \in 0 .. n - 1
  <2>1. t \in S
    <3> HIDE DEF S
    <3> QED
      BY <1>1, <1>2, <1>4, MaxOf
  <2> QED
    BY <1>4, <2>1
<1>6. ASSUME NEW u \in 1 .. t PROVE L[u + 1] <= budget
  <2>1. t # 0 /\ u + 1 \in 1 .. n /\ t + 1 \in u + 1 .. n /\ t + 1 \in 1 .. n
    BY <1>2, <1>5
  <2>2. PICK k \in K : t = k - 1
    BY <1>5, <2>1
  <2>3. k = t + 1 /\ L[k] <= budget
    BY <2>2
  <2>4. L[u + 1] <= L[t + 1]
    BY <2>1, Ascends
  <2>5. L[u + 1] \in Nat /\ L[t + 1] \in Nat
    BY <1>2, <2>1
  <2> QED
    BY <1>3, <2>3, <2>4, <2>5
<1> QED
  BY <1>5, <1>6 DEF t, budget

\* What rate_control_update may do: the first rung, a fall, the same rung, a rise, or waiting.
First(rc, new, fits) == ~rc.has_rung /\ new.cur_rung = fits /\ new.up_target = 0
Falls(rc, new, fits) ==
  rc.has_rung /\ new.cur_rung \in 0 .. fits /\ new.cur_rung < rc.cur_rung /\ new.up_target = 0
Stays(rc, new, fits) ==
  rc.has_rung /\ new.cur_rung = rc.cur_rung /\ rc.cur_rung <= fits /\ new.up_target = 0

\* There is headroom for the next rung; the timer runs since this time.
Since(rc, now) == IF rc.up_target = rc.cur_rung + 1 THEN rc.up_since ELSE now
Leads(rc, fits, e, loss, L) ==
  /\ rc.has_rung /\ rc.cur_rung < fits
  /\ e >= (L[(rc.cur_rung + 1) + 1] * (100 + UP_HEADROOM_PCT)) \div 100
  /\ rc.cur_rung > 0 => loss < LOSS_DOWN_Q8
Rises(rc, new, now) ==
  /\ nano_time_elapsed(now, Since(rc, now), CLOCK) >= MIN_HOLD
  /\ new.cur_rung = rc.cur_rung + 1 /\ new.up_target = 0
Waits(rc, new, now) ==
  /\ new.cur_rung = rc.cur_rung /\ new.up_target = rc.cur_rung + 1 /\ new.up_since = Since(rc, now)

\* rate_control_clear_up disarms the timer only.
LEMMA ClearUp ==
  ASSUME NEW rc, DOMAIN rc = RcFields
  PROVE  LET new == rate_control_clear_up(rc)
         IN /\ DOMAIN new = RcFields /\ new.cur_rung = rc.cur_rung /\ new.has_rung = rc.has_rung
            /\ new.up_target = 0
BY DEF rate_control_clear_up, RcFields

\* rate_control_update.
LEMMA UpdateDoes ==
  ASSUME NEW rc, DOMAIN rc = RcFields, rc.has_rung \in BOOLEAN,
         NEW L \in Seq(Nat), Ordered(L), L # <<>>,
         NEW e \in Nat \ {0}, NEW loss \in Int, NEW now, rc.cur_rung \in 0 .. Len(L) - 1
  PROVE  LET new == rate_control_update(rc, e, loss, L, now)
             fits == rate_control_select_target(e, L)
         IN /\ DOMAIN new = RcFields /\ new.has_rung = TRUE
            /\ \/ First(rc, new, fits) \/ Falls(rc, new, fits) \/ Stays(rc, new, fits)
               \/ Leads(rc, fits, e, loss, L) /\ (Rises(rc, new, now) \/ Waits(rc, new, now))
<1> DEFINE new == rate_control_update(rc, e, loss, L, now)
           fits == rate_control_select_target(e, L)
           c == rc.cur_rung
           lower == Min({fits, c - 1})
           target == IF loss >= LOSS_DOWN_Q8 /\ c > 0 THEN lower ELSE fits
           next == c + 1
           need == (L[next + 1] * (100 + UP_HEADROOM_PCT)) \div 100
           armed == IF rc.up_target = next THEN rc
                    ELSE [rc EXCEPT !.up_target = next, !.up_since = now]
           held == nano_time_elapsed(now, armed.up_since, CLOCK) >= MIN_HOLD
           start == [rc EXCEPT !.cur_rung = fits, !.has_rung = TRUE]
           down == [rc EXCEPT !.cur_rung = target]
           up == [rc EXCEPT !.cur_rung = next]
<1>1. new = IF e = 0 THEN rc
            ELSE IF ~rc.has_rung THEN rate_control_clear_up(start)
            ELSE IF target < c THEN rate_control_clear_up(down)
            ELSE IF target = c \/ e < need THEN rate_control_clear_up(rc)
            ELSE IF held THEN rate_control_clear_up(up)
            ELSE armed
  BY DEF rate_control_update
<1>2. /\ Len(L) \in Nat /\ c \in 0 .. Len(L) - 1 /\ fits \in 0 .. Len(L) - 1
      /\ \A k \in 1 .. Len(L) : L[k] \in Nat
  <2>1. e \in Nat
    OBVIOUS
  <2>2. fits \in 0 .. Len(L) - 1
    BY <2>1, TargetFits
  <2> QED
    BY <2>2
<1>3. /\ target \in Int /\ target <= fits
      /\ target \in Nat
      /\ target >= c => target = fits /\ (c > 0 => loss < LOSS_DOWN_Q8)
  <2>0. LOSS_DOWN_Q8 \in Nat
    BY RateTypes
  <2>1. CASE loss >= LOSS_DOWN_Q8 /\ c > 0
    <3> DEFINE S == {fits, c - 1}
    <3>1. S \subseteq Nat /\ S # {} /\ c - 1 \in Nat /\ fits \in S /\ c - 1 \in S
      BY <1>2, <2>1
    <3> HIDE DEF S
    <3>2. Min(S) \in S /\ \A y \in S : Min(S) <= y
      BY <3>1, MinOf
    <3>3. lower \in Nat /\ lower <= fits /\ lower <= c - 1
      BY <3>1, <3>2 DEF S
    <3>4. target = lower
      BY <2>1
    <3> HIDE DEF target, lower, fits
    <3> QED
      BY <1>2, <3>3, <3>4
  <2>2. CASE ~(loss >= LOSS_DOWN_Q8 /\ c > 0)
    <3>1. target = fits
      BY <2>2
    <3> HIDE DEF target, fits
    <3> QED
      BY <1>2, <2>0, <2>2, <3>1
  <2> QED
    BY <2>1, <2>2
<1>4. /\ armed.up_since = Since(rc, now) /\ armed.up_target = next /\ armed.cur_rung = c
      /\ DOMAIN armed = RcFields /\ armed.has_rung = rc.has_rung
  BY DEF Since, RcFields
<1>5. held <=> nano_time_elapsed(now, Since(rc, now), CLOCK) >= MIN_HOLD
  BY <1>4
<1> HIDE DEF new, fits, target, armed, held
<1>6. /\ DOMAIN start = RcFields /\ start.cur_rung = fits /\ start.has_rung = TRUE
      /\ DOMAIN down = RcFields /\ down.cur_rung = target /\ down.has_rung = rc.has_rung
      /\ DOMAIN up = RcFields /\ up.cur_rung = next /\ up.has_rung = rc.has_rung
  BY DEF RcFields
<1> HIDE DEF start, down, up
<1>7. CASE ~rc.has_rung
  <2>1. new = rate_control_clear_up(start)
    BY <1>1, <1>7
  <2>2. /\ DOMAIN new = RcFields /\ new.cur_rung = fits /\ new.has_rung = TRUE
        /\ new.up_target = 0
    BY <1>6, <2>1, ClearUp
  <2> QED
    BY <1>7, <2>2 DEF First, new, fits
<1>8. CASE rc.has_rung /\ target < c
  <2>1. new = rate_control_clear_up(down)
    BY <1>1, <1>8
  <2>2. /\ DOMAIN new = RcFields /\ new.cur_rung = target /\ new.has_rung = TRUE
        /\ new.up_target = 0
    BY <1>6, <1>8, <2>1, ClearUp
  <2>3. target \in 0 .. fits
    BY <1>2, <1>3
  <2>4. Falls(rc, new, fits)
    BY <1>8, <2>2, <2>3 DEF Falls
  <2> QED
    BY <2>2, <2>4 DEF new, fits
<1>9. CASE rc.has_rung /\ ~(target < c) /\ (target = c \/ e < need)
  <2>1. new = rate_control_clear_up(rc)
    <3> HIDE DEF need, c
    <3> QED
      BY <1>1, <1>9
  <2>2. /\ DOMAIN new = RcFields /\ new.cur_rung = c /\ new.has_rung = TRUE
        /\ new.up_target = 0
    BY <1>9, <2>1, ClearUp
  <2>3. c <= fits
    BY <1>2, <1>3, <1>9
  <2>4. Stays(rc, new, fits)
    BY <1>9, <2>2, <2>3 DEF Stays
  <2> QED
    BY <2>2, <2>4 DEF new, fits
<1>10. CASE rc.has_rung /\ ~(target < c) /\ ~(target = c \/ e < need)
  <2>1. target > c /\ target = fits /\ (c > 0 => loss < LOSS_DOWN_Q8)
    BY <1>2, <1>3, <1>10, SMTT(30)
  <2>2. e >= need
    <3>1. next + 1 \in 1 .. Len(L)
      BY <1>2, <2>1, SMTT(30)
    <3>2. L[next + 1] \in Nat /\ UP_HEADROOM_PCT \in Nat
      BY <1>2, <3>1, RateTypes
    <3> DEFINE b == L[next + 1]
    <3>3. (b * (100 + UP_HEADROOM_PCT)) \div 100 \in Int
      BY <3>2
    <3>4. need \in Int
      BY <3>3
    <3> HIDE DEF need
    <3> QED
      BY <1>10, <3>4
  <2>3. Leads(rc, fits, e, loss, L)
    BY <1>10, <2>1, <2>2 DEF Leads
  <2>4. CASE held
    <3>1. new = rate_control_clear_up(up)
      <4> HIDE DEF need, c
      <4> QED
        BY <1>1, <1>10, <2>4
    <3>2. /\ DOMAIN new = RcFields /\ new.cur_rung = next /\ new.has_rung = TRUE
          /\ new.up_target = 0
      BY <1>6, <1>10, <3>1, ClearUp
    <3>3. Rises(rc, new, now)
      BY <1>5, <2>4, <3>2 DEF Rises
    <3> QED
      BY <2>3, <3>2, <3>3 DEF new, fits
  <2>5. CASE ~held
    <3>1. new = armed
      <4> HIDE DEF need, c
      <4> QED
        BY <1>1, <1>10, <2>5
    <3>2. Waits(rc, new, now)
      BY <1>4, <3>1 DEF Waits
    <3>3. DOMAIN new = RcFields /\ new.has_rung = TRUE
      BY <1>4, <1>10, <3>1
    <3> QED
      BY <2>3, <3>2, <3>3 DEF new, fits
  <2> QED
    BY <2>4, <2>5
<1> QED
  BY <1>7, <1>8, <1>9, <1>10
\* A lead depends on its own ticks only.
LEMMA LeadMoves ==
  ASSUME NEW L, NEW T, NEW U, NEW n \in Nat, \A j \in 1 .. n : U[j] = T[j],
         NEW i \in 1 .. n, NEW k \in 2 .. i, NEW rung, Lead(L, T, k, i, rung)
  PROVE  Lead(L, U, k, i, rung)
<1> SUFFICES ASSUME NEW j \in k .. i
             PROVE  /\ U[j - 1].rung = rung /\ HeadroomFor(L, U[j], rung + 1)
                    /\ rung > 0 => U[j].loss < LOSS_DOWN_Q8
  BY DEF Lead
<1>1. j \in 1 .. n /\ j - 1 \in 1 .. n
  OBVIOUS
<1>2. U[j] = T[j] /\ U[j - 1] = T[j - 1]
  BY <1>1
<1> QED
  BY <1>2 DEF Lead

\* Old ticks stay justified when one is added.
LEMMA JustifiedMoves ==
  ASSUME NEW L, NEW T, NEW U, NEW n \in Nat, Len(T) = n, Len(U) = n + 1,
         \A j \in 1 .. n : U[j] = T[j], Justified(L, T), Fits(L, U[n + 1]), Earned(L, U, n + 1)
  PROVE  Justified(L, U)
<1>1. ASSUME NEW i \in 1 .. n PROVE Fits(L, U[i]) /\ Earned(L, U, i)
  <2>1. Fits(L, T[i]) /\ Earned(L, T, i) /\ U[i] = T[i]
    BY <1>1 DEF Justified
  <2> DEFINE before == IF i = 1 THEN T[i].rung ELSE T[i - 1].rung
  <2>2. before = IF i = 1 THEN U[i].rung ELSE U[i - 1].rung
    <3>1. i # 1 => i - 1 \in 1 .. n
      OBVIOUS
    <3> QED
      BY <3>1
  <2>3. T[i].rung > before =>
          /\ T[i].rung = before + 1
          /\ \E k \in 2 .. i : /\ nano_time_elapsed(T[i].at, T[k].at, CLOCK) >= MIN_HOLD
                               /\ Lead(L, T, k, i, before)
    BY <2>1 DEF Earned
  <2> HIDE DEF before
  <2>4. ASSUME NEW k \in 2 .. i, nano_time_elapsed(T[i].at, T[k].at, CLOCK) >= MIN_HOLD,
               Lead(L, T, k, i, before)
        PROVE  nano_time_elapsed(U[i].at, U[k].at, CLOCK) >= MIN_HOLD /\ Lead(L, U, k, i, before)
    <3>1. U[k] = T[k]
      OBVIOUS
    <3>2. Lead(L, U, k, i, before)
      BY <2>4, LeadMoves
    <3> QED
      BY <2>1, <2>4, <3>1, <3>2
  <2>5. U[i].rung > before =>
          /\ U[i].rung = before + 1
          /\ \E k \in 2 .. i : /\ nano_time_elapsed(U[i].at, U[k].at, CLOCK) >= MIN_HOLD
                               /\ Lead(L, U, k, i, before)
    BY <2>1, <2>3, <2>4
  <2>6. Earned(L, U, i)
    BY <2>2, <2>5 DEF Earned
  <2> QED
    BY <2>1, <2>6
<1>2. \A i \in 1 .. n + 1 : i \in 1 .. n \/ i = n + 1
  OBVIOUS
<1> QED
  BY <1>1, <1>2 DEF Justified

\* The rung that the controller goes to is at most the one the budget is good for.
LEMMA RungWithin ==
  ASSUME NEW rc, NEW new, NEW fits \in Nat, NEW e, NEW loss, NEW L, NEW now, rc.cur_rung \in Nat,
         \/ First(rc, new, fits) \/ Falls(rc, new, fits) \/ Stays(rc, new, fits)
         \/ Leads(rc, fits, e, loss, L) /\ (Rises(rc, new, now) \/ Waits(rc, new, now))
  PROVE  new.cur_rung \in 0 .. fits
<1> DEFINE c == rc.cur_rung
           r == new.cur_rung
<1>1. \/ r = fits \/ r \in 0 .. fits
      \/ r = c /\ c <= fits
      \/ c < fits /\ (r = c + 1 \/ r = c)
  BY DEF First, Falls, Stays, Leads, Rises, Waits
<1>2. c \in Nat
  OBVIOUS
<1>3. r \in 0 .. fits
  <2> HIDE DEF c, r
  <2>1. CASE r = fits
    BY <2>1
  <2>2. CASE r = c /\ c <= fits
    BY <1>2, <2>2
  <2>3. CASE c < fits /\ (r = c + 1 \/ r = c)
    BY <1>2, <2>3
  <2> QED
    BY <1>1, <2>1, <2>2, <2>3
<1> QED
  BY <1>3

\* A tick of the controller.
LEMMA TickClimbs ==
  ASSUME NEW L \in Seq(Nat), Ordered(L), L # <<>>, NEW e \in Nat \ {0}, NEW loss \in Int, NEW now,
         NEW rc, NEW T, Climb(rc, L, T), NEW new, new = rate_control_update(rc, e, loss, L, now),
         NEW t, t = [at |-> now, estimate |-> e, loss |-> loss, rung |-> new.cur_rung]
  PROVE  Climb(new, L, Append(T, t))
<1> DEFINE U == Append(T, t)
           n == Len(T)
           c == rc.cur_rung
           fits == rate_control_select_target(e, L)
           since == Since(rc, now)
<1>1. /\ DOMAIN rc = RcFields /\ rc.has_rung \in BOOLEAN /\ IsSeq(T) /\ Justified(L, T)
      /\ c \in 0 .. Len(L) - 1 /\ n \in Nat
      /\ IF rc.has_rung THEN n > 0 /\ T[n].rung = c ELSE n = 0
  BY DEF Climb, IsSeq
<1>2. rc.up_target # 0 =>
        /\ rc.has_rung /\ rc.up_target = c + 1
        /\ \E k \in 2 .. n : T[k].at = rc.up_since /\ Lead(L, T, k, n, c)
  BY DEF Climb
<1>3. IsSeq(U) /\ Len(U) = n + 1 /\ U[n + 1] = t /\ \A i \in 1 .. n : U[i] = T[i]
  BY <1>1, AppendAt
<1>4. /\ DOMAIN new = RcFields /\ new.has_rung = TRUE
      /\ \/ First(rc, new, fits) \/ Falls(rc, new, fits) \/ Stays(rc, new, fits)
         \/ Leads(rc, fits, e, loss, L) /\ (Rises(rc, new, now) \/ Waits(rc, new, now))
  <2>1. DOMAIN rc = RcFields /\ rc.has_rung \in BOOLEAN /\ rc.cur_rung \in 0 .. Len(L) - 1
    BY <1>1, Zenon
  <2> QED
    BY <2>1, UpdateDoes, ZenonT(30)
<1>5. Len(L) \in Nat /\ fits \in 0 .. Len(L) - 1 /\ \A u \in 1 .. fits : L[u + 1] <= (e * SAFETY_PCT) \div 100
  <2>1. e \in Nat
    OBVIOUS
  <2>2. fits \in 0 .. Len(L) - 1 /\ \A u \in 1 .. fits : L[u + 1] <= (e * SAFETY_PCT) \div 100
    BY <2>1, TargetFits, Zenon
  <2> QED
    BY <2>2
<1>6. t.at = now /\ t.estimate = e /\ t.loss = loss /\ t.rung = new.cur_rung
  OBVIOUS
<1> HIDE DEF U, n, fits
\* A rung of at most fits is in the ladder and fits the budget.
<1>7. new.cur_rung \in 0 .. fits
  <2>1. rc.cur_rung \in 0 .. Len(L) - 1 /\ fits \in 0 .. Len(L) - 1 /\ Len(L) - 1 \in Int
    BY <1>1, <1>5
  <2>2. \A i \in Int : 0 .. i \subseteq Nat
    OBVIOUS
  <2>3. rc.cur_rung \in Nat /\ fits \in Nat
    BY <2>1, <2>2, Zenon
  <2> QED
    BY <1>4, <2>3, RungWithin, Zenon
<1>8. new.cur_rung \in 0 .. Len(L) - 1 /\ Fits(L, t)
  <2> DEFINE x == new.cur_rung
  <2>1. Len(L) \in Nat /\ fits \in 0 .. Len(L) - 1 /\ x \in 0 .. fits
    BY <1>5, <1>7, Zenon
  <2> HIDE DEF x
  <2>2. x \in 0 .. Len(L) - 1 /\ (x > 0 => x \in 1 .. fits)
    BY <2>1, SMTT(30)
  <2>3. x > 0 => L[x + 1] <= (e * SAFETY_PCT) \div 100
    BY <1>5, <2>2, Zenon
  <2>4. Fits(L, t)
    BY <1>6, <2>3 DEF x, Fits
  <2> QED
    BY <2>2, <2>4 DEF x
\* The lead as it is after this tick.
<1>9. ASSUME Leads(rc, fits, e, loss, L)
      PROVE  \E k \in 2 .. n + 1 : U[k].at = since /\ Lead(L, U, k, n + 1, c)
  <2>1. /\ n > 0 /\ U[n].rung = c /\ HeadroomFor(L, U[n + 1], c + 1)
        /\ c > 0 => U[n + 1].loss < LOSS_DOWN_Q8
    <3>1. n > 0 /\ T[n].rung = c
      <4>1. rc.has_rung = TRUE
        BY <1>1, <1>9 DEF Leads
      <4> QED
        BY <1>1, <4>1
    <3>2. U[n] = T[n]
      BY <1>1, <1>3, <3>1
    <3>3. HeadroomFor(L, t, c + 1) /\ (c > 0 => t.loss < LOSS_DOWN_Q8)
      BY <1>6, <1>9 DEF Leads, HeadroomFor
    <3> QED
      BY <1>3, <3>1, <3>2, <3>3
  <2>2. CASE rc.up_target = c + 1
    <3>1. rc.up_target # 0
      BY <1>1, <2>2
    <3>2. PICK k \in 2 .. n : T[k].at = rc.up_since /\ Lead(L, T, k, n, c)
      BY <1>2, <3>1
    <3>3. n \in 1 .. n /\ k \in 2 .. n + 1 /\ k \in 1 .. n /\ k \in Int
      BY <1>1, <2>1
    <3>4. Lead(L, U, k, n, c)
      <4>1. \A j \in 1 .. n : U[j] = T[j]
        BY <1>3
      <4> HIDE DEF c
      <4> QED
        BY <1>1, <3>2, <3>3, <4>1, LeadMoves
    <3>5. Lead(L, U, k, n + 1, c)
      <4>1. \A j \in k .. n + 1 : j \in k .. n \/ (j = n + 1 /\ j - 1 = n)
        BY <1>1, <3>3
      <4> QED
        BY <2>1, <3>4, <4>1 DEF Lead
    <3>6. U[k].at = since
      BY <1>3, <2>2, <3>2, <3>3 DEF Since
    <3> QED
      BY <3>3, <3>5, <3>6
  <2>3. CASE rc.up_target # c + 1
    <3>1. n + 1 \in 2 .. n + 1 /\ (n + 1) - 1 = n /\ \A j \in n + 1 .. n + 1 : j = n + 1
      BY <1>1, <2>1
    <3>2. U[n + 1].at = since
      BY <1>3, <1>6, <2>3 DEF Since
    <3>3. Lead(L, U, n + 1, n + 1, c)
      BY <2>1, <3>1 DEF Lead
    <3> QED
      BY <3>1, <3>2, <3>3
  <2> QED
    BY <2>2, <2>3
<1>10. Earned(L, U, n + 1)
  <2> DEFINE before == IF n + 1 = 1 THEN t.rung ELSE U[n].rung
  <2>1. t.rung \in Int /\ c \in Int
    BY <1>1, <1>5, <1>6, <1>7
  <2>2. before = IF rc.has_rung THEN c ELSE t.rung
    <3>1. rc.has_rung => n + 1 # 1 /\ U[n] = T[n]
      BY <1>1, <1>3
    <3> QED
      BY <1>1, <3>1
  <2>3. ASSUME t.rung > before
        PROVE  /\ t.rung = before + 1
               /\ \E k \in 2 .. n + 1 : /\ nano_time_elapsed(t.at, U[k].at, CLOCK) >= MIN_HOLD
                                        /\ Lead(L, U, k, n + 1, before)
    <3>1. rc.has_rung /\ before = c /\ t.rung > c
      BY <2>1, <2>2, <2>3
    <3>2. Leads(rc, fits, e, loss, L) /\ Rises(rc, new, now)
      BY <1>4, <1>6, <2>1, <3>1 DEF First, Falls, Stays, Waits
    <3>3. PICK k \in 2 .. n + 1 : U[k].at = since /\ Lead(L, U, k, n + 1, c)
      BY <1>9, <3>2
    <3>4. t.rung = c + 1 /\ nano_time_elapsed(t.at, U[k].at, CLOCK) >= MIN_HOLD
      BY <1>6, <3>2, <3>3 DEF Rises
    <3> QED
      BY <3>1, <3>3, <3>4
  <2>4. before = IF n + 1 = 1 THEN U[n + 1].rung ELSE U[(n + 1) - 1].rung
    <3>1. (n + 1) - 1 = n
      BY <1>1
    <3> QED
      BY <1>3, <3>1
  <2> HIDE DEF before
  <2> QED
    BY <1>3, <2>3, <2>4 DEF Earned
<1>11. Justified(L, U)
  <2>1. Fits(L, U[n + 1]) /\ Len(T) = n
    BY <1>3, <1>8 DEF n
  <2> QED
    BY <1>1, <1>3, <1>10, <2>1, JustifiedMoves
<1>12. new.up_target # 0 =>
         /\ new.has_rung /\ new.up_target = new.cur_rung + 1
         /\ \E k \in 2 .. n + 1 : U[k].at = new.up_since /\ Lead(L, U, k, n + 1, new.cur_rung)
  <2> SUFFICES ASSUME new.up_target # 0
               PROVE  /\ new.has_rung /\ new.up_target = new.cur_rung + 1
                      /\ \E k \in 2 .. n + 1 : U[k].at = new.up_since /\ Lead(L, U, k, n + 1, new.cur_rung)
    OBVIOUS
  <2>1. Leads(rc, fits, e, loss, L) /\ Waits(rc, new, now)
    BY <1>4 DEF First, Falls, Stays, Rises
  <2>2. new.cur_rung = c /\ new.up_target = c + 1 /\ new.up_since = since
    BY <2>1 DEF Waits
  <2>3. \E k \in 2 .. n + 1 : U[k].at = since /\ Lead(L, U, k, n + 1, c)
    BY <1>9, <2>1
  <2> QED
    BY <1>4, <2>2, <2>3
<1>13. Len(U) > 0 /\ U[Len(U)].rung = new.cur_rung
  BY <1>1, <1>3, <1>6
<1>14. Climb(new, L, U)
  BY <1>3, <1>4, <1>8, <1>11, <1>12, <1>13 DEF Climb
<1> QED
  BY <1>14 DEF U

-----------------------------------------------------------------------------
(* One member of a compound packet, and all of them. *)

\* Nothing the controller reads or keeps has changed.
Steady(r, s) == s.bwe = r.bwe /\ s.rc = r.rc /\ s.ladder = r.ladder /\ s.now = r.now

\* The estimator was fed, and the controller, if there is a ladder, updated.
Fed(r, s) ==
  /\ GoodBwe(s.bwe) /\ s.ladder = r.ladder /\ s.now = r.now
  /\ s.rc = IF r.ladder = <<>> THEN r.rc
            ELSE rate_control_update(r.rc, s.bwe.estimated, s.bwe.loss, r.ladder, r.now)

\* Fields that the controller does not read.
LEMMA SteadyUpdates ==
  ASSUME NEW r, WellFormed(r), NEW v
  PROVE  /\ Steady(r, r) /\ Steady(r, [r EXCEPT !.out = v])
         /\ Steady(r, [r EXCEPT !.pending = v]) /\ Steady(r, [r EXCEPT !.media = v])
BY DEF Steady, WellFormed, Fields

\* nano_rtc_emit_event_full.
LEMMA EmitSteady ==
  ASSUME NEW r, WellFormed(r), NEW event
  PROVE  Steady(r, nano_rtc_emit_event_full(r, event))
<1> DEFINE same == {i \in 1 .. Len(r.pending) :
                     r.pending[i].is = event.is /\ r.pending[i].key = event.key}
           others == IF same = {} THEN r.pending ELSE RemoveAt(r.pending, Min(same))
           a == Append(r.out, event)
           b == Append(others, event)
           s == nano_rtc_emit_event_full(r, event)
<1>1. s = [r EXCEPT !.out = a] \/ s = [r EXCEPT !.pending = b] \/ s = r
  BY DEF nano_rtc_emit_event_full
<1> HIDE DEF a, b, s
<1>2. /\ Steady(r, [r EXCEPT !.out = a]) /\ Steady(r, [r EXCEPT !.pending = b])
      /\ Steady(r, r)
  BY SteadyUpdates
<1>3. Steady(r, s)
  BY <1>1, <1>2
<1> QED
  BY <1>3 DEF s

\* nano_rtc_media_rate_control_tick.
LEMMA TickFeeds ==
  ASSUME NEW r, WellFormed(r), GoodBwe(r.bwe)
  PROVE  LET s == nano_rtc_media_rate_control_tick(r) IN s.bwe = r.bwe /\ Fed(r, s)
<1> DEFINE rc == rate_control_update(r.rc, r.bwe.estimated, r.bwe.loss, r.ladder, r.now)
           q == [r EXCEPT !.rc = rc]
           e == Event("spec", 0, rc.cur_rung)
           s == nano_rtc_media_rate_control_tick(r)
<1>1. \/ r.ladder = <<>> /\ s = r
      \/ r.ladder # <<>> /\ (s = q \/ s = nano_rtc_emit_event_full(q, e))
  BY DEF nano_rtc_media_rate_control_tick
<1> HIDE DEF rc, s
<1>2. WellFormed(q) /\ q.bwe = r.bwe /\ q.ladder = r.ladder /\ q.now = r.now /\ q.rc = rc
  <2>1. Kept(r, q)
    BY KeptUpdates
  <2> QED
    BY <2>1, KeptWellFormed DEF WellFormed, Fields
<1> HIDE DEF q, e
<1>3. Steady(q, nano_rtc_emit_event_full(q, e)) /\ Steady(q, q)
  BY <1>2, EmitSteady DEF Steady
<1>4. CASE r.ladder = <<>>
  <2>1. s = r
    BY <1>1, <1>4
  <2> QED
    BY <1>4, <2>1 DEF Fed, s
<1>5. CASE r.ladder # <<>>
  <2>1. Steady(q, s)
    BY <1>1, <1>3, <1>5
  <2>2. s.bwe = r.bwe /\ s.ladder = r.ladder /\ s.now = r.now /\ s.rc = rc
    BY <1>2, <2>1 DEF Steady
  <2>3. Fed(r, s)
    BY <1>5, <2>2 DEF Fed, rc
  <2> QED
    BY <2>2, <2>3 DEF s
<1> QED
  BY <1>4, <1>5

\* Updated.
LEMMA UpdatedFeeds ==
  ASSUME NEW r, WellFormed(r), NEW b, GoodBwe(b)
  PROVE  Fed(r, Updated(r, b))
<1> DEFINE new == [r EXCEPT !.bwe = b]
           c == [b EXCEPT !.prev_event = b.estimated]
           told == [r EXCEPT !.bwe = c]
           e == Event("bitrate", 0, b.estimated)
           said == nano_rtc_emit_event_full(told, e)
           next == IF bwe_should_emit_event(b) THEN said ELSE new
           s == nano_rtc_media_rate_control_tick(next)
<1>1. Updated(r, b) = s
  <2>1. [new EXCEPT !.bwe.prev_event = b.estimated] = told
    BY DEF WellFormed, Fields
  <2> HIDE DEF told
  <2> QED
    BY <2>1 DEF Updated
<1>2. GoodBwe(c) /\ c.estimated = b.estimated /\ c.loss = b.loss
  BY OtherGood
<1> HIDE DEF c, e
<1>3. /\ WellFormed(new) /\ new.bwe = b /\ new.rc = r.rc /\ new.ladder = r.ladder /\ new.now = r.now
      /\ WellFormed(told) /\ told.bwe = c /\ told.rc = r.rc /\ told.ladder = r.ladder
      /\ told.now = r.now
  <2>1. Kept(r, new) /\ Kept(r, told)
    BY KeptUpdates
  <2> QED
    BY <2>1, KeptWellFormed DEF WellFormed, Fields
<1> HIDE DEF new, told
<1>4. WellFormed(said) /\ Steady(told, said)
  BY <1>3, EmitKeeps, KeptWellFormed, EmitSteady
<1> HIDE DEF said
<1>5. /\ WellFormed(next) /\ GoodBwe(next.bwe) /\ next.rc = r.rc /\ next.ladder = r.ladder
      /\ next.now = r.now
  BY <1>2, <1>3, <1>4 DEF Steady
<1> HIDE DEF next
<1>6. s.bwe = next.bwe /\ Fed(next, s)
  BY <1>5, TickFeeds
<1> HIDE DEF s
<1>7. Fed(r, s)
  BY <1>5, <1>6 DEF Fed
<1> QED
  BY <1>1, <1>7

\* What a member of a compound packet is made of.
Typed(m) ==
  /\ "is" \in DOMAIN m
  /\ m.is = "remb" => m.mantissa \in Nat /\ m.exp \in Nat
  /\ m.is = "twcc" => IsFeedback(m)

\* HandleMember.
LEMMA MemberFeeds ==
  ASSUME NEW r, WellFormed(r), GoodBwe(r.bwe), NEW member, Typed(member)
  PROVE  IF Feeds(member) THEN Fed(r, HandleMember(r, member))
         ELSE Steady(r, HandleMember(r, member))
<1> DEFINE m == rtcp_parse(member)
           s == HandleMember(r, member)
           loss == (twcc_parse_feedback(member) * 256) \div member.count
<1>1. \/ m = member
      \/ m.is \in {"sr", "rr", "other"} /\ member.is \in {"sr", "rr"}
  BY DEF rtcp_parse, Typed
<1>2. s = CASE m.is \in {"sr", "rr"} -> HandleReport(r, m)
            [] m.is = "remb" -> Updated(r, bwe_on_rtcp_feedback(r.bwe, m))
            [] m.is = "pli" /\ m.track # 0 -> nano_rtc_emit_event_full(r, Event("keyframe", m.track, 0))
            [] m.is = "twcc" /\ Feeds(m) ->
                 Updated(r, bwe_on_twcc_loss(r.bwe, (twcc_parse_feedback(m) * 256) \div m.count))
            [] OTHER -> r
  BY DEF HandleMember
<1>3. Feeds(member) <=> \/ member.is = "remb"
                        \/ /\ member.is = "twcc" /\ member.count > 0
                           /\ twcc_parse_feedback(member) # Never
  BY DEF Feeds
<1>4. Steady(r, HandleReport(r, m))
  <2> DEFINE v == [r.media EXCEPT ![m.track].fraction_lost = m.block]
  <2>1. HandleReport(r, m) = r \/ HandleReport(r, m) = [r EXCEPT !.media = v]
    BY DEF HandleReport
  <2> HIDE DEF v, m
  <2>2. Steady(r, r) /\ Steady(r, [r EXCEPT !.media = v])
    BY SteadyUpdates
  <2> QED
    BY <2>1, <2>2
<1>5. \A e : Steady(r, nano_rtc_emit_event_full(r, e))
  BY EmitSteady
<1>6. Steady(r, r)
  BY SteadyUpdates
<1> HIDE DEF m, s
<1>7. CASE member.is = "remb"
  <2>1. m = member
    BY <1>1, <1>7
  <2>2. s = Updated(r, bwe_on_rtcp_feedback(r.bwe, member))
    BY <1>2, <1>7, <2>1
  <2>3. GoodBwe(bwe_on_rtcp_feedback(r.bwe, member))
    BY <1>7, RembGood DEF Typed
  <2>4. Fed(r, s)
    BY <2>2, <2>3, UpdatedFeeds
  <2> QED
    BY <1>3, <1>7, <2>4 DEF s
<1>8. CASE member.is = "twcc" /\ Feeds(member)
  <2>1. m = member
    BY <1>1, <1>8
  <2>2. s = Updated(r, bwe_on_twcc_loss(r.bwe, loss))
    BY <1>2, <1>8, <2>1
  <2>3. loss \in Int
    <3>1. twcc_parse_feedback(member) \in Int /\ member.count \in Nat /\ member.count > 0
      BY <1>3, <1>8, LossIsNumber DEF Typed, IsFeedback
    <3> QED
      BY <3>1
  <2> HIDE DEF loss
  <2>4. GoodBwe(bwe_on_twcc_loss(r.bwe, loss))
    BY <2>3, LossGood
  <2>5. Fed(r, s)
    BY <2>2, <2>4, UpdatedFeeds
  <2> QED
    BY <1>8, <2>5 DEF s
<1>9. CASE member.is # "remb" /\ ~(member.is = "twcc" /\ Feeds(member))
  <2>1. m.is # "remb" /\ ~(m.is = "twcc" /\ Feeds(m))
    BY <1>1, <1>9
  <2>2. Steady(r, s)
    BY <1>2, <1>4, <1>5, <1>6, <2>1
  <2>3. ~Feeds(member)
    BY <1>3, <1>9
  <2> QED
    BY <2>2, <2>3 DEF s
<1> QED
  BY <1>7, <1>8, <1>9
\* The state that the controller and its ticks rest on.
Rungs(r, T) ==
  /\ WellFormed(r) /\ GoodBwe(r.bwe) /\ r.ladder \in Seq(Nat) /\ Ordered(r.ladder)
  /\ r.ladder # <<>> => Climb(r.rc, r.ladder, T)

\* A controller that starts afresh.
LEMMA FreshClimbs ==
  ASSUME NEW L \in Seq(Nat), L # <<>>
  PROVE  Climb(rate_control_init, L, <<>>)
<1>1. IsSeq(<<>>) /\ Justified(L, <<>>) /\ Len(<<>>) = 0
  BY DEF IsSeq, Justified
<1>2. 0 \in 0 .. Len(L) - 1
  OBVIOUS
<1> QED
  BY <1>1, <1>2 DEF Climb, rate_control_init, RcFields

\* AddTick: a member, with its tick.
LEMMA AddTickRungs ==
  ASSUME NEW r, NEW T, Rungs(r, T), NEW m, Typed(m)
  PROVE  LET a == AddTick([r |-> r, ticks |-> T], m)
         IN a.r = HandleMember(r, m) /\ Rungs(a.r, a.ticks) /\ a.r.ladder = r.ladder
<1> DEFINE s == HandleMember(r, m)
           t == Tick(s)
           U == IF Feeds(m) THEN Append(T, t) ELSE T
           a == AddTick([r |-> r, ticks |-> T], m)
<1>1. a.r = s /\ a.ticks = U
  BY DEF AddTick
<1>2. /\ WellFormed(r) /\ GoodBwe(r.bwe) /\ r.ladder \in Seq(Nat) /\ Ordered(r.ladder)
      /\ r.ladder # <<>> => Climb(r.rc, r.ladder, T)
  BY DEF Rungs
<1>3. IF Feeds(m) THEN Fed(r, s) ELSE Steady(r, s)
  BY <1>2, MemberFeeds
<1>4. WellFormed(s)
  BY <1>2, MemberKeeps, KeptWellFormed
<1>5. /\ t = [at |-> s.now, estimate |-> s.bwe.estimated, loss |-> s.bwe.loss,
              rung |-> s.rc.cur_rung]
  BY DEF Tick
<1> HIDE DEF s, t, a
<1>6. CASE Feeds(m)
  <2>1. /\ GoodBwe(s.bwe) /\ s.ladder = r.ladder /\ s.now = r.now
        /\ r.ladder # <<>> => s.rc = rate_control_update(r.rc, s.bwe.estimated, s.bwe.loss, r.ladder, r.now)
    BY <1>3, <1>6 DEF Fed
  <2>2. ASSUME r.ladder # <<>> PROVE Climb(s.rc, s.ladder, Append(T, t))
    <3> DEFINE e == s.bwe.estimated
               loss == s.bwe.loss
               L == r.ladder
               now == r.now
               rc == r.rc
               new == s.rc
    <3>1. e \in Nat \ {0} /\ loss \in Int
      BY <2>1 DEF GoodBwe
    <3>2. /\ L \in Seq(Nat) /\ Ordered(L) /\ L # <<>> /\ Climb(rc, L, T)
          /\ new = rate_control_update(rc, e, loss, L, now)
          /\ t = [at |-> now, estimate |-> e, loss |-> loss, rung |-> new.cur_rung]
      BY <1>2, <1>5, <2>1, <2>2
    <3> HIDE DEF e, loss, L, now, rc, new
    <3>3. Climb(new, L, Append(T, t))
      BY <3>1, <3>2, TickClimbs
    <3> QED
      BY <2>1, <3>3 DEF new, L
  <2>3. Rungs(s, Append(T, t))
    BY <1>2, <1>4, <2>1, <2>2 DEF Rungs
  <2> QED
    BY <1>1, <1>6, <2>1, <2>3 DEF s, a
<1>7. CASE ~Feeds(m)
  <2>1. s.bwe = r.bwe /\ s.rc = r.rc /\ s.ladder = r.ladder
    BY <1>3, <1>7 DEF Steady
  <2>2. Rungs(s, T)
    BY <1>2, <1>4, <2>1 DEF Rungs
  <2> QED
    BY <1>1, <1>7, <2>1, <2>2 DEF s, a
<1> QED
  BY <1>6, <1>7

TickFold == INSTANCE FoldFacts WITH Op <- AddTick

\* The numbers are well-ordered, as the facts of the instance suppose.
LEMMA TickWellOrdered == TickFold!WellOrdered
BY LeastNat DEF TickFold!WellOrdered

\* A compound packet, with its ticks.
LEMMA MembersRungs ==
  ASSUME NEW r, NEW T, Rungs(r, T), NEW X, NEW members \in Seq(X),
         \A i \in 1 .. Len(members) : Typed(members[i])
  PROVE  LET s == FoldLeft(HandleMember, r, members)
         IN Rungs(s, Ticks(r, members, T)) /\ s.ladder = r.ladder
<1> DEFINE base == [r |-> r, ticks |-> T]
           l == Len(members)
<1>1. PICK G : MemberFold!Runs(G, r, members)
  BY MemberWellOrdered, MemberFold!FoldRun
<1>2. /\ G[0] = r
      /\ \A k \in 1 .. l : G[k] = HandleMember(G[k - 1], members[k])
      /\ FoldLeft(HandleMember, r, members) = G[l]
  <2>1. MemberFold!Fold(r, members) = FoldLeft(HandleMember, r, members)
    BY DEF FoldLeft, MapThenFoldSet, Max,
           MemberFold!Fold, MemberFold!Largest
  <2> QED
    BY <1>1, <2>1 DEF MemberFold!Runs
<1>3. PICK H : TickFold!Runs(H, base, members)
  BY TickWellOrdered, TickFold!FoldRun
<1>4. /\ H[0] = base
      /\ \A k \in 1 .. l : H[k] = AddTick(H[k - 1], members[k])
      /\ FoldLeft(AddTick, base, members) = H[l]
  <2>1. TickFold!Fold(base, members) = FoldLeft(AddTick, base, members)
    BY DEF FoldLeft, MapThenFoldSet, Max,
           TickFold!Fold, TickFold!Largest
  <2> QED
    BY <1>3, <2>1 DEF TickFold!Runs
<1>5. Ticks(r, members, T) = H[l].ticks
  BY <1>4 DEF Ticks
<1> DEFINE Good(k) == /\ H[k] = [r |-> G[k], ticks |-> H[k].ticks]
                      /\ Rungs(G[k], H[k].ticks) /\ G[k].ladder = r.ladder
           Q == {k \in Nat : k <= l => Good(k)}
<1>6. 0 \in Q
  BY <1>2, <1>4
<1>7. ASSUME NEW k \in Nat, k \in Q PROVE k + 1 \in Q
  <2> SUFFICES ASSUME k + 1 <= l PROVE Good(k + 1)
    OBVIOUS
  <2>0. l \in Nat
    OBVIOUS
  <2>1. k + 1 \in 1 .. l /\ (k + 1) - 1 = k /\ k <= l
    BY <2>0
  <2> DEFINE g == G[k]
             t == H[k].ticks
             m == members[k + 1]
             a == AddTick([r |-> g, ticks |-> t], m)
  <2>2. H[k] = [r |-> g, ticks |-> t] /\ Rungs(g, t) /\ g.ladder = r.ladder
    BY <1>7, <2>1
  <2>3. G[k + 1] = HandleMember(g, m) /\ H[k + 1] = a /\ Typed(m)
    BY <1>2, <1>4, <2>1, <2>2
  <2>4. a = [r |-> a.r, ticks |-> a.ticks]
    BY DEF AddTick
  <2> HIDE DEF g, t, m
  <2>5. a.r = HandleMember(g, m) /\ Rungs(a.r, a.ticks) /\ a.r.ladder = g.ladder
    BY <2>2, <2>3, AddTickRungs
  <2> HIDE DEF a
  <2> QED
    BY <2>2, <2>3, <2>4, <2>5
<1>8. Nat \subseteq Q
  <2> HIDE DEF Q
  <2> QED
    BY <1>6, <1>7, SetInduction
<1>9. l \in Nat
  OBVIOUS
<1>10. Good(l)
  <2>1. l \in Q /\ l <= l
    BY <1>8, <1>9
  <2> HIDE DEF l, Good
  <2> QED
    BY <2>1
<1> QED
  BY <1>2, <1>5, <1>10

-----------------------------------------------------------------------------
(* The third invariant. *)

RungInv ==
  /\ RotationInv /\ {"name", "calls"} \subseteq DOMAIN plan /\ plan.calls \subseteq Scenario.calls
  /\ "ticks" \in DOMAIN past /\ Rungs(rtc, past.ticks)
  /\ rtc.ladder = <<>> => past.ticks = <<>>

\* The invariant says what the property does.
LEMMA RungImplies == RungInv => RungsJustified
<1> SUFFICES ASSUME RungInv, NEW i \in 1 .. Len(past.ticks)
             PROVE  LET tick == past.ticks[i]
                        before == IF i = 1 THEN tick.rung ELSE past.ticks[i - 1].rung
                    IN /\ tick.rung > 0 => rtc.ladder[tick.rung + 1] <= (tick.estimate * SAFETY_PCT) \div 100
                       /\ tick.rung > before =>
                            /\ tick.rung = before + 1
                            /\ \E k \in 2 .. i :
                                 /\ nano_time_elapsed(tick.at, past.ticks[k].at, CLOCK) >= MIN_HOLD
                                 /\ \A j \in k .. i :
                                      /\ past.ticks[j - 1].rung = before
                                      /\ Headroom(past.ticks[j], tick.rung)
                                      /\ before > 0 => past.ticks[j].loss < LOSS_DOWN_Q8
  BY Zenon DEF RungsJustified
<1> DEFINE T == past.ticks
           L == rtc.ladder
           before == IF i = 1 THEN T[i].rung ELSE T[i - 1].rung
<1>1. L # <<>>
  <2>1. T # <<>>
    OBVIOUS
  <2> QED
    BY <2>1 DEF RungInv
<1>2. Fits(L, T[i]) /\ Earned(L, T, i)
  BY <1>1 DEF RungInv, Rungs, Climb, Justified
<1>3. T[i].rung > 0 => L[T[i].rung + 1] <= (T[i].estimate * SAFETY_PCT) \div 100
  BY <1>2 DEF Fits
<1>4. T[i].rung > before =>
        /\ T[i].rung = before + 1
        /\ \E k \in 2 .. i : /\ nano_time_elapsed(T[i].at, T[k].at, CLOCK) >= MIN_HOLD
                             /\ Lead(L, T, k, i, before)
  BY <1>2, Zenon DEF Earned
<1>5. ASSUME NEW k, Lead(L, T, k, i, before), T[i].rung = before + 1
      PROVE  \A j \in k .. i : /\ T[j - 1].rung = before /\ Headroom(T[j], T[i].rung)
                               /\ before > 0 => T[j].loss < LOSS_DOWN_Q8
  <2> HIDE DEF before, T
  <2> QED
    BY <1>5 DEF Lead, HeadroomFor, Headroom
<1> HIDE DEF before, T
<1>6. T[i].rung > before =>
        /\ T[i].rung = before + 1
        /\ \E k \in 2 .. i :
             /\ nano_time_elapsed(T[i].at, T[k].at, CLOCK) >= MIN_HOLD
             /\ \A j \in k .. i : /\ T[j - 1].rung = before /\ Headroom(T[j], T[i].rung)
                                  /\ before > 0 => T[j].loss < LOSS_DOWN_Q8
  BY <1>4, <1>5
<1> QED
  BY <1>3, <1>6, Zenon DEF before, T

\* It holds when the connection is up: no tick yet.
LEMMA InitRungs == Init => RungInv
<1> SUFFICES ASSUME Init PROVE RungInv
  OBVIOUS
<1>1. PICK name \in DOMAIN Scenarios :
        /\ rtc.bwe = bwe_init /\ rtc.rc = rate_control_init /\ rtc.ladder = Scenarios[name].ladder
        /\ past.ticks = <<>> /\ "ticks" \in DOMAIN past
        /\ plan.name = name /\ plan.calls = Scenarios[name].calls
        /\ {"name", "calls"} \subseteq DOMAIN plan
  BY DEF Init
<1>2. RotationInv
  BY InitRotation
<1>3. rtc.ladder \in Seq(Nat) /\ Ordered(rtc.ladder)
  BY <1>1, RateTypes
<1>4. Rungs(rtc, <<>>)
  BY <1>1, <1>2, <1>3, InitialBwe, FreshClimbs DEF Rungs, RotationInv, Ready
<1> QED
  BY <1>1, <1>2, <1>4 DEF RungInv, Scenario
\* A step that keeps what the controller reads and keeps, and the ticks.
LEMMA SteadyRungs ==
  ASSUME RungInv, RotationInv', Steady(rtc, rtc'), "ticks" \in DOMAIN past', past'.ticks = past.ticks,
         {"name", "calls"} \subseteq DOMAIN plan', plan'.name = plan.name,
         plan'.calls \subseteq plan.calls
  PROVE  RungInv'
<1>1. Scenario' = Scenario
  BY DEF Scenario
<1>2. Rungs(rtc', past'.ticks)
  BY DEF RungInv, Rungs, Steady, RotationInv, Ready
<1> QED
  BY <1>1, <1>2 DEF RungInv, Steady

\* Called uses up a call and nothing else of the plan.
LEMMA CalledRungs ==
  ASSUME RungInv, NEW c, Called(c)
  PROVE  /\ {"name", "calls"} \subseteq DOMAIN plan' /\ plan'.name = plan.name
         /\ plan'.calls \subseteq plan.calls
BY DEF RungInv, Called

\* The cadence of Sender Reports.
LEMMA CadenceSteady ==
  ASSUME NEW r, WellFormed(r)
  PROVE  LET s == nano_rtc_media_emit_rtcp_sr_cadence(r) IN WellFormed(s) /\ Steady(r, s)
<1> DEFINE s == nano_rtc_media_emit_rtcp_sr_cadence(r)
           e == Event("sr", NextReport(r), 0)
           o == Append(r.out, e)
           v == NextReport(r) % Len(r.media)
<1>1. s = r \/ s = [r EXCEPT !.out = o, !.last_sr = r.now, !.sr_cursor = v]
  BY DEF nano_rtc_media_emit_rtcp_sr_cadence
<1>2. IsSeq(o)
  BY AppendIsSeq DEF WellFormed
<1> HIDE DEF s, o, v
<1>3. WellFormed(s) /\ Steady(r, s)
  BY <1>1, <1>2 DEF WellFormed, Steady, Fields
<1> QED
  BY <1>3 DEF s

\* nanortc_handle_input: the timers, then the packet.
LEMMA InputRungs ==
  ASSUME RungInv, RotationInv', nanortc_handle_input
  PROVE  RungInv'
<1>1. PICK gap \in Scenario.gaps, compound \in Scenario.inputs :
        LET begun == [rtc EXCEPT !.now = (@ + gap) % CLOCK]
            timed == nano_rtc_media_emit_rtcp_sr_cadence(begun)
            members == Members(compound)
        IN /\ plan' = [plan EXCEPT !.inputs = @ - 1]
           /\ rtc' = FoldLeft(HandleMember, timed, members)
           /\ "ticks" \in DOMAIN past'
           /\ past'.ticks = IF rtc.ladder = <<>> THEN <<>> ELSE Ticks(timed, members, past.ticks)
  BY DEF nanortc_handle_input
<1> DEFINE now == (rtc.now + gap) % CLOCK
           begun == [rtc EXCEPT !.now = now]
           timed == nano_rtc_media_emit_rtcp_sr_cadence(begun)
           members == Members(compound)
           T == past.ticks
<1>2. /\ rtc' = FoldLeft(HandleMember, timed, members)
      /\ past'.ticks = IF rtc.ladder = <<>> THEN <<>> ELSE Ticks(timed, members, T)
  BY <1>1
<1>3. IsSeq(compound) /\ \A i \in 1 .. Len(compound) : Typed(compound[i])
  <2>1. plan.name \in DOMAIN Scenarios
    BY DEF RungInv, RotationInv
  <2>2. IsSeq(compound) /\ \A i \in 1 .. Len(compound) : "is" \in DOMAIN compound[i]
    BY <2>1, RateSizes DEF Scenario, IsSeq
  <2>3. ASSUME NEW i \in 1 .. Len(compound)
        PROVE  /\ compound[i].is = "remb" => compound[i].mantissa \in Nat /\ compound[i].exp \in Nat
               /\ compound[i].is = "twcc" => IsFeedback(compound[i])
    BY <2>1, RateTypes DEF Scenario, IsFeedback
  <2> QED
    BY <2>2, <2>3 DEF Typed
<1>4. /\ WellFormed(rtc) /\ GoodBwe(rtc.bwe) /\ rtc.ladder \in Seq(Nat) /\ Ordered(rtc.ladder)
      /\ rtc.ladder # <<>> => Climb(rtc.rc, rtc.ladder, T)
  BY DEF RungInv, Rungs
<1> HIDE DEF now
<1>5. WellFormed(begun) /\ begun.bwe = rtc.bwe /\ begun.rc = rtc.rc /\ begun.ladder = rtc.ladder
  BY <1>4 DEF WellFormed, Fields
<1> HIDE DEF begun
<1>6. WellFormed(timed) /\ Steady(begun, timed)
  BY <1>5, CadenceSteady
<1> HIDE DEF timed
<1>7. Rungs(timed, T) /\ timed.ladder = rtc.ladder
  BY <1>4, <1>5, <1>6 DEF Rungs, Steady
<1>8. /\ \E X : members \in Seq(X)
      /\ \A i \in 1 .. Len(members) : i \in 1 .. Len(compound) /\ members[i] = compound[i]
  BY <1>3, MembersSeq
<1> HIDE DEF members, T
<1>9. PICK X : members \in Seq(X)
  BY <1>8
<1>10. \A i \in 1 .. Len(members) : Typed(members[i])
  BY <1>3, <1>8
<1>11. Rungs(rtc', Ticks(timed, members, T)) /\ rtc'.ladder = rtc.ladder
  BY <1>2, <1>7, <1>9, <1>10, MembersRungs
<1>12. Rungs(rtc', past'.ticks)
  BY <1>2, <1>11 DEF Rungs
<1>13. /\ {"name", "calls"} \subseteq DOMAIN plan' /\ plan'.name = plan.name
       /\ plan'.calls = plan.calls
  BY <1>1 DEF RungInv
<1>14. Scenario' = Scenario
  BY <1>13 DEF Scenario
<1> QED
  BY <1>1, <1>2, <1>11, <1>12, <1>13, <1>14 DEF RungInv

\* nanortc_poll_output takes an output and nothing else.
LEMMA PollRungs ==
  ASSUME RungInv, RotationInv', nanortc_poll_output
  PROVE  RungInv'
<1>1. WellFormed(rtc)
  BY DEF RungInv, Rungs
<1>2. Steady(rtc, rtc')
  <2> DEFINE o == Tail(rtc.out)
             p == Tail(rtc.pending)
  <2>1. rtc' = [rtc EXCEPT !.out = o] \/ rtc' = [rtc EXCEPT !.pending = p]
    BY DEF nanortc_poll_output
  <2> HIDE DEF o, p
  <2>2. Steady(rtc, [rtc EXCEPT !.out = o]) /\ Steady(rtc, [rtc EXCEPT !.pending = p])
    BY <1>1, SteadyUpdates
  <2> QED
    BY <2>1, <2>2
<1>3. "ticks" \in DOMAIN past' /\ past'.ticks = past.ticks /\ plan' = plan
  BY DEF nanortc_poll_output, RungInv
<1> QED
  BY <1>2, <1>3, SteadyRungs DEF RungInv

\* Calls that set something of the estimator: it stays positive.
LEMMA EstimatorRungs ==
  ASSUME RungInv, RotationInv',
         \/ nanortc_set_bitrate_bounds \/ nanortc_set_initial_bitrate
         \/ nanortc_set_bwe_event_threshold
  PROVE  RungInv'
<1>1. /\ WellFormed(rtc) /\ GoodBwe(rtc.bwe) /\ plan.name \in DOMAIN Scenarios
      /\ plan.calls \subseteq Scenario.calls
  BY DEF RungInv, Rungs, RotationInv
<1>2. \E b : (rtc' = [rtc EXCEPT !.bwe = b] \/ (rtc' = rtc /\ b = rtc.bwe)) /\ GoodBwe(b)
  <2>1. CASE nanortc_set_bitrate_bounds
    <3>1. PICK c \in Calls("bounds") : rtc' = [rtc EXCEPT !.bwe = bwe_set_bounds(rtc.bwe, c.min, c.max)]
      BY <2>1 DEF nanortc_set_bitrate_bounds
    <3>2. c.min \in Nat /\ c.max \in Nat
      <4>1. c \in Scenario.calls /\ c.op = "bounds"
        BY <1>1 DEF Calls
      <4> QED
        BY <1>1, <4>1, RateTypes DEF Scenario
    <3> QED
      BY <1>1, <3>1, <3>2, BoundsGood
  <2>2. CASE nanortc_set_initial_bitrate
    <3>1. PICK c \in Calls("initial") : rtc' = [rtc EXCEPT !.bwe = bwe_set_initial_bitrate(rtc.bwe, c.bps)]
      BY <2>2 DEF nanortc_set_initial_bitrate
    <3>2. c.bps \in Nat
      <4>1. c \in Scenario.calls /\ c.op = "initial"
        BY <1>1 DEF Calls
      <4> QED
        BY <1>1, <4>1, RateTypes DEF Scenario
    <3> QED
      BY <1>1, <3>1, <3>2, InitialGood
  <2>3. CASE nanortc_set_bwe_event_threshold
    <3>1. PICK p : rtc' = rtc \/ rtc' = [rtc EXCEPT !.bwe.pct = p]
      BY <2>3 DEF nanortc_set_bwe_event_threshold
    <3> DEFINE b == rtc.bwe
               v == [b EXCEPT !.pct = p]
    <3>2. rtc' = rtc \/ rtc' = [rtc EXCEPT !.bwe = v]
      BY <3>1
    <3>3. GoodBwe(b) /\ GoodBwe(v)
      BY <1>1, OtherGood
    <3>4. b = rtc.bwe
      OBVIOUS
    <3> HIDE DEF b, v
    <3> QED
      BY <3>2, <3>3, <3>4
  <2> QED
    BY <2>1, <2>2, <2>3
<1>3. PICK b : (rtc' = [rtc EXCEPT !.bwe = b] \/ (rtc' = rtc /\ b = rtc.bwe)) /\ GoodBwe(b)
  BY <1>2
<1>4. rtc'.bwe = b /\ rtc'.rc = rtc.rc /\ rtc'.ladder = rtc.ladder
  BY <1>1, <1>3 DEF WellFormed, Fields
<1>5. (\E c : Called(c)) /\ past' = past
  BY DEF nanortc_set_bitrate_bounds, nanortc_set_initial_bitrate, nanortc_set_bwe_event_threshold
<1>6. WellFormed(rtc')
  BY DEF RotationInv, Ready
<1>7. Rungs(rtc', past'.ticks)
  BY <1>3, <1>4, <1>5, <1>6 DEF RungInv, Rungs
<1>8. /\ {"name", "calls"} \subseteq DOMAIN plan' /\ plan'.name = plan.name
      /\ plan'.calls \subseteq plan.calls
  BY <1>5, CalledRungs
<1>9. Scenario' = Scenario
  BY <1>8 DEF Scenario
<1> QED
  BY <1>4, <1>5, <1>7, <1>8, <1>9 DEF RungInv

\* nanortc_set_capability_ladder: a ladder is ordered, and the controller starts afresh with it.
LEMMA LadderRungs ==
  ASSUME RungInv, RotationInv', nanortc_set_capability_ladder
  PROVE  RungInv'
<1>1. PICK c \in Calls("ladder") :
        /\ rtc' = IF Ordered(c.rungs) THEN [rtc EXCEPT !.ladder = c.rungs, !.rc = rate_control_init]
                  ELSE rtc
        /\ past' = IF Ordered(c.rungs) THEN [past EXCEPT !.ticks = <<>>] ELSE past
        /\ Called(c)
  BY DEF nanortc_set_capability_ladder
<1>2. c.rungs \in Seq(Nat)
  <2>1. c \in Scenario.calls /\ c.op = "ladder" /\ plan.name \in DOMAIN Scenarios
    BY DEF Calls, RungInv, RotationInv
  <2> QED
    BY <2>1, RateTypes DEF Scenario
<1>3. /\ {"name", "calls"} \subseteq DOMAIN plan' /\ plan'.name = plan.name
      /\ plan'.calls \subseteq plan.calls
  BY <1>1, CalledRungs
<1>4. CASE ~Ordered(c.rungs)
  <2>1. rtc' = rtc /\ past' = past
    BY <1>1, <1>4
  <2>2. Steady(rtc, rtc') /\ "ticks" \in DOMAIN past'
    BY <2>1 DEF Steady, RungInv
  <2> QED
    BY <1>3, <2>1, <2>2, SteadyRungs
<1>5. CASE Ordered(c.rungs)
  <2> DEFINE L == c.rungs
             rc == rate_control_init
  <2>1. /\ rtc' = [rtc EXCEPT !.ladder = L, !.rc = rc]
        /\ past' = [past EXCEPT !.ticks = <<>>] /\ L \in Seq(Nat) /\ Ordered(L)
    BY <1>1, <1>2, <1>5
  <2>2. L # <<>> => Climb(rc, L, <<>>)
    BY <2>1, FreshClimbs
  <2> HIDE DEF L, rc
  <2>3. WellFormed(rtc) /\ GoodBwe(rtc.bwe) /\ "ticks" \in DOMAIN past
    BY DEF RungInv, Rungs
  <2>4. rtc'.bwe = rtc.bwe /\ rtc'.rc = rc /\ rtc'.ladder = L
    BY <2>1, <2>3 DEF WellFormed, Fields
  <2>5. past'.ticks = <<>> /\ "ticks" \in DOMAIN past'
    BY <2>1, <2>3
  <2>6. WellFormed(rtc')
    BY DEF RotationInv, Ready
  <2>7. Rungs(rtc', past'.ticks)
    BY <2>1, <2>2, <2>3, <2>4, <2>5, <2>6 DEF Rungs
  <2>8. Scenario' = Scenario
    BY <1>3 DEF Scenario
  <2> QED
    BY <1>3, <2>5, <2>7, <2>8 DEF RungInv
<1> QED
  BY <1>4, <1>5

\* Calls about a track.
LEMMA TrackRungs ==
  ASSUME RungInv, RotationInv',
         nanortc_set_direction \/ nanortc_send_audio \/ nanortc_request_keyframe
  PROVE  RungInv'
<1>1. WellFormed(rtc) /\ Steady(rtc, rtc)
  BY SteadyUpdates DEF RungInv, Rungs
<1>2. (\E c : Called(c)) /\ past' = past
  BY DEF nanortc_set_direction, nanortc_send_audio, nanortc_request_keyframe
<1>3. Steady(rtc, rtc')
  <2>1. CASE nanortc_set_direction
    <3>1. PICK c, e : LET set == [rtc EXCEPT !.media[c.track].direction = c.direction]
                      IN rtc' = rtc \/ rtc' = nano_rtc_emit_event_full(set, e)
      BY <2>1 DEF nanortc_set_direction
    <3> DEFINE w == [rtc.media[c.track] EXCEPT !.direction = c.direction]
               set == [rtc EXCEPT !.media[c.track] = w]
    <3>2. rtc' = rtc \/ rtc' = nano_rtc_emit_event_full(set, e)
      BY <3>1
    <3> HIDE DEF w
    <3>3. WellFormed(set)
      BY <1>1, TrackKept, KeptWellFormed
    <3>4. Steady(rtc, set)
      <4> DEFINE v == [rtc.media EXCEPT ![c.track] = w]
      <4>1. set = [rtc EXCEPT !.media = v]
        OBVIOUS
      <4> HIDE DEF set, v
      <4> QED
        BY <1>1, <4>1, SteadyUpdates
    <3> HIDE DEF set
    <3>5. Steady(set, nano_rtc_emit_event_full(set, e))
      BY <3>3, EmitSteady
    <3> QED
      BY <1>1, <3>2, <3>4, <3>5 DEF Steady
  <2>2. CASE nanortc_send_audio
    <3>1. PICK t, o : \/ rtc' = rtc
                      \/ rtc' = [rtc EXCEPT !.media[t].sent = TRUE, !.out = o]
      BY <2>2 DEF nanortc_send_audio, rtc_send_audio
    <3> DEFINE v == [rtc.media EXCEPT ![t].sent = TRUE]
    <3>2. rtc' = rtc \/ rtc' = [rtc EXCEPT !.media = v, !.out = o]
      BY <3>1
    <3> HIDE DEF v
    <3> QED
      BY <1>1, <3>2 DEF Steady, WellFormed, Fields
  <2>3. CASE nanortc_request_keyframe
    <3>1. PICK o : rtc' = rtc \/ rtc' = [rtc EXCEPT !.out = o]
      BY <2>3 DEF nanortc_request_keyframe, rtc_emit_pli
    <3>2. Steady(rtc, [rtc EXCEPT !.out = o])
      BY <1>1, SteadyUpdates
    <3> QED
      BY <1>1, <3>1, <3>2
  <2> QED
    BY <2>1, <2>2, <2>3
<1>4. /\ {"name", "calls"} \subseteq DOMAIN plan' /\ plan'.name = plan.name
      /\ plan'.calls \subseteq plan.calls
  BY <1>2, CalledRungs
<1>5. "ticks" \in DOMAIN past' /\ past'.ticks = past.ticks
  BY <1>2 DEF RungInv
<1> QED
  BY <1>3, <1>4, <1>5, SteadyRungs

\* Every step keeps it.
LEMMA RungStep == RungInv /\ [Next]_vars => RungInv'
<1> SUFFICES ASSUME RungInv, [Next]_vars PROVE RungInv'
  OBVIOUS
<1>0. RotationInv'
  BY RotationStep DEF RungInv
<1>1. CASE UNCHANGED vars
  <2>1. rtc' = rtc /\ past' = past /\ plan' = plan
    BY <1>1 DEF vars
  <2>2. Steady(rtc, rtc')
    BY <2>1 DEF Steady
  <2> QED
    BY <1>0, <2>1, <2>2, SteadyRungs DEF RungInv
<1>2. CASE nanortc_handle_input
  BY <1>0, <1>2, InputRungs
<1>3. CASE nanortc_poll_output
  BY <1>0, <1>3, PollRungs
<1>4. CASE \/ nanortc_set_bitrate_bounds \/ nanortc_set_initial_bitrate
           \/ nanortc_set_bwe_event_threshold
  BY <1>0, <1>4, EstimatorRungs
<1>5. CASE nanortc_set_capability_ladder
  BY <1>0, <1>5, LadderRungs
<1>6. CASE nanortc_set_direction \/ nanortc_send_audio \/ nanortc_request_keyframe
  BY <1>0, <1>6, TrackRungs
<1> QED
  BY <1>1, <1>2, <1>3, <1>4, <1>5, <1>6 DEF Next

\* Every recommended rung is justified, for every ladder, every feedback and clock: above the
\* floor it fits the discounted estimate it was chosen from, and a rise is one rung, after ticks
\* over at least MIN_HOLD that all had headroom for it and no heavy loss (rate_control_update).
THEOREM RungsAreJustified == Spec => []RungsJustified
BY InitRungs, RungStep, RungImplies, PTL DEF Spec
-----------------------------------------------------------------------------
(* The losses that the tracks show. *)

\* Tracks 1 to n show the losses p.
Shows(r, p, n) ==
  /\ IsSeq(r.media) /\ Len(r.media) = n /\ DOMAIN p = 1 .. n
  /\ \A t \in 1 .. n : "fraction_lost" \in DOMAIN r.media[t] /\ r.media[t].fraction_lost = p[t]

\* nano_rtc_emit_event_full leaves the tracks alone,
LEMMA EmitShows ==
  ASSUME NEW r, WellFormed(r), NEW event
  PROVE  nano_rtc_emit_event_full(r, event).media = r.media
BY DEF nano_rtc_emit_event_full, WellFormed, Fields

\* and so does an update of the estimate.
LEMMA UpdatedShows ==
  ASSUME NEW r, WellFormed(r), NEW b
  PROVE  Updated(r, b).media = r.media
<1> DEFINE new == [r EXCEPT !.bwe = b]
           c == [b EXCEPT !.prev_event = b.estimated]
           told == [r EXCEPT !.bwe = c]
           e == Event("bitrate", 0, b.estimated)
           said == nano_rtc_emit_event_full(told, e)
           next == IF bwe_should_emit_event(b) THEN said ELSE new
           s == nano_rtc_media_rate_control_tick(next)
<1>1. Updated(r, b) = s
  <2>1. [new EXCEPT !.bwe.prev_event = b.estimated] = told
    BY DEF WellFormed, Fields
  <2> HIDE DEF told
  <2> QED
    BY <2>1 DEF Updated
<1> HIDE DEF c, e
<1>2. WellFormed(new) /\ new.media = r.media /\ WellFormed(told) /\ told.media = r.media
  <2>1. Kept(r, new) /\ Kept(r, told)
    BY KeptUpdates
  <2> QED
    BY <2>1, KeptWellFormed DEF WellFormed, Fields
<1> HIDE DEF new, told
<1>3. WellFormed(said) /\ said.media = r.media
  BY <1>2, EmitKeeps, KeptWellFormed, EmitShows
<1> HIDE DEF said
<1>4. WellFormed(next) /\ next.media = r.media
  BY <1>2, <1>3
<1> HIDE DEF next
<1> DEFINE rc == rate_control_update(next.rc, next.bwe.estimated, next.bwe.loss, next.ladder, next.now)
           q == [next EXCEPT !.rc = rc]
           f == Event("spec", 0, rc.cur_rung)
<1>5. s = next \/ s = q \/ s = nano_rtc_emit_event_full(q, f)
  BY DEF nano_rtc_media_rate_control_tick
<1> HIDE DEF rc, s, f
<1>6. WellFormed(q) /\ q.media = r.media
  <2>1. Kept(next, q)
    BY <1>4, KeptUpdates
  <2> QED
    BY <1>4, <2>1, KeptWellFormed DEF WellFormed, Fields
<1> HIDE DEF q
<1>7. s.media = r.media
  BY <1>4, <1>5, <1>6, EmitShows
<1> QED
  BY <1>1, <1>7

\* A member as the reports are read from it.
Reporter(m) ==
  "is" \in DOMAIN m /\ (m.is \in {"sr", "rr"} => "block" \in DOMAIN m /\ m.block \in Nat)

\* One member, with what it reports.
LEMMA MemberShows ==
  ASSUME NEW n \in Nat, NEW r, NEW p, WellFormed(r), Shows(r, p, n), NEW member, Reporter(member)
  PROVE  Shows(HandleMember(r, member), Reported(p, member), n)
<1> DEFINE m == rtcp_parse(member)
           s == HandleMember(r, member)
           q == Reported(p, member)
           whole == member.is \in {"sr", "rr"} /\ member.track # 0 /\ Whole(member)
           b == member.block
           t == member.track
           v == [r.media[t] EXCEPT !.fraction_lost = b]
           media == [r.media EXCEPT ![t] = v]
<1>1. \/ m = member
      \/ m.is = "other" /\ ~whole
      \/ m.is \in {"sr", "rr"} /\ m.block = Never /\ ~whole
  BY DEF rtcp_parse, Reporter
<1>2. s = CASE m.is \in {"sr", "rr"} -> HandleReport(r, m)
            [] m.is = "remb" -> Updated(r, bwe_on_rtcp_feedback(r.bwe, m))
            [] m.is = "pli" /\ m.track # 0 -> nano_rtc_emit_event_full(r, Event("keyframe", m.track, 0))
            [] m.is = "twcc" /\ Feeds(m) ->
                 Updated(r, bwe_on_twcc_loss(r.bwe, (twcc_parse_feedback(m) * 256) \div m.count))
            [] OTHER -> r
  BY DEF HandleMember
<1>3. q = IF whole THEN [p EXCEPT ![t] = b] ELSE p
  BY DEF Reported
<1>4. whole \/ s.media = r.media
  <2> SUFFICES ASSUME ~whole PROVE s.media = r.media
    OBVIOUS
  <2>1. (\A e : nano_rtc_emit_event_full(r, e).media = r.media) /\ (\A c : Updated(r, c).media = r.media)
    BY EmitShows, UpdatedShows
  <2>2. CASE m.is \notin {"sr", "rr"}
    <3> HIDE DEF m, s
    <3> QED
      BY <1>2, <2>1, <2>2
  <2>3. CASE m.is \in {"sr", "rr"}
    <3>1. s = HandleReport(r, m)
      <4> HIDE DEF m, s
      <4> QED
        BY <1>2, <2>3
    <3>2. CASE m = member
      <4>1. Whole(member)
        BY <2>3, <3>2 DEF rtcp_parse, Reporter, Never
      <4>2. m.track = 0
        <5> HIDE DEF m
        <5> QED
          BY <2>3, <3>2, <4>1
      <4> HIDE DEF m, s
      <4> QED
        BY <3>1, <4>2 DEF HandleReport
    <3>3. CASE m # member
      <4>1. m.block = Never
        <5> HIDE DEF m
        <5> QED
          BY <1>1, <2>3, <3>3
      <4> HIDE DEF m, s
      <4>2. s = r
        BY <3>1, <4>1 DEF HandleReport
      <4> QED
        BY <4>2
    <3> QED
      BY <3>2, <3>3
  <2> QED
    BY <2>2, <2>3
<1>5. whole => s = [r EXCEPT !.media = media]
  <2> SUFFICES ASSUME whole PROVE s = [r EXCEPT !.media = media]
    OBVIOUS
  <2>1. m = member
    BY DEF rtcp_parse
  <2>2. m.is \in {"sr", "rr"} /\ m.track # 0 /\ m.block # Never
    <3>1. member.block \in Nat
      BY DEF Reporter
    <3>2. member.block # Never
      BY <3>1 DEF Never
    <3> HIDE DEF m
    <3> QED
      BY <2>1, <3>2
  <2>3. s = HandleReport(r, m)
    <3> HIDE DEF m, s
    <3> QED
      BY <1>2, <2>2
  <2>4. HandleReport(r, member) = [r EXCEPT !.media = media]
    BY <2>1, <2>2 DEF HandleReport
  <2> QED
    BY <2>1, <2>3, <2>4
<1>6. /\ IsSeq(r.media) /\ Len(r.media) = n /\ DOMAIN p = 1 .. n
      /\ \A u \in 1 .. n : "fraction_lost" \in DOMAIN r.media[u] /\ r.media[u].fraction_lost = p[u]
  BY DEF Shows
<1> HIDE DEF s, m
<1>7. CASE ~whole
  <2>1. Shows(s, q, n)
    BY <1>3, <1>4, <1>6, <1>7 DEF Shows
  <2> QED
    BY <2>1 DEF s
<1>8. CASE whole
  <2>1. q = [p EXCEPT ![t] = b]
    BY <1>3, <1>8
  <2> HIDE DEF q, b, t, whole
  <2>2. s.media = media
    <3>1. s = [r EXCEPT !.media = media] /\ "media" \in DOMAIN r
      BY <1>5, <1>8 DEF WellFormed, Fields
    <3> HIDE DEF media
    <3> QED
      BY <3>1
  <2>3. IsSeq(media) /\ Len(media) = n
    <3>1. media = [u \in 1 .. n |-> media[u]]
      BY <1>6 DEF IsSeq
    <3> HIDE DEF media
    <3> QED
      BY <3>1, FunctionIsSeq
  <2>4. ASSUME NEW u \in 1 .. n
        PROVE  "fraction_lost" \in DOMAIN media[u] /\ media[u].fraction_lost = q[u]
    <3>1. u \in DOMAIN r.media
      BY <1>6 DEF IsSeq
    <3>2. CASE u = t
      BY <1>6, <2>1, <3>1, <3>2
    <3>3. CASE u # t
      BY <1>6, <2>1, <3>1, <3>3
    <3> QED
      BY <3>2, <3>3
  <2>5. DOMAIN q = 1 .. n
    BY <1>6, <2>1
  <2>6. Shows(s, q, n)
    BY <2>2, <2>3, <2>4, <2>5 DEF Shows
  <2> QED
    BY <2>6 DEF s, q
<1> QED
  BY <1>7, <1>8

ReportFold == INSTANCE FoldFacts WITH Op <- Reported

\* The numbers are well-ordered, as the facts of the instance suppose.
LEMMA ReportWellOrdered == ReportFold!WellOrdered
BY LeastNat DEF ReportFold!WellOrdered

\* A compound packet, with what it reports.
LEMMA MembersShow ==
  ASSUME NEW n \in Nat, NEW r, NEW p, WellFormed(r), Shows(r, p, n), NEW X, NEW members \in Seq(X),
         \A i \in 1 .. Len(members) : Reporter(members[i])
  PROVE  Shows(FoldLeft(HandleMember, r, members), FoldLeft(Reported, p, members), n)
<1> DEFINE l == Len(members)
<1>1. PICK G : MemberFold!Runs(G, r, members)
  BY MemberWellOrdered, MemberFold!FoldRun
<1>2. /\ G[0] = r
      /\ \A k \in 1 .. l : G[k] = HandleMember(G[k - 1], members[k])
      /\ FoldLeft(HandleMember, r, members) = G[l]
  <2>1. MemberFold!Fold(r, members) = FoldLeft(HandleMember, r, members)
    BY DEF FoldLeft, MapThenFoldSet, Max,
           MemberFold!Fold, MemberFold!Largest
  <2> QED
    BY <1>1, <2>1 DEF MemberFold!Runs
<1>3. PICK H : ReportFold!Runs(H, p, members)
  BY ReportWellOrdered, ReportFold!FoldRun
<1>4. /\ H[0] = p
      /\ \A k \in 1 .. l : H[k] = Reported(H[k - 1], members[k])
      /\ FoldLeft(Reported, p, members) = H[l]
  <2>1. ReportFold!Fold(p, members) = FoldLeft(Reported, p, members)
    BY DEF FoldLeft, MapThenFoldSet, Max,
           ReportFold!Fold, ReportFold!Largest
  <2> QED
    BY <1>3, <2>1 DEF ReportFold!Runs
<1> DEFINE Good(k) == WellFormed(G[k]) /\ Shows(G[k], H[k], n)
           Q == {k \in Nat : k <= l => Good(k)}
<1>5. 0 \in Q
  BY <1>2, <1>4
<1>6. ASSUME NEW k \in Nat, k \in Q PROVE k + 1 \in Q
  <2> SUFFICES ASSUME k + 1 <= l PROVE Good(k + 1)
    OBVIOUS
  <2>0. l \in Nat
    OBVIOUS
  <2>1. k + 1 \in 1 .. l /\ (k + 1) - 1 = k /\ k <= l
    BY <2>0
  <2> DEFINE g == G[k]
             h == H[k]
             m == members[k + 1]
  <2>2. WellFormed(g) /\ Shows(g, h, n)
    BY <1>6, <2>1
  <2>3. G[k + 1] = HandleMember(g, m) /\ H[k + 1] = Reported(h, m) /\ Reporter(m)
    BY <1>2, <1>4, <2>1
  <2> HIDE DEF g, h, m
  <2>4. Shows(HandleMember(g, m), Reported(h, m), n)
    BY <2>2, <2>3, MemberShows
  <2>5. WellFormed(HandleMember(g, m))
    BY <2>2, MemberKeeps, KeptWellFormed
  <2> QED
    BY <2>3, <2>4, <2>5
<1>7. Nat \subseteq Q
  <2> HIDE DEF Q
  <2> QED
    BY <1>5, <1>6, SetInduction
<1>8. l \in Nat
  OBVIOUS
<1>9. Good(l)
  <2>1. l \in Q /\ l <= l
    BY <1>7, <1>8
  <2> HIDE DEF l, Good
  <2> QED
    BY <2>1
<1> QED
  BY <1>2, <1>4, <1>9

-----------------------------------------------------------------------------
(* The fourth invariant. *)

LossInv ==
  /\ RotationInv /\ "reported" \in DOMAIN past /\ Shows(rtc, past.reported, Scenario.tracks)

\* It holds when the connection is up.
LEMMA InitShows == Init => LossInv
<1> SUFFICES ASSUME Init PROVE LossInv
  OBVIOUS
<1>1. PICK name \in DOMAIN Scenarios :
        /\ rtc.media = [t \in 1 .. Scenarios[name].tracks |->
                          [direction |-> "sendrecv", sent |-> FALSE, fraction_lost |-> 0]]
        /\ past.reported = [t \in 1 .. Scenarios[name].tracks |-> 0] /\ "reported" \in DOMAIN past
        /\ plan.name = name
  BY DEF Init
<1> DEFINE n == Scenarios[name].tracks
           track == [direction |-> "sendrecv", sent |-> FALSE, fraction_lost |-> 0]
           m == [t \in 1 .. n |-> track]
<1>2. n \in Nat /\ Scenario.tracks = n /\ rtc.media = m /\ past.reported = [t \in 1 .. n |-> 0]
  BY <1>1, RateSizes DEF Scenario
<1>3. "fraction_lost" \in DOMAIN track /\ track.fraction_lost = 0
  OBVIOUS
<1> HIDE DEF track, n
<1>4. m = [t \in 1 .. n |-> m[t]] /\ \A t \in 1 .. n : m[t] = track
  OBVIOUS
<1> HIDE DEF m
<1>5. IsSeq(m) /\ Len(m) = n
  BY <1>2, <1>4, FunctionIsSeq
<1>6. Shows(rtc, past.reported, n)
  BY <1>2, <1>3, <1>4, <1>5 DEF Shows
<1> QED
  BY <1>1, <1>2, <1>6, InitRotation DEF LossInv

\* A step that keeps the losses of the tracks.
LEMMA KeptLosses ==
  ASSUME LossInv, RotationInv', "reported" \in DOMAIN past', past'.reported = past.reported,
         plan'.name = plan.name,
         \A t \in 1 .. Len(rtc.media) : /\ DOMAIN rtc'.media[t] = DOMAIN rtc.media[t]
                                        /\ rtc'.media[t].fraction_lost = rtc.media[t].fraction_lost,
         Len(rtc'.media) = Len(rtc.media)
  PROVE  LossInv'
<1>1. Scenario' = Scenario
  BY DEF Scenario
<1>2. IsSeq(rtc'.media)
  BY DEF RotationInv, Ready, WellFormed
<1>3. Shows(rtc', past'.reported, Scenario.tracks)
  BY <1>2 DEF LossInv, Shows
<1> QED
  BY <1>1, <1>3 DEF LossInv
\* nanortc_handle_input: the timers leave the tracks alone, the packet's reports do not.
LEMMA InputShows ==
  ASSUME LossInv, RotationInv', nanortc_handle_input
  PROVE  LossInv'
<1> DEFINE n == Scenario.tracks
<1>1. PICK gap \in Scenario.gaps, compound \in Scenario.inputs :
        LET begun == [rtc EXCEPT !.now = (@ + gap) % CLOCK]
            timed == nano_rtc_media_emit_rtcp_sr_cadence(begun)
            members == Members(compound)
        IN /\ plan' = [plan EXCEPT !.inputs = @ - 1]
           /\ rtc' = FoldLeft(HandleMember, timed, members)
           /\ "reported" \in DOMAIN past'
           /\ past'.reported = FoldLeft(Reported, past.reported, members)
  BY DEF nanortc_handle_input
<1> DEFINE now == (rtc.now + gap) % CLOCK
           begun == [rtc EXCEPT !.now = now]
           timed == nano_rtc_media_emit_rtcp_sr_cadence(begun)
           members == Members(compound)
           p == past.reported
<1>2. /\ rtc' = FoldLeft(HandleMember, timed, members)
      /\ past'.reported = FoldLeft(Reported, p, members)
  BY <1>1
<1>3. /\ n \in Nat /\ IsSeq(compound)
      /\ \A i \in 1 .. Len(compound) : "is" \in DOMAIN compound[i] /\ Reporter(compound[i])
  <2>1. plan.name \in DOMAIN Scenarios
    BY DEF LossInv, RotationInv
  <2>2. IsSeq(compound) /\ \A i \in 1 .. Len(compound) : "is" \in DOMAIN compound[i]
    BY <2>1, RateSizes DEF Scenario, IsSeq
  <2>3. ASSUME NEW i \in 1 .. Len(compound)
        PROVE  compound[i].is \in {"sr", "rr"} => "block" \in DOMAIN compound[i] /\ compound[i].block \in Nat
    BY <2>1, RateTypes DEF Scenario
  <2>4. n \in Nat
    BY <2>1, RateSizes DEF Scenario
  <2> QED
    BY <2>2, <2>3, <2>4 DEF Reporter
<1>4. WellFormed(rtc) /\ Shows(rtc, p, n)
  BY DEF LossInv, RotationInv, Ready
<1> HIDE DEF now, n
<1>5. WellFormed(begun) /\ begun.media = rtc.media
  BY <1>4 DEF WellFormed, Fields
<1> HIDE DEF begun
<1>6. WellFormed(timed) /\ timed.media = begun.media
  <2> DEFINE e == Event("sr", NextReport(begun), 0)
             o == Append(begun.out, e)
             v == NextReport(begun) % Len(begun.media)
  <2>1. timed = begun \/ timed = [begun EXCEPT !.out = o, !.last_sr = begun.now, !.sr_cursor = v]
    BY DEF nano_rtc_media_emit_rtcp_sr_cadence
  <2>2. IsSeq(o)
    BY <1>5, AppendIsSeq DEF WellFormed
  <2> HIDE DEF timed, o, v
  <2> QED
    BY <1>5, <2>1, <2>2 DEF WellFormed, Fields
<1> HIDE DEF timed
<1>7. Shows(timed, p, n)
  BY <1>4, <1>5, <1>6 DEF Shows
<1>8. /\ \E X : members \in Seq(X)
      /\ \A i \in 1 .. Len(members) : i \in 1 .. Len(compound) /\ members[i] = compound[i]
  BY <1>3, MembersSeq
<1> HIDE DEF members, p
<1>9. PICK X : members \in Seq(X)
  BY <1>8
<1>10. \A i \in 1 .. Len(members) : Reporter(members[i])
  BY <1>3, <1>8
<1>11. Shows(rtc', past'.reported, n)
  BY <1>2, <1>3, <1>6, <1>7, <1>9, <1>10, MembersShow
<1>12. plan'.name = plan.name
  BY <1>1 DEF LossInv, RotationInv
<1>13. Scenario' = Scenario
  BY <1>12 DEF Scenario
<1> QED
  BY <1>1, <1>11, <1>13 DEF LossInv, n

\* A step that leaves the tracks and what was reported of them.
LEMMA QuietShows ==
  ASSUME LossInv, RotationInv', "reported" \in DOMAIN past', past'.reported = past.reported,
         plan'.name = plan.name, rtc'.media = rtc.media
  PROVE  LossInv'
BY KeptLosses

\* Polling and the calls about the estimator and the controller.
LEMMA OtherShows ==
  ASSUME LossInv, RotationInv',
         \/ nanortc_poll_output \/ nanortc_set_bitrate_bounds \/ nanortc_set_initial_bitrate
         \/ nanortc_set_bwe_event_threshold \/ nanortc_set_capability_ladder
         \/ nanortc_request_keyframe
  PROVE  LossInv'
<1>1. WellFormed(rtc) /\ "reported" \in DOMAIN past /\ "name" \in DOMAIN plan
  BY DEF LossInv, RotationInv, Ready
<1>2. rtc'.media = rtc.media
  <2>1. CASE nanortc_poll_output
    <3> DEFINE o == Tail(rtc.out)
               p == Tail(rtc.pending)
    <3>1. rtc' = [rtc EXCEPT !.out = o] \/ rtc' = [rtc EXCEPT !.pending = p]
      BY <2>1 DEF nanortc_poll_output
    <3> HIDE DEF o, p
    <3> QED
      BY <1>1, <3>1 DEF WellFormed, Fields
  <2>2. CASE nanortc_set_bitrate_bounds \/ nanortc_set_initial_bitrate
    <3>1. PICK b : rtc' = [rtc EXCEPT !.bwe = b]
      BY <2>2 DEF nanortc_set_bitrate_bounds, nanortc_set_initial_bitrate
    <3> QED
      BY <1>1, <3>1 DEF WellFormed, Fields
  <2>3. CASE nanortc_set_bwe_event_threshold
    <3>1. PICK c : rtc' = rtc \/ rtc' = [rtc EXCEPT !.bwe.pct = c]
      BY <2>3 DEF nanortc_set_bwe_event_threshold
    <3> DEFINE b == [rtc.bwe EXCEPT !.pct = c]
    <3>2. rtc' = rtc \/ rtc' = [rtc EXCEPT !.bwe = b]
      BY <3>1
    <3> HIDE DEF b
    <3> QED
      BY <1>1, <3>2 DEF WellFormed, Fields
  <2>4. CASE nanortc_set_capability_ladder
    <3>1. PICK l, c : rtc' = rtc \/ rtc' = [rtc EXCEPT !.ladder = l, !.rc = c]
      BY <2>4 DEF nanortc_set_capability_ladder
    <3> QED
      BY <1>1, <3>1 DEF WellFormed, Fields
  <2>5. CASE nanortc_request_keyframe
    <3>1. PICK o : rtc' = rtc \/ rtc' = [rtc EXCEPT !.out = o]
      BY <2>5 DEF nanortc_request_keyframe, rtc_emit_pli
    <3> QED
      BY <1>1, <3>1 DEF WellFormed, Fields
  <2> QED
    BY <2>1, <2>2, <2>3, <2>4, <2>5
<1>3. "reported" \in DOMAIN past' /\ past'.reported = past.reported
  <2>1. PICK a, l : past' = past \/ past' = [past EXCEPT !.asked = a] \/ past' = [past EXCEPT !.ticks = l]
    BY DEF nanortc_poll_output, nanortc_set_bitrate_bounds, nanortc_set_initial_bitrate,
           nanortc_set_bwe_event_threshold, nanortc_set_capability_ladder, nanortc_request_keyframe
  <2> QED
    BY <1>1, <2>1
<1>4. plan'.name = plan.name
  <2>1. PICK c : plan' = plan \/ plan' = [plan EXCEPT !.calls = c]
    BY DEF nanortc_poll_output, nanortc_set_bitrate_bounds, nanortc_set_initial_bitrate,
           nanortc_set_bwe_event_threshold, nanortc_set_capability_ladder,
           nanortc_request_keyframe, Called
  <2> QED
    BY <1>1, <2>1
<1> QED
  BY <1>2, <1>3, <1>4, QuietShows

\* An update of another field of a track keeps the losses.
LEMMA OtherField ==
  ASSUME NEW m, IsSeq(m), NEW t, NEW w, DOMAIN w = DOMAIN m[t], w.fraction_lost = m[t].fraction_lost
  PROVE  LET v == [m EXCEPT ![t] = w]
         IN /\ Len(v) = Len(m)
            /\ \A u \in 1 .. Len(m) : /\ DOMAIN v[u] = DOMAIN m[u]
                                      /\ v[u].fraction_lost = m[u].fraction_lost
<1> DEFINE v == [m EXCEPT ![t] = w]
<1>1. v = [u \in 1 .. Len(m) |-> v[u]] /\ Len(m) \in Nat
  BY DEF IsSeq
<1>2. Len(v) = Len(m)
  <2> HIDE DEF v
  <2> QED
    BY <1>1, FunctionIsSeq
<1>3. ASSUME NEW u \in 1 .. Len(m)
      PROVE  DOMAIN v[u] = DOMAIN m[u] /\ v[u].fraction_lost = m[u].fraction_lost
  <2>1. u \in DOMAIN m
    BY DEF IsSeq
  <2>2. v[u] = IF u = t THEN w ELSE m[u]
    BY <2>1
  <2> HIDE DEF v
  <2> QED
    BY <2>2
<1> QED
  BY <1>2, <1>3

\* The calls about a track change another field of it.
LEMMA TrackShows ==
  ASSUME LossInv, RotationInv', nanortc_set_direction \/ nanortc_send_audio
  PROVE  LossInv'
<1>1. WellFormed(rtc) /\ "reported" \in DOMAIN past /\ "name" \in DOMAIN plan /\ IsSeq(rtc.media)
  BY DEF LossInv, RotationInv, Ready, WellFormed
<1>2. (\E c : Called(c)) /\ past' = past
  BY DEF nanortc_set_direction, nanortc_send_audio
<1>3. \/ rtc'.media = rtc.media
      \/ \E t, w : /\ rtc'.media = [rtc.media EXCEPT ![t] = w]
                   /\ DOMAIN w = DOMAIN rtc.media[t]
                   /\ w.fraction_lost = rtc.media[t].fraction_lost
  <2>1. CASE nanortc_set_direction
    <3>1. PICK c, e : LET set == [rtc EXCEPT !.media[c.track].direction = c.direction]
                      IN rtc' = rtc \/ rtc' = nano_rtc_emit_event_full(set, e)
      BY <2>1 DEF nanortc_set_direction
    <3> DEFINE t == c.track
               w == [rtc.media[t] EXCEPT !.direction = c.direction]
               v == [rtc.media EXCEPT ![t] = w]
               set == [rtc EXCEPT !.media = v]
    <3>2. rtc' = rtc \/ rtc' = nano_rtc_emit_event_full(set, e)
      BY <3>1
    <3>3. DOMAIN w = DOMAIN rtc.media[t] /\ w.fraction_lost = rtc.media[t].fraction_lost
      OBVIOUS
    <3>4. WellFormed([rtc EXCEPT !.media[c.track] = w])
      BY <1>1, TrackKept, KeptWellFormed
    <3>5. WellFormed(set)
      BY <3>4
    <3> HIDE DEF w, t, v
    <3>6. set.media = v
      BY <1>1 DEF WellFormed, Fields
    <3> HIDE DEF set
    <3>7. rtc'.media = rtc.media \/ rtc'.media = v
      BY <3>2, <3>5, <3>6, EmitShows
    <3> QED
      BY <3>3, <3>7 DEF v
  <2>2. CASE nanortc_send_audio
    <3>1. PICK t, o : \/ rtc' = rtc
                      \/ rtc' = [rtc EXCEPT !.media[t].sent = TRUE, !.out = o]
      BY <2>2 DEF nanortc_send_audio, rtc_send_audio
    <3> DEFINE w == [rtc.media[t] EXCEPT !.sent = TRUE]
               v == [rtc.media EXCEPT ![t] = w]
    <3>2. rtc' = rtc \/ rtc' = [rtc EXCEPT !.media = v, !.out = o]
      BY <3>1
    <3>3. DOMAIN w = DOMAIN rtc.media[t] /\ w.fraction_lost = rtc.media[t].fraction_lost
      OBVIOUS
    <3> HIDE DEF w, v
    <3>4. rtc'.media = rtc.media \/ rtc'.media = v
      BY <1>1, <3>2 DEF WellFormed, Fields
    <3> QED
      BY <3>3, <3>4 DEF v
  <2> QED
    BY <2>1, <2>2
<1>4. plan'.name = plan.name
  BY <1>1, <1>2 DEF Called
<1>5. CASE rtc'.media = rtc.media
  BY <1>1, <1>2, <1>4, <1>5, QuietShows
<1>6. ASSUME NEW t, NEW w, rtc'.media = [rtc.media EXCEPT ![t] = w], DOMAIN w = DOMAIN rtc.media[t],
             w.fraction_lost = rtc.media[t].fraction_lost
      PROVE  LossInv'
  <2>1. /\ Len(rtc'.media) = Len(rtc.media)
        /\ \A u \in 1 .. Len(rtc.media) : /\ DOMAIN rtc'.media[u] = DOMAIN rtc.media[u]
                                          /\ rtc'.media[u].fraction_lost = rtc.media[u].fraction_lost
    BY <1>1, <1>6, OtherField
  <2> QED
    BY <1>1, <1>2, <1>4, <2>1, KeptLosses
<1> QED
  BY <1>3, <1>5, <1>6

\* Every step keeps it.
LEMMA LossStep == LossInv /\ [Next]_vars => LossInv'
<1> SUFFICES ASSUME LossInv, [Next]_vars PROVE LossInv'
  OBVIOUS
<1>0. RotationInv'
  BY RotationStep DEF LossInv
<1>1. CASE UNCHANGED vars
  <2>1. rtc' = rtc /\ past' = past /\ plan' = plan
    BY <1>1 DEF vars
  <2> QED
    BY <1>0, <2>1, QuietShows DEF LossInv
<1>2. CASE nanortc_handle_input
  BY <1>0, <1>2, InputShows
<1>3. CASE \/ nanortc_poll_output \/ nanortc_set_bitrate_bounds \/ nanortc_set_initial_bitrate
           \/ nanortc_set_bwe_event_threshold \/ nanortc_set_capability_ladder
           \/ nanortc_request_keyframe
  BY <1>0, <1>3, OtherShows
<1>4. CASE nanortc_set_direction \/ nanortc_send_audio
  BY <1>0, <1>4, TrackShows
<1> QED
  BY <1>1, <1>2, <1>3, <1>4 DEF Next

\* A track shows the loss of the last whole report about it, for every compound packet: none
\* that is cut short, about a stranger or behind a broken member changes it, and no timer, call
\* or other member does (rtcp_parse, nano_rtc_media_handle_rtp_or_rtcp).
THEOREM LossesAreShown == Spec => []LossesShown
<1>1. LossInv => LossesShown
  BY DEF LossInv, Shows, LossesShown
<1> QED
  BY <1>1, InitShows, LossStep, PTL DEF Spec
==============================================================================
