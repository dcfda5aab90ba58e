------------------------------ MODULE IceProof ------------------------------
(***************************************************************************)
(* For every number of candidates, every size of the tables, every limit   *)
(* of checks and every set of working paths: the safety invariants of Ice. *)
(*                                                                         *)
(* The argument. Positions of queued checks are distinct and fill an       *)
(* interval from 0 (InQueue), because only a check that is not queued is   *)
(* ever queued, and a queued check is marked as triggered or valid         *)
(* (Marked), so that neither a response nor a request can overwrite it. A  *)
(* transaction id in flight is in one slot (Txids), and every request and  *)
(* response under way that has this id is about the pair of that slot      *)
(* (MessageFits). So the response that makes a pair valid has travelled    *)
(* over the pair, as its request has the other way (ValidWorks).           *)
(***************************************************************************)
EXTENDS Ice, BasicFacts

-----------------------------------------------------------------------------
(* The inductive invariant.                                                 *)

Addr == (Agents \X Nat) \cup {None}
Flags == {"queued", "valid", "triggered", "nominate"}
Pending == [local : Addr, remote : Addr, in_flight : BOOLEAN, flags : SUBSET Flags,
            position : Nat, txid : Nat]
Tables == [Slots -> Pending]
Agent == [state : {"new", "checking", "connected", "failed"}, pending : Tables,
          remotes : Seq(Addr), check_count : Nat, current : Nat \X Nat,
          selected : Addr \X Addr]
Message == [kind : {"request", "response"}, from : Addr, to : Addr, txid : Nat,
            use : BOOLEAN]

IceTypeOK == ice \in [Agents -> Agent] /\ net \subseteq Message

\* The queue positions of the table t are 0 .. n - 1, each once.
InQueue(t) ==
    LET q == QueuedSlots(t)
    IN /\ \A i \in q : t[i].position < Cardinality(q)
       /\ \A i, j \in q : t[i].position = t[j].position => i = j
       /\ \A n \in 0 .. Cardinality(q) - 1 : \E i \in q : t[i].position = n

\* A queued check is not in flight, and is triggered or nominates a valid pair.
Marked(t) == \A i \in QueuedSlots(t) :
    ~t[i].in_flight /\ ("valid" \in t[i].flags \/ "triggered" \in t[i].flags)

Distinct(t) == \A i, j \in Slots :
    i # j /\ InUse(t[i]) /\ InUse(t[j]) =>
        <<t[i].local, t[i].remote>> # <<t[j].local, t[j].remote>>

BothWays(local, remote) == {<<local, remote>>, <<remote, local>>} \subseteq Works
ValidWorks(t) == \A i \in Slots : "valid" \in t[i].flags => BothWays(t[i].local, t[i].remote)

\* Every slot in use is for a local address of a and a candidate that a knows.
Known(a, r, t) == \A i \in Slots : InUse(t[i]) =>
    t[i].local \in Addresses(a) /\ Knows(r, t[i].remote)

Txids(t, count) ==
    /\ \A i \in Slots : t[i].in_flight => t[i].txid <= count
    /\ \A i, j \in Slots : t[i].in_flight /\ t[j].in_flight /\ t[i].txid = t[j].txid => i = j

TableOK(a, r, t, count) ==
    /\ InQueue(t) /\ Marked(t) /\ Distinct(t) /\ ValidWorks(t)
    /\ Known(a, r, t) /\ Txids(t, count)

AgentOK(a, r) == /\ TableOK(a, r, r.pending, r.check_count)
                 /\ r.state = "connected" => BothWays(r.selected[1], r.selected[2])

\* The pair that the check of m is about, seen by the agent that sent the check.
Near(m) == IF m.kind = "request" THEN m.from ELSE m.to
Far(m) == IF m.kind = "request" THEN m.to ELSE m.from
\* Slots of the table t whose transaction is that of m are for its pair.
MessageFits(m, r) ==
    /\ m.txid <= r.check_count
    /\ \A i \in InFlight(r, m.txid) :
          r.pending[i].local = Near(m) /\ r.pending[i].remote = Far(m)
MessageOK(m) == /\ <<m.from, m.to>> \in Works
                /\ m.kind = "response" => /\ <<m.to, m.from>> \in Works
                                          /\ InFlight(ice[m.to[1]], m.txid) # {}
                /\ MessageFits(m, ice[Near(m)[1]])

IceInv == /\ IceTypeOK
          /\ \A a \in Agents : AgentOK(a, ice[a])
          /\ \A m \in net : MessageOK(m)

-----------------------------------------------------------------------------
(* Constants and helpers.                                                   *)

\* There are two agents, and each is the peer of the other.
LEMMA Peers ==
    /\ Peer("controlling") = "controlled" /\ Peer("controlled") = "controlling"
    /\ \A a \in Agents : Peer(a) \in Agents /\ Peer(a) # a
BY DEF Peer, Agents

\* An address belongs to the agent it is an address of.
LEMMA AddressesOf ==
  ASSUME NEW a \in Agents, NEW c \in Addresses(a)
  PROVE  c \in Addr /\ c[1] = a
<1>1. Locals[a] \in Nat
  BY IceSizes
<1>2. PICK i \in 1 .. Locals[a] : c = <<a, i>>
  BY DEF Addresses
<1> QED
  BY <1>1, <1>2 DEF Addr

\* A path that works joins an address of one agent to an address of the other.
LEMMA WorkingPath ==
  ASSUME NEW x, NEW y, <<x, y>> \in Works
  PROVE  \E a \in Agents : /\ x \in Addresses(a) /\ y \in Addresses(Peer(a))
                           /\ x \in Addr /\ y \in Addr /\ x[1] = a /\ y[1] = Peer(a)
<1>1. PICK a \in Agents : <<x, y>> \in Addresses(a) \X Addresses(Peer(a))
  BY IceSizes
<1>2. x \in Addresses(a) /\ y \in Addresses(Peer(a)) /\ Peer(a) \in Agents
  BY <1>1, Peers
<1> QED
  BY <1>2, AddressesOf

\* A slot that is not used is a slot.
LEMMA IdleType == Idle \in Pending /\ ~InUse(Idle) /\ ~Queued(Idle)
BY DEF Idle, Pending, InUse, Queued, Addr, Flags, None

\* The queue of triggered checks is finite.
LEMMA QueueFinite ==
  ASSUME NEW t
  PROVE  IsFiniteSet(QueuedSlots(t)) /\ Cardinality(QueuedSlots(t)) \in Nat
<1>1. IsFiniteSet(Slots)
  BY IceSizes, FS_Interval DEF Slots
<1>2. QueuedSlots(t) \subseteq Slots
  BY DEF QueuedSlots
<1> QED
  BY <1>1, <1>2, FS_Subset, FS_CardinalityType

\* Min of a nonempty set of slots is one of them.
LEMMA MinSlot ==
  ASSUME NEW S, S \subseteq Slots, S # {}
  PROVE  Min(S) \in S
<1>1. S \subseteq Nat
  BY IceSizes DEF Slots
<1> QED
  BY <1>1, MinOf

-----------------------------------------------------------------------------
(* The queue.                                                               *)

\* ice_queue_check appends: what is queued must not be queued already.
LEMMA QueueCheck ==
  ASSUME NEW t \in Tables, NEW i \in Slots, InQueue(t), ~Queued(t[i])
  PROVE  LET u == ice_queue_check(t, i)
         IN /\ u \in Tables /\ InQueue(u)
            /\ \A j \in Slots \ {i} : u[j] = t[j]
            /\ u[i].flags = t[i].flags \cup {"queued"}
            /\ u[i].local = t[i].local /\ u[i].remote = t[i].remote
            /\ u[i].in_flight = t[i].in_flight /\ u[i].txid = t[i].txid
<1> DEFINE q == QueuedSlots(t)
           n == Cardinality(q)
           u == ice_queue_check(t, i)
<1>1. IsFiniteSet(q) /\ n \in Nat
  BY QueueFinite
<1> HIDE DEF n
<1>2. /\ u \in Tables
      /\ \A j \in Slots \ {i} : u[j] = t[j]
      /\ u[i].flags = t[i].flags \cup {"queued"} /\ u[i].position = n
      /\ u[i].local = t[i].local /\ u[i].remote = t[i].remote
      /\ u[i].in_flight = t[i].in_flight /\ u[i].txid = t[i].txid
  BY <1>1 DEF ice_queue_check, Tables, Pending, Flags, n
<1> HIDE DEF u
<1>3. QueuedSlots(u) = q \cup {i} /\ i \notin q
  BY <1>2 DEF QueuedSlots, Queued
<1>4. Cardinality(QueuedSlots(u)) = n + 1
  BY <1>1, <1>3, FS_AddElement DEF n
<1>5. \A j \in q : t[j].position < n /\ t[j].position \in Nat /\ u[j] = t[j]
  BY <1>2, <1>3 DEF InQueue, QueuedSlots, Tables, Pending, n
<1>6. InQueue(u)
  <2>1. \A j \in q \cup {i} : u[j].position < n + 1
    BY <1>1, <1>2, <1>5
  <2>2. \A j, k \in q \cup {i} : u[j].position = u[k].position => j = k
    BY <1>1, <1>2, <1>5 DEF InQueue
  <2>3. ASSUME NEW x \in 0 .. n PROVE \E j \in q \cup {i} : u[j].position = x
    <3>1. CASE x = n
      BY <1>2, <3>1
    <3>2. CASE x \in 0 .. n - 1
      BY <1>5, <3>2 DEF InQueue, n
    <3> QED
      BY <1>1, <3>1, <3>2
  <2> DEFINE v == QueuedSlots(u)
             c == Cardinality(v)
  <2>4. v = q \cup {i} /\ c = n + 1 /\ c - 1 = n
    BY <1>1, <1>3, <1>4
  <2> HIDE DEF v, c, q
  <2>5. \A j \in v : u[j].position < c
    BY <2>1, <2>4
  <2>6. \A j, k \in v : u[j].position = u[k].position => j = k
    BY <2>2, <2>4
  <2>7. \A x \in 0 .. c - 1 : \E j \in v : u[j].position = x
    BY <2>3, <2>4
  <2> QED
    BY <2>5, <2>6, <2>7 DEF InQueue, v, c
<1> QED
  BY <1>2, <1>6 DEF u

\* ice_unqueue_check takes a check out and closes the gap.
LEMMA UnqueueCheck ==
  ASSUME NEW t \in Tables, NEW i \in Slots, InQueue(t)
  PROVE  LET u == ice_unqueue_check(t, i)
         IN /\ u \in Tables /\ InQueue(u) /\ ~Queued(u[i])
            /\ u[i].flags = t[i].flags \ {"queued"}
            /\ \A j \in Slots : /\ j # i => u[j].flags = t[j].flags
                                /\ u[j].local = t[j].local /\ u[j].remote = t[j].remote
                                /\ u[j].in_flight = t[j].in_flight /\ u[j].txid = t[j].txid
<1> DEFINE q == QueuedSlots(t)
           n == Cardinality(q)
           u == ice_unqueue_check(t, i)
           k == t[i].position
<1>1. CASE ~Queued(t[i])
  BY <1>1 DEF ice_unqueue_check, Queued, Tables, Pending
<1>2. CASE Queued(t[i])
  <2>1. IsFiniteSet(q) /\ n \in Nat /\ i \in q
    BY <1>2, QueueFinite DEF QueuedSlots
  <2> HIDE DEF n
  <2>2. \A j \in Slots : t[j] \in Pending /\ t[j].position \in Nat
    BY DEF Tables, Pending
  <2>3. u = [j \in Slots |->
               IF j = i THEN [t[i] EXCEPT !.flags = @ \ {"queued"}]
               ELSE IF Queued(t[j]) /\ t[j].position > k
                    THEN [t[j] EXCEPT !.position = @ - 1] ELSE t[j]]
    BY <1>2 DEF ice_unqueue_check
  <2> HIDE DEF u
  <2>4. /\ u[i] \in Pending /\ u[i].flags = t[i].flags \ {"queued"}
        /\ u[i].local = t[i].local /\ u[i].remote = t[i].remote
        /\ u[i].in_flight = t[i].in_flight /\ u[i].txid = t[i].txid
    BY <2>2, <2>3 DEF Pending
  <2>5. ASSUME NEW j \in Slots \ {i}
        PROVE  /\ u[j] \in Pending /\ u[j].flags = t[j].flags
               /\ u[j].local = t[j].local /\ u[j].remote = t[j].remote
               /\ u[j].in_flight = t[j].in_flight /\ u[j].txid = t[j].txid
               /\ u[j].position = IF Queued(t[j]) /\ t[j].position > k
                                  THEN t[j].position - 1 ELSE t[j].position
    <3>1. CASE Queued(t[j]) /\ t[j].position > k
      <4>1. u[j] = [t[j] EXCEPT !.position = @ - 1] /\ t[j].position - 1 \in Nat
        BY <2>2, <2>3, <3>1
      <4> QED
        BY <2>2, <3>1, <4>1 DEF Pending
    <3>2. CASE ~(Queued(t[j]) /\ t[j].position > k)
      BY <2>2, <2>3, <3>2
    <3> QED
      BY <3>1, <3>2
  <2>6. u \in Tables
    <3>1. \A j \in Slots : u[j] \in Pending
      BY <2>4, <2>5
    <3> QED
      BY <2>3, <3>1 DEF Tables
  <2>7. QueuedSlots(u) = q \ {i}
    BY <2>4, <2>5 DEF QueuedSlots, Queued
  <2>8. Cardinality(QueuedSlots(u)) = n - 1
    BY <2>1, <2>7, FS_RemoveElement DEF n
  <2>9. InQueue(u)
    <3>1. k \in Nat /\ k < n
      BY <2>1, <2>2 DEF InQueue, n
    <3>2. ASSUME NEW j \in q \ {i}
          PROVE  /\ t[j].position \in Nat /\ t[j].position < n /\ t[j].position # k
                 /\ u[j].position = IF t[j].position > k
                                    THEN t[j].position - 1 ELSE t[j].position
      BY <2>1, <2>2, <2>5 DEF InQueue, QueuedSlots, n
    <3>3. \A j \in q \ {i} : u[j].position < n - 1
      BY <2>1, <3>1, <3>2
    <3>4. ASSUME NEW j \in q \ {i}, NEW l \in q \ {i}, u[j].position = u[l].position
          PROVE  j = l
      <4>1. t[j].position = t[l].position
        BY <3>1, <3>2, <3>4
      <4> QED
        BY <4>1 DEF InQueue
    <3>5. ASSUME NEW x \in 0 .. (n - 1) - 1
          PROVE  \E j \in q \ {i} : u[j].position = x
      <4> DEFINE y == IF x < k THEN x ELSE x + 1
      <4>1. y \in 0 .. n - 1 /\ y # k
        BY <2>1, <3>1, <3>5
      <4>2. PICK j \in q : t[j].position = y
        BY <4>1 DEF InQueue, n
      <4>3. j # i
        BY <4>1, <4>2
      <4> QED
        BY <3>1, <3>2, <4>2, <4>3, <3>5
    <3> DEFINE v == QueuedSlots(u)
               c == Cardinality(v)
    <3>6. v = q \ {i} /\ c = n - 1
      BY <2>7, <2>8
    <3> HIDE DEF v, c, q
    <3>7. \A j \in v : u[j].position < c
      BY <3>3, <3>6
    <3>8. \A j, l \in v : u[j].position = u[l].position => j = l
      BY <3>4, <3>6
    <3>9. \A x \in 0 .. c - 1 : \E j \in v : u[j].position = x
      BY <3>5, <3>6
    <3> QED
      BY <3>7, <3>8, <3>9 DEF InQueue, v, c
  <2>10. ~Queued(u[i])
    BY <2>4 DEF Queued
  <2> QED
    BY <2>4, <2>5, <2>6, <2>9, <2>10 DEF u
<1> QED
  BY <1>1, <1>2

\* What is queued, and where, decides InQueue.
LEMMA SameQueue ==
  ASSUME NEW t \in Tables, NEW u \in Tables, InQueue(t),
         \A j \in Slots : /\ Queued(u[j]) <=> Queued(t[j])
                          /\ Queued(t[j]) => u[j].position = t[j].position
  PROVE  InQueue(u)
<1> DEFINE q == QueuedSlots(t)
           v == QueuedSlots(u)
           n == Cardinality(q)
           c == Cardinality(v)
<1>1. v = q /\ \A j \in q : u[j].position = t[j].position
  BY DEF QueuedSlots
<1>2. c = n
  BY <1>1
<1>3. /\ \A i \in q : t[i].position < n
      /\ \A i, j \in q : t[i].position = t[j].position => i = j
      /\ \A x \in 0 .. n - 1 : \E i \in q : t[i].position = x
  BY DEF InQueue
<1> HIDE DEF q, v, n, c
<1>4. /\ \A i \in v : u[i].position < c
      /\ \A i, j \in v : u[i].position = u[j].position => i = j
      /\ \A x \in 0 .. c - 1 : \E i \in v : u[i].position = x
  BY <1>1, <1>2, <1>3
<1> QED
  BY <1>4 DEF InQueue, v, c

-----------------------------------------------------------------------------
(* One slot of a table changes.                                             *)

\* p and q are the same check, up to its place in the queue.
Alike(p, q) == /\ p.local = q.local /\ p.remote = q.remote
               /\ p.in_flight = q.in_flight /\ p.txid = q.txid /\ p.flags = q.flags

\* The check p may stand in slot i, next to the others of the table t.
Fits(a, r, t, i, p, count) ==
    /\ Queued(p) => ~p.in_flight /\ ("valid" \in p.flags \/ "triggered" \in p.flags)
    /\ "valid" \in p.flags => BothWays(p.local, p.remote)
    /\ InUse(p) => /\ p.local \in Addresses(a) /\ Knows(r, p.remote)
                   /\ \A j \in Slots \ {i} : InUse(t[j]) =>
                          <<t[j].local, t[j].remote>> # <<p.local, p.remote>>
    /\ p.in_flight => /\ p.txid <= count
                      /\ \A j \in Slots \ {i} : t[j].in_flight => t[j].txid # p.txid

\* A table in which one slot changes to a check that fits stays well-formed.
LEMMA UpdateSlot ==
  ASSUME NEW a \in Agents, NEW r, NEW s, \A c : Knows(r, c) => Knows(s, c),
         NEW t \in Tables, NEW u \in Tables, NEW i \in Slots,
         NEW count \in Nat, NEW more \in Nat, count <= more,
         TableOK(a, r, t, count), InQueue(u),
         \A j \in Slots \ {i} : Alike(u[j], t[j]),
         Fits(a, s, t, i, u[i], more)
  PROVE  TableOK(a, s, u, more)
<1>1. \A j \in Slots : u[j].txid \in Nat /\ t[j].txid \in Nat
  BY DEF Tables, Pending
<1>2. \A j \in Slots \ {i} : /\ InUse(u[j]) <=> InUse(t[j])
                             /\ Queued(u[j]) <=> Queued(t[j])
  BY DEF Alike, InUse, Queued
<1>3. Marked(u)
  BY <1>2 DEF TableOK, Marked, QueuedSlots, Fits, Alike
<1>4. Distinct(u)
  BY <1>2 DEF TableOK, Distinct, Fits, Alike
<1>5. ValidWorks(u)
  BY DEF TableOK, ValidWorks, Fits, Alike
<1>6. Known(a, s, u)
  BY <1>2 DEF TableOK, Known, Fits, Alike
<1>7. Txids(u, more)
  <2>1. \A j \in Slots : u[j].in_flight => u[j].txid <= more
    BY <1>1 DEF TableOK, Txids, Fits, Alike
  <2>2. \A j, k \in Slots : u[j].in_flight /\ u[k].in_flight /\ u[j].txid = u[k].txid => j = k
    BY DEF TableOK, Txids, Fits, Alike
  <2> QED
    BY <2>1, <2>2 DEF Txids
<1> QED
  BY <1>3, <1>4, <1>5, <1>6, <1>7 DEF TableOK

-----------------------------------------------------------------------------
(* One agent takes a step.                                                  *)

\* No check of s has a transaction of r that it did not have in r.
Continues(r, s) ==
    /\ r.check_count <= s.check_count
    /\ \A i \in Slots : s.pending[i].in_flight /\ s.pending[i].txid <= r.check_count =>
          /\ r.pending[i].in_flight /\ r.pending[i].txid = s.pending[i].txid
          /\ r.pending[i].local = s.pending[i].local /\ r.pending[i].remote = s.pending[i].remote

\* So the messages under way still fit.
LEMMA StillFits ==
  ASSUME NEW r \in Agent, NEW s \in Agent, Continues(r, s),
         NEW m \in Message, MessageFits(m, r)
  PROVE  MessageFits(m, s)
<1>1. m.txid \in Nat /\ r.check_count \in Nat /\ s.check_count \in Nat
  BY DEF Message, Agent
<1>2. m.txid <= s.check_count
  BY <1>1 DEF MessageFits, Continues
<1>3. ASSUME NEW i \in InFlight(s, m.txid)
      PROVE  s.pending[i].local = Near(m) /\ s.pending[i].remote = Far(m)
  <2>1. /\ i \in Slots /\ s.pending[i].in_flight
        /\ s.pending[i].txid = m.txid /\ m.txid <= r.check_count
    BY DEF InFlight, MessageFits
  <2>2. /\ r.pending[i].in_flight /\ r.pending[i].txid = m.txid
        /\ r.pending[i].local = s.pending[i].local /\ r.pending[i].remote = s.pending[i].remote
    BY <2>1 DEF Continues
  <2> QED
    BY <2>1, <2>2 DEF InFlight, MessageFits
<1> QED
  BY <1>2, <1>3 DEF MessageFits

\* The agents at the ends of a path that works.
LEMMA Ends ==
  ASSUME NEW m, <<m.from, m.to>> \in Works
  PROVE  /\ m.from \in Addr /\ m.to \in Addr /\ m.from[1] \in Agents /\ m.to[1] \in Agents
         /\ m.from \in Addresses(m.from[1]) /\ m.to \in Addresses(m.to[1])
         /\ Near(m)[1] \in Agents
BY WorkingPath, Peers DEF Near

\* A message that the step sends.
Sent(m, agents) ==
    /\ m \in Message /\ <<m.from, m.to>> \in Works
    /\ m.kind = "response" => <<m.to, m.from>> \in Works
    /\ MessageFits(m, agents[Near(m)[1]])

\* A response under way that its agent waits for.
Awaited(m, agents) == m.kind = "response" => InFlight(agents[m.to[1]], m.txid) # {}

\* A step of one agent keeps the invariant if its table stays well-formed and what
\* it sends is about pairs of its own table.
LEMMA AgentStep ==
  ASSUME IceInv, NEW a \in Agents, NEW s \in Agent, AgentOK(a, s), Continues(ice[a], s),
         ice' = [ice EXCEPT ![a] = s],
         \A m \in net' : (m \in net \/ Sent(m, ice')) /\ Awaited(m, ice')
  PROVE  IceInv'
<1>1. /\ ice' \in [Agents -> Agent] /\ ice'[a] = s /\ ice[a] \in Agent
      /\ \A b \in Agents \ {a} : ice'[b] = ice[b]
  BY DEF IceInv, IceTypeOK
<1>2. net' \subseteq Message
  BY DEF Sent, IceInv, IceTypeOK
<1>3. \A b \in Agents : AgentOK(b, ice'[b])
  BY <1>1 DEF IceInv
<1>4. ASSUME NEW m \in net' PROVE MessageOK(m)'
  <2>1. CASE Sent(m, ice')
    BY <1>4, <2>1 DEF Sent, Awaited, MessageOK
  <2>2. CASE m \in net
    <3>1. /\ <<m.from, m.to>> \in Works
          /\ m.kind = "response" => <<m.to, m.from>> \in Works
          /\ MessageFits(m, ice[Near(m)[1]])
      BY <2>2 DEF IceInv, MessageOK
    <3>2. Near(m)[1] \in Agents /\ m \in Message
      BY <3>1, <1>2, Ends
    <3>3. MessageFits(m, ice'[Near(m)[1]])
      <4>1. CASE Near(m)[1] = a
        BY <1>1, <3>1, <3>2, <4>1, StillFits
      <4>2. CASE Near(m)[1] # a
        BY <1>1, <3>1, <3>2, <4>2
      <4> QED
        BY <4>1, <4>2
    <3> QED
      BY <1>4, <3>1, <3>3 DEF MessageOK, Awaited
  <2> QED
    BY <2>1, <2>2
<1> QED
  BY <1>1, <1>2, <1>3, <1>4 DEF IceInv, IceTypeOK

-----------------------------------------------------------------------------
(* The cursor.                                                              *)

\* An agent that knows a remote candidate has a pair to check.
LEMMA PairsPositive ==
  ASSUME NEW a \in Agents, ice[a] \in Agent, ice[a].remotes # <<>>
  PROVE  /\ Locals[a] \in Nat \ {0} /\ Len(ice[a].remotes) \in Nat \ {0}
         /\ Pairs(a) \in Nat \ {0} /\ ice[a].remotes \in Seq(Addr)
         /\ \A j \in 1 .. Len(ice[a].remotes) : Knows(ice[a], ice[a].remotes[j])
<1>1. ice[a].remotes \in Seq(Addr) /\ Locals[a] \in Nat \ {0}
  BY IceSizes DEF Agent
<1>2. Len(ice[a].remotes) \in Nat \ {0}
  BY <1>1
<1>3. Pairs(a) \in Nat \ {0}
  BY <1>1, <1>2 DEF Pairs
<1> QED
  BY <1>1, <1>2, <1>3 DEF Knows

\* Every number below Pairs(a) is that of a pair.
LEMMA PairOfNumber ==
  ASSUME NEW a \in Agents, ice[a] \in Agent, ice[a].remotes # <<>>, NEW k \in 0 .. Pairs(a) - 1
  PROVE  /\ PairAt(a, k) = <<PairAt(a, k)[1], PairAt(a, k)[2]>>
         /\ PairAt(a, k)[1] \in Addresses(a) /\ Knows(ice[a], PairAt(a, k)[2])
         /\ PairAt(a, k)[2] \in Addr
<1> DEFINE n == Len(ice[a].remotes)
           q == k \div n
           x == k % n
<1>1. n \in Nat \ {0} /\ Locals[a] \in Nat \ {0} /\ Pairs(a) = Locals[a] * n /\ k \in Nat
      /\ k < Locals[a] * n
  BY PairsPositive DEF Pairs
<1>2. PairAt(a, k) = <<<<a, q + 1>>, ice[a].remotes[x + 1]>>
  BY DEF PairAt
<1> HIDE DEF n
<1>3. q \in Nat /\ x \in 0 .. n - 1 /\ k = n * q + x
  <2>1. n \in Nat /\ n > 0 /\ k \in Nat
    BY <1>1
  <2> QED
    BY <2>1, DivMod, Zenon
<1> HIDE DEF q, x
<1>4. q < Locals[a]
  <2> SUFFICES ASSUME q >= Locals[a] PROVE FALSE
    BY <1>1, <1>3
  <2>1. n * q >= n * Locals[a]
    BY <1>1, <1>3
  <2> QED
    BY <1>1, <1>3, <2>1
<1>5. <<a, q + 1>> \in Addresses(a)
  BY <1>1, <1>3, <1>4 DEF Addresses
<1>6. x + 1 \in 1 .. n
  BY <1>1, <1>3
<1>7. Knows(ice[a], ice[a].remotes[x + 1]) /\ ice[a].remotes[x + 1] \in Addr
  BY <1>6, PairsPositive DEF n
<1> QED
  BY <1>2, <1>5, <1>7

\* Every pair has such a number, so that the cursor moves to a pair.
LEMMA CursorMoves ==
  ASSUME NEW a \in Agents, ice[a] \in Agent, NEW local \in Addresses(a), NEW remote,
         Knows(ice[a], remote)
  PROVE  After(a, NumberOf(a, local, remote)) \in Nat \X Nat
<1> DEFINE n == Len(ice[a].remotes)
<1>1. PICK y \in DOMAIN ice[a].remotes : ice[a].remotes[y] = remote
  BY DEF Knows
<1>2. ice[a].remotes # <<>> /\ ice[a].remotes \in Seq(Addr)
  BY <1>1 DEF Agent
<1>3. /\ n \in Nat \ {0} /\ Locals[a] \in Nat \ {0} /\ Pairs(a) = Locals[a] * n
      /\ Pairs(a) \in Nat \ {0} /\ y \in 1 .. n
  BY <1>1, <1>2, PairsPositive DEF Pairs
<1>4. PICK x \in 1 .. Locals[a] : local = <<a, x>>
  BY DEF Addresses
<1> DEFINE k == (x - 1) * n + (y - 1)
           w == x - 1
           z == y - 1
<1>5. /\ w \in Nat /\ z \in 0 .. n - 1 /\ w <= Locals[a] - 1 /\ w + 1 = x /\ z + 1 = y
      /\ k = w * n + z
  BY <1>3, <1>4
<1> HIDE DEF n, w, z, k
<1>6. k \div n = w /\ k % n = z
  BY <1>3, <1>5, DivUnique
<1>7. k \in 0 .. Pairs(a) - 1
  <2>1. w * n \in Nat /\ w * n <= (Locals[a] - 1) * n
    BY <1>3, <1>5
  <2>2. (Locals[a] - 1) * n = Locals[a] * n - n
    BY <1>3
  <2> QED
    BY <1>3, <1>5, <2>1, <2>2
<1>8. PairAt(a, k) = <<local, remote>>
  BY <1>1, <1>4, <1>5, <1>6 DEF PairAt, n
<1>9. NumberOf(a, local, remote) \in 0 .. Pairs(a) - 1
  BY <1>7, <1>8 DEF NumberOf
<1> DEFINE next == (NumberOf(a, local, remote) + 1) % Pairs(a)
<1>10. next \in Nat
  BY <1>3, <1>9, DivMod
<1> HIDE DEF next
<1>11. next \div n \in Nat /\ next % n \in Nat
  BY <1>3, <1>10, DivMod
<1> QED
  BY <1>11 DEF After, next, n

-----------------------------------------------------------------------------
(* The timers.                                                              *)

\* Sending the check of a slot in flight keeps the invariant.
LEMMA SendCheckStep ==
  ASSUME IceInv, NEW a \in Agents, NEW t \in Tables, NEW i \in Slots, NEW count \in Nat,
         TableOK(a, ice[a], t, count), t[i].in_flight,
         Continues(ice[a], [ice[a] EXCEPT !.pending = t, !.check_count = count]),
         SendCheck(a, t, i, count)
  PROVE  IceInv'
<1> DEFINE p == t[i]
           c == After(a, NumberOf(a, p.local, p.remote))
           r == ice[a]
           s == [r EXCEPT !.pending = t, !.check_count = count, !.state = "checking",
                          !.current = c]
           m == BindingRequest(a, p)
<1>1. r \in Agent /\ p \in Pending
  BY DEF IceInv, IceTypeOK, Tables
<1>2. p.local \in Addresses(a) /\ Knows(r, p.remote)
  BY DEF TableOK, Known, InUse
<1>3. c \in Nat \X Nat
  BY <1>1, <1>2, CursorMoves
<1>4. ice' = [ice EXCEPT ![a] = s] /\ net' = UnderWay(net \cup {m}, ice')
  BY DEF SendCheck, IceInv, IceTypeOK
<1> HIDE DEF c
<1>5. /\ s \in Agent /\ s.pending = t /\ s.check_count = count /\ s.state = "checking"
      /\ s.remotes = r.remotes
  BY <1>1, <1>3 DEF Agent
<1> HIDE DEF s
<1>6. AgentOK(a, s)
  BY <1>5 DEF AgentOK, TableOK, Known, Knows
<1>7. Continues(r, s)
  BY <1>1, <1>5 DEF Continues, Agent
<1>8. ice'[a] = s
  BY <1>4 DEF IceInv, IceTypeOK
<1>9. \A x \in net' : (x \in net \/ x = m) /\ <<x.from, x.to>> \in Works /\ Awaited(x, ice')
  BY <1>4 DEF UnderWay, Awaited
<1>10. ASSUME <<m.from, m.to>> \in Works PROVE Sent(m, ice')
  <2>1. /\ m.from = p.local /\ m.to = p.remote /\ m.kind = "request" /\ m.txid = p.txid
        /\ m.txid \in Nat /\ m.use \in BOOLEAN
        /\ m = [kind |-> m.kind, from |-> m.from, to |-> m.to, txid |-> m.txid, use |-> m.use]
    BY <1>1 DEF BindingRequest, Pending
  <2> HIDE DEF m
  <2>2. m.from \in Addr /\ m.to \in Addr
    BY <1>10, Ends
  <2>3. m \in Message
    BY <2>1, <2>2 DEF Message
  <2>4. Near(m) = p.local /\ Far(m) = p.remote /\ Near(m)[1] = a
    BY <1>2, <2>1, AddressesOf DEF Near, Far
  <2>5. m.txid <= s.check_count
    BY <1>5, <2>1 DEF TableOK, Txids
  <2>6. \A j \in InFlight(s, m.txid) : j = i
    BY <1>5, <2>1 DEF TableOK, Txids, InFlight
  <2>7. MessageFits(m, s)
    BY <1>5, <2>4, <2>5, <2>6 DEF MessageFits
  <2> QED
    BY <1>8, <1>10, <2>1, <2>3, <2>4, <2>7 DEF Sent
<1> HIDE DEF m
<1>11. \A x \in net' : (x \in net \/ Sent(x, ice')) /\ Awaited(x, ice')
  BY <1>9, <1>10
<1> QED
  BY <1>4, <1>5, <1>6, <1>7, <1>11, AgentStep

\* A check starts: it leaves the queue and takes the next transaction.
LEMMA StartStep ==
  ASSUME IceInv, NEW a \in Agents, NEW t \in Tables, NEW i \in Slots,
         TableOK(a, ice[a], t, ice[a].check_count), ~t[i].in_flight,
         t[i].local \in Addresses(a), Knows(ice[a], t[i].remote),
         \A j \in Slots \ {i} : InUse(t[j]) =>
            <<t[j].local, t[j].remote>> # <<t[i].local, t[i].remote>>,
         \A j \in Slots \ {i} : t[j] = ice[a].pending[j],
         Start(a, t, i)
  PROVE  IceInv'
<1> DEFINE r == ice[a]
           count == r.check_count + 1
           v == ice_unqueue_check(t, i)
           u == [v EXCEPT ![i].in_flight = TRUE, ![i].txid = count]
<1>1. r \in Agent /\ r.check_count \in Nat /\ count \in Nat /\ r.check_count < count
      /\ r.pending \in Tables
  BY DEF IceInv, IceTypeOK, Agent
<1>2. SendCheck(a, u, i, count)
  BY DEF Start
<1>3. /\ v \in Tables /\ InQueue(v) /\ ~Queued(v[i]) /\ v[i].flags = t[i].flags \ {"queued"}
      /\ v[i].local = t[i].local /\ v[i].remote = t[i].remote
      /\ \A j \in Slots \ {i} : Alike(v[j], t[j])
  BY UnqueueCheck DEF TableOK, Alike
<1> HIDE DEF v, count
<1>4. /\ u \in Tables /\ \A j \in Slots \ {i} : u[j] = v[j]
      /\ u[i].flags = v[i].flags /\ u[i].in_flight = TRUE /\ u[i].txid = count
      /\ u[i].local = v[i].local /\ u[i].remote = v[i].remote
  <2> DEFINE p == [v[i] EXCEPT !.in_flight = TRUE, !.txid = count]
  <2>1. v[i] \in Pending /\ v = [j \in Slots |-> v[j]]
    BY <1>3 DEF Tables
  <2>2. /\ p \in Pending /\ p.flags = v[i].flags /\ p.in_flight = TRUE /\ p.txid = count
        /\ p.local = v[i].local /\ p.remote = v[i].remote
    BY <1>1, <2>1 DEF Pending
  <2>3. u = [v EXCEPT ![i] = p]
    BY <2>1
  <2> HIDE DEF p, u
  <2> QED
    BY <1>3, <2>1, <2>2, <2>3 DEF Tables
<1> HIDE DEF u
<1>5. InQueue(u)
  <2>1. \A j \in Slots : /\ Queued(u[j]) <=> Queued(v[j])
                         /\ Queued(v[j]) => u[j].position = v[j].position
    BY <1>3, <1>4 DEF Queued
  <2> QED
    BY <1>3, <1>4, <2>1, SameQueue
<1>6. \A j \in Slots \ {i} : Alike(u[j], t[j])
  BY <1>3, <1>4
<1>7. \A j \in Slots : t[j].in_flight => t[j].txid \in Nat /\ t[j].txid <= r.check_count
  BY DEF TableOK, Txids, Tables, Pending
<1>8. Fits(a, r, t, i, u[i], count)
  <2>1. ~Queued(u[i])
    BY <1>3, <1>4 DEF Queued
  <2>2. "valid" \in u[i].flags => BothWays(u[i].local, u[i].remote)
    BY <1>3, <1>4 DEF TableOK, ValidWorks
  <2>3. u[i].txid <= count /\ \A j \in Slots \ {i} : t[j].in_flight => t[j].txid # u[i].txid
    BY <1>1, <1>4, <1>7
  <2>4. u[i].local = t[i].local /\ u[i].remote = t[i].remote
    BY <1>3, <1>4
  <2>5. u[i].local \in Addresses(a) /\ Knows(r, u[i].remote)
    BY <2>4
  <2>6. \A j \in Slots \ {i} : InUse(t[j]) =>
           <<t[j].local, t[j].remote>> # <<u[i].local, u[i].remote>>
    BY <2>4
  <2> QED
    BY <2>1, <2>2, <2>3, <2>5, <2>6 DEF Fits
<1>9. TableOK(a, r, u, count)
  BY <1>1, <1>4, <1>5, <1>6, <1>8, UpdateSlot
<1>10. Continues(r, [r EXCEPT !.pending = u, !.check_count = count])
  <2> DEFINE s == [r EXCEPT !.pending = u, !.check_count = count]
  <2>1. s.pending = u /\ s.check_count = count
    BY <1>1 DEF Agent
  <2> HIDE DEF s
  <2>2. ASSUME NEW j \in Slots, u[j].in_flight, u[j].txid <= r.check_count
        PROVE  /\ r.pending[j].in_flight /\ r.pending[j].txid = u[j].txid
               /\ r.pending[j].local = u[j].local /\ r.pending[j].remote = u[j].remote
    <3>1. j # i
      BY <1>1, <1>4, <2>2
    <3> QED
      BY <1>6, <2>2, <3>1 DEF Alike
  <2> QED
    BY <1>1, <2>1, <2>2 DEF Continues, s
<1> QED
  BY <1>1, <1>2, <1>4, <1>9, <1>10, SendCheckStep

\* What the invariant says of one agent.
LEMMA OfAgent ==
  ASSUME IceInv, NEW a \in Agents
  PROVE  /\ ice[a] \in Agent /\ ice[a].pending \in Tables /\ ice[a].check_count \in Nat
         /\ ice[a].remotes \in Seq(Addr) /\ AgentOK(a, ice[a])
         /\ TableOK(a, ice[a], ice[a].pending, ice[a].check_count)
         /\ \A i \in Slots : ice[a].pending[i] \in Pending
BY DEF IceInv, IceTypeOK, Agent, AgentOK, Tables

\* Sending a triggered check from the queue keeps the invariant.
LEMMA SendQueuedStep ==
  ASSUME IceInv, NEW a \in Agents, NEW i \in Slots, SendQueued(a, i)
  PROVE  IceInv'
<1> DEFINE t == ice[a].pending
<1>1. t \in Tables /\ TableOK(a, ice[a], t, ice[a].check_count)
  BY OfAgent
<1>2. Queued(t[i]) /\ Start(a, t, i)
  BY DEF SendQueued
<1>3. InUse(t[i]) /\ ~t[i].in_flight
  BY <1>1, <1>2 DEF Queued, InUse, TableOK, Marked, QueuedSlots
<1>4. t[i].local \in Addresses(a) /\ Knows(ice[a], t[i].remote)
  BY <1>1, <1>3 DEF TableOK, Known
<1>5. \A j \in Slots \ {i} : InUse(t[j]) =>
         <<t[j].local, t[j].remote>> # <<t[i].local, t[i].remote>>
  BY <1>1, <1>3 DEF TableOK, Distinct
<1> QED
  BY <1>1, <1>2, <1>3, <1>4, <1>5, StartStep

\* A retransmission keeps the invariant: it repeats the transaction id of its slot.
LEMMA RetransmitStep ==
  ASSUME IceInv, NEW a \in Agents, NEW i \in Slots, Retransmit(a, i)
  PROVE  IceInv'
<1> DEFINE t == ice[a].pending
           count == ice[a].check_count
<1>1. t \in Tables /\ count \in Nat /\ TableOK(a, ice[a], t, count) /\ ice[a] \in Agent
  BY OfAgent
<1>2. t[i].in_flight /\ SendCheck(a, t, i, count)
  BY DEF Retransmit
<1>3. Continues(ice[a], [ice[a] EXCEPT !.pending = t, !.check_count = count])
  BY <1>1 DEF Continues, Agent
<1> QED
  BY <1>1, <1>2, <1>3, SendCheckStep

\* The slot that an ordinary check takes, and its pair.
LEMMA OrdinaryStep ==
  ASSUME IceInv, NEW a \in Agents, Ordinary(a)
  PROVE  IceInv'
<1> DEFINE pending == ice[a].pending
           Has(pair) == \E i \in Slots : /\ InUse(pending[i])
                                         /\ <<pending[i].local, pending[i].remote>> = pair
           At(n) == PairAt(a, (Cursor(a) + n) % Pairs(a))
           free == {i \in Slots : ~InUse(pending[i])}
           fresh == {n \in 0 .. Pairs(a) - 1 : ~Has(At(n))}
           i == Min(free)
           x == Min(fresh)
           p == [Idle EXCEPT !.local = At(x)[1], !.remote = At(x)[2]]
           t == [pending EXCEPT ![i] = p]
<1>1. /\ pending \in Tables /\ ice[a] \in Agent /\ ice[a].check_count \in Nat
      /\ TableOK(a, ice[a], pending, ice[a].check_count)
  BY OfAgent
<1>2. /\ ice[a].remotes # <<>> /\ free # {} /\ fresh # {} /\ Start(a, t, i)
  BY DEF Ordinary, MayCheck
<1>3. /\ Pairs(a) \in Nat \ {0} /\ Cursor(a) \in Nat
  <2>1. Pairs(a) \in Nat \ {0} /\ Len(ice[a].remotes) \in Nat /\ ice[a].current \in Nat \X Nat
    BY <1>1, <1>2, PairsPositive DEF Agent
  <2>2. ice[a].current[1] \in Nat /\ ice[a].current[2] \in Nat
    BY <2>1
  <2>3. \A x1, n1, x2 \in Nat : x1 * n1 + x2 \in Nat
    OBVIOUS
  <2>4. Cursor(a) \in Nat
    BY <2>1, <2>2, <2>3 DEF Cursor
  <2> QED
    BY <2>1, <2>4
<1>4. i \in Slots /\ ~InUse(pending[i])
  <2>1. free \subseteq Slots
    OBVIOUS
  <2>2. Min(free) \in free
    BY <1>2, <2>1, MinSlot
  <2> QED
    BY <2>2
<1>5. x \in 0 .. Pairs(a) - 1 /\ ~Has(At(x))
  <2>1. fresh \subseteq Nat
    BY <1>3
  <2>2. Min(fresh) \in fresh
    BY <1>2, <2>1, MinOf
  <2> QED
    BY <2>2
<1> DEFINE pair == At(x)
<1>6. ~Has(pair) /\ p = [Idle EXCEPT !.local = pair[1], !.remote = pair[2]]
  BY <1>5
<1>7. /\ pair[1] \in Addresses(a) /\ Knows(ice[a], pair[2]) /\ pair[2] \in Addr
      /\ pair = <<pair[1], pair[2]>>
  <2> HIDE DEF x
  <2> DEFINE k == (Cursor(a) + x) % Pairs(a)
  <2>1. Cursor(a) + x \in Nat /\ Pairs(a) > 0
    BY <1>3, <1>5
  <2>2. k \in 0 .. Pairs(a) - 1
    BY <1>3, <2>1, DivMod
  <2>3. pair = PairAt(a, k)
    OBVIOUS
  <2> HIDE DEF k, pair
  <2> QED
    BY <1>1, <1>2, <2>2, <2>3, PairOfNumber
<1> HIDE DEF x, i, pair
<1>8. /\ p \in Pending /\ p.local = pair[1] /\ p.remote = pair[2] /\ ~InUse(p)
      /\ ~Queued(p) /\ ~p.in_flight
  <2>1. pair[1] \in Addr
    BY <1>7, AddressesOf
  <2> QED
    BY <1>6, <1>7, <2>1 DEF Idle, Pending, InUse, Queued, Flags
<1> HIDE DEF p
<1>9. t \in Tables /\ t[i] = p /\ \A j \in Slots \ {i} : t[j] = pending[j]
  BY <1>1, <1>4, <1>8 DEF Tables
<1> HIDE DEF t
<1>10. InQueue(t)
  <2>1. ~Queued(pending[i])
    BY <1>4 DEF InUse, Queued
  <2>2. \A j \in Slots : /\ Queued(t[j]) <=> Queued(pending[j])
                         /\ Queued(pending[j]) => t[j].position = pending[j].position
    BY <1>8, <1>9, <2>1
  <2> QED
    BY <1>1, <1>9, <2>2, SameQueue DEF TableOK
<1>11. TableOK(a, ice[a], t, ice[a].check_count)
  <2>1. Fits(a, ice[a], pending, i, t[i], ice[a].check_count)
    BY <1>8, <1>9 DEF Fits, InUse
  <2>2. \A j \in Slots \ {i} : Alike(t[j], pending[j])
    BY <1>9 DEF Alike
  <2> QED
    BY <1>1, <1>4, <1>9, <1>10, <2>1, <2>2, UpdateSlot
<1>12. \A j \in Slots \ {i} : InUse(t[j]) =>
          <<t[j].local, t[j].remote>> # <<t[i].local, t[i].remote>>
  BY <1>6, <1>7, <1>8, <1>9
<1> QED
  BY <1>2, <1>4, <1>7, <1>8, <1>9, <1>11, <1>12, StartStep

\* The expiry of a check keeps the invariant.
LEMMA ExpireStep ==
  ASSUME IceInv, NEW a \in Agents, NEW i \in Slots, Expire(a, i)
  PROVE  IceInv'
<1> DEFINE r == ice[a]
           t == r.pending
           v == ice_unqueue_check(t, i)
           u == [v EXCEPT ![i] = Idle]
           s == [r EXCEPT !.pending = u]
<1>1. /\ r \in Agent /\ t \in Tables /\ r.check_count \in Nat /\ AgentOK(a, r)
      /\ TableOK(a, r, t, r.check_count)
  BY OfAgent
<1>2. ice' = [ice EXCEPT ![a] = s] /\ net' = UnderWay(net, ice')
  BY DEF Expire, IceInv, IceTypeOK
<1>3. /\ v \in Tables /\ InQueue(v) /\ ~Queued(v[i]) /\ \A j \in Slots \ {i} : Alike(v[j], t[j])
  BY <1>1, UnqueueCheck DEF TableOK, Alike
<1> HIDE DEF v
<1>4. u \in Tables /\ u[i] = Idle /\ \A j \in Slots \ {i} : u[j] = v[j]
  BY <1>3, IdleType DEF Tables
<1> HIDE DEF u
<1>5. InQueue(u)
  <2>1. \A j \in Slots : /\ Queued(u[j]) <=> Queued(v[j])
                         /\ Queued(v[j]) => u[j].position = v[j].position
    BY <1>3, <1>4, IdleType
  <2> QED
    BY <1>3, <1>4, <2>1, SameQueue
<1>6. \A j \in Slots \ {i} : Alike(u[j], t[j])
  BY <1>3, <1>4
<1>7. Fits(a, r, t, i, u[i], r.check_count)
  BY <1>4 DEF Fits, Idle, InUse, Queued
<1>8. TableOK(a, r, u, r.check_count)
  <2>1. r.check_count <= r.check_count /\ \A c : Knows(r, c) => Knows(r, c)
    BY <1>1
  <2> HIDE DEF t, r
  <2> QED
    BY <1>1, <1>4, <1>5, <1>6, <1>7, <2>1, UpdateSlot
<1>9. /\ s \in Agent /\ s.pending = u /\ s.check_count = r.check_count /\ s.state = r.state
      /\ s.remotes = r.remotes /\ s.selected = r.selected
  BY <1>1, <1>4 DEF Agent
<1> HIDE DEF s
<1>10. AgentOK(a, s)
  BY <1>1, <1>8, <1>9 DEF AgentOK, TableOK, Known, Knows
<1>11. ~u[i].in_flight
  BY <1>4 DEF Idle
<1>12. Continues(r, s)
  BY <1>1, <1>6, <1>9, <1>11 DEF Continues, Alike
<1>13. \A m \in net' : m \in net /\ Awaited(m, ice')
  BY <1>2 DEF UnderWay, Awaited
<1> QED
  BY <1>2, <1>9, <1>10, <1>12, <1>13, AgentStep

\* An agent that gives up keeps the invariant.
LEMMA FailStep ==
  ASSUME IceInv, NEW a \in Agents, Fail(a)
  PROVE  IceInv'
<1> DEFINE r == ice[a]
           s == [r EXCEPT !.state = "failed"]
<1>1. /\ r \in Agent /\ r.check_count \in Nat /\ AgentOK(a, r)
  BY OfAgent
<1>2. ice' = [ice EXCEPT ![a] = s] /\ net' = net
  BY DEF Fail, IceInv, IceTypeOK
<1>3. /\ s \in Agent /\ s.pending = r.pending /\ s.check_count = r.check_count
      /\ s.state = "failed" /\ s.remotes = r.remotes
  BY <1>1 DEF Agent
<1> HIDE DEF s
<1>4. AgentOK(a, s)
  BY <1>1, <1>3 DEF AgentOK, TableOK, Known, Knows
<1>5. Continues(r, s)
  BY <1>1, <1>3 DEF Continues
<1>6. \A m \in net' : m \in net /\ Awaited(m, ice')
  <2> SUFFICES ASSUME NEW m \in net, m.kind = "response"
               PROVE  InFlight(ice'[m.to[1]], m.txid) # {}
    BY <1>2 DEF Awaited
  <2>1. InFlight(ice[m.to[1]], m.txid) # {} /\ m.to[1] \in Agents
    BY Ends DEF IceInv, MessageOK
  <2>2. ice'[m.to[1]].pending = ice[m.to[1]].pending
    BY <1>2, <1>3, <2>1 DEF IceInv, IceTypeOK
  <2> QED
    BY <2>1, <2>2 DEF InFlight
<1> QED
  BY <1>2, <1>3, <1>4, <1>5, <1>6, AgentStep

\* A candidate more: what was known stays known.
LEMMA MoreKnown ==
  ASSUME NEW r \in Agent, NEW c \in Addr
  PROVE  LET s == [r EXCEPT !.remotes = Append(@, c)]
         IN /\ s \in Agent /\ s.remotes = Append(r.remotes, c)
            /\ s.pending = r.pending /\ s.check_count = r.check_count
            /\ s.state = r.state /\ s.selected = r.selected /\ s.current = r.current
            /\ Knows(s, c) /\ \A d : Knows(r, d) => Knows(s, d)
<1> DEFINE e == Append(r.remotes, c)
           s == [r EXCEPT !.remotes = e]
<1>1. r.remotes \in Seq(Addr) /\ e \in Seq(Addr)
  BY DEF Agent
<1> HIDE DEF e
<1>2. /\ s \in Agent /\ s.remotes = e
      /\ s.pending = r.pending /\ s.check_count = r.check_count
      /\ s.state = r.state /\ s.selected = r.selected /\ s.current = r.current
  BY <1>1 DEF Agent
<1> HIDE DEF s
<1>3. Knows(s, c)
  <2>1. Len(r.remotes) + 1 \in DOMAIN s.remotes /\ s.remotes[Len(r.remotes) + 1] = c
    BY <1>1, <1>2 DEF e
  <2> QED
    BY <2>1 DEF Knows
<1>4. ASSUME NEW d, Knows(r, d) PROVE Knows(s, d)
  <2>1. PICK i \in DOMAIN r.remotes : r.remotes[i] = d
    BY <1>4 DEF Knows
  <2>2. i \in DOMAIN s.remotes /\ s.remotes[i] = d
    BY <1>1, <1>2, <2>1 DEF e
  <2> QED
    BY <2>2 DEF Knows
<1> QED
  BY <1>2, <1>3, <1>4 DEF s, e

\* A remote candidate from signalling keeps the invariant.
LEMMA AddStep ==
  ASSUME IceInv, NEW a \in Agents, NEW c \in Signalled[a], AddRemoteCandidate(a, c)
  PROVE  IceInv'
<1> DEFINE r == ice[a]
           s == [r EXCEPT !.remotes = Append(@, c)]
<1>1. /\ r \in Agent /\ r.check_count \in Nat /\ AgentOK(a, r)
  BY OfAgent
<1>2. ice' = [ice EXCEPT ![a] = s] /\ net' = net
  BY DEF AddRemoteCandidate, IceInv, IceTypeOK
<1>3. c \in Addr
  BY IceSizes, Peers, AddressesOf
<1>4. /\ s \in Agent /\ s.pending = r.pending /\ s.check_count = r.check_count
      /\ s.state = r.state /\ s.selected = r.selected
      /\ \A d : Knows(r, d) => Knows(s, d)
  BY <1>1, <1>3, MoreKnown
<1> HIDE DEF s
<1>5. AgentOK(a, s)
  BY <1>1, <1>4 DEF AgentOK, TableOK, Known
<1>6. Continues(r, s)
  BY <1>1, <1>4 DEF Continues
<1>7. \A m \in net' : m \in net /\ Awaited(m, ice')
  <2> SUFFICES ASSUME NEW m \in net, m.kind = "response"
               PROVE  InFlight(ice'[m.to[1]], m.txid) # {}
    BY <1>2 DEF Awaited
  <2>1. InFlight(ice[m.to[1]], m.txid) # {} /\ m.to[1] \in Agents
    BY Ends DEF IceInv, MessageOK
  <2>2. ice'[m.to[1]].pending = ice[m.to[1]].pending
    BY <1>2, <1>4, <2>1 DEF IceInv, IceTypeOK
  <2> QED
    BY <2>1, <2>2 DEF InFlight
<1> QED
  BY <1>2, <1>4, <1>5, <1>6, <1>7, AgentStep

-----------------------------------------------------------------------------
(* Requests.                                                                *)

\* The slot for a pair holds it, or no slot does and this one is free.
LEMMA SlotForPair ==
  ASSUME NEW t, NEW pair, SlotFor(t, pair) # 0
  PROVE  LET i == SlotFor(t, pair)
         IN /\ i \in Slots
            /\ \/ InUse(t[i]) /\ <<t[i].local, t[i].remote>> = pair
               \/ /\ ~t[i].in_flight /\ ~Queued(t[i])
                  /\ \A j \in Slots : InUse(t[j]) => <<t[j].local, t[j].remote>> # pair
<1> DEFINE same == {i \in Slots : InUse(t[i]) /\ <<t[i].local, t[i].remote>> = pair}
           free == {i \in Slots : ~t[i].in_flight /\ ~Queued(t[i])}
           i == SlotFor(t, pair)
<1>1. i = IF same # {} THEN Min(same) ELSE IF free # {} THEN Min(free) ELSE 0
  BY DEF SlotFor
<1>2. same \subseteq Slots /\ free \subseteq Slots
  OBVIOUS
<1>3. CASE same # {}
  <2>1. Min(same) \in same
    BY <1>2, <1>3, MinSlot
  <2>2. i \in same
    BY <1>1, <1>3, <2>1
  <2> QED
    BY <2>2
<1>4. CASE same = {}
  <2>1. free # {}
    BY <1>1, <1>4
  <2>2. Min(free) \in free
    BY <1>2, <2>1, MinSlot
  <2>3. i \in free
    BY <1>1, <1>4, <2>1, <2>2
  <2> QED
    BY <1>4, <2>3
<1> QED
  BY <1>3, <1>4

\* The check that Claim leaves in it.
LEMMA ClaimedSlot ==
  ASSUME NEW q \in Pending, NEW local \in Addr, NEW remote \in Addr, NEW nominate \in BOOLEAN
  PROVE  LET p == Claim(q, <<local, remote>>, nominate)
             own == InUse(q) /\ <<q.local, q.remote>> = <<local, remote>>
         IN /\ p \in Pending /\ p.local = local /\ p.remote = remote
            /\ own => /\ p.in_flight = q.in_flight /\ p.txid = q.txid /\ p.position = q.position
                      /\ q.flags \subseteq p.flags /\ p.flags \subseteq q.flags \cup {"nominate"}
            /\ ~own => ~p.in_flight /\ p.flags \subseteq {"nominate"}
<1> DEFINE pair == <<local, remote>>
           fits == InUse(q) /\ <<q.local, q.remote>> = pair
           o == IF fits THEN q ELSE [Idle EXCEPT !.local = pair[1], !.remote = pair[2]]
           p == [o EXCEPT !.flags = IF nominate THEN @ \cup {"nominate"} ELSE @]
<1>1. Claim(q, pair, nominate) = p
  BY DEF Claim
<1>2. /\ o \in Pending /\ o.local = local /\ o.remote = remote
      /\ fits => o = q
      /\ ~fits => ~o.in_flight /\ o.flags = {}
  <2>1. CASE fits
    BY <2>1
  <2>2. CASE ~fits
    BY <2>2, IdleType DEF Idle, Pending, Flags
  <2> QED
    BY <2>1, <2>2
<1> HIDE DEF o, fits
<1>3. /\ p \in Pending /\ p.local = o.local /\ p.remote = o.remote /\ p.in_flight = o.in_flight
      /\ p.txid = o.txid /\ p.position = o.position
      /\ o.flags \subseteq p.flags /\ p.flags \subseteq o.flags \cup {"nominate"}
  BY <1>2 DEF Pending, Flags
<1> HIDE DEF p
<1>4. /\ p \in Pending /\ p.local = local /\ p.remote = remote
      /\ fits => /\ p.in_flight = q.in_flight /\ p.txid = q.txid /\ p.position = q.position
                 /\ q.flags \subseteq p.flags /\ p.flags \subseteq q.flags \cup {"nominate"}
      /\ ~fits => ~p.in_flight /\ p.flags \subseteq {"nominate"}
  BY <1>2, <1>3
<1> QED
  BY <1>1, <1>4 DEF fits

\* Selecting changes nothing but the state and the pair.
LEMMA Select ==
  ASSUME NEW a \in Agents, NEW r \in Agent, TableOK(a, r, r.pending, r.check_count),
         NEW local, NEW remote, BothWays(local, remote)
  PROVE  LET s == ice_select_pair(r, local, remote)
         IN /\ s \in Agent /\ s.pending = r.pending /\ s.check_count = r.check_count
            /\ AgentOK(a, s)
<1> DEFINE s == ice_select_pair(r, local, remote)
<1>1. local \in Addr /\ remote \in Addr
  BY WorkingPath DEF BothWays
<1>2. /\ s \in Agent /\ s.pending = r.pending /\ s.check_count = r.check_count
      /\ s.remotes = r.remotes /\ s.selected = <<local, remote>>
  BY <1>1 DEF ice_select_pair, Agent
<1> HIDE DEF s
<1>3. AgentOK(a, s)
  BY <1>2 DEF AgentOK, TableOK, Known, Knows
<1> QED
  BY <1>2, <1>3 DEF s

\* An agent with another table that is in order.
LEMMA WithTable ==
  ASSUME NEW a \in Agents, NEW r \in Agent, AgentOK(a, r), NEW u \in Tables,
         TableOK(a, r, u, r.check_count)
  PROVE  LET s == [r EXCEPT !.pending = u]
         IN /\ s \in Agent /\ AgentOK(a, s) /\ s.pending = u /\ s.check_count = r.check_count
            /\ s.state = r.state
<1> DEFINE s == [r EXCEPT !.pending = u]
<1>1. /\ s \in Agent /\ s.pending = u /\ s.check_count = r.check_count
      /\ s.remotes = r.remotes /\ s.selected = r.selected /\ s.state = r.state
  BY DEF Agent
<1> HIDE DEF s
<1>2. AgentOK(a, s)
  BY <1>1 DEF AgentOK, TableOK, Known, Knows
<1> QED
  BY <1>1, <1>2 DEF s

\* ice_trigger_check, on the slot of the pair.
LEMMA TriggerAgent ==
  ASSUME NEW a \in Agents, NEW r \in Agent, AgentOK(a, r), NEW local \in Addresses(a),
         NEW remote \in Addr, Knows(r, remote), NEW nominate \in BOOLEAN,
         SlotFor(r.pending, <<local, remote>>) # 0
  PROVE  LET i == SlotFor(r.pending, <<local, remote>>)
             p == Claim(r.pending[i], <<local, remote>>, nominate)
             s == Trigger(r, i, p, nominate)
         IN s \in Agent /\ AgentOK(a, s) /\ Continues(r, s)
<1> DEFINE pair == <<local, remote>>
           t == r.pending
           count == r.check_count
           i == SlotFor(t, pair)
           q == t[i]
           p == Claim(q, pair, nominate)
           s == Trigger(r, i, p, nominate)
           own == InUse(q) /\ <<q.local, q.remote>> = pair
<1>1. t \in Tables /\ TableOK(a, r, t, count) /\ count \in Nat /\ local \in Addr
  BY AddressesOf DEF AgentOK, Agent
<1>2. /\ i \in Slots
      /\ own \/ /\ ~q.in_flight /\ ~Queued(q)
                /\ \A j \in Slots : InUse(t[j]) => <<t[j].local, t[j].remote>> # pair
  BY SlotForPair
<1> HIDE DEF i
<1>3. q \in Pending
  BY <1>1, <1>2 DEF Tables
<1>4. /\ p \in Pending /\ p.local = local /\ p.remote = remote
      /\ own => /\ p.in_flight = q.in_flight /\ p.txid = q.txid /\ p.position = q.position
                /\ q.flags \subseteq p.flags /\ p.flags \subseteq q.flags \cup {"nominate"}
      /\ ~own => ~p.in_flight /\ p.flags \subseteq {"nominate"}
  <2> HIDE DEF q
  <2> QED
    BY <1>1, <1>3, ClaimedSlot
<1> HIDE DEF p
<1>5. \A j \in Slots \ {i} : InUse(t[j]) => <<t[j].local, t[j].remote>> # pair
  BY <1>1, <1>2 DEF TableOK, Distinct
<1>6. /\ own => /\ q.local = local /\ q.remote = remote
                /\ Queued(q) => ~q.in_flight /\ ("valid" \in q.flags \/ "triggered" \in q.flags)
                /\ "valid" \in q.flags => BothWays(local, remote)
                /\ q.in_flight => /\ q.txid <= count
                                  /\ \A j \in Slots \ {i} : t[j].in_flight => t[j].txid # q.txid
  BY <1>1, <1>2 DEF TableOK, Marked, ValidWorks, Txids, QueuedSlots
<1>7. CASE "valid" \in p.flags \/ "triggered" \in p.flags
  <2> DEFINE u == [t EXCEPT ![i] = p]
             kept == [r EXCEPT !.pending = u]
  <2>1. own
    BY <1>4, <1>7
  <2>2. u \in Tables /\ u[i] = p /\ \A j \in Slots \ {i} : u[j] = t[j]
    BY <1>1, <1>2, <1>4 DEF Tables
  <2>3. /\ "valid" \in p.flags => BothWays(local, remote)
        /\ Queued(p) <=> Queued(q)
    BY <1>4, <1>6, <2>1 DEF Queued
  <2> HIDE DEF u
  <2>4. InQueue(u)
    <3>1. \A j \in Slots : /\ Queued(u[j]) <=> Queued(t[j])
                           /\ Queued(t[j]) => u[j].position = t[j].position
      BY <1>4, <2>1, <2>2, <2>3
    <3> QED
      BY <1>1, <2>2, <3>1, SameQueue DEF TableOK
  <2>5. Fits(a, r, t, i, u[i], count)
    <3>1. Queued(p) => ~p.in_flight /\ ("valid" \in p.flags \/ "triggered" \in p.flags)
      BY <1>4, <1>6, <1>7, <2>1, <2>3
    <3>2. p.in_flight => /\ p.txid <= count
                         /\ \A j \in Slots \ {i} : t[j].in_flight => t[j].txid # p.txid
      BY <1>4, <1>6, <2>1
    <3> QED
      BY <1>4, <1>5, <2>2, <2>3, <3>1, <3>2 DEF Fits
  <2>6. TableOK(a, r, u, count)
    <3>1. count <= count /\ \A j \in Slots \ {i} : Alike(u[j], t[j])
      BY <1>1, <2>2 DEF Alike
    <3> HIDE DEF t, count
    <3> QED
      BY <1>1, <1>2, <2>2, <2>4, <2>5, <3>1, UpdateSlot
  <2>7. kept \in Agent /\ AgentOK(a, kept) /\ kept.pending = u /\ kept.check_count = count
    BY <2>2, <2>6, WithTable
  <2>8. s = kept \/ (s = ice_select_pair(kept, p.local, p.remote) /\ "valid" \in p.flags)
    <3>1. [r EXCEPT !.pending[i] = p] = kept
      BY DEF u, Agent
    <3> QED
      BY <1>7, <3>1 DEF Trigger
  <2> HIDE DEF kept
  <2>9. /\ s \in Agent /\ AgentOK(a, s) /\ s.pending = u /\ s.check_count = count
    <3>1. CASE s = kept
      BY <2>7, <3>1
    <3>2. CASE s = ice_select_pair(kept, p.local, p.remote) /\ "valid" \in p.flags
      <4>1. TableOK(a, kept, kept.pending, kept.check_count)
        BY <2>7 DEF AgentOK
      <4> QED
        BY <1>4, <2>3, <2>7, <3>2, <4>1, Select
    <3> QED
      BY <2>8, <3>1, <3>2
  <2> HIDE DEF s
  <2>10. Continues(r, s)
    BY <1>1, <1>4, <1>6, <2>1, <2>2, <2>9 DEF Continues
  <2> QED
    BY <2>9, <2>10 DEF s, p, i
<1>8. CASE "valid" \notin p.flags /\ "triggered" \notin p.flags
  <2> DEFINE w == [p EXCEPT !.in_flight = FALSE,
                            !.flags = (@ \cap {"nominate"}) \cup {"triggered"}]
             v == [t EXCEPT ![i] = w]
             u == ice_queue_check(v, i)
  <2>1. s = [r EXCEPT !.pending = u]
    BY <1>8 DEF Trigger
  <2>2. /\ w \in Pending /\ ~w.in_flight /\ "triggered" \in w.flags
        /\ "valid" \notin w.flags /\ ~Queued(w)
        /\ w.local = local /\ w.remote = remote
    BY <1>4 DEF Pending, Flags, Queued
  <2> HIDE DEF w
  <2>3. v \in Tables /\ v[i] = w /\ \A j \in Slots \ {i} : v[j] = t[j]
    BY <1>1, <1>2, <2>2 DEF Tables
  <2> HIDE DEF v
  <2>4. ~Queued(q)
    BY <1>2, <1>4, <1>6, <1>8
  <2>5. InQueue(v)
    <3>1. \A j \in Slots : /\ Queued(v[j]) <=> Queued(t[j])
                           /\ Queued(t[j]) => v[j].position = t[j].position
      BY <2>2, <2>3, <2>4
    <3> QED
      BY <1>1, <2>3, <3>1, SameQueue DEF TableOK
  <2>6. /\ u \in Tables /\ InQueue(u) /\ \A j \in Slots \ {i} : u[j] = v[j]
        /\ u[i].flags = w.flags \cup {"queued"} /\ u[i].local = local /\ u[i].remote = remote
        /\ u[i].in_flight = w.in_flight
    BY <1>2, <2>2, <2>3, <2>5, QueueCheck
  <2> HIDE DEF u
  <2>7. Fits(a, r, t, i, u[i], count)
    <3>1. ~u[i].in_flight /\ "triggered" \in u[i].flags /\ "valid" \notin u[i].flags
      BY <2>2, <2>6
    <3> QED
      BY <1>5, <2>6, <3>1 DEF Fits
  <2>8. TableOK(a, r, u, count)
    <3>1. count <= count /\ \A j \in Slots \ {i} : Alike(u[j], t[j])
      BY <1>1, <2>3, <2>6 DEF Alike
    <3> HIDE DEF t, count
    <3> QED
      BY <1>1, <1>2, <2>6, <2>7, <3>1, UpdateSlot
  <2>9. s \in Agent /\ AgentOK(a, s) /\ s.pending = u /\ s.check_count = count
    BY <2>1, <2>6, <2>8, WithTable
  <2> HIDE DEF s
  <2>10. Continues(r, s)
    BY <1>1, <2>2, <2>3, <2>6, <2>9 DEF Continues
  <2> QED
    BY <2>9, <2>10 DEF s, p, i
<1> QED
  BY <1>7, <1>8

\* The answer to a request under way fits as the request does.
LEMMA AnswerSent ==
  ASSUME IceInv, NEW m \in net, m.kind = "request", NEW a \in Agents, NEW s \in Agent,
         m.to[1] = a, ice' = [ice EXCEPT ![a] = s], Continues(ice[a], s),
         <<m.to, m.from>> \in Works
  PROVE  Sent(BindingResponse(m), ice')
<1> DEFINE x == BindingResponse(m)
<1>1. /\ <<m.from, m.to>> \in Works /\ m \in Message /\ MessageFits(m, ice[m.from[1]])
      /\ ice \in [Agents -> Agent]
  BY DEF IceInv, IceTypeOK, MessageOK, Near
<1>2. m.from \in Addr /\ m.to \in Addr /\ m.from[1] \in Agents
  BY <1>1, Ends
<1>3. /\ x.kind = "response" /\ x.from = m.to /\ x.to = m.from /\ x.txid = m.txid
      /\ x \in Message
  BY <1>1, <1>2 DEF BindingResponse, Message
<1> HIDE DEF x
<1>4. Near(x) = m.from /\ Far(x) = m.to /\ Near(m) = m.from /\ Far(m) = m.to
  BY <1>3 DEF Near, Far
<1>5. MessageFits(m, ice'[m.from[1]])
  BY <1>1, <1>2, StillFits
<1>6. MessageFits(x, ice'[m.from[1]])
  BY <1>3, <1>4, <1>5 DEF MessageFits
<1> QED
  BY <1>1, <1>3, <1>4, <1>6 DEF Sent, x

\* A binding request that arrives keeps the invariant: the triggered check takes the
\* slot of its pair or a free one.
LEMMA HandleRequestStep ==
  ASSUME IceInv, NEW a \in Agents, NEW m \in net, m.to[1] = a, m.kind = "request",
         HandleRequest(a, m)
  PROVE  IceInv'
<1> DEFINE r == ice[a]
           pair == <<m.to, m.from>>
           nominate == m.use /\ a = "controlled"
           slot == SlotFor(r.pending, pair)
           answer == BindingResponse(m)
<1>1. r \in Agent /\ AgentOK(a, r) /\ r.check_count \in Nat /\ r.remotes \in Seq(Addr)
  BY OfAgent
<1>2. /\ <<m.from, m.to>> \in Works /\ m.from \in Addr /\ m.to \in Addresses(a)
      /\ m \in Message
  BY Ends DEF IceInv, IceTypeOK, MessageOK
<1>3. ASSUME NEW s \in Agent, AgentOK(a, s), Continues(r, s), ice' = [ice EXCEPT ![a] = s],
             net' = UnderWay((net \ {m}) \cup {answer}, ice')
      PROVE  IceInv'
  <2>1. answer.from = m.to /\ answer.to = m.from
    BY DEF BindingResponse
  <2>2. \A x \in net' : /\ x \in net \/ x = answer
                        /\ <<x.from, x.to>> \in Works /\ Awaited(x, ice')
    BY <1>3 DEF UnderWay, Awaited
  <2>3. <<m.to, m.from>> \in Works => Sent(answer, ice')
    BY <1>3, AnswerSent
  <2>4. \A x \in net' : (x \in net \/ Sent(x, ice')) /\ Awaited(x, ice')
    BY <2>1, <2>2, <2>3
  <2> QED
    BY <1>3, <2>4, AgentStep
<1>4. Continues(r, r)
  BY <1>1 DEF Continues
<1>5. ice = [ice EXCEPT ![a] = r]
  BY DEF IceInv, IceTypeOK
<1>6. CASE r.state \in {"connected", "failed"} /\ UNCHANGED ice
           /\ net' = UnderWay((net \ {m}) \cup {answer}, ice)
  BY <1>1, <1>3, <1>4, <1>5, <1>6
<1>7. CASE /\ HasRoom(r, m)
           /\ ice' = [ice EXCEPT ![a] = Trigger(Learn(r, m.from), slot,
                                          Claim(r.pending[slot], pair, nominate), nominate)]
           /\ net' = UnderWay((net \ {m}) \cup {answer}, ice')
  <2> DEFINE l == Learn(r, m.from)
             s == Trigger(l, slot, Claim(l.pending[slot], pair, nominate), nominate)
  <2>1. /\ l \in Agent /\ l.pending = r.pending /\ l.check_count = r.check_count
        /\ l.state = r.state /\ l.selected = r.selected
        /\ Knows(l, m.from) /\ \A d : Knows(r, d) => Knows(l, d)
    BY <1>1, <1>2, MoreKnown DEF Learn
  <2> HIDE DEF l
  <2>2. AgentOK(a, l)
    BY <1>1, <2>1 DEF AgentOK, TableOK, Known
  <2>3. nominate \in BOOLEAN /\ SlotFor(l.pending, pair) # 0
    BY <1>2, <1>7, <2>1 DEF HasRoom, Message
  <2>4. s \in Agent /\ AgentOK(a, s) /\ Continues(l, s)
    <3>1. slot = SlotFor(l.pending, pair)
      BY <2>1
    <3> HIDE DEF nominate, slot
    <3> QED
      BY <1>2, <2>1, <2>2, <2>3, <3>1, TriggerAgent
  <2>5. ice' = [ice EXCEPT ![a] = s]
    BY <1>7, <2>1 DEF l
  <2> HIDE DEF s
  <2>6. Continues(r, s)
    BY <2>1, <2>4 DEF Continues
  <2> QED
    BY <1>3, <1>7, <2>4, <2>5, <2>6
<1>8. CASE net' = net \ {m} /\ UNCHANGED ice
  <2>1. \A x \in net' : x \in net /\ Awaited(x, ice')
    BY <1>8 DEF IceInv, MessageOK, Awaited
  <2> QED
    BY <1>1, <1>4, <1>5, <1>8, <2>1, AgentStep
<1> QED
  BY <1>6, <1>7, <1>8 DEF HandleRequest

-----------------------------------------------------------------------------
(* Responses.                                                               *)

\* A response makes the pair of its check valid and leaves the agent well-formed.
LEMMA SucceedAgent ==
  ASSUME NEW a \in Agents, ice[a] \in Agent, AgentOK(a, ice[a]), NEW i \in Slots,
         ice[a].pending[i].in_flight,
         BothWays(ice[a].pending[i].local, ice[a].pending[i].remote)
  PROVE  Succeed(a, i) \in Agent /\ AgentOK(a, Succeed(a, i)) /\ Continues(ice[a], Succeed(a, i))
<1> DEFINE r == ice[a]
           t == r.pending
           p == t[i]
           count == r.check_count
           s == Succeed(a, i)
<1>1. t \in Tables /\ TableOK(a, r, t, count) /\ count \in Nat /\ p \in Pending
  BY DEF AgentOK, Agent, Tables
<1>2. ~Queued(p)
  BY <1>1 DEF TableOK, Marked, QueuedSlots
<1>3. /\ p.local \in Addresses(a) /\ Knows(r, p.remote)
      /\ \A j \in Slots \ {i} : InUse(t[j]) =>
            <<t[j].local, t[j].remote>> # <<p.local, p.remote>>
  BY <1>1 DEF TableOK, Known, Distinct, InUse
\* The check has ended, with the flags f, and may be queued again.
<1>4. ASSUME NEW u \in Tables, InQueue(u), \A j \in Slots \ {i} : u[j] = t[j],
             u[i].local = p.local, u[i].remote = p.remote, ~u[i].in_flight,
             Queued(u[i]) => "valid" \in u[i].flags
      PROVE  /\ TableOK(a, r, u, count)
             /\ LET v == [r EXCEPT !.pending = u]
                IN v \in Agent /\ AgentOK(a, v) /\ v.pending = u /\ v.check_count = count
  <2>1. Fits(a, r, t, i, u[i], count)
    BY <1>3, <1>4 DEF Fits
  <2>2. TableOK(a, r, u, count)
    <3>1. count <= count /\ \A j \in Slots \ {i} : Alike(u[j], t[j])
      BY <1>1, <1>4 DEF Alike
    <3> HIDE DEF t, count
    <3> QED
      BY <1>1, <1>4, <2>1, <3>1, UpdateSlot
  <2> QED
    BY <1>4, <2>2, WithTable
<1>5. ASSUME NEW u \in Tables, \A j \in Slots \ {i} : u[j] = t[j], ~u[i].in_flight,
             NEW v \in Agent, v.pending = u, v.check_count = count
      PROVE  Continues(r, v)
  BY <1>1, <1>5 DEF Continues
<1>6. ASSUME NEW u \in Tables, \A j \in Slots \ {i} : u[j] = t[j], ~Queued(u[i])
      PROVE  InQueue(u)
  <2>1. \A j \in Slots : /\ Queued(u[j]) <=> Queued(t[j])
                         /\ Queued(t[j]) => u[j].position = t[j].position
    BY <1>2, <1>6
  <2> QED
    BY <1>1, <1>6, <2>1, SameQueue DEF TableOK
<1> DEFINE done == [p EXCEPT !.in_flight = FALSE]
           good == [p EXCEPT !.in_flight = FALSE, !.flags = {"valid"}]
           D == [t EXCEPT ![i] = done]
           G == [t EXCEPT ![i] = good]
           rD == [r EXCEPT !.pending = D]
           rG == [r EXCEPT !.pending = G]
<1>7. /\ done \in Pending /\ done.local = p.local /\ done.remote = p.remote
      /\ ~done.in_flight /\ ~Queued(done)
  BY <1>1, <1>2 DEF Pending, Queued
<1>8. /\ good \in Pending /\ good.local = p.local /\ good.remote = p.remote
      /\ ~good.in_flight /\ good.flags = {"valid"} /\ ~Queued(good)
  BY <1>1 DEF Pending, Queued, Flags
<1>9. /\ [r EXCEPT !.pending[i].in_flight = FALSE] = rD
      /\ [r EXCEPT !.pending[i].in_flight = FALSE, !.pending[i].flags = {"valid"}] = rG
  BY <1>1 DEF Agent, Tables, Pending
<1> HIDE DEF done, good
<1>10. D \in Tables /\ D[i] = done /\ \A j \in Slots \ {i} : D[j] = t[j]
  BY <1>1, <1>7 DEF Tables
<1>11. G \in Tables /\ G[i] = good /\ \A j \in Slots \ {i} : G[j] = t[j]
  BY <1>1, <1>8 DEF Tables
<1> HIDE DEF D, G
<1>12. rD \in Agent /\ AgentOK(a, rD) /\ Continues(r, rD)
  <2>1. InQueue(D)
    BY <1>6, <1>7, <1>10
  <2>2. rD \in Agent /\ AgentOK(a, rD) /\ rD.pending = D /\ rD.check_count = count
    BY <1>4, <1>7, <1>10, <2>1
  <2> QED
    BY <1>5, <1>7, <1>10, <2>2
<1>13. /\ rG \in Agent /\ AgentOK(a, rG) /\ Continues(r, rG) /\ InQueue(G)
       /\ rG.pending = G /\ rG.check_count = count
  <2>1. InQueue(G)
    BY <1>6, <1>8, <1>11
  <2>2. rG \in Agent /\ AgentOK(a, rG) /\ rG.pending = G /\ rG.check_count = count
    BY <1>4, <1>8, <1>11, <2>1
  <2> QED
    BY <1>5, <1>8, <1>11, <2>1, <2>2
<1>14. CASE r.state = "connected"
  <2>1. s = rD
    BY <1>9, <1>14 DEF Succeed
  <2> QED
    BY <1>12, <2>1
<1>15. CASE r.state # "connected" /\ "nominate" \in p.flags
  <2>1. s = ice_select_pair(rG, p.local, p.remote)
    BY <1>9, <1>15 DEF Succeed
  <2>2. TableOK(a, rG, rG.pending, rG.check_count)
    BY <1>13 DEF AgentOK
  <2> HIDE DEF rG
  <2>3. s \in Agent /\ s.pending = G /\ s.check_count = count /\ AgentOK(a, s)
    BY <1>13, <2>1, <2>2, Select
  <2> HIDE DEF s
  <2>4. Continues(r, s)
    BY <1>5, <1>8, <1>11, <2>3
  <2> QED
    BY <2>3, <2>4 DEF s
<1>16. CASE r.state # "connected" /\ "nominate" \notin p.flags /\ a = "controlled"
  <2>1. s = rG
    BY <1>9, <1>16 DEF Succeed
  <2> QED
    BY <1>13, <2>1
<1>17. CASE r.state # "connected" /\ "nominate" \notin p.flags /\ a # "controlled"
  <2> DEFINE v == [G EXCEPT ![i].flags = @ \cup {"nominate"}]
             u == ice_queue_check(v, i)
             V == [r EXCEPT !.pending[i].in_flight = FALSE, !.pending[i].flags = {"valid"}]
             W(x) == [x EXCEPT !.pending = ice_queue_check(
                                 [x.pending EXCEPT ![i].flags = @ \cup {"nominate"}], i)]
  <2>1. s = [rG EXCEPT !.pending = u]
    <3>1. s = W(V)
      BY <1>17 DEF Succeed
    <3>2. V = rG
      BY <1>9
    <3> HIDE DEF V, rG
    <3>3. s = W(rG)
      BY <3>1, <3>2
    <3> QED
      BY <1>13, <3>3
  <2> HIDE DEF u
  <2>2. [rG EXCEPT !.pending = u] = [r EXCEPT !.pending = u]
    BY DEF Agent
  <2>3. /\ v \in Tables /\ \A j \in Slots \ {i} : v[j] = t[j]
        /\ v[i].local = p.local /\ v[i].remote = p.remote /\ ~v[i].in_flight
        /\ v[i].flags = {"valid", "nominate"} /\ ~Queued(v[i])
    BY <1>8, <1>11 DEF Tables, Pending, Flags, Queued
  <2> HIDE DEF v
  <2>4. InQueue(v)
    BY <1>6, <2>3
  <2>5. /\ u \in Tables /\ InQueue(u) /\ \A j \in Slots \ {i} : u[j] = t[j]
        /\ u[i].local = p.local /\ u[i].remote = p.remote /\ ~u[i].in_flight
        /\ "valid" \in u[i].flags
    BY <2>3, <2>4, QueueCheck DEF u
  <2>6. s \in Agent /\ AgentOK(a, s) /\ s.pending = u /\ s.check_count = count
    BY <1>4, <2>1, <2>2, <2>5
  <2> HIDE DEF s
  <2>7. Continues(r, s)
    BY <1>5, <2>5, <2>6
  <2> QED
    BY <2>6, <2>7 DEF s
<1> QED
  BY <1>14, <1>15, <1>16, <1>17

\* A binding response that arrives keeps the invariant.
LEMMA HandleResponseStep ==
  ASSUME IceInv, NEW a \in Agents, NEW m \in net, m.to[1] = a, m.kind = "response",
         HandleResponse(a, m)
  PROVE  IceInv'
<1> DEFINE r == ice[a]
           S == InFlight(r, m.txid)
           i == Min(S)
           s == Succeed(a, i)
<1>1. r \in Agent /\ AgentOK(a, r)
  BY OfAgent
<1>2. /\ <<m.from, m.to>> \in Works /\ <<m.to, m.from>> \in Works /\ S # {}
      /\ MessageFits(m, r) /\ Near(m) = m.to /\ Far(m) = m.from
  BY DEF IceInv, MessageOK, Near, Far
<1>3. S \subseteq Slots
  BY DEF InFlight
<1>4. i \in S
  BY <1>2, <1>3, MinSlot
<1>5. ice' = [ice EXCEPT ![a] = s] /\ net' = UnderWay(net \ {m}, ice')
  BY DEF HandleResponse
<1> HIDE DEF i
<1>6. /\ i \in Slots /\ r.pending[i].in_flight
      /\ BothWays(r.pending[i].local, r.pending[i].remote)
  BY <1>2, <1>4 DEF InFlight, MessageFits, BothWays
<1>7. s \in Agent /\ AgentOK(a, s) /\ Continues(r, s)
  BY <1>1, <1>6, SucceedAgent
<1>8. \A x \in net' : x \in net /\ Awaited(x, ice')
  BY <1>5 DEF UnderWay, Awaited
<1> QED
  BY <1>5, <1>7, <1>8, AgentStep

-----------------------------------------------------------------------------
(* The theorems.                                                            *)

\* The invariant holds of two agents that know no candidate of the other.
LEMMA IceInit == Init => IceInv
<1> SUFFICES ASSUME Init PROVE IceInv
  OBVIOUS
<1> DEFINE t == [i \in Slots |-> Idle]
           r == [state |-> "new", pending |-> t, remotes |-> <<>>,
                 check_count |-> 0, current |-> <<0, 0>>, selected |-> <<None, None>>]
<1>1. t \in Tables /\ QueuedSlots(t) = {} /\ \A i \in Slots : t[i] = Idle
  BY IdleType DEF Tables, QueuedSlots
<1> HIDE DEF t
<1>2. /\ r \in Agent /\ r.pending = t /\ r.check_count = 0 /\ r.state = "new"
  <2>1. <<>> \in Seq(Addr) /\ None \in Addr
    BY DEF Addr
  <2> QED
    BY <1>1, <2>1 DEF Agent
<1>3. ice = [a \in Agents |-> r] /\ net = {}
  BY DEF Init, t
<1> HIDE DEF r
<1>4. Cardinality(QueuedSlots(t)) = 0
  BY <1>1, FS_EmptySet
<1>5. InQueue(t)
  BY <1>1, <1>4 DEF InQueue
<1>6. \A a \in Agents : AgentOK(a, r)
  BY <1>1, <1>2, <1>5 DEF AgentOK, TableOK, Marked, Distinct, ValidWorks, Known, Txids, Idle, InUse
<1> QED
  BY <1>2, <1>3, <1>6 DEF IceInv, IceTypeOK

\* Every step keeps the invariant.
LEMMA IceNext == IceInv /\ [Next]_vars => IceInv'
<1> SUFFICES ASSUME IceInv, [Next]_vars PROVE IceInv'
  OBVIOUS
<1>1. CASE UNCHANGED vars
  BY <1>1 DEF vars, IceInv, IceTypeOK, AgentOK, TableOK, MessageOK, MessageFits, InFlight, Known, Knows
<1>2. CASE Next
  <2>1. PICK a \in Agents :
          \/ \E c \in Signalled[a] : AddRemoteCandidate(a, c)
          \/ Ordinary(a) \/ Fail(a)
          \/ \E i \in Slots : SendQueued(a, i) \/ Retransmit(a, i) \/ Expire(a, i)
          \/ \E m \in net : Receive(a, m)
    BY <1>2 DEF Next
  <2>2. CASE \E c \in Signalled[a] : AddRemoteCandidate(a, c)
    BY <2>2, AddStep
  <2>3. CASE Ordinary(a)
    BY <2>3, OrdinaryStep
  <2>4. CASE Fail(a)
    BY <2>4, FailStep
  <2>5. CASE \E i \in Slots : SendQueued(a, i)
    BY <2>5, SendQueuedStep
  <2>6. CASE \E i \in Slots : Retransmit(a, i)
    BY <2>6, RetransmitStep
  <2>7. CASE \E i \in Slots : Expire(a, i)
    BY <2>7, ExpireStep
  <2>8. CASE \E m \in net : Receive(a, m)
    BY <2>8, HandleRequestStep, HandleResponseStep DEF Receive
  <2> QED
    BY <2>1, <2>2, <2>3, <2>4, <2>5, <2>6, <2>7, <2>8
<1> QED
  BY <1>1, <1>2

\* Each agent's table of pending checks is in order, and every message under way is
\* about the pair of the check whose transaction it carries: what the handlers of
\* nano_ice.c keep true between calls.
THEOREM IceInvariant == Spec => []IceInv
<1> QED
  BY IceInit, IceNext, PTL DEF Spec

\* The positions that ice_queue_check and ice_unqueue_check keep in sent_at_ms are
\* those of a FIFO queue, whatever the size of the table.
THEOREM QueueStaysOrdered == Spec => []QueueOrdered
<1>1. IceInv => QueueOrdered
  <2> SUFFICES ASSUME IceInv, NEW a \in Agents
               PROVE  LET q == QueuedSlots(ice[a].pending)
                      IN /\ {ice[a].pending[i].position : i \in q} = 0 .. Cardinality(q) - 1
                         /\ \A i \in q : ~ice[a].pending[i].in_flight
    BY DEF QueueOrdered
  <2> DEFINE t == ice[a].pending
             q == QueuedSlots(t)
             n == Cardinality(q)
  <2>1. InQueue(t) /\ Marked(t) /\ t \in Tables
    BY OfAgent DEF TableOK
  <2>2. n \in Nat
    BY QueueFinite
  <2>3. /\ \A i \in q : t[i].position < n /\ t[i].position \in Nat
        /\ \A x \in 0 .. n - 1 : \E i \in q : t[i].position = x
        /\ \A i \in q : ~t[i].in_flight
    BY <2>1 DEF InQueue, Marked, Tables, Pending, QueuedSlots
  <2> HIDE DEF t, q, n
  <2>4. {t[i].position : i \in q} = 0 .. n - 1
    BY <2>2, <2>3
  <2> QED
    BY <2>3, <2>4 DEF t, q, n
<1> QED
  BY <1>1, IceInvariant, PTL

\* Whether a check is ordinary or triggered, no pair is checked in two slots.
THEOREM PairHasOneSlot == Spec => []OneSlotPerPair
<1>1. IceInv => OneSlotPerPair
  BY OfAgent DEF OneSlotPerPair, TableOK, Distinct
<1> QED
  BY <1>1, IceInvariant, PTL

\* For every set of working paths, also of those that work in one direction: an agent
\* that is CONNECTED has selected a pair that works in both.
THEOREM SelectedPairWorks == Spec => []SelectedWorks
<1>1. IceInv => SelectedWorks
  <2> SUFFICES ASSUME IceInv, NEW a \in Agents, ice[a].state = "connected"
               PROVE  {ice[a].selected, <<ice[a].selected[2], ice[a].selected[1]>>}
                        \subseteq Works
    BY DEF SelectedWorks
  <2>1. BothWays(ice[a].selected[1], ice[a].selected[2]) /\ ice[a].selected \in Addr \X Addr
    BY OfAgent DEF AgentOK, Agent
  <2>2. ice[a].selected = <<ice[a].selected[1], ice[a].selected[2]>>
    BY <2>1
  <2> QED
    BY <2>1, <2>2 DEF BothWays
<1> QED
  BY <1>1, IceInvariant, PTL
=============================================================================
