---------------------------- MODULE SctpRecvProof ----------------------------
(***************************************************************************)
(* For every size of the table and of the pool, every traffic of a         *)
(* conforming peer and every first TSN and SSN: type correctness of        *)
(* SctpRecv, the tiling of its pool, that every message handed to the      *)
(* application is the one the peer sent (Intact), that it comes once and   *)
(* in order (DeliveredOnce, DeliveredInOrder), that no step takes back an  *)
(* acknowledgement (NoRenege), and that nothing acknowledged is lost as    *)
(* long as nothing is abandoned (AckedIsKept).                             *)
(*                                                                         *)
(* The argument. The functions of nano_sctp.c that move bytes, reclaim,    *)
(* rotate, merge and store, each leave a pool that the valid entries tile  *)
(* (first section: a cut, a rotation and a new entry keep it). That is     *)
(* inductive together with the count of the entries, the size of the pool  *)
(* and FragmentsOK: only a message of one chunk may be empty, so a merge   *)
(* rotates fragments that own bytes. Loops over the table and over the     *)
(* pairs of a FORWARD-TSN are folds; FoldFacts carries an invariant of one *)
(* iteration through them. The layout of Chunks, a fold too, says which    *)
(* message each chunk belongs to.                                          *)
(*                                                                         *)
(* The second half labels every undelivered entry of the table with the    *)
(* chunks lo..hi of the peer it holds: they are fragments of one message,  *)
(* the entry owns their bytes in the pool in order, no two entries hold    *)
(* the same chunk, and an entry of several chunks lies below the           *)
(* cumulative TSN. The last part is what makes it inductive: a merged      *)
(* entry keeps only the TSN of its last chunk, and a late duplicate of an  *)
(* earlier one is told by the cumulative TSN alone.                        *)
(*                                                                         *)
(* The last two sections go from bytes to messages. As long as nothing is  *)
(* abandoned, an acknowledged chunk is held by an undelivered entry or its *)
(* message has been delivered (Safe). For the order, q[sid] counts the     *)
(* messages a stream has had in its turn: it is what recv_ssn stands for   *)
(* (Expects), the delivered messages lie below it, those that wait lie at  *)
(* or above it unless a FORWARD-TSN has released them, and none that waits *)
(* is followed on its stream by a delivered one (InTurn).                  *)
(***************************************************************************)
EXTENDS SctpRecv, BasicFacts, SequenceTheorems, FiniteSetTheorems, TLAPS

-----------------------------------------------------------------------------
(* A byte pool that is tiled by the entries of a table: entry i of V owns the len[i] bytes
   after position off[i], and each of the N bytes of the pool has one owner. *)

\* Every entry lies within the pool.
Inside(off, len, V, N) == \A i \in V : len[i] > 0 => 0 <= off[i] /\ off[i] + len[i] <= N

\* No two entries overlap.
Apart(off, len, V) ==
    \A i, j \in V : i # j /\ len[i] > 0 /\ len[j] > 0 =>
        off[i] + len[i] <= off[j] \/ off[j] + len[j] <= off[i]

\* No byte is unowned.
Covered(off, len, V, N) == \A p \in 1 .. N : \E i \in V : off[i] < p /\ p <= off[i] + len[i]

Tiled(off, len, V, N) ==
    /\ Inside(off, len, V, N)
    /\ Apart(off, len, V)
    /\ Covered(off, len, V, N)

\* Taking the bytes of entry e out of the pool leaves a tiling, with or without e.
LEMMA CutTiled ==
  ASSUME NEW S, NEW off \in [S -> Int], NEW len \in [S -> Nat], NEW V \in SUBSET S,
         NEW N \in Nat, Tiled(off, len, V, N),
         NEW e \in V, len[e] > 0,
         NEW off2 \in [S -> Int], NEW len2 \in [S -> Nat], NEW W \in SUBSET V,
         V \ {e} \subseteq W, e \in W => len2[e] = 0,
         \A j \in V \ {e} : /\ len2[j] = len[j]
                            /\ off2[j] = IF off[j] > off[e] THEN off[j] - len[e] ELSE off[j]
  PROVE  Tiled(off2, len2, W, N - len[e])
<1>1. Inside(off2, len2, W, N - len[e])
  <2> SUFFICES ASSUME NEW i \in W, len2[i] > 0
               PROVE  0 <= off2[i] /\ off2[i] + len2[i] <= N - len[e]
    BY DEF Inside
  <2>1. i \in V \ {e}
    OBVIOUS
  <2>2. 0 <= off[i] /\ off[i] + len[i] <= N /\ 0 <= off[e] /\ off[e] + len[e] <= N
    BY <2>1 DEF Tiled, Inside
  <2>3. off[i] + len[i] <= off[e] \/ off[e] + len[e] <= off[i]
    BY <2>1 DEF Tiled, Apart
  <2> QED
    BY <2>1, <2>2, <2>3
<1>2. Apart(off2, len2, W)
  <2> SUFFICES ASSUME NEW i \in W, NEW j \in W, i # j, len2[i] > 0, len2[j] > 0
               PROVE  off2[i] + len2[i] <= off2[j] \/ off2[j] + len2[j] <= off2[i]
    BY DEF Apart
  <2>1. i \in V \ {e} /\ j \in V \ {e}
    OBVIOUS
  <2>2. /\ off[i] + len[i] <= off[e] \/ off[e] + len[e] <= off[i]
        /\ off[j] + len[j] <= off[e] \/ off[e] + len[e] <= off[j]
        /\ off[i] + len[i] <= off[j] \/ off[j] + len[j] <= off[i]
    BY <2>1 DEF Tiled, Apart
  <2> QED
    BY <2>1, <2>2
<1>3. Covered(off2, len2, W, N - len[e])
  <2> SUFFICES ASSUME NEW p \in 1 .. N - len[e]
               PROVE  \E i \in W : off2[i] < p /\ p <= off2[i] + len2[i]
    BY DEF Covered
  <2> DEFINE q == IF p <= off[e] THEN p ELSE p + len[e]
  <2>1. off[e] \in Int /\ 0 <= off[e] /\ off[e] + len[e] <= N /\ q \in 1 .. N
    BY DEF Tiled, Inside
  <2>2. PICK i \in V : off[i] < q /\ q <= off[i] + len[i]
    BY <2>1 DEF Tiled, Covered
  <2>3. off[i] \in Int /\ len[i] \in Nat /\ len[e] \in Nat
    OBVIOUS
  <2>4. i # e /\ len[i] > 0
    BY <2>1, <2>2, <2>3
  <2>5. off[i] + len[i] <= off[e] \/ off[e] + len[e] <= off[i]
    BY <2>4 DEF Tiled, Apart
  <2>6. off2[i] < p /\ p <= off2[i] + len2[i]
    BY <2>1, <2>2, <2>3, <2>4, <2>5
  <2> QED
    BY <2>4, <2>6
<1> QED
  BY <1>1, <1>2, <1>3 DEF Tiled

\* Rotating the bytes of entry e down to pos, where no entry has bytes on both sides
\* of pos, leaves a tiling.
LEMMA RotateTiled ==
  ASSUME NEW S, NEW off \in [S -> Int], NEW len \in [S -> Nat], NEW V \in SUBSET S,
         NEW N \in Nat, Tiled(off, len, V, N),
         NEW e \in V, len[e] > 0, NEW pos \in Nat, pos <= off[e],
         \A j \in V : len[j] > 0 => off[j] + len[j] <= pos \/ pos <= off[j],
         NEW off2 \in [S -> Int], off2[e] = pos,
         \A j \in V \ {e} :
            off2[j] = IF pos <= off[j] /\ off[j] < off[e] THEN off[j] + len[e] ELSE off[j]
  PROVE  Tiled(off2, len, V, N)
<1>0. off[e] \in Int /\ 0 <= off[e] /\ off[e] + len[e] <= N /\ len[e] \in Nat
  BY DEF Tiled, Inside
<1>1. Inside(off2, len, V, N)
  <2> SUFFICES ASSUME NEW i \in V, len[i] > 0
               PROVE  0 <= off2[i] /\ off2[i] + len[i] <= N
    BY DEF Inside
  <2>2. 0 <= off[i] /\ off[i] + len[i] <= N
    BY DEF Tiled, Inside
  <2>3. i # e => off[i] + len[i] <= off[e] \/ off[e] + len[e] <= off[i]
    BY DEF Tiled, Apart
  <2> QED
    BY <1>0, <2>2, <2>3
<1>2. Apart(off2, len, V)
  <2> SUFFICES ASSUME NEW i \in V, NEW j \in V, i # j, len[i] > 0, len[j] > 0
               PROVE  off2[i] + len[i] <= off2[j] \/ off2[j] + len[j] <= off2[i]
    BY DEF Apart
  <2>2. /\ i # e => off[i] + len[i] <= off[e] \/ off[e] + len[e] <= off[i]
        /\ j # e => off[j] + len[j] <= off[e] \/ off[e] + len[e] <= off[j]
        /\ off[i] + len[i] <= off[j] \/ off[j] + len[j] <= off[i]
    BY DEF Tiled, Apart
  <2>3. /\ off[i] + len[i] <= pos \/ pos <= off[i]
        /\ off[j] + len[j] <= pos \/ pos <= off[j]
    OBVIOUS
  <2>4. off[i] \in Int /\ off[j] \in Int /\ len[i] \in Nat /\ len[j] \in Nat
    OBVIOUS
  <2>5. CASE i = e
    BY <1>0, <2>2, <2>3, <2>4, <2>5
  <2>6. CASE j = e
    BY <1>0, <2>2, <2>3, <2>4, <2>6
  <2>7. CASE i # e /\ j # e
    BY <1>0, <2>2, <2>3, <2>4, <2>7
  <2> QED
    BY <2>5, <2>6, <2>7
<1>3. Covered(off2, len, V, N)
  <2> SUFFICES ASSUME NEW p \in 1 .. N
               PROVE  \E i \in V : off2[i] < p /\ p <= off2[i] + len[i]
    BY DEF Covered
  <2> DEFINE q == IF p <= pos \/ p > off[e] + len[e] THEN p
                  ELSE IF p <= pos + len[e] THEN p - pos + off[e] ELSE p - len[e]
  <2>1. q \in 1 .. N
    BY <1>0
  <2>2. PICK i \in V : off[i] < q /\ q <= off[i] + len[i]
    BY <2>1 DEF Tiled, Covered
  <2>3. off[i] \in Int /\ len[i] \in Nat /\ len[i] > 0
    BY <2>1, <2>2
  <2>4. i # e => off[i] + len[i] <= off[e] \/ off[e] + len[e] <= off[i]
    BY <2>3 DEF Tiled, Apart
  <2>5. off[i] + len[i] <= pos \/ pos <= off[i]
    BY <2>3
  <2>6. off2[i] < p /\ p <= off2[i] + len[i]
    BY <1>0, <2>2, <2>3, <2>4, <2>5
  <2> QED
    BY <2>6
<1> QED
  BY <1>1, <1>2, <1>3 DEF Tiled

\* Entry e is new, with n bytes at the end of the pool.
Appends(off, len, off2, len2, V, N, e, n) ==
    /\ off2[e] = N /\ len2[e] = n
    /\ \A j \in V : off2[j] = off[j] /\ len2[j] = len[j]

\* Adding the bytes of a new entry e at the end of the pool.
LEMMA AppendTiled ==
  ASSUME NEW S, NEW off \in [S -> Int], NEW len \in [S -> Nat], NEW V \in SUBSET S,
         NEW N \in Nat, Tiled(off, len, V, N), NEW e \in S \ V, NEW n \in Nat,
         NEW off2 \in [S -> Int], NEW len2 \in [S -> Nat],
         Appends(off, len, off2, len2, V, N, e, n)
  PROVE  Tiled(off2, len2, V \cup {e}, N + n)
<1> USE DEF Appends
<1>0. \A j \in V : off[j] \in Int /\ len[j] \in Nat /\ j # e
  OBVIOUS
<1>1. Inside(off2, len2, V \cup {e}, N + n)
  BY <1>0 DEF Tiled, Inside
<1>2. Apart(off2, len2, V \cup {e})
  BY <1>0 DEF Tiled, Inside, Apart
<1>3. Covered(off2, len2, V \cup {e}, N + n)
  <2> SUFFICES ASSUME NEW p \in 1 .. N + n
               PROVE  \E i \in V \cup {e} : off2[i] < p /\ p <= off2[i] + len2[i]
    BY DEF Covered
  <2>1. CASE p <= N
    <3>1. PICK i \in V : off[i] < p /\ p <= off[i] + len[i]
      BY <2>1 DEF Tiled, Covered
    <3> QED
      BY <3>1
  <2>2. CASE p > N
    BY <2>2
  <2> QED
    BY <2>1, <2>2
<1> QED
  BY <1>1, <1>2, <1>3 DEF Tiled

\* Entries e and d adjoin, and e takes over the bytes of d.
Joins(off, len, off2, len2, V, e, d) ==
    /\ d # e /\ len[e] > 0
    /\ len[d] > 0 => off[d] = off[e] + len[e]
    /\ off2[e] = off[e] /\ len2[e] = len[e] + len[d]
    /\ \A j \in V \ {e, d} : off2[j] = off[j] /\ len2[j] = len[j]

\* What two adjoining entries own, one of them may own alone.
LEMMA JoinTiled ==
  ASSUME NEW S, NEW off \in [S -> Int], NEW len \in [S -> Nat], NEW V \in SUBSET S,
         NEW N \in Nat, Tiled(off, len, V, N), NEW e \in V, NEW d \in V,
         NEW off2 \in [S -> Int], NEW len2 \in [S -> Nat],
         Joins(off, len, off2, len2, V, e, d)
  PROVE  Tiled(off2, len2, V \ {d}, N)
<1> USE DEF Joins
<1>0. \A j \in V : off[j] \in Int /\ len[j] \in Nat
  OBVIOUS
<1>1. Inside(off2, len2, V \ {d}, N)
  <2> SUFFICES ASSUME NEW i \in V \ {d}, len2[i] > 0
               PROVE  0 <= off2[i] /\ off2[i] + len2[i] <= N
    BY DEF Inside
  <2>1. 0 <= off[e] /\ off[e] + len[e] <= N /\ (len[d] > 0 => off[d] + len[d] <= N)
    BY DEF Tiled, Inside
  <2>2. len[i] > 0 => 0 <= off[i] /\ off[i] + len[i] <= N
    BY DEF Tiled, Inside
  <2> QED
    BY <1>0, <2>1, <2>2
<1>2. Apart(off2, len2, V \ {d})
  <2> SUFFICES ASSUME NEW i \in V \ {d}, NEW j \in V \ {d}, i # j, len2[i] > 0, len2[j] > 0
               PROVE  off2[i] + len2[i] <= off2[j] \/ off2[j] + len2[j] <= off2[i]
    BY DEF Apart
  <2>1. ASSUME NEW x \in V \ {d, e}, len[x] > 0
        PROVE  off[x] + len[x] <= off[e] \/ off[e] + len[e] + len[d] <= off[x]
    <3>1. off[x] + len[x] <= off[e] \/ off[e] + len[e] <= off[x]
      BY <2>1 DEF Tiled, Apart
    <3>2. len[d] > 0 => off[x] + len[x] <= off[d] \/ off[d] + len[d] <= off[x]
      BY <2>1 DEF Tiled, Apart
    <3> QED
      BY <1>0, <2>1, <3>1, <3>2
  <2>2. CASE i # e /\ j # e
    BY <2>2 DEF Tiled, Apart
  <2>3. CASE i = e
    <3>1. j \in V \ {d, e} /\ len[j] > 0
      BY <2>3
    <3>2. off[j] + len[j] <= off[e] \/ off[e] + len[e] + len[d] <= off[j]
      BY <2>1, <3>1
    <3> QED
      BY <1>0, <2>3, <3>1, <3>2
  <2>4. CASE j = e
    <3>1. i \in V \ {d, e} /\ len[i] > 0
      BY <2>4
    <3>2. off[i] + len[i] <= off[e] \/ off[e] + len[e] + len[d] <= off[i]
      BY <2>1, <3>1
    <3> QED
      BY <1>0, <2>4, <3>1, <3>2
  <2> QED
    BY <2>2, <2>3, <2>4
<1>3. Covered(off2, len2, V \ {d}, N)
  <2> SUFFICES ASSUME NEW p \in 1 .. N
               PROVE  \E i \in V \ {d} : off2[i] < p /\ p <= off2[i] + len2[i]
    BY DEF Covered
  <2>1. PICK i \in V : off[i] < p /\ p <= off[i] + len[i]
    BY DEF Tiled, Covered
  <2>2. CASE i = d
    <3>1. off2[e] < p /\ p <= off2[e] + len2[e]
      BY <1>0, <2>1, <2>2
    <3> QED
      BY <3>1
  <2>3. CASE i = e
    <3>1. off2[e] < p /\ p <= off2[e] + len2[e]
      BY <1>0, <2>1, <2>3
    <3> QED
      BY <3>1
  <2>4. CASE i # e /\ i # d
    BY <2>1, <2>4
  <2> QED
    BY <2>2, <2>3, <2>4
<1> QED
  BY <1>1, <1>2, <1>3 DEF Tiled

\* Compaction moves the bytes of an entry together with the entry.
LEMMA CutKeeps ==
  ASSUME NEW S, NEW off \in [S -> Int], NEW len \in [S -> Nat], NEW V \in SUBSET S,
         NEW N \in Nat, Tiled(off, len, V, N),
         NEW e \in V, len[e] > 0, NEW j \in V \ {e}, NEW q \in 1 .. len[j],
         NEW o2, o2 = IF off[j] > off[e] THEN off[j] - len[e] ELSE off[j]
  PROVE  /\ o2 + q \in 1 .. N - len[e]
         /\ (IF o2 + q <= off[e] THEN o2 + q ELSE o2 + q + len[e]) = off[j] + q
<1>1. len[e] \in Nat /\ len[j] \in Nat /\ off[e] \in Int /\ off[j] \in Int /\ len[j] > 0
  OBVIOUS
<1>2. /\ 0 <= off[e] /\ off[e] + len[e] <= N /\ 0 <= off[j] /\ off[j] + len[j] <= N
      /\ off[j] + len[j] <= off[e] \/ off[e] + len[e] <= off[j]
  BY <1>1 DEF Tiled, Inside, Apart
<1> QED
  BY <1>1, <1>2

\* Rotation moves the bytes of an entry together with the entry.
LEMMA RotateKeeps ==
  ASSUME NEW S, NEW off \in [S -> Int], NEW len \in [S -> Nat], NEW V \in SUBSET S,
         NEW N \in Nat, Tiled(off, len, V, N),
         NEW e \in V, len[e] > 0, NEW pos \in Nat, pos <= off[e],
         \A j \in V : len[j] > 0 => off[j] + len[j] <= pos \/ pos <= off[j],
         NEW j \in V, NEW q \in 1 .. len[j],
         NEW o2, o2 = IF j = e THEN pos
                      ELSE IF pos <= off[j] /\ off[j] < off[e] THEN off[j] + len[e] ELSE off[j]
  PROVE  /\ o2 + q \in 1 .. N
         /\ RotatedFrom(pos, off[e], len[e], o2 + q) = off[j] + q
<1>1. len[e] \in Nat /\ len[j] \in Nat /\ off[e] \in Int /\ off[j] \in Int /\ len[j] > 0
  OBVIOUS
<1>2. /\ 0 <= off[e] /\ off[e] + len[e] <= N /\ 0 <= off[j] /\ off[j] + len[j] <= N
      /\ j # e => off[j] + len[j] <= off[e] \/ off[e] + len[e] <= off[j]
      /\ off[j] + len[j] <= pos \/ pos <= off[j]
  BY <1>1 DEF Tiled, Inside, Apart
<1>3. CASE j = e
  BY <1>1, <1>2, <1>3 DEF RotatedFrom
<1>4. CASE j # e
  BY <1>1, <1>2, <1>4 DEF RotatedFrom
<1> QED
  BY <1>3, <1>4

\* An entry without bytes may leave the table.
LEMMA EmptyTiled ==
  ASSUME NEW S, NEW off \in [S -> Int], NEW len \in [S -> Nat], NEW V \in SUBSET S,
         NEW N \in Nat, Tiled(off, len, V, N), NEW W \in SUBSET V,
         \A j \in V \ W : len[j] = 0,
         NEW off2 \in [S -> Int], NEW len2 \in [S -> Nat],
         \A j \in W : off2[j] = off[j] /\ len2[j] = len[j]
  PROVE  Tiled(off2, len2, W, N)
<1>1. Inside(off2, len2, W, N) /\ Apart(off2, len2, W)
  BY DEF Tiled, Inside, Apart
<1>2. ASSUME NEW p \in 1 .. N PROVE \E i \in W : off2[i] < p /\ p <= off2[i] + len2[i]
  <2>1. PICK i \in V : off[i] < p /\ p <= off[i] + len[i]
    BY DEF Tiled, Covered
  <2>2. off[i] \in Int /\ len[i] \in Nat
    OBVIOUS
  <2>3. i \in W
    BY <2>1, <2>2
  <2> QED
    BY <2>1, <2>3
<1> QED
  BY <1>1, <1>2 DEF Tiled, Covered

-----------------------------------------------------------------------------
(* The receive state.                                                       *)

Byte == Nat \X Nat

Entry == [valid : BOOLEAN, tsn : 0 .. TSN_MOD - 1, msg : Nat, sid : Nat, ssn : Nat,
          B : BOOLEAN, E : BOOLEAN, U : BOOLEAN, off : Int, len : Nat,
          delivered : BOOLEAN, forwarded : BOOLEAN]

Streams == UNION {[D -> 0 .. SSN_MOD - 1] : D \in SUBSET Nat}

State == [cumulative_tsn : 0 .. TSN_MOD - 1, recv_gap : [Slots -> Entry],
          recv_gap_count : Nat, recv_gap_buf : Seq(Byte), recv_ssn : Streams,
          sack_needed : BOOLEAN]

Offs(s) == [i \in Slots |-> s.recv_gap[i].off]
Lens(s) == [i \in Slots |-> s.recv_gap[i].len]

\* The pool is tiled by the valid entries.
PoolOK(s) == Tiled(Offs(s), Lens(s), Valid(s), Len(s.recv_gap_buf))

\* A fragment that waits for others has bytes.
FragmentsOK(s) ==
    \A i \in Live(s) : ~(s.recv_gap[i].B /\ s.recv_gap[i].E) => s.recv_gap[i].len > 0

\* The invariant of the receive state.
RxStates == {s \in State : /\ PoolOK(s)
                           /\ FragmentsOK(s)
                           /\ Len(s.recv_gap_buf) <= RECV_GAP_BUF_SIZE
                           /\ s.recv_gap_count = Cardinality(Valid(s))}

\* Entry j is the same in t as in s but for the place of its bytes.
SameEntry(s, t, j) ==
    /\ t.recv_gap[j] = [s.recv_gap[j] EXCEPT !.off = t.recv_gap[j].off]
    /\ \A q \in 1 .. s.recv_gap[j].len :
         t.recv_gap_buf[t.recv_gap[j].off + q] = s.recv_gap_buf[s.recv_gap[j].off + q]

\* The shape of the parts of a state.
LEMMA StateParts ==
  ASSUME NEW s \in State
  PROVE  /\ s.cumulative_tsn \in 0 .. TSN_MOD - 1 /\ s.recv_gap \in [Slots -> Entry]
         /\ s.recv_gap_count \in Nat /\ s.recv_gap_buf \in Seq(Byte)
         /\ Len(s.recv_gap_buf) \in Nat
         /\ s.recv_ssn \in Streams /\ s.sack_needed \in BOOLEAN
         /\ Offs(s) \in [Slots -> Int] /\ Lens(s) \in [Slots -> Nat]
         /\ Valid(s) \in SUBSET Slots /\ Live(s) \in SUBSET Valid(s)
         /\ \A i \in Slots : /\ s.recv_gap[i] \in Entry
                             /\ s.recv_gap[i].off \in Int /\ s.recv_gap[i].len \in Nat
                             /\ Offs(s)[i] = s.recv_gap[i].off
                             /\ Lens(s)[i] = s.recv_gap[i].len
                             /\ s.recv_gap[i].valid \in BOOLEAN
<1>1. /\ s.cumulative_tsn \in 0 .. TSN_MOD - 1 /\ s.recv_gap \in [Slots -> Entry]
      /\ s.recv_gap_count \in Nat /\ s.recv_gap_buf \in Seq(Byte)
      /\ s.recv_ssn \in Streams /\ s.sack_needed \in BOOLEAN
  BY DEF State
<1>2. \A i \in Slots : s.recv_gap[i] \in Entry
  BY <1>1
<1>3. \A i \in Slots : /\ s.recv_gap[i].off \in Int /\ s.recv_gap[i].len \in Nat
                       /\ s.recv_gap[i].valid \in BOOLEAN
  BY <1>2 DEF Entry
<1>4. Offs(s) \in [Slots -> Int] /\ Lens(s) \in [Slots -> Nat]
      /\ \A i \in Slots : Offs(s)[i] = s.recv_gap[i].off /\ Lens(s)[i] = s.recv_gap[i].len
  BY <1>3 DEF Offs, Lens
<1>5. Valid(s) \in SUBSET Slots /\ Live(s) \in SUBSET Valid(s)
  BY DEF Valid, Live
<1>6. Len(s.recv_gap_buf) \in Nat
  BY <1>1
<1> QED
  BY <1>1, <1>2, <1>3, <1>4, <1>5, <1>6

\* The slots are finite, and so is the set of valid ones.
LEMMA ValidFinite ==
  ASSUME NEW s
  PROVE  IsFiniteSet(Valid(s)) /\ Cardinality(Valid(s)) \in 0 .. MAX_RECV_GAP
<1>1. 0 \in Int /\ MAX_RECV_GAP - 1 \in Int /\ MAX_RECV_GAP \in Nat /\ MAX_RECV_GAP > 1
  BY RecvSizes
<1>2. IsFiniteSet(Slots) /\ Cardinality(Slots) = MAX_RECV_GAP
  BY <1>1, FS_Interval DEF Slots
<1>3. Valid(s) \in SUBSET Slots
  BY DEF Valid
<1>4. IsFiniteSet(Valid(s)) /\ Cardinality(Valid(s)) <= MAX_RECV_GAP
  BY <1>2, <1>3, FS_Subset
<1>5. Cardinality(Valid(s)) \in Nat
  BY <1>4, FS_CardinalityType
<1> QED
  BY <1>1, <1>4, <1>5

\* A free slot is an entry.
LEMMA NoEntryType == NoEntry \in Entry
<1>1. 0 \in 0 .. TSN_MOD - 1
  BY RecvSizes
<1> QED
  BY <1>1 DEF NoEntry, Entry

\* Changing an entry's place and its flags keeps its type.
LEMMA EntryExcept ==
  ASSUME NEW e \in Entry
  PROVE  /\ \A o \in Int : [e EXCEPT !.off = o] \in Entry
         /\ \A n \in Nat : [e EXCEPT !.len = n] \in Entry
         /\ [e EXCEPT !.delivered = TRUE] \in Entry
         /\ [e EXCEPT !.forwarded = TRUE] \in Entry
BY DEF Entry

\* The bytes of the pool after the two ways of moving them.
LEMMA RotateDownBytes ==
  ASSUME NEW b \in Seq(Byte), NEW o \in Nat, NEW l \in Nat, o + l <= Len(b),
         NEW pos \in Nat, pos <= o
  PROVE  /\ RotateDown(b, pos, o, l) \in Seq(Byte) /\ Len(RotateDown(b, pos, o, l)) = Len(b)
         /\ \A p \in 1 .. Len(RotateDown(b, pos, o, l)) :
              RotateDown(b, pos, o, l)[p] = b[RotatedFrom(pos, o, l, p)]
<1> DEFINE w == SubSeq(b, 1, pos) \o SubSeq(b, o + 1, o + l)
                  \o SubSeq(b, pos + 1, o) \o SubSeq(b, o + l + 1, Len(b))
<1>1. w \in Seq(Byte) /\ Len(w) = Len(b)
      /\ \A p \in 1 .. Len(w) : w[p] = b[RotatedFrom(pos, o, l, p)]
  BY RotateBytes, ZenonT(60)
<1>2. RotateDown(b, pos, o, l) = w
  BY Zenon DEF RotateDown
<1> HIDE DEF w
<1> QED
  BY <1>1, <1>2, Zenon

\* What CutOut leaves: the bytes before the cut, and those after it moved down.
LEMMA CutOutBytes ==
  ASSUME NEW b \in Seq(Byte), NEW o \in Nat, NEW l \in Nat, o + l <= Len(b)
  PROVE  /\ CutOut(b, o, l) \in Seq(Byte) /\ Len(CutOut(b, o, l)) = Len(b) - l
         /\ \A p \in 1 .. Len(CutOut(b, o, l)) :
              CutOut(b, o, l)[p] = b[IF p <= o THEN p ELSE p + l]
<1> DEFINE c == SubSeq(b, 1, o) \o SubSeq(b, o + l + 1, Len(b))
<1>1. c \in Seq(Byte) /\ Len(c) = Len(b) - l
      /\ \A p \in 1 .. Len(c) : c[p] = b[IF p <= o THEN p ELSE p + l]
  BY CutBytes, ZenonT(60)
<1>2. CutOut(b, o, l) = c
  BY Zenon DEF CutOut
<1> HIDE DEF c
<1> QED
  BY <1>1, <1>2, Zenon

\* The bytes of the slot may go to position pos: no entry has bytes on both sides of it.
CanMove(s, slot, pos) ==
    s.recv_gap[slot].len > 0 =>
      /\ pos <= s.recv_gap[slot].off
      /\ \A j \in Valid(s) : s.recv_gap[j].len > 0 =>
           s.recv_gap[j].off + s.recv_gap[j].len <= pos \/ pos <= s.recv_gap[j].off

MovedTo(s, slot, pos, t) ==
    /\ t \in State /\ PoolOK(t) /\ Valid(t) = Valid(s)
    /\ \A j \in Valid(s) : SameEntry(s, t, j)
    /\ \A j \in Slots \ Valid(s) : t.recv_gap[j] = s.recv_gap[j]
    /\ Len(t.recv_gap_buf) = Len(s.recv_gap_buf)
    /\ t = [s EXCEPT !.recv_gap = t.recv_gap, !.recv_gap_buf = t.recv_gap_buf]
    /\ s.recv_gap[slot].len > 0 => t.recv_gap[slot].off = pos
    /\ \A j \in Valid(s) \ {slot} : t.recv_gap[j].off =
         IF s.recv_gap[slot].len > 0 /\ pos <= s.recv_gap[j].off
            /\ s.recv_gap[j].off < s.recv_gap[slot].off
         THEN s.recv_gap[j].off + s.recv_gap[slot].len ELSE s.recv_gap[j].off

\* nsctp_rx_move rotates the bytes of one entry and leaves every entry its bytes.
LEMMA MoveStep ==
  ASSUME NEW s \in State, PoolOK(s), NEW slot \in Valid(s), NEW pos \in Nat,
         CanMove(s, slot, pos)
  PROVE  MovedTo(s, slot, pos, nsctp_rx_move(s, slot, pos))
<1> USE DEF CanMove, MovedTo
<1> DEFINE g == s.recv_gap
           b == s.recv_gap_buf
           e == g[slot]
           t == nsctp_rx_move(s, slot, pos)
<1>0. slot \in Slots /\ \A j \in Valid(s) : j \in Slots /\ g[j].valid = TRUE
  BY StateParts DEF Valid, Entry
<1>a. /\ g \in [Slots -> Entry] /\ b \in Seq(Byte) /\ Len(b) \in Nat
      /\ \A i \in Slots : g[i] \in Entry /\ g[i].off \in Int /\ g[i].len \in Nat
  BY StateParts
<1>1. CASE e.off = pos \/ e.len = 0
  <2>1. t = s
    BY <1>1 DEF nsctp_rx_move
  <2>2. \A j \in Valid(s) : SameEntry(s, s, j)
    BY <1>0, <1>a DEF SameEntry, Entry
  <2>3. s = [s EXCEPT !.recv_gap = s.recv_gap, !.recv_gap_buf = s.recv_gap_buf]
    BY DEF State
  <2>4. \A j \in Valid(s) \ {slot} :
          ~(g[slot].len > 0 /\ pos <= g[j].off /\ g[j].off < g[slot].off)
    BY <1>0, <1>1, <1>a
  <2> QED
    BY <1>0, <1>1, <1>a, <2>1, <2>2, <2>3, <2>4
<1>2. CASE ~(e.off = pos \/ e.len = 0)
  <2> DEFINE c == RotateDown(b, pos, e.off, e.len)
             h == [j \in Slots |->
                     IF j = slot THEN [g[j] EXCEPT !.off = pos]
                     ELSE IF g[j].valid /\ pos <= g[j].off /\ g[j].off < e.off
                          THEN [g[j] EXCEPT !.off = g[j].off + e.len] ELSE g[j]]
  <2>1. t = [s EXCEPT !.recv_gap_buf = c, !.recv_gap = h]
    BY <1>2 DEF nsctp_rx_move
  <2>2. e.len > 0 /\ e.off \in Nat /\ e.len \in Nat /\ pos <= e.off /\ e.off + e.len <= Len(b)
    <3>1. e.len > 0 /\ e.off \in Int /\ e.len \in Nat
      BY <1>0, <1>2, <1>a
    <3>2. Lens(s)[slot] = e.len /\ Offs(s)[slot] = e.off
      BY <1>0, StateParts
    <3> QED
      BY <3>1, <3>2 DEF PoolOK, Tiled, Inside
  <2>3. c \in Seq(Byte) /\ Len(c) = Len(b)
        /\ \A p \in 1 .. Len(c) : c[p] = b[RotatedFrom(pos, e.off, e.len, p)]
    <3>1. b \in Seq(Byte) /\ e.off \in Nat /\ e.len \in Nat /\ e.off + e.len <= Len(b) /\ pos <= e.off
      BY <1>a, <2>2
    <3> HIDE DEF b, e
    <3> QED
      BY <3>1, RotateDownBytes, ZenonT(30)
  <2>4. h \in [Slots -> Entry]
    <3>1. ASSUME NEW j \in Slots PROVE h[j] \in Entry
      <4>1. g[j] \in Entry /\ pos \in Int /\ g[j].off + e.len \in Int
        BY <1>0, <1>a, <2>2
      <4> QED
        BY <4>1, EntryExcept
    <3> QED
      BY <3>1
  <2>5. /\ h[slot] = [g[slot] EXCEPT !.off = pos]
        /\ h[slot].off = pos /\ h[slot].len = g[slot].len /\ h[slot].valid = g[slot].valid
    BY <1>0, <1>a DEF Entry
  <2>6. ASSUME NEW j \in Valid(s) \ {slot}
        PROVE  LET o == IF pos <= g[j].off /\ g[j].off < e.off THEN g[j].off + e.len ELSE g[j].off
               IN /\ h[j] = [g[j] EXCEPT !.off = o]
                  /\ h[j].off = o /\ h[j].len = g[j].len /\ h[j].valid = g[j].valid
    BY <1>0, <1>a DEF Entry
  <2>7. ASSUME NEW j \in Slots \ Valid(s) PROVE h[j] = g[j]
    <3>1. ~g[j].valid /\ j # slot
      BY DEF Valid
    <3> QED
      BY <3>1
  <2> HIDE DEF c, h
  <2>8. /\ t \in State /\ t.recv_gap = h /\ t.recv_gap_buf = c
        /\ t = [s EXCEPT !.recv_gap = t.recv_gap, !.recv_gap_buf = t.recv_gap_buf]
    <3>1. t \in State /\ t.recv_gap = h /\ t.recv_gap_buf = c
      BY <2>1, <2>3, <2>4 DEF State
    <3>2. t = [s EXCEPT !.recv_gap = h, !.recv_gap_buf = c]
      BY <2>1 DEF State
    <3> HIDE DEF t
    <3> QED
      BY <3>1, <3>2
  <2> HIDE DEF t
  <2>9. Valid(t) = Valid(s)
    <3>1. \A j \in Slots : h[j].valid = g[j].valid
      BY <2>5, <2>6, <2>7
    <3> QED
      BY <2>8, <3>1 DEF Valid
  <2>10. Lens(t) = Lens(s)
    <3>1. \A j \in Slots : h[j].len = g[j].len
      BY <2>5, <2>6, <2>7
    <3> QED
      BY <2>8, <3>1 DEF Lens
  <2>11. PoolOK(t)
    <3> DEFINE off == Offs(s)
               len == Lens(s)
               off2 == Offs(t)
               N == Len(b)
    <3>1. /\ off \in [Slots -> Int] /\ len \in [Slots -> Nat] /\ off2 \in [Slots -> Int]
          /\ N \in Nat /\ Tiled(off, len, Valid(s), N) /\ Valid(s) \in SUBSET Slots
      BY <2>8, StateParts DEF PoolOK
    <3>2. \A j \in Slots : off[j] = g[j].off /\ len[j] = g[j].len /\ off2[j] = h[j].off
      BY <2>8, StateParts
    <3> HIDE DEF off, len, off2, N
    <3>3. len[slot] > 0 /\ pos <= off[slot] /\ off2[slot] = pos
      BY <1>0, <2>2, <2>5, <3>2
    <3>4. \A j \in Valid(s) : len[j] > 0 => off[j] + len[j] <= pos \/ pos <= off[j]
      BY <1>0, <2>2, <3>2
    <3>5. \A j \in Valid(s) \ {slot} :
            off2[j] = IF pos <= off[j] /\ off[j] < off[slot] THEN off[j] + len[slot] ELSE off[j]
      BY <1>0, <2>6, <3>2
    <3>6. Tiled(off2, len, Valid(s), N)
      BY <3>1, <3>3, <3>4, <3>5, RotateTiled
    <3> QED
      BY <2>3, <2>8, <2>9, <2>10, <3>6 DEF PoolOK, off2, len, N
  <2>12. ASSUME NEW j \in Valid(s) PROVE SameEntry(s, t, j)
    <3>1. h[j] = [g[j] EXCEPT !.off = h[j].off]
      <4>1. CASE j = slot
        BY <2>5, <4>1
      <4>2. CASE j # slot
        BY <2>6, <4>2
      <4> QED
        BY <4>1, <4>2
    <3>2. ASSUME NEW q \in 1 .. g[j].len PROVE c[h[j].off + q] = b[g[j].off + q]
      <4> DEFINE off == Offs(s)
                 len == Lens(s)
                 N == Len(b)
                 o2 == h[j].off
      <4>1. /\ off \in [Slots -> Int] /\ len \in [Slots -> Nat]
            /\ N \in Nat /\ Tiled(off, len, Valid(s), N) /\ Valid(s) \in SUBSET Slots
        BY StateParts DEF PoolOK
      <4>2. \A i \in Slots : off[i] = g[i].off /\ len[i] = g[i].len
        BY StateParts
      <4>3. o2 = IF j = slot THEN pos
                 ELSE IF pos <= off[j] /\ off[j] < off[slot] THEN off[j] + len[slot] ELSE off[j]
        <5>1. CASE j = slot
          BY <2>5, <5>1
        <5>2. CASE j # slot
          <6>1. h[j].off = IF pos <= g[j].off /\ g[j].off < e.off
                           THEN g[j].off + e.len ELSE g[j].off
            BY <2>6, <5>2
          <6>2. off[j] = g[j].off /\ off[slot] = e.off /\ len[slot] = e.len
            BY <1>0, <4>2
          <6> QED
            BY <5>2, <6>1, <6>2
        <5> QED
          BY <5>1, <5>2
      <4> HIDE DEF off, len, N, o2
      <4>4. len[slot] > 0 /\ pos <= off[slot] /\ q \in 1 .. len[j]
        BY <1>0, <2>2, <4>2
      <4>5. \A i \in Valid(s) : len[i] > 0 => off[i] + len[i] <= pos \/ pos <= off[i]
        BY <1>0, <2>2, <4>2
      <4>6. o2 + q \in 1 .. N /\ RotatedFrom(pos, off[slot], len[slot], o2 + q) = off[j] + q
        BY <4>1, <4>3, <4>4, <4>5, RotateKeeps
      <4> QED
        BY <1>0, <2>3, <4>2, <4>6 DEF o2, N
    <3> QED
      BY <2>8, <3>1, <3>2 DEF SameEntry
  <2>13. \A j \in Slots \ Valid(s) : t.recv_gap[j] = s.recv_gap[j]
    BY <2>7, <2>8
  <2>14. Len(t.recv_gap_buf) = Len(s.recv_gap_buf)
    BY <2>3, <2>8
  <2>15. t.recv_gap[slot].off = pos
    BY <2>5, <2>8
  <2>16. ASSUME NEW j \in Valid(s) \ {slot}
         PROVE  t.recv_gap[j].off =
                  IF s.recv_gap[slot].len > 0 /\ pos <= s.recv_gap[j].off
                     /\ s.recv_gap[j].off < s.recv_gap[slot].off
                  THEN s.recv_gap[j].off + s.recv_gap[slot].len ELSE s.recv_gap[j].off
    BY <2>2, <2>6, <2>8
  <2> QED
    BY <2>8, <2>9, <2>11, <2>12, <2>13, <2>14, <2>15, <2>16 DEF t
<1> QED
  BY <1>1, <1>2

-----------------------------------------------------------------------------
(* nsctp_rx_reclaim.                                                        *)

\* Compaction takes the bytes of entry i out of the pool.
Compacted(s, i) ==
    LET g == s.recv_gap
        e == g[i]
    IN [s EXCEPT
          !.recv_gap_buf = CutOut(@, e.off, e.len),
          !.sack_needed = TRUE,
          !.recv_gap = [j \in Slots |->
             IF j = i THEN [g[j] EXCEPT !.len = 0]
             ELSE IF g[j].valid /\ g[j].off > e.off
                  THEN [g[j] EXCEPT !.off = g[j].off - e.len] ELSE g[j]]]

\* Taking the bytes of one entry out of the pool keeps the pool tiled and the other
\* entries the same.
LEMMA CompactStep ==
  ASSUME NEW s \in State, PoolOK(s), NEW i \in Valid(s), s.recv_gap[i].len > 0
  PROVE  LET t == Compacted(s, i)
         IN /\ t \in State /\ PoolOK(t) /\ Valid(t) = Valid(s)
            /\ t.recv_gap[i] = [s.recv_gap[i] EXCEPT !.len = 0]
            /\ \A j \in Valid(s) \ {i} : SameEntry(s, t, j)
            /\ \A j \in Slots \ Valid(s) : t.recv_gap[j] = s.recv_gap[j]
            /\ Len(t.recv_gap_buf) <= Len(s.recv_gap_buf)
            /\ t.cumulative_tsn = s.cumulative_tsn /\ t.recv_ssn = s.recv_ssn
            /\ t.recv_gap_count = s.recv_gap_count
<1> DEFINE g == s.recv_gap
           b == s.recv_gap_buf
           e == g[i]
           t == Compacted(s, i)
           c == CutOut(b, e.off, e.len)
           h == [j \in Slots |->
                   IF j = i THEN [g[j] EXCEPT !.len = 0]
                   ELSE IF g[j].valid /\ g[j].off > e.off
                        THEN [g[j] EXCEPT !.off = g[j].off - e.len] ELSE g[j]]
<1>0. i \in Slots /\ \A j \in Valid(s) : j \in Slots /\ g[j].valid = TRUE
  BY StateParts DEF Valid, Entry
<1>a. /\ g \in [Slots -> Entry] /\ b \in Seq(Byte) /\ Len(b) \in Nat
      /\ \A j \in Slots : g[j] \in Entry /\ g[j].off \in Int /\ g[j].len \in Nat
  BY StateParts
<1>1. t = [s EXCEPT !.recv_gap_buf = c, !.sack_needed = TRUE, !.recv_gap = h]
  BY DEF Compacted
<1>2. e.len > 0 /\ e.off \in Nat /\ e.len \in Nat /\ e.off + e.len <= Len(b)
  <2>1. e.len > 0 /\ e.off \in Int /\ e.len \in Nat
    BY <1>0, <1>a
  <2>2. Lens(s)[i] = e.len /\ Offs(s)[i] = e.off
    BY <1>0, StateParts
  <2> QED
    BY <2>1, <2>2 DEF PoolOK, Tiled, Inside
<1>3. c \in Seq(Byte) /\ Len(c) = Len(b) - e.len
      /\ \A p \in 1 .. Len(c) : c[p] = b[IF p <= e.off THEN p ELSE p + e.len]
  BY <1>a, <1>2, CutOutBytes
<1>4. h \in [Slots -> Entry]
  <2>1. ASSUME NEW j \in Slots PROVE h[j] \in Entry
    <3>1. g[j] \in Entry /\ 0 \in Nat /\ g[j].off - e.len \in Int
      BY <1>0, <1>a, <1>2
    <3> QED
      BY <3>1, EntryExcept
  <2> QED
    BY <2>1
<1>5. h[i] = [g[i] EXCEPT !.len = 0] /\ h[i].len = 0 /\ h[i].valid = g[i].valid
  BY <1>0, <1>a DEF Entry
<1>6. ASSUME NEW j \in Valid(s) \ {i}
      PROVE  LET o == IF g[j].off > e.off THEN g[j].off - e.len ELSE g[j].off
             IN /\ h[j] = [g[j] EXCEPT !.off = o]
                /\ h[j].off = o /\ h[j].len = g[j].len /\ h[j].valid = g[j].valid
  BY <1>0, <1>a DEF Entry
<1>7. ASSUME NEW j \in Slots \ Valid(s) PROVE h[j] = g[j]
  <2>1. ~g[j].valid /\ j # i
    BY DEF Valid
  <2> QED
    BY <2>1
<1> HIDE DEF c, h
<1>8. t \in State /\ t.recv_gap = h /\ t.recv_gap_buf = c
      /\ t.cumulative_tsn = s.cumulative_tsn /\ t.recv_ssn = s.recv_ssn
      /\ t.recv_gap_count = s.recv_gap_count
  BY <1>1, <1>3, <1>4 DEF State
<1> HIDE DEF t
<1>9. Valid(t) = Valid(s)
  <2>1. \A j \in Slots : h[j].valid = g[j].valid
    BY <1>5, <1>6, <1>7
  <2> QED
    BY <1>8, <2>1 DEF Valid
<1>10. PoolOK(t) /\ \A j \in Valid(s) \ {i} : SameEntry(s, t, j)
  <2> DEFINE off == Offs(s)
             len == Lens(s)
             off2 == Offs(t)
             len2 == Lens(t)
             N == Len(b)
             V == Valid(s)
  <2>1. /\ off \in [Slots -> Int] /\ len \in [Slots -> Nat] /\ off2 \in [Slots -> Int]
        /\ len2 \in [Slots -> Nat] /\ N \in Nat /\ Tiled(off, len, V, N)
        /\ V \in SUBSET Slots
    BY <1>8, StateParts DEF PoolOK
  <2>2. \A j \in Slots : /\ off[j] = g[j].off /\ len[j] = g[j].len
                         /\ off2[j] = h[j].off /\ len2[j] = h[j].len
    BY <1>8, StateParts
  <2> HIDE DEF off, len, off2, len2, N
  <2>3. len[i] > 0 /\ len2[i] = 0
    BY <1>0, <1>2, <1>5, <2>2
  <2>4. \A j \in V \ {i} : /\ len2[j] = len[j]
                           /\ off2[j] = IF off[j] > off[i] THEN off[j] - len[i] ELSE off[j]
    BY <1>0, <1>6, <2>2
  <2>5. V \in SUBSET V /\ V \ {i} \subseteq V /\ i \in V
    OBVIOUS
  <2>6. Tiled(off2, len2, V, N - len[i])
    <3> HIDE DEF V
    <3> QED
      BY <2>1, <2>3, <2>4, <2>5, CutTiled
  <2>7. N - len[i] = Len(t.recv_gap_buf)
    BY <1>0, <1>3, <1>8, <2>2 DEF N
  <2>8. PoolOK(t)
    BY <1>9, <2>6, <2>7 DEF PoolOK, off2, len2
  <2>9. ASSUME NEW j \in V \ {i} PROVE SameEntry(s, t, j)
    <3>1. h[j] = [g[j] EXCEPT !.off = h[j].off]
      BY <1>6
    <3>2. ASSUME NEW q \in 1 .. g[j].len PROVE c[h[j].off + q] = b[g[j].off + q]
      <4> DEFINE o2 == h[j].off
      <4>1. o2 = IF off[j] > off[i] THEN off[j] - len[i] ELSE off[j]
        BY <1>0, <1>6, <2>2
      <4> HIDE DEF o2, V
      <4>2. q \in 1 .. len[j] /\ i \in V
        BY <1>0, <2>2 DEF V
      <4>3. /\ o2 + q \in 1 .. N - len[i]
            /\ (IF o2 + q <= off[i] THEN o2 + q ELSE o2 + q + len[i]) = off[j] + q
        BY <2>1, <2>3, <4>1, <4>2, CutKeeps
      <4>4. o2 + q \in 1 .. Len(c)
        BY <1>0, <1>3, <2>2, <4>3 DEF N
      <4>5. c[o2 + q] = b[IF o2 + q <= off[i] THEN o2 + q ELSE o2 + q + len[i]]
        BY <1>0, <1>3, <2>2, <4>4
      <4>6. off[j] = g[j].off
        BY <1>0, <2>2 DEF V
      <4> QED
        BY <4>3, <4>5, <4>6 DEF o2
    <3> QED
      BY <1>8, <3>1, <3>2 DEF SameEntry
  <2> QED
    BY <2>8, <2>9
<1>11. /\ t.recv_gap[i] = [s.recv_gap[i] EXCEPT !.len = 0]
       /\ \A j \in Slots \ Valid(s) : t.recv_gap[j] = s.recv_gap[j]
  BY <1>5, <1>7, <1>8
<1>12. Len(t.recv_gap_buf) <= Len(s.recv_gap_buf)
  BY <1>2, <1>3, <1>8, <1>a
<1> QED
  BY <1>8, <1>9, <1>10, <1>11, <1>12 DEF t

\* t is s after some delivered entries gave up their bytes or their slots.
Reclaimed(s, t) ==
    /\ t.cumulative_tsn = s.cumulative_tsn /\ t.recv_ssn = s.recv_ssn
    /\ Live(t) = Live(s)
    /\ \A j \in Live(s) : SameEntry(s, t, j)
    /\ \A j \in Valid(t) : j \in Valid(s) /\ t.recv_gap[j].tsn = s.recv_gap[j].tsn

\* The fields that SameEntry keeps.
LEMMA SameEntryFields ==
  ASSUME NEW s \in State, NEW t, NEW j \in Slots, SameEntry(s, t, j)
  PROVE  /\ t.recv_gap[j].valid = s.recv_gap[j].valid
         /\ t.recv_gap[j].tsn = s.recv_gap[j].tsn
         /\ t.recv_gap[j].msg = s.recv_gap[j].msg
         /\ t.recv_gap[j].sid = s.recv_gap[j].sid
         /\ t.recv_gap[j].ssn = s.recv_gap[j].ssn
         /\ t.recv_gap[j].B = s.recv_gap[j].B
         /\ t.recv_gap[j].E = s.recv_gap[j].E
         /\ t.recv_gap[j].U = s.recv_gap[j].U
         /\ t.recv_gap[j].len = s.recv_gap[j].len
         /\ t.recv_gap[j].delivered = s.recv_gap[j].delivered
         /\ t.recv_gap[j].forwarded = s.recv_gap[j].forwarded
<1>1. s.recv_gap[j] \in Entry
  BY StateParts
<1>2. t.recv_gap[j] = [s.recv_gap[j] EXCEPT !.off = t.recv_gap[j].off]
  BY DEF SameEntry
<1> DEFINE e == s.recv_gap[j]
           d == t.recv_gap[j]
           o == d.off
<1> HIDE DEF e, o
<1>3. d = [e EXCEPT !.off = o] /\ e \in Entry
  BY <1>1, <1>2 DEF e, o
<1> HIDE DEF d
<1>4. /\ d.valid = e.valid /\ d.tsn = e.tsn /\ d.msg = e.msg /\ d.sid = e.sid /\ d.ssn = e.ssn
      /\ d.B = e.B /\ d.E = e.E /\ d.U = e.U /\ d.len = e.len
      /\ d.delivered = e.delivered /\ d.forwarded = e.forwarded
  BY <1>3 DEF Entry
<1> QED
  BY <1>4 DEF d, e

\* SameEntry is reflexive.
LEMMA SameEntryRefl ==
  ASSUME NEW s \in State, NEW j \in Slots
  PROVE  SameEntry(s, s, j)
<1>1. s.recv_gap[j] \in Entry
  BY StateParts
<1> QED
  BY <1>1 DEF SameEntry, Entry

\* SameEntry is transitive.
LEMMA SameEntryTrans ==
  ASSUME NEW s \in State, NEW t \in State, NEW u, NEW j \in Slots,
         SameEntry(s, t, j), SameEntry(t, u, j)
  PROVE  SameEntry(s, u, j)
<1>1. t.recv_gap[j].len = s.recv_gap[j].len
  BY SameEntryFields
<1>2. s.recv_gap[j] \in Entry
  BY StateParts
<1>3. u.recv_gap[j] = [s.recv_gap[j] EXCEPT !.off = u.recv_gap[j].off]
  <2> DEFINE e == s.recv_gap[j]
             o == t.recv_gap[j].off
             p == u.recv_gap[j].off
  <2>1. u.recv_gap[j] = [t.recv_gap[j] EXCEPT !.off = p] /\ t.recv_gap[j] = [e EXCEPT !.off = o]
    BY DEF SameEntry
  <2> HIDE DEF o, p, e
  <2>2. [[e EXCEPT !.off = o] EXCEPT !.off = p] = [e EXCEPT !.off = p]
    BY <1>2 DEF Entry, e
  <2> QED
    BY <2>1, <2>2 DEF p, e
<1> QED
  BY <1>1, <1>3 DEF SameEntry

\* A slot without bytes is freed.
LEMMA FreeStep ==
  ASSUME NEW s \in RxStates, NEW i \in Valid(s), s.recv_gap[i].len = 0,
         s.recv_gap[i].delivered
  PROVE  LET t == [s EXCEPT !.recv_gap[i] = NoEntry, !.recv_gap_count = @ - 1]
         IN t \in RxStates /\ Reclaimed(s, t)
<1> DEFINE g == s.recv_gap
           h == [g EXCEPT ![i] = NoEntry]
           n == s.recv_gap_count - 1
           t == [s EXCEPT !.recv_gap[i] = NoEntry, !.recv_gap_count = @ - 1]
<1>0. s \in State /\ i \in Slots /\ g \in [Slots -> Entry] /\ g[i].valid
  BY StateParts DEF RxStates, Valid
<1>1. NoEntry \in Entry
  BY NoEntryType
<1>2. h \in [Slots -> Entry] /\ h[i] = NoEntry /\ \A j \in Slots \ {i} : h[j] = g[j]
  BY <1>0, <1>1
<1>3. n \in Nat /\ n = Cardinality(Valid(s) \ {i}) /\ Cardinality(Valid(s) \ {i}) \in Nat
  <2>1. IsFiniteSet(Valid(s)) /\ s.recv_gap_count = Cardinality(Valid(s))
    BY ValidFinite DEF RxStates
  <2>2. IsFiniteSet(Valid(s) \ {i}) /\ Cardinality(Valid(s) \ {i}) = Cardinality(Valid(s)) - 1
    BY <2>1, FS_RemoveElement
  <2>3. Cardinality(Valid(s) \ {i}) \in Nat
    BY <2>2, FS_CardinalityType
  <2> QED
    BY <2>1, <2>2, <2>3
<1>4. t = [s EXCEPT !.recv_gap = h, !.recv_gap_count = n]
  BY <1>0 DEF State
<1> HIDE DEF h, n
<1>5. t \in State /\ t.recv_gap = h /\ t.recv_gap_count = n /\ t.recv_gap_buf = s.recv_gap_buf
      /\ t.cumulative_tsn = s.cumulative_tsn /\ t.recv_ssn = s.recv_ssn
  BY <1>0, <1>2, <1>3, <1>4 DEF State
<1> HIDE DEF t
<1>6. Valid(t) = Valid(s) \ {i}
  BY <1>2, <1>5 DEF Valid, NoEntry
<1>7. Live(t) = Live(s)
  <2>1. \A j \in Valid(t) : j \in Slots \ {i} /\ j \in Valid(s) /\ t.recv_gap[j] = g[j]
    BY <1>2, <1>5, <1>6 DEF Valid
  <2>2. i \notin Live(s)
    BY DEF Live
  <2> QED
    BY <1>6, <2>1, <2>2 DEF Live
<1>8. PoolOK(t)
  <2> DEFINE off == Offs(s)
             len == Lens(s)
             off2 == Offs(t)
             len2 == Lens(t)
             N == Len(s.recv_gap_buf)
             V == Valid(s)
             W == Valid(t)
  <2>1. /\ off \in [Slots -> Int] /\ len \in [Slots -> Nat] /\ off2 \in [Slots -> Int]
        /\ len2 \in [Slots -> Nat] /\ N \in Nat /\ Tiled(off, len, V, N)
        /\ V \in SUBSET Slots /\ W \in SUBSET V
    BY <1>0, <1>5, <1>6, StateParts DEF PoolOK, RxStates
  <2>2. \A j \in Slots : /\ off[j] = g[j].off /\ len[j] = g[j].len
                         /\ off2[j] = h[j].off /\ len2[j] = h[j].len
    BY <1>0, <1>5, StateParts
  <2> HIDE DEF off, len, off2, len2, N
  <2>3. \A j \in V \ W : len[j] = 0
    BY <1>0, <1>6, <2>2
  <2>4. \A j \in W : off2[j] = off[j] /\ len2[j] = len[j]
    BY <1>2, <1>6, <2>1, <2>2
  <2>5. Tiled(off2, len2, W, N)
    <3> HIDE DEF V, W
    <3> QED
      BY <2>1, <2>3, <2>4, EmptyTiled
  <2> QED
    BY <1>5, <2>5 DEF PoolOK, off2, len2, N
<1>9. FragmentsOK(t)
  <2>1. ASSUME NEW j \in Live(t) PROVE t.recv_gap[j] = s.recv_gap[j] /\ j \in Live(s)
    BY <1>2, <1>5, <1>6, <1>7 DEF Live, Valid
  <2> QED
    BY <2>1 DEF FragmentsOK, RxStates
<1>10. t \in RxStates
  BY <1>3, <1>5, <1>6, <1>8, <1>9 DEF RxStates
<1>11. Reclaimed(s, t)
  <2>1. \A j \in Valid(t) : j \in Valid(s) /\ t.recv_gap[j] = s.recv_gap[j] /\ j \in Slots
    BY <1>2, <1>5, <1>6 DEF Valid
  <2>2. \A j \in Live(s) : SameEntry(s, t, j)
    <3> SUFFICES ASSUME NEW j \in Live(s) PROVE SameEntry(s, t, j)
      OBVIOUS
    <3>1. j \in Slots /\ t.recv_gap[j] = s.recv_gap[j]
      BY <1>7, <2>1 DEF Live
    <3>2. SameEntry(s, s, j)
      BY <1>0, <3>1, SameEntryRefl
    <3> QED
      BY <1>5, <3>1, <3>2 DEF SameEntry
  <2> QED
    BY <1>5, <1>7, <2>1, <2>2 DEF Reclaimed
<1> QED
  BY <1>10, <1>11 DEF t

\* Reclaimed is reflexive.
LEMMA ReclaimedRefl ==
  ASSUME NEW s \in State
  PROVE  Reclaimed(s, s)
<1>1. \A j \in Live(s) : SameEntry(s, s, j)
  BY StateParts, SameEntryRefl
<1> QED
  BY <1>1 DEF Reclaimed

\* Reclaimed is transitive.
LEMMA ReclaimedTrans ==
  ASSUME NEW s \in State, NEW t \in State, NEW u, Reclaimed(s, t), Reclaimed(t, u)
  PROVE  Reclaimed(s, u)
<1>1. \A j \in Live(s) : SameEntry(s, u, j)
  <2> SUFFICES ASSUME NEW j \in Live(s) PROVE SameEntry(s, u, j)
    OBVIOUS
  <2>1. j \in Slots /\ SameEntry(s, t, j) /\ SameEntry(t, u, j)
    BY StateParts DEF Reclaimed
  <2> QED
    BY <2>1, SameEntryTrans
<1> QED
  BY <1>1 DEF Reclaimed

\* Compaction for a delivered entry.
LEMMA CompactDelivered ==
  ASSUME NEW s \in RxStates, NEW i \in Valid(s), s.recv_gap[i].delivered,
         s.recv_gap[i].len > 0
  PROVE  LET t == Compacted(s, i)
         IN /\ t \in RxStates /\ Reclaimed(s, t) /\ i \in Valid(t)
            /\ t.recv_gap[i].len = 0 /\ t.recv_gap[i].delivered
<1> DEFINE t == Compacted(s, i)
<1>0. s \in State /\ PoolOK(s) /\ i \in Slots /\ s.recv_gap[i] \in Entry
  BY StateParts DEF RxStates, Valid
<1>1. /\ t \in State /\ PoolOK(t) /\ Valid(t) = Valid(s)
      /\ t.recv_gap[i] = [s.recv_gap[i] EXCEPT !.len = 0]
      /\ \A j \in Valid(s) \ {i} : SameEntry(s, t, j)
      /\ \A j \in Slots \ Valid(s) : t.recv_gap[j] = s.recv_gap[j]
      /\ Len(t.recv_gap_buf) <= Len(s.recv_gap_buf)
      /\ t.cumulative_tsn = s.cumulative_tsn /\ t.recv_ssn = s.recv_ssn
      /\ t.recv_gap_count = s.recv_gap_count
  BY <1>0, CompactStep
<1> HIDE DEF t
<1>2. /\ t.recv_gap[i].len = 0 /\ t.recv_gap[i].delivered
      /\ t.recv_gap[i].tsn = s.recv_gap[i].tsn
  BY <1>0, <1>1 DEF Entry
<1>3. \A j \in Valid(s) \ {i} :
        /\ j \in Slots
        /\ t.recv_gap[j].tsn = s.recv_gap[j].tsn
        /\ t.recv_gap[j].delivered = s.recv_gap[j].delivered
        /\ t.recv_gap[j].B = s.recv_gap[j].B /\ t.recv_gap[j].E = s.recv_gap[j].E
        /\ t.recv_gap[j].len = s.recv_gap[j].len
  <2> SUFFICES ASSUME NEW j \in Valid(s) \ {i}
               PROVE  /\ j \in Slots
                      /\ t.recv_gap[j].tsn = s.recv_gap[j].tsn
                      /\ t.recv_gap[j].delivered = s.recv_gap[j].delivered
                      /\ t.recv_gap[j].B = s.recv_gap[j].B /\ t.recv_gap[j].E = s.recv_gap[j].E
                      /\ t.recv_gap[j].len = s.recv_gap[j].len
    OBVIOUS
  <2>1. j \in Slots /\ SameEntry(s, t, j)
    BY <1>0, <1>1, StateParts
  <2> QED
    BY <1>0, <2>1, SameEntryFields
<1>4. Live(t) = Live(s) /\ i \notin Live(s)
  BY <1>1, <1>2, <1>3 DEF Live
<1>5. FragmentsOK(t)
  <2>1. \A j \in Live(t) : j \in Live(s) /\ j \in Valid(s) \ {i}
    BY <1>4 DEF Live
  <2> QED
    BY <1>3, <2>1 DEF FragmentsOK, RxStates
<1>6. Len(t.recv_gap_buf) <= RECV_GAP_BUF_SIZE /\ t.recv_gap_count = Cardinality(Valid(t))
  <2>1. Len(s.recv_gap_buf) <= RECV_GAP_BUF_SIZE /\ s.recv_gap_count = Cardinality(Valid(s))
    BY DEF RxStates
  <2>2. Len(s.recv_gap_buf) \in Nat /\ Len(t.recv_gap_buf) \in Nat /\ RECV_GAP_BUF_SIZE \in Nat
    BY <1>0, <1>1, StateParts, RecvSizes
  <2> QED
    BY <1>1, <2>1, <2>2
<1>7. t \in RxStates
  BY <1>1, <1>5, <1>6 DEF RxStates
<1>8. Reclaimed(s, t)
  <2>1. \A j \in Live(s) : SameEntry(s, t, j)
    BY <1>1, <1>4 DEF Live
  <2> QED
    BY <1>1, <1>2, <1>3, <1>4, <2>1 DEF Reclaimed
<1> QED
  BY <1>1, <1>2, <1>7, <1>8 DEF t

\* One iteration of nsctp_rx_reclaim.
LEMMA ReclaimStep ==
  ASSUME NEW s \in RxStates, NEW i \in Slots
  PROVE  ReclaimSlot(s, i) \in RxStates /\ Reclaimed(s, ReclaimSlot(s, i))
<1> DEFINE e == s.recv_gap[i]
           c == IF e.len > 0 THEN Compacted(s, i) ELSE s
           t == ReclaimSlot(s, i)
<1>0. s \in State /\ e \in Entry
  BY StateParts DEF RxStates
<1>1. t = IF ~(e.valid /\ e.delivered) THEN s
          ELSE IF Passed(s, e) THEN [c EXCEPT !.recv_gap[i] = NoEntry, !.recv_gap_count = @ - 1]
          ELSE c
  BY DEF ReclaimSlot, Compacted
<1> HIDE DEF t
<1>2. CASE ~(e.valid /\ e.delivered)
  BY <1>0, <1>1, <1>2, ReclaimedRefl DEF t
<1>3. CASE e.valid /\ e.delivered
  <2>0. i \in Valid(s)
    BY <1>3 DEF Valid
  <2>1. /\ c \in RxStates /\ Reclaimed(s, c) /\ i \in Valid(c)
        /\ c.recv_gap[i].len = 0 /\ c.recv_gap[i].delivered
    <3>1. CASE e.len > 0
      BY <1>3, <2>0, <3>1, CompactDelivered
    <3>2. CASE ~(e.len > 0)
      <4>1. e.len = 0
        BY <1>0, <3>2 DEF Entry
      <4> QED
        BY <1>0, <1>3, <2>0, <3>2, <4>1, ReclaimedRefl
    <3> QED
      BY <3>1, <3>2
  <2> HIDE DEF c
  <2>2. CASE Passed(s, e)
    <3>1. t \in RxStates /\ Reclaimed(c, t)
      BY <1>1, <1>3, <2>1, <2>2, FreeStep
    <3>2. Reclaimed(s, t)
      BY <1>0, <2>1, <3>1, ReclaimedTrans DEF RxStates
    <3> QED
      BY <3>1, <3>2 DEF t
  <2>3. CASE ~Passed(s, e)
    BY <1>1, <1>3, <2>1, <2>3 DEF t
  <2> QED
    BY <2>2, <2>3
<1> QED
  BY <1>2, <1>3

ReclaimFold == INSTANCE FoldFacts WITH Op <- ReclaimSlot

\* The numbers are well-ordered, as the facts of the instance suppose.
LEMMA ReclaimWellOrdered == ReclaimFold!WellOrdered
BY LeastNat DEF ReclaimFold!WellOrdered

\* nsctp_rx_reclaim: no live entry loses its bytes or its place in the table.
LEMMA ReclaimOK ==
  ASSUME NEW s \in RxStates
  PROVE  nsctp_rx_reclaim(s) \in RxStates /\ Reclaimed(s, nsctp_rx_reclaim(s))
<1> DEFINE R == {t \in RxStates : Reclaimed(s, t)}
<1>1. SlotSeq \in Seq(Slots)
  <2>1. MAX_RECV_GAP \in Nat
    BY RecvSizes
  <2> QED
    BY <2>1 DEF SlotSeq, Slots
<1>2. s \in R
  BY ReclaimedRefl DEF RxStates
<1>3. ASSUME NEW t \in R, NEW i \in Slots PROVE ReclaimSlot(t, i) \in R
  <2>1. ReclaimSlot(t, i) \in RxStates /\ Reclaimed(t, ReclaimSlot(t, i))
    BY ReclaimStep
  <2>2. s \in State /\ t \in State /\ Reclaimed(s, t)
    BY DEF RxStates
  <2>3. Reclaimed(s, ReclaimSlot(t, i))
    BY <2>1, <2>2, ReclaimedTrans
  <2> QED
    BY <2>1, <2>3
<1> HIDE DEF R
<1>4. ReclaimFold!Fold(s, SlotSeq) \in R
  BY <1>1, <1>2, <1>3, ReclaimWellOrdered, ReclaimFold!FoldInvariant
<1>5. ReclaimFold!Fold(s, SlotSeq) = FoldLeft(ReclaimSlot, s, SlotSeq)
  BY DEF FoldLeft, MapThenFoldSet, Max,
         ReclaimFold!Fold, ReclaimFold!Largest
<1> QED
  BY <1>4, <1>5 DEF nsctp_rx_reclaim, R

-----------------------------------------------------------------------------
(* The operations that leave the pool alone.                                *)

\* The entries of t are those of s but for their delivered and forwarded marks.
Relabelled(s, t) ==
    /\ t.recv_gap_buf = s.recv_gap_buf /\ t.recv_gap_count = s.recv_gap_count
    /\ \A i \in Slots : \E d, f \in BOOLEAN :
         /\ t.recv_gap[i] = [s.recv_gap[i] EXCEPT !.delivered = d, !.forwarded = f]
         /\ s.recv_gap[i].delivered => d

\* The fields that Relabelled keeps.
LEMMA RelabelFields ==
  ASSUME NEW s \in State, NEW t, Relabelled(s, t), NEW i \in Slots
  PROVE  /\ t.recv_gap[i] \in Entry
         /\ t.recv_gap[i].valid = s.recv_gap[i].valid
         /\ t.recv_gap[i].tsn = s.recv_gap[i].tsn
         /\ t.recv_gap[i].msg = s.recv_gap[i].msg
         /\ t.recv_gap[i].off = s.recv_gap[i].off
         /\ t.recv_gap[i].len = s.recv_gap[i].len
         /\ t.recv_gap[i].B = s.recv_gap[i].B
         /\ t.recv_gap[i].E = s.recv_gap[i].E
         /\ s.recv_gap[i].delivered => t.recv_gap[i].delivered
<1> DEFINE e == s.recv_gap[i]
<1>1. e \in Entry
  BY StateParts
<1>2. PICK d \in BOOLEAN, f \in BOOLEAN :
        /\ t.recv_gap[i] = [e EXCEPT !.delivered = d, !.forwarded = f]
        /\ e.delivered => d
  BY DEF Relabelled
<1> HIDE DEF e
<1> DEFINE x == [e EXCEPT !.delivered = d, !.forwarded = f]
<1>3. /\ x \in Entry /\ x.valid = e.valid /\ x.tsn = e.tsn /\ x.msg = e.msg
      /\ x.off = e.off /\ x.len = e.len /\ x.B = e.B /\ x.E = e.E /\ x.delivered = d
  BY <1>1 DEF Entry
<1> HIDE DEF x
<1>4. t.recv_gap[i] = x
  BY <1>2 DEF x
<1> QED
  BY <1>2, <1>3, <1>4 DEF e

\* A state whose entries are only marked otherwise keeps the invariant.
LEMMA RelabelOK ==
  ASSUME NEW s \in RxStates, NEW t \in State, Relabelled(s, t)
  PROVE  t \in RxStates
<1>0. s \in State
  BY DEF RxStates
<1>1. \A i \in Slots :
        /\ t.recv_gap[i].valid = s.recv_gap[i].valid
        /\ t.recv_gap[i].off = s.recv_gap[i].off
        /\ t.recv_gap[i].len = s.recv_gap[i].len
        /\ t.recv_gap[i].B = s.recv_gap[i].B
        /\ t.recv_gap[i].E = s.recv_gap[i].E
        /\ s.recv_gap[i].delivered => t.recv_gap[i].delivered
  BY <1>0, RelabelFields
<1>2. Valid(t) = Valid(s) /\ Offs(t) = Offs(s) /\ Lens(t) = Lens(s)
  BY <1>1 DEF Valid, Offs, Lens
<1>3. PoolOK(t)
  BY <1>2 DEF PoolOK, RxStates, Relabelled
<1>4. FragmentsOK(t)
  <2>1. \A j \in Live(t) : j \in Live(s) /\ j \in Slots
    BY <1>1, <1>2 DEF Live, Valid
  <2> QED
    BY <1>1, <2>1 DEF FragmentsOK, RxStates
<1> QED
  BY <1>2, <1>3, <1>4 DEF RxStates, Relabelled

\* A state with the table of s and other counters.
LEMMA SameTable ==
  ASSUME NEW s \in State, NEW t, t.recv_gap = s.recv_gap,
         t.recv_gap_buf = s.recv_gap_buf, t.recv_gap_count = s.recv_gap_count
  PROVE  Relabelled(s, t)
<1>1. ASSUME NEW i \in Slots
      PROVE  \E d, f \in BOOLEAN :
               /\ s.recv_gap[i] = [s.recv_gap[i] EXCEPT !.delivered = d, !.forwarded = f]
               /\ s.recv_gap[i].delivered => d
  <2>1. s.recv_gap[i] \in Entry
    BY StateParts
  <2> DEFINE e == s.recv_gap[i]
  <2>2. /\ e = [e EXCEPT !.delivered = e.delivered, !.forwarded = e.forwarded]
        /\ e.delivered \in BOOLEAN /\ e.forwarded \in BOOLEAN
    BY <2>1 DEF Entry
  <2> HIDE DEF e
  <2>3. e.delivered => e.delivered
    OBVIOUS
  <2> QED
    BY <2>2, <2>3 DEF e
<1> QED
  BY <1>1 DEF Relabelled

\* Sequence numbers stay in their range.
LEMMA PlusTsn ==
  ASSUME NEW a \in Int, NEW n \in Int
  PROVE  Plus(a, n, TSN_MOD) \in 0 .. TSN_MOD - 1
<1>1. TSN_MOD \in Nat /\ TSN_MOD > 0
  BY RecvSizes
<1> QED
  BY <1>1 DEF Plus

\* SSN arithmetic stays in the range of an SSN.
LEMMA PlusSsn ==
  ASSUME NEW a \in Int, NEW n \in Int
  PROVE  Plus(a, n, SSN_MOD) \in 0 .. SSN_MOD - 1
<1>1. SSN_MOD \in Nat /\ SSN_MOD > 0
  BY RecvSizes
<1> QED
  BY <1>1 DEF Plus

\* The stream table keeps its type.
LEMMA StreamEntry ==
  ASSUME NEW f \in Streams, NEW sid \in Nat, NEW v \in 0 .. SSN_MOD - 1
  PROVE  /\ [f EXCEPT ![sid] = v] \in Streams
         /\ [x \in DOMAIN f \cup {sid} |-> IF x = sid THEN v ELSE f[x]] \in Streams
         /\ \A x \in DOMAIN f : f[x] \in 0 .. SSN_MOD - 1
<1>1. PICK D \in SUBSET Nat : f \in [D -> 0 .. SSN_MOD - 1]
  BY DEF Streams
<1>2. [f EXCEPT ![sid] = v] \in [D -> 0 .. SSN_MOD - 1]
  BY <1>1
<1>3. [x \in DOMAIN f \cup {sid} |-> IF x = sid THEN v ELSE f[x]]
         \in [D \cup {sid} -> 0 .. SSN_MOD - 1]
  BY <1>1
<1> QED
  BY <1>1, <1>2, <1>3 DEF Streams

\* nsctp_stream maps a stream and touches nothing else.
LEMMA StreamOK ==
  ASSUME NEW s \in State, NEW sid \in Nat
  PROVE  LET t == nsctp_stream(s, sid)
         IN /\ t \in State /\ sid \in DOMAIN t.recv_ssn
            /\ t = [s EXCEPT !.recv_ssn = t.recv_ssn]
            /\ t.recv_ssn[sid] \in 0 .. SSN_MOD - 1
<1> DEFINE f == s.recv_ssn
           h == [x \in DOMAIN f \cup {sid} |-> IF x = sid THEN InitSsn ELSE f[x]]
           t == nsctp_stream(s, sid)
<1>0. f \in Streams /\ InitSsn \in 0 .. SSN_MOD - 1
  BY StateParts, RecvSizes
<1>1. CASE sid \in DOMAIN f
  <2>1. t = s /\ s = [s EXCEPT !.recv_ssn = s.recv_ssn]
    BY <1>1 DEF nsctp_stream, StreamKnown, State
  <2>2. f[sid] \in 0 .. SSN_MOD - 1
    BY <1>0, <1>1, StreamEntry
  <2> QED
    BY <1>1, <2>1, <2>2
<1>2. CASE sid \notin DOMAIN f
  <2>1. t = [s EXCEPT !.recv_ssn = h]
    BY <1>2 DEF nsctp_stream, StreamKnown
  <2>2. h \in Streams /\ sid \in DOMAIN h /\ h[sid] = InitSsn
    BY <1>0, StreamEntry
  <2> HIDE DEF h
  <2>3. t \in State /\ t.recv_ssn = h
    BY <2>1, <2>2 DEF State
  <2> HIDE DEF t
  <2>4. t = [s EXCEPT !.recv_ssn = t.recv_ssn]
    BY <2>1, <2>3
  <2> QED
    BY <1>0, <2>2, <2>3, <2>4 DEF t
<1> QED
  BY <1>1, <1>2

\* nsctp_gap_drain.
LEMMA RunType ==
  ASSUME NEW s
  PROVE  ContiguousRun(s) \in 0 .. MAX_RECV_GAP
<1> DEFINE S == {n \in 0..MAX_RECV_GAP : \A d \in 1..n :
             \E i \in Valid(s) : s.recv_gap[i].tsn = Plus(s.cumulative_tsn, d, TSN_MOD)}
<1>1. MAX_RECV_GAP \in Nat
  BY RecvSizes
<1>2. S \in SUBSET (0 .. MAX_RECV_GAP) /\ 0 \in S
  BY <1>1
<1> HIDE DEF S
<1>3. Max(S) \in S
  BY <1>1, <1>2, MaxOf
<1> QED
  BY <1>2, <1>3 DEF ContiguousRun, S

\* nsctp_gap_drain keeps the invariant.
LEMMA DrainOK ==
  ASSUME NEW s \in RxStates
  PROVE  nsctp_gap_drain(s) \in RxStates
<1> DEFINE c == Plus(s.cumulative_tsn, ContiguousRun(s), TSN_MOD)
           t == [s EXCEPT !.cumulative_tsn = c]
<1>0. s \in State
  BY DEF RxStates
<1>1. c \in 0 .. TSN_MOD - 1
  <2>1. s.cumulative_tsn \in Int /\ ContiguousRun(s) \in Int
    BY <1>0, StateParts, RunType
  <2> QED
    BY <2>1, PlusTsn
<1>2. nsctp_gap_drain(s) = nsctp_rx_reclaim(t)
  BY DEF nsctp_gap_drain
<1> HIDE DEF c
<1>3. t \in State /\ t.recv_gap = s.recv_gap /\ t.recv_gap_buf = s.recv_gap_buf
      /\ t.recv_gap_count = s.recv_gap_count
  BY <1>0, <1>1 DEF State
<1> HIDE DEF t
<1>4. t \in RxStates
  BY <1>0, <1>3, SameTable, RelabelOK
<1> QED
  BY <1>2, <1>4, ReclaimOK

-----------------------------------------------------------------------------
(* nsctp_rx_merge.                                                          *)

\* Entries i and j become one, at the front of the pool.
MovedTogether(s, i, j) == nsctp_rx_move(nsctp_rx_move(s, i, 0), j, s.recv_gap[i].len)

JoinedEntry(s, i, j, o) ==
    [s.recv_gap[i] EXCEPT !.off = o,
                          !.len = s.recv_gap[i].len + s.recv_gap[j].len,
                          !.tsn = s.recv_gap[j].tsn,
                          !.E = s.recv_gap[j].E,
                          !.forwarded = s.recv_gap[i].forwarded \/ s.recv_gap[j].forwarded]

\* The bytes of two entries lie side by side after the two moves.
LEMMA MovedTogetherOK ==
  ASSUME NEW s \in State, PoolOK(s), NEW i \in Valid(s), NEW j \in Valid(s), i # j,
         s.recv_gap[i].len > 0
  PROVE  LET m == MovedTogether(s, i, j)
         IN /\ m \in State /\ PoolOK(m) /\ Valid(m) = Valid(s)
            /\ \A k \in Valid(s) : SameEntry(s, m, k)
            /\ \A k \in Slots \ Valid(s) : m.recv_gap[k] = s.recv_gap[k]
            /\ Len(m.recv_gap_buf) = Len(s.recv_gap_buf)
            /\ m.cumulative_tsn = s.cumulative_tsn /\ m.recv_ssn = s.recv_ssn
            /\ m.recv_gap_count = s.recv_gap_count /\ m.sack_needed = s.sack_needed
            /\ m.recv_gap[i].off = 0
            /\ s.recv_gap[j].len > 0 => m.recv_gap[j].off = s.recv_gap[i].len
<1> DEFINE n == s.recv_gap[i].len
           u == nsctp_rx_move(s, i, 0)
           m == MovedTogether(s, i, j)
<1>0. /\ i \in Slots /\ j \in Slots /\ n \in Nat /\ n > 0 /\ 0 \in Nat
      /\ \A k \in Valid(s) : k \in Slots
      /\ \A k \in Slots : s.recv_gap[k].off \in Int /\ s.recv_gap[k].len \in Nat
  BY StateParts
<1>1. \A k \in Valid(s) : s.recv_gap[k].len > 0 => 0 <= s.recv_gap[k].off
  <2>1. \A k \in Valid(s) : Lens(s)[k] > 0 => 0 <= Offs(s)[k]
    BY DEF PoolOK, Tiled, Inside
  <2> QED
    BY <1>0, <2>1 DEF Lens, Offs
<1>2. /\ u \in State /\ PoolOK(u) /\ Valid(u) = Valid(s)
      /\ \A k \in Valid(s) : SameEntry(s, u, k)
      /\ \A k \in Slots \ Valid(s) : u.recv_gap[k] = s.recv_gap[k]
      /\ Len(u.recv_gap_buf) = Len(s.recv_gap_buf)
      /\ u = [s EXCEPT !.recv_gap = u.recv_gap, !.recv_gap_buf = u.recv_gap_buf]
      /\ u.recv_gap[i].off = 0
  <2>1. CanMove(s, i, 0)
    BY <1>0, <1>1 DEF CanMove
  <2>2. MovedTo(s, i, 0, u)
    BY <1>0, <2>1, MoveStep
  <2> HIDE DEF u
  <2> QED
    BY <1>0, <2>2 DEF MovedTo
<1> HIDE DEF u
<1>3. u.cumulative_tsn = s.cumulative_tsn /\ u.recv_ssn = s.recv_ssn
      /\ u.recv_gap_count = s.recv_gap_count /\ u.sack_needed = s.sack_needed
  <2> DEFINE h == u.recv_gap
             b == u.recv_gap_buf
  <2>1. u = [s EXCEPT !.recv_gap = h, !.recv_gap_buf = b]
    BY <1>2
  <2> HIDE DEF h, b
  <2> QED
    BY <2>1 DEF State
<1>4. \A k \in Valid(s) : u.recv_gap[k].len = s.recv_gap[k].len /\ u.recv_gap[k].off \in Int
  BY <1>0, <1>2, SameEntryFields, StateParts
<1>5. ASSUME NEW k \in Valid(s), k # i, u.recv_gap[k].len > 0 PROVE n <= u.recv_gap[k].off
  <2> DEFINE off == Offs(u)
             len == Lens(u)
  <2>1. \A x \in Slots : off[x] = u.recv_gap[x].off /\ len[x] = u.recv_gap[x].len
    BY DEF Offs, Lens
  <2> HIDE DEF off, len
  <2>2. Tiled(off, len, Valid(u), Len(u.recv_gap_buf))
    BY <1>2 DEF PoolOK, off, len
  <2>3. len[i] = n /\ off[i] = 0 /\ len[k] > 0 /\ k \in Slots
    BY <1>0, <1>2, <1>4, <1>5, <2>1
  <2>4. off[i] + len[i] <= off[k] \/ off[k] + len[k] <= off[i]
    BY <1>0, <1>2, <1>5, <2>2, <2>3 DEF Tiled, Apart
  <2>5. 0 <= off[k] /\ off[k] \in Int /\ len[k] \in Nat
    <3>1. k \in Valid(u)
      BY <1>2
    <3>2. off[k] \in Int /\ len[k] \in Nat
      BY <1>0, <1>4, <2>1
    <3> QED
      BY <2>2, <2>3, <3>1, <3>2 DEF Tiled, Inside
  <2> QED
    BY <1>0, <2>1, <2>3, <2>4, <2>5
<1>6. m = nsctp_rx_move(u, j, n)
  BY DEF MovedTogether, u
<1>7. u.recv_gap[j].len > 0 =>
        /\ n <= u.recv_gap[j].off
        /\ \A k \in Valid(u) : u.recv_gap[k].len > 0 =>
             u.recv_gap[k].off + u.recv_gap[k].len <= n \/ n <= u.recv_gap[k].off
  <2>1. u.recv_gap[i].off + u.recv_gap[i].len <= n
    BY <1>0, <1>2, <1>4
  <2> QED
    BY <1>2, <1>5, <2>1
<1> HIDE DEF m, n
<1>8. /\ m \in State /\ PoolOK(m) /\ Valid(m) = Valid(u)
      /\ \A k \in Valid(u) : SameEntry(u, m, k)
      /\ \A k \in Slots \ Valid(u) : m.recv_gap[k] = u.recv_gap[k]
      /\ Len(m.recv_gap_buf) = Len(u.recv_gap_buf)
      /\ m = [u EXCEPT !.recv_gap = m.recv_gap, !.recv_gap_buf = m.recv_gap_buf]
      /\ u.recv_gap[j].len > 0 => m.recv_gap[j].off = n
      /\ \A k \in Valid(u) \ {j} : m.recv_gap[k].off =
           IF u.recv_gap[j].len > 0 /\ n <= u.recv_gap[k].off
              /\ u.recv_gap[k].off < u.recv_gap[j].off
           THEN u.recv_gap[k].off + u.recv_gap[j].len ELSE u.recv_gap[k].off
  <2>1. j \in Valid(u) /\ n \in Nat /\ u \in State /\ PoolOK(u)
    BY <1>0, <1>2 DEF n
  <2>2. CanMove(u, j, n)
    BY <1>7 DEF CanMove
  <2>3. MovedTo(u, j, n, m)
    BY <1>6, <2>1, <2>2, MoveStep
  <2> QED
    BY <2>3 DEF MovedTo
<1>9. m.cumulative_tsn = u.cumulative_tsn /\ m.recv_ssn = u.recv_ssn
      /\ m.recv_gap_count = u.recv_gap_count /\ m.sack_needed = u.sack_needed
  <2> DEFINE h == m.recv_gap
             b == m.recv_gap_buf
  <2>1. m = [u EXCEPT !.recv_gap = h, !.recv_gap_buf = b]
    BY <1>8
  <2> HIDE DEF h, b
  <2> QED
    BY <1>2, <2>1 DEF State
<1>10. m.recv_gap[i].off = 0
  <2>1. i \in Valid(u) \ {j} /\ ~(n <= u.recv_gap[i].off)
    BY <1>0, <1>2
  <2> QED
    BY <1>2, <1>8, <2>1
<1>11. \A k \in Valid(s) : SameEntry(s, m, k)
  <2> SUFFICES ASSUME NEW k \in Valid(s) PROVE SameEntry(s, m, k)
    OBVIOUS
  <2>1. k \in Slots /\ SameEntry(s, u, k) /\ SameEntry(u, m, k)
    BY <1>0, <1>2, <1>8
  <2> QED
    BY <1>2, <2>1, SameEntryTrans
<1> QED
  BY <1>2, <1>3, <1>4, <1>8, <1>9, <1>10, <1>11 DEF m, n

\* The state after two entries were merged.
MergedPair(s, i, j) ==
    [MovedTogether(s, i, j) EXCEPT
       !.recv_gap[i] =
          [MovedTogether(s, i, j).recv_gap[i] EXCEPT
             !.len = s.recv_gap[i].len + s.recv_gap[j].len, !.tsn = s.recv_gap[j].tsn,
             !.E = s.recv_gap[j].E,
             !.forwarded = s.recv_gap[i].forwarded \/ s.recv_gap[j].forwarded],
       !.recv_gap[j] = NoEntry,
       !.recv_gap_count = @ - 1]

\* What a merge does: entry i takes over the bytes of entry j.
MergedInto(s, i, j, t) ==
    /\ Valid(t) = Valid(s) \ {j} /\ Live(t) = Live(s) \ {j}
    /\ \A k \in Valid(s) \ {i, j} : SameEntry(s, t, k)
    /\ t.recv_gap[i] = JoinedEntry(s, i, j, 0)
    /\ \A q \in 1 .. s.recv_gap[i].len :
         t.recv_gap_buf[q] = s.recv_gap_buf[s.recv_gap[i].off + q]
    /\ \A q \in 1 .. s.recv_gap[j].len :
         t.recv_gap_buf[s.recv_gap[i].len + q] = s.recv_gap_buf[s.recv_gap[j].off + q]
    /\ t.cumulative_tsn = s.cumulative_tsn /\ t.recv_ssn = s.recv_ssn

\* The fields of the entry that two merged fragments leave.
LEMMA JoinedType ==
  ASSUME NEW s \in State, NEW i \in Slots, NEW j \in Slots, NEW o \in Int
  PROVE  LET x == JoinedEntry(s, i, j, o)
         IN /\ x \in Entry /\ x.valid = s.recv_gap[i].valid /\ x.off = o
            /\ x.len = s.recv_gap[i].len + s.recv_gap[j].len
            /\ x.delivered = s.recv_gap[i].delivered
            /\ x.tsn = s.recv_gap[j].tsn /\ x.E = s.recv_gap[j].E /\ x.B = s.recv_gap[i].B
            /\ x.msg = s.recv_gap[i].msg
<1> DEFINE d == s.recv_gap[i]
           e == s.recv_gap[j]
<1>1. d \in Entry /\ e \in Entry
  BY StateParts
<1>2. JoinedEntry(s, i, j, o) =
        [d EXCEPT !.off = o, !.len = d.len + e.len, !.tsn = e.tsn, !.E = e.E,
                  !.forwarded = d.forwarded \/ e.forwarded]
  BY DEF JoinedEntry
<1> HIDE DEF d, e
<1>3. d.len + e.len \in Nat /\ (d.forwarded \/ e.forwarded) \in BOOLEAN
  BY <1>1 DEF Entry
<1> QED
  BY <1>1, <1>2, <1>3 DEF Entry, d, e

\* Merging fragment j into fragment i, as nsctp_rx_merge does, keeps the invariant.
LEMMA MergePair ==
  ASSUME NEW s \in RxStates, NEW i \in Live(s), NEW j \in Live(s), i # j,
         ~s.recv_gap[i].E
  PROVE  MergedPair(s, i, j) \in RxStates /\ MergedInto(s, i, j, MergedPair(s, i, j))
<1> DEFINE m == MovedTogether(s, i, j)
           t == MergedPair(s, i, j)
           x == JoinedEntry(s, i, j, 0)
           h == [m.recv_gap EXCEPT ![i] = x, ![j] = NoEntry]
           n == s.recv_gap_count - 1
<1>0. /\ s \in State /\ PoolOK(s) /\ i \in Valid(s) /\ j \in Valid(s)
      /\ i \in Slots /\ j \in Slots /\ s.recv_gap[i].len > 0
      /\ \A k \in Valid(s) : k \in Slots
      /\ \A k \in Slots : s.recv_gap[k] \in Entry /\ s.recv_gap[k].len \in Nat
                          /\ s.recv_gap[k].off \in Int
  BY StateParts DEF RxStates, FragmentsOK, Live, Valid
<1>1. /\ m \in State /\ PoolOK(m) /\ Valid(m) = Valid(s)
      /\ \A k \in Valid(s) : SameEntry(s, m, k)
      /\ \A k \in Slots \ Valid(s) : m.recv_gap[k] = s.recv_gap[k]
      /\ Len(m.recv_gap_buf) = Len(s.recv_gap_buf)
      /\ m.cumulative_tsn = s.cumulative_tsn /\ m.recv_ssn = s.recv_ssn
      /\ m.recv_gap_count = s.recv_gap_count /\ m.sack_needed = s.sack_needed
      /\ m.recv_gap[i].off = 0
      /\ s.recv_gap[j].len > 0 => m.recv_gap[j].off = s.recv_gap[i].len
  BY <1>0, MovedTogetherOK
<1> HIDE DEF m
<1>2. /\ x \in Entry /\ x.valid = s.recv_gap[i].valid /\ x.off = 0
      /\ x.len = s.recv_gap[i].len + s.recv_gap[j].len
      /\ x.delivered = s.recv_gap[i].delivered
  BY <1>0, JoinedType
<1>3. t = [m EXCEPT !.recv_gap = h, !.recv_gap_count = n]
  <2> DEFINE a == s.recv_gap[i].len + s.recv_gap[j].len
             b == s.recv_gap[j].tsn
             c == s.recv_gap[j].E
             d == s.recv_gap[i].forwarded \/ s.recv_gap[j].forwarded
             e == m.recv_gap[i]
             y == [e EXCEPT !.len = a, !.tsn = b, !.E = c, !.forwarded = d]
  <2>1. m.recv_gap \in [Slots -> Entry] /\ e \in Entry /\ s.recv_gap[i] \in Entry
    BY <1>0, <1>1, StateParts
  <2>2. y = x
    <3>1. e = [s.recv_gap[i] EXCEPT !.off = 0]
      <4>1. SameEntry(s, m, i)
        BY <1>0, <1>1
      <4>2. m.recv_gap[i] = [s.recv_gap[i] EXCEPT !.off = m.recv_gap[i].off]
        BY <4>1 DEF SameEntry
      <4> QED
        BY <1>1, <4>2
    <3>2. x = [s.recv_gap[i] EXCEPT !.off = 0, !.len = a, !.tsn = b, !.E = c, !.forwarded = d]
      BY DEF JoinedEntry
    <3> HIDE DEF a, b, c, d, e, x
    <3> QED
      BY <2>1, <3>1, <3>2 DEF Entry
  <2>3. t = [m EXCEPT !.recv_gap[i] = y, !.recv_gap[j] = NoEntry, !.recv_gap_count = @ - 1]
    BY DEF MergedPair, m
  <2> HIDE DEF y, x, t
  <2>4. t = [m EXCEPT !.recv_gap = [m.recv_gap EXCEPT ![i] = x, ![j] = NoEntry],
                      !.recv_gap_count = m.recv_gap_count - 1]
    BY <1>0, <1>1, <2>1, <2>2, <2>3 DEF State
  <2> QED
    BY <1>1, <2>4
<1> HIDE DEF x
<1>4. /\ h \in [Slots -> Entry] /\ h[i] = x /\ h[j] = NoEntry
      /\ \A k \in Slots \ {i, j} : h[k] = m.recv_gap[k]
  <2>1. m.recv_gap \in [Slots -> Entry]
    BY <1>1, StateParts
  <2> QED
    BY <1>0, <1>2, <2>1, NoEntryType
<1>5. n \in Nat /\ n = Cardinality(Valid(s) \ {j})
  <2>1. IsFiniteSet(Valid(s)) /\ s.recv_gap_count = Cardinality(Valid(s))
    BY ValidFinite DEF RxStates
  <2>2. IsFiniteSet(Valid(s) \ {j}) /\ Cardinality(Valid(s) \ {j}) = Cardinality(Valid(s)) - 1
    BY <1>0, <2>1, FS_RemoveElement
  <2>3. Cardinality(Valid(s) \ {j}) \in Nat
    BY <2>2, FS_CardinalityType
  <2> QED
    BY <2>1, <2>2, <2>3
<1> HIDE DEF h, n, t
<1>6. t \in State /\ t.recv_gap = h /\ t.recv_gap_count = n /\ t.recv_gap_buf = m.recv_gap_buf
      /\ t.cumulative_tsn = m.cumulative_tsn /\ t.recv_ssn = m.recv_ssn
  BY <1>1, <1>3, <1>4, <1>5 DEF State
<1>7. \A k \in Valid(s) : /\ m.recv_gap[k].valid = s.recv_gap[k].valid
                          /\ m.recv_gap[k].len = s.recv_gap[k].len
                          /\ m.recv_gap[k].delivered = s.recv_gap[k].delivered
                          /\ m.recv_gap[k].B = s.recv_gap[k].B
                          /\ m.recv_gap[k].E = s.recv_gap[k].E
                          /\ m.recv_gap[k].off \in Int
  BY <1>0, <1>1, SameEntryFields, StateParts
<1>8. Valid(t) = Valid(s) \ {j}
  <2>1. \A k \in Slots : k \in Valid(s) <=> s.recv_gap[k].valid
    BY DEF Valid
  <2>2. \A k \in Slots \ {i, j} : h[k].valid = s.recv_gap[k].valid
    BY <1>1, <1>4, <1>7
  <2>3. h[i].valid = s.recv_gap[i].valid /\ ~h[j].valid
    BY <1>2, <1>4 DEF NoEntry
  <2> QED
    BY <1>0, <1>6, <2>1, <2>2, <2>3 DEF Valid
<1>9. Live(t) = Live(s) \ {j}
  <2>1. \A k \in Valid(t) : t.recv_gap[k].delivered = s.recv_gap[k].delivered
    BY <1>0, <1>2, <1>4, <1>6, <1>7, <1>8
  <2> QED
    BY <1>8, <2>1 DEF Live
<1>10. PoolOK(t)
  <2> DEFINE off == Offs(m)
             len == Lens(m)
             off2 == Offs(t)
             len2 == Lens(t)
             N == Len(m.recv_gap_buf)
             V == Valid(m)
  <2>1. /\ off \in [Slots -> Int] /\ len \in [Slots -> Nat] /\ off2 \in [Slots -> Int]
        /\ len2 \in [Slots -> Nat] /\ N \in Nat /\ Tiled(off, len, V, N)
        /\ V \in SUBSET Slots
    BY <1>1, <1>6, StateParts DEF PoolOK
  <2>2. \A k \in Slots : /\ off[k] = m.recv_gap[k].off /\ len[k] = m.recv_gap[k].len
                         /\ off2[k] = h[k].off /\ len2[k] = h[k].len
    BY <1>1, <1>6, StateParts
  <2> HIDE DEF off, len, off2, len2, N
  <2>3. /\ len[i] > 0 /\ off[i] = 0 /\ (len[j] > 0 => off[j] = off[i] + len[i])
        /\ off2[i] = off[i] /\ len2[i] = len[i] + len[j]
    BY <1>0, <1>1, <1>2, <1>4, <1>7, <2>2
  <2>4. \A k \in V \ {i, j} : off2[k] = off[k] /\ len2[k] = len[k]
    BY <1>4, <2>1, <2>2
  <2>5. i \in V /\ j \in V /\ Valid(t) = V \ {j}
    BY <1>0, <1>1, <1>8
  <2> HIDE DEF V
  <2>6. Tiled(off2, len2, V \ {j}, N)
    <3>1. Joins(off, len, off2, len2, V, i, j)
      BY <2>3, <2>4 DEF Joins
    <3> QED
      BY <2>1, <2>5, <3>1, JoinTiled
  <2> QED
    BY <1>6, <2>5, <2>6 DEF PoolOK, off2, len2, N
<1>11. FragmentsOK(t)
  <2> SUFFICES ASSUME NEW k \in Live(t), ~(t.recv_gap[k].B /\ t.recv_gap[k].E)
               PROVE  t.recv_gap[k].len > 0
    BY DEF FragmentsOK
  <2>1. k \in Live(s) /\ k # j /\ k \in Valid(s) /\ k \in Slots
    BY <1>0, <1>9 DEF Live
  <2>2. CASE k = i
    BY <1>0, <1>2, <1>4, <1>6, <2>2
  <2>3. CASE k # i
    <3>1. t.recv_gap[k] = m.recv_gap[k]
      BY <1>4, <1>6, <2>1, <2>3
    <3> QED
      BY <1>7, <2>1, <3>1 DEF FragmentsOK, RxStates
  <2> QED
    BY <2>2, <2>3
<1>12. t \in RxStates
  BY <1>1, <1>5, <1>6, <1>8, <1>10, <1>11 DEF RxStates
<1>13. \A k \in Valid(s) \ {i, j} : SameEntry(s, t, k)
  <2> SUFFICES ASSUME NEW k \in Valid(s) \ {i, j} PROVE SameEntry(s, t, k)
    OBVIOUS
  <2>1. t.recv_gap[k] = m.recv_gap[k] /\ SameEntry(s, m, k)
    BY <1>0, <1>1, <1>4, <1>6
  <2> QED
    BY <1>6, <2>1 DEF SameEntry
<1>14. \A q \in 1 .. s.recv_gap[i].len :
         t.recv_gap_buf[q] = s.recv_gap_buf[s.recv_gap[i].off + q]
  <2>1. SameEntry(s, m, i)
    BY <1>0, <1>1
  <2>2. \A q \in 1 .. s.recv_gap[i].len :
          m.recv_gap_buf[0 + q] = s.recv_gap_buf[s.recv_gap[i].off + q]
    BY <1>1, <2>1 DEF SameEntry
  <2>3. \A q \in 1 .. s.recv_gap[i].len : 0 + q = q
    BY <1>0
  <2> QED
    BY <1>6, <2>2, <2>3
<1>15. \A q \in 1 .. s.recv_gap[j].len :
         t.recv_gap_buf[s.recv_gap[i].len + q] = s.recv_gap_buf[s.recv_gap[j].off + q]
  <2> SUFFICES ASSUME NEW q \in 1 .. s.recv_gap[j].len
               PROVE  t.recv_gap_buf[s.recv_gap[i].len + q] = s.recv_gap_buf[s.recv_gap[j].off + q]
    OBVIOUS
  <2>1. SameEntry(s, m, j) /\ s.recv_gap[j].len > 0
    BY <1>0, <1>1
  <2>2. m.recv_gap_buf[m.recv_gap[j].off + q] = s.recv_gap_buf[s.recv_gap[j].off + q]
    BY <2>1 DEF SameEntry
  <2> QED
    BY <1>1, <1>6, <2>1, <2>2
<1>16. t.recv_gap[i] = x /\ t.cumulative_tsn = s.cumulative_tsn /\ t.recv_ssn = s.recv_ssn
  BY <1>1, <1>4, <1>6
<1>17. MergedInto(s, i, j, t)
  BY <1>8, <1>9, <1>13, <1>14, <1>15, <1>16 DEF MergedInto, x
<1> QED
  BY <1>12, <1>17 DEF t

\* A pair of entries nsctp_rx_merge may merge.
Mergeable(s, i, j) ==
    /\ i \in Live(s) /\ j \in Live(s)
    /\ TsnDiff(s.recv_gap[j].tsn, s.cumulative_tsn) <= 0
    /\ nsctp_fragments_follow(s.recv_gap[i], s.recv_gap[j])

\* A merge takes such a pair, or changes nothing.
LEMMA MergeChoice ==
  ASSUME NEW s \in State
  PROVE  \/ MergeOnce(s) = s
         \/ \E i, j \in Slots : /\ Mergeable(s, i, j)
                                /\ s.recv_gap[i].len + s.recv_gap[j].len <= MAX_MESSAGE_SIZE
                                /\ MergeOnce(s) = MergedPair(s, i, j)
<1> DEFINE g == s.recv_gap
           pairs == {p \in Live(s) \X Live(s) :
                       /\ TsnDiff(g[p[2]].tsn, s.cumulative_tsn) <= 0
                       /\ nsctp_fragments_follow(g[p[1]], g[p[2]])}
           I == {p[1] : p \in pairs}
           i == Min(I)
           J == {p[2] : p \in {q \in pairs : q[1] = i}}
           j == Min(J)
<1>0. /\ Live(s) \subseteq Slots /\ Slots \subseteq Nat
      /\ \A k \in Slots : g[k].len \in Nat
      /\ MAX_MESSAGE_SIZE \in Nat
  BY StateParts, RecvSizes DEF Slots
<1>1. CASE pairs = {}
  BY <1>1, Zenon DEF MergeOnce
<1>2. CASE pairs # {}
  <2>1. I \subseteq Nat /\ I # {}
    <3>1. \A p \in pairs : p[1] \in Nat
      BY <1>0
    <3>2. PICK p \in pairs : TRUE
      BY <1>2
    <3>3. p[1] \in I
      BY <3>2
    <3> HIDE DEF pairs
    <3> QED
      BY <3>1, <3>3
  <2>2. i \in I
    <3> HIDE DEF I
    <3> QED
      BY <2>1, MinOf
  <2>3. PICK p \in pairs : p[1] = i
    BY <2>2
  <2> HIDE DEF i
  <2>4. J \subseteq Nat /\ J # {}
    <3>1. \A q \in pairs : q[2] \in Nat
      BY <1>0
    <3>2. p[2] \in J
      BY <2>3
    <3> HIDE DEF pairs
    <3> QED
      BY <3>1, <3>2
  <2>5. j \in J
    <3> HIDE DEF J
    <3> QED
      BY <2>4, MinOf
  <2>6. PICK q \in pairs : q[1] = i /\ q[2] = j
    BY <2>5
  <2> HIDE DEF j
  <2>7. Mergeable(s, i, j) /\ i \in Slots /\ j \in Slots
    BY <1>0, <2>6 DEF Mergeable
  <2>8. MergeOnce(s) = IF g[i].len + g[j].len > MAX_MESSAGE_SIZE THEN s ELSE MergedPair(s, i, j)
    BY <1>2, Zenon DEF MergeOnce, MergedPair, MovedTogether, i, j
  <2>9. CASE g[i].len + g[j].len > MAX_MESSAGE_SIZE
    BY <2>8, <2>9
  <2>10. CASE ~(g[i].len + g[j].len > MAX_MESSAGE_SIZE)
    <3>1. g[i].len + g[j].len <= MAX_MESSAGE_SIZE
      BY <1>0, <2>7, <2>10
    <3> QED
      BY <2>7, <2>8, <2>10, <3>1
  <2> QED
    BY <2>9, <2>10
<1> QED
  BY <1>1, <1>2

\* Entries that continue each other are different ones.
LEMMA FollowDistinct ==
  ASSUME NEW a \in Entry, NEW b \in Entry, nsctp_fragments_follow(a, b)
  PROVE  a.tsn # b.tsn
<1>1. a.tsn \in 0 .. TSN_MOD - 1 /\ TSN_MOD \in Nat /\ TSN_MOD > 1
  BY RecvSizes DEF Entry
<1>2. b.tsn = (a.tsn + 1) % TSN_MOD
  BY DEF nsctp_fragments_follow, Plus
<1>3. (a.tsn + 0) % TSN_MOD = a.tsn
  BY <1>1
<1> SUFFICES ASSUME a.tsn = b.tsn PROVE FALSE
  OBVIOUS
<1> DEFINE k == a.tsn
<1>4. k \in Nat /\ 0 \in 0 .. TSN_MOD - 1 /\ 1 \in 0 .. TSN_MOD - 1
  BY <1>1
<1>5. (k + 0) % TSN_MOD = (k + 1) % TSN_MOD
  BY <1>2, <1>3
<1> HIDE DEF k
<1>6. \A x, y \in 0 .. TSN_MOD - 1 : (k + x) % TSN_MOD = (k + y) % TSN_MOD => x = y
  <2>1. TSN_MOD > 0
    BY <1>1
  <2> QED
    BY <1>1, <1>4, <2>1, ModDistinct
<1> QED
  BY <1>4, <1>5, <1>6

\* One pass of nsctp_rx_merge keeps the invariant.
LEMMA MergeOnceOK ==
  ASSUME NEW s \in RxStates
  PROVE  MergeOnce(s) \in RxStates
<1>0. s \in State
  BY DEF RxStates
<1>1. CASE MergeOnce(s) = s
  BY <1>1
<1>2. CASE \E i, j \in Slots : Mergeable(s, i, j) /\ MergeOnce(s) = MergedPair(s, i, j)
  <2>1. PICK i \in Slots, j \in Slots : Mergeable(s, i, j) /\ MergeOnce(s) = MergedPair(s, i, j)
    BY <1>2
  <2>2. s.recv_gap[i] \in Entry /\ s.recv_gap[j] \in Entry
    BY <1>0, StateParts
  <2>3. i \in Live(s) /\ j \in Live(s) /\ nsctp_fragments_follow(s.recv_gap[i], s.recv_gap[j])
    BY <2>1 DEF Mergeable
  <2>4. i # j
    BY <2>2, <2>3, FollowDistinct
  <2>5. ~s.recv_gap[i].E
    BY <2>3 DEF nsctp_fragments_follow
  <2> QED
    BY <2>1, <2>3, <2>4, <2>5, MergePair
<1> QED
  BY <1>0, <1>1, <1>2, MergeChoice

MergeAgain(s, n) == MergeOnce(s)

MergeLoop == INSTANCE FoldFacts WITH Op <- MergeAgain

\* The numbers are well-ordered, as the facts of the instance suppose.
LEMMA MergeWellOrdered == MergeLoop!WellOrdered
BY LeastNat DEF MergeLoop!WellOrdered

\* nsctp_rx_merge.
LEMMA MergeOK ==
  ASSUME NEW s \in RxStates
  PROVE  nsctp_rx_merge(s) \in RxStates
<1> DEFINE N == MAX_RECV_GAP
           f == CHOOSE f : f = [n \in 0 .. N |-> IF n = 0 THEN s ELSE MergeOnce(f[n - 1])]
<1>1. N \in Nat
  BY RecvSizes
<1>2. \A r \in RxStates, k \in 1 .. N : MergeAgain(r, k) \in RxStates
  BY MergeOnceOK DEF MergeAgain
<1> HIDE DEF N
<1>3. /\ \E h : MergeLoop!Iterates(h, s, N)
      /\ \A h : MergeLoop!Iterates(h, s, N) => h[N] \in RxStates
  BY <1>1, <1>2, MergeWellOrdered, MergeLoop!IterationInvariant
<1>4. \A h : MergeLoop!Iterates(h, s, N) <=>
             h = [n \in 0 .. N |-> IF n = 0 THEN s ELSE MergeOnce(h[n - 1])]
  BY DEF MergeLoop!Iterates, MergeAgain
<1>5. f = [n \in 0 .. N |-> IF n = 0 THEN s ELSE MergeOnce(f[n - 1])]
  BY <1>3, <1>4
<1>6. nsctp_rx_merge(s) = f[N]
  BY DEF nsctp_rx_merge, N
<1> HIDE DEF f
<1> QED
  BY <1>3, <1>4, <1>5, <1>6

-----------------------------------------------------------------------------
(* The traffic of the peer.                                                 *)

Lengths(m) == Msgs[m].lens

\* The bytes of message m before its fragment i.
Start(m, i) == Sum(SubSeq(Lengths(m), 1, i - 1))

SumFold == INSTANCE FoldFacts WITH Op <- Add

\* The numbers are well-ordered, as the facts of the instance suppose.
LEMMA SumWellOrdered == SumFold!WellOrdered
BY LeastNat DEF SumFold!WellOrdered

\* Sum is the fold that FoldFacts speaks of, with Add as its operator.
LEMMA SumFoldSame ==
  ASSUME NEW s
  PROVE  SumFold!Fold(0, s) = Sum(s)
BY DEF Sum, FoldLeft, MapThenFoldSet, Max, SumFold!Fold, SumFold!Largest

\* The sums of the first lengths of a sequence.
LEMMA SumFacts ==
  ASSUME NEW lens \in Seq(Nat)
  PROVE  /\ Sum(SubSeq(lens, 1, 0)) = 0
         /\ \A k \in 1 .. Len(lens) :
              Sum(SubSeq(lens, 1, k)) = Sum(SubSeq(lens, 1, k - 1)) + lens[k]
         /\ Sum(SubSeq(lens, 1, Len(lens))) = Sum(lens)
         /\ \A k \in 0 .. Len(lens) :
              Sum(SubSeq(lens, 1, k)) \in Nat /\ Sum(SubSeq(lens, 1, k)) <= Sum(lens)
<1> DEFINE n == Len(lens)
           A(k) == Sum(SubSeq(lens, 1, k))
<1>0. n \in Nat /\ \A k \in 1 .. n : lens[k] \in Nat
  OBVIOUS
<1>1. /\ A(0) = 0
      /\ \A k \in 1 .. n : A(k) = Add(A(k - 1), lens[k])
      /\ A(n) = Sum(lens)
  <2>1. /\ SumFold!Fold(0, SubSeq(lens, 1, 0)) = 0
        /\ \A k \in 1 .. n :
             SumFold!Fold(0, SubSeq(lens, 1, k))
               = Add(SumFold!Fold(0, SubSeq(lens, 1, k - 1)), lens[k])
        /\ SumFold!Fold(0, SubSeq(lens, 1, n)) = SumFold!Fold(0, lens)
    BY SumWellOrdered, SumFold!FoldPrefix
  <2> QED
    BY <2>1, SumFoldSame
<1>2. \A k \in 1 .. n : A(k) = A(k - 1) + lens[k]
  BY <1>1 DEF Add
<1> HIDE DEF A, n
<1>3. \A k \in 0 .. n : A(k) \in Nat
  <2> DEFINE Q == {k \in Nat : k <= n => A(k) \in Nat}
  <2>1. 0 \in Q
    BY <1>1
  <2>2. ASSUME NEW k \in Nat, k \in Q PROVE k + 1 \in Q
    <3> SUFFICES ASSUME k + 1 <= n PROVE A(k + 1) \in Nat
      OBVIOUS
    <3>1. k + 1 \in 1 .. n /\ (k + 1) - 1 = k /\ A(k) \in Nat
      BY <1>0, <2>2
    <3>2. A(k + 1) = A(k) + lens[k + 1] /\ lens[k + 1] \in Nat
      BY <1>0, <1>2, <3>1
    <3> QED
      BY <3>1, <3>2
  <2>3. Nat \subseteq Q
    <3> HIDE DEF Q
    <3> QED
      BY <2>1, <2>2, SetInduction
  <2>4. \A k \in 0 .. n : k \in Nat /\ k <= n
    BY <1>0
  <2> QED
    BY <2>3, <2>4
<1>4. \A k \in 0 .. n : A(k) <= A(n)
  <2> DEFINE Q == {d \in Nat : d <= n => A(n - d) <= A(n)}
  <2>1. 0 \in Q
    <3>1. n - 0 = n /\ A(n) \in Nat
      BY <1>0, <1>3
    <3> QED
      BY <3>1
  <2>2. ASSUME NEW d \in Nat, d \in Q PROVE d + 1 \in Q
    <3> SUFFICES ASSUME d + 1 <= n PROVE A(n - (d + 1)) <= A(n)
      OBVIOUS
    <3>1. /\ n - d \in 1 .. n /\ n - d \in 0 .. n /\ (n - d) - 1 = n - (d + 1)
          /\ n - (d + 1) \in 0 .. n /\ n \in 0 .. n
      BY <1>0
    <3>2. A(n - d) = A(n - (d + 1)) + lens[n - d] /\ lens[n - d] \in Nat
      BY <1>0, <1>2, <3>1
    <3>3. A(n - d) <= A(n)
      BY <1>0, <2>2
    <3>4. A(n - d) \in Nat /\ A(n) \in Nat /\ A(n - (d + 1)) \in Nat
      BY <1>3, <3>1
    <3> QED
      BY <3>2, <3>3, <3>4
  <2>3. Nat \subseteq Q
    <3> HIDE DEF Q
    <3> QED
      BY <2>1, <2>2, SetInduction
  <2>4. ASSUME NEW k \in 0 .. n PROVE A(k) <= A(n)
    <3>1. n - k \in Nat /\ n - k <= n /\ n - (n - k) = k
      BY <1>0
    <3> QED
      BY <2>3, <3>1
  <2> QED
    BY <2>4
<1> QED
  BY <1>1, <1>2, <1>3, <1>4 DEF A, n

\* What the peer's messages look like.
LEMMA MessageFacts ==
  ASSUME NEW m \in Messages
  PROVE  /\ m \in Nat /\ Msgs[m].sid \in Nat /\ Msgs[m].unordered \in BOOLEAN
         /\ Lengths(m) \in Seq(Nat) /\ Len(Lengths(m)) \in Nat /\ Len(Lengths(m)) >= 1
         /\ Len(Lengths(m)) > 1 => \A i \in 1 .. Len(Lengths(m)) : Lengths(m)[i] > 0
         /\ Sum(Lengths(m)) <= MAX_MESSAGE_SIZE
<1> DEFINE M == [sid : Nat, unordered : BOOLEAN, lens : Seq(Nat)]
<1>1. Msgs \in Seq(M)
  BY PeerConforms
<1>2. m \in DOMAIN Msgs /\ m \in Nat /\ Msgs[m] \in M
  <2> HIDE DEF M
  <2> QED
    BY <1>1 DEF Messages
<1>3. /\ Msgs[m].lens # <<>>
      /\ Len(Msgs[m].lens) > 1 => \A i \in DOMAIN Msgs[m].lens : Msgs[m].lens[i] > 0
      /\ Sum(Msgs[m].lens) <= MAX_MESSAGE_SIZE
  BY <1>2, PeerConforms
<1>4. Lengths(m) \in Seq(Nat) /\ Msgs[m].sid \in Nat /\ Msgs[m].unordered \in BOOLEAN
  BY <1>2 DEF Lengths
<1>5. Lengths(m) # <<>>
  BY <1>3 DEF Lengths
<1>6. Len(Lengths(m)) \in Nat /\ Len(Lengths(m)) >= 1 /\ DOMAIN Lengths(m) = 1 .. Len(Lengths(m))
  BY <1>4, <1>5
<1> QED
  BY <1>2, <1>3, <1>4, <1>6 DEF Lengths

\* The sequence number of a message fits its width.
LEMMA SsnType ==
  ASSUME NEW m \in Messages
  PROVE  Ssn(m) \in 0 .. SSN_MOD - 1
<1> DEFINE S == {n \in 1..(m - 1) : Msgs[n].sid = Msgs[m].sid /\ ~Msgs[n].unordered}
<1>1. m \in Nat
  BY MessageFacts
<1>2. IsFiniteSet(1 .. (m - 1))
  <2>1. 1 \in Int /\ m - 1 \in Int
    BY <1>1
  <2> QED
    BY <2>1, FS_Interval
<1>3. S \in SUBSET (1 .. (m - 1))
  OBVIOUS
<1>4. Cardinality(S) \in Nat
  BY <1>2, <1>3, FS_Subset, FS_CardinalityType
<1>5. InitSsn \in Int
  BY RecvSizes
<1>6. Ssn(m) = Plus(InitSsn, Cardinality(S), SSN_MOD)
  BY DEF Ssn
<1> HIDE DEF S
<1> QED
  BY <1>4, <1>5, <1>6, PlusSsn

Chunk == {c \in [msg : Nat, sid : Nat, ssn : Nat, B : BOOLEAN, E : BOOLEAN, U : BOOLEAN,
                 payload : Seq(Byte)] :
            ~(c.B /\ c.E) => Len(c.payload) > 0}

\* Fragment i of message m.
LEMMA FragmentFacts ==
  ASSUME NEW m \in Messages, NEW i \in 1 .. Len(Lengths(m))
  PROVE  LET f == Fragments(m)[i]
         IN /\ f \in Chunk /\ f.msg = m /\ f.sid = Msgs[m].sid
            /\ f.B = (i = 1) /\ f.E = (i = Len(Lengths(m)))
            /\ Len(f.payload) = Lengths(m)[i]
            /\ \A p \in 1 .. Lengths(m)[i] : f.payload[p] = <<m, Start(m, i) + p>>
<1> DEFINE lens == Lengths(m)
           a == Start(m, i)
           b == Bytes(m)
           y == SubSeq(b, a + 1, a + lens[i])
           v == IF Msgs[m].unordered THEN 0 ELSE Ssn(m)
           f == [msg |-> m, sid |-> Msgs[m].sid, ssn |-> v,
                 B |-> i = 1, E |-> i = Len(lens), U |-> Msgs[m].unordered, payload |-> y]
<1>0. /\ m \in Nat /\ Msgs[m].sid \in Nat /\ Msgs[m].unordered \in BOOLEAN
      /\ lens \in Seq(Nat) /\ Len(lens) \in Nat /\ i \in Nat
      /\ Len(lens) > 1 => lens[i] > 0
  BY MessageFacts
<1>1. Fragments(m)[i] = f
  BY DEF Fragments, Start, Lengths
<1>2. /\ a \in Nat /\ lens[i] \in Nat /\ a + lens[i] <= Sum(lens) /\ Sum(lens) \in Nat
  <2>1. i - 1 \in 0 .. Len(lens) /\ i \in 0 .. Len(lens) /\ Len(lens) \in 0 .. Len(lens)
    BY <1>0
  <2>2. /\ Sum(SubSeq(lens, 1, i)) = Sum(SubSeq(lens, 1, i - 1)) + lens[i]
        /\ Sum(SubSeq(lens, 1, Len(lens))) = Sum(lens)
        /\ \A k \in 0 .. Len(lens) :
             Sum(SubSeq(lens, 1, k)) \in Nat /\ Sum(SubSeq(lens, 1, k)) <= Sum(lens)
    BY <1>0, SumFacts
  <2>3. a = Sum(SubSeq(lens, 1, i - 1))
    BY DEF Start
  <2>4. lens[i] \in Nat
    BY <1>0
  <2> QED
    BY <2>1, <2>2, <2>3, <2>4
<1>3. \A x \in 1 .. Sum(lens) : b[x] = <<m, x>> /\ b[x] \in Byte
  <2>1. b = [x \in 1 .. Sum(lens) |-> <<m, x>>]
    BY DEF Bytes, Lengths
  <2> HIDE DEF b, lens
  <2>2. \A x \in 1 .. Sum(lens) : b[x] = <<m, x>> /\ x \in Nat
    BY <1>2, <2>1
  <2>3. ASSUME NEW x \in Nat PROVE <<m, x>> \in Byte
    BY <1>0 DEF Byte
  <2> QED
    BY <2>2, <2>3, Zenon
<1> HIDE DEF a, b, lens
<1>4. /\ y \in Seq(Byte) /\ Len(y) = lens[i]
      /\ \A p \in 1 .. lens[i] : y[p] = <<m, a + p>>
  <2> DEFINE lo == a + 1
             hi == a + lens[i]
  <2>1. /\ lo \in Int /\ hi \in Int /\ hi - lo + 1 = lens[i] /\ (lens[i] > 0 <=> lo <= hi)
        /\ \A x \in lo .. hi : x \in 1 .. Sum(lens)
        /\ \A p \in 1 .. lens[i] : lo + p - 1 = a + p /\ a + p \in 1 .. Sum(lens)
    <3> DEFINE n == lens[i]
               N == Sum(lens)
    <3>1. a \in Nat /\ n \in Nat /\ a + n <= N /\ N \in Nat
      BY <1>2
    <3> HIDE DEF n, N
    <3>2. a + 1 \in Int /\ a + n \in Int /\ (a + n) - (a + 1) + 1 = n /\ (n > 0 <=> a + 1 <= a + n)
      BY <3>1
    <3>3. ASSUME NEW x \in a + 1 .. a + n PROVE x \in 1 .. N
      BY <3>1
    <3>4. ASSUME NEW p \in 1 .. n PROVE a + 1 + p - 1 = a + p /\ a + p \in 1 .. N
      BY <3>1
    <3> QED
      BY <3>2, <3>3, <3>4 DEF n, N
  <2> HIDE DEF lo, hi
  <2>2. \A x \in lo .. hi : b[x] \in Byte
    BY <1>3, <2>1
  <2>3. /\ SubSeq(b, lo, hi) \in Seq(Byte)
        /\ Len(SubSeq(b, lo, hi)) = IF lo <= hi THEN hi - lo + 1 ELSE 0
        /\ \A p \in 1 .. hi - lo + 1 : SubSeq(b, lo, hi)[p] = b[lo + p - 1]
    BY <2>1, <2>2, SubSeqProperties
  <2>4. Len(SubSeq(b, lo, hi)) = lens[i]
    BY <1>2, <2>1, <2>3
  <2>5. \A p \in 1 .. lens[i] : SubSeq(b, lo, hi)[p] = <<m, a + p>>
    BY <1>3, <2>1, <2>3
  <2> QED
    BY <2>3, <2>4, <2>5 DEF lo, hi
<1> HIDE DEF y
<1>5. v \in Nat
  <2>1. Ssn(m) \in Nat
    BY SsnType, RecvSizes
  <2> QED
    BY <2>1
<1> HIDE DEF v
<1>6. f \in Chunk
  <2>1. ~((i = 1) /\ (i = Len(lens))) => Len(lens) > 1
    BY <1>0 DEF lens
  <2>2. ~((i = 1) /\ (i = Len(lens))) => Len(y) > 0
    BY <1>0, <1>4, <2>1
  <2>3. (i = 1) \in BOOLEAN /\ (i = Len(lens)) \in BOOLEAN
    OBVIOUS
  <2> QED
    BY <1>0, <1>4, <1>5, <2>2, <2>3 DEF Chunk
<1>7. f.msg = m /\ f.sid = Msgs[m].sid /\ f.B = (i = 1) /\ f.E = (i = Len(lens)) /\ f.payload = y
  OBVIOUS
<1> HIDE DEF f
<1> QED
  BY <1>1, <1>4, <1>6, <1>7 DEF lens, a

\* The fragments of the first n messages lie one after the other in s, those of
\* message m after position b[m].
Layout(b, n, s) ==
    /\ b[1] = 0 /\ b[n + 1] = Len(s)
    /\ \A m \in 1 .. n : /\ b[m] \in Nat /\ b[m + 1] = b[m] + Len(Lengths(m))
                         /\ b[m + 1] <= Len(s)
                         /\ \A i \in 1 .. Len(Lengths(m)) : s[b[m] + i] = Fragments(m)[i]
    /\ \A x \in 1 .. Len(s) : \E m \in 1 .. n : \E i \in 1 .. Len(Lengths(m)) : x = b[m] + i

\* The chunks of one more message extend the layout of the chunks.
LEMMA LayoutStep ==
  ASSUME NEW k \in Messages, NEW r \in Seq(Chunk), NEW b, Layout(b, k - 1, r)
  PROVE  /\ AppendFragments(r, k) \in Seq(Chunk)
         /\ \E c : Layout(c, k, AppendFragments(r, k))
<1> DEFINE L == Len(Lengths(k))
           f == Fragments(k)
           s == r \o f
           N == Len(r)
           c == [x \in 1 .. k + 1 |-> IF x <= k THEN b[x] ELSE b[k] + L]
<1>0. k \in Nat /\ k >= 1 /\ L \in Nat /\ L >= 1 /\ N \in Nat /\ \A m \in 1 .. k : m \in Messages
  <2>1. Len(Msgs) \in Nat
    BY PeerConforms
  <2> QED
    BY <2>1, MessageFacts DEF Messages
<1>1. f \in Seq(Chunk) /\ Len(f) = L
  <2>1. \A i \in 1 .. L : f[i] \in Chunk
    BY FragmentFacts
  <2>2. f = [i \in 1 .. L |-> f[i]]
    BY DEF Fragments, Lengths
  <2> HIDE DEF f, L
  <2> QED
    BY <1>0, <2>1, <2>2
<1> HIDE DEF f, L
<1>2. /\ s \in Seq(Chunk) /\ Len(s) = N + L
      /\ \A p \in 1 .. N : s[p] = r[p]
      /\ \A p \in 1 .. L : s[N + p] = f[p]
  <2>1. Len(f) \in Nat
    BY <1>0, <1>1
  <2> QED
    BY <1>0, <1>1, <2>1
<1> HIDE DEF s, N
<1>3. b[1] = 0 /\ b[k] = N /\ (k - 1) + 1 = k
  BY <1>0 DEF Layout, N
<1>4. c[1] = 0 /\ c[k] = N /\ c[k + 1] = N + L /\ \A x \in 1 .. k : c[x] = b[x]
  BY <1>0, <1>3
<1> HIDE DEF c
<1>5. ASSUME NEW m \in 1 .. k
      PROVE  /\ c[m] \in Nat /\ c[m + 1] = c[m] + Len(Lengths(m)) /\ c[m + 1] <= Len(s)
             /\ \A i \in 1 .. Len(Lengths(m)) : s[c[m] + i] = Fragments(m)[i]
  <2>1. CASE m = k
    <3>1. /\ c[m] = N /\ c[m + 1] = N + L /\ N + L <= Len(s) /\ N \in Nat
          /\ \A i \in 1 .. L : s[N + i] = f[i]
      BY <1>0, <1>2, <1>4, <2>1
    <3> QED
      BY <2>1, <3>1 DEF L, f
  <2>2. CASE m # k
    <3>1. m \in 1 .. k - 1 /\ m + 1 \in 1 .. k
      BY <1>0, <2>2
    <3>2. /\ b[m] \in Nat /\ b[m + 1] = b[m] + Len(Lengths(m)) /\ b[m + 1] <= N
          /\ \A i \in 1 .. Len(Lengths(m)) : r[b[m] + i] = Fragments(m)[i]
      BY <3>1 DEF Layout, N
    <3>3. Len(Lengths(m)) \in Nat
      BY <1>0, MessageFacts
    <3>4. \A i \in 1 .. Len(Lengths(m)) : b[m] + i \in 1 .. N
      BY <1>0, <3>2, <3>3
    <3>5. \A i \in 1 .. Len(Lengths(m)) : s[b[m] + i] = Fragments(m)[i]
      BY <1>2, <3>2, <3>4
    <3>6. b[m + 1] <= N + L
      BY <1>0, <3>2, <3>3
    <3> QED
      BY <1>2, <1>4, <3>1, <3>2, <3>5, <3>6
  <2> QED
    BY <2>1, <2>2
<1>6. ASSUME NEW x \in 1 .. Len(s)
      PROVE  \E m \in 1 .. k : \E i \in 1 .. Len(Lengths(m)) : x = c[m] + i
  <2>1. CASE x <= N
    <3>1. x \in 1 .. Len(r)
      BY <1>0, <1>2, <2>1 DEF N
    <3>2. PICK m \in 1 .. k - 1 : \E i \in 1 .. Len(Lengths(m)) : x = b[m] + i
      BY <3>1 DEF Layout
    <3>3. m \in 1 .. k
      BY <1>0
    <3> QED
      BY <1>4, <3>2, <3>3
  <2>2. CASE x > N
    <3>1. x - N \in 1 .. L /\ x = N + (x - N) /\ k \in 1 .. k
      BY <1>0, <1>2, <2>2
    <3> QED
      BY <1>4, <3>1 DEF L
  <2> QED
    BY <1>0, <1>2, <2>1, <2>2
<1>7. Layout(c, k, s)
  BY <1>2, <1>4, <1>5, <1>6 DEF Layout
<1>8. s = AppendFragments(r, k)
  BY DEF s, f, AppendFragments
<1> QED
  BY <1>2, <1>7, <1>8

ChunkFold == INSTANCE FoldFacts WITH Op <- AppendFragments

\* The numbers are well-ordered, as the facts of the instance suppose.
LEMMA ChunkWellOrdered == ChunkFold!WellOrdered
BY LeastNat DEF ChunkFold!WellOrdered

\* The chunks of the peer are the fragments of its messages, one after the other.
LEMMA ChunkLayout == Chunks \in Seq(Chunk) /\ \E b : Layout(b, Len(Msgs), Chunks)
<1> DEFINE n == Len(Msgs)
           seq == [m \in Messages |-> m]
           P == [k \in 0 .. n |-> {s \in Seq(Chunk) : \E b : Layout(b, k, s)}]
<1>0. n \in Nat /\ Messages = 1 .. n
  BY PeerConforms DEF Messages
<1> HIDE DEF n
<1>1. seq \in Seq(Messages) /\ Len(seq) = n /\ \A k \in 1 .. n : seq[k] = k
  BY <1>0
<1>2. <<>> \in P[0]
  <2> DEFINE b == [x \in {1} |-> 0]
  <2>1. Layout(b, 0, <<>>)
    BY DEF Layout
  <2>2. <<>> \in Seq(Chunk)
    OBVIOUS
  <2> HIDE DEF b
  <2> QED
    BY <1>0, <2>1, <2>2
<1>3. ASSUME NEW k \in 1 .. n, NEW r \in P[k - 1] PROVE AppendFragments(r, k) \in P[k]
  <2>1. k - 1 \in 0 .. n /\ k \in 0 .. n /\ k \in Messages
    BY <1>0
  <2>2. r \in Seq(Chunk) /\ \E b : Layout(b, k - 1, r)
    BY <2>1
  <2>3. PICK b : Layout(b, k - 1, r)
    BY <2>2
  <2>4. AppendFragments(r, k) \in Seq(Chunk) /\ \E c : Layout(c, k, AppendFragments(r, k))
    BY <2>1, <2>2, <2>3, LayoutStep
  <2> QED
    BY <2>1, <2>4
<1> HIDE DEF P, seq
<1>4. \A k \in 1 .. Len(seq) : \A r \in P[k - 1] : AppendFragments(r, seq[k]) \in P[k]
  BY <1>1, <1>3
<1>5. ChunkFold!Fold(<<>>, seq) \in P[Len(seq)]
  BY <1>1, <1>2, <1>4, ChunkWellOrdered, ChunkFold!FoldInduction
<1>6. ChunkFold!Fold(<<>>, seq) = FoldLeft(AppendFragments, <<>>, seq)
  BY DEF FoldLeft, MapThenFoldSet, Max,
         ChunkFold!Fold, ChunkFold!Largest
<1>7. Chunks \in P[n]
  BY <1>1, <1>5, <1>6 DEF Chunks, seq
<1> QED
  BY <1>0, <1>7 DEF P, n

-----------------------------------------------------------------------------
(* nsctp_handle_data_chunk.                                                 *)

StoredEntry(s, c, tsn) ==
    [NoEntry EXCEPT !.valid = TRUE, !.tsn = tsn, !.msg = c.msg, !.sid = c.sid,
                    !.ssn = c.ssn, !.B = c.B, !.E = c.E, !.U = c.U,
                    !.off = Len(s.recv_gap_buf), !.len = Len(c.payload)]

\* What storing a chunk does: a free slot gets it, its bytes at the end of the pool.
StoredIn(s, c, tsn, slot, t) ==
    /\ slot \in Slots \ Valid(s)
    /\ t.recv_gap = [s.recv_gap EXCEPT ![slot] = StoredEntry(s, c, tsn)]
    /\ t.recv_gap_buf = s.recv_gap_buf \o c.payload
    /\ t.cumulative_tsn = s.cumulative_tsn

\* Storing a chunk for which there is room keeps the invariant.
LEMMA StoreOK ==
  ASSUME NEW s \in RxStates, NEW c \in Chunk, NEW tsn \in 0 .. TSN_MOD - 1,
         Valid(s) # Slots,
         Len(s.recv_gap_buf) + Len(c.payload) <= RECV_GAP_BUF_SIZE
  PROVE  /\ Store(s, c, tsn) \in RxStates
         /\ \E slot \in Slots : StoredIn(s, c, tsn, slot, Store(s, c, tsn))
<1> DEFINE F == Slots \ Valid(s)
           slot == Max(F)
           e == StoredEntry(s, c, tsn)
           u == nsctp_stream(s, c.sid)
           b == s.recv_gap_buf \o c.payload
           h == [s.recv_gap EXCEPT ![slot] = e]
           n == s.recv_gap_count + 1
           t == Store(s, c, tsn)
<1>0. /\ s \in State /\ s.recv_gap \in [Slots -> Entry] /\ s.recv_gap_buf \in Seq(Byte)
      /\ Len(s.recv_gap_buf) \in Nat /\ Valid(s) \in SUBSET Slots /\ PoolOK(s)
      /\ s.recv_gap_count = Cardinality(Valid(s)) /\ FragmentsOK(s)
  BY StateParts DEF RxStates
<1>1. /\ c.payload \in Seq(Byte) /\ Len(c.payload) \in Nat /\ c.sid \in Nat
      /\ ~(c.B /\ c.E) => Len(c.payload) > 0
  BY DEF Chunk
<1>2. slot \in Slots /\ slot \notin Valid(s)
  <2>0. F # {} /\ F \in SUBSET Slots
    BY <1>0
  <2>1. F \in SUBSET (0 .. (MAX_RECV_GAP - 1)) /\ MAX_RECV_GAP - 1 \in Nat
    BY <2>0, RecvSizes DEF Slots
  <2> HIDE DEF F
  <2>2. Max(F) \in F
    BY <2>0, <2>1, MaxOf
  <2> QED
    BY <2>2 DEF F
<1>3. /\ e \in Entry /\ e.valid = TRUE /\ e.off = Len(s.recv_gap_buf) /\ e.len = Len(c.payload)
      /\ e.B = c.B /\ e.E = c.E
  <2> DEFINE o == Len(s.recv_gap_buf)
             l == Len(c.payload)
  <2>1. e = [NoEntry EXCEPT !.valid = TRUE, !.tsn = tsn, !.msg = c.msg, !.sid = c.sid,
                    !.ssn = c.ssn, !.B = c.B, !.E = c.E, !.U = c.U, !.off = o, !.len = l]
    BY DEF StoredEntry
  <2>2. o \in Int /\ l \in Nat
    BY <1>0, <1>1
  <2> HIDE DEF o, l
  <2>3. /\ e \in Entry /\ e.valid = TRUE /\ e.off = o /\ e.len = l /\ e.B = c.B /\ e.E = c.E
    <3>1. /\ tsn \in 0 .. TSN_MOD - 1 /\ c.msg \in Nat /\ c.sid \in Nat /\ c.ssn \in Nat
          /\ c.B \in BOOLEAN /\ c.E \in BOOLEAN /\ c.U \in BOOLEAN
      BY DEF Chunk
    <3> QED
      BY <2>1, <2>2, <3>1, NoEntryType DEF Entry
  <2> QED
    BY <2>3 DEF o, l
<1>4. /\ u \in State /\ u = [s EXCEPT !.recv_ssn = u.recv_ssn]
  BY <1>0, <1>1, StreamOK
<1>5. t = [u EXCEPT !.recv_gap_buf = @ \o c.payload, !.recv_gap[slot] = e, !.recv_gap_count = @ + 1]
  BY DEF Store, StoredEntry
<1> HIDE DEF u, slot, e
<1>6. /\ u.recv_gap = s.recv_gap /\ u.recv_gap_buf = s.recv_gap_buf
      /\ u.recv_gap_count = s.recv_gap_count /\ u.cumulative_tsn = s.cumulative_tsn
  <2> DEFINE f == u.recv_ssn
  <2>1. u = [s EXCEPT !.recv_ssn = f]
    BY <1>4
  <2> HIDE DEF f
  <2> QED
    BY <1>0, <2>1 DEF State
<1>7. t = [u EXCEPT !.recv_gap_buf = b, !.recv_gap = h, !.recv_gap_count = n]
  BY <1>4, <1>5, <1>6 DEF State
<1>8. /\ b \in Seq(Byte) /\ Len(b) = Len(s.recv_gap_buf) + Len(c.payload)
      /\ \A p \in 1 .. Len(s.recv_gap_buf) : b[p] = s.recv_gap_buf[p]
  <2> DEFINE x == s.recv_gap_buf
             y == c.payload
  <2>1. x \in Seq(Byte) /\ y \in Seq(Byte) /\ Len(x) \in Nat /\ Len(y) \in Nat
    BY <1>0, <1>1
  <2> HIDE DEF x, y
  <2>2. x \o y \in Seq(Byte) /\ Len(x \o y) = Len(x) + Len(y)
        /\ \A p \in 1 .. Len(x) : (x \o y)[p] = x[p]
    BY <2>1
  <2> QED
    BY <2>2 DEF x, y
<1>9. h \in [Slots -> Entry] /\ h[slot] = e /\ \A k \in Slots \ {slot} : h[k] = s.recv_gap[k]
  BY <1>0, <1>2, <1>3
<1>10. n \in Nat /\ n = Cardinality(Valid(s) \cup {slot})
  <2>1. IsFiniteSet(Valid(s)) /\ Cardinality(Valid(s)) \in Nat
    BY ValidFinite, FS_CardinalityType
  <2>2. Cardinality(Valid(s) \cup {slot}) = Cardinality(Valid(s)) + 1
    BY <1>2, <2>1, FS_AddElement
  <2> QED
    BY <1>0, <2>1, <2>2
<1> HIDE DEF b, h, n, t
<1>11. /\ t \in State /\ t.recv_gap = h /\ t.recv_gap_buf = b /\ t.recv_gap_count = n
       /\ t.cumulative_tsn = s.cumulative_tsn
  BY <1>4, <1>6, <1>7, <1>8, <1>9, <1>10 DEF State
<1>12. Valid(t) = Valid(s) \cup {slot}
  BY <1>2, <1>3, <1>9, <1>11 DEF Valid
<1>13. PoolOK(t)
  <2> DEFINE off == Offs(s)
             len == Lens(s)
             off2 == Offs(t)
             len2 == Lens(t)
             N == Len(s.recv_gap_buf)
             l == Len(c.payload)
             V == Valid(s)
  <2>1. /\ off \in [Slots -> Int] /\ len \in [Slots -> Nat] /\ off2 \in [Slots -> Int]
        /\ len2 \in [Slots -> Nat] /\ N \in Nat /\ Tiled(off, len, V, N)
        /\ V \in SUBSET Slots /\ l \in Nat
    BY <1>0, <1>1, <1>11, StateParts DEF PoolOK
  <2>2. \A k \in Slots : /\ off[k] = s.recv_gap[k].off /\ len[k] = s.recv_gap[k].len
                         /\ off2[k] = h[k].off /\ len2[k] = h[k].len
    BY <1>0, <1>11, StateParts
  <2>3. slot \in Slots \ V /\ Valid(t) = V \cup {slot}
    BY <1>2, <1>12
  <2> HIDE DEF off, len, off2, len2
  <2>4. off2[slot] = N /\ len2[slot] = l
    BY <1>2, <1>3, <1>9, <2>2
  <2>5. \A k \in V : off2[k] = off[k] /\ len2[k] = len[k]
    <3>1. \A k \in V : k \in Slots \ {slot} /\ h[k] = s.recv_gap[k]
      BY <1>0, <1>2, <1>9
    <3> QED
      BY <2>2, <3>1
  <2>6. Len(t.recv_gap_buf) = N + l
    BY <1>8, <1>11
  <2> HIDE DEF N, l, V
  <2>7. Tiled(off2, len2, V \cup {slot}, N + l)
    <3>1. Appends(off, len, off2, len2, V, N, slot, l)
      BY <2>3, <2>4, <2>5 DEF Appends
    <3> QED
      BY <2>1, <2>3, <3>1, AppendTiled
  <2> QED
    BY <2>3, <2>6, <2>7 DEF PoolOK, off2, len2
<1>14. FragmentsOK(t)
  <2> SUFFICES ASSUME NEW k \in Live(t), ~(t.recv_gap[k].B /\ t.recv_gap[k].E)
               PROVE  t.recv_gap[k].len > 0
    BY DEF FragmentsOK
  <2>1. k \in Valid(s) \cup {slot} /\ ~h[k].delivered
    BY <1>11, <1>12 DEF Live
  <2>2. CASE k = slot
    BY <1>1, <1>3, <1>9, <1>11, <2>2
  <2>3. CASE k # slot
    <3>1. h[k] = s.recv_gap[k] /\ k \in Valid(s)
      BY <1>0, <1>9, <2>1, <2>3
    <3> QED
      BY <1>0, <1>11, <2>1, <3>1 DEF FragmentsOK, Live
  <2> QED
    BY <2>2, <2>3
<1>15. t \in RxStates
  BY <1>8, <1>10, <1>11, <1>12, <1>13, <1>14 DEF RxStates
<1>16. StoredIn(s, c, tsn, slot, t)
  BY <1>2, <1>11 DEF StoredIn, h, b, e
<1> QED
  BY <1>2, <1>15, <1>16 DEF t

\* A chunk that is not refused finds a slot and room for its bytes.
LEMMA RoomFor ==
  ASSUME NEW s \in RxStates, NEW c \in Chunk, NEW tsn, ~NoRoom(s, c, tsn)
  PROVE  Valid(s) # Slots /\ Len(s.recv_gap_buf) + Len(c.payload) <= RECV_GAP_BUF_SIZE
<1> DEFINE reserve == IF IsGap(s, tsn) THEN RESERVE ELSE 0
           N == Len(s.recv_gap_buf)
           l == Len(c.payload)
<1>1. Valid(s) # Slots /\ ~(l > (RECV_GAP_BUF_SIZE - N) - reserve)
  BY DEF NoRoom
<1>2. reserve \in Nat /\ RECV_GAP_BUF_SIZE \in Nat
  BY RecvSizes
<1>3. N \in Nat /\ l \in Nat
  BY StateParts DEF RxStates, Chunk
<1> HIDE DEF reserve, N, l
<1>4. N + l <= RECV_GAP_BUF_SIZE
  BY <1>1, <1>2, <1>3
<1> QED
  BY <1>1, <1>4 DEF N, l

\* nsctp_handle_data_chunk keeps the invariant.
LEMMA DataChunkOK ==
  ASSUME NEW s \in RxStates, NEW c \in Chunk, NEW tsn \in 0 .. TSN_MOD - 1
  PROVE  nsctp_handle_data_chunk(s, c, tsn) \in RxStates
<1> DEFINE s1 == [s EXCEPT !.sack_needed = TRUE]
           s2 == nsctp_rx_reclaim(s1)
           s3 == Store(s2, c, tsn)
<1>0. s \in State
  BY DEF RxStates
<1>1. s1 \in RxStates
  <2>1. s1 \in State /\ s1.recv_gap = s.recv_gap /\ s1.recv_gap_buf = s.recv_gap_buf
        /\ s1.recv_gap_count = s.recv_gap_count
    BY <1>0 DEF State
  <2> QED
    BY <1>0, <2>1, SameTable, RelabelOK
<1> HIDE DEF s1
<1>2. s2 \in RxStates
  BY <1>1, ReclaimOK
<1> HIDE DEF s2
<1>3. ASSUME ~NoRoom(s2, c, tsn) PROVE nsctp_rx_merge(nsctp_gap_drain(s3)) \in RxStates
  <2>1. Valid(s2) # Slots /\ Len(s2.recv_gap_buf) + Len(c.payload) <= RECV_GAP_BUF_SIZE
    BY <1>2, <1>3, RoomFor
  <2>2. s3 \in RxStates
    BY <1>2, <2>1, StoreOK
  <2> QED
    BY <2>2, DrainOK, MergeOK
<1>4. \/ nsctp_handle_data_chunk(s, c, tsn) = s
      \/ nsctp_handle_data_chunk(s, c, tsn) = s1
      \/ nsctp_handle_data_chunk(s, c, tsn) = s2
      \/ /\ ~NoRoom(s2, c, tsn)
         /\ nsctp_handle_data_chunk(s, c, tsn) = nsctp_rx_merge(nsctp_gap_drain(s3))
  BY Zenon DEF nsctp_handle_data_chunk, s1, s2
<1> QED
  BY <1>1, <1>2, <1>3, <1>4

-----------------------------------------------------------------------------
(* nsctp_handle_forward_tsn.                                                *)

\* An entry with one of its marks set.
LEMMA Marked ==
  ASSUME NEW e \in Entry
  PROVE  /\ \E d, f \in BOOLEAN : /\ e = [e EXCEPT !.delivered = d, !.forwarded = f]
                                  /\ e.delivered => d
         /\ \E d, f \in BOOLEAN : /\ [e EXCEPT !.delivered = TRUE]
                                       = [e EXCEPT !.delivered = d, !.forwarded = f]
                                  /\ e.delivered => d
         /\ \E d, f \in BOOLEAN : /\ [e EXCEPT !.forwarded = TRUE]
                                       = [e EXCEPT !.delivered = d, !.forwarded = f]
                                  /\ e.delivered => d
<1> DEFINE d == e.delivered
           f == e.forwarded
<1>1. d \in BOOLEAN /\ f \in BOOLEAN /\ TRUE \in BOOLEAN
  BY DEF Entry
<1>2. /\ e = [e EXCEPT !.delivered = d, !.forwarded = f]
      /\ [e EXCEPT !.delivered = TRUE] = [e EXCEPT !.delivered = TRUE, !.forwarded = f]
      /\ [e EXCEPT !.forwarded = TRUE] = [e EXCEPT !.delivered = d, !.forwarded = TRUE]
  BY DEF Entry
<1>3. e.delivered => d
  OBVIOUS
<1> HIDE DEF d, f
<1> QED
  BY <1>1, <1>2, <1>3

\* Table g is that of s but for marks.
Remarked(s, g) ==
    \A i \in Slots : \E d, f \in BOOLEAN :
      /\ g[i] = [s.recv_gap[i] EXCEPT !.delivered = d, !.forwarded = f]
      /\ s.recv_gap[i].delivered => d

\* The table of s with the entries D marked delivered and the entries F forwarded.
Marks(s, D, F) ==
    [i \in Slots |-> IF i \in D THEN [s.recv_gap[i] EXCEPT !.delivered = TRUE]
                     ELSE IF i \in F THEN [s.recv_gap[i] EXCEPT !.forwarded = TRUE]
                     ELSE s.recv_gap[i]]

\* Marking entries as delivered or forwarded leaves a table of entries.
LEMMA MarkTable ==
  ASSUME NEW s \in State, NEW D \in SUBSET Slots, NEW F \in SUBSET Slots,
         NEW g, g = Marks(s, D, F)
  PROVE  g \in [Slots -> Entry] /\ Remarked(s, g)
<1>1. \A i \in Slots : s.recv_gap[i] \in Entry
  BY StateParts
<1>2. \A i \in Slots : \/ g[i] = s.recv_gap[i]
                       \/ g[i] = [s.recv_gap[i] EXCEPT !.delivered = TRUE]
                       \/ g[i] = [s.recv_gap[i] EXCEPT !.forwarded = TRUE]
  BY DEF Marks
<1>3. \A i \in Slots : g[i] \in Entry
  BY <1>1, <1>2, EntryExcept
<1> QED
  <2>1. g \in [Slots -> Entry]
    BY <1>3 DEF Marks
  <2>2. ASSUME NEW i \in Slots
        PROVE  \E d, f \in BOOLEAN :
                 /\ g[i] = [s.recv_gap[i] EXCEPT !.delivered = d, !.forwarded = f]
                 /\ s.recv_gap[i].delivered => d
    <3> DEFINE e == s.recv_gap[i]
    <3>1. /\ e \in Entry
          /\ \/ g[i] = e \/ g[i] = [e EXCEPT !.delivered = TRUE]
             \/ g[i] = [e EXCEPT !.forwarded = TRUE]
      BY <1>1, <1>2
    <3> HIDE DEF e
    <3>2. \E d, f \in BOOLEAN : /\ g[i] = [e EXCEPT !.delivered = d, !.forwarded = f]
                                /\ e.delivered => d
      BY <3>1, Marked, Zenon
    <3> QED
      BY <3>2 DEF e
  <2> QED
    BY <2>1, <2>2 DEF Remarked

\* DropStranded marks entries.
LEMMA DropStrandedOK ==
  ASSUME NEW s \in State, NEW new_tsn
  PROVE  /\ DropStranded(s, new_tsn) \in State
         /\ Relabelled(s, DropStranded(s, new_tsn))
         /\ DropStranded(s, new_tsn).cumulative_tsn = s.cumulative_tsn
<1> DEFINE D == {i \in Slots : /\ s.recv_gap[i].valid
                               /\ TsnDiff(s.recv_gap[i].tsn, new_tsn) <= 0
                               /\ ~(s.recv_gap[i].B /\ s.recv_gap[i].E)}
           g == Marks(s, D, {})
           t == DropStranded(s, new_tsn)
<1>1. t = [s EXCEPT !.recv_gap = g]
  BY DEF DropStranded, Marks
<1>2. D \in SUBSET Slots /\ {} \in SUBSET Slots
  OBVIOUS
<1> HIDE DEF D
<1>3. g \in [Slots -> Entry] /\ Remarked(s, g)
  BY <1>2, MarkTable, ZenonT(30)
<1> HIDE DEF g, t
<1>4. /\ t \in State /\ t.recv_gap = g /\ t.recv_gap_buf = s.recv_gap_buf
      /\ t.recv_gap_count = s.recv_gap_count /\ t.cumulative_tsn = s.cumulative_tsn
  BY <1>1, <1>3 DEF State
<1> QED
  BY <1>3, <1>4 DEF Relabelled, Remarked, t

\* Marking entries twice is marking them.
LEMMA RelabelTrans ==
  ASSUME NEW s \in State, NEW t \in State, NEW u, Relabelled(s, t), Relabelled(t, u)
  PROVE  Relabelled(s, u)
<1>1. ASSUME NEW i \in Slots
      PROVE  \E d, f \in BOOLEAN :
               /\ u.recv_gap[i] = [s.recv_gap[i] EXCEPT !.delivered = d, !.forwarded = f]
               /\ s.recv_gap[i].delivered => d
  <2> DEFINE e == s.recv_gap[i]
             x == t.recv_gap[i]
  <2>1. e \in Entry /\ x \in Entry
    BY StateParts
  <2>2. PICK d1 \in BOOLEAN, f1 \in BOOLEAN :
          x = [e EXCEPT !.delivered = d1, !.forwarded = f1] /\ (e.delivered => d1)
    BY DEF Relabelled
  <2>3. PICK d2 \in BOOLEAN, f2 \in BOOLEAN :
          u.recv_gap[i] = [x EXCEPT !.delivered = d2, !.forwarded = f2] /\ (x.delivered => d2)
    BY DEF Relabelled
  <2> HIDE DEF e, x
  <2>4. /\ [x EXCEPT !.delivered = d2, !.forwarded = f2]
             = [e EXCEPT !.delivered = d2, !.forwarded = f2]
        /\ x.delivered = d1
    BY <2>1, <2>2 DEF Entry
  <2> QED
    BY <2>2, <2>3, <2>4 DEF e
<1> QED
  BY <1>1 DEF Relabelled

\* One pair of a FORWARD-TSN chunk marks entries.
LEMMA ForwardStreamOK ==
  ASSUME NEW s0 \in State, NEW pair \in Nat \X (0 .. SSN_MOD - 1)
  PROVE  /\ ForwardStream(s0, pair) \in State
         /\ Relabelled(s0, ForwardStream(s0, pair))
         /\ ForwardStream(s0, pair).cumulative_tsn = s0.cumulative_tsn
<1> DEFINE sid == pair[1]
           ssn == pair[2]
           s == nsctp_stream(s0, sid)
           F == {i \in Slots : /\ s.recv_gap[i].valid /\ s.recv_gap[i].sid = sid
                               /\ ~s.recv_gap[i].U
                               /\ SsnDiff(s.recv_gap[i].ssn, ssn) <= 0}
           g == Marks(s, {}, F)
           v == Plus(ssn, 1, SSN_MOD)
           h == [s.recv_ssn EXCEPT ![sid] = v]
           t == ForwardStream(s0, pair)
<1>0. sid \in Nat /\ ssn \in 0 .. SSN_MOD - 1 /\ ssn \in Int
  BY RecvSizes
<1>1. t = s \/ t = [s EXCEPT !.recv_gap = g, !.recv_ssn = h]
  BY DEF ForwardStream, Marks
<1>2. s \in State /\ s = [s0 EXCEPT !.recv_ssn = s.recv_ssn]
  BY <1>0, StreamOK
<1>3. v \in 0 .. SSN_MOD - 1
  BY <1>0, PlusSsn
<1>4. F \in SUBSET Slots /\ {} \in SUBSET Slots
  OBVIOUS
<1> HIDE DEF sid, ssn, s, F, v, t
<1>5. Relabelled(s0, s) /\ s.cumulative_tsn = s0.cumulative_tsn
  <2> DEFINE f == s.recv_ssn
  <2>1. s = [s0 EXCEPT !.recv_ssn = f]
    BY <1>2
  <2> HIDE DEF f
  <2>2. /\ s.recv_gap = s0.recv_gap /\ s.recv_gap_buf = s0.recv_gap_buf
        /\ s.recv_gap_count = s0.recv_gap_count /\ s.cumulative_tsn = s0.cumulative_tsn
    BY <2>1 DEF State
  <2> QED
    BY <2>2, SameTable
<1>6. h \in Streams
  BY <1>0, <1>2, <1>3, StateParts, StreamEntry
<1>7. g \in [Slots -> Entry] /\ Remarked(s, g)
  BY <1>2, <1>4, MarkTable, ZenonT(30)
<1> HIDE DEF g, h
<1>8. CASE t = s
  BY <1>2, <1>5, <1>8 DEF t
<1>9. CASE t = [s EXCEPT !.recv_gap = g, !.recv_ssn = h]
  <2>1. /\ t \in State /\ t.recv_gap = g /\ t.recv_gap_buf = s.recv_gap_buf
        /\ t.recv_gap_count = s.recv_gap_count /\ t.cumulative_tsn = s.cumulative_tsn
    BY <1>2, <1>6, <1>7, <1>9 DEF State
  <2>2. Relabelled(s, t)
    BY <1>7, <2>1 DEF Relabelled, Remarked
  <2>3. Relabelled(s0, t)
    BY <1>2, <1>5, <2>2, RelabelTrans
  <2> QED
    BY <1>5, <2>1, <2>3 DEF t
<1> QED
  BY <1>1, <1>8, <1>9

ForwardFold == INSTANCE FoldFacts WITH Op <- ForwardStream

\* The numbers are well-ordered, as the facts of the instance suppose.
LEMMA ForwardWellOrdered == ForwardFold!WellOrdered
BY LeastNat DEF ForwardFold!WellOrdered

\* The <<sid, ssn>> pairs of a FORWARD-TSN chunk.
Pairs == Nat \X (0 .. SSN_MOD - 1)

\* All pairs of the chunk together only mark entries.
LEMMA ForwardStreamsOK ==
  ASSUME NEW s \in State, NEW pairs \in Seq(Pairs)
  PROVE  /\ FoldLeft(ForwardStream, s, pairs) \in State
         /\ Relabelled(s, FoldLeft(ForwardStream, s, pairs))
         /\ FoldLeft(ForwardStream, s, pairs).cumulative_tsn = s.cumulative_tsn
<1> DEFINE R == {t \in State : Relabelled(s, t) /\ t.cumulative_tsn = s.cumulative_tsn}
<1>1. s \in R
  BY SameTable
<1>2. ASSUME NEW t \in R, NEW p \in Pairs PROVE ForwardStream(t, p) \in R
  <2>1. t \in State /\ Relabelled(s, t) /\ t.cumulative_tsn = s.cumulative_tsn
    OBVIOUS
  <2>2. /\ ForwardStream(t, p) \in State /\ Relabelled(t, ForwardStream(t, p))
        /\ ForwardStream(t, p).cumulative_tsn = t.cumulative_tsn
    BY <2>1, ForwardStreamOK DEF Pairs
  <2>3. Relabelled(s, ForwardStream(t, p))
    BY <2>1, <2>2, RelabelTrans
  <2> QED
    BY <2>1, <2>2, <2>3
<1> HIDE DEF R
<1>3. ForwardFold!Fold(s, pairs) \in R
  BY <1>1, <1>2, ForwardWellOrdered, ForwardFold!FoldInvariant
<1>4. ForwardFold!Fold(s, pairs) = FoldLeft(ForwardStream, s, pairs)
  BY DEF FoldLeft, MapThenFoldSet, Max,
         ForwardFold!Fold, ForwardFold!Largest
<1> QED
  BY <1>3, <1>4 DEF R

\* nsctp_handle_forward_tsn keeps the invariant.
LEMMA ForwardTsnOK ==
  ASSUME NEW s \in RxStates, NEW new_tsn \in 0 .. TSN_MOD - 1, NEW pairs \in Seq(Pairs)
  PROVE  nsctp_handle_forward_tsn(s, new_tsn, pairs) \in RxStates
<1> DEFINE s1 == [s EXCEPT !.sack_needed = TRUE]
           s0 == [s1 EXCEPT !.cumulative_tsn = new_tsn]
           s2 == nsctp_rx_merge(s0)
           s3 == DropStranded(s2, new_tsn)
           s4 == FoldLeft(ForwardStream, s3, pairs)
<1>0. s \in State
  BY DEF RxStates
<1>1. s1 \in RxStates
  <2>1. s1 \in State /\ s1.recv_gap = s.recv_gap /\ s1.recv_gap_buf = s.recv_gap_buf
        /\ s1.recv_gap_count = s.recv_gap_count
    BY <1>0 DEF State
  <2> QED
    BY <1>0, <2>1, SameTable, RelabelOK
<1>2. s0 \in RxStates
  <2>1. s0 \in State /\ s0.recv_gap = s.recv_gap /\ s0.recv_gap_buf = s.recv_gap_buf
        /\ s0.recv_gap_count = s.recv_gap_count
    BY <1>0 DEF State
  <2> QED
    BY <1>0, <2>1, SameTable, RelabelOK
<1>3. \/ nsctp_handle_forward_tsn(s, new_tsn, pairs) = s1
      \/ nsctp_handle_forward_tsn(s, new_tsn, pairs) = nsctp_gap_drain(s4)
  BY DEF nsctp_handle_forward_tsn
<1> HIDE DEF s0, s1
<1>4. s2 \in RxStates /\ s2 \in State
  BY <1>2, MergeOK DEF RxStates
<1> HIDE DEF s2
<1>5. s3 \in RxStates /\ s3 \in State
  BY <1>4, DropStrandedOK, RelabelOK
<1> HIDE DEF s3
<1>6. s4 \in RxStates
  BY <1>5, ForwardStreamsOK, RelabelOK
<1> HIDE DEF s4
<1> QED
  BY <1>1, <1>3, <1>6, DrainOK

\* Every message has a last chunk.
LEMMA LastChunkType ==
  ASSUME NEW m \in Messages
  PROVE  /\ LastChunk(m) \in DOMAIN Chunks /\ Chunks[LastChunk(m)].msg = m
         /\ \A k \in DOMAIN Chunks : Chunks[k].msg = m => k <= LastChunk(m)
         /\ TsnOf(LastChunk(m)) \in 0 .. TSN_MOD - 1
<1> DEFINE S == {k \in DOMAIN Chunks : Chunks[k].msg = m}
           n == Len(Chunks)
<1>0. Chunks \in Seq(Chunk) /\ n \in Nat /\ DOMAIN Chunks = 1 .. n
  BY ChunkLayout
<1>1. PICK b : Layout(b, Len(Msgs), Chunks)
  BY ChunkLayout
<1>2. Len(Lengths(m)) \in Nat /\ Len(Lengths(m)) >= 1 /\ 1 \in 1 .. Len(Lengths(m))
  BY MessageFacts
<1>3. /\ b[m] \in Nat /\ b[m + 1] = b[m] + Len(Lengths(m)) /\ b[m + 1] <= n
      /\ Chunks[b[m] + 1] = Fragments(m)[1]
  BY <1>1, <1>2 DEF Layout, Messages
<1>4. Fragments(m)[1].msg = m
  BY <1>2, FragmentFacts
<1>5. b[m] + 1 \in 1 .. n
  BY <1>0, <1>2, <1>3
<1>6. b[m] + 1 \in S
  BY <1>0, <1>3, <1>4, <1>5
<1>7. S \in SUBSET (0 .. n)
  BY <1>0
<1> HIDE DEF S
<1>8. Max(S) \in S /\ \A y \in S : y <= Max(S)
  BY <1>0, <1>6, <1>7, MaxOf
<1>9. LastChunk(m) = Max(S)
  BY DEF LastChunk, S
<1>10. LastChunk(m) \in DOMAIN Chunks /\ Chunks[LastChunk(m)].msg = m
       /\ \A k \in DOMAIN Chunks : Chunks[k].msg = m => k <= LastChunk(m)
  BY <1>8, <1>9 DEF S
<1>11. TsnOf(LastChunk(m)) \in 0 .. TSN_MOD - 1
  <2>1. LastChunk(m) - 1 \in Int /\ InitTsn \in Int
    BY <1>0, <1>10, RecvSizes
  <2> QED
    BY <2>1, PlusTsn DEF TsnOf
<1> QED
  BY <1>10, <1>11

\* The TSN of a chunk fits its width.
LEMMA TsnType ==
  ASSUME NEW k \in DOMAIN Chunks
  PROVE  TsnOf(k) \in 0 .. TSN_MOD - 1 /\ Chunks[k] \in Chunk
<1>1. Chunks \in Seq(Chunk)
  BY ChunkLayout
<1>2. k - 1 \in Int /\ InitTsn \in Int /\ Chunks[k] \in Chunk
  BY <1>1, RecvSizes
<1> QED
  BY <1>2, PlusTsn DEF TsnOf

\* The pairs of a FORWARD-TSN are finitely many streams and SSNs.
LEMMA SkippedPairsType ==
  ASSUME NEW h \in Messages, NEW m \in Messages
  PROVE  /\ IsFiniteSet(SkippedPairs(h, m)) /\ SkippedPairs(h, m) \in SUBSET Pairs
         /\ SetToSeqs(SkippedPairs(h, m)) \in SUBSET Seq(Pairs)
<1> DEFINE X == {x \in h..m : ~Msgs[x].unordered}
           S == SkippedPairs(h, m)
           f == [x \in X |-> <<Msgs[x].sid, Ssn(LastSkipped(h, m, Msgs[x].sid))>>]
<1>0. Len(Msgs) \in Nat /\ h \in Nat /\ m \in Nat /\ h..m \in SUBSET Messages
  <2>1. Len(Msgs) \in Nat
    BY PeerConforms
  <2> QED
    BY <2>1 DEF Messages
<1>1. IsFiniteSet(X)
  <2>1. h \in Int /\ m \in Int
    BY <1>0
  <2>2. IsFiniteSet(h..m)
    BY <2>1, FS_Interval
  <2> QED
    BY <2>2, FS_Subset
<1>2. S = {<<Msgs[x].sid, Ssn(LastSkipped(h, m, Msgs[x].sid))>> : x \in X}
  BY DEF SkippedPairs
<1>3. IsFiniteSet(S)
  <2>1. f \in Surjection(X, S)
    BY <1>2 DEF Surjection
  <2> QED
    BY <1>1, <2>1, FS_Surjection DEF ExistsSurjection
<1>4. ASSUME NEW x \in X
      PROVE  Msgs[x].sid \in Nat /\ Ssn(LastSkipped(h, m, Msgs[x].sid)) \in 0 .. SSN_MOD - 1
  <2> DEFINE sid == Msgs[x].sid
             L == {n \in h..m : Msgs[n].sid = sid /\ ~Msgs[n].unordered}
  <2>1. x \in h..m /\ x \in Messages /\ x \in L
    BY <1>0
  <2>2. sid \in Nat
    BY <2>1, MessageFacts
  <2>3. L \in SUBSET (0 .. m) /\ L # {}
    BY <1>0, <2>1
  <2>4. L \in SUBSET Messages
    BY <1>0
  <2> HIDE DEF L
  <2>5. Max(L) \in L
    BY <1>0, <2>3, MaxOf
  <2>6. LastSkipped(h, m, sid) \in Messages
    BY <2>4, <2>5 DEF LastSkipped, L
  <2> QED
    BY <2>2, <2>6, SsnType
<1>5. S \in SUBSET Pairs
  BY <1>2, <1>4 DEF Pairs
<1> HIDE DEF S
<1>6. Cardinality(S) \in Nat
  BY <1>3, FS_CardinalityType
<1>7. SetToSeqs(S) \in SUBSET [1 .. Cardinality(S) -> Pairs]
  BY <1>5 DEF SetToSeqs
<1>8. [1 .. Cardinality(S) -> Pairs] \in SUBSET Seq(Pairs)
  BY <1>6
<1> QED
  BY <1>3, <1>5, <1>7, <1>8 DEF S

-----------------------------------------------------------------------------
(* nsctp_poll_delivery.                                                     *)

PartLens(s, parts) == [x \in 1 .. Len(parts) |-> s.recv_gap[parts[x]].len]

\* The bytes of the first k parts.
Before(s, parts, k) == Sum(SubSeq(PartLens(s, parts), 1, k))

\* Entry j is the same in t as in s but for the place of its bytes and its mark.
KeptEntry(s, t, j) ==
    /\ t.recv_gap[j] = [s.recv_gap[j] EXCEPT !.off = t.recv_gap[j].off,
                                             !.delivered = t.recv_gap[j].delivered]
    /\ s.recv_gap[j].delivered => t.recv_gap[j].delivered
    /\ \A q \in 1 .. s.recv_gap[j].len :
         t.recv_gap_buf[t.recv_gap[j].off + q] = s.recv_gap_buf[s.recv_gap[j].off + q]

\* Table and pool of t hold what those of s hold.
Kept(s, t) ==
    /\ t \in State /\ PoolOK(t) /\ Valid(t) = Valid(s)
    /\ \A j \in Valid(s) : KeptEntry(s, t, j)
    /\ \A j \in Slots \ Valid(s) : t.recv_gap[j] = s.recv_gap[j]
    /\ Len(t.recv_gap_buf) = Len(s.recv_gap_buf)
    /\ t.cumulative_tsn = s.cumulative_tsn /\ t.recv_ssn = s.recv_ssn
    /\ t.recv_gap_count = s.recv_gap_count

\* The first k parts lie at the front of the pool, everything else behind them.
Fronted(s, parts, k, t, pos) ==
    /\ pos = Before(s, parts, k)
    /\ \A x \in 1 .. k : s.recv_gap[parts[x]].len > 0 =>
         t.recv_gap[parts[x]].off = Before(s, parts, x - 1)
    /\ \A x \in 1 .. k : t.recv_gap[parts[x]].delivered
    /\ \A j \in Valid(s) : (\A x \in 1 .. k : parts[x] # j) =>
         /\ s.recv_gap[j].len > 0 => pos <= t.recv_gap[j].off
         /\ t.recv_gap[j].delivered = s.recv_gap[j].delivered

GatherStates(s, parts, k) ==
    {acc \in [st : State, pos : Nat] : Kept(s, acc.st) /\ Fronted(s, parts, k, acc.st, acc.pos)}

\* The fields of a kept entry.
LEMMA KeptFields ==
  ASSUME NEW s \in State, NEW t \in State, NEW j \in Slots, KeptEntry(s, t, j)
  PROVE  /\ t.recv_gap[j].valid = s.recv_gap[j].valid /\ t.recv_gap[j].tsn = s.recv_gap[j].tsn
         /\ t.recv_gap[j].msg = s.recv_gap[j].msg /\ t.recv_gap[j].sid = s.recv_gap[j].sid
         /\ t.recv_gap[j].ssn = s.recv_gap[j].ssn /\ t.recv_gap[j].U = s.recv_gap[j].U
         /\ t.recv_gap[j].len = s.recv_gap[j].len
         /\ t.recv_gap[j].B = s.recv_gap[j].B /\ t.recv_gap[j].E = s.recv_gap[j].E
         /\ t.recv_gap[j].forwarded = s.recv_gap[j].forwarded
<1> DEFINE e == s.recv_gap[j]
           o == t.recv_gap[j].off
           d == t.recv_gap[j].delivered
           x == [e EXCEPT !.off = o, !.delivered = d]
<1>1. e \in Entry
  BY StateParts
<1>2. t.recv_gap[j] = x
  BY DEF KeptEntry
<1> HIDE DEF e, o, d
<1>3. /\ x.valid = e.valid /\ x.tsn = e.tsn /\ x.msg = e.msg /\ x.sid = e.sid /\ x.ssn = e.ssn
      /\ x.U = e.U /\ x.len = e.len /\ x.B = e.B /\ x.E = e.E /\ x.forwarded = e.forwarded
  BY <1>1 DEF Entry
<1> HIDE DEF x
<1> QED
  BY <1>2, <1>3 DEF e

\* A state is kept by itself, and keeping is transitive.
LEMMA KeptRefl ==
  ASSUME NEW s \in State, PoolOK(s)
  PROVE  Kept(s, s)
<1>1. \A j \in Valid(s) : s.recv_gap[j] \in Entry
  BY StateParts
<1>2. \A e \in Entry : e = [e EXCEPT !.off = e.off, !.delivered = e.delivered]
  BY DEF Entry
<1>3. \A j \in Valid(s) : KeptEntry(s, s, j)
  BY <1>1, <1>2 DEF KeptEntry
<1> QED
  BY <1>3 DEF Kept

MoveMarked(u, j, pos) == [nsctp_rx_move(u, j, pos) EXCEPT !.recv_gap[j].delivered = TRUE]

\* State t is u with entry j, of l bytes, moved to pos and marked delivered.
MovedMarked(u, j, pos, l, t) ==
    /\ Kept(u, t) /\ t.recv_gap[j].delivered
    /\ l > 0 => t.recv_gap[j].off = pos
    /\ \A i \in Valid(u) \ {j} :
         /\ t.recv_gap[i].delivered = u.recv_gap[i].delivered
         /\ t.recv_gap[i].off =
              IF l > 0 /\ pos <= u.recv_gap[i].off /\ u.recv_gap[i].off < u.recv_gap[j].off
              THEN u.recv_gap[i].off + l ELSE u.recv_gap[i].off

\* Moving the bytes of an entry and marking it delivered keeps everything.
LEMMA MoveAndMark ==
  ASSUME NEW u \in State, PoolOK(u), NEW j \in Valid(u), NEW pos \in Nat, CanMove(u, j, pos)
  PROVE  MovedMarked(u, j, pos, u.recv_gap[j].len, MoveMarked(u, j, pos))
<1> DEFINE t == MoveMarked(u, j, pos)
           m == nsctp_rx_move(u, j, pos)
           e == [m.recv_gap[j] EXCEPT !.delivered = TRUE]
           h == [m.recv_gap EXCEPT ![j] = e]
<1>1. MovedTo(u, j, pos, m)
  BY MoveStep
<1>2. t = [m EXCEPT !.recv_gap[j].delivered = TRUE]
  BY DEF MoveMarked
<1> HIDE DEF m, t
<1>3. m \in State /\ Valid(m) = Valid(u) /\ PoolOK(m) /\ j \in Slots
  BY <1>1, StateParts DEF MovedTo
<1>4. m.recv_gap \in [Slots -> Entry] /\ m.recv_gap[j] \in Entry
  BY <1>3, StateParts
<1>5. t = [m EXCEPT !.recv_gap = h]
  BY <1>2, <1>3, <1>4 DEF State
<1>6. e \in Entry /\ e.valid = m.recv_gap[j].valid /\ e.off = m.recv_gap[j].off
      /\ e.len = m.recv_gap[j].len /\ e.delivered = TRUE
  <2> DEFINE x == m.recv_gap[j]
             y == [x EXCEPT !.delivered = TRUE]
  <2>1. x \in Entry
    BY <1>4
  <2> HIDE DEF x
  <2>2. y \in Entry /\ y.valid = x.valid /\ y.off = x.off /\ y.len = x.len /\ y.delivered = TRUE
    BY <2>1 DEF Entry
  <2> QED
    BY <2>2 DEF x
<1> HIDE DEF e
<1>7. h \in [Slots -> Entry] /\ h[j] = e /\ \A i \in Slots \ {j} : h[i] = m.recv_gap[i]
  BY <1>3, <1>4, <1>6
<1> HIDE DEF h
<1>8. /\ t \in State /\ t.recv_gap = h /\ t.recv_gap_buf = m.recv_gap_buf
      /\ t.cumulative_tsn = m.cumulative_tsn /\ t.recv_ssn = m.recv_ssn
      /\ t.recv_gap_count = m.recv_gap_count
  BY <1>3, <1>5, <1>7 DEF State
<1>9. /\ m.cumulative_tsn = u.cumulative_tsn /\ m.recv_ssn = u.recv_ssn
      /\ m.recv_gap_count = u.recv_gap_count
  <2> DEFINE g == m.recv_gap
             b == m.recv_gap_buf
  <2>1. m = [u EXCEPT !.recv_gap = g, !.recv_gap_buf = b]
    BY <1>1 DEF MovedTo
  <2> HIDE DEF g, b
  <2> QED
    BY <2>1 DEF State
<1>10. \A i \in Slots : /\ t.recv_gap[i].valid = m.recv_gap[i].valid
                        /\ t.recv_gap[i].off = m.recv_gap[i].off
                        /\ t.recv_gap[i].len = m.recv_gap[i].len
  BY <1>6, <1>7, <1>8
<1>11. Valid(t) = Valid(m) /\ Offs(t) = Offs(m) /\ Lens(t) = Lens(m)
  BY <1>10 DEF Valid, Offs, Lens
<1>12. PoolOK(t)
  BY <1>3, <1>8, <1>11 DEF PoolOK
<1>13. ASSUME NEW i \in Valid(u) PROVE KeptEntry(u, t, i)
  <2> DEFINE x == u.recv_gap[i]
             o == m.recv_gap[i].off
             y == m.recv_gap[i]
  <2>1. SameEntry(u, m, i) /\ i \in Slots
    BY <1>1, StateParts DEF MovedTo
  <2>2. y = [x EXCEPT !.off = o] /\ x \in Entry /\ o \in Int
    BY <1>3, <2>1, StateParts DEF SameEntry
  <2>3. t.recv_gap[i].off = o
    BY <1>10, <2>1
  <2>4. \A q \in 1 .. x.len : t.recv_gap_buf[t.recv_gap[i].off + q] = u.recv_gap_buf[x.off + q]
    BY <1>8, <2>1, <2>3 DEF SameEntry
  <2>5. t.recv_gap[i] = y \/ t.recv_gap[i] = [y EXCEPT !.delivered = TRUE]
    BY <1>7, <1>8, <2>1 DEF e
  <2> HIDE DEF x, o, y
  <2>6. /\ y = [x EXCEPT !.off = o, !.delivered = y.delivered] /\ y.delivered = x.delivered
        /\ [y EXCEPT !.delivered = TRUE] = [x EXCEPT !.off = o, !.delivered = TRUE]
        /\ [y EXCEPT !.delivered = TRUE].delivered = TRUE
    BY <2>2 DEF Entry
  <2>7. /\ t.recv_gap[i] = [x EXCEPT !.off = o, !.delivered = t.recv_gap[i].delivered]
        /\ x.delivered => t.recv_gap[i].delivered
    BY <2>5, <2>6
  <2> QED
    BY <2>3, <2>4, <2>7 DEF KeptEntry, x
<1>14. \A i \in Slots \ Valid(u) : t.recv_gap[i] = u.recv_gap[i]
  BY <1>1, <1>7, <1>8 DEF MovedTo
<1>15. Kept(u, t)
  BY <1>1, <1>3, <1>8, <1>9, <1>11, <1>12, <1>13, <1>14 DEF Kept, MovedTo
<1>16. u.recv_gap[j].len > 0 => t.recv_gap[j].off = pos
  BY <1>1, <1>3, <1>10 DEF MovedTo
<1>17. ASSUME NEW i \in Valid(u) \ {j}
       PROVE  /\ t.recv_gap[i].delivered = u.recv_gap[i].delivered
              /\ t.recv_gap[i].off =
                   IF u.recv_gap[j].len > 0 /\ pos <= u.recv_gap[i].off
                      /\ u.recv_gap[i].off < u.recv_gap[j].off
                   THEN u.recv_gap[i].off + u.recv_gap[j].len ELSE u.recv_gap[i].off
  <2>1. i \in Slots /\ t.recv_gap[i] = m.recv_gap[i] /\ SameEntry(u, m, i)
    BY <1>1, <1>7, <1>8, StateParts DEF MovedTo
  <2>2. m.recv_gap[i].delivered = u.recv_gap[i].delivered
    BY <1>3, <2>1, SameEntryFields
  <2> QED
    BY <1>1, <2>1, <2>2 DEF MovedTo
<1>18. t.recv_gap[j].delivered
  BY <1>3, <1>6, <1>7, <1>8
<1> QED
  BY <1>15, <1>16, <1>17, <1>18 DEF MovedMarked, t

\* Kept is transitive.
LEMMA KeptTrans ==
  ASSUME NEW s \in State, NEW t \in State, NEW u, Kept(s, t), Kept(t, u)
  PROVE  Kept(s, u)
<1>1. ASSUME NEW j \in Valid(s) PROVE KeptEntry(s, u, j)
  <2> DEFINE e == s.recv_gap[j]
             f == t.recv_gap[j]
             g == u.recv_gap[j]
             o1 == f.off
             d1 == f.delivered
             o2 == g.off
             d2 == g.delivered
  <2>1. j \in Slots /\ KeptEntry(s, t, j) /\ KeptEntry(t, u, j) /\ u \in State
    BY StateParts DEF Kept
  <2>2. e \in Entry /\ f \in Entry /\ f.len = e.len
    BY <2>1, StateParts, KeptFields
  <2>3. /\ f = [e EXCEPT !.off = o1, !.delivered = d1] /\ (e.delivered => d1)
        /\ g = [f EXCEPT !.off = o2, !.delivered = d2] /\ (d1 => d2)
    BY <2>1 DEF KeptEntry
  <2>4. \A q \in 1 .. e.len : u.recv_gap_buf[g.off + q] = s.recv_gap_buf[e.off + q]
    BY <2>1, <2>2 DEF KeptEntry
  <2> HIDE DEF o1, d1, o2, d2
  <2>5. g = [e EXCEPT !.off = o2, !.delivered = d2]
    BY <2>2, <2>3 DEF Entry
  <2> QED
    BY <2>3, <2>4, <2>5 DEF KeptEntry, o2, d2
<1> QED
  BY <1>1 DEF Kept

\* Two entries with bytes do not overlap.
LEMMA EntriesApart ==
  ASSUME NEW s \in State, PoolOK(s), NEW i \in Valid(s), NEW j \in Valid(s), i # j,
         s.recv_gap[i].len > 0, s.recv_gap[j].len > 0
  PROVE  \/ s.recv_gap[i].off + s.recv_gap[i].len <= s.recv_gap[j].off
         \/ s.recv_gap[j].off + s.recv_gap[j].len <= s.recv_gap[i].off
<1>1. i \in Slots /\ j \in Slots
  BY StateParts
<1>2. /\ Offs(s)[i] = s.recv_gap[i].off /\ Lens(s)[i] = s.recv_gap[i].len
      /\ Offs(s)[j] = s.recv_gap[j].off /\ Lens(s)[j] = s.recv_gap[j].len
  BY <1>1, StateParts
<1>3. Apart(Offs(s), Lens(s), Valid(s))
  BY DEF PoolOK, Tiled
<1> QED
  BY <1>2, <1>3 DEF Apart

\* The lengths of the parts and their sums.
LEMMA PartSums ==
  ASSUME NEW s \in State, NEW parts \in Seq(Slots)
  PROVE  /\ Before(s, parts, 0) = 0
         /\ \A k \in 1 .. Len(parts) :
              Before(s, parts, k) = Before(s, parts, k - 1) + s.recv_gap[parts[k]].len
         /\ \A k \in 0 .. Len(parts) : Before(s, parts, k) \in Nat
<1> DEFINE L == PartLens(s, parts)
<1>1. Len(parts) \in Nat /\ \A x \in 1 .. Len(parts) : s.recv_gap[parts[x]].len \in Nat
  BY StateParts
<1>2. L \in Seq(Nat) /\ Len(L) = Len(parts)
      /\ \A x \in 1 .. Len(parts) : L[x] = s.recv_gap[parts[x]].len
  BY <1>1 DEF PartLens
<1> HIDE DEF L
<1>3. /\ Sum(SubSeq(L, 1, 0)) = 0
      /\ \A k \in 1 .. Len(L) : Sum(SubSeq(L, 1, k)) = Sum(SubSeq(L, 1, k - 1)) + L[k]
      /\ \A k \in 0 .. Len(L) : Sum(SubSeq(L, 1, k)) \in Nat
  BY <1>2, SumFacts
<1> QED
  BY <1>2, <1>3 DEF Before, L

\* The parts are different entries.
Distinct(parts) == \A x, y \in 1 .. Len(parts) : parts[x] = parts[y] => x = y

\* The sums grow.
LEMMA BeforeGrows ==
  ASSUME NEW s \in State, NEW parts \in Seq(Slots), NEW k \in 0 .. Len(parts)
  PROVE  \A x \in 0 .. k : Before(s, parts, x) <= Before(s, parts, k)
<1> DEFINE n == Len(parts)
           Q == {d \in Nat : d <= k => Before(s, parts, k - d) <= Before(s, parts, k)}
<1>0. n \in Nat /\ k \in Nat /\ k <= n
  OBVIOUS
<1>1. \A x \in 0 .. n : Before(s, parts, x) \in Nat
  BY PartSums
<1>2. 0 \in Q
  <2>1. k - 0 = k /\ Before(s, parts, k) \in Nat
    BY <1>0, <1>1
  <2> QED
    BY <2>1
<1>3. ASSUME NEW d \in Nat, d \in Q PROVE d + 1 \in Q
  <2> SUFFICES ASSUME d + 1 <= k PROVE Before(s, parts, k - (d + 1)) <= Before(s, parts, k)
    OBVIOUS
  <2> DEFINE y == k - d
  <2>1. y \in 1 .. n /\ y \in 0 .. n /\ y - 1 \in 0 .. n /\ k - (d + 1) = y - 1 /\ k \in 0 .. n
    BY <1>0
  <2>2. Before(s, parts, y) <= Before(s, parts, k)
    BY <1>0, <1>3
  <2> HIDE DEF y
  <2>3. Before(s, parts, y) = Before(s, parts, y - 1) + s.recv_gap[parts[y]].len
    BY <2>1, PartSums
  <2>4. s.recv_gap[parts[y]].len \in Nat
    <3>1. parts[y] \in Slots
      BY <2>1
    <3> QED
      BY <3>1, StateParts
  <2>5. Before(s, parts, y) \in Nat /\ Before(s, parts, y - 1) \in Nat /\ Before(s, parts, k) \in Nat
    BY <1>1, <2>1
  <2> DEFINE x == Before(s, parts, y)
             v == Before(s, parts, y - 1)
             w == Before(s, parts, k)
             l == s.recv_gap[parts[y]].len
  <2>6. x \in Nat /\ v \in Nat /\ w \in Nat /\ l \in Nat /\ x <= w /\ x = v + l
    BY <2>2, <2>3, <2>4, <2>5
  <2> HIDE DEF x, v, w, l
  <2>7. v <= w
    BY <2>6
  <2> QED
    BY <2>1, <2>7 DEF v, w
<1> HIDE DEF Q
<1>4. Nat \subseteq Q
  BY <1>2, <1>3, SetInduction
<1> SUFFICES ASSUME NEW x \in 0 .. k PROVE Before(s, parts, x) <= Before(s, parts, k)
  OBVIOUS
<1>5. k - x \in Nat /\ k - x <= k /\ k - (k - x) = x
  BY <1>0
<1>6. k - x \in Q
  BY <1>4, <1>5
<1> QED
  BY <1>5, <1>6 DEF Q

\* Gathering one more part.
LEMMA GatherStep ==
  ASSUME NEW s \in State, PoolOK(s), NEW parts \in Seq(Valid(s)), Distinct(parts),
         NEW k \in 1 .. Len(parts), NEW acc \in GatherStates(s, parts, k - 1)
  PROVE  GatherPart(acc, parts[k]) \in GatherStates(s, parts, k)
<1> DEFINE n == Len(parts)
           u == acc.st
           p == acc.pos
           j == parts[k]
           t == MoveMarked(u, j, p)
           l == s.recv_gap[j].len
           A(x) == Before(s, parts, x)
<1>0. /\ n \in Nat /\ k \in Nat /\ j \in Valid(s) /\ j \in Slots /\ parts \in Seq(Slots)
      /\ \A x \in 1 .. n : parts[x] \in Valid(s) /\ parts[x] \in Slots
      /\ k - 1 \in 0 .. n /\ k \in 0 .. n
  <2>1. Valid(s) \in SUBSET Slots
    BY StateParts
  <2> QED
    BY <2>1
<1>1. /\ u \in State /\ p \in Nat /\ Kept(s, u) /\ Fronted(s, parts, k - 1, u, p)
  BY DEF GatherStates
<1>2. /\ A(k) = A(k - 1) + l /\ A(k) \in Nat /\ A(k - 1) \in Nat /\ l \in Nat
      /\ p = A(k - 1)
  BY <1>0, <1>1, PartSums, StateParts DEF Fronted
<1>3. \A i \in Valid(s) : /\ i \in Slots /\ u.recv_gap[i].len = s.recv_gap[i].len
                          /\ u.recv_gap[i].off \in Int /\ u.recv_gap[i].len \in Nat
  BY <1>1, StateParts, KeptFields DEF Kept
<1>4. \A x \in 1 .. k - 1 : parts[x] # j
  BY <1>0 DEF Distinct
<1>5. l > 0 => p <= u.recv_gap[j].off
  BY <1>0, <1>1, <1>4 DEF Fronted
<1>6. ASSUME NEW x \in 1 .. k - 1, s.recv_gap[parts[x]].len > 0
      PROVE  /\ u.recv_gap[parts[x]].off = A(x - 1) /\ A(x) = A(x - 1) + s.recv_gap[parts[x]].len
             /\ A(x) <= A(k - 1) /\ A(x - 1) \in Nat /\ A(x) \in Nat
             /\ s.recv_gap[parts[x]].len \in Nat /\ parts[x] \in Valid(s)
  <2>1. x \in 1 .. n /\ x \in 0 .. n /\ x - 1 \in 0 .. n /\ x \in 0 .. k - 1
    BY <1>0
  <2>2. u.recv_gap[parts[x]].off = A(x - 1)
    BY <1>1, <1>6 DEF Fronted
  <2>3. A(x) = A(x - 1) + s.recv_gap[parts[x]].len /\ A(x - 1) \in Nat /\ A(x) \in Nat
    BY <1>0, <2>1, PartSums
  <2>4. A(x) <= A(k - 1)
    BY <1>0, <2>1, BeforeGrows
  <2> QED
    BY <1>0, <1>3, <2>1, <2>2, <2>3, <2>4
<1>7. ASSUME NEW i \in Valid(s), u.recv_gap[i].len > 0
      PROVE  u.recv_gap[i].off + u.recv_gap[i].len <= p \/ p <= u.recv_gap[i].off
  <2>1. CASE \E x \in 1 .. k - 1 : parts[x] = i
    BY <1>2, <1>3, <1>6, <1>7, <2>1
  <2>2. CASE \A x \in 1 .. k - 1 : parts[x] # i
    BY <1>1, <1>3, <1>7, <2>2 DEF Fronted
  <2> QED
    BY <2>1, <2>2
<1>8. Valid(u) = Valid(s) /\ PoolOK(u)
  BY <1>1 DEF Kept
<1>9. CanMove(u, j, p)
  BY <1>0, <1>3, <1>5, <1>7, <1>8 DEF CanMove
<1>10. /\ Kept(u, t) /\ t.recv_gap[j].delivered
       /\ l > 0 => t.recv_gap[j].off = p
       /\ \A i \in Valid(s) \ {j} :
            /\ t.recv_gap[i].delivered = u.recv_gap[i].delivered
            /\ t.recv_gap[i].off =
                 IF l > 0 /\ p <= u.recv_gap[i].off /\ u.recv_gap[i].off < u.recv_gap[j].off
                 THEN u.recv_gap[i].off + l ELSE u.recv_gap[i].off
  <2>1. u.recv_gap[j].len = l /\ j \in Valid(u)
    BY <1>0, <1>3, <1>8
  <2> HIDE DEF u, p, j, l
  <2>2. MovedMarked(u, j, p, l, t)
    BY <1>1, <1>8, <1>9, <2>1, MoveAndMark
  <2> HIDE DEF t
  <2> QED
    BY <1>8, <2>2 DEF MovedMarked
<1>11. GatherPart(acc, j) = [st |-> t, pos |-> p + l]
  BY <1>0, <1>3 DEF GatherPart, MoveMarked
<1> HIDE DEF u, p, t, A, l, j
<1>12. Kept(s, t) /\ t \in State /\ PoolOK(t) /\ Valid(t) = Valid(s)
  BY <1>1, <1>10, KeptTrans DEF Kept
<1>13. ASSUME NEW x \in 1 .. k, s.recv_gap[parts[x]].len > 0
       PROVE  t.recv_gap[parts[x]].off = A(x - 1)
  <2>1. CASE x = k
    BY <1>2, <1>10, <1>13, <2>1 DEF l, j
  <2>2. CASE x # k
    <3>1. x \in 1 .. k - 1
      BY <1>0, <2>2
    <3>2. parts[x] \in Valid(s) \ {j}
      BY <1>4, <1>6, <1>13, <3>1
    <3>a. /\ u.recv_gap[parts[x]].off = A(x - 1) /\ A(x) = A(x - 1) + s.recv_gap[parts[x]].len
          /\ A(x) <= p /\ A(x - 1) \in Nat /\ s.recv_gap[parts[x]].len \in Nat
      BY <1>2, <1>6, <1>13, <3>1
    <3>3. ~(p <= u.recv_gap[parts[x]].off)
      BY <1>1, <1>13, <3>a
    <3> QED
      BY <1>6, <1>10, <1>13, <3>1, <3>2, <3>3
  <2> QED
    BY <2>1, <2>2
<1>14. ASSUME NEW i \in Valid(s), \A x \in 1 .. k : parts[x] # i
       PROVE  /\ s.recv_gap[i].len > 0 => p + l <= t.recv_gap[i].off
              /\ t.recv_gap[i].delivered = s.recv_gap[i].delivered
  <2>1. i # j /\ \A x \in 1 .. k - 1 : parts[x] # i
    BY <1>0, <1>14 DEF j
  <2>2. u.recv_gap[i].delivered = s.recv_gap[i].delivered
        /\ (s.recv_gap[i].len > 0 => p <= u.recv_gap[i].off)
    BY <1>1, <2>1 DEF Fronted
  <2>3. t.recv_gap[i].delivered = s.recv_gap[i].delivered
    BY <1>10, <2>1, <2>2
  <2>4. ASSUME s.recv_gap[i].len > 0 PROVE p + l <= t.recv_gap[i].off
    <3>0. /\ t.recv_gap[i].off \in Int /\ u.recv_gap[i].off \in Int /\ p \in Nat /\ l \in Nat
          /\ u.recv_gap[i].len = s.recv_gap[i].len /\ s.recv_gap[i].len \in Nat
      BY <1>1, <1>2, <1>3, <1>12, StateParts
    <3>1. CASE l = 0
      BY <1>10, <2>1, <2>2, <2>4, <3>0, <3>1
    <3>2. CASE l > 0
      <4>1. \/ u.recv_gap[i].off + u.recv_gap[i].len <= u.recv_gap[j].off
            \/ u.recv_gap[j].off + u.recv_gap[j].len <= u.recv_gap[i].off
        BY <1>0, <1>1, <1>3, <1>8, <2>1, <2>4, <3>0, <3>2, EntriesApart DEF l
      <4>2. u.recv_gap[j].len = l /\ u.recv_gap[j].off \in Int /\ p <= u.recv_gap[j].off
        BY <1>0, <1>3, <1>5, <3>2 DEF l
      <4>3. t.recv_gap[i].off =
              IF p <= u.recv_gap[i].off /\ u.recv_gap[i].off < u.recv_gap[j].off
              THEN u.recv_gap[i].off + l ELSE u.recv_gap[i].off
        BY <1>10, <2>1, <3>2
      <4> DEFINE a == u.recv_gap[i].off
                 b == u.recv_gap[j].off
                 c == t.recv_gap[i].off
                 d == s.recv_gap[i].len
      <4>4. /\ a \in Int /\ b \in Int /\ c \in Int /\ d \in Nat /\ d > 0 /\ p <= a /\ p <= b
            /\ (a + d <= b \/ b + l <= a)
            /\ c = IF p <= a /\ a < b THEN a + l ELSE a
        BY <2>2, <2>4, <3>0, <4>1, <4>2, <4>3
      <4> HIDE DEF a, b, c, d
      <4>5. p + l <= c
        BY <3>0, <3>2, <4>4
      <4> QED
        BY <4>5 DEF c
    <3> QED
      BY <3>0, <3>1, <3>2
  <2> QED
    BY <2>3, <2>4
<1>b. ASSUME NEW x \in 1 .. k PROVE t.recv_gap[parts[x]].delivered
  <2>1. CASE x = k
    BY <1>10, <2>1 DEF j
  <2>2. CASE x # k
    <3>1. x \in 1 .. k - 1 /\ x \in 1 .. n
      BY <1>0, <2>2
    <3>2. u.recv_gap[parts[x]].delivered /\ parts[x] \in Valid(s) \ {j}
      BY <1>0, <1>1, <1>4, <3>1 DEF Fronted
    <3> QED
      BY <1>10, <3>2
  <2> QED
    BY <2>1, <2>2
<1>15. Fronted(s, parts, k, t, p + l)
  BY <1>2, <1>13, <1>14, <1>b DEF Fronted, A
<1> QED
  <2>1. p + l \in Nat
    BY <1>1, <1>2
  <2>2. [st |-> t, pos |-> p + l] \in GatherStates(s, parts, k)
    BY <1>12, <1>15, <2>1 DEF GatherStates
  <2> QED
    BY <1>11, <2>2 DEF j

GatherFold == INSTANCE FoldFacts WITH Op <- GatherPart

\* The numbers are well-ordered, as the facts of the instance suppose.
LEMMA GatherWellOrdered == GatherFold!WellOrdered
BY LeastNat DEF GatherFold!WellOrdered

\* Gathering the parts of a message at the front of the pool.
LEMMA GatherOK ==
  ASSUME NEW s \in State, PoolOK(s), NEW parts \in Seq(Valid(s)), Distinct(parts)
  PROVE  Gather(s, parts) \in GatherStates(s, parts, Len(parts))
<1> DEFINE base == [st |-> s, pos |-> 0]
           P == [k \in 0 .. Len(parts) |-> GatherStates(s, parts, k)]
<1>0. Len(parts) \in Nat /\ 0 \in 0 .. Len(parts) /\ Len(parts) \in 0 .. Len(parts)
      /\ parts \in Seq(Slots)
      /\ \A k \in 1 .. Len(parts) : k \in 0 .. Len(parts) /\ k - 1 \in 0 .. Len(parts)
  <2>1. Valid(s) \in SUBSET Slots
    BY StateParts
  <2> QED
    BY <2>1
<1>1. base \in P[0]
  <2>1. Kept(s, s)
    BY KeptRefl
  <2>2. Before(s, parts, 0) = 0
    BY <1>0, PartSums
  <2>3. \A j \in Valid(s) : s.recv_gap[j].len > 0 => 0 <= s.recv_gap[j].off
    <3>1. \A j \in Valid(s) : j \in Slots /\ (Lens(s)[j] > 0 => 0 <= Offs(s)[j])
      BY StateParts DEF PoolOK, Tiled, Inside
    <3> QED
      BY <3>1, StateParts
  <2>4. Fronted(s, parts, 0, s, 0)
    BY <2>2, <2>3 DEF Fronted
  <2> QED
    BY <1>0, <2>1, <2>4 DEF GatherStates
<1>2. \A k \in 1 .. Len(parts) : \A r \in P[k - 1] : GatherPart(r, parts[k]) \in P[k]
  BY <1>0, GatherStep
<1> HIDE DEF P, base
<1>3. GatherFold!Fold(base, parts) \in P[Len(parts)]
  BY <1>1, <1>2, GatherWellOrdered, GatherFold!FoldInduction
<1>4. GatherFold!Fold(base, parts) = FoldLeft(GatherPart, base, parts)
  BY DEF FoldLeft, MapThenFoldSet, Max,
         GatherFold!Fold, GatherFold!Largest
<1> QED
  BY <1>0, <1>3, <1>4 DEF Gather, P, base

\* Parts(s, i) are live entries with consecutive TSNs, up to the first that ends a message.
LEMMA PartsFacts ==
  ASSUME NEW s \in State, NEW i \in Slots, Parts(s, i) # <<>>
  PROVE  /\ Parts(s, i) \in Seq(Live(s)) /\ Parts(s, i) \in Seq(Valid(s))
         /\ Len(Parts(s, i)) \in 1 .. MAX_RECV_GAP
         /\ Distinct(Parts(s, i))
         /\ \A k \in 1 .. Len(Parts(s, i)) :
              /\ s.recv_gap[Parts(s, i)[k]].tsn = Plus(s.recv_gap[i].tsn, k - 1, TSN_MOD)
              /\ s.recv_gap[Parts(s, i)[k]].E <=> k = Len(Parts(s, i))
<1> DEFINE g == s.recv_gap
           At(n) == {j \in Live(s) : g[j].tsn = Plus(g[i].tsn, n, TSN_MOD)}
           IsEnd(n) == At(n) # {} /\ g[Min(At(n))].E
           last == {n \in 0..(MAX_RECV_GAP - 1) :
                      IsEnd(n) /\ \A d \in 0..n : At(d) # {} /\ (d < n => ~IsEnd(d))}
           z == Max(last)
           p == Parts(s, i)
<1>0. /\ MAX_RECV_GAP \in Nat /\ MAX_RECV_GAP > 1 /\ TSN_MOD \in Nat /\ TSN_MOD > MAX_RECV_GAP
  BY RecvSizes
<1>1. Live(s) \in SUBSET Slots /\ Live(s) \in SUBSET Valid(s) /\ Slots \in SUBSET Nat
      /\ \A j \in Slots : g[j].tsn \in 0 .. TSN_MOD - 1
  <2>1. Live(s) \in SUBSET Valid(s) /\ Valid(s) \in SUBSET Slots /\ \A j \in Slots : g[j] \in Entry
    BY StateParts
  <2>2. Slots \in SUBSET Nat
    BY <1>0 DEF Slots
  <2> QED
    BY <2>1, <2>2 DEF Entry
<1>2. last # {} /\ p = [k \in 1 .. (z + 1) |-> Min(At(k - 1))]
  BY DEF Parts
<1>3. last \in SUBSET (0 .. (MAX_RECV_GAP - 1)) /\ MAX_RECV_GAP - 1 \in Nat
  BY <1>0
<1>4. \A n : At(n) # {} => Min(At(n)) \in At(n)
  <2> SUFFICES ASSUME NEW n, At(n) # {} PROVE Min(At(n)) \in At(n)
    OBVIOUS
  <2>1. At(n) \subseteq Nat
    BY <1>1
  <2> HIDE DEF At
  <2> QED
    BY <2>1, MinOf
<1> HIDE DEF last
<1>5. z \in last
  BY <1>2, <1>3, MaxOf
<1> HIDE DEF z
<1>6. z \in 0 .. (MAX_RECV_GAP - 1) /\ IsEnd(z) /\ \A d \in 0 .. z : At(d) # {} /\ (d < z => ~IsEnd(d))
  BY <1>5 DEF last
<1> HIDE DEF p
<1>7. /\ z + 1 \in Nat /\ z + 1 \in 1 .. MAX_RECV_GAP
      /\ \A k \in 1 .. z + 1 : /\ k - 1 \in 0 .. z /\ k - 1 \in 0 .. TSN_MOD - 1
                               /\ (k - 1 < z <=> k # z + 1) /\ (k - 1 = z <=> k = z + 1)
  BY <1>0, <1>6
<1>8. ASSUME NEW k \in 1 .. z + 1
      PROVE  /\ p[k] \in Live(s) /\ g[p[k]].tsn = Plus(g[i].tsn, k - 1, TSN_MOD)
             /\ g[p[k]].E <=> k = z + 1
  <2>1. p[k] = Min(At(k - 1)) /\ At(k - 1) # {}
    BY <1>2, <1>6, <1>7
  <2>2. p[k] \in At(k - 1)
    BY <1>4, <2>1
  <2>3. g[p[k]].E <=> IsEnd(k - 1)
    BY <2>1
  <2>4. IsEnd(k - 1) <=> k = z + 1
    <3> HIDE DEF IsEnd, At
    <3> QED
      BY <1>6, <1>7
  <2> HIDE DEF IsEnd
  <2> QED
    BY <2>2, <2>3, <2>4
<1>9. p \in Seq(Live(s)) /\ p \in Seq(Valid(s)) /\ Len(p) = z + 1
  <2>1. p = [k \in 1 .. z + 1 |-> p[k]]
    BY <1>2, Zenon
  <2>2. \A k \in 1 .. z + 1 : p[k] \in Live(s) /\ p[k] \in Valid(s)
    BY <1>1, <1>8
  <2> HIDE DEF At
  <2>3. p \in [1 .. z + 1 -> Live(s)] /\ p \in [1 .. z + 1 -> Valid(s)]
    BY <2>1, <2>2, Zenon
  <2> QED
    BY <1>7, <2>3
<1>10. Distinct(p)
  <2> SUFFICES ASSUME NEW x \in 1 .. z + 1, NEW y \in 1 .. z + 1, p[x] = p[y] PROVE x = y
    BY <1>9 DEF Distinct
  <2> DEFINE b == g[i].tsn
  <2>1. Plus(b, x - 1, TSN_MOD) = Plus(b, y - 1, TSN_MOD)
    BY <1>8
  <2>2. b \in Nat /\ TSN_MOD > 0 /\ x - 1 \in 0 .. TSN_MOD - 1 /\ y - 1 \in 0 .. TSN_MOD - 1
    BY <1>0, <1>1, <1>7
  <2> HIDE DEF b
  <2>3. x - 1 = y - 1
    BY <1>0, <2>1, <2>2, ModDistinct DEF Plus
  <2> QED
    BY <2>3
<1> QED
  BY <1>7, <1>8, <1>9, <1>10 DEF p

\* A kept state is a state of the invariant.
LEMMA KeptOK ==
  ASSUME NEW s \in RxStates, NEW t, Kept(s, t)
  PROVE  t \in RxStates
<1>0. s \in State /\ t \in State /\ Valid(t) = Valid(s)
  BY DEF RxStates, Kept
<1>1. FragmentsOK(t)
  <2> SUFFICES ASSUME NEW j \in Live(t), ~(t.recv_gap[j].B /\ t.recv_gap[j].E)
               PROVE  t.recv_gap[j].len > 0
    BY DEF FragmentsOK
  <2>1. j \in Valid(s) /\ ~t.recv_gap[j].delivered /\ j \in Slots /\ KeptEntry(s, t, j)
    BY <1>0, StateParts DEF Live, Kept
  <2>2. /\ t.recv_gap[j].len = s.recv_gap[j].len /\ t.recv_gap[j].B = s.recv_gap[j].B
        /\ t.recv_gap[j].E = s.recv_gap[j].E
    BY <1>0, <2>1, KeptFields
  <2>3. j \in Live(s)
    BY <2>1 DEF KeptEntry, Live
  <2> QED
    BY <2>2, <2>3 DEF RxStates, FragmentsOK
<1> QED
  BY <1>0, <1>1 DEF RxStates, Kept

\* A delivery: gather the parts, then count the message on its stream.
Delivered(s, i, t) ==
    LET g == Gather(s, Parts(s, i)).st
    IN /\ t \in State /\ Kept(s, g)
       /\ Relabelled(g, t) /\ t.recv_gap = g.recv_gap /\ t.recv_gap_buf = g.recv_gap_buf
       /\ t.cumulative_tsn = g.cumulative_tsn

\* What nsctp_poll_delivery does to the table when it delivers from entry i.
LEMMA DeliverStep ==
  ASSUME NEW s \in RxStates, NEW i \in Deliverable(s)
  PROVE  Delivered(s, i, DeliverFrom(s, i).st)
<1> DEFINE e == s.recv_gap[i]
           g == Gather(s, Parts(s, i)).st
           v == Plus(g.recv_ssn[e.sid], 1, SSN_MOD)
           h == [g.recv_ssn EXCEPT ![e.sid] = v]
           t == DeliverFrom(s, i).st
<1>0. s \in State /\ PoolOK(s)
  BY DEF RxStates
<1>1. i \in Slots /\ Parts(s, i) # <<>> /\ InSequence(s, i)
  BY <1>0, StateParts DEF Deliverable
<1>2. Gather(s, Parts(s, i)) \in GatherStates(s, Parts(s, i), Len(Parts(s, i)))
  BY <1>0, <1>1, PartsFacts, GatherOK
<1>3. g \in State /\ Kept(s, g)
  BY <1>2 DEF GatherStates
<1>4. \/ t = g
      \/ ~(e.U \/ e.forwarded) /\ t = [g EXCEPT !.recv_ssn = h]
  <2>1. t = IF e.U \/ e.forwarded THEN g
            ELSE [g EXCEPT !.recv_ssn[e.sid] = Plus(@, 1, SSN_MOD)]
    BY DEF DeliverFrom
  <2> HIDE DEF g, t
  <2>2. [g EXCEPT !.recv_ssn[e.sid] = Plus(@, 1, SSN_MOD)] = [g EXCEPT !.recv_ssn = h]
    BY <1>3 DEF State
  <2> QED
    BY <2>1, <2>2
<1> HIDE DEF g, t
<1>5. CASE t = g
  BY <1>3, <1>5, SameTable DEF Delivered, g, t
<1>6. CASE ~(e.U \/ e.forwarded) /\ t = [g EXCEPT !.recv_ssn = h]
  <2>1. e.sid \in DOMAIN s.recv_ssn
    BY <1>1, <1>6 DEF InSequence, StreamKnown
  <2>2. g.recv_ssn = s.recv_ssn /\ g.recv_ssn \in Streams /\ e.sid \in Nat
    <3>1. e \in Entry
      BY <1>0, <1>1, StateParts
    <3> QED
      BY <1>3, <3>1, StateParts DEF Kept, Entry
  <2>3. 0 \in 0 .. SSN_MOD - 1
    BY RecvSizes
  <2>4. g.recv_ssn[e.sid] \in Int
    <3> DEFINE f == g.recv_ssn
               x == e.sid
    <3>1. f \in Streams /\ x \in Nat /\ x \in DOMAIN f
      BY <2>1, <2>2
    <3> HIDE DEF f, x
    <3>2. f[x] \in 0 .. SSN_MOD - 1
      BY <2>3, <3>1, StreamEntry
    <3>3. f[x] \in Int
      BY <3>2
    <3> QED
      BY <3>3 DEF f, x
  <2>5. v \in 0 .. SSN_MOD - 1
    <3> DEFINE y == g.recv_ssn[e.sid]
    <3>1. y \in Int /\ 1 \in Int
      BY <2>4
    <3> HIDE DEF y
    <3>2. Plus(y, 1, SSN_MOD) \in 0 .. SSN_MOD - 1
      BY <3>1, PlusSsn
    <3> QED
      BY <3>2 DEF y
  <2> HIDE DEF v
  <2>6. h \in Streams
    BY <2>2, <2>5, StreamEntry
  <2> HIDE DEF h
  <2>7. /\ t \in State /\ t.recv_gap = g.recv_gap /\ t.recv_gap_buf = g.recv_gap_buf
        /\ t.recv_gap_count = g.recv_gap_count /\ t.cumulative_tsn = g.cumulative_tsn
    BY <1>3, <1>6, <2>6 DEF State
  <2> QED
    BY <1>3, <2>7, SameTable DEF Delivered, g, t
<1> QED
  BY <1>4, <1>5, <1>6

\* nsctp_poll_delivery keeps the invariant.
LEMMA DeliverOK ==
  ASSUME NEW s \in RxStates, NEW i \in Deliverable(s)
  PROVE  DeliverFrom(s, i).st \in RxStates
<1> DEFINE g == Gather(s, Parts(s, i)).st
           t == DeliverFrom(s, i).st
<1>1. Delivered(s, i, t)
  BY DeliverStep
<1> HIDE DEF t
<1>2. t \in State /\ Kept(s, g) /\ Relabelled(g, t)
  BY <1>1 DEF Delivered
<1> HIDE DEF g
<1>3. g \in RxStates
  BY <1>2, KeptOK
<1>4. t \in RxStates
  BY <1>2, <1>3, RelabelOK
<1> QED
  BY <1>4 DEF t

\* The first deliverable slot is one.
LEMMA FirstDeliverable ==
  ASSUME NEW s \in RxStates, Deliverable(s) # {}
  PROVE  Min(Deliverable(s)) \in Deliverable(s)
<1>1. s \in State
  BY DEF RxStates
<1>2. Slots \subseteq Nat
  BY RecvSizes DEF Slots
<1>3. Deliverable(s) \subseteq Nat
  BY <1>1, <1>2, StateParts DEF Deliverable
<1> QED
  BY <1>3, MinOf

-----------------------------------------------------------------------------
(* The invariant.                                                           *)

\* The receive state is well formed, the control queue within its bounds.
Inv == /\ rx \in RxStates
       /\ out_count \in 0 .. OUT_QUEUE_SIZE
       /\ gone \subseteq Messages

\* The state an association starts in.
LEMMA InitOK == RxInit \in RxStates
<1> DEFINE g == [i \in Slots |-> NoEntry]
           c == Plus(InitTsn, -1, TSN_MOD)
<1>1. RxInit = [cumulative_tsn |-> c, recv_gap |-> g, recv_gap_count |-> 0,
                recv_gap_buf |-> <<>>, recv_ssn |-> <<>>, sack_needed |-> FALSE]
  BY DEF RxInit
<1>2. c \in 0 .. TSN_MOD - 1
  <2>1. InitTsn \in Int /\ -1 \in Int
    BY RecvSizes
  <2> QED
    BY <2>1, PlusTsn
<1>3. g \in [Slots -> Entry] /\ \A i \in Slots : g[i] = NoEntry
  BY NoEntryType
<1>4. <<>> \in Streams
  <2>1. <<>> \in [{} -> 0 .. SSN_MOD - 1]
    OBVIOUS
  <2>2. {} \in SUBSET Nat
    OBVIOUS
  <2> QED
    BY <2>1, <2>2 DEF Streams
<1>5. <<>> \in Seq(Byte) /\ Len(<<>>) = 0
  OBVIOUS
<1> HIDE DEF c, g
<1>6. RxInit \in State /\ RxInit.recv_gap = g /\ RxInit.recv_gap_count = 0
      /\ RxInit.recv_gap_buf = <<>>
  BY <1>1, <1>2, <1>3, <1>4, <1>5 DEF State
<1>7. Valid(RxInit) = {} /\ Live(RxInit) = {}
  BY <1>3, <1>6 DEF Valid, Live, NoEntry
<1>8. Len(RxInit.recv_gap_buf) = 0
  BY <1>5, <1>6
<1>9. PoolOK(RxInit)
  <2>1. Offs(RxInit) \in [Slots -> Int] /\ Lens(RxInit) \in [Slots -> Nat]
    BY <1>6, StateParts
  <2>2. Tiled(Offs(RxInit), Lens(RxInit), {}, 0)
    BY DEF Tiled, Inside, Apart, Covered
  <2> QED
    BY <1>7, <1>8, <2>2 DEF PoolOK
<1>10. Cardinality(Valid(RxInit)) = 0
  BY <1>7, FS_EmptySet
<1>11. 0 <= RECV_GAP_BUF_SIZE
  BY RecvSizes
<1> QED
  BY <1>6, <1>7, <1>8, <1>9, <1>10, <1>11 DEF RxStates, FragmentsOK

\* Queueing a SACK.
LEMMA SackOK ==
  ASSUME NEW s \in RxStates, out_count \in 0 .. OUT_QUEUE_SIZE, QueueSack(s)
  PROVE  rx' \in RxStates /\ out_count' \in 0 .. OUT_QUEUE_SIZE
<1> DEFINE t == [s EXCEPT !.sack_needed = FALSE]
<1>1. t \in RxStates
  <2>1. s \in State
    BY DEF RxStates
  <2>2. t \in State /\ t.recv_gap = s.recv_gap /\ t.recv_gap_buf = s.recv_gap_buf
        /\ t.recv_gap_count = s.recv_gap_count
    BY <2>1 DEF State
  <2> QED
    BY <2>1, <2>2, SameTable, RelabelOK
<1> HIDE DEF t
<1>2. (rx' = t /\ out_count' = out_count + 1 /\ ~nsctp_out_full) \/ (rx' = s /\ out_count' = out_count)
  BY DEF QueueSack, t
<1> QED
  BY <1>1, <1>2, RecvSizes DEF nsctp_out_full

\* Every step keeps the invariant.
LEMMA InvStep == Inv /\ [Next]_vars => Inv'
<1> SUFFICES ASSUME Inv, [Next]_vars PROVE Inv'
  OBVIOUS
<1>0. rx \in RxStates /\ out_count \in 0 .. OUT_QUEUE_SIZE /\ gone \subseteq Messages
  BY DEF Inv
<1>1. ASSUME NEW k \in DOMAIN Chunks, HandleData(k) PROVE Inv'
  <2> DEFINE s == nsctp_handle_data_chunk(rx, Chunks[k], TsnOf(k))
  <2>1. s \in RxStates
    BY <1>0, TsnType, DataChunkOK
  <2>2. ((rx' = s /\ out_count' = out_count) \/ QueueSack(s)) /\ gone' = gone
    BY <1>1 DEF HandleData, HandleChunk
  <2> HIDE DEF s
  <2> QED
    BY <1>0, <2>1, <2>2, SackOK DEF Inv
<1>2. ASSUME NEW h \in Messages, NEW m \in Messages, HandleForwardTsn(h, m) PROVE Inv'
  <2>0. PICK pairs \in SetToSeqs(SkippedPairs(h, m)) :
           QueueSack(nsctp_handle_forward_tsn(rx, TsnOf(LastChunk(m)), pairs))
    BY <1>2 DEF HandleForwardTsn
  <2> DEFINE s == nsctp_handle_forward_tsn(rx, TsnOf(LastChunk(m)), pairs)
  <2>1. s \in RxStates
    BY <1>0, LastChunkType, SkippedPairsType, ForwardTsnOK
  <2>2. QueueSack(s) /\ gone' = gone
    BY <1>2, <2>0 DEF HandleForwardTsn
  <2> HIDE DEF s
  <2> QED
    BY <1>0, <2>1, <2>2, SackOK DEF Inv
<1>3. ASSUME NEW given \in SUBSET Messages, PeerAbandon(given) PROVE Inv'
  BY <1>0, <1>3 DEF PeerAbandon, Inv
<1>4. ASSUME PollDelivery PROVE Inv'
  <2> DEFINE s == nsctp_rx_reclaim(rx)
             d == DeliverFrom(s, Min(Deliverable(s)))
  <2>1. s \in RxStates
    BY <1>0, ReclaimOK
  <2>2. out_count' = out_count /\ gone' = gone /\ (rx' = s \/ (Deliverable(s) # {} /\ rx' = d.st))
    BY <1>4 DEF PollDelivery
  <2> HIDE DEF s
  <2>3. Deliverable(s) # {} => d.st \in RxStates
    BY <2>1, FirstDeliverable, DeliverOK
  <2> HIDE DEF d
  <2> QED
    BY <1>0, <2>1, <2>2, <2>3 DEF Inv
<1>5. ASSUME PollOutput PROVE Inv'
  <2> DEFINE t == [rx EXCEPT !.sack_needed = FALSE]
  <2>1. t \in RxStates
    <3>1. rx \in State
      BY <1>0 DEF RxStates
    <3>2. t \in State /\ t.recv_gap = rx.recv_gap /\ t.recv_gap_buf = rx.recv_gap_buf
          /\ t.recv_gap_count = rx.recv_gap_count
      BY <3>1 DEF State
    <3> QED
      BY <1>0, <3>1, <3>2, SameTable, RelabelOK
  <2>2. \/ out_count > 0 /\ out_count' = out_count - 1 /\ rx' = rx /\ gone' = gone
        \/ rx' = t /\ out_count' = out_count /\ gone' = gone
    BY <1>5 DEF PollOutput
  <2> HIDE DEF t
  <2> QED
    BY <1>0, <2>1, <2>2, RecvSizes DEF Inv
<1>6. CASE UNCHANGED vars
  BY <1>0, <1>6 DEF vars, Inv
<1> QED
  BY <1>1, <1>2, <1>3, <1>4, <1>5, <1>6 DEF Next

\* In every reachable state the receive state is well formed (Inv).
THEOREM RecvInvariant == Spec => []Inv
<1>1. Init => Inv
  BY InitOK, RecvSizes DEF Init, Inv
<1> QED
  BY <1>1, InvStep, PTL DEF Spec

\* The receive state keeps its type: the count of the table is the number of its valid
\* entries, the pool never outgrows RECV_GAP_BUF_SIZE, every sequence number keeps its
\* width and the control queue its bound (TypeOK), for every size of table and pool, every
\* traffic of a conforming peer and every order of arrival.
THEOREM TypeCorrect == Spec => []TypeOK
<1>1. Inv => TypeOK
  <2> SUFFICES ASSUME Inv PROVE TypeOK
    OBVIOUS
  <2>1. rx \in RxStates /\ rx \in State
    BY DEF Inv, RxStates
  <2>2. /\ rx.cumulative_tsn \in 0..(TSN_MOD - 1) /\ rx.sack_needed \in BOOLEAN
        /\ rx.recv_gap_count = Cardinality(Valid(rx)) /\ Len(rx.recv_gap_buf) <= RECV_GAP_BUF_SIZE
    BY <2>1, StateParts DEF RxStates
  <2>3. rx.recv_gap_count \in 0..MAX_RECV_GAP
    BY <2>2, ValidFinite
  <2>4. \A i \in Slots : DOMAIN rx.recv_gap[i] = DOMAIN NoEntry
    <3>1. \A e \in Entry : DOMAIN e = DOMAIN NoEntry
      BY DEF Entry, NoEntry
    <3> QED
      BY <2>1, <3>1, StateParts
  <2>5. \A sid \in DOMAIN rx.recv_ssn : rx.recv_ssn[sid] \in 0..(SSN_MOD - 1)
    <3>1. rx.recv_ssn \in Streams
      BY <2>1, StateParts
    <3> QED
      BY <3>1 DEF Streams
  <2> QED
    BY <2>2, <2>3, <2>4, <2>5 DEF TypeOK, Inv
<1> QED
  BY <1>1, RecvInvariant, PTL

\* The entries of the table share the pool without overlap and own every byte of it
\* (PoolTiled), however chunks were appended, delivered entries cut out (nsctp_rx_reclaim),
\* bytes rotated (nsctp_rx_move) and entries merged (nsctp_rx_merge).
THEOREM PoolStaysTiled == Spec => []PoolTiled
<1>1. Inv => PoolTiled
  <2> SUFFICES ASSUME Inv PROVE PoolTiled
    OBVIOUS
  <2> DEFINE off == Offs(rx)
             len == Lens(rx)
             V == Valid(rx)
             N == Len(rx.recv_gap_buf)
             own(i) == (rx.recv_gap[i].off + 1)..(rx.recv_gap[i].off + rx.recv_gap[i].len)
  <2>1. rx \in State /\ Tiled(off, len, V, N)
    BY DEF Inv, RxStates, PoolOK
  <2>2. V \in SUBSET Slots /\ N \in Nat /\ DOMAIN rx.recv_gap_buf = 1 .. N
        /\ \A i \in Slots : /\ rx.recv_gap[i].off \in Int /\ rx.recv_gap[i].len \in Nat
                            /\ off[i] = rx.recv_gap[i].off /\ len[i] = rx.recv_gap[i].len
    <3>1. rx.recv_gap_buf \in Seq(Byte)
      BY <2>1, StateParts
    <3> QED
      BY <2>1, <3>1, StateParts
  <2> HIDE DEF off, len, V, N
  <2>3. \A i \in V : own(i) = (off[i] + 1)..(off[i] + len[i]) /\ off[i] \in Int /\ len[i] \in Nat
    BY <2>2
  <2> HIDE DEF own
  <2>4. \A i, j \in V : i # j => own(i) \cap own(j) = {}
    <3> SUFFICES ASSUME NEW i \in V, NEW j \in V, i # j, NEW p \in own(i), p \in own(j) PROVE FALSE
      OBVIOUS
    <3>1. p \in Int /\ off[i] + 1 <= p /\ p <= off[i] + len[i] /\ off[j] + 1 <= p /\ p <= off[j] + len[j]
      BY <2>3
    <3>2. len[i] > 0 /\ len[j] > 0
      BY <2>3, <3>1
    <3>3. off[i] + len[i] <= off[j] \/ off[j] + len[j] <= off[i]
      BY <2>1, <3>2 DEF Tiled, Apart
    <3> QED
      BY <2>3, <3>1, <3>3
  <2>5. UNION {own(i) : i \in V} = 1 .. N
    <3>1. ASSUME NEW i \in V, NEW p \in own(i) PROVE p \in 1 .. N
      <4>1. p \in Int /\ off[i] + 1 <= p /\ p <= off[i] + len[i] /\ off[i] \in Int /\ len[i] \in Nat
        BY <2>3
      <4>2. len[i] > 0
        BY <4>1
      <4>3. 0 <= off[i] /\ off[i] + len[i] <= N
        BY <2>1, <4>2 DEF Tiled, Inside
      <4> QED
        BY <2>2, <4>1, <4>3
    <3>2. ASSUME NEW p \in 1 .. N PROVE \E i \in V : p \in own(i)
      <4>1. PICK i \in V : off[i] < p /\ p <= off[i] + len[i]
        BY <2>1 DEF Tiled, Covered
      <4> QED
        BY <2>2, <2>3, <4>1
    <3> QED
      BY <3>1, <3>2
  <2>6. PoolTiled <=> /\ \A i, j \in V : i # j => own(i) \cap own(j) = {}
                      /\ UNION {own(i) : i \in V} = DOMAIN rx.recv_gap_buf
    BY DEF PoolTiled, own, V
  <2> QED
    BY <2>2, <2>4, <2>5, <2>6
<1> QED
  BY <1>1, RecvInvariant, PTL

-----------------------------------------------------------------------------
(* TSNs.                                                                    *)

\* Serial comparison of numbers less than half of M apart is subtraction.
LEMMA SerialDiff ==
  ASSUME NEW M \in Nat, M > 0, NEW x \in Int, NEW y \in Int,
         2 * (x - y) < M, 2 * (y - x) < M
  PROVE  Diff(x % M, y % M, M) = x - y
<1> DEFINE p == x \div M
           u == x % M
           q == y \div M
           v == y % M
           z == u - v
           d == z % M
           e == z \div M
           t == (p - q) + e
<1>1. /\ p \in Int /\ u \in Int /\ x = M * p + u
      /\ q \in Int /\ v \in Int /\ y = M * q + v
  BY IntDivMod
<1>2. Diff(u, v, M) = IF 2 * d < M THEN d ELSE d - M
  BY DEF Diff
<1> HIDE DEF p, u, q, v
<1>3. z \in Int
  BY <1>1
<1> HIDE DEF z
<1>4. e \in Int /\ d \in 0 .. M - 1 /\ z = M * e + d
  BY <1>3, IntDivMod
<1> HIDE DEF d, e
<1>5. t \in Int /\ x - y = M * t + d
  <2>1. M * ((p - q) + e) = M * p - M * q + M * e
    BY <1>1, <1>4
  <2>2. x - y = (M * p - M * q) + z
    BY <1>1 DEF z
  <2> QED
    BY <1>1, <1>4, <2>1, <2>2
<1> HIDE DEF t
<1>6. CASE 2 * d < M
  <2>1. -M < M * t /\ M * t < M
    BY <1>4, <1>5, <1>6
  <2>2. t = 0
    BY <1>5, <2>1, MultZero
  <2>3. M * t = 0
    BY <2>2
  <2>4. x - y = d
    BY <1>4, <1>5, <2>3
  <2> QED
    BY <1>2, <1>6, <2>4 DEF u, v
<1>7. CASE ~(2 * d < M)
  <2>0. t + 1 \in Int /\ M * (t + 1) = M * t + M
    BY <1>5
  <2>1. -M < M * (t + 1) /\ M * (t + 1) < M
    BY <1>4, <1>5, <1>7, <2>0
  <2>2. t + 1 = 0
    BY <2>0, <2>1, MultZero
  <2>3. M * (t + 1) = 0
    BY <2>2
  <2>4. x - y = d - M
    BY <1>4, <1>5, <2>0, <2>3
  <2> QED
    BY <1>2, <1>7, <2>4 DEF u, v
<1> QED
  BY <1>6, <1>7

\* The number of chunks the peer sends in all.
NC == Len(Chunks)

\* The chunks of the peer and how their number compares with the range of TSNs.
LEMMA ChunkCount ==
  /\ NC \in Nat /\ Chunks \in Seq(Chunk) /\ DOMAIN Chunks = 1 .. NC
  /\ \A k \in 1 .. NC : Chunks[k] \in Chunk
  /\ TSN_MOD \in Nat /\ TSN_MOD > 0 /\ MAX_RECV_GAP \in Nat /\ InitTsn \in Nat
  /\ 2 * NC < TSN_MOD /\ NC + MAX_RECV_GAP < TSN_MOD
<1>1. Chunks \in Seq(Chunk)
  BY ChunkLayout
<1>2. NC \in Nat /\ DOMAIN Chunks = 1 .. NC /\ \A k \in 1 .. NC : Chunks[k] \in Chunk
  BY <1>1 DEF NC
<1> QED
  BY <1>1, <1>2, RecvSizes, TsnsFit DEF NC

\* Different chunks have different TSNs.
LEMMA TsnSame ==
  ASSUME NEW a \in 0 .. NC + MAX_RECV_GAP, NEW b \in 0 .. NC + MAX_RECV_GAP, TsnOf(a) = TsnOf(b)
  PROVE  a = b
<1> DEFINE x == InitTsn + (a - 1)
           y == InitTsn + (b - 1)
<1>1. /\ x \in Int /\ y \in Int /\ x - y < TSN_MOD /\ y - x < TSN_MOD
      /\ TSN_MOD \in Nat /\ TSN_MOD > 0
  BY ChunkCount
<1>2. x % TSN_MOD = y % TSN_MOD
  BY DEF TsnOf, Plus
<1> HIDE DEF x, y
<1>3. x = y
  BY <1>1, <1>2, ModSame
<1> QED
  BY <1>3, ChunkCount DEF x, y

\* The TSN n chunks on.
LEMMA TsnPlus ==
  ASSUME NEW a \in Int, NEW n \in Int
  PROVE  Plus(TsnOf(a), n, TSN_MOD) = TsnOf(a + n)
<1> DEFINE x == InitTsn + (a - 1)
<1>1. x \in Int /\ TSN_MOD \in Nat /\ TSN_MOD > 0 /\ InitTsn + (a + n - 1) = x + n
  BY ChunkCount
<1>2. TsnOf(a) = x % TSN_MOD /\ TsnOf(a + n) = (x + n) % TSN_MOD
  BY <1>1 DEF TsnOf, Plus
<1> HIDE DEF x
<1>3. ((x % TSN_MOD) + n) % TSN_MOD = (x + n) % TSN_MOD
  BY <1>1, ModAdd
<1> QED
  BY <1>2, <1>3 DEF Plus

\* Comparing TSNs compares chunks.
LEMMA TsnOrder ==
  ASSUME NEW a \in 0 .. NC, NEW b \in 0 .. NC
  PROVE  TsnDiff(TsnOf(a), TsnOf(b)) = a - b
<1> DEFINE x == InitTsn + (a - 1)
           y == InitTsn + (b - 1)
<1>1. /\ x \in Int /\ y \in Int /\ x - y = a - b /\ 2 * (x - y) < TSN_MOD /\ 2 * (y - x) < TSN_MOD
      /\ TSN_MOD \in Nat /\ TSN_MOD > 0
  BY ChunkCount
<1>2. TsnOf(a) = x % TSN_MOD /\ TsnOf(b) = y % TSN_MOD
  BY DEF TsnOf, Plus
<1> HIDE DEF x, y
<1>3. Diff(x % TSN_MOD, y % TSN_MOD, TSN_MOD) = x - y
  BY <1>1, SerialDiff
<1> QED
  BY <1>1, <1>2, <1>3 DEF TsnDiff

-----------------------------------------------------------------------------
(* The bytes of a chunk within its message.                                 *)

\* The bytes of chunk k.
Size(k) == Len(Chunks[k].payload)

\* Chunk k carries the bytes of its message after the first f[k].
Spans(f) ==
    \A k \in 1 .. NC :
      /\ f[k] \in Nat /\ Chunks[k].msg \in Messages /\ Size(k) \in Nat
      /\ \A p \in 1 .. Size(k) : Chunks[k].payload[p] = <<Chunks[k].msg, f[k] + p>>
      /\ Chunks[k].B => f[k] = 0
      /\ Chunks[k].E => f[k] + Size(k) = Sum(Lengths(Chunks[k].msg))
      /\ ~Chunks[k].E => /\ k + 1 \in 1 .. NC
                         /\ Chunks[k + 1].msg = Chunks[k].msg
                         /\ f[k + 1] = f[k] + Size(k)

\* Every chunk has its place within its message.
LEMMA SpansExist == \E f : Spans(f)
<1>1. PICK b : Layout(b, Len(Msgs), Chunks)
  BY ChunkLayout
<1> DEFINE f == [k \in 1 .. NC |-> Start(Chunks[k].msg, k - b[Chunks[k].msg])]
<1>2. ASSUME NEW m \in Messages, NEW i \in 1 .. Len(Lengths(m))
      PROVE  LET k == b[m] + i
             IN /\ k \in 1 .. NC /\ Chunks[k] = Fragments(m)[i] /\ Chunks[k].msg = m
                /\ f[k] = Start(m, i) /\ Size(k) = Lengths(m)[i]
  <2> DEFINE k == b[m] + i
  <2>1. Len(Lengths(m)) \in Nat
    BY MessageFacts
  <2>2. /\ b[m] \in Nat /\ b[m + 1] = b[m] + Len(Lengths(m)) /\ b[m + 1] <= NC
        /\ Chunks[k] = Fragments(m)[i]
    BY <1>1 DEF Layout, Messages, NC
  <2>3. Fragments(m)[i].msg = m /\ Len(Fragments(m)[i].payload) = Lengths(m)[i]
    BY FragmentFacts
  <2>4. k \in 1 .. NC /\ k - b[m] = i
    BY <2>1, <2>2, ChunkCount
  <2>5. f[k] = Start(m, i)
    BY <2>2, <2>3, <2>4
  <2> QED
    BY <2>2, <2>3, <2>4, <2>5 DEF Size
<1> HIDE DEF f
<1>3. ASSUME NEW m \in Messages, NEW i \in 1 .. Len(Lengths(m))
      PROVE  /\ Start(m, i) \in Nat /\ Lengths(m)[i] \in Nat
             /\ i = 1 => Start(m, i) = 0
             /\ i = Len(Lengths(m)) => Start(m, i) + Lengths(m)[i] = Sum(Lengths(m))
             /\ i + 1 \in 1 .. Len(Lengths(m)) => Start(m, i + 1) = Start(m, i) + Lengths(m)[i]
  <2> DEFINE lens == Lengths(m)
             n == Len(lens)
  <2>1. lens \in Seq(Nat) /\ n \in Nat /\ i - 1 \in 0 .. n /\ (i + 1) - 1 = i
        /\ lens[i] \in Nat
    BY MessageFacts
  <2>2. /\ Sum(SubSeq(lens, 1, 0)) = 0
        /\ \A k \in 1 .. n : Sum(SubSeq(lens, 1, k)) = Sum(SubSeq(lens, 1, k - 1)) + lens[k]
        /\ Sum(SubSeq(lens, 1, n)) = Sum(lens)
        /\ \A k \in 0 .. n : Sum(SubSeq(lens, 1, k)) \in Nat
    BY <2>1, SumFacts
  <2>3. Start(m, i) = Sum(SubSeq(lens, 1, i - 1)) /\ Start(m, i + 1) = Sum(SubSeq(lens, 1, i))
    BY <2>1 DEF Start
  <2> QED
    BY <2>1, <2>2, <2>3
<1>4. ASSUME NEW k \in 1 .. NC
      PROVE  /\ f[k] \in Nat /\ Chunks[k].msg \in Messages /\ Size(k) \in Nat
             /\ \A p \in 1 .. Size(k) : Chunks[k].payload[p] = <<Chunks[k].msg, f[k] + p>>
             /\ Chunks[k].B => f[k] = 0
             /\ Chunks[k].E => f[k] + Size(k) = Sum(Lengths(Chunks[k].msg))
             /\ ~Chunks[k].E => /\ k + 1 \in 1 .. NC
                                /\ Chunks[k + 1].msg = Chunks[k].msg
                                /\ f[k + 1] = f[k] + Size(k)
  <2>0. PICK m \in Messages : \E i \in 1 .. Len(Lengths(m)) : k = b[m] + i
    BY <1>1 DEF Layout, Messages, NC
  <2>1. PICK i \in 1 .. Len(Lengths(m)) : k = b[m] + i
    BY <2>0
  <2>2. /\ Chunks[k] = Fragments(m)[i] /\ Chunks[k].msg = m /\ f[k] = Start(m, i)
        /\ Size(k) = Lengths(m)[i]
    BY <1>2, <2>1
  <2>3. /\ Fragments(m)[i].B = (i = 1) /\ Fragments(m)[i].E = (i = Len(Lengths(m)))
        /\ \A p \in 1 .. Lengths(m)[i] : Fragments(m)[i].payload[p] = <<m, Start(m, i) + p>>
    BY FragmentFacts
  <2>4. /\ Start(m, i) \in Nat /\ Lengths(m)[i] \in Nat
        /\ i = 1 => Start(m, i) = 0
        /\ i = Len(Lengths(m)) => Start(m, i) + Lengths(m)[i] = Sum(Lengths(m))
        /\ i + 1 \in 1 .. Len(Lengths(m)) => Start(m, i + 1) = Start(m, i) + Lengths(m)[i]
    BY <1>3
  <2>5. ASSUME ~Chunks[k].E
        PROVE  k + 1 \in 1 .. NC /\ Chunks[k + 1].msg = m /\ f[k + 1] = f[k] + Size(k)
    <3>1. i # Len(Lengths(m))
      BY <2>2, <2>3, <2>5
    <3>2. i + 1 \in 1 .. Len(Lengths(m))
      BY <3>1, MessageFacts
    <3>3. b[m] \in Nat
      BY <1>1 DEF Layout, Messages
    <3>4. k + 1 = b[m] + (i + 1)
      BY <2>1, <3>3
    <3>5. k + 1 \in 1 .. NC /\ Chunks[k + 1].msg = m /\ f[k + 1] = Start(m, i + 1)
      BY <1>2, <3>2, <3>4
    <3> QED
      BY <2>2, <2>4, <3>2, <3>5
  <2> QED
    BY <2>2, <2>3, <2>4, <2>5
<1>5. Spans(f)
  BY <1>4 DEF Spans
<1> QED
  BY <1>5

-----------------------------------------------------------------------------
(* Messages and their chunks.                                               *)

\* The number of messages, and of the chunks before message m.
NM == Len(Msgs)
Base == CHOOSE b : Layout(b, NM, Chunks)

\* The chunks of message m are those after Base[m], as many as it has fragments.
LEMMA BaseFacts ==
  /\ NM \in Nat /\ Messages = 1 .. NM /\ Base[1] = 0 /\ Base[NM + 1] = NC
  /\ \A m \in Messages : /\ Base[m] \in Nat /\ Base[m + 1] \in 0 .. NC
                         /\ Base[m + 1] = Base[m] + Len(Lengths(m)) /\ Base[m] < Base[m + 1]
  /\ \A m \in Messages : \A i \in 1 .. Len(Lengths(m)) :
       /\ Base[m] + i \in 1 .. NC /\ Chunks[Base[m] + i] = Fragments(m)[i]
  /\ \A k \in 1 .. NC : \E m \in Messages : \E i \in 1 .. Len(Lengths(m)) : k = Base[m] + i
<1>0. NM \in Nat /\ Messages = 1 .. NM
  BY PeerConforms DEF Messages, NM
<1>1. Layout(Base, NM, Chunks)
  BY ChunkLayout DEF Base, NM
<1> HIDE DEF NM
<1>2. /\ Base[1] = 0 /\ Base[NM + 1] = NC
      /\ \A m \in Messages : /\ Base[m] \in Nat /\ Base[m + 1] = Base[m] + Len(Lengths(m))
                             /\ Base[m + 1] <= NC
                             /\ \A i \in 1 .. Len(Lengths(m)) : Chunks[Base[m] + i] = Fragments(m)[i]
      /\ \A k \in 1 .. NC : \E m \in Messages : \E i \in 1 .. Len(Lengths(m)) : k = Base[m] + i
  BY <1>0, <1>1 DEF Layout, NC
<1>3. ASSUME NEW m \in Messages
      PROVE  /\ Base[m] \in Nat /\ Base[m + 1] \in 0 .. NC
             /\ Base[m + 1] = Base[m] + Len(Lengths(m)) /\ Base[m] < Base[m + 1]
             /\ \A i \in 1 .. Len(Lengths(m)) :
                  /\ Base[m] + i \in 1 .. NC /\ Chunks[Base[m] + i] = Fragments(m)[i]
  <2>1. Len(Lengths(m)) \in Nat /\ Len(Lengths(m)) >= 1
    BY MessageFacts
  <2>2. NC \in Nat
    BY ChunkCount
  <2>3. /\ Base[m] \in Nat /\ Base[m + 1] = Base[m] + Len(Lengths(m)) /\ Base[m + 1] <= NC
        /\ \A i \in 1 .. Len(Lengths(m)) : Chunks[Base[m] + i] = Fragments(m)[i]
    BY <1>2
  <2>4. \A i \in 1 .. Len(Lengths(m)) : Base[m] + i \in 1 .. NC
    BY <2>1, <2>2, <2>3
  <2>5. Base[m + 1] \in 0 .. NC /\ Base[m] < Base[m + 1]
    BY <2>1, <2>2, <2>3
  <2> QED
    BY <2>3, <2>4, <2>5
<1> QED
  BY <1>0, <1>2, <1>3

\* Later messages have later chunks.
LEMMA BaseGrows ==
  ASSUME NEW x \in 1 .. NM + 1, NEW y \in 1 .. NM + 1, x <= y
  PROVE  Base[x] <= Base[y] /\ Base[x] \in 0 .. NC
<1> DEFINE Q == {d \in Nat : x + d <= NM + 1 => Base[x] <= Base[x + d]}
<1>0. /\ NM \in Nat /\ Messages = 1 .. NM /\ NC \in Nat
      /\ \A m \in 1 .. NM + 1 : Base[m] \in 0 .. NC
  <2>1. ASSUME NEW m \in 1 .. NM + 1 PROVE Base[m] \in 0 .. NC
    <3>1. CASE m = NM + 1
      BY <3>1, BaseFacts, ChunkCount
    <3>2. CASE m # NM + 1
      <4>1. m \in Messages
        BY <3>2, BaseFacts
      <4>2. Base[m] \in Nat /\ Base[m] < Base[m + 1] /\ Base[m + 1] \in 0 .. NC
        BY <4>1, BaseFacts
      <4> QED
        BY <4>2, ChunkCount
    <3> QED
      BY <3>1, <3>2
  <2> QED
    BY <2>1, BaseFacts, ChunkCount
<1>1. 0 \in Q
  <2>1. x + 0 = x /\ Base[x] \in Int
    BY <1>0
  <2> QED
    BY <2>1
<1>2. ASSUME NEW d \in Nat, d \in Q PROVE d + 1 \in Q
  <2> SUFFICES ASSUME x + (d + 1) <= NM + 1 PROVE Base[x] <= Base[x + (d + 1)]
    OBVIOUS
  <2>1. /\ x + d \in Messages /\ (x + d) + 1 = x + (d + 1) /\ x + d <= NM + 1
        /\ x + d \in 1 .. NM + 1 /\ x + (d + 1) \in 1 .. NM + 1
    BY <1>0
  <2>2. Base[x + d] < Base[x + (d + 1)]
    BY <2>1, BaseFacts
  <2>3. Base[x] <= Base[x + d]
    BY <1>2, <2>1
  <2>4. Base[x] \in Int /\ Base[x + d] \in Int /\ Base[x + (d + 1)] \in Int
    BY <1>0, <2>1
  <2> QED
    BY <2>2, <2>3, <2>4
<1>3. Nat \subseteq Q
  <2> HIDE DEF Q
  <2> QED
    BY <1>1, <1>2, SetInduction
<1>4. y - x \in Nat /\ x + (y - x) = y
  BY <1>0
<1> QED
  BY <1>0, <1>3, <1>4

\* What fragment i of message m looks like as a chunk.
LEMMA ChunkFields ==
  ASSUME NEW m \in Messages, NEW i \in 1 .. Len(Lengths(m))
  PROVE  LET k == Base[m] + i
         IN /\ k \in 1 .. NC /\ Chunks[k].msg = m /\ Chunks[k].sid = Msgs[m].sid
            /\ Chunks[k].ssn = (IF Msgs[m].unordered THEN 0 ELSE Ssn(m))
            /\ Chunks[k].B = (i = 1) /\ Chunks[k].E = (i = Len(Lengths(m)))
            /\ Chunks[k].U = Msgs[m].unordered
            /\ Size(k) = Lengths(m)[i]
            /\ \A p \in 1 .. Lengths(m)[i] : Chunks[k].payload[p] = <<m, Start(m, i) + p>>
<1>1. Base[m] + i \in 1 .. NC /\ Chunks[Base[m] + i] = Fragments(m)[i]
  BY BaseFacts
<1>2. LET f == Fragments(m)[i]
      IN /\ f.msg = m /\ f.sid = Msgs[m].sid
         /\ f.B = (i = 1) /\ f.E = (i = Len(Lengths(m)))
         /\ Len(f.payload) = Lengths(m)[i]
         /\ \A p \in 1 .. Lengths(m)[i] : f.payload[p] = <<m, Start(m, i) + p>>
  BY FragmentFacts
<1>3. LET f == Fragments(m)[i]
      IN f.ssn = (IF Msgs[m].unordered THEN 0 ELSE Ssn(m)) /\ f.U = Msgs[m].unordered
  BY DEF Fragments, Lengths
<1> QED
  BY <1>1, <1>2, <1>3 DEF Size

\* The message of a chunk, and where its chunks are.
LEMMA MessageOf ==
  ASSUME NEW k \in 1 .. NC
  PROVE  LET m == Chunks[k].msg
         IN /\ m \in Messages /\ Base[m] < k /\ k <= Base[m + 1]
            /\ Chunks[k].U = Msgs[m].unordered /\ Chunks[k].sid = Msgs[m].sid
            /\ Chunks[k].ssn = (IF Msgs[m].unordered THEN 0 ELSE Ssn(m))
<1>1. PICK m \in Messages : \E i \in 1 .. Len(Lengths(m)) : k = Base[m] + i
  BY BaseFacts
<1>2. PICK i \in 1 .. Len(Lengths(m)) : k = Base[m] + i
  BY <1>1
<1>3. /\ Chunks[k].msg = m /\ Chunks[k].U = Msgs[m].unordered /\ Chunks[k].sid = Msgs[m].sid
      /\ Chunks[k].ssn = (IF Msgs[m].unordered THEN 0 ELSE Ssn(m))
  BY <1>2, ChunkFields
<1>4. Base[m] \in Nat /\ Base[m + 1] = Base[m] + Len(Lengths(m)) /\ Len(Lengths(m)) \in Nat
  BY BaseFacts, MessageFacts
<1>5. Base[m] < k /\ k <= Base[m + 1]
  BY <1>2, <1>4
<1> QED
  BY <1>3, <1>5

\* A chunk between the bounds of a message is of that message.
LEMMA ChunkBetween ==
  ASSUME NEW m \in Messages, NEW k \in Nat, Base[m] < k, k <= Base[m + 1]
  PROVE  k \in 1 .. NC /\ Chunks[k].msg = m
<1>1. Base[m] \in Nat /\ Base[m + 1] = Base[m] + Len(Lengths(m)) /\ Len(Lengths(m)) \in Nat
  BY BaseFacts, MessageFacts
<1>2. k - Base[m] \in 1 .. Len(Lengths(m)) /\ Base[m] + (k - Base[m]) = k
  BY <1>1
<1> QED
  BY <1>2, ChunkFields

\* Chunks are in the order of their messages.
LEMMA MessageOrder ==
  ASSUME NEW j \in 1 .. NC, NEW k \in 1 .. NC, j <= k
  PROVE  Chunks[j].msg <= Chunks[k].msg
<1> DEFINE x == Chunks[j].msg
           y == Chunks[k].msg
<1>1. /\ x \in Messages /\ Base[x] < j /\ y \in Messages /\ k <= Base[y + 1]
  BY MessageOf
<1>2. NM \in Nat /\ Messages = 1 .. NM
  BY BaseFacts
<1> HIDE DEF x, y
<1>3. ASSUME ~(x <= y) PROVE FALSE
  <2>1. y + 1 \in 1 .. NM + 1 /\ x \in 1 .. NM + 1 /\ y + 1 <= x
    BY <1>1, <1>2, <1>3
  <2>2. Base[y + 1] <= Base[x] /\ Base[y + 1] \in 0 .. NC /\ Base[x] \in 0 .. NC
    BY <2>1, BaseGrows
  <2> QED
    BY <1>1, <2>2, ChunkCount
<1> QED
  BY <1>3 DEF x, y

\* The first and the last chunk of a message.
LEMMA FirstLast ==
  ASSUME NEW m \in Messages
  PROVE  FirstChunk(m) = Base[m] + 1 /\ LastChunk(m) = Base[m + 1]
<1> DEFINE S == {k \in DOMAIN Chunks : Chunks[k].msg = m}
<1>1. /\ Base[m] \in Nat /\ Base[m + 1] \in 0 .. NC /\ Base[m] < Base[m + 1]
      /\ DOMAIN Chunks = 1 .. NC /\ NC \in Nat
  BY BaseFacts, ChunkCount
<1>2. /\ \A k \in S : k \in Nat /\ Base[m] + 1 <= k /\ k <= Base[m + 1]
  <2> SUFFICES ASSUME NEW k \in S PROVE k \in Nat /\ Base[m] + 1 <= k /\ k <= Base[m + 1]
    OBVIOUS
  <2>1. k \in 1 .. NC /\ Chunks[k].msg = m
    BY <1>1
  <2>2. Base[m] < k /\ k <= Base[m + 1]
    BY <2>1, MessageOf
  <2> QED
    BY <1>1, <2>1, <2>2
<1>3. Base[m] + 1 \in S
  <2>1. Base[m] + 1 \in Nat /\ Base[m] < Base[m] + 1 /\ Base[m] + 1 <= Base[m + 1]
    BY <1>1
  <2> QED
    BY <1>1, <2>1, ChunkBetween
<1>4. Base[m + 1] \in S
  <2>1. Base[m + 1] \in Nat /\ Base[m + 1] <= Base[m + 1]
    BY <1>1
  <2> QED
    BY <1>1, <2>1, ChunkBetween
<1>5. S \subseteq Nat /\ S \in SUBSET (0 .. NC) /\ S # {}
  BY <1>1, <1>3
<1>6. FirstChunk(m) = Min(S) /\ LastChunk(m) = Max(S)
  BY DEF FirstChunk, LastChunk
<1> HIDE DEF S
<1>7. Min(S) \in S /\ \A y \in S : Min(S) <= y
  BY <1>5, MinOf
<1>8. Max(S) \in S /\ \A y \in S : y <= Max(S)
  BY <1>1, <1>5, MaxOf
<1>9. Min(S) = Base[m] + 1
  <2>1. Min(S) <= Base[m] + 1 /\ Base[m] + 1 <= Min(S) /\ Min(S) \in Nat
    BY <1>2, <1>3, <1>7
  <2> QED
    BY <1>1, <2>1
<1>10. Max(S) = Base[m + 1]
  <2>1. Max(S) <= Base[m + 1] /\ Base[m + 1] <= Max(S) /\ Max(S) \in Nat
    BY <1>2, <1>4, <1>8
  <2> QED
    BY <1>1, <2>1
<1> QED
  BY <1>6, <1>9, <1>10

-----------------------------------------------------------------------------
(* The chunks an entry holds.                                               *)

\* Entry e of a table with pool buf holds the chunks x..y of one message.
Holds(e, buf, f, x, y) ==
    /\ x \in 1 .. NC /\ y \in 1 .. NC /\ x <= y
    /\ e.tsn = TsnOf(y)
    /\ \A z \in x .. y : Chunks[z].msg = e.msg
    /\ e.B => f[x] = 0
    /\ e.E <=> Chunks[y].E
    /\ e.len = f[y] + Size(y) - f[x]
    /\ \A q \in 1 .. e.len : buf[e.off + q] = <<e.msg, f[x] + q>>

\* Entry j of s holds the chunks lo[j]..hi[j]; c is the chunk of the cumulative TSN.
Labelled(s, f, lo, hi, c) ==
    /\ c \in 0 .. NC /\ s.cumulative_tsn = TsnOf(c)
    /\ \A j \in Valid(s) : \E k \in 1 .. NC : s.recv_gap[j].tsn = TsnOf(k)
    /\ \A j \in Live(s) : /\ Holds(s.recv_gap[j], s.recv_gap_buf, f, lo[j], hi[j])
                          /\ lo[j] < hi[j] => hi[j] <= c
    /\ \A i, j \in Live(s) : i # j => hi[i] < lo[j] \/ hi[j] < lo[i]

\* Such labels exist, with the cumulative TSN at chunk c.
FilledTo(s, f, c) ==
    \E lo, hi \in [Slots -> Nat] : Labelled(s, f, lo, hi, c)

Filled(s, f) == \E c : FilledTo(s, f, c)

\* The entries of t are entries of s, with the same bytes.
Carries(s, t) ==
    /\ t.cumulative_tsn = s.cumulative_tsn
    /\ \A j \in Valid(t) : j \in Valid(s) /\ t.recv_gap[j].tsn = s.recv_gap[j].tsn
    /\ \A j \in Live(t) :
         LET d == s.recv_gap[j]
             e == t.recv_gap[j]
         IN /\ j \in Live(s)
            /\ e.tsn = d.tsn /\ e.msg = d.msg /\ e.B = d.B /\ e.E = d.E /\ e.len = d.len
            /\ \A q \in 1 .. d.len : t.recv_gap_buf[e.off + q] = s.recv_gap_buf[d.off + q]

\* What is carried over keeps its labels.
LEMMA CarryOK ==
  ASSUME NEW s, NEW t, NEW f, NEW c, FilledTo(s, f, c), Carries(s, t)
  PROVE  FilledTo(t, f, c)
<1>1. PICK lo \in [Slots -> Nat], hi \in [Slots -> Nat] : Labelled(s, f, lo, hi, c)
  BY DEF FilledTo
<1>2. c \in 0 .. NC /\ t.cumulative_tsn = TsnOf(c)
  BY <1>1 DEF Labelled, Carries
<1>3. \A j \in Valid(t) : \E k \in 1 .. NC : t.recv_gap[j].tsn = TsnOf(k)
  BY <1>1 DEF Labelled, Carries
<1>4. ASSUME NEW j \in Live(t)
      PROVE  /\ Holds(t.recv_gap[j], t.recv_gap_buf, f, lo[j], hi[j])
             /\ lo[j] < hi[j] => hi[j] <= c
  <2> DEFINE d == s.recv_gap[j]
             e == t.recv_gap[j]
  <2>1. /\ j \in Live(s) /\ e.tsn = d.tsn /\ e.msg = d.msg /\ e.B = d.B /\ e.E = d.E
        /\ e.len = d.len
        /\ \A q \in 1 .. d.len : t.recv_gap_buf[e.off + q] = s.recv_gap_buf[d.off + q]
    BY DEF Carries
  <2>2. Holds(d, s.recv_gap_buf, f, lo[j], hi[j]) /\ (lo[j] < hi[j] => hi[j] <= c)
    BY <1>1, <2>1 DEF Labelled
  <2> HIDE DEF d, e
  <2>3. Holds(e, t.recv_gap_buf, f, lo[j], hi[j])
    BY <2>1, <2>2 DEF Holds
  <2> QED
    BY <2>2, <2>3 DEF e
<1>5. \A i, j \in Live(t) : i # j => hi[i] < lo[j] \/ hi[j] < lo[i]
  BY <1>1 DEF Labelled, Carries
<1>6. Labelled(t, f, lo, hi, c)
  BY <1>2, <1>3, <1>4, <1>5 DEF Labelled
<1> QED
  BY <1>6 DEF FilledTo

\* Reclaiming carries over.
LEMMA ReclaimCarries ==
  ASSUME NEW s \in RxStates
  PROVE  Carries(s, nsctp_rx_reclaim(s))
<1> DEFINE t == nsctp_rx_reclaim(s)
<1>1. Reclaimed(s, t) /\ s \in State
  BY ReclaimOK DEF RxStates
<1> HIDE DEF t
<1>2. ASSUME NEW j \in Live(t)
      PROVE  LET d == s.recv_gap[j]
                 e == t.recv_gap[j]
             IN /\ j \in Live(s)
                /\ e.tsn = d.tsn /\ e.msg = d.msg /\ e.B = d.B /\ e.E = d.E /\ e.len = d.len
                /\ \A q \in 1 .. d.len : t.recv_gap_buf[e.off + q] = s.recv_gap_buf[d.off + q]
  <2>1. j \in Live(s) /\ j \in Slots /\ SameEntry(s, t, j)
    BY <1>1, StateParts DEF Reclaimed
  <2>2. /\ t.recv_gap[j].tsn = s.recv_gap[j].tsn /\ t.recv_gap[j].msg = s.recv_gap[j].msg
        /\ t.recv_gap[j].B = s.recv_gap[j].B /\ t.recv_gap[j].E = s.recv_gap[j].E
        /\ t.recv_gap[j].len = s.recv_gap[j].len
    BY <1>1, <2>1, SameEntryFields
  <2> QED
    BY <2>1, <2>2 DEF SameEntry
<1>3. Carries(s, t)
  BY <1>1, <1>2 DEF Carries, Reclaimed
<1> QED
  BY <1>3 DEF t

\* Marking carries over.
LEMMA RelabelCarries ==
  ASSUME NEW s \in State, NEW t \in State, Relabelled(s, t), t.cumulative_tsn = s.cumulative_tsn
  PROVE  Carries(s, t)
<1>1. \A j \in Slots :
        /\ t.recv_gap[j].valid = s.recv_gap[j].valid
        /\ t.recv_gap[j].tsn = s.recv_gap[j].tsn /\ t.recv_gap[j].msg = s.recv_gap[j].msg
        /\ t.recv_gap[j].off = s.recv_gap[j].off /\ t.recv_gap[j].len = s.recv_gap[j].len
        /\ t.recv_gap[j].B = s.recv_gap[j].B /\ t.recv_gap[j].E = s.recv_gap[j].E
        /\ s.recv_gap[j].delivered => t.recv_gap[j].delivered
  BY RelabelFields
<1>2. \A j \in Live(t) : j \in Live(s) /\ j \in Slots
  BY <1>1 DEF Live, Valid
<1>3. \A j \in Valid(t) : j \in Valid(s) /\ j \in Slots
  BY <1>1 DEF Valid
<1>4. t.recv_gap_buf = s.recv_gap_buf
  BY DEF Relabelled
<1> QED
  BY <1>1, <1>2, <1>3, <1>4 DEF Carries

\* Gathering carries over.
LEMMA KeptCarries ==
  ASSUME NEW s \in State, NEW t, Kept(s, t)
  PROVE  Carries(s, t)
<1>1. t \in State /\ Valid(t) = Valid(s) /\ t.cumulative_tsn = s.cumulative_tsn
  BY DEF Kept
<1>2. ASSUME NEW j \in Valid(t)
      PROVE  LET d == s.recv_gap[j]
                 e == t.recv_gap[j]
             IN /\ e.tsn = d.tsn /\ e.msg = d.msg /\ e.B = d.B /\ e.E = d.E /\ e.len = d.len
                /\ d.delivered => e.delivered
                /\ \A q \in 1 .. d.len : t.recv_gap_buf[e.off + q] = s.recv_gap_buf[d.off + q]
  <2>1. j \in Slots /\ KeptEntry(s, t, j)
    BY <1>1, StateParts DEF Kept
  <2>2. /\ t.recv_gap[j].tsn = s.recv_gap[j].tsn /\ t.recv_gap[j].msg = s.recv_gap[j].msg
        /\ t.recv_gap[j].B = s.recv_gap[j].B /\ t.recv_gap[j].E = s.recv_gap[j].E
        /\ t.recv_gap[j].len = s.recv_gap[j].len
    BY <1>1, <2>1, KeptFields
  <2> QED
    BY <2>1, <2>2 DEF KeptEntry
<1>3. \A j \in Live(t) : j \in Valid(t) /\ j \in Live(s)
  BY <1>1, <1>2 DEF Live
<1> QED
  BY <1>1, <1>2, <1>3 DEF Carries

\* The cumulative TSN may rise.
LEMMA RaiseOK ==
  ASSUME NEW s, NEW t, NEW f, NEW c, FilledTo(s, f, c), NEW d \in 0 .. NC, c <= d,
         t.recv_gap = s.recv_gap, t.recv_gap_buf = s.recv_gap_buf, t.cumulative_tsn = TsnOf(d)
  PROVE  FilledTo(t, f, d)
<1>1. PICK lo \in [Slots -> Nat], hi \in [Slots -> Nat] : Labelled(s, f, lo, hi, c)
  BY DEF FilledTo
<1>2. Valid(t) = Valid(s) /\ Live(t) = Live(s)
  BY DEF Valid, Live
<1>3. \A j \in Live(t) : /\ Holds(t.recv_gap[j], t.recv_gap_buf, f, lo[j], hi[j])
                         /\ lo[j] < hi[j] => hi[j] <= d
  <2> SUFFICES ASSUME NEW j \in Live(s)
               PROVE  /\ Holds(s.recv_gap[j], s.recv_gap_buf, f, lo[j], hi[j])
                      /\ lo[j] < hi[j] => hi[j] <= d
    BY <1>2
  <2>1. Holds(s.recv_gap[j], s.recv_gap_buf, f, lo[j], hi[j]) /\ (lo[j] < hi[j] => hi[j] <= c)
        /\ c \in 0 .. NC
    BY <1>1 DEF Labelled
  <2>2. hi[j] \in Int /\ lo[j] \in Int
    BY <2>1, ChunkCount DEF Holds
  <2> QED
    BY <2>1, <2>2, ChunkCount
<1>4. Labelled(t, f, lo, hi, d)
  BY <1>1, <1>2, <1>3 DEF Labelled
<1> QED
  BY <1>4 DEF FilledTo

-----------------------------------------------------------------------------
(* nsctp_gap_drain and nsctp_rx_merge.                                      *)

\* The run of received TSNs is one of the peer's.
LEMMA DrainFilled ==
  ASSUME NEW s \in RxStates, NEW f, NEW c, FilledTo(s, f, c)
  PROVE  \E d \in c .. NC : FilledTo(nsctp_gap_drain(s), f, d)
<1> DEFINE n == ContiguousRun(s)
           S == {x \in 0..MAX_RECV_GAP : \A d \in 1..x :
             \E i \in Valid(s) : s.recv_gap[i].tsn = Plus(s.cumulative_tsn, d, TSN_MOD)}
           t == [s EXCEPT !.cumulative_tsn = Plus(@, n, TSN_MOD)]
<1>0. s \in State
  BY DEF RxStates
<1>1. PICK lo \in [Slots -> Nat], hi \in [Slots -> Nat] : Labelled(s, f, lo, hi, c)
  BY DEF FilledTo
<1>2. /\ c \in 0 .. NC /\ s.cumulative_tsn = TsnOf(c)
      /\ \A j \in Valid(s) : \E k \in 1 .. NC : s.recv_gap[j].tsn = TsnOf(k)
  BY <1>1 DEF Labelled
<1>3. n \in 0 .. MAX_RECV_GAP /\ n \in S
  <2>1. S \in SUBSET (0 .. MAX_RECV_GAP) /\ 0 \in S /\ MAX_RECV_GAP \in Nat
    BY RecvSizes
  <2> HIDE DEF S
  <2>2. Max(S) \in S
    BY <2>1, MaxOf
  <2> QED
    BY <2>1, <2>2 DEF ContiguousRun, S
<1>4. Plus(s.cumulative_tsn, n, TSN_MOD) = TsnOf(c + n)
  <2>1. c \in Int /\ n \in Int
    BY <1>2, <1>3, ChunkCount
  <2> QED
    BY <1>2, <2>1, TsnPlus
<1>5. c + n \in 0 .. NC /\ c <= c + n
  <2>0. c \in Nat /\ c <= NC /\ n \in Nat /\ n <= MAX_RECV_GAP /\ NC \in Nat /\ MAX_RECV_GAP \in Nat
    BY <1>2, <1>3, ChunkCount
  <2>1. CASE n = 0
    BY <2>0, <2>1
  <2>2. CASE n > 0
    <3>1. n \in 1 .. n
      BY <2>0, <2>2
    <3>2. PICK i \in Valid(s) : s.recv_gap[i].tsn = Plus(s.cumulative_tsn, n, TSN_MOD)
      BY <1>3, <3>1
    <3>3. PICK k \in 1 .. NC : s.recv_gap[i].tsn = TsnOf(k)
      BY <1>2
    <3>4. TsnOf(k) = TsnOf(c + n)
      BY <1>4, <3>2, <3>3
    <3>5. k \in 0 .. NC + MAX_RECV_GAP /\ c + n \in 0 .. NC + MAX_RECV_GAP
      BY <2>0
    <3>6. k = c + n
      BY <3>4, <3>5, TsnSame
    <3> QED
      BY <2>0, <3>6
  <2> QED
    BY <2>0, <2>1, <2>2
<1> HIDE DEF n
<1>6. nsctp_gap_drain(s) = nsctp_rx_reclaim(t)
  BY DEF nsctp_gap_drain, n
<1>7. /\ t \in State /\ t.recv_gap = s.recv_gap /\ t.recv_gap_buf = s.recv_gap_buf
      /\ t.recv_gap_count = s.recv_gap_count /\ t.cumulative_tsn = TsnOf(c + n)
  <2> DEFINE x == Plus(s.cumulative_tsn, n, TSN_MOD)
  <2>1. x \in 0 .. TSN_MOD - 1
    <3>1. s.cumulative_tsn \in Int /\ n \in Int
      BY <1>0, <1>3, StateParts
    <3> QED
      BY <3>1, PlusTsn
  <2>2. t = [s EXCEPT !.cumulative_tsn = x]
    OBVIOUS
  <2> HIDE DEF x
  <2>3. /\ t \in State /\ t.recv_gap = s.recv_gap /\ t.recv_gap_buf = s.recv_gap_buf
        /\ t.recv_gap_count = s.recv_gap_count /\ t.cumulative_tsn = x
    BY <1>0, <2>1, <2>2 DEF State
  <2> QED
    BY <1>4, <2>3 DEF x
<1> HIDE DEF t
<1>8. t \in RxStates
  BY <1>0, <1>7, SameTable, RelabelOK
<1>9. FilledTo(t, f, c + n)
  BY <1>5, <1>7, RaiseOK
<1>10. FilledTo(nsctp_rx_reclaim(t), f, c + n)
  BY <1>8, <1>9, ReclaimCarries, CarryOK
<1>11. c + n \in c .. NC
  BY <1>2, <1>3, <1>5, ChunkCount
<1> QED
  BY <1>6, <1>10, <1>11

\* Two chunks in a row.
LEMMA Joined ==
  ASSUME NEW f, Spans(f), NEW d, NEW e, NEW j, NEW buf, NEW b2,
         NEW x, NEW y, NEW v, NEW w,
         Holds(d, buf, f, x, y), Holds(e, buf, f, v, w), y < v,
         e.tsn = Plus(d.tsn, 1, TSN_MOD), ~d.E, d.len \in Nat, e.len \in Nat,
         j.tsn = e.tsn, j.E = e.E, j.B = d.B, j.msg = d.msg, j.len = d.len + e.len, j.off = 0,
         \A q \in 1 .. d.len : b2[q] = buf[d.off + q],
         \A q \in 1 .. e.len : b2[d.len + q] = buf[e.off + q]
  PROVE  Holds(j, b2, f, x, w) /\ w = y + 1
<1>0. /\ x \in 1 .. NC /\ y \in 1 .. NC /\ x <= y /\ v \in 1 .. NC /\ w \in 1 .. NC /\ v <= w
      /\ NC \in Nat /\ MAX_RECV_GAP \in Nat
  BY ChunkCount DEF Holds
<1>1. w = y + 1
  <2>1. d.tsn = TsnOf(y) /\ e.tsn = TsnOf(w)
    BY DEF Holds
  <2>2. y \in Int /\ 1 \in Int
    BY <1>0
  <2>3. TsnOf(w) = TsnOf(y + 1)
    BY <2>1, <2>2, TsnPlus
  <2>4. MAX_RECV_GAP >= 1
    BY RecvSizes
  <2>5. w \in 0 .. NC + MAX_RECV_GAP /\ y + 1 \in 0 .. NC + MAX_RECV_GAP
    BY <1>0, <2>4
  <2> QED
    BY <2>3, <2>5, TsnSame
<1>2. v = w
  BY <1>0, <1>1
<1>3. ~Chunks[y].E
  BY DEF Holds
<1>4. /\ f[x] \in Nat /\ f[y] \in Nat /\ f[w] \in Nat /\ Size(y) \in Nat /\ Size(w) \in Nat
      /\ f[w] = f[y] + Size(y) /\ Chunks[w].msg = Chunks[y].msg
  BY <1>0, <1>1, <1>3 DEF Spans
<1>5. Chunks[y].msg = d.msg /\ Chunks[w].msg = e.msg
  BY <1>0, <1>2 DEF Holds
<1>6. d.len = f[y] + Size(y) - f[x] /\ e.len = f[w] + Size(w) - f[w]
  BY <1>2 DEF Holds
<1>7. j.len = f[w] + Size(w) - f[x]
  BY <1>4, <1>6
<1>8. ASSUME NEW q \in 1 .. j.len PROVE b2[j.off + q] = <<j.msg, f[x] + q>>
  <2>1. j.len = d.len + e.len /\ j.off + q = q /\ q \in Nat /\ q >= 1
    BY <1>4, <1>7
  <2>2. CASE q <= d.len
    <3>1. q \in 1 .. d.len
      BY <2>1, <2>2
    <3>2. buf[d.off + q] = <<d.msg, f[x] + q>>
      BY <3>1 DEF Holds
    <3> QED
      BY <2>1, <3>1, <3>2
  <2>3. CASE q > d.len
    <3> DEFINE p == q - d.len
    <3>1. p \in 1 .. e.len /\ q = d.len + p
      BY <2>1, <2>3
    <3>2. buf[e.off + p] = <<e.msg, f[w] + p>>
      BY <1>2, <3>1 DEF Holds
    <3>3. b2[d.len + p] = <<e.msg, f[w] + p>>
      BY <3>1, <3>2
    <3>4. f[w] + p = f[x] + q
      BY <1>4, <1>6, <2>1
    <3> HIDE DEF p
    <3> QED
      BY <1>4, <1>5, <2>1, <3>1, <3>3, <3>4
  <2> QED
    BY <2>1, <2>2, <2>3
<1>9. \A z \in x .. w : Chunks[z].msg = j.msg
  <2>1. \A z \in x .. w : z \in x .. y \/ z = w
    BY <1>0, <1>1
  <2> QED
    BY <1>4, <1>5, <2>1 DEF Holds
<1>10. /\ x \in 1 .. NC /\ w \in 1 .. NC /\ x <= w /\ j.tsn = TsnOf(w) /\ (j.B => f[x] = 0)
       /\ (j.E <=> Chunks[w].E)
  BY <1>0, <1>1 DEF Holds
<1> QED
  BY <1>1, <1>7, <1>8, <1>9, <1>10 DEF Holds

\* One merge keeps the labels: the entry that takes over the other holds the chunks of both.
LEMMA MergeOnceFilled ==
  ASSUME NEW s \in RxStates, NEW f, NEW c, Spans(f), FilledTo(s, f, c)
  PROVE  FilledTo(MergeOnce(s), f, c)
<1>0. s \in State
  BY DEF RxStates
<1>1. CASE MergeOnce(s) = s
  BY <1>1
<1>2. CASE \E i, j \in Slots : Mergeable(s, i, j) /\ MergeOnce(s) = MergedPair(s, i, j)
  <2>1. PICK i \in Slots, j \in Slots : Mergeable(s, i, j) /\ MergeOnce(s) = MergedPair(s, i, j)
    BY <1>2
  <2> DEFINE d == s.recv_gap[i]
             e == s.recv_gap[j]
             x == JoinedEntry(s, i, j, 0)
             t == MergedPair(s, i, j)
  <2>2. d \in Entry /\ e \in Entry /\ d.len \in Nat /\ e.len \in Nat
    BY <1>0, StateParts
  <2>3. /\ i \in Live(s) /\ j \in Live(s) /\ nsctp_fragments_follow(d, e)
        /\ TsnDiff(e.tsn, s.cumulative_tsn) <= 0
    BY <2>1 DEF Mergeable
  <2>4. i # j
    BY <2>2, <2>3, FollowDistinct
  <2>5. ~d.E /\ e.tsn = Plus(d.tsn, 1, TSN_MOD)
    BY <2>3 DEF nsctp_fragments_follow
  <2>6. MergedInto(s, i, j, t)
    BY <2>3, <2>4, <2>5, MergePair
  <2>7. /\ x.off = 0 /\ x.len = d.len + e.len /\ x.tsn = e.tsn /\ x.E = e.E /\ x.B = d.B
        /\ x.msg = d.msg
    <3>1. 0 \in Int
      OBVIOUS
    <3> QED
      BY <1>0, <3>1, JoinedType
  <2>8. PICK lo \in [Slots -> Nat], hi \in [Slots -> Nat] : Labelled(s, f, lo, hi, c)
    BY DEF FilledTo
  <2> DEFINE h == [hi EXCEPT ![i] = hi[j]]
  <2>9. /\ c \in 0 .. NC /\ s.cumulative_tsn = TsnOf(c)
        /\ \A k \in Valid(s) : \E z \in 1 .. NC : s.recv_gap[k].tsn = TsnOf(z)
        /\ \A k \in Live(s) : /\ Holds(s.recv_gap[k], s.recv_gap_buf, f, lo[k], hi[k])
                              /\ lo[k] < hi[k] => hi[k] <= c
        /\ \A k, l \in Live(s) : k # l => hi[k] < lo[l] \/ hi[l] < lo[k]
    BY <2>8 DEF Labelled
  <2>10. Holds(d, s.recv_gap_buf, f, lo[i], hi[i]) /\ Holds(e, s.recv_gap_buf, f, lo[j], hi[j])
    BY <2>3, <2>9
  <2>11. /\ lo[i] \in 1 .. NC /\ hi[i] \in 1 .. NC /\ lo[i] <= hi[i] /\ d.tsn = TsnOf(hi[i])
         /\ lo[j] \in 1 .. NC /\ hi[j] \in 1 .. NC /\ lo[j] <= hi[j] /\ e.tsn = TsnOf(hi[j])
    BY <2>10 DEF Holds
  <2>12. hi[j] = hi[i] + 1
    <3>1. hi[i] \in Int /\ 1 \in Int
      BY <2>11
    <3>2. TsnOf(hi[j]) = TsnOf(hi[i] + 1)
      BY <2>5, <2>11, <3>1, TsnPlus
    <3>3. hi[j] \in 0 .. NC + MAX_RECV_GAP /\ hi[i] + 1 \in 0 .. NC + MAX_RECV_GAP
      <4>1. MAX_RECV_GAP \in Nat /\ MAX_RECV_GAP >= 1
        BY RecvSizes
      <4> QED
        BY <2>11, <4>1, ChunkCount
    <3> QED
      BY <3>2, <3>3, TsnSame
  <2>13. hi[i] < lo[j]
    <3>1. hi[i] < lo[j] \/ hi[j] < lo[i]
      BY <2>3, <2>4, <2>9
    <3> QED
      BY <2>11, <2>12, <3>1
  <2>14. hi[j] <= c
    <3>1. TsnDiff(TsnOf(hi[j]), TsnOf(c)) = hi[j] - c
      <4>1. hi[j] \in 0 .. NC
        BY <2>11
      <4> QED
        BY <2>9, <4>1, TsnOrder
    <3> QED
      BY <2>3, <2>9, <2>11, <3>1
  <2>15. /\ Valid(t) = Valid(s) \ {j} /\ Live(t) = Live(s) \ {j} /\ t.recv_gap[i] = x
         /\ \A k \in Valid(s) \ {i, j} : SameEntry(s, t, k)
         /\ \A q \in 1 .. d.len : t.recv_gap_buf[q] = s.recv_gap_buf[d.off + q]
         /\ \A q \in 1 .. e.len : t.recv_gap_buf[d.len + q] = s.recv_gap_buf[e.off + q]
         /\ t.cumulative_tsn = s.cumulative_tsn
    BY <2>6 DEF MergedInto
  <2> HIDE DEF d, e, x, t
  <2>16. Holds(x, t.recv_gap_buf, f, lo[i], hi[j])
    <3> DEFINE b1 == s.recv_gap_buf
               b2 == t.recv_gap_buf
    <3> HIDE DEF b1, b2
    <3>1. /\ \A q \in 1 .. d.len : b2[q] = b1[d.off + q]
          /\ \A q \in 1 .. e.len : b2[d.len + q] = b1[e.off + q]
          /\ Holds(d, b1, f, lo[i], hi[i]) /\ Holds(e, b1, f, lo[j], hi[j])
      BY <2>10, <2>15 DEF b1, b2
    <3>2. Holds(x, b2, f, lo[i], hi[j])
      BY <2>2, <2>5, <2>7, <2>13, <3>1, Joined
    <3> QED
      BY <3>2 DEF b2
  <2>17. /\ h \in [Slots -> Nat] /\ h[i] = hi[j] /\ \A k \in Slots \ {i} : h[k] = hi[k]
    <3>1. hi[j] \in Nat
      OBVIOUS
    <3> QED
      BY <3>1
  <2> HIDE DEF h
  <2>18. ASSUME NEW k \in Valid(t), k # i
         PROVE  /\ k \in Valid(s) /\ k \in Slots /\ k # j /\ SameEntry(s, t, k)
                /\ t.recv_gap[k].tsn = s.recv_gap[k].tsn /\ t.recv_gap[k].msg = s.recv_gap[k].msg
                /\ t.recv_gap[k].B = s.recv_gap[k].B /\ t.recv_gap[k].E = s.recv_gap[k].E
                /\ t.recv_gap[k].len = s.recv_gap[k].len
    <3>1. k \in Valid(s) \ {i, j} /\ k \in Slots /\ SameEntry(s, t, k)
      BY <1>0, <2>15, <2>18, StateParts
    <3> QED
      BY <1>0, <3>1, SameEntryFields
  <2>19. ASSUME NEW k \in Valid(t) PROVE \E z \in 1 .. NC : t.recv_gap[k].tsn = TsnOf(z)
    <3>1. CASE k = i
      BY <2>7, <2>11, <2>15, <3>1
    <3>2. CASE k # i
      BY <2>9, <2>18, <3>2
    <3> QED
      BY <3>1, <3>2
  <2>20. ASSUME NEW k \in Live(t)
         PROVE  /\ Holds(t.recv_gap[k], t.recv_gap_buf, f, lo[k], h[k])
                /\ lo[k] < h[k] => h[k] <= c
    <3>1. CASE k = i
      BY <2>14, <2>15, <2>16, <2>17, <3>1
    <3>2. CASE k # i
      <4>1. k \in Valid(t) /\ k \in Live(s)
        BY <2>15 DEF Live
      <4>2. /\ k \in Slots /\ SameEntry(s, t, k)
            /\ t.recv_gap[k].tsn = s.recv_gap[k].tsn /\ t.recv_gap[k].msg = s.recv_gap[k].msg
            /\ t.recv_gap[k].B = s.recv_gap[k].B /\ t.recv_gap[k].E = s.recv_gap[k].E
            /\ t.recv_gap[k].len = s.recv_gap[k].len
        BY <2>18, <3>2, <4>1
      <4>3. h[k] = hi[k]
        BY <2>17, <3>2, <4>2
      <4>4. Holds(s.recv_gap[k], s.recv_gap_buf, f, lo[k], hi[k]) /\ (lo[k] < hi[k] => hi[k] <= c)
        BY <2>9, <4>1
      <4>5. Holds(t.recv_gap[k], t.recv_gap_buf, f, lo[k], hi[k])
        BY <4>2, <4>4 DEF Holds, SameEntry
      <4> QED
        BY <4>3, <4>4, <4>5
    <3> QED
      BY <3>1, <3>2
  <2>21. ASSUME NEW k \in Live(t), k # i PROVE h[i] < lo[k] \/ h[k] < lo[i]
    <3>1. k \in Live(s) /\ k # j /\ k \in Slots
      BY <1>0, <2>15, StateParts
    <3>2. hi[i] < lo[k] \/ hi[k] < lo[i]
      BY <2>3, <2>9, <2>21, <3>1
    <3>3. hi[j] < lo[k] \/ hi[k] < lo[j]
      BY <2>3, <2>9, <3>1
    <3>4. lo[k] \in Nat /\ hi[k] \in Nat /\ lo[k] <= hi[k]
      BY <2>9, <3>1 DEF Holds
    <3>5. h[i] = hi[j] /\ h[k] = hi[k]
      BY <2>17, <2>21, <3>1
    <3>6. lo[j] = hi[j]
      BY <2>11, <2>12, <2>13
    <3> QED
      BY <2>11, <2>12, <3>2, <3>3, <3>4, <3>5, <3>6
  <2>22. ASSUME NEW k \in Live(t), NEW l \in Live(t), k # l PROVE h[k] < lo[l] \/ h[l] < lo[k]
    <3>1. CASE k = i
      BY <2>21, <2>22, <3>1
    <3>2. CASE l = i
      BY <2>21, <2>22, <3>2
    <3>3. CASE k # i /\ l # i
      <4>1. k \in Live(s) /\ l \in Live(s) /\ k \in Slots /\ l \in Slots
        BY <1>0, <2>15, StateParts
      <4>2. h[k] = hi[k] /\ h[l] = hi[l]
        BY <2>17, <3>3, <4>1
      <4> QED
        BY <2>9, <2>22, <4>1, <4>2
    <3> QED
      BY <3>1, <3>2, <3>3
  <2>23. Labelled(t, f, lo, h, c)
    BY <2>9, <2>15, <2>19, <2>20, <2>22 DEF Labelled
  <2> QED
    BY <2>1, <2>17, <2>23 DEF FilledTo, t
<1> QED
  BY <1>0, <1>1, <1>2, MergeChoice

\* nsctp_rx_merge keeps the labels.
LEMMA MergeFilled ==
  ASSUME NEW s \in RxStates, NEW f, NEW c, Spans(f), FilledTo(s, f, c)
  PROVE  FilledTo(nsctp_rx_merge(s), f, c)
<1> DEFINE N == MAX_RECV_GAP
           R == {r \in RxStates : FilledTo(r, f, c)}
           m == CHOOSE m : m = [n \in 0 .. N |-> IF n = 0 THEN s ELSE MergeOnce(m[n - 1])]
<1>1. N \in Nat /\ s \in R
  BY RecvSizes
<1>2. \A r \in R, k \in 1 .. N : MergeAgain(r, k) \in R
  BY MergeOnceOK, MergeOnceFilled DEF MergeAgain
<1> HIDE DEF N, R
<1>3. /\ \E h : MergeLoop!Iterates(h, s, N)
      /\ \A h : MergeLoop!Iterates(h, s, N) => h[N] \in R
  BY <1>1, <1>2, MergeWellOrdered, MergeLoop!IterationInvariant
<1>4. \A h : MergeLoop!Iterates(h, s, N) <=>
             h = [n \in 0 .. N |-> IF n = 0 THEN s ELSE MergeOnce(h[n - 1])]
  BY DEF MergeLoop!Iterates, MergeAgain
<1>5. m = [n \in 0 .. N |-> IF n = 0 THEN s ELSE MergeOnce(m[n - 1])]
  BY <1>3, <1>4
<1>6. nsctp_rx_merge(s) = m[N]
  BY DEF nsctp_rx_merge, N
<1> HIDE DEF m
<1>7. nsctp_rx_merge(s) \in R
  BY <1>3, <1>4, <1>5, <1>6
<1> QED
  BY <1>7 DEF R

-----------------------------------------------------------------------------
(* nsctp_handle_data_chunk.                                                 *)

\* A chunk above the cumulative TSN that is no duplicate is stored under a label of its own.
LEMMA StoreFilled ==
  ASSUME NEW s \in RxStates, NEW f, NEW c, Spans(f), FilledTo(s, f, c),
         NEW k \in 1 .. NC, c < k, ~Duplicate(s, TsnOf(k)),
         NEW slot \in Slots, NEW t, StoredIn(s, Chunks[k], TsnOf(k), slot, t)
  PROVE  FilledTo(t, f, c)
<1> DEFINE e == StoredEntry(s, Chunks[k], TsnOf(k))
           buf == s.recv_gap_buf
           pay == Chunks[k].payload
<1>0. s \in State /\ PoolOK(s) /\ buf \in Seq(Byte) /\ Len(buf) \in Nat
  BY StateParts DEF RxStates
<1>1. /\ slot \notin Valid(s) /\ t.recv_gap_buf = buf \o pay
      /\ t.recv_gap = [s.recv_gap EXCEPT ![slot] = e] /\ t.cumulative_tsn = s.cumulative_tsn
  BY DEF StoredIn
<1>2. t.recv_gap[slot] = e /\ \A j \in Slots \ {slot} : t.recv_gap[j] = s.recv_gap[j]
  BY <1>0, <1>1, StateParts
<1>3. /\ e.valid = TRUE /\ e.tsn = TsnOf(k) /\ e.msg = Chunks[k].msg /\ e.B = Chunks[k].B
      /\ e.E = Chunks[k].E /\ e.off = Len(buf) /\ e.len = Size(k) /\ e.delivered = FALSE
  <2> DEFINE d == Chunks[k]
             w == TsnOf(k)
  <2> HIDE DEF d, w
  <2>1. e = StoredEntry(s, d, w) /\ Size(k) = Len(d.payload)
    BY DEF d, w, Size
  <2> HIDE DEF e
  <2>2. /\ e.valid = TRUE /\ e.tsn = w /\ e.msg = d.msg /\ e.B = d.B /\ e.E = d.E
        /\ e.off = Len(buf) /\ e.len = Len(d.payload) /\ e.delivered = FALSE
    BY <2>1 DEF StoredEntry, NoEntry
  <2> QED
    BY <2>1, <2>2 DEF d, w
<1> HIDE DEF e
<1>4. Valid(t) = Valid(s) \cup {slot} /\ Live(t) = Live(s) \cup {slot}
  BY <1>1, <1>2, <1>3 DEF Valid, Live
<1>5. pay \in Seq(Byte) /\ Len(pay) = Size(k) /\ Size(k) \in Nat
  <2>1. Chunks[k] \in Chunk
    BY ChunkCount
  <2> QED
    BY <2>1 DEF Chunk, Size
<1>6. PICK lo \in [Slots -> Nat], hi \in [Slots -> Nat] : Labelled(s, f, lo, hi, c)
  BY DEF FilledTo
<1>7. /\ c \in 0 .. NC /\ s.cumulative_tsn = TsnOf(c)
      /\ \A j \in Valid(s) : \E z \in 1 .. NC : s.recv_gap[j].tsn = TsnOf(z)
      /\ \A j \in Live(s) : /\ Holds(s.recv_gap[j], buf, f, lo[j], hi[j])
                            /\ lo[j] < hi[j] => hi[j] <= c
      /\ \A i, j \in Live(s) : i # j => hi[i] < lo[j] \/ hi[j] < lo[i]
  BY <1>6 DEF Labelled
<1> HIDE DEF buf, pay
<1>8. /\ \A q \in 1 .. Len(buf) : t.recv_gap_buf[q] = buf[q]
      /\ \A q \in 1 .. Size(k) : t.recv_gap_buf[Len(buf) + q] = pay[q]
  BY <1>0, <1>1, <1>5
<1> DEFINE l == [lo EXCEPT ![slot] = k]
           h == [hi EXCEPT ![slot] = k]
<1>9. /\ l \in [Slots -> Nat] /\ h \in [Slots -> Nat] /\ l[slot] = k /\ h[slot] = k
      /\ \A j \in Slots \ {slot} : l[j] = lo[j] /\ h[j] = hi[j]
  <2>1. k \in Nat
    BY ChunkCount
  <2> QED
    BY <2>1
<1> HIDE DEF l, h
<1>10. Holds(e, t.recv_gap_buf, f, k, k)
  <2>1. /\ f[k] \in Nat /\ (Chunks[k].B => f[k] = 0)
        /\ \A p \in 1 .. Size(k) : pay[p] = <<Chunks[k].msg, f[k] + p>>
    BY DEF Spans, pay
  <2>2. e.len = f[k] + Size(k) - f[k]
    BY <1>3, <1>5, <2>1
  <2>3. \A q \in 1 .. e.len : t.recv_gap_buf[e.off + q] = <<e.msg, f[k] + q>>
    BY <1>3, <1>8, <2>1
  <2>4. k <= k /\ \A z \in k .. k : z = k
    BY ChunkCount
  <2>5. e.B => f[k] = 0
    BY <1>3, <2>1
  <2> QED
    BY <1>3, <2>2, <2>3, <2>4, <2>5 DEF Holds
<1>11. ASSUME NEW j \in Live(s)
       PROVE  /\ j \in Slots /\ j # slot /\ t.recv_gap[j] = s.recv_gap[j]
              /\ Holds(t.recv_gap[j], t.recv_gap_buf, f, lo[j], hi[j])
              /\ l[j] = lo[j] /\ h[j] = hi[j]
  <2> DEFINE d == s.recv_gap[j]
  <2>1. j \in Valid(s) /\ j \in Slots /\ j # slot
    BY <1>0, <1>1, StateParts
  <2>2. t.recv_gap[j] = d /\ l[j] = lo[j] /\ h[j] = hi[j]
    BY <1>2, <1>9, <2>1
  <2>3. d.len \in Nat /\ d.off \in Int /\ (d.len > 0 => 0 <= d.off /\ d.off + d.len <= Len(buf))
    <3>1. Lens(s)[j] > 0 => 0 <= Offs(s)[j] /\ Offs(s)[j] + Lens(s)[j] <= Len(s.recv_gap_buf)
      BY <1>0, <2>1 DEF PoolOK, Tiled, Inside
    <3> QED
      BY <1>0, <2>1, <3>1, StateParts DEF buf
  <2>4. Holds(d, buf, f, lo[j], hi[j])
    BY <1>7
  <2> HIDE DEF d
  <2>5. \A q \in 1 .. d.len : t.recv_gap_buf[d.off + q] = buf[d.off + q]
    <3> SUFFICES ASSUME NEW q \in 1 .. d.len PROVE t.recv_gap_buf[d.off + q] = buf[d.off + q]
      OBVIOUS
    <3>1. d.off + q \in 1 .. Len(buf)
      BY <1>0, <2>3
    <3> QED
      BY <1>8, <3>1
  <2>6. Holds(d, t.recv_gap_buf, f, lo[j], hi[j])
    BY <2>4, <2>5 DEF Holds
  <2> QED
    BY <2>1, <2>2, <2>6 DEF d
<1>12. ASSUME NEW j \in Live(s) PROVE hi[j] < k \/ k < lo[j]
  <2>1. /\ lo[j] \in 1 .. NC /\ hi[j] \in 1 .. NC /\ s.recv_gap[j].tsn = TsnOf(hi[j])
        /\ lo[j] < hi[j] => hi[j] <= c
    BY <1>7 DEF Holds
  <2>2. hi[j] # k
    <3>1. j \in Valid(s)
      BY DEF Live
    <3> QED
      BY <2>1, <3>1 DEF Duplicate
  <2> QED
    BY <1>7, <2>1, <2>2, ChunkCount
<1>13. ASSUME NEW j \in Live(t)
       PROVE  /\ Holds(t.recv_gap[j], t.recv_gap_buf, f, l[j], h[j])
              /\ l[j] < h[j] => h[j] <= c
  <2>1. CASE j = slot
    <3>1. ~(k < k)
      BY ChunkCount
    <3> QED
      BY <1>2, <1>9, <1>10, <2>1, <3>1
  <2>2. CASE j # slot
    BY <1>4, <1>7, <1>11, <2>2
  <2> QED
    BY <2>1, <2>2
<1>14. ASSUME NEW i \in Live(t), NEW j \in Live(t), i # j PROVE h[i] < l[j] \/ h[j] < l[i]
  <2>1. CASE i = slot
    <3>1. j \in Live(s)
      BY <1>4, <1>14, <2>1
    <3> QED
      BY <1>9, <1>11, <1>12, <2>1, <3>1
  <2>2. CASE j = slot
    <3>1. i \in Live(s)
      BY <1>4, <1>14, <2>2
    <3> QED
      BY <1>9, <1>11, <1>12, <2>2, <3>1
  <2>3. CASE i # slot /\ j # slot
    <3>1. i \in Live(s) /\ j \in Live(s)
      BY <1>4, <2>3
    <3>2. l[i] = lo[i] /\ h[i] = hi[i] /\ l[j] = lo[j] /\ h[j] = hi[j]
      BY <1>11, <3>1
    <3> QED
      BY <1>7, <1>14, <3>1, <3>2
  <2> QED
    BY <2>1, <2>2, <2>3
<1>15. ASSUME NEW j \in Valid(t) PROVE \E z \in 1 .. NC : t.recv_gap[j].tsn = TsnOf(z)
  <2>1. CASE j = slot
    BY <1>2, <1>3, <2>1
  <2>2. CASE j # slot
    <3>1. j \in Valid(s) /\ j \in Slots
      BY <1>0, <1>4, <2>2, StateParts
    <3> QED
      BY <1>2, <1>7, <2>2, <3>1
  <2> QED
    BY <2>1, <2>2
<1>16. Labelled(t, f, l, h, c)
  BY <1>1, <1>7, <1>13, <1>14, <1>15 DEF Labelled
<1> QED
  BY <1>9, <1>16 DEF FilledTo

\* Only the request for a SACK changes.
LEMMA SameFilled ==
  ASSUME NEW s, NEW t, NEW f, NEW c, FilledTo(s, f, c),
         t.recv_gap = s.recv_gap, t.recv_gap_buf = s.recv_gap_buf,
         t.cumulative_tsn = s.cumulative_tsn
  PROVE  FilledTo(t, f, c)
<1>1. Valid(t) = Valid(s) /\ Live(t) = Live(s)
  BY DEF Valid, Live
<1>2. Carries(s, t)
  BY <1>1 DEF Carries
<1> QED
  BY <1>2, CarryOK

\* nsctp_handle_data_chunk keeps the labels, whichever chunk of the peer arrives.
LEMMA DataChunkFilled ==
  ASSUME NEW s \in RxStates, NEW f, Spans(f), Filled(s, f), NEW k \in 1 .. NC
  PROVE  Filled(nsctp_handle_data_chunk(s, Chunks[k], TsnOf(k)), f)
<1> DEFINE ch == Chunks[k]
           tsn == TsnOf(k)
           s1 == [s EXCEPT !.sack_needed = TRUE]
           s2 == nsctp_rx_reclaim(s1)
           s3 == Store(s2, ch, tsn)
<1>0. s \in State
  BY DEF RxStates
<1>1. PICK c : FilledTo(s, f, c)
  BY DEF Filled
<1>2. c \in 0 .. NC /\ s.cumulative_tsn = TsnOf(c)
  BY <1>1 DEF FilledTo, Labelled
<1>3. /\ s1 \in State /\ s1.recv_gap = s.recv_gap /\ s1.recv_gap_buf = s.recv_gap_buf
      /\ s1.recv_gap_count = s.recv_gap_count /\ s1.cumulative_tsn = s.cumulative_tsn
  BY <1>0 DEF State
<1>4. s1 \in RxStates
  BY <1>0, <1>3, SameTable, RelabelOK
<1>5. \/ nsctp_handle_data_chunk(s, ch, tsn) = s
      \/ nsctp_handle_data_chunk(s, ch, tsn) = s1
      \/ nsctp_handle_data_chunk(s, ch, tsn) = s2
      \/ /\ ~(TsnDiff(tsn, s.cumulative_tsn) <= 0)
         /\ ~Duplicate(s2, tsn)
         /\ ~NoRoom(s2, ch, tsn)
         /\ nsctp_handle_data_chunk(s, ch, tsn) = nsctp_rx_merge(nsctp_gap_drain(s3))
  BY Zenon DEF nsctp_handle_data_chunk, s1, s2
<1> HIDE DEF s1
<1>6. FilledTo(s1, f, c)
  BY <1>1, <1>3, SameFilled
<1>7. s2 \in RxStates /\ FilledTo(s2, f, c)
  BY <1>4, <1>6, ReclaimOK, ReclaimCarries, CarryOK
<1> HIDE DEF s2
<1>8. ASSUME ~(TsnDiff(tsn, s.cumulative_tsn) <= 0), ~Duplicate(s2, tsn), ~NoRoom(s2, ch, tsn)
      PROVE  Filled(nsctp_rx_merge(nsctp_gap_drain(s3)), f)
  <2>1. ch \in Chunk /\ tsn \in 0 .. TSN_MOD - 1
    BY ChunkCount, TsnType
  <2>2. Valid(s2) # Slots /\ Len(s2.recv_gap_buf) + Len(ch.payload) <= RECV_GAP_BUF_SIZE
    BY <1>7, <1>8, <2>1, RoomFor
  <2>3. s3 \in RxStates /\ \E slot \in Slots : StoredIn(s2, ch, tsn, slot, s3)
    BY <1>7, <2>1, <2>2, StoreOK
  <2>4. PICK slot \in Slots : StoredIn(s2, ch, tsn, slot, s3)
    BY <2>3
  <2>5. c < k
    <3>1. k \in 0 .. NC
      OBVIOUS
    <3>2. TsnDiff(tsn, s.cumulative_tsn) = k - c
      BY <1>2, <3>1, TsnOrder
    <3> HIDE DEF tsn
    <3> QED
      BY <1>2, <1>8, <3>1, <3>2, ChunkCount
  <2>6. FilledTo(s3, f, c)
    BY <1>7, <1>8, <2>4, <2>5, StoreFilled
  <2> HIDE DEF s3
  <2>7. PICK d \in c .. NC : FilledTo(nsctp_gap_drain(s3), f, d)
    BY <2>3, <2>6, DrainFilled
  <2>8. nsctp_gap_drain(s3) \in RxStates
    BY <2>3, DrainOK
  <2>9. FilledTo(nsctp_rx_merge(nsctp_gap_drain(s3)), f, d)
    BY <2>7, <2>8, MergeFilled
  <2> QED
    BY <2>9 DEF Filled
<1>9. Filled(s, f) /\ Filled(s1, f) /\ Filled(s2, f)
  BY <1>1, <1>6, <1>7 DEF Filled
<1> QED
  BY <1>5, <1>8, <1>9

-----------------------------------------------------------------------------
(* nsctp_handle_forward_tsn.                                                *)

\* A FORWARD-TSN to chunk k keeps the labels of what it does not drop.
LEMMA ForwardFilled ==
  ASSUME NEW s \in RxStates, NEW f, Spans(f), Filled(s, f), NEW k \in 1 .. NC,
         NEW pairs \in Seq(Pairs)
  PROVE  Filled(nsctp_handle_forward_tsn(s, TsnOf(k), pairs), f)
<1> DEFINE tsn == TsnOf(k)
           s1 == [s EXCEPT !.sack_needed = TRUE]
           s0 == [s1 EXCEPT !.cumulative_tsn = tsn]
           s2 == nsctp_rx_merge(s0)
           s3 == DropStranded(s2, tsn)
           s4 == FoldLeft(ForwardStream, s3, pairs)
<1>0. s \in State /\ tsn \in 0 .. TSN_MOD - 1
  BY ChunkCount, TsnType DEF RxStates
<1>1. PICK c : FilledTo(s, f, c)
  BY DEF Filled
<1>2. c \in 0 .. NC /\ s.cumulative_tsn = TsnOf(c)
  BY <1>1 DEF FilledTo, Labelled
<1>3. \/ nsctp_handle_forward_tsn(s, tsn, pairs) = s1
      \/ /\ ~(TsnDiff(tsn, s.cumulative_tsn) <= 0)
         /\ nsctp_handle_forward_tsn(s, tsn, pairs) = nsctp_gap_drain(s4)
  BY DEF nsctp_handle_forward_tsn
<1>4. FilledTo(s1, f, c)
  <2>1. s1.recv_gap = s.recv_gap /\ s1.recv_gap_buf = s.recv_gap_buf
        /\ s1.cumulative_tsn = s.cumulative_tsn
    BY <1>0 DEF State
  <2> HIDE DEF s1
  <2> QED
    BY <1>1, <2>1, SameFilled
<1>5. ASSUME ~(TsnDiff(tsn, s.cumulative_tsn) <= 0)
      PROVE  Filled(nsctp_gap_drain(s4), f)
  <2>1. k \in 0 .. NC /\ c <= k
    <3>1. k \in 0 .. NC
      OBVIOUS
    <3>2. TsnDiff(tsn, s.cumulative_tsn) = k - c
      BY <1>2, <3>1, TsnOrder
    <3> HIDE DEF tsn
    <3> QED
      BY <1>2, <1>5, <3>1, <3>2, ChunkCount
  <2>2. s0 \in RxStates /\ FilledTo(s0, f, k)
    <3>1. /\ s0 \in State /\ s0.recv_gap = s.recv_gap /\ s0.recv_gap_buf = s.recv_gap_buf
          /\ s0.recv_gap_count = s.recv_gap_count /\ s0.cumulative_tsn = tsn
      BY <1>0 DEF State
    <3> HIDE DEF s0
    <3>2. s0 \in RxStates
      BY <1>0, <3>1, SameTable, RelabelOK
    <3>3. FilledTo(s0, f, k)
      BY <1>1, <2>1, <3>1, RaiseOK
    <3> QED
      BY <3>2, <3>3
  <2> HIDE DEF s0
  <2>3. s2 \in RxStates /\ s2 \in State /\ FilledTo(s2, f, k)
    BY <2>2, MergeOK, MergeFilled DEF RxStates
  <2> HIDE DEF s2
  <2>4. s3 \in RxStates /\ s3 \in State /\ FilledTo(s3, f, k)
    BY <2>3, DropStrandedOK, RelabelOK, RelabelCarries, CarryOK
  <2> HIDE DEF s3
  <2>5. s4 \in RxStates /\ FilledTo(s4, f, k)
    BY <2>4, ForwardStreamsOK, RelabelOK, RelabelCarries, CarryOK
  <2> HIDE DEF s4
  <2>6. \E d \in k .. NC : FilledTo(nsctp_gap_drain(s4), f, d)
    BY <2>5, DrainFilled
  <2> QED
    BY <2>6 DEF Filled
<1> QED
  BY <1>3, <1>4, <1>5 DEF Filled

-----------------------------------------------------------------------------
(* nsctp_poll_delivery.                                                     *)

\* The parts of a message that starts in slot i, under the labels of s: the first is entry
\* i itself and the others hold one chunk each, so each begins where the one before ends.
PartLabels(s, f, lo, hi, i, parts) ==
    /\ parts[1] = i
    /\ \A x \in 1 .. Len(parts) :
         /\ hi[parts[x]] = hi[i] + x - 1
         /\ x > 1 => lo[parts[x]] = hi[parts[x]]
         /\ s.recv_gap[parts[x]].msg = s.recv_gap[i].msg

\* A part is followed by the one that holds the next chunk.
LEMMA PartsLabelled ==
  ASSUME NEW s \in State, NEW f, NEW c, NEW lo, NEW hi, Spans(f), Labelled(s, f, lo, hi, c),
         NEW i \in Live(s), Parts(s, i) # <<>>
  PROVE  PartLabels(s, f, lo, hi, i, Parts(s, i))
<1> DEFINE parts == Parts(s, i)
           n == Len(parts)
           g == s.recv_gap
<1>0. i \in Slots
  BY StateParts
<1>1. /\ parts \in Seq(Live(s)) /\ n \in 1 .. MAX_RECV_GAP
      /\ \A x \in 1 .. n : /\ g[parts[x]].tsn = Plus(g[i].tsn, x - 1, TSN_MOD)
                           /\ g[parts[x]].E <=> x = n
  BY <1>0, PartsFacts
<1>2. /\ \A j \in Live(s) : Holds(g[j], s.recv_gap_buf, f, lo[j], hi[j])
      /\ \A j, l \in Live(s) : j # l => hi[j] < lo[l] \/ hi[l] < lo[j]
  BY DEF Labelled
<1>3. \A j \in Live(s) : /\ lo[j] \in 1 .. NC /\ hi[j] \in 1 .. NC /\ lo[j] <= hi[j]
                         /\ g[j].tsn = TsnOf(hi[j])
                         /\ \A z \in lo[j] .. hi[j] : Chunks[z].msg = g[j].msg
                         /\ g[j].E <=> Chunks[hi[j]].E
  BY <1>2 DEF Holds
<1> HIDE DEF parts
<1>4. n \in Nat /\ MAX_RECV_GAP \in Nat /\ \A x \in 1 .. n : parts[x] \in Live(s)
  BY <1>1, ChunkCount
<1> HIDE DEF n, g
<1>5. ASSUME NEW x \in 1 .. n PROVE hi[parts[x]] = hi[i] + x - 1
  <2> DEFINE a == hi[i]
             b == hi[parts[x]]
  <2>1. a \in 1 .. NC /\ b \in 1 .. NC /\ g[parts[x]].tsn = TsnOf(b) /\ g[i].tsn = TsnOf(a)
    BY <1>3, <1>4
  <2> HIDE DEF a, b
  <2>2. a \in Int /\ x - 1 \in Int
    BY <2>1
  <2>3. TsnOf(b) = TsnOf(a + (x - 1))
    BY <1>1, <2>1, <2>2, TsnPlus
  <2>4. b \in 0 .. NC + MAX_RECV_GAP /\ a + (x - 1) \in 0 .. NC + MAX_RECV_GAP
    BY <1>1, <1>4, <2>1, ChunkCount
  <2>5. b = a + (x - 1)
    BY <2>3, <2>4, TsnSame
  <2> QED
    BY <2>1, <2>5 DEF a, b
<1>6. parts[1] = i
  <2>1. 1 \in 1 .. n
    BY <1>1, <1>4
  <2>2. hi[parts[1]] = hi[i]
    <3>1. hi[parts[1]] = hi[i] + 1 - 1 /\ hi[i] \in 1 .. NC
      BY <1>3, <1>5, <2>1
    <3> QED
      BY <3>1
  <2>3. /\ lo[parts[1]] <= hi[parts[1]] /\ lo[i] <= hi[i] /\ hi[i] \in Int /\ lo[i] \in Int
        /\ lo[parts[1]] \in Int /\ parts[1] \in Live(s)
    BY <1>3, <1>4, <2>1
  <2>4. parts[1] # i => hi[parts[1]] < lo[i] \/ hi[i] < lo[parts[1]]
    BY <1>2, <2>3
  <2> QED
    BY <2>2, <2>3, <2>4
<1>7. ASSUME NEW x \in 1 .. n, x > 1
      PROVE  /\ lo[parts[x]] = hi[parts[x]]
             /\ Chunks[hi[parts[x]]].msg = Chunks[hi[parts[x - 1]]].msg
  <2> DEFINE j == parts[x]
             p == parts[x - 1]
  <2>1. x - 1 \in 1 .. n /\ x - 1 # n /\ x \in Nat
    BY <1>4, <1>7
  <2>2. j \in Live(s) /\ p \in Live(s) /\ ~g[p].E
    BY <1>1, <1>4, <2>1 DEF n
  <2>3. hi[j] = hi[i] + x - 1 /\ hi[p] = hi[i] + (x - 1) - 1
    BY <1>5, <2>1
  <2> HIDE DEF j, p
  <2>4. /\ lo[j] \in 1 .. NC /\ hi[j] \in 1 .. NC /\ lo[j] <= hi[j]
        /\ lo[p] \in 1 .. NC /\ hi[p] \in 1 .. NC /\ lo[p] <= hi[p]
        /\ hi[i] \in 1 .. NC /\ (g[p].E <=> Chunks[hi[p]].E)
    BY <1>3, <2>2
  <2>5. hi[j] = hi[p] + 1
    BY <2>1, <2>3, <2>4
  <2>6. j # p
    BY <2>4, <2>5
  <2>7. hi[j] < lo[p] \/ hi[p] < lo[j]
    BY <1>2, <2>2, <2>6
  <2>8. lo[j] = hi[j]
    BY <2>4, <2>5, <2>7
  <2>9. Chunks[hi[p] + 1].msg = Chunks[hi[p]].msg
    BY <2>2, <2>4 DEF Spans
  <2> QED
    BY <2>5, <2>8, <2>9 DEF j, p
<1>8. \A x \in 1 .. n : Chunks[hi[parts[x]]].msg = g[i].msg
  <2> DEFINE S == {x \in Nat : x \in 1 .. n => Chunks[hi[parts[x]]].msg = g[i].msg}
  <2>1. 0 \in S
    BY <1>4
  <2>2. ASSUME NEW x \in Nat, x \in S PROVE x + 1 \in S
    <3> SUFFICES ASSUME x + 1 \in 1 .. n PROVE Chunks[hi[parts[x + 1]]].msg = g[i].msg
      OBVIOUS
    <3>1. CASE x = 0
      <4>1. hi[i] \in lo[i] .. hi[i]
        BY <1>3
      <4>2. Chunks[hi[i]].msg = g[i].msg
        BY <1>3, <4>1
      <4> QED
        BY <1>6, <3>1, <4>2
    <3>2. CASE x > 0
      <4>1. x \in 1 .. n /\ x + 1 > 1 /\ (x + 1) - 1 = x
        BY <1>4, <3>2
      <4>2. Chunks[hi[parts[x + 1]]].msg = Chunks[hi[parts[(x + 1) - 1]]].msg
        BY <1>7, <4>1
      <4> QED
        BY <2>2, <4>1, <4>2
    <3> QED
      BY <3>1, <3>2
  <2> HIDE DEF S
  <2>3. Nat \subseteq S
    BY <2>1, <2>2, SetInduction
  <2> QED
    BY <1>4, <2>3 DEF S
<1>9. ASSUME NEW x \in 1 .. n PROVE g[parts[x]].msg = g[i].msg
  <2>1. parts[x] \in Live(s) /\ hi[parts[x]] \in lo[parts[x]] .. hi[parts[x]]
    BY <1>3, <1>4
  <2> QED
    BY <1>3, <1>8, <2>1
<1>10. PartLabels(s, f, lo, hi, i, parts)
  BY <1>5, <1>6, <1>7, <1>9 DEF PartLabels, n, g
<1> QED
  BY <1>10 DEF parts

\* The parts hold the bytes of message m in order, all of them.
PartsSpan(s, m, parts) ==
    /\ m \in Messages
    /\ \A x \in 1 .. Len(parts) : \A p \in 1 .. s.recv_gap[parts[x]].len :
         s.recv_gap_buf[s.recv_gap[parts[x]].off + p] = <<m, Before(s, parts, x - 1) + p>>
    /\ Before(s, parts, Len(parts)) = Sum(Lengths(m))

\* They do, in a labelled state, when the first one begins a message.
LEMMA PartsSpanOK ==
  ASSUME NEW s \in RxStates, NEW f, Spans(f), Filled(s, f),
         NEW i \in Live(s), Parts(s, i) # <<>>, s.recv_gap[i].B
  PROVE  PartsSpan(s, s.recv_gap[i].msg, Parts(s, i))
<1> DEFINE parts == Parts(s, i)
           n == Len(parts)
           g == s.recv_gap
           m == g[i].msg
<1>0. s \in State /\ i \in Slots
  BY StateParts DEF RxStates
<1>1. PICK c : FilledTo(s, f, c)
  BY DEF Filled
<1>2. PICK lo \in [Slots -> Nat], hi \in [Slots -> Nat] : Labelled(s, f, lo, hi, c)
  BY <1>1 DEF FilledTo
<1>3. PartLabels(s, f, lo, hi, i, parts)
  BY <1>0, <1>2, PartsLabelled
<1>4. /\ parts \in Seq(Live(s)) /\ n \in 1 .. MAX_RECV_GAP
      /\ \A x \in 1 .. n : g[parts[x]].E <=> x = n
  BY <1>0, PartsFacts
<1>5. /\ n \in Nat /\ n >= 1 /\ (\A x \in 1 .. n : parts[x] \in Live(s) /\ parts[x] \in Slots)
      /\ parts \in Seq(Slots)
  <2>1. Live(s) \subseteq Slots
    BY <1>0, StateParts
  <2> QED
    BY <1>4, <2>1, ChunkCount
<1>6. /\ Before(s, parts, 0) = 0
      /\ \A k \in 1 .. n : Before(s, parts, k) = Before(s, parts, k - 1) + g[parts[k]].len
      /\ \A k \in 0 .. n : Before(s, parts, k) \in Nat
  BY <1>0, <1>5, PartSums
<1>7. /\ parts[1] = i
      /\ \A x \in 1 .. n : /\ hi[parts[x]] = hi[i] + x - 1
                           /\ x > 1 => lo[parts[x]] = hi[parts[x]]
                           /\ g[parts[x]].msg = m
  BY <1>3 DEF PartLabels
<1> HIDE DEF parts, n
<1>8. \A j \in Live(s) : Holds(g[j], s.recv_gap_buf, f, lo[j], hi[j])
  BY <1>2 DEF Labelled
<1>9. ASSUME NEW j \in Live(s)
      PROVE  /\ lo[j] \in 1 .. NC /\ hi[j] \in 1 .. NC
             /\ (g[j].B => f[lo[j]] = 0) /\ (g[j].E <=> Chunks[hi[j]].E)
             /\ g[j].len = f[hi[j]] + Size(hi[j]) - f[lo[j]]
             /\ \A q \in 1 .. g[j].len : s.recv_gap_buf[g[j].off + q] = <<g[j].msg, f[lo[j]] + q>>
             /\ f[hi[j]] \in Nat /\ f[lo[j]] \in Nat /\ Size(hi[j]) \in Nat
             /\ Chunks[hi[j]].msg = g[j].msg
  <2>1. Holds(g[j], s.recv_gap_buf, f, lo[j], hi[j])
    BY <1>8
  <2>2. lo[j] \in 1 .. NC /\ hi[j] \in 1 .. NC /\ lo[j] <= hi[j]
    BY <2>1 DEF Holds
  <2>3. f[hi[j]] \in Nat /\ f[lo[j]] \in Nat /\ Size(hi[j]) \in Nat
    BY <2>2 DEF Spans
  <2>4. hi[j] \in lo[j] .. hi[j]
    BY <2>2
  <2> QED
    BY <2>1, <2>2, <2>3, <2>4 DEF Holds
<1> DEFINE At(x) == /\ f[lo[parts[x]]] = Before(s, parts, x - 1)
                    /\ f[hi[parts[x]]] + Size(hi[parts[x]]) = Before(s, parts, x)
<1>10. \A x \in 1 .. n : At(x)
  <2> DEFINE S == {x \in Nat : x \in 1 .. n => At(x)}
  <2>1. 0 \in S
    BY <1>5
  <2>2. ASSUME NEW x \in Nat, x \in S PROVE x + 1 \in S
    <3> SUFFICES ASSUME x + 1 \in 1 .. n PROVE At(x + 1)
      OBVIOUS
    <3> DEFINE j == parts[x + 1]
    <3>0. j \in Live(s) /\ x + 1 \in Nat /\ (x + 1) - 1 = x
      BY <1>5
    <3>1. /\ g[j].len = f[hi[j]] + Size(hi[j]) - f[lo[j]]
          /\ f[hi[j]] \in Nat /\ f[lo[j]] \in Nat /\ Size(hi[j]) \in Nat
      BY <1>9, <3>0
    <3>2. Before(s, parts, x + 1) = Before(s, parts, x) + g[j].len
          /\ Before(s, parts, x) \in Nat
      <4>1. x \in 0 .. n
        BY <1>5
      <4> QED
        BY <1>6, <3>0, <4>1
    <3>3. f[lo[j]] = Before(s, parts, x)
      <4>1. CASE x = 0
        BY <1>6, <1>7, <1>9, <4>1
      <4>2. CASE x > 0
        <5> DEFINE p == parts[x]
        <5>1. x \in 1 .. n /\ x # n /\ x + 1 > 1 /\ p \in Live(s)
          BY <1>5, <4>2
        <5>2. f[hi[p]] + Size(hi[p]) = Before(s, parts, x)
          BY <2>2, <5>1
        <5>3. hi[p] = hi[i] + x - 1 /\ hi[j] = hi[i] + (x + 1) - 1 /\ lo[j] = hi[j]
          BY <1>7, <5>1
        <5>4. hi[p] \in 1 .. NC /\ ~Chunks[hi[p]].E /\ hi[i] \in Nat
          <6>1. ~g[p].E
            BY <1>4, <5>1 DEF n
          <6>2. hi[p] \in 1 .. NC /\ (g[p].E <=> Chunks[hi[p]].E)
            BY <1>9, <5>1
          <6>3. hi[i] \in Nat
            BY <1>0
          <6> QED
            BY <6>1, <6>2, <6>3
        <5>5. hi[j] = hi[p] + 1
          BY <5>3, <5>4
        <5>6. f[hi[p] + 1] = f[hi[p]] + Size(hi[p])
          BY <5>4 DEF Spans
        <5> QED
          BY <5>2, <5>3, <5>5, <5>6
      <4> QED
        BY <4>1, <4>2
    <3> HIDE DEF j
    <3>4. f[hi[j]] + Size(hi[j]) = Before(s, parts, x + 1)
      BY <3>1, <3>2, <3>3
    <3> QED
      BY <3>0, <3>3, <3>4 DEF j
  <2> HIDE DEF S
  <2>3. Nat \subseteq S
    BY <2>1, <2>2, SetInduction
  <2> QED
    BY <1>5, <2>3 DEF S
<1>11. ASSUME NEW x \in 1 .. n, NEW p \in 1 .. g[parts[x]].len
       PROVE  s.recv_gap_buf[g[parts[x]].off + p] = <<m, Before(s, parts, x - 1) + p>>
  <2>1. parts[x] \in Live(s) /\ g[parts[x]].msg = m /\ f[lo[parts[x]]] = Before(s, parts, x - 1)
    BY <1>5, <1>7, <1>10
  <2> DEFINE j == parts[x]
  <2>2. \A q \in 1 .. g[j].len : s.recv_gap_buf[g[j].off + q] = <<g[j].msg, f[lo[j]] + q>>
    BY <1>9, <2>1
  <2> QED
    BY <2>1, <2>2
<1>12. m \in Messages /\ Before(s, parts, n) = Sum(Lengths(m))
  <2> DEFINE j == parts[n]
  <2>1. n \in 1 .. n
    BY <1>5
  <2>2. j \in Live(s) /\ g[j].E /\ g[j].msg = m /\ f[hi[j]] + Size(hi[j]) = Before(s, parts, n)
    BY <1>4, <1>5, <1>7, <1>10, <2>1 DEF n
  <2>3. hi[j] \in 1 .. NC /\ Chunks[hi[j]].E /\ Chunks[hi[j]].msg = m
    BY <1>9, <2>2
  <2> QED
    BY <2>2, <2>3 DEF Spans
<1>13. PartsSpan(s, m, parts)
  BY <1>11, <1>12 DEF PartsSpan, n
<1> QED
  BY <1>13 DEF parts

\* Gathered at the front of the pool, they are the message.
LEMMA FrontBytes ==
  ASSUME NEW s \in State, PoolOK(s), NEW parts \in Seq(Valid(s)), NEW m, PartsSpan(s, m, parts),
         NEW acc \in GatherStates(s, parts, Len(parts))
  PROVE  /\ acc.pos = Sum(Lengths(m)) /\ acc.pos \in Nat
         /\ acc.pos <= Len(acc.st.recv_gap_buf)
         /\ \A q \in 1 .. acc.pos : acc.st.recv_gap_buf[q] = <<m, q>>
<1> DEFINE t == acc.st
           n == Len(parts)
           g == s.recv_gap
           b(k) == Before(s, parts, k)
<1>1. Kept(s, t) /\ Fronted(s, parts, n, t, acc.pos)
  BY DEF GatherStates
<1>2. /\ t \in State /\ PoolOK(t) /\ Valid(t) = Valid(s)
      /\ \A j \in Valid(s) : KeptEntry(s, t, j)
  BY <1>1 DEF Kept
<1>3. /\ acc.pos = b(n)
      /\ \A x \in 1 .. n : g[parts[x]].len > 0 => t.recv_gap[parts[x]].off = b(x - 1)
  BY <1>1 DEF Fronted
<1>4. n \in Nat /\ \A x \in 1 .. n : parts[x] \in Valid(s) /\ parts[x] \in Slots
  BY StateParts
<1>5. parts \in Seq(Slots)
  <2>1. Valid(s) \subseteq Slots
    BY StateParts
  <2> QED
    BY <2>1
<1>6. /\ b(0) = 0
      /\ \A k \in 1 .. n : b(k) = b(k - 1) + g[parts[k]].len
      /\ \A k \in 0 .. n : b(k) \in Nat
  BY <1>5, PartSums
<1>7. /\ \A x \in 1 .. n : \A p \in 1 .. g[parts[x]].len :
           s.recv_gap_buf[g[parts[x]].off + p] = <<m, b(x - 1) + p>>
      /\ b(n) = Sum(Lengths(m))
  BY DEF PartsSpan
<1>8. Len(t.recv_gap_buf) \in Nat
  BY <1>2, StateParts
<1> HIDE DEF t, n, b
<1> DEFINE Done(k) == /\ b(k) <= Len(t.recv_gap_buf)
                      /\ \A q \in 1 .. b(k) : t.recv_gap_buf[q] = <<m, q>>
           S == {k \in Nat : k \in 0 .. n => Done(k)}
<1>9. 0 \in S
  BY <1>6, <1>8
<1>10. ASSUME NEW k \in Nat, k \in S PROVE k + 1 \in S
  <2> SUFFICES ASSUME k + 1 \in 0 .. n PROVE Done(k + 1)
    OBVIOUS
  <2> DEFINE j == parts[k + 1]
             l == g[j].len
             o == t.recv_gap[j].off
  <2>1. k \in 0 .. n /\ k + 1 \in 1 .. n /\ (k + 1) - 1 = k /\ Done(k)
    <3>1. k \in 0 .. n /\ k + 1 \in 1 .. n /\ (k + 1) - 1 = k
      BY <1>4
    <3> QED
      BY <1>10, <3>1
  <2>2. j \in Valid(s) /\ j \in Slots /\ KeptEntry(s, t, j)
    BY <1>2, <1>4, <2>1
  <2>3. l \in Nat /\ b(k) \in Nat /\ b(k + 1) = b(k) + l
    <3>1. l \in Nat
      BY <2>2, StateParts
    <3> QED
      BY <1>6, <2>1, <3>1
  <2>4. /\ t.recv_gap[j].len = l
        /\ \A q \in 1 .. l : t.recv_gap_buf[o + q] = s.recv_gap_buf[g[j].off + q]
    <3>1. t.recv_gap[j].len = l
      BY <1>2, <2>2, KeptFields
    <3> QED
      BY <2>2, <3>1 DEF KeptEntry
  <2>5. \A q \in 1 .. l : s.recv_gap_buf[g[j].off + q] = <<m, b(k) + q>>
    BY <1>7, <2>1
  <2>6. l > 0 => o = b(k)
    BY <1>3, <2>1
  <2>7. l > 0 => o + l <= Len(t.recv_gap_buf)
    <3>1. Lens(t)[j] > 0 => Offs(t)[j] + Lens(t)[j] <= Len(t.recv_gap_buf)
      BY <1>2, <2>2 DEF PoolOK, Tiled, Inside
    <3>2. Lens(t)[j] = l /\ Offs(t)[j] = o
      BY <1>2, <2>2, <2>4, StateParts
    <3> QED
      BY <3>1, <3>2
  <2> HIDE DEF l, o, j
  <2>8. b(k + 1) <= Len(t.recv_gap_buf)
    BY <1>8, <2>1, <2>3, <2>6, <2>7
  <2>9. ASSUME NEW q \in 1 .. b(k + 1) PROVE t.recv_gap_buf[q] = <<m, q>>
    <3>1. CASE q <= b(k)
      <4>1. q \in 1 .. b(k)
        BY <2>3, <3>1
      <4> QED
        BY <2>1, <4>1
    <3>2. CASE ~(q <= b(k))
      <4> DEFINE p == q - b(k)
      <4>1. p \in 1 .. l /\ b(k) + p = q /\ l > 0
        BY <2>3, <3>2
      <4>2. t.recv_gap_buf[o + p] = <<m, b(k) + p>>
        BY <2>4, <2>5, <4>1
      <4> QED
        BY <2>6, <4>1, <4>2
    <3> QED
      BY <3>1, <3>2
  <2> QED
    BY <2>8, <2>9
<1> HIDE DEF S
<1>11. Nat \subseteq S
  BY <1>9, <1>10, SetInduction
<1>12. Done(n) /\ b(n) \in Nat
  <2>1. n \in 0 .. n
    BY <1>4
  <2> QED
    BY <1>4, <1>6, <1>11, <2>1 DEF S
<1> QED
  BY <1>3, <1>7, <1>12 DEF t

\* A message as the peer sent it, on some stream.
Sent == {[msg |-> m, sid |-> x, data |-> Bytes(m)] : m \in Messages, x \in Nat}

\* A delivered message is the peer's, and what is left in the table keeps its labels.
LEMMA DeliverIntact ==
  ASSUME NEW s \in RxStates, NEW f, Spans(f), Filled(s, f), NEW i \in Deliverable(s)
  PROVE  LET d == DeliverFrom(s, i)
         IN Filled(d.st, f) /\ d.message \in Sent
<1> DEFINE d == DeliverFrom(s, i)
           t == d.st
           parts == Parts(s, i)
           acc == Gather(s, parts)
           m == s.recv_gap[i].msg
           buf == t.recv_gap_buf
<1>0. s \in State /\ PoolOK(s)
  BY DEF RxStates
<1>1. i \in Live(s) /\ i \in Slots /\ parts # <<>> /\ s.recv_gap[i].B
  BY <1>0, StateParts DEF Deliverable
<1>2. parts \in Seq(Valid(s)) /\ Distinct(parts)
  BY <1>0, <1>1, PartsFacts
<1>3. PartsSpan(s, m, parts)
  BY <1>1, PartsSpanOK
<1>4. acc \in GatherStates(s, parts, Len(parts))
  BY <1>0, <1>2, GatherOK
<1>5. Delivered(s, i, t)
  BY DeliverStep
<1>6. /\ t \in State /\ Kept(s, acc.st) /\ Relabelled(acc.st, t)
      /\ t.recv_gap_buf = acc.st.recv_gap_buf /\ t.cumulative_tsn = acc.st.cumulative_tsn
  BY <1>5 DEF Delivered
<1>7. d.message = [msg |-> m, sid |-> s.recv_gap[i].sid, data |-> SubSeq(buf, 1, acc.pos)]
  BY DEF DeliverFrom
<1> HIDE DEF d, acc, parts
<1>8. /\ acc.pos = Sum(Lengths(m)) /\ acc.pos \in Nat /\ acc.pos <= Len(buf)
      /\ \A q \in 1 .. acc.pos : buf[q] = <<m, q>>
  <2>1. /\ acc.pos = Sum(Lengths(m)) /\ acc.pos \in Nat
        /\ acc.pos <= Len(acc.st.recv_gap_buf)
        /\ \A q \in 1 .. acc.pos : acc.st.recv_gap_buf[q] = <<m, q>>
    BY <1>0, <1>2, <1>3, <1>4, FrontBytes
  <2> QED
    BY <1>6, <2>1
<1>9. buf \in Seq(Byte)
  BY <1>6, StateParts
<1> HIDE DEF buf
<1>10. SubSeq(buf, 1, acc.pos) = [q \in 1 .. acc.pos |-> <<m, q>>]
  <2>1. SubSeq(buf, 1, acc.pos) = [q \in 1 .. acc.pos |-> buf[q]]
    BY <1>8, <1>9
  <2> QED
    BY <1>8, <2>1
<1>11. Bytes(m) = [q \in 1 .. acc.pos |-> <<m, q>>]
  BY <1>8 DEF Bytes, Lengths
<1>12. m \in Messages
  BY <1>3 DEF PartsSpan
<1>13. Filled(t, f)
  <2>1. PICK c : FilledTo(s, f, c)
    BY DEF Filled
  <2>2. acc.st \in State /\ Carries(s, acc.st)
    BY <1>0, <1>6, KeptCarries DEF Kept
  <2>3. Carries(acc.st, t)
    BY <1>6, <2>2, RelabelCarries
  <2>4. FilledTo(t, f, c)
    BY <2>1, <2>2, <2>3, CarryOK
  <2> QED
    BY <2>4 DEF Filled
<1>14. s.recv_gap[i].sid \in Nat
  <2>1. s.recv_gap[i] \in Entry
    BY <1>0, <1>1, StateParts
  <2> QED
    BY <2>1 DEF Entry
<1>15. d.message \in Sent
  <2> DEFINE x == s.recv_gap[i].sid
  <2>1. SubSeq(buf, 1, acc.pos) = Bytes(m)
    BY <1>10, <1>11
  <2>2. d.message = [msg |-> m, sid |-> x, data |-> Bytes(m)]
    BY <1>7, <2>1
  <2> HIDE DEF x, m
  <2> QED
    BY <1>12, <1>14, <2>2 DEF Sent, x
<1> QED
  BY <1>13, <1>15 DEF d

-----------------------------------------------------------------------------
(* The invariant.                                                           *)

\* The table is labelled, and everything handed out is a message of the peer.
IntactInv ==
    /\ Inv
    /\ \E f : Spans(f) /\ Filled(rx, f)
    /\ delivered \in Seq(Sent)

\* The empty table needs no label.
LEMMA InitFilled == \E f : Spans(f) /\ Filled(RxInit, f)
<1>1. PICK f : Spans(f)
  BY SpansExist
<1> DEFINE z == [j \in Slots |-> 0]
<1>2. z \in [Slots -> Nat]
  OBVIOUS
<1> HIDE DEF z
<1>3. RxInit.cumulative_tsn = TsnOf(0) /\ 0 \in 0 .. NC
  <2>1. 0 - 1 = -1
    OBVIOUS
  <2> QED
    BY <2>1, ChunkCount DEF RxInit, TsnOf
<1>4. Valid(RxInit) = {} /\ Live(RxInit) = {}
  <2>1. RxInit.recv_gap = [j \in Slots |-> NoEntry]
    BY DEF RxInit
  <2> QED
    BY <2>1 DEF Valid, Live, NoEntry
<1>5. Labelled(RxInit, f, z, z, 0)
  BY <1>3, <1>4 DEF Labelled
<1>6. Filled(RxInit, f)
  BY <1>2, <1>5 DEF Filled, FilledTo
<1> QED
  BY <1>1, <1>6

\* Queueing a SACK keeps the labels.
LEMMA SackFilled ==
  ASSUME NEW s \in State, NEW f, Filled(s, f), QueueSack(s)
  PROVE  Filled(rx', f)
<1>1. PICK c : FilledTo(s, f, c)
  BY DEF Filled
<1> DEFINE t == [s EXCEPT !.sack_needed = FALSE]
<1>2. /\ t.recv_gap = s.recv_gap /\ t.recv_gap_buf = s.recv_gap_buf
      /\ t.cumulative_tsn = s.cumulative_tsn
  BY DEF State
<1>3. rx' = t \/ rx' = s
  BY DEF QueueSack
<1> HIDE DEF t
<1>4. FilledTo(t, f, c)
  BY <1>1, <1>2, SameFilled
<1> QED
  BY <1>1, <1>3, <1>4 DEF Filled

\* Every step keeps the labels and delivers only what the peer sent.
LEMMA IntactStep == IntactInv /\ [Next]_vars => IntactInv'
<1> SUFFICES ASSUME IntactInv, [Next]_vars PROVE IntactInv'
  OBVIOUS
<1>0. Inv /\ rx \in RxStates /\ delivered \in Seq(Sent)
  BY DEF IntactInv, Inv
<1>1. PICK f : Spans(f) /\ Filled(rx, f)
  BY DEF IntactInv
<1>2. Inv'
  BY <1>0, InvStep
<1> SUFFICES Filled(rx', f) /\ delivered' \in Seq(Sent)
  BY <1>1, <1>2 DEF IntactInv
<1>3. ASSUME NEW k \in DOMAIN Chunks, HandleData(k)
      PROVE  Filled(rx', f) /\ delivered' \in Seq(Sent)
  <2> DEFINE s == nsctp_handle_data_chunk(rx, Chunks[k], TsnOf(k))
  <2>1. s \in RxStates /\ s \in State
    BY <1>0, TsnType, DataChunkOK DEF RxStates
  <2>2. Filled(s, f)
    <3>1. k \in 1 .. NC
      BY ChunkCount
    <3> QED
      BY <1>0, <1>1, <3>1, DataChunkFilled
  <2>3. (rx' = s \/ QueueSack(s)) /\ delivered' = delivered
    BY <1>3 DEF HandleData, HandleChunk
  <2> HIDE DEF s
  <2> QED
    BY <1>0, <2>1, <2>2, <2>3, SackFilled
<1>4. ASSUME NEW h \in Messages, NEW m \in Messages, HandleForwardTsn(h, m)
      PROVE  Filled(rx', f) /\ delivered' \in Seq(Sent)
  <2>0. PICK pairs \in SetToSeqs(SkippedPairs(h, m)) :
           QueueSack(nsctp_handle_forward_tsn(rx, TsnOf(LastChunk(m)), pairs))
    BY <1>4 DEF HandleForwardTsn
  <2> DEFINE s == nsctp_handle_forward_tsn(rx, TsnOf(LastChunk(m)), pairs)
  <2>1. LastChunk(m) \in 1 .. NC /\ pairs \in Seq(Pairs)
    BY <2>0, ChunkCount, LastChunkType, SkippedPairsType
  <2>2. s \in RxStates /\ s \in State
    BY <1>0, <2>1, LastChunkType, ForwardTsnOK DEF RxStates
  <2>3. Filled(s, f)
    BY <1>0, <1>1, <2>1, ForwardFilled
  <2>4. QueueSack(s) /\ delivered' = delivered
    BY <1>4, <2>0 DEF HandleForwardTsn
  <2> HIDE DEF s
  <2> QED
    BY <1>0, <2>2, <2>3, <2>4, SackFilled
<1>5. ASSUME NEW given \in SUBSET Messages, PeerAbandon(given)
      PROVE  Filled(rx', f) /\ delivered' \in Seq(Sent)
  BY <1>0, <1>1, <1>5 DEF PeerAbandon
<1>6. ASSUME PollDelivery PROVE Filled(rx', f) /\ delivered' \in Seq(Sent)
  <2> DEFINE s == nsctp_rx_reclaim(rx)
             d == DeliverFrom(s, Min(Deliverable(s)))
  <2>1. s \in RxStates /\ Filled(s, f)
    <3>1. PICK c : FilledTo(rx, f, c)
      BY <1>1 DEF Filled
    <3>2. FilledTo(s, f, c)
      BY <1>0, <3>1, ReclaimCarries, CarryOK
    <3> QED
      BY <1>0, <3>2, ReclaimOK DEF Filled
  <2>2. \/ rx' = s /\ delivered' = delivered
        \/ Deliverable(s) # {} /\ rx' = d.st /\ delivered' = Append(delivered, d.message)
    BY <1>6 DEF PollDelivery
  <2> HIDE DEF s
  <2>3. Deliverable(s) # {} => Filled(d.st, f) /\ d.message \in Sent
    BY <1>1, <2>1, FirstDeliverable, DeliverIntact
  <2> HIDE DEF d
  <2> QED
    BY <1>0, <2>1, <2>2, <2>3
<1>7. ASSUME PollOutput PROVE Filled(rx', f) /\ delivered' \in Seq(Sent)
  <2> DEFINE t == [rx EXCEPT !.sack_needed = FALSE]
  <2>1. /\ t.recv_gap = rx.recv_gap /\ t.recv_gap_buf = rx.recv_gap_buf
        /\ t.cumulative_tsn = rx.cumulative_tsn
    BY <1>0 DEF RxStates, State
  <2>2. (rx' = rx \/ rx' = t) /\ delivered' = delivered
    BY <1>7 DEF PollOutput
  <2> HIDE DEF t
  <2>3. PICK c : FilledTo(rx, f, c)
    BY <1>1 DEF Filled
  <2>4. FilledTo(t, f, c)
    BY <2>1, <2>3, SameFilled
  <2> QED
    BY <1>0, <1>1, <2>2, <2>4 DEF Filled
<1>8. CASE UNCHANGED vars
  BY <1>0, <1>1, <1>8 DEF vars
<1> QED
  BY <1>3, <1>4, <1>5, <1>6, <1>7, <1>8 DEF Next

\* In every reachable state every message handed to the application
\* (nsctp_poll_delivery) carries exactly the bytes the peer sent (Intact), for every size
\* of table and pool, every traffic of a conforming peer, and every loss, duplication and
\* reordering of its chunks and FORWARD-TSNs.
THEOREM DeliveredIntact == Spec => []Intact
<1>1. Init => IntactInv
  <2> SUFFICES ASSUME Init PROVE IntactInv
    OBVIOUS
  <2>1. Inv
    BY InitOK, RecvSizes DEF Init, Inv
  <2>2. \E f : Spans(f) /\ Filled(rx, f)
    BY InitFilled DEF Init
  <2>3. delivered \in Seq(Sent)
    BY DEF Init
  <2> QED
    BY <2>1, <2>2, <2>3 DEF IntactInv
<1>2. IntactInv => Intact
  <2> SUFFICES ASSUME IntactInv, NEW n \in DOMAIN delivered
               PROVE  delivered[n].data = Bytes(delivered[n].msg)
    BY DEF Intact
  <2>1. delivered[n] \in Sent
    BY DEF IntactInv
  <2> QED
    BY <2>1 DEF Sent
<1> QED
  BY <1>1, <1>2, IntactStep, PTL DEF Spec

-----------------------------------------------------------------------------
(* What a SACK has acknowledged stays acknowledged.                         *)

\* The cumulative TSN of s is that of chunk c, and its entries have TSNs of chunks.
Tracked(s, c) ==
    /\ c \in 0 .. NC /\ s.cumulative_tsn = TsnOf(c)
    /\ \A j \in Valid(s) : \E k \in 1 .. NC : s.recv_gap[j].tsn = TsnOf(k)

\* The cumulative TSN of t is not behind that of s, and every chunk marked in s is marked
\* in t or below it.
Told(s, t, d) == \A k \in 1 .. NC : Duplicate(s, TsnOf(k)) => k <= d \/ Duplicate(t, TsnOf(k))
Ahead(s, t) == \E c, d \in 0 .. NC : /\ Tracked(s, c) /\ Tracked(t, d) /\ c <= d
                                     /\ Told(s, t, d)

\* A state with labels is tracked.
LEMMA FilledTracked ==
  ASSUME NEW s, NEW f, NEW c, FilledTo(s, f, c)
  PROVE  Tracked(s, c)
BY DEF FilledTo, Labelled, Tracked

\* Ahead is reflexive.
LEMMA AheadRefl ==
  ASSUME NEW s, NEW c, Tracked(s, c)
  PROVE  Ahead(s, s)
<1>1. c \in 0 .. NC /\ c <= c
  BY ChunkCount DEF Tracked
<1> QED
  BY <1>1 DEF Ahead, Told

\* A state is tracked by one chunk only.
LEMMA TrackedOnce ==
  ASSUME NEW s, NEW c, NEW d, Tracked(s, c), Tracked(s, d)
  PROVE  c = d
<1>1. c \in 0 .. NC /\ d \in 0 .. NC /\ TsnOf(c) = TsnOf(d)
  BY DEF Tracked
<1>2. c \in 0 .. NC + MAX_RECV_GAP /\ d \in 0 .. NC + MAX_RECV_GAP
  BY <1>1, ChunkCount
<1> QED
  BY <1>1, <1>2, TsnSame

\* Ahead is transitive.
LEMMA AheadTrans ==
  ASSUME NEW s, NEW t, NEW u, Ahead(s, t), Ahead(t, u)
  PROVE  Ahead(s, u)
<1>1. PICK c \in 0 .. NC, d \in 0 .. NC :
         Tracked(s, c) /\ Tracked(t, d) /\ c <= d /\ Told(s, t, d)
  BY DEF Ahead
<1>2. PICK x \in 0 .. NC, e \in 0 .. NC :
         Tracked(t, x) /\ Tracked(u, e) /\ x <= e /\ Told(t, u, e)
  BY DEF Ahead
<1>3. d = x
  BY <1>1, <1>2, TrackedOnce
<1>4. c <= e
  BY <1>1, <1>2, <1>3, ChunkCount
<1>5. ASSUME NEW k \in 1 .. NC, Duplicate(s, TsnOf(k))
      PROVE  k <= e \/ Duplicate(u, TsnOf(k))
  <2>1. k <= d \/ Duplicate(t, TsnOf(k))
    BY <1>1, <1>5 DEF Told
  <2>2. CASE k <= d
    BY <1>2, <1>3, <2>2, ChunkCount
  <2>3. CASE Duplicate(t, TsnOf(k))
    BY <1>2, <2>3 DEF Told
  <2> QED
    BY <2>1, <2>2, <2>3
<1> QED
  BY <1>1, <1>2, <1>4, <1>5 DEF Ahead, Told

\* The step from s to t leaves the cumulative TSN alone, and frees or merges away only
\* entries that it has passed.
Retains(s, t) ==
    /\ t.cumulative_tsn = s.cumulative_tsn
    /\ \A j \in Valid(s) : \/ Duplicate(t, s.recv_gap[j].tsn)
                           \/ Passed(s, s.recv_gap[j])
    /\ \A j \in Valid(t) : Duplicate(s, t.recv_gap[j].tsn)

\* Such a step is not behind.
LEMMA RetainsAhead ==
  ASSUME NEW s, NEW t, NEW c, Tracked(s, c), Retains(s, t)
  PROVE  Ahead(s, t) /\ Tracked(t, c)
<1>0. c \in 0 .. NC /\ c <= c
  BY ChunkCount DEF Tracked
<1>1. Tracked(t, c)
  BY DEF Tracked, Retains, Duplicate
<1>2. ASSUME NEW k \in 1 .. NC, Duplicate(s, TsnOf(k))
      PROVE  k <= c \/ Duplicate(t, TsnOf(k))
  <2>1. PICK j \in Valid(s) : s.recv_gap[j].tsn = TsnOf(k)
    BY <1>2 DEF Duplicate
  <2>2. CASE Duplicate(t, s.recv_gap[j].tsn)
    BY <2>1, <2>2
  <2>3. CASE Passed(s, s.recv_gap[j])
    <3>1. TsnDiff(TsnOf(k), TsnOf(c)) <= 0
      BY <2>1, <2>3 DEF Passed, Tracked
    <3>2. k \in 0 .. NC
      OBVIOUS
    <3>3. k - c <= 0
      BY <1>0, <3>1, <3>2, TsnOrder
    <3> QED
      BY <1>0, <3>2, <3>3, ChunkCount
  <2> QED
    BY <2>1, <2>2, <2>3 DEF Retains
<1> QED
  BY <1>0, <1>1, <1>2 DEF Ahead, Told

\* Steps that retain the table of the entries' TSNs, slot by slot.
LEMMA SlotwiseRetains ==
  ASSUME NEW s, NEW t, t.cumulative_tsn = s.cumulative_tsn,
         \A j \in Valid(s) : \/ j \in Valid(t) /\ t.recv_gap[j].tsn = s.recv_gap[j].tsn
                             \/ Passed(s, s.recv_gap[j]),
         \A j \in Valid(t) : j \in Valid(s) /\ t.recv_gap[j].tsn = s.recv_gap[j].tsn
  PROVE  Retains(s, t)
BY DEF Retains, Duplicate

\* A step that retains what it must extends one that is ahead.
LEMMA RetainAfter ==
  ASSUME NEW r, NEW s, NEW t, Ahead(r, s), Retains(s, t)
  PROVE  Ahead(r, t)
<1>1. PICK d \in 0 .. NC : Tracked(s, d)
  BY DEF Ahead
<1>2. Ahead(s, t)
  BY <1>1, RetainsAhead
<1> QED
  BY <1>2, AheadTrans

\* So does raising the cumulative TSN.
LEMMA RaiseAfter ==
  ASSUME NEW r, NEW s, NEW t, NEW c, NEW d \in 0 .. NC, Ahead(r, s), Tracked(s, c), c <= d,
         t.recv_gap = s.recv_gap, t.cumulative_tsn = TsnOf(d)
  PROVE  Ahead(r, t)
<1>1. Valid(t) = Valid(s)
  BY DEF Valid
<1>2. Tracked(t, d) /\ c \in 0 .. NC
  BY <1>1 DEF Tracked
<1>3. Told(s, t, d)
  BY <1>1 DEF Told, Duplicate
<1>4. Ahead(s, t)
  BY <1>2, <1>3 DEF Ahead
<1> QED
  BY <1>4, AheadTrans

\* A slot of s keeps its TSN in t, or the cumulative TSN has passed it.
Spared(s, t, j) == \/ j \in Valid(t) /\ t.recv_gap[j].tsn = s.recv_gap[j].tsn
                   \/ Passed(s, s.recv_gap[j])
Spares(s, t) ==
    /\ t.cumulative_tsn = s.cumulative_tsn
    /\ \A j \in Valid(s) : Spared(s, t, j)
    /\ \A j \in Valid(t) : j \in Valid(s) /\ t.recv_gap[j].tsn = s.recv_gap[j].tsn

\* Sparing is transitive.
LEMMA SparesTrans ==
  ASSUME NEW s, NEW t, NEW u, Spares(s, t), Spares(t, u)
  PROVE  Spares(s, u)
<1>1. ASSUME NEW j \in Valid(s) PROVE Spared(s, u, j)
  <2>1. CASE Passed(s, s.recv_gap[j])
    BY <2>1 DEF Spared
  <2>2. CASE j \in Valid(t) /\ t.recv_gap[j].tsn = s.recv_gap[j].tsn
    <3>1. Spared(t, u, j) /\ t.cumulative_tsn = s.cumulative_tsn
      BY <2>2 DEF Spares
    <3>2. Passed(t, t.recv_gap[j]) => Passed(s, s.recv_gap[j])
      BY <2>2, <3>1 DEF Passed
    <3> QED
      BY <2>2, <3>1, <3>2 DEF Spared
  <2> QED
    BY <2>1, <2>2 DEF Spares, Spared
<1> QED
  BY <1>1 DEF Spares

\* One iteration of nsctp_rx_reclaim frees its slot only if the cumulative TSN has passed it.
LEMMA ReclaimSlotSpares ==
  ASSUME NEW s \in RxStates, NEW i \in Slots
  PROVE  Spares(s, ReclaimSlot(s, i))
<1> DEFINE e == s.recv_gap[i]
           c == IF e.len > 0 THEN Compacted(s, i) ELSE s
           t == ReclaimSlot(s, i)
<1>0. s \in State /\ PoolOK(s) /\ e \in Entry /\ s.recv_gap \in [Slots -> Entry]
  BY StateParts DEF RxStates
<1>1. t = IF ~(e.valid /\ e.delivered) THEN s
          ELSE IF Passed(s, e) THEN [c EXCEPT !.recv_gap[i] = NoEntry, !.recv_gap_count = @ - 1]
          ELSE c
  BY DEF ReclaimSlot, Compacted
<1>2. Reclaimed(s, t)
  BY ReclaimStep
<1> HIDE DEF t
<1>3. ASSUME NEW j \in Valid(s) PROVE Spared(s, t, j)
  <2>1. CASE ~(e.valid /\ e.delivered)
    BY <1>1, <2>1 DEF Spared
  <2>2. CASE e.valid /\ e.delivered
    <3>0. i \in Valid(s)
      BY <2>2 DEF Valid
    <3>1. c \in State /\ Valid(c) = Valid(s) /\ c.recv_gap[j].tsn = s.recv_gap[j].tsn
      <4>1. CASE e.len > 0
        <5>1. /\ c \in State /\ Valid(c) = Valid(s) /\ c.recv_gap[i] = [e EXCEPT !.len = 0]
              /\ \A k \in Valid(s) \ {i} : SameEntry(s, c, k)
          BY <1>0, <3>0, <4>1, CompactStep
        <5> HIDE DEF c
        <5>2. CASE j = i
          BY <1>0, <5>1, <5>2 DEF Entry
        <5>3. CASE j # i
          <6>1. SameEntry(s, c, j) /\ j \in Slots
            BY <1>0, <5>1, <5>3, StateParts
          <6> QED
            BY <1>0, <5>1, <6>1, SameEntryFields
        <5> QED
          BY <5>2, <5>3
      <4>2. CASE ~(e.len > 0)
        BY <1>0, <4>2
      <4> QED
        BY <4>1, <4>2
    <3> HIDE DEF c
    <3>2. CASE ~Passed(s, e)
      BY <1>1, <2>2, <3>1, <3>2 DEF Spared
    <3>3. CASE Passed(s, e)
      <4>1. CASE j = i
        BY <3>3, <4>1 DEF Spared
      <4>2. CASE j # i
        <5>1. j \in Slots /\ c.recv_gap[j].valid
          BY <3>1 DEF Valid
        <5>2. t = [c EXCEPT !.recv_gap[i] = NoEntry, !.recv_gap_count = @ - 1]
          BY <1>1, <2>2, <3>3
        <5>3. t.recv_gap[j] = c.recv_gap[j]
          BY <3>1, <4>2, <5>1, <5>2 DEF State
        <5> QED
          BY <3>1, <5>1, <5>3 DEF Spared, Valid
      <4> QED
        BY <4>1, <4>2
    <3> QED
      BY <3>2, <3>3
  <2> QED
    BY <2>1, <2>2
<1> QED
  BY <1>2, <1>3 DEF Spares, Reclaimed, t

\* nsctp_rx_reclaim keeps the marker of every TSN above the cumulative one.
LEMMA ReclaimRetains ==
  ASSUME NEW s \in RxStates
  PROVE  Retains(s, nsctp_rx_reclaim(s))
<1> DEFINE R == {t \in RxStates : Spares(s, t)}
<1>1. SlotSeq \in Seq(Slots)
  <2>1. MAX_RECV_GAP \in Nat
    BY RecvSizes
  <2> QED
    BY <2>1 DEF SlotSeq, Slots
<1>2. s \in R
  BY DEF Spares, Spared
<1>3. ASSUME NEW t \in R, NEW i \in Slots PROVE ReclaimSlot(t, i) \in R
  <2>1. ReclaimSlot(t, i) \in RxStates /\ Spares(t, ReclaimSlot(t, i))
    BY ReclaimStep, ReclaimSlotSpares
  <2>2. Spares(s, ReclaimSlot(t, i))
    BY <2>1, SparesTrans
  <2> QED
    BY <2>1, <2>2
<1> HIDE DEF R
<1>4. ReclaimFold!Fold(s, SlotSeq) \in R
  BY <1>1, <1>2, <1>3, ReclaimWellOrdered, ReclaimFold!FoldInvariant
<1>5. ReclaimFold!Fold(s, SlotSeq) = FoldLeft(ReclaimSlot, s, SlotSeq)
  BY DEF FoldLeft, MapThenFoldSet, Max,
         ReclaimFold!Fold, ReclaimFold!Largest
<1>6. Spares(s, nsctp_rx_reclaim(s))
  BY <1>4, <1>5 DEF nsctp_rx_reclaim, R
<1> QED
  BY <1>6, SlotwiseRetains DEF Spares, Spared

\* Marking entries retains them.
LEMMA RelabelRetains ==
  ASSUME NEW s \in State, NEW t \in State, Relabelled(s, t), t.cumulative_tsn = s.cumulative_tsn
  PROVE  Retains(s, t)
<1>1. \A j \in Slots : /\ t.recv_gap[j].valid = s.recv_gap[j].valid
                       /\ t.recv_gap[j].tsn = s.recv_gap[j].tsn
  BY RelabelFields
<1>2. Valid(t) = Valid(s) /\ Valid(s) \subseteq Slots
  BY <1>1 DEF Valid
<1> QED
  BY <1>1, <1>2, SlotwiseRetains

\* Gathering the parts of a message retains them.
LEMMA KeptRetains ==
  ASSUME NEW s \in State, NEW t, Kept(s, t)
  PROVE  Retains(s, t)
<1>1. t \in State /\ Valid(t) = Valid(s) /\ t.cumulative_tsn = s.cumulative_tsn
  BY DEF Kept
<1>2. ASSUME NEW j \in Valid(s) PROVE t.recv_gap[j].tsn = s.recv_gap[j].tsn
  <2>1. j \in Slots /\ KeptEntry(s, t, j)
    BY StateParts DEF Kept
  <2> QED
    BY <1>1, <2>1, KeptFields
<1> QED
  BY <1>1, <1>2, SlotwiseRetains

\* nsctp_gap_drain raises the cumulative TSN, then frees what it has passed.
LEMMA DrainAhead ==
  ASSUME NEW r, NEW s \in RxStates, NEW f, NEW c, FilledTo(s, f, c), Ahead(r, s)
  PROVE  Ahead(r, nsctp_gap_drain(s))
<1> DEFINE x == Plus(s.cumulative_tsn, ContiguousRun(s), TSN_MOD)
           t == [s EXCEPT !.cumulative_tsn = x]
<1>0. s \in State
  BY DEF RxStates
<1>1. x \in 0 .. TSN_MOD - 1
  <2>1. s.cumulative_tsn \in Int /\ ContiguousRun(s) \in Int
    BY <1>0, StateParts, RunType
  <2> QED
    BY <2>1, PlusTsn
<1>2. nsctp_gap_drain(s) = nsctp_rx_reclaim(t)
  BY DEF nsctp_gap_drain
<1> HIDE DEF x
<1>3. t \in State /\ t.recv_gap = s.recv_gap /\ t.recv_gap_buf = s.recv_gap_buf
      /\ t.recv_gap_count = s.recv_gap_count
  BY <1>0, <1>1 DEF State
<1> HIDE DEF t
<1>4. t \in RxStates
  BY <1>0, <1>3, SameTable, RelabelOK
<1>5. PICK d \in c .. NC : FilledTo(nsctp_gap_drain(s), f, d)
  BY DrainFilled
<1>6. Tracked(s, c) /\ c \in 0 .. NC
  BY FilledTracked DEF Tracked
<1>7. t.cumulative_tsn = TsnOf(d)
  <2>1. Tracked(nsctp_gap_drain(s), d)
    BY <1>5, FilledTracked
  <2> QED
    BY <1>2, <1>4, <2>1, ReclaimOK DEF Tracked, Reclaimed
<1>8. d \in 0 .. NC /\ c <= d
  BY <1>5, <1>6, ChunkCount
<1>9. Ahead(r, t)
  BY <1>3, <1>6, <1>7, <1>8, RaiseAfter
<1> QED
  BY <1>2, <1>4, <1>9, ReclaimRetains, RetainAfter

\* A merge gives up the marker of a TSN below the cumulative one.
LEMMA MergeOnceRetains ==
  ASSUME NEW s \in RxStates, NEW c, Tracked(s, c)
  PROVE  Retains(s, MergeOnce(s))
<1>0. s \in State
  BY DEF RxStates
<1>1. CASE MergeOnce(s) = s
  BY <1>1, SlotwiseRetains
<1>2. CASE \E i, j \in Slots : Mergeable(s, i, j) /\ MergeOnce(s) = MergedPair(s, i, j)
  <2>1. PICK i \in Slots, j \in Slots : Mergeable(s, i, j) /\ MergeOnce(s) = MergedPair(s, i, j)
    BY <1>2
  <2> DEFINE d == s.recv_gap[i]
             e == s.recv_gap[j]
             t == MergedPair(s, i, j)
  <2>2. d \in Entry /\ e \in Entry
    BY <1>0, StateParts
  <2>3. /\ i \in Live(s) /\ j \in Live(s) /\ nsctp_fragments_follow(d, e)
        /\ TsnDiff(e.tsn, s.cumulative_tsn) <= 0
    BY <2>1 DEF Mergeable
  <2>4. i # j
    BY <2>2, <2>3, FollowDistinct
  <2>5. ~d.E /\ e.tsn = Plus(d.tsn, 1, TSN_MOD)
    BY <2>3 DEF nsctp_fragments_follow
  <2>6. MergedInto(s, i, j, t)
    BY <2>3, <2>4, <2>5, MergePair
  <2>7. t.recv_gap[i].tsn = e.tsn
    <3>1. 0 \in Int
      OBVIOUS
    <3>2. JoinedEntry(s, i, j, 0).tsn = e.tsn
      BY <1>0, <3>1, JoinedType
    <3> QED
      BY <2>6, <3>2 DEF MergedInto
  <2>8. /\ Valid(t) = Valid(s) \ {j} /\ t.cumulative_tsn = s.cumulative_tsn
        /\ \A k \in Valid(s) \ {i, j} : SameEntry(s, t, k)
    BY <2>6 DEF MergedInto
  <2>9. i \in Valid(s) /\ j \in Valid(s) /\ Valid(s) \subseteq Slots
    BY <2>3 DEF Live, Valid
  <2>10. Passed(s, d)
    <3>1. PICK x \in 1 .. NC : d.tsn = TsnOf(x)
      BY <2>9 DEF Tracked
    <3>2. PICK y \in 1 .. NC : e.tsn = TsnOf(y)
      BY <2>9 DEF Tracked
    <3>3. c \in 0 .. NC /\ s.cumulative_tsn = TsnOf(c)
      BY DEF Tracked
    <3>4. x \in 0 .. NC /\ y \in 0 .. NC /\ x \in Int /\ 1 \in Int
      BY ChunkCount
    <3>5. TsnOf(y) = TsnOf(x + 1)
      BY <2>5, <3>1, <3>2, <3>4, TsnPlus
    <3>6. y \in 0 .. NC + MAX_RECV_GAP /\ x + 1 \in 0 .. NC + MAX_RECV_GAP
      <4>1. MAX_RECV_GAP \in Nat /\ MAX_RECV_GAP >= 1
        BY RecvSizes
      <4> QED
        BY <3>1, <3>4, <4>1, ChunkCount
    <3>7. y = x + 1
      BY <3>5, <3>6, TsnSame
    <3>8. y - c <= 0
      BY <2>3, <3>2, <3>3, <3>4, TsnOrder
    <3>9. x - c <= 0
      BY <3>3, <3>4, <3>7, <3>8, ChunkCount
    <3>10. TsnDiff(d.tsn, s.cumulative_tsn) <= 0
      BY <3>1, <3>3, <3>4, <3>9, TsnOrder
    <3> QED
      BY <3>10 DEF Passed
  <2> HIDE DEF t
  <2>11. \A k \in Valid(s) \ {i, j} : k \in Valid(t) /\ t.recv_gap[k].tsn = s.recv_gap[k].tsn
    <3> SUFFICES ASSUME NEW k \in Valid(s) \ {i, j}
                 PROVE  k \in Valid(t) /\ t.recv_gap[k].tsn = s.recv_gap[k].tsn
      OBVIOUS
    <3>1. k \in Slots /\ SameEntry(s, t, k)
      BY <2>8, <2>9
    <3> QED
      BY <1>0, <2>8, <3>1, SameEntryFields
  <2>12. i \in Valid(t)
    BY <2>4, <2>8, <2>9
  <2>13. \A k \in Valid(s) : Duplicate(t, s.recv_gap[k].tsn) \/ Passed(s, s.recv_gap[k])
    <3>1. Duplicate(t, s.recv_gap[j].tsn)
      BY <2>7, <2>12 DEF Duplicate
    <3>2. \A k \in Valid(s) \ {i, j} : Duplicate(t, s.recv_gap[k].tsn)
      BY <2>11 DEF Duplicate
    <3> QED
      BY <2>10, <3>1, <3>2
  <2>14. \A k \in Valid(t) : Duplicate(s, t.recv_gap[k].tsn)
    <3>1. Duplicate(s, t.recv_gap[i].tsn)
      BY <2>7, <2>9 DEF Duplicate
    <3>2. \A k \in Valid(t) : k = i \/ k \in Valid(s) \ {i, j}
      BY <2>8
    <3>3. \A k \in Valid(s) \ {i, j} : Duplicate(s, t.recv_gap[k].tsn)
      BY <2>11 DEF Duplicate
    <3> QED
      BY <3>1, <3>2, <3>3
  <2>15. Retains(s, t)
    BY <2>8, <2>13, <2>14 DEF Retains
  <2> QED
    BY <2>1, <2>15 DEF t
<1> QED
  BY <1>0, <1>1, <1>2, MergeChoice

\* nsctp_rx_merge is not behind.
LEMMA MergeAhead ==
  ASSUME NEW r, NEW s \in RxStates, Ahead(r, s)
  PROVE  Ahead(r, nsctp_rx_merge(s))
<1> DEFINE N == MAX_RECV_GAP
           R == {q \in RxStates : Ahead(r, q)}
           m == CHOOSE m : m = [n \in 0 .. N |-> IF n = 0 THEN s ELSE MergeOnce(m[n - 1])]
<1>1. N \in Nat /\ s \in R
  BY RecvSizes
<1>2. \A q \in R, k \in 1 .. N : MergeAgain(q, k) \in R
  <2> SUFFICES ASSUME NEW q \in R PROVE MergeOnce(q) \in RxStates /\ Ahead(r, MergeOnce(q))
    BY DEF MergeAgain
  <2>1. PICK c \in 0 .. NC : Tracked(q, c)
    BY DEF Ahead
  <2> QED
    BY <2>1, MergeOnceOK, MergeOnceRetains, RetainAfter
<1> HIDE DEF N, R
<1>3. /\ \E h : MergeLoop!Iterates(h, s, N)
      /\ \A h : MergeLoop!Iterates(h, s, N) => h[N] \in R
  BY <1>1, <1>2, MergeWellOrdered, MergeLoop!IterationInvariant
<1>4. \A h : MergeLoop!Iterates(h, s, N) <=>
             h = [n \in 0 .. N |-> IF n = 0 THEN s ELSE MergeOnce(h[n - 1])]
  BY DEF MergeLoop!Iterates, MergeAgain
<1>5. m = [n \in 0 .. N |-> IF n = 0 THEN s ELSE MergeOnce(m[n - 1])]
  BY <1>3, <1>4
<1>6. nsctp_rx_merge(s) = m[N]
  BY DEF nsctp_rx_merge, N
<1> HIDE DEF m
<1>7. nsctp_rx_merge(s) \in R
  BY <1>3, <1>4, <1>5, <1>6
<1> QED
  BY <1>7 DEF R

\* A chunk is stored beside the others.
LEMMA StoreAhead ==
  ASSUME NEW r, NEW s \in RxStates, NEW t, NEW k \in 1 .. NC, NEW slot \in Slots,
         StoredIn(s, Chunks[k], TsnOf(k), slot, t), Ahead(r, s)
  PROVE  Ahead(r, t)
<1> DEFINE e == StoredEntry(s, Chunks[k], TsnOf(k))
<1>0. s \in State /\ s.recv_gap \in [Slots -> Entry]
  BY StateParts DEF RxStates
<1>1. /\ slot \notin Valid(s) /\ t.recv_gap = [s.recv_gap EXCEPT ![slot] = e]
      /\ t.cumulative_tsn = s.cumulative_tsn
  BY DEF StoredIn
<1>2. t.recv_gap[slot] = e /\ \A j \in Slots \ {slot} : t.recv_gap[j] = s.recv_gap[j]
  BY <1>0, <1>1
<1>3. e.valid = TRUE /\ e.tsn = TsnOf(k)
  <2> DEFINE d == Chunks[k]
             w == TsnOf(k)
  <2> HIDE DEF d, w
  <2>1. e = StoredEntry(s, d, w)
    BY DEF d, w
  <2>2. StoredEntry(s, d, w).valid = TRUE /\ StoredEntry(s, d, w).tsn = w
    BY DEF StoredEntry, NoEntry
  <2> QED
    BY <2>1, <2>2 DEF w
<1> HIDE DEF e
<1>4. Valid(t) = Valid(s) \cup {slot}
  BY <1>1, <1>2, <1>3 DEF Valid
<1>5. PICK c \in 0 .. NC : Tracked(s, c)
  BY DEF Ahead
<1>6. \A j \in Valid(s) : j \in Valid(t) /\ t.recv_gap[j].tsn = s.recv_gap[j].tsn
  <2>1. \A j \in Valid(s) : j \in Slots \ {slot}
    BY <1>1 DEF Valid
  <2> QED
    BY <1>2, <1>4, <2>1
<1>7. Tracked(t, c)
  <2>1. \A j \in Valid(t) : \E x \in 1 .. NC : t.recv_gap[j].tsn = TsnOf(x)
    BY <1>2, <1>3, <1>4, <1>5, <1>6 DEF Tracked
  <2> QED
    BY <1>1, <1>5, <2>1 DEF Tracked
<1>8. Told(s, t, c)
  BY <1>6 DEF Told, Duplicate
<1>9. c <= c
  BY <1>5, ChunkCount
<1>10. Ahead(s, t)
  BY <1>5, <1>7, <1>8, <1>9 DEF Ahead
<1> QED
  BY <1>10, AheadTrans

\* Only the request for a SACK changes.
LEMMA SameRetains ==
  ASSUME NEW s, NEW t, t.recv_gap = s.recv_gap, t.cumulative_tsn = s.cumulative_tsn
  PROVE  Retains(s, t)
<1>1. Valid(t) = Valid(s)
  BY DEF Valid
<1> QED
  BY <1>1, SlotwiseRetains

\* A labelled state is not behind itself.
LEMMA FilledAhead ==
  ASSUME NEW s, NEW f, NEW c, FilledTo(s, f, c)
  PROVE  Ahead(s, s)
BY FilledTracked, AheadRefl

\* nsctp_handle_data_chunk takes back nothing.
LEMMA DataChunkAhead ==
  ASSUME NEW s \in RxStates, NEW f, Spans(f), Filled(s, f), NEW k \in 1 .. NC
  PROVE  Ahead(s, nsctp_handle_data_chunk(s, Chunks[k], TsnOf(k)))
<1> DEFINE ch == Chunks[k]
           tsn == TsnOf(k)
           s1 == [s EXCEPT !.sack_needed = TRUE]
           s2 == nsctp_rx_reclaim(s1)
           s3 == Store(s2, ch, tsn)
<1>0. s \in State
  BY DEF RxStates
<1>1. PICK c : FilledTo(s, f, c)
  BY DEF Filled
<1>2. c \in 0 .. NC /\ s.cumulative_tsn = TsnOf(c)
  BY <1>1 DEF FilledTo, Labelled
<1>3. /\ s1 \in State /\ s1.recv_gap = s.recv_gap /\ s1.recv_gap_buf = s.recv_gap_buf
      /\ s1.recv_gap_count = s.recv_gap_count /\ s1.cumulative_tsn = s.cumulative_tsn
  BY <1>0 DEF State
<1>4. s1 \in RxStates
  BY <1>0, <1>3, SameTable, RelabelOK
<1>5. \/ nsctp_handle_data_chunk(s, ch, tsn) = s
      \/ nsctp_handle_data_chunk(s, ch, tsn) = s1
      \/ nsctp_handle_data_chunk(s, ch, tsn) = s2
      \/ /\ ~(TsnDiff(tsn, s.cumulative_tsn) <= 0)
         /\ ~Duplicate(s2, tsn)
         /\ ~NoRoom(s2, ch, tsn)
         /\ nsctp_handle_data_chunk(s, ch, tsn) = nsctp_rx_merge(nsctp_gap_drain(s3))
  BY Zenon DEF nsctp_handle_data_chunk, s1, s2
<1> HIDE DEF s1
<1>6. FilledTo(s1, f, c) /\ Ahead(s, s) /\ Ahead(s, s1)
  BY <1>1, <1>3, SameFilled, FilledAhead, SameRetains, RetainAfter
<1>7. s2 \in RxStates /\ FilledTo(s2, f, c) /\ Ahead(s, s2)
  <2>1. s2 \in RxStates /\ FilledTo(s2, f, c)
    BY <1>4, <1>6, ReclaimOK, ReclaimCarries, CarryOK
  <2>2. Ahead(s, s2)
    BY <1>4, <1>6, ReclaimRetains, RetainAfter
  <2> QED
    BY <2>1, <2>2
<1> HIDE DEF s2
<1>8. ASSUME ~(TsnDiff(tsn, s.cumulative_tsn) <= 0), ~Duplicate(s2, tsn), ~NoRoom(s2, ch, tsn)
      PROVE  Ahead(s, nsctp_rx_merge(nsctp_gap_drain(s3)))
  <2>1. ch \in Chunk /\ tsn \in 0 .. TSN_MOD - 1
    BY ChunkCount, TsnType
  <2>2. Valid(s2) # Slots /\ Len(s2.recv_gap_buf) + Len(ch.payload) <= RECV_GAP_BUF_SIZE
    BY <1>7, <1>8, <2>1, RoomFor
  <2>3. s3 \in RxStates /\ \E slot \in Slots : StoredIn(s2, ch, tsn, slot, s3)
    BY <1>7, <2>1, <2>2, StoreOK
  <2>4. PICK slot \in Slots : StoredIn(s2, ch, tsn, slot, s3)
    BY <2>3
  <2>5. c < k
    <3>1. k \in 0 .. NC
      OBVIOUS
    <3>2. TsnDiff(tsn, s.cumulative_tsn) = k - c
      BY <1>2, <3>1, TsnOrder
    <3> HIDE DEF tsn
    <3> QED
      BY <1>2, <1>8, <3>1, <3>2, ChunkCount
  <2>6. FilledTo(s3, f, c)
    BY <1>7, <1>8, <2>4, <2>5, StoreFilled
  <2>7. Ahead(s, s3)
    BY <1>7, <2>4, StoreAhead
  <2> HIDE DEF s3
  <2>8. Ahead(s, nsctp_gap_drain(s3)) /\ nsctp_gap_drain(s3) \in RxStates
    BY <2>3, <2>6, <2>7, DrainAhead, DrainOK
  <2> QED
    BY <2>8, MergeAhead
<1> QED
  BY <1>5, <1>6, <1>7, <1>8

\* Nor does nsctp_handle_forward_tsn.
LEMMA ForwardAhead ==
  ASSUME NEW s \in RxStates, NEW f, Spans(f), Filled(s, f), NEW k \in 1 .. NC,
         NEW pairs \in Seq(Pairs)
  PROVE  Ahead(s, nsctp_handle_forward_tsn(s, TsnOf(k), pairs))
<1> DEFINE tsn == TsnOf(k)
           s1 == [s EXCEPT !.sack_needed = TRUE]
           s0 == [s1 EXCEPT !.cumulative_tsn = tsn]
           s2 == nsctp_rx_merge(s0)
           s3 == DropStranded(s2, tsn)
           s4 == FoldLeft(ForwardStream, s3, pairs)
<1>0. s \in State /\ tsn \in 0 .. TSN_MOD - 1
  BY ChunkCount, TsnType DEF RxStates
<1>1. PICK c : FilledTo(s, f, c)
  BY DEF Filled
<1>2. c \in 0 .. NC /\ s.cumulative_tsn = TsnOf(c) /\ Ahead(s, s)
  BY <1>1, FilledAhead DEF FilledTo, Labelled
<1>3. \/ nsctp_handle_forward_tsn(s, tsn, pairs) = s1
      \/ /\ ~(TsnDiff(tsn, s.cumulative_tsn) <= 0)
         /\ nsctp_handle_forward_tsn(s, tsn, pairs) = nsctp_gap_drain(s4)
  BY DEF nsctp_handle_forward_tsn
<1>4. Ahead(s, s1)
  <2>1. s1.recv_gap = s.recv_gap /\ s1.cumulative_tsn = s.cumulative_tsn
    BY <1>0 DEF State
  <2> HIDE DEF s1
  <2> QED
    BY <1>2, <2>1, SameRetains, RetainAfter
<1>5. ASSUME ~(TsnDiff(tsn, s.cumulative_tsn) <= 0)
      PROVE  Ahead(s, nsctp_gap_drain(s4))
  <2>1. k \in 0 .. NC /\ c <= k
    <3>1. k \in 0 .. NC
      OBVIOUS
    <3>2. TsnDiff(tsn, s.cumulative_tsn) = k - c
      BY <1>2, <3>1, TsnOrder
    <3> HIDE DEF tsn
    <3> QED
      BY <1>2, <1>5, <3>1, <3>2, ChunkCount
  <2>2. s0 \in RxStates /\ FilledTo(s0, f, k) /\ Ahead(s, s0)
    <3>1. /\ s0 \in State /\ s0.recv_gap = s.recv_gap /\ s0.recv_gap_buf = s.recv_gap_buf
          /\ s0.recv_gap_count = s.recv_gap_count /\ s0.cumulative_tsn = tsn
      BY <1>0 DEF State
    <3> HIDE DEF s0
    <3>2. s0 \in RxStates
      BY <1>0, <3>1, SameTable, RelabelOK
    <3>3. FilledTo(s0, f, k)
      BY <1>1, <2>1, <3>1, RaiseOK
    <3>4. Tracked(s, c)
      BY <1>1, FilledTracked
    <3>5. Ahead(s, s0)
      BY <1>2, <2>1, <3>1, <3>4, RaiseAfter
    <3> QED
      BY <3>2, <3>3, <3>5
  <2> HIDE DEF s0
  <2>3. s2 \in RxStates /\ s2 \in State /\ FilledTo(s2, f, k) /\ Ahead(s, s2)
    BY <2>2, MergeOK, MergeFilled, MergeAhead DEF RxStates
  <2> HIDE DEF s2
  <2>4. s3 \in RxStates /\ s3 \in State /\ FilledTo(s3, f, k) /\ Ahead(s, s3)
    <3>1. s3 \in State /\ Relabelled(s2, s3) /\ s3.cumulative_tsn = s2.cumulative_tsn
      BY <2>3, DropStrandedOK
    <3> HIDE DEF s3
    <3> QED
      BY <2>3, <3>1, RelabelOK, RelabelCarries, CarryOK, RelabelRetains, RetainAfter
  <2> HIDE DEF s3
  <2>5. s4 \in RxStates /\ FilledTo(s4, f, k) /\ Ahead(s, s4)
    <3>1. s4 \in State /\ Relabelled(s3, s4) /\ s4.cumulative_tsn = s3.cumulative_tsn
      BY <2>4, ForwardStreamsOK
    <3> HIDE DEF s4
    <3> QED
      BY <2>4, <3>1, RelabelOK, RelabelCarries, CarryOK, RelabelRetains, RetainAfter
  <2> HIDE DEF s4
  <2> QED
    BY <2>5, DrainAhead
<1> QED
  BY <1>3, <1>4, <1>5

\* A delivery keeps the markers of what it delivers.
LEMMA DeliverAhead ==
  ASSUME NEW r, NEW s \in RxStates, NEW i \in Deliverable(s), Ahead(r, s)
  PROVE  Ahead(r, DeliverFrom(s, i).st)
<1> DEFINE g == Gather(s, Parts(s, i)).st
           t == DeliverFrom(s, i).st
<1>1. Delivered(s, i, t)
  BY DeliverStep
<1> HIDE DEF t
<1>2. Kept(s, g) /\ t.recv_gap = g.recv_gap /\ t.cumulative_tsn = g.cumulative_tsn
  BY <1>1 DEF Delivered
<1> HIDE DEF g
<1>3. Ahead(r, g)
  <2>1. s \in State
    BY DEF RxStates
  <2> QED
    BY <1>2, <2>1, KeptRetains, RetainAfter
<1>4. Ahead(r, t)
  BY <1>2, <1>3, SameRetains, RetainAfter
<1> QED
  BY <1>4 DEF t

\* Queueing a SACK changes no marker.
LEMMA SackAhead ==
  ASSUME NEW r, NEW s \in State, Ahead(r, s), QueueSack(s)
  PROVE  Ahead(r, rx')
<1> DEFINE t == [s EXCEPT !.sack_needed = FALSE]
<1>1. t.recv_gap = s.recv_gap /\ t.cumulative_tsn = s.cumulative_tsn
  BY DEF State
<1>2. rx' = t \/ rx' = s
  BY DEF QueueSack
<1> HIDE DEF t
<1>3. Ahead(r, t)
  BY <1>1, SameRetains, RetainAfter
<1> QED
  BY <1>2, <1>3

\* No step falls behind.
LEMMA StepAhead == IntactInv /\ [Next]_vars => Ahead(rx, rx')
<1> SUFFICES ASSUME IntactInv, [Next]_vars PROVE Ahead(rx, rx')
  OBVIOUS
<1>0. rx \in RxStates /\ rx \in State
  BY DEF IntactInv, Inv, RxStates
<1>1. PICK f : Spans(f) /\ Filled(rx, f)
  BY DEF IntactInv
<1>2. Ahead(rx, rx)
  BY <1>1, FilledAhead DEF Filled
<1>3. ASSUME NEW k \in DOMAIN Chunks, HandleData(k) PROVE Ahead(rx, rx')
  <2> DEFINE s == nsctp_handle_data_chunk(rx, Chunks[k], TsnOf(k))
  <2>1. s \in State
    BY <1>0, TsnType, DataChunkOK DEF RxStates
  <2>2. Ahead(rx, s)
    <3>1. k \in 1 .. NC
      BY ChunkCount
    <3> QED
      BY <1>0, <1>1, <3>1, DataChunkAhead
  <2>3. rx' = s \/ QueueSack(s)
    BY <1>3 DEF HandleData, HandleChunk
  <2> HIDE DEF s
  <2> QED
    BY <2>1, <2>2, <2>3, SackAhead
<1>4. ASSUME NEW h \in Messages, NEW m \in Messages, HandleForwardTsn(h, m)
      PROVE  Ahead(rx, rx')
  <2>0. PICK pairs \in SetToSeqs(SkippedPairs(h, m)) :
           QueueSack(nsctp_handle_forward_tsn(rx, TsnOf(LastChunk(m)), pairs))
    BY <1>4 DEF HandleForwardTsn
  <2> DEFINE s == nsctp_handle_forward_tsn(rx, TsnOf(LastChunk(m)), pairs)
  <2>1. LastChunk(m) \in 1 .. NC /\ pairs \in Seq(Pairs)
    BY <2>0, ChunkCount, LastChunkType, SkippedPairsType
  <2>2. s \in State
    BY <1>0, <2>1, LastChunkType, ForwardTsnOK DEF RxStates
  <2>3. Ahead(rx, s)
    BY <1>0, <1>1, <2>1, ForwardAhead
  <2>4. QueueSack(s)
    BY <2>0
  <2> HIDE DEF s
  <2> QED
    BY <2>2, <2>3, <2>4, SackAhead
<1>5. ASSUME NEW given \in SUBSET Messages, PeerAbandon(given) PROVE Ahead(rx, rx')
  BY <1>2, <1>5 DEF PeerAbandon
<1>6. ASSUME PollDelivery PROVE Ahead(rx, rx')
  <2> DEFINE s == nsctp_rx_reclaim(rx)
             d == DeliverFrom(s, Min(Deliverable(s)))
  <2>1. s \in RxStates /\ Ahead(rx, s)
    BY <1>0, <1>2, ReclaimOK, ReclaimRetains, RetainAfter
  <2>2. rx' = s \/ (Deliverable(s) # {} /\ rx' = d.st)
    BY <1>6 DEF PollDelivery
  <2> HIDE DEF s
  <2>3. Deliverable(s) # {} => Ahead(rx, d.st)
    BY <2>1, FirstDeliverable, DeliverAhead
  <2> HIDE DEF d
  <2> QED
    BY <2>1, <2>2, <2>3
<1>7. ASSUME PollOutput PROVE Ahead(rx, rx')
  <2> DEFINE t == [rx EXCEPT !.sack_needed = FALSE]
  <2>1. t.recv_gap = rx.recv_gap /\ t.cumulative_tsn = rx.cumulative_tsn
    BY <1>0 DEF State
  <2>2. rx' = rx \/ rx' = t
    BY <1>7 DEF PollOutput
  <2> HIDE DEF t
  <2> QED
    BY <1>2, <2>1, <2>2, SameRetains, RetainAfter
<1>8. CASE UNCHANGED vars
  BY <1>2, <1>8 DEF vars
<1> QED
  BY <1>3, <1>4, <1>5, <1>6, <1>7, <1>8 DEF Next

\* What is marked or passed in s is marked or passed in every t that is ahead of it.
LEMMA AheadAcks ==
  ASSUME NEW s, NEW t, Ahead(s, t)
  PROVE  /\ TsnDiff(t.cumulative_tsn, s.cumulative_tsn) >= 0
         /\ \A k \in DOMAIN Chunks : Acked(s, k) => Acked(t, k)
<1>1. PICK c \in 0 .. NC, d \in 0 .. NC :
         Tracked(s, c) /\ Tracked(t, d) /\ c <= d /\ Told(s, t, d)
  BY DEF Ahead
<1>2. s.cumulative_tsn = TsnOf(c) /\ t.cumulative_tsn = TsnOf(d)
  BY <1>1 DEF Tracked
<1>3. TsnDiff(t.cumulative_tsn, s.cumulative_tsn) = d - c
  BY <1>1, <1>2, TsnOrder
<1>4. d - c >= 0
  BY <1>1, ChunkCount
<1>5. ASSUME NEW k \in DOMAIN Chunks, Acked(s, k) PROVE Acked(t, k)
  <2>1. k \in 1 .. NC /\ k \in 0 .. NC
    BY ChunkCount
  <2>2. TsnDiff(TsnOf(k), s.cumulative_tsn) = k - c /\ TsnDiff(TsnOf(k), t.cumulative_tsn) = k - d
    BY <1>1, <1>2, <2>1, TsnOrder
  <2>3. k <= d \/ Duplicate(t, TsnOf(k))
    <3>1. CASE TsnDiff(TsnOf(k), s.cumulative_tsn) <= 0
      BY <1>1, <2>1, <2>2, <3>1, ChunkCount
    <3>2. CASE Duplicate(s, TsnOf(k))
      BY <1>1, <2>1, <3>2 DEF Told
    <3> QED
      BY <1>5, <3>1, <3>2 DEF Acked
  <2>4. k <= d => k - d <= 0
    BY <1>1, <2>1, ChunkCount
  <2> QED
    BY <2>2, <2>3, <2>4 DEF Acked
<1> QED
  BY <1>3, <1>4, <1>5

\* No step of the receiver takes back the acknowledgement of a TSN, and the cumulative TSN
\* never moves backwards (NoRenege): compaction, merging, delivery and FORWARD-TSN give up
\* the marker of a TSN only once the cumulative TSN has passed it.
THEOREM AcksAreKept == Spec => NoRenege
<1>1. Init => IntactInv
  <2> SUFFICES ASSUME Init PROVE IntactInv
    OBVIOUS
  <2>1. Inv
    BY InitOK, RecvSizes DEF Init, Inv
  <2>2. \E f : Spans(f) /\ Filled(rx, f)
    BY InitFilled DEF Init
  <2>3. delivered \in Seq(Sent)
    BY DEF Init
  <2> QED
    BY <2>1, <2>2, <2>3 DEF IntactInv
<1>2. IntactInv /\ [Next]_vars =>
        [/\ TsnDiff(rx'.cumulative_tsn, rx.cumulative_tsn) >= 0
         /\ \A k \in DOMAIN Chunks : Acked(rx, k) => Acked(rx', k)]_vars
  BY StepAhead, AheadAcks
<1> QED
  BY <1>1, <1>2, IntactStep, PTL DEF Spec, NoRenege
-----------------------------------------------------------------------------
(* What a SACK has acknowledged is delivered or in the pool, if nothing is  *)
(* abandoned.                                                               *)

\* Entry j of s has the bytes of chunk k.
HasChunk(s, j, k) ==
    LET e == s.recv_gap[j]
    IN /\ e.msg = Chunks[k].msg
       /\ \A p \in 1 .. Size(k) : \E q \in 1 .. e.len : s.recv_gap_buf[e.off + q] = Chunks[k].payload[p]

\* What s acknowledges is of a message of D or in an entry that is not delivered.
Safe(s, D) ==
    \A k \in 1 .. NC : Acked(s, k) => \/ Chunks[k].msg \in D
                                      \/ \E j \in Live(s) : HasChunk(s, j, k)

\* The payload of a chunk.
LEMMA ChunkPayload ==
  ASSUME NEW k \in 1 .. NC
  PROVE  /\ Chunks[k].payload \in Seq(Byte) /\ Size(k) \in Nat
         /\ DOMAIN Chunks[k].payload = 1 .. Size(k)
<1>1. Chunks[k] \in Chunk
  BY ChunkCount
<1>2. Chunks[k].payload \in Seq(Byte)
  BY <1>1 DEF Chunk
<1> QED
  BY <1>2 DEF Size

\* The bytes of an entry that has any lie within the pool.
LEMMA EntryInside ==
  ASSUME NEW s \in State, PoolOK(s), NEW j \in Valid(s), NEW q \in 1 .. s.recv_gap[j].len
  PROVE  /\ s.recv_gap[j].off \in Nat /\ s.recv_gap[j].len \in Nat
         /\ s.recv_gap[j].off + s.recv_gap[j].len <= Len(s.recv_gap_buf)
<1> DEFINE e == s.recv_gap[j]
<1>1. /\ j \in Slots /\ e.off \in Int /\ e.len \in Nat
      /\ Offs(s)[j] = e.off /\ Lens(s)[j] = e.len
  BY StateParts
<1>2. e.len > 0
  BY <1>1
<1>3. 0 <= e.off /\ e.off + e.len <= Len(s.recv_gap_buf)
  BY <1>1, <1>2 DEF PoolOK, Tiled, Inside
<1> QED
  BY <1>1, <1>3

\* Such an entry holds the chunk for delivery.
LEMMA HasBuffered ==
  ASSUME NEW s \in State, PoolOK(s), NEW k \in 1 .. NC, NEW j \in Live(s), HasChunk(s, j, k)
  PROVE  Buffered(s, k)
<1> DEFINE e == s.recv_gap[j]
           buf == s.recv_gap_buf
           bytes == SubSeq(buf, e.off + 1, e.off + e.len)
           pay == Chunks[k].payload
<1>1. /\ j \in Slots /\ j \in Valid(s) /\ e.off \in Int /\ e.len \in Nat /\ buf \in Seq(Byte)
  BY StateParts
<1>2. /\ e.msg = Chunks[k].msg
      /\ \A p \in 1 .. Size(k) : \E q \in 1 .. e.len : buf[e.off + q] = pay[p]
  BY DEF HasChunk
<1>3. DOMAIN pay = 1 .. Size(k)
  BY ChunkPayload
<1>4. ASSUME NEW q \in 1 .. e.len PROVE q \in DOMAIN bytes /\ bytes[q] = buf[e.off + q]
  <2>1. e.off \in Nat /\ e.len \in Nat /\ e.off + e.len <= Len(buf)
    <3>1. j \in Valid(s) /\ PoolOK(s) /\ s \in State
      BY <1>1
    <3> QED
      BY <3>1, EntryInside, Zenon
  <2> DEFINE o == e.off
             l == e.len
  <2>2. bytes = [x \in 1 .. l |-> buf[o + x]]
    <3>1. o \in Nat /\ l \in Nat /\ o + l <= Len(buf) /\ buf \in Seq(Byte) /\ Len(buf) \in Nat
      BY <1>1, <2>1
    <3> HIDE DEF o, l, buf
    <3>2. Len(SubSeq(buf, o + 1, o + l)) = l /\ SubSeq(buf, o + 1, o + l) \in Seq(Byte)
      BY <3>1
    <3>3. \A x \in 1 .. l : SubSeq(buf, o + 1, o + l)[x] = buf[o + x]
      BY <3>1
    <3> DEFINE b == SubSeq(buf, o + 1, o + l)
    <3>4. b \in Seq(Byte) /\ Len(b) = l /\ \A x \in 1 .. l : b[x] = buf[o + x]
      BY <3>2, <3>3
    <3> HIDE DEF b
    <3>5. b = [x \in 1 .. l |-> buf[o + x]]
      BY <3>1, <3>4
    <3> QED
      BY <3>5 DEF b, o, l
  <2> QED
    BY <2>2
<1>5. ASSUME NEW b \in Range(pay) PROVE b \in Range(bytes)
  <2>1. PICK p \in 1 .. Size(k) : b = pay[p]
    BY <1>3 DEF Range
  <2>2. PICK q \in 1 .. e.len : buf[e.off + q] = pay[p]
    BY <1>2
  <2> HIDE DEF bytes, e, buf, pay
  <2> QED
    BY <1>4, <2>1, <2>2 DEF Range
<1> QED
  BY <1>2, <1>5 DEF Buffered

\* In the step from s to t no TSN is marked anew, and no entry that waits for delivery is lost.
Steady(s, t) ==
    /\ t.cumulative_tsn = s.cumulative_tsn
    /\ \A j \in Valid(t) : Duplicate(s, t.recv_gap[j].tsn)
    /\ \A j \in Live(s) :
         LET d == s.recv_gap[j]
             e == t.recv_gap[j]
         IN /\ j \in Live(t) /\ e.msg = d.msg /\ e.len = d.len
            /\ \A q \in 1 .. d.len : t.recv_gap_buf[e.off + q] = s.recv_gap_buf[d.off + q]

\* What t acknowledges after such a step is acknowledged in s.
LEMMA NoneAnew ==
  ASSUME NEW s, NEW t, t.cumulative_tsn = s.cumulative_tsn,
         \A j \in Valid(t) : Duplicate(s, t.recv_gap[j].tsn),
         NEW k \in 1 .. NC, Acked(t, k)
  PROVE  Acked(s, k)
BY DEF Acked, Duplicate

\* An entry keeps its chunks with its bytes.
LEMMA ChunkStays ==
  ASSUME NEW s, NEW t, NEW j, NEW k,
         t.recv_gap[j].msg = s.recv_gap[j].msg, t.recv_gap[j].len = s.recv_gap[j].len,
         \A q \in 1 .. s.recv_gap[j].len :
           t.recv_gap_buf[t.recv_gap[j].off + q] = s.recv_gap_buf[s.recv_gap[j].off + q],
         HasChunk(s, j, k)
  PROVE  HasChunk(t, j, k)
BY DEF HasChunk

\* A steady step keeps what is acknowledged.
LEMMA SteadySafe ==
  ASSUME NEW s, NEW t, NEW D, Safe(s, D), Steady(s, t)
  PROVE  Safe(t, D)
<1> SUFFICES ASSUME NEW k \in 1 .. NC, Acked(t, k), Chunks[k].msg \notin D
             PROVE  \E j \in Live(t) : HasChunk(t, j, k)
  BY DEF Safe
<1>1. Acked(s, k)
  BY NoneAnew DEF Steady
<1>2. PICK j \in Live(s) : HasChunk(s, j, k)
  BY <1>1 DEF Safe
<1>3. j \in Live(t) /\ HasChunk(t, j, k)
  BY <1>2, ChunkStays DEF Steady
<1> QED
  BY <1>3

\* Reclaiming is steady.
LEMMA ReclaimSteady ==
  ASSUME NEW s \in RxStates
  PROVE  Steady(s, nsctp_rx_reclaim(s))
<1> DEFINE t == nsctp_rx_reclaim(s)
<1>1. Reclaimed(s, t) /\ s \in State
  BY ReclaimOK DEF RxStates
<1> HIDE DEF t
<1>2. ASSUME NEW j \in Live(s)
      PROVE  LET d == s.recv_gap[j]
                 e == t.recv_gap[j]
             IN /\ j \in Live(t) /\ e.msg = d.msg /\ e.len = d.len
                /\ \A q \in 1 .. d.len : t.recv_gap_buf[e.off + q] = s.recv_gap_buf[d.off + q]
  <2>1. j \in Live(t) /\ j \in Slots /\ SameEntry(s, t, j)
    BY <1>1, StateParts DEF Reclaimed
  <2>2. t.recv_gap[j].msg = s.recv_gap[j].msg /\ t.recv_gap[j].len = s.recv_gap[j].len
    BY <1>1, <2>1, SameEntryFields
  <2> QED
    BY <2>1, <2>2 DEF SameEntry
<1>3. \A j \in Valid(t) : Duplicate(s, t.recv_gap[j].tsn)
  BY <1>1 DEF Reclaimed, Duplicate
<1>4. Steady(s, t)
  BY <1>1, <1>2, <1>3 DEF Steady, Reclaimed
<1> QED
  BY <1>4 DEF t

\* So is a change of the request for a SACK.
LEMMA SameSteady ==
  ASSUME NEW s, NEW t, t.recv_gap = s.recv_gap, t.recv_gap_buf = s.recv_gap_buf,
         t.cumulative_tsn = s.cumulative_tsn
  PROVE  Steady(s, t)
<1>1. Valid(t) = Valid(s) /\ Live(t) = Live(s)
  BY DEF Valid, Live
<1> QED
  BY <1>1 DEF Steady, Duplicate

\* The entry that a merge leaves has the chunks of both.
LEMMA MergeOnceSafe ==
  ASSUME NEW s \in RxStates, NEW D, Safe(s, D)
  PROVE  Safe(MergeOnce(s), D)
<1>0. s \in State
  BY DEF RxStates
<1>1. CASE MergeOnce(s) = s
  BY <1>1
<1>2. CASE \E i, j \in Slots : Mergeable(s, i, j) /\ MergeOnce(s) = MergedPair(s, i, j)
  <2>1. PICK i \in Slots, j \in Slots : Mergeable(s, i, j) /\ MergeOnce(s) = MergedPair(s, i, j)
    BY <1>2
  <2> DEFINE d == s.recv_gap[i]
             e == s.recv_gap[j]
             x == JoinedEntry(s, i, j, 0)
             t == MergedPair(s, i, j)
  <2>2. d \in Entry /\ e \in Entry /\ d.len \in Nat /\ e.len \in Nat
    BY <1>0, StateParts
  <2>3. /\ i \in Live(s) /\ j \in Live(s) /\ nsctp_fragments_follow(d, e)
    BY <2>1 DEF Mergeable
  <2>4. i # j
    BY <2>2, <2>3, FollowDistinct
  <2>5. ~d.E /\ d.msg = e.msg
    BY <2>3 DEF nsctp_fragments_follow
  <2>6. MergedInto(s, i, j, t)
    BY <2>3, <2>4, <2>5, MergePair
  <2>7. x.msg = d.msg /\ x.off = 0 /\ x.len = d.len + e.len /\ x.tsn = e.tsn
    <3>1. 0 \in Int
      OBVIOUS
    <3> QED
      BY <1>0, <3>1, JoinedType
  <2>8. /\ Valid(t) = Valid(s) \ {j} /\ Live(t) = Live(s) \ {j} /\ t.recv_gap[i] = x
        /\ \A k \in Valid(s) \ {i, j} : SameEntry(s, t, k)
        /\ \A q \in 1 .. d.len : t.recv_gap_buf[q] = s.recv_gap_buf[d.off + q]
        /\ \A q \in 1 .. e.len : t.recv_gap_buf[d.len + q] = s.recv_gap_buf[e.off + q]
        /\ t.cumulative_tsn = s.cumulative_tsn
    BY <2>6 DEF MergedInto
  <2>9. i \in Valid(s) /\ j \in Valid(s) /\ Valid(s) \subseteq Slots /\ Live(s) \subseteq Valid(s)
    BY <1>0, <2>3, StateParts
  <2> HIDE DEF t, x
  <2>10. \A k \in Valid(t) : Duplicate(s, t.recv_gap[k].tsn)
    <3> SUFFICES ASSUME NEW k \in Valid(t) PROVE Duplicate(s, t.recv_gap[k].tsn)
      OBVIOUS
    <3>1. CASE k = i
      BY <2>7, <2>8, <2>9, <3>1 DEF Duplicate
    <3>2. CASE k # i
      <4>1. k \in Valid(s) \ {i, j} /\ k \in Slots /\ SameEntry(s, t, k)
        BY <2>8, <2>9, <3>2
      <4>2. t.recv_gap[k].tsn = s.recv_gap[k].tsn
        BY <1>0, <4>1, SameEntryFields
      <4> QED
        BY <4>1, <4>2 DEF Duplicate
    <3> QED
      BY <3>1, <3>2
  <2>11. ASSUME NEW k \in 1 .. NC, HasChunk(s, i, k) \/ HasChunk(s, j, k)
         PROVE  HasChunk(t, i, k)
    <3> DEFINE pay == Chunks[k].payload
    <3>1. x.msg = Chunks[k].msg
      BY <2>5, <2>7, <2>11 DEF HasChunk
    <3>2. ASSUME NEW p \in 1 .. Size(k)
          PROVE  \E q \in 1 .. x.len : t.recv_gap_buf[x.off + q] = pay[p]
      <4>1. CASE HasChunk(s, i, k)
        <5>1. PICK q \in 1 .. d.len : s.recv_gap_buf[d.off + q] = pay[p]
          BY <4>1 DEF HasChunk
        <5>2. q \in 1 .. x.len /\ x.off + q = q
          BY <2>2, <2>7
        <5>3. t.recv_gap_buf[q] = pay[p]
          BY <2>8, <5>1
        <5> QED
          BY <5>2, <5>3
      <4>2. CASE HasChunk(s, j, k)
        <5>1. PICK q \in 1 .. e.len : s.recv_gap_buf[e.off + q] = pay[p]
          BY <4>2 DEF HasChunk
        <5>2. d.len + q \in 1 .. x.len /\ x.off + (d.len + q) = d.len + q
          BY <2>2, <2>7
        <5>3. t.recv_gap_buf[d.len + q] = pay[p]
          BY <2>8, <5>1
        <5> QED
          BY <5>2, <5>3
      <4> QED
        BY <2>11, <4>1, <4>2
    <3> QED
      BY <2>8, <3>1, <3>2 DEF HasChunk
  <2>12. ASSUME NEW k \in 1 .. NC, Acked(t, k), Chunks[k].msg \notin D
         PROVE  \E l \in Live(t) : HasChunk(t, l, k)
    <3>1. Acked(s, k)
      BY <2>8, <2>10, <2>12, NoneAnew
    <3>2. PICK l \in Live(s) : HasChunk(s, l, k)
      BY <2>12, <3>1 DEF Safe
    <3>3. CASE l \in {i, j}
      BY <2>3, <2>4, <2>8, <2>11, <3>2, <3>3
    <3>4. CASE l \notin {i, j}
      <4>1. l \in Valid(s) \ {i, j} /\ l \in Slots /\ l \in Live(t) /\ SameEntry(s, t, l)
        BY <2>8, <2>9, <3>4
      <4>2. t.recv_gap[l].msg = s.recv_gap[l].msg /\ t.recv_gap[l].len = s.recv_gap[l].len
        BY <1>0, <4>1, SameEntryFields
      <4>3. HasChunk(t, l, k)
        BY <3>2, <4>1, <4>2, ChunkStays DEF SameEntry
      <4> QED
        BY <4>1, <4>3
    <3> QED
      BY <3>3, <3>4
  <2>13. Safe(t, D)
    BY <2>12 DEF Safe
  <2> QED
    BY <2>1, <2>13 DEF t
<1> QED
  BY <1>0, <1>1, <1>2, MergeChoice
\* nsctp_rx_merge keeps what is acknowledged.
LEMMA MergeSafe ==
  ASSUME NEW s \in RxStates, NEW D, Safe(s, D)
  PROVE  Safe(nsctp_rx_merge(s), D)
<1> DEFINE N == MAX_RECV_GAP
           R == {q \in RxStates : Safe(q, D)}
           m == CHOOSE m : m = [n \in 0 .. N |-> IF n = 0 THEN s ELSE MergeOnce(m[n - 1])]
<1>1. N \in Nat /\ s \in R
  BY RecvSizes
<1>2. \A q \in R, k \in 1 .. N : MergeAgain(q, k) \in R
  BY MergeOnceOK, MergeOnceSafe DEF MergeAgain
<1> HIDE DEF N, R
<1>3. /\ \E h : MergeLoop!Iterates(h, s, N)
      /\ \A h : MergeLoop!Iterates(h, s, N) => h[N] \in R
  BY <1>1, <1>2, MergeWellOrdered, MergeLoop!IterationInvariant
<1>4. \A h : MergeLoop!Iterates(h, s, N) <=>
             h = [n \in 0 .. N |-> IF n = 0 THEN s ELSE MergeOnce(h[n - 1])]
  BY DEF MergeLoop!Iterates, MergeAgain
<1>5. m = [n \in 0 .. N |-> IF n = 0 THEN s ELSE MergeOnce(m[n - 1])]
  BY <1>3, <1>4
<1>6. nsctp_rx_merge(s) = m[N]
  BY DEF nsctp_rx_merge, N
<1> HIDE DEF m
<1>7. nsctp_rx_merge(s) \in R
  BY <1>3, <1>4, <1>5, <1>6
<1> QED
  BY <1>7 DEF R

\* nsctp_gap_drain passes only TSNs that are marked.
LEMMA DrainSafe ==
  ASSUME NEW s \in RxStates, NEW f, NEW c, FilledTo(s, f, c), NEW D, Safe(s, D)
  PROVE  Safe(nsctp_gap_drain(s), D)
<1> DEFINE n == ContiguousRun(s)
           S == {x \in 0..MAX_RECV_GAP : \A d \in 1..x :
             \E i \in Valid(s) : s.recv_gap[i].tsn = Plus(s.cumulative_tsn, d, TSN_MOD)}
           x == Plus(s.cumulative_tsn, n, TSN_MOD)
           t == [s EXCEPT !.cumulative_tsn = x]
<1>0. s \in State
  BY DEF RxStates
<1>1. c \in 0 .. NC /\ s.cumulative_tsn = TsnOf(c)
  BY DEF FilledTo, Labelled
<1>2. n \in 0 .. MAX_RECV_GAP /\ n \in S
  <2>1. S \in SUBSET (0 .. MAX_RECV_GAP) /\ 0 \in S /\ MAX_RECV_GAP \in Nat
    BY RecvSizes
  <2> HIDE DEF S
  <2>2. Max(S) \in S
    BY <2>1, MaxOf
  <2> QED
    BY <2>1, <2>2 DEF ContiguousRun, S
<1>3. \A d \in 1 .. n : Duplicate(s, Plus(s.cumulative_tsn, d, TSN_MOD))
  BY <1>2 DEF Duplicate
<1> HIDE DEF S
<1>4. x \in 0 .. TSN_MOD - 1
  <2>1. s.cumulative_tsn \in Int /\ n \in Int
    BY <1>0, <1>2, StateParts
  <2> QED
    BY <2>1, PlusTsn
<1>5. nsctp_gap_drain(s) = nsctp_rx_reclaim(t)
  BY DEF nsctp_gap_drain
<1>6. PICK d \in c .. NC : FilledTo(nsctp_gap_drain(s), f, d)
  BY DrainFilled
<1> HIDE DEF x, n
<1>7. t \in State /\ t.recv_gap = s.recv_gap /\ t.recv_gap_buf = s.recv_gap_buf
      /\ t.recv_gap_count = s.recv_gap_count /\ t.cumulative_tsn = x
  BY <1>0, <1>4 DEF State
<1> HIDE DEF t
<1>8. t \in RxStates
  BY <1>0, <1>7, SameTable, RelabelOK
<1>9. x = TsnOf(d)
  <2>1. Tracked(nsctp_gap_drain(s), d)
    BY <1>6, FilledTracked
  <2> QED
    BY <1>5, <1>7, <1>8, <2>1, ReclaimOK DEF Tracked, Reclaimed
<1>10. c \in Nat /\ n \in Nat /\ d \in 0 .. NC /\ d = c + n
  <2>1. c \in Nat /\ n \in Nat /\ c <= NC /\ n <= MAX_RECV_GAP /\ d \in 0 .. NC
        /\ NC \in Nat /\ MAX_RECV_GAP \in Nat
    BY <1>1, <1>2, <1>6, ChunkCount
  <2>2. x = TsnOf(c + n)
    BY <1>1, <2>1, TsnPlus DEF x
  <2>3. d \in 0 .. NC + MAX_RECV_GAP /\ c + n \in 0 .. NC + MAX_RECV_GAP
    BY <2>1
  <2> QED
    BY <1>9, <2>1, <2>2, <2>3, TsnSame
<1>11. Valid(t) = Valid(s) /\ Live(t) = Live(s)
  BY <1>7 DEF Valid, Live
<1>12. ASSUME NEW k \in 1 .. NC, Acked(t, k) PROVE Acked(s, k)
  <2>0. k \in 0 .. NC /\ k \in Nat
    BY ChunkCount
  <2>1. /\ TsnDiff(TsnOf(k), s.cumulative_tsn) = k - c
        /\ TsnDiff(TsnOf(k), t.cumulative_tsn) = k - d
    BY <1>1, <1>7, <1>9, <1>10, <2>0, TsnOrder
  <2>2. CASE k <= c
    <3>1. k - c <= 0
      BY <1>10, <2>0, <2>2
    <3> QED
      BY <2>1, <3>1 DEF Acked
  <2>3. CASE k > c /\ k <= d
    <3>1. k - c \in 1 .. n /\ c + (k - c) = k /\ c \in Int /\ k - c \in Int
      BY <1>10, <2>0, <2>3
    <3>2. Duplicate(s, Plus(s.cumulative_tsn, k - c, TSN_MOD))
      BY <1>3, <3>1
    <3>3. Plus(s.cumulative_tsn, k - c, TSN_MOD) = TsnOf(k)
      BY <1>1, <3>1, TsnPlus
    <3> QED
      BY <3>2, <3>3 DEF Acked
  <2>4. CASE k > d
    <3>1. ~(k - d <= 0)
      BY <1>10, <2>0, <2>4
    <3>2. Duplicate(t, TsnOf(k))
      BY <1>12, <2>1, <3>1 DEF Acked
    <3> QED
      BY <1>7, <1>11, <3>2 DEF Acked, Duplicate
  <2> QED
    BY <1>10, <2>0, <2>2, <2>3, <2>4
<1>13. Safe(t, D)
  <2> SUFFICES ASSUME NEW k \in 1 .. NC, Acked(t, k), Chunks[k].msg \notin D
               PROVE  \E j \in Live(t) : HasChunk(t, j, k)
    BY DEF Safe
  <2>1. PICK j \in Live(s) : HasChunk(s, j, k)
    BY <1>12 DEF Safe
  <2>2. HasChunk(t, j, k)
    BY <1>7, <2>1 DEF HasChunk
  <2> QED
    BY <1>11, <2>2
<1> QED
  BY <1>5, <1>8, <1>13, ReclaimSteady, SteadySafe

\* A stored chunk is in the entry made for it.
LEMMA StoreSafe ==
  ASSUME NEW s \in RxStates, NEW k \in 1 .. NC, NEW slot \in Slots, NEW t,
         StoredIn(s, Chunks[k], TsnOf(k), slot, t), NEW D, Safe(s, D)
  PROVE  Safe(t, D)
<1> DEFINE e == StoredEntry(s, Chunks[k], TsnOf(k))
           buf == s.recv_gap_buf
           pay == Chunks[k].payload
<1>0. s \in State /\ PoolOK(s) /\ buf \in Seq(Byte) /\ Len(buf) \in Nat
  BY StateParts DEF RxStates
<1>1. /\ slot \notin Valid(s) /\ t.recv_gap_buf = buf \o pay
      /\ t.recv_gap = [s.recv_gap EXCEPT ![slot] = e] /\ t.cumulative_tsn = s.cumulative_tsn
  BY DEF StoredIn
<1>2. t.recv_gap[slot] = e /\ \A j \in Slots \ {slot} : t.recv_gap[j] = s.recv_gap[j]
  BY <1>0, <1>1, StateParts
<1>3. /\ e.valid = TRUE /\ e.tsn = TsnOf(k) /\ e.msg = Chunks[k].msg
      /\ e.off = Len(buf) /\ e.len = Size(k) /\ e.delivered = FALSE
  <2> DEFINE d == Chunks[k]
             w == TsnOf(k)
  <2> HIDE DEF d, w
  <2>1. e = StoredEntry(s, d, w) /\ Size(k) = Len(d.payload)
    BY DEF d, w, Size
  <2> HIDE DEF e
  <2>2. /\ e.valid = TRUE /\ e.tsn = w /\ e.msg = d.msg
        /\ e.off = Len(buf) /\ e.len = Len(d.payload) /\ e.delivered = FALSE
    BY <2>1 DEF StoredEntry, NoEntry
  <2> QED
    BY <2>1, <2>2 DEF d, w
<1> HIDE DEF e
<1>4. Valid(t) = Valid(s) \cup {slot} /\ Live(t) = Live(s) \cup {slot}
  BY <1>1, <1>2, <1>3 DEF Valid, Live
<1>5. pay \in Seq(Byte) /\ Len(pay) = Size(k) /\ Size(k) \in Nat
  BY ChunkPayload DEF Size
<1> HIDE DEF buf, pay
<1>6. /\ \A q \in 1 .. Len(buf) : t.recv_gap_buf[q] = buf[q]
      /\ \A q \in 1 .. Size(k) : t.recv_gap_buf[Len(buf) + q] = pay[q]
  BY <1>0, <1>1, <1>5
<1>7. HasChunk(t, slot, k)
  <2>1. \A p \in 1 .. Size(k) : t.recv_gap_buf[e.off + p] = Chunks[k].payload[p]
    BY <1>3, <1>6 DEF pay
  <2> QED
    BY <1>2, <1>3, <2>1 DEF HasChunk
<1>8. \A j \in Valid(s) : j \in Slots \ {slot}
  BY <1>1 DEF Valid
<1>9. ASSUME NEW j \in Live(s), NEW z \in 1 .. NC, HasChunk(s, j, z) PROVE HasChunk(t, j, z)
  <2>1. j \in Valid(s) /\ t.recv_gap[j] = s.recv_gap[j]
    BY <1>0, <1>2, <1>8, StateParts
  <2>2. ASSUME NEW q \in 1 .. s.recv_gap[j].len
        PROVE  t.recv_gap_buf[s.recv_gap[j].off + q] = buf[s.recv_gap[j].off + q]
    <3> DEFINE o == s.recv_gap[j].off
               l == s.recv_gap[j].len
               n == Len(buf)
    <3>1. o \in Nat /\ l \in Nat /\ o + l <= n
      BY <1>0, <2>1, EntryInside DEF buf
    <3>2. q \in 1 .. l /\ n \in Nat
      BY <1>0, <2>2
    <3> HIDE DEF o, l, n
    <3>3. o + q \in 1 .. n
      BY <3>1, <3>2
    <3> QED
      BY <1>6, <3>3 DEF o, n
  <2> QED
    BY <1>9, <2>1, <2>2, ChunkStays DEF buf
<1>10. ASSUME NEW z \in 1 .. NC, z # k, Acked(t, z) PROVE Acked(s, z)
  <2>1. CASE TsnDiff(TsnOf(z), t.cumulative_tsn) <= 0
    BY <1>1, <2>1 DEF Acked
  <2>2. CASE Duplicate(t, TsnOf(z))
    <3>1. PICK j \in Valid(t) : t.recv_gap[j].tsn = TsnOf(z)
      BY <2>2 DEF Duplicate
    <3>2. j # slot
      <4> SUFFICES ASSUME j = slot PROVE FALSE
        OBVIOUS
      <4>1. TsnOf(z) = TsnOf(k)
        BY <1>2, <1>3, <3>1
      <4>2. z \in 0 .. NC + MAX_RECV_GAP /\ k \in 0 .. NC + MAX_RECV_GAP
        BY ChunkCount
      <4> QED
        BY <1>10, <4>1, <4>2, TsnSame
    <3> QED
      BY <1>2, <1>4, <1>8, <3>1, <3>2 DEF Acked, Duplicate
  <2> QED
    BY <1>10, <2>1, <2>2 DEF Acked
<1> SUFFICES ASSUME NEW z \in 1 .. NC, Acked(t, z), Chunks[z].msg \notin D
             PROVE  \E j \in Live(t) : HasChunk(t, j, z)
  BY DEF Safe
<1>11. CASE z = k
  BY <1>4, <1>7, <1>11
<1>12. CASE z # k
  <2>1. PICK j \in Live(s) : HasChunk(s, j, z)
    BY <1>10, <1>12 DEF Safe
  <2> QED
    BY <1>4, <1>9, <2>1
<1> QED
  BY <1>11, <1>12

\* nsctp_handle_data_chunk keeps what is acknowledged, and what it stores.
LEMMA DataChunkSafe ==
  ASSUME NEW s \in RxStates, NEW f, Spans(f), Filled(s, f), NEW k \in 1 .. NC, NEW D, Safe(s, D)
  PROVE  Safe(nsctp_handle_data_chunk(s, Chunks[k], TsnOf(k)), D)
<1> DEFINE ch == Chunks[k]
           tsn == TsnOf(k)
           s1 == [s EXCEPT !.sack_needed = TRUE]
           s2 == nsctp_rx_reclaim(s1)
           s3 == Store(s2, ch, tsn)
<1>0. s \in State
  BY DEF RxStates
<1>1. PICK c : FilledTo(s, f, c)
  BY DEF Filled
<1>2. c \in 0 .. NC /\ s.cumulative_tsn = TsnOf(c)
  BY <1>1 DEF FilledTo, Labelled
<1>3. /\ s1 \in State /\ s1.recv_gap = s.recv_gap /\ s1.recv_gap_buf = s.recv_gap_buf
      /\ s1.recv_gap_count = s.recv_gap_count /\ s1.cumulative_tsn = s.cumulative_tsn
  BY <1>0 DEF State
<1>4. s1 \in RxStates
  BY <1>0, <1>3, SameTable, RelabelOK
<1>5. \/ nsctp_handle_data_chunk(s, ch, tsn) = s
      \/ nsctp_handle_data_chunk(s, ch, tsn) = s1
      \/ nsctp_handle_data_chunk(s, ch, tsn) = s2
      \/ /\ ~(TsnDiff(tsn, s.cumulative_tsn) <= 0)
         /\ ~Duplicate(s2, tsn)
         /\ ~NoRoom(s2, ch, tsn)
         /\ nsctp_handle_data_chunk(s, ch, tsn) = nsctp_rx_merge(nsctp_gap_drain(s3))
  BY Zenon DEF nsctp_handle_data_chunk, s1, s2
<1> HIDE DEF s1
<1>6. FilledTo(s1, f, c) /\ Safe(s1, D)
  BY <1>1, <1>3, SameFilled, SameSteady, SteadySafe
<1>7. s2 \in RxStates /\ FilledTo(s2, f, c) /\ Safe(s2, D)
  <2>1. s2 \in RxStates /\ FilledTo(s2, f, c)
    BY <1>4, <1>6, ReclaimOK, ReclaimCarries, CarryOK
  <2>2. Safe(s2, D)
    BY <1>4, <1>6, ReclaimSteady, SteadySafe
  <2> QED
    BY <2>1, <2>2
<1> HIDE DEF s2
<1>8. ASSUME ~(TsnDiff(tsn, s.cumulative_tsn) <= 0), ~Duplicate(s2, tsn), ~NoRoom(s2, ch, tsn)
      PROVE  Safe(nsctp_rx_merge(nsctp_gap_drain(s3)), D)
  <2>1. ch \in Chunk /\ tsn \in 0 .. TSN_MOD - 1
    BY ChunkCount, TsnType
  <2>2. Valid(s2) # Slots /\ Len(s2.recv_gap_buf) + Len(ch.payload) <= RECV_GAP_BUF_SIZE
    BY <1>7, <1>8, <2>1, RoomFor
  <2>3. s3 \in RxStates /\ \E slot \in Slots : StoredIn(s2, ch, tsn, slot, s3)
    BY <1>7, <2>1, <2>2, StoreOK
  <2>4. PICK slot \in Slots : StoredIn(s2, ch, tsn, slot, s3)
    BY <2>3
  <2>5. c < k
    <3>1. k \in 0 .. NC
      OBVIOUS
    <3>2. TsnDiff(tsn, s.cumulative_tsn) = k - c
      BY <1>2, <3>1, TsnOrder
    <3> HIDE DEF tsn
    <3> QED
      BY <1>2, <1>8, <3>1, <3>2, ChunkCount
  <2>6. FilledTo(s3, f, c)
    BY <1>7, <1>8, <2>4, <2>5, StoreFilled
  <2>7. Safe(s3, D)
    BY <1>7, <2>4, StoreSafe
  <2> HIDE DEF s3
  <2>8. Safe(nsctp_gap_drain(s3), D) /\ nsctp_gap_drain(s3) \in RxStates
    BY <2>3, <2>6, <2>7, DrainSafe, DrainOK
  <2> QED
    BY <2>8, MergeSafe
<1> QED
  BY <1>5, <1>6, <1>7, <1>8
\* A delivery takes the chunks of its message only.
LEMMA DeliverSafe ==
  ASSUME NEW s \in RxStates, NEW f, Spans(f), Filled(s, f), NEW i \in Deliverable(s),
         NEW D, Safe(s, D)
  PROVE  Safe(DeliverFrom(s, i).st, D \cup {s.recv_gap[i].msg})
<1> DEFINE t == DeliverFrom(s, i).st
           parts == Parts(s, i)
           n == Len(parts)
           acc == Gather(s, parts)
           u == acc.st
           m == s.recv_gap[i].msg
<1>0. s \in State /\ PoolOK(s) /\ Live(s) \subseteq Valid(s) /\ Valid(s) \subseteq Slots
  BY StateParts DEF RxStates
<1>1. i \in Live(s) /\ i \in Slots /\ parts # <<>>
  BY <1>0 DEF Deliverable
<1>2. parts \in Seq(Valid(s)) /\ Distinct(parts) /\ n \in Nat
  BY <1>0, <1>1, PartsFacts
<1>3. \A x \in 1 .. n : s.recv_gap[parts[x]].msg = m
  <2>1. PICK c : FilledTo(s, f, c)
    BY DEF Filled
  <2>2. PICK lo \in [Slots -> Nat], hi \in [Slots -> Nat] : Labelled(s, f, lo, hi, c)
    BY <2>1 DEF FilledTo
  <2>3. PartLabels(s, f, lo, hi, i, parts)
    BY <1>0, <1>1, <2>2, PartsLabelled
  <2> QED
    BY <2>3 DEF PartLabels
<1>4. acc \in GatherStates(s, parts, n)
  BY <1>0, <1>2, GatherOK
<1>5. /\ u \in State /\ Kept(s, u)
      /\ t.recv_gap = u.recv_gap /\ t.recv_gap_buf = u.recv_gap_buf
      /\ t.cumulative_tsn = u.cumulative_tsn
  BY <1>4, DeliverStep DEF Delivered, GatherStates
<1> HIDE DEF t, parts, n
<1>6. \A j \in Valid(s) : (\A x \in 1 .. n : parts[x] # j) => u.recv_gap[j].delivered = s.recv_gap[j].delivered
  BY <1>4 DEF GatherStates, Fronted
<1> HIDE DEF acc
<1>7. /\ Valid(u) = Valid(s) /\ u.cumulative_tsn = s.cumulative_tsn
      /\ \A j \in Valid(s) : KeptEntry(s, u, j)
  BY <1>5 DEF Kept
<1> HIDE DEF u
<1>8. \A j \in Valid(s) : /\ u.recv_gap[j].tsn = s.recv_gap[j].tsn
                          /\ u.recv_gap[j].msg = s.recv_gap[j].msg
                          /\ u.recv_gap[j].len = s.recv_gap[j].len
  <2> SUFFICES ASSUME NEW j \in Valid(s)
               PROVE  /\ u.recv_gap[j].tsn = s.recv_gap[j].tsn
                      /\ u.recv_gap[j].msg = s.recv_gap[j].msg
                      /\ u.recv_gap[j].len = s.recv_gap[j].len
    OBVIOUS
  <2>1. j \in Slots /\ KeptEntry(s, u, j)
    BY <1>0, <1>7
  <2> QED
    BY <1>0, <1>5, <2>1, KeptFields
<1>9. Safe(u, D \cup {m})
  <2> SUFFICES ASSUME NEW k \in 1 .. NC, Acked(u, k), Chunks[k].msg \notin D \cup {m}
               PROVE  \E j \in Live(u) : HasChunk(u, j, k)
    BY DEF Safe
  <2>1. \A j \in Valid(u) : Duplicate(s, u.recv_gap[j].tsn)
    BY <1>7, <1>8 DEF Duplicate
  <2>2. Acked(s, k)
    BY <1>7, <2>1, NoneAnew
  <2>3. PICK j \in Live(s) : HasChunk(s, j, k)
    BY <2>2 DEF Safe
  <2>4. j \in Valid(s) /\ s.recv_gap[j].msg = Chunks[k].msg /\ s.recv_gap[j].msg # m
    BY <1>0, <2>3 DEF HasChunk
  <2>5. \A x \in 1 .. n : parts[x] # j
    BY <1>3, <2>4
  <2>6. u.recv_gap[j].delivered = s.recv_gap[j].delivered
    BY <1>6, <2>4, <2>5
  <2>7. j \in Live(u)
    BY <1>7, <2>3, <2>4, <2>6 DEF Live
  <2>8. HasChunk(u, j, k)
    BY <1>7, <1>8, <2>3, <2>4, ChunkStays DEF KeptEntry
  <2> QED
    BY <2>7, <2>8
<1>10. Safe(t, D \cup {m})
  BY <1>5, <1>9, SameSteady, SteadySafe
<1> QED
  BY <1>10 DEF t

\* Queueing a SACK takes nothing.
LEMMA SackSafe ==
  ASSUME NEW s \in State, NEW D, Safe(s, D), QueueSack(s)
  PROVE  Safe(rx', D)
<1> DEFINE t == [s EXCEPT !.sack_needed = FALSE]
<1>1. /\ t.recv_gap = s.recv_gap /\ t.recv_gap_buf = s.recv_gap_buf
      /\ t.cumulative_tsn = s.cumulative_tsn
  BY DEF State
<1>2. rx' = t \/ rx' = s
  BY DEF QueueSack
<1> HIDE DEF t
<1>3. Safe(t, D)
  BY <1>1, SameSteady, SteadySafe
<1> QED
  BY <1>2, <1>3

\* The messages handed to the application.
Handed(q) == {q[n].msg : n \in 1 .. Len(q)}

\* One more is handed over.
LEMMA HandedAppend ==
  ASSUME NEW q \in Seq(Sent), NEW d \in Sent
  PROVE  Handed(Append(q, d)) = Handed(q) \cup {d.msg}
<1> DEFINE r == Append(q, d)
           n == Len(q)
<1>1. n \in Nat /\ Len(r) = n + 1 /\ r[n + 1] = d /\ \A x \in 1 .. n : r[x] = q[x]
  OBVIOUS
<1> HIDE DEF r, n
<1>2. \A x \in 1 .. n + 1 : x \in 1 .. n \/ x = n + 1
  BY <1>1
<1>3. \A x \in 1 .. n : x \in 1 .. n + 1
  BY <1>1
<1>4. n + 1 \in 1 .. n + 1
  BY <1>1
<1>5. {r[x].msg : x \in 1 .. n + 1} = {q[x].msg : x \in 1 .. n} \cup {d.msg}
  BY <1>1, <1>2, <1>3, <1>4
<1> QED
  BY <1>1, <1>5 DEF Handed, r, n

\* As long as nothing is abandoned, everything acknowledged is handed over or waits in the table.
KeptInv == IntactInv /\ (gone = {} => Safe(rx, Handed(delivered)))

\* An empty table has acknowledged nothing.
LEMMA InitSafe == Safe(RxInit, {})
<1> SUFFICES ASSUME NEW k \in 1 .. NC PROVE ~Acked(RxInit, k)
  BY DEF Safe
<1>1. RxInit.cumulative_tsn = TsnOf(0) /\ 0 \in 0 .. NC /\ k \in 0 .. NC /\ k \in Nat /\ k >= 1
  <2>1. 0 - 1 = -1
    OBVIOUS
  <2> QED
    BY <2>1, ChunkCount DEF RxInit, TsnOf
<1>2. TsnDiff(TsnOf(k), RxInit.cumulative_tsn) = k - 0
  BY <1>1, TsnOrder
<1>3. ~(k - 0 <= 0)
  BY <1>1
<1>4. Valid(RxInit) = {}
  <2>1. RxInit.recv_gap = [j \in Slots |-> NoEntry]
    BY DEF RxInit
  <2> QED
    BY <2>1 DEF Valid, NoEntry
<1> QED
  BY <1>2, <1>3, <1>4 DEF Acked, Duplicate

\* Every step keeps what is acknowledged.
LEMMA KeptStep == KeptInv /\ [Next]_vars => KeptInv'
<1> SUFFICES ASSUME KeptInv, [Next]_vars PROVE KeptInv'
  OBVIOUS
<1>a. IntactInv'
  BY IntactStep DEF KeptInv
<1> SUFFICES ASSUME gone' = {} PROVE Safe(rx', Handed(delivered'))
  BY <1>a DEF KeptInv
<1>b. gone = {}
  BY DEF Next, HandleData, HandleChunk, HandleForwardTsn, PeerAbandon, PollDelivery, PollOutput, vars
<1>0. /\ IntactInv /\ Safe(rx, Handed(delivered))
      /\ rx \in RxStates /\ rx \in State /\ delivered \in Seq(Sent)
  BY <1>b DEF KeptInv, IntactInv, Inv, RxStates
<1>1. PICK f : Spans(f) /\ Filled(rx, f)
  BY <1>0 DEF IntactInv
<1> DEFINE D == Handed(delivered)
<1>3. ASSUME NEW k \in DOMAIN Chunks, HandleData(k)
      PROVE  Safe(rx', Handed(delivered'))
  <2> DEFINE s == nsctp_handle_data_chunk(rx, Chunks[k], TsnOf(k))
  <2>1. s \in State
    BY <1>0, TsnType, DataChunkOK DEF RxStates
  <2>2. Safe(s, D)
    <3>1. k \in 1 .. NC
      BY ChunkCount
    <3> QED
      BY <1>0, <1>1, <3>1, DataChunkSafe
  <2>3. (rx' = s \/ QueueSack(s)) /\ delivered' = delivered
    BY <1>3 DEF HandleData, HandleChunk
  <2> HIDE DEF s
  <2>4. Safe(rx', D)
    BY <2>1, <2>2, <2>3, SackSafe
  <2> QED
    BY <1>0, <2>3, <2>4
<1>4. ASSUME NEW h \in Messages, NEW m \in Messages, HandleForwardTsn(h, m)
      PROVE  FALSE
  <2>1. h <= m /\ h .. m \subseteq {}
    BY <1>b, <1>4 DEF HandleForwardTsn
  <2>2. h \in h .. m
    BY <2>1 DEF Messages
  <2> QED
    BY <2>1, <2>2
<1>5. ASSUME NEW given \in SUBSET Messages, PeerAbandon(given)
      PROVE  FALSE
  BY <1>5 DEF PeerAbandon
<1>6. ASSUME PollDelivery
      PROVE  Safe(rx', Handed(delivered'))
  <2> DEFINE s == nsctp_rx_reclaim(rx)
             i == Min(Deliverable(s))
             d == DeliverFrom(s, i)
  <2>1. s \in RxStates /\ Filled(s, f) /\ Safe(s, D)
    <3>1. PICK c : FilledTo(rx, f, c)
      BY <1>1 DEF Filled
    <3>2. FilledTo(s, f, c)
      BY <1>0, <3>1, ReclaimCarries, CarryOK
    <3>3. Safe(s, D)
      BY <1>0, ReclaimSteady, SteadySafe
    <3> QED
      BY <1>0, <3>2, <3>3, ReclaimOK DEF Filled
  <2>2. \/ rx' = s /\ delivered' = delivered
        \/ Deliverable(s) # {} /\ rx' = d.st /\ delivered' = Append(delivered, d.message)
    BY <1>6 DEF PollDelivery
  <2>3. d.message.msg = s.recv_gap[i].msg
    BY DEF DeliverFrom
  <2> HIDE DEF s, i
  <2>4. Deliverable(s) # {} => i \in Deliverable(s)
    BY <2>1, FirstDeliverable DEF i
  <2>5. Deliverable(s) # {} => d.message \in Sent /\ Safe(d.st, D \cup {s.recv_gap[i].msg})
    BY <1>1, <2>1, <2>4, DeliverIntact, DeliverSafe
  <2> HIDE DEF d
  <2>6. CASE rx' = s /\ delivered' = delivered
    BY <1>0, <2>1, <2>2, <2>6
  <2>7. CASE Deliverable(s) # {} /\ rx' = d.st /\ delivered' = Append(delivered, d.message)
    <3>1. Handed(delivered') = D \cup {s.recv_gap[i].msg}
      BY <1>0, <2>3, <2>5, <2>7, HandedAppend
    <3> QED
      BY <1>0, <2>2, <2>5, <2>7, <3>1
  <2> QED
    BY <2>2, <2>6, <2>7
<1>7. ASSUME PollOutput
      PROVE  Safe(rx', Handed(delivered'))
  <2> DEFINE t == [rx EXCEPT !.sack_needed = FALSE]
  <2>1. /\ t.recv_gap = rx.recv_gap /\ t.recv_gap_buf = rx.recv_gap_buf
        /\ t.cumulative_tsn = rx.cumulative_tsn
    BY <1>0 DEF State
  <2>2. (rx' = rx \/ rx' = t) /\ delivered' = delivered
    BY <1>7 DEF PollOutput
  <2> HIDE DEF t
  <2>3. Safe(t, D)
    BY <1>0, <2>1, SameSteady, SteadySafe
  <2> QED
    BY <1>0, <2>2, <2>3
<1>8. CASE UNCHANGED vars
  BY <1>0, <1>8 DEF vars
<1> QED
  BY <1>3, <1>4, <1>5, <1>6, <1>7, <1>8 DEF Next

\* As long as the peer abandons nothing, what a SACK acknowledges is delivered or held in the pool
\* for delivery (AckedIsKept): no compaction, rotation, merge, delivery or refusal of
\* nsctp_handle_data_chunk and nsctp_poll_delivery loses it.
THEOREM AcknowledgedIsKept == Spec => [](gone = {} => AckedIsKept)
<1>1. Init => KeptInv
  <2> SUFFICES ASSUME Init PROVE KeptInv
    OBVIOUS
  <2>1. IntactInv
    <3>1. Inv
      BY InitOK, RecvSizes DEF Init, Inv
    <3>2. \E f : Spans(f) /\ Filled(rx, f)
      BY InitFilled DEF Init
    <3>3. delivered \in Seq(Sent)
      BY DEF Init
    <3> QED
      BY <3>1, <3>2, <3>3 DEF IntactInv
  <2>2. rx = RxInit /\ Handed(delivered) = {}
    BY DEF Init, Handed
  <2> QED
    BY <2>1, <2>2, InitSafe DEF KeptInv
<1>2. KeptInv => (gone = {} => AckedIsKept)
  <2> SUFFICES ASSUME KeptInv, gone = {}, NEW k \in DOMAIN Chunks, Acked(rx, k)
               PROVE  \/ \E n \in DOMAIN delivered : delivered[n].msg = Chunks[k].msg
                      \/ Buffered(rx, k)
    BY DEF AckedIsKept
  <2>1. /\ Safe(rx, Handed(delivered)) /\ rx \in State /\ PoolOK(rx)
        /\ k \in 1 .. NC /\ DOMAIN delivered = 1 .. Len(delivered)
    BY ChunkCount DEF KeptInv, IntactInv, Inv, RxStates
  <2>2. CASE Chunks[k].msg \in Handed(delivered)
    BY <2>1, <2>2 DEF Handed
  <2>3. CASE \E j \in Live(rx) : HasChunk(rx, j, k)
    BY <2>1, <2>3, HasBuffered
  <2> QED
    BY <2>1, <2>2, <2>3 DEF Safe
<1>3. KeptInv /\ [Next]_vars => KeptInv'
  BY KeptStep
<1> QED
  BY <1>1, <1>2, <1>3, PTL DEF Spec
-----------------------------------------------------------------------------
(* Every message is delivered once, and the ordered ones of a stream in order.*)

\* What an entry says of its message.
Item(e) == [msg |-> e.msg, sid |-> e.sid, ssn |-> e.ssn, U |-> e.U, forwarded |-> e.forwarded]

\* The messages that wait for delivery, and the chunks that are acknowledged.
Items(s) == {Item(s.recv_gap[j]) : j \in Live(s)}
Acks(s) == {k \in 1 .. NC : Acked(s, k)}

\* All chunks of message m are in K.
Whole(K, m) == \A k \in 1 .. NC : Chunks[k].msg = m => k \in K

\* The ordered messages of a stream, and the number of those before message m.
OnStream(sid) == {n \in Messages : Msgs[n].sid = sid /\ ~Msgs[n].unordered}
Rank(m) == Cardinality({n \in 1 .. (m - 1) : Msgs[n].sid = Msgs[m].sid /\ ~Msgs[n].unordered})

\* What waits belongs to messages that are not in D; those in D are acknowledged whole.
Once(I, K, D) ==
    /\ \A d \in D : Whole(K, d)
    /\ \A x \in I : x.msg \notin D

\* Item x says what is so of its message.
Genuine(x) ==
    /\ x.msg \in Messages /\ x.sid = Msgs[x.msg].sid /\ x.U = Msgs[x.msg].unordered
    /\ x.U => ~x.forwarded
    /\ ~x.U => x.ssn = Ssn(x.msg)

\* The SSN expected next on stream sid is that of its message number q[sid], counted from 0.
Expects(R, q) ==
    \A sid \in Nat :
      /\ q[sid] \in 0 .. Cardinality(OnStream(sid))
      /\ IF sid \in DOMAIN R THEN R[sid] = Plus(InitSsn, q[sid], SSN_MOD) ELSE q[sid] = 0

\* Messages of a stream before that number are acknowledged whole, and delivered unless some
\* are skipped; the delivered ones are among them and precede all that wait; of those that wait
\* a FORWARD-TSN has released just the ones before that number.
InTurn(I, q, K, D, skip) ==
    /\ \A x \in I : Genuine(x) /\ (~x.U => (x.forwarded <=> Rank(x.msg) < q[x.sid]))
    /\ \A x \in I, d \in D : SameStream(d, x.msg) => d < x.msg
    /\ \A m \in Messages : ~Msgs[m].unordered /\ Rank(m) < q[Msgs[m].sid] =>
                             Whole(K, m) /\ (skip \/ m \in D)
    /\ \A d \in D : d \in Messages /\ (~Msgs[d].unordered => Rank(d) < q[Msgs[d].sid])

Turns(I, R, K, D, skip) ==
    \E q \in [Nat -> Nat] : Expects(R, q) /\ InTurn(I, q, K, D, skip)

\* The ordered messages of a stream are finitely many, at most half as many as SSNs.
LEMMA StreamCount ==
  ASSUME NEW sid \in Nat
  PROVE  /\ IsFiniteSet(OnStream(sid)) /\ Cardinality(OnStream(sid)) \in Nat
         /\ 2 * Cardinality(OnStream(sid)) < SSN_MOD /\ SSN_MOD \in Nat /\ SSN_MOD > 0
<1>0. Len(Msgs) \in Nat /\ Messages = 1 .. Len(Msgs) /\ SSN_MOD \in Nat /\ SSN_MOD > 0
  BY PeerConforms, RecvSizes DEF Messages
<1>1. IsFiniteSet(Messages)
  BY <1>0, FS_Interval
<1>2. IsFiniteSet(OnStream(sid))
  BY <1>1, FS_Subset DEF OnStream
<1>3. Cardinality(OnStream(sid)) \in Nat
  BY <1>2, FS_CardinalityType
<1>4. CASE OnStream(sid) = {}
  <2>1. Cardinality(OnStream(sid)) = 0
    BY <1>4, FS_EmptySet
  <2> QED
    BY <1>0, <1>2, <2>1
<1>5. CASE OnStream(sid) # {}
  <2>1. PICK m \in Messages : Msgs[m].sid = sid
    BY <1>5 DEF OnStream
  <2>2. 2 * Cardinality(OnStream(sid)) < SSN_MOD
    BY <2>1, SsnsFit DEF OnStream
  <2> QED
    BY <1>0, <1>2, <1>3, <2>2
<1> QED
  BY <1>4, <1>5

\* The messages of a stream before one of them are fewer than those of the stream.
LEMMA RankType ==
  ASSUME NEW m \in Messages
  PROVE  /\ Rank(m) \in Nat /\ Msgs[m].sid \in Nat
         /\ Rank(m) <= Cardinality(OnStream(Msgs[m].sid))
         /\ Ssn(m) = Plus(InitSsn, Rank(m), SSN_MOD)
         /\ ~Msgs[m].unordered => Rank(m) < Cardinality(OnStream(Msgs[m].sid))
<1> DEFINE sid == Msgs[m].sid
           S == OnStream(sid)
           B == {n \in 1 .. (m - 1) : Msgs[n].sid = sid /\ ~Msgs[n].unordered}
<1>0. Len(Msgs) \in Nat /\ Messages = 1 .. Len(Msgs) /\ m \in Nat /\ sid \in Nat
  BY PeerConforms, MessageFacts DEF Messages
<1>1. IsFiniteSet(S) /\ Cardinality(S) \in Nat
  BY <1>0, StreamCount
<1>2. B \subseteq S
  BY <1>0 DEF OnStream
<1>3. Rank(m) = Cardinality(B) /\ Ssn(m) = Plus(InitSsn, Rank(m), SSN_MOD)
  BY DEF Rank, Ssn
<1>4. ~Msgs[m].unordered => m \in S \ B
  BY <1>0 DEF OnStream
<1> HIDE DEF B, S, sid
<1>5. IsFiniteSet(B) /\ Cardinality(B) \in Nat /\ Cardinality(B) <= Cardinality(S)
  BY <1>1, <1>2, FS_Subset, FS_CardinalityType
<1>6. ASSUME ~Msgs[m].unordered PROVE Cardinality(B) < Cardinality(S)
  <2>1. B # S
    BY <1>4, <1>6
  <2> QED
    BY <1>1, <1>2, <1>5, <2>1, FS_Subset
<1> QED
  BY <1>0, <1>3, <1>5, <1>6 DEF S, sid

\* Ranks are in the order of the messages.
LEMMA RankOrder ==
  ASSUME NEW x \in Messages, NEW m \in Messages, SameStream(x, m)
  PROVE  (Rank(x) < Rank(m)) <=> (x < m)
<1> DEFINE B(y) == {n \in 1 .. (y - 1) : Msgs[n].sid = Msgs[y].sid /\ ~Msgs[n].unordered}
<1>0. Len(Msgs) \in Nat /\ Messages = 1 .. Len(Msgs) /\ x \in Nat /\ m \in Nat
  BY PeerConforms DEF Messages
<1>1. ASSUME NEW u \in Messages, NEW v \in Messages, SameStream(u, v), u < v
      PROVE  Rank(u) < Rank(v)
  <2>1. B(u) \subseteq B(v) /\ u \in B(v) /\ u \notin B(u)
    BY <1>0, <1>1 DEF SameStream
  <2>2. IsFiniteSet(B(v))
    <3>1. IsFiniteSet(1 .. (v - 1))
      BY <1>0, FS_Interval
    <3> QED
      BY <3>1, FS_Subset
  <2>3. Rank(u) = Cardinality(B(u)) /\ Rank(v) = Cardinality(B(v))
    BY DEF Rank
  <2> DEFINE U == B(u)
             V == B(v)
  <2>4. U \subseteq V /\ U # V /\ IsFiniteSet(V)
    BY <2>1, <2>2
  <2> HIDE DEF U, V
  <2>5. Cardinality(U) < Cardinality(V)
    BY <2>4, FS_Subset, FS_CardinalityType
  <2> QED
    BY <2>3, <2>5 DEF U, V
<1>2. Rank(x) \in Nat /\ Rank(m) \in Nat
  BY RankType
<1>3. x < m => Rank(x) < Rank(m)
  BY <1>1
<1>4. m < x => Rank(m) < Rank(x)
  BY <1>1 DEF SameStream
<1> QED
  BY <1>0, <1>2, <1>3, <1>4

\* Comparing SSNs compares ranks, as far as there are messages on a stream.
LEMMA SsnOrder ==
  ASSUME NEW sid \in Nat, NEW a \in 0 .. Cardinality(OnStream(sid)),
         NEW b \in 0 .. Cardinality(OnStream(sid))
  PROVE  SsnDiff(Plus(InitSsn, a, SSN_MOD), Plus(InitSsn, b, SSN_MOD)) = a - b
<1> DEFINE x == InitSsn + a
           y == InitSsn + b
<1>1. /\ x \in Int /\ y \in Int /\ x - y = a - b /\ 2 * (x - y) < SSN_MOD /\ 2 * (y - x) < SSN_MOD
      /\ SSN_MOD \in Nat /\ SSN_MOD > 0
  BY StreamCount, RecvSizes
<1> HIDE DEF x, y
<1>3. Diff(x % SSN_MOD, y % SSN_MOD, SSN_MOD) = x - y
  BY <1>1, SerialDiff
<1> QED
  BY <1>1, <1>3 DEF SsnDiff, Plus, x, y

\* The table of SSNs after nsctp_stream.
Mapped(R, sid) == IF sid \in DOMAIN R THEN R
                  ELSE [x \in DOMAIN R \cup {sid} |-> IF x = sid THEN InitSsn ELSE R[x]]

\* A new stream starts with the first SSN.
LEMMA ExpectsMapped ==
  ASSUME NEW R, NEW q, NEW sid \in Nat, Expects(R, q)
  PROVE  Expects(Mapped(R, sid), q) /\ sid \in DOMAIN Mapped(R, sid)
<1>1. CASE sid \in DOMAIN R
  BY <1>1 DEF Mapped
<1>2. CASE sid \notin DOMAIN R
  <2>1. q[sid] = 0
    BY <1>2 DEF Expects
  <2>2. InitSsn = Plus(InitSsn, 0, SSN_MOD)
    <3>1. InitSsn \in 0 .. SSN_MOD - 1 /\ SSN_MOD \in Nat /\ SSN_MOD > 0
      BY RecvSizes
    <3> QED
      BY <3>1 DEF Plus
  <2> DEFINE T == Mapped(R, sid)
  <2>3. /\ DOMAIN T = DOMAIN R \cup {sid} /\ T[sid] = InitSsn
        /\ \A x \in DOMAIN R : T[x] = R[x]
    BY <1>2 DEF Mapped
  <2> HIDE DEF T
  <2>4. ASSUME NEW y \in Nat
        PROVE  /\ q[y] \in 0 .. Cardinality(OnStream(y))
               /\ IF y \in DOMAIN T THEN T[y] = Plus(InitSsn, q[y], SSN_MOD) ELSE q[y] = 0
    <3>1. /\ q[y] \in 0 .. Cardinality(OnStream(y))
          /\ y \in DOMAIN R => R[y] = Plus(InitSsn, q[y], SSN_MOD)
          /\ y \notin DOMAIN R => q[y] = 0
      BY DEF Expects
    <3>2. CASE y = sid
      BY <2>1, <2>2, <2>3, <3>1, <3>2
    <3>3. CASE y # sid
      BY <2>3, <3>1, <3>3
    <3> QED
      BY <3>2, <3>3
  <2>5. Expects(T, q)
    BY <2>4 DEF Expects
  <2> QED
    BY <2>3, <2>5 DEF T
<1> QED
  BY <1>1, <1>2

\* Less waits, more is acknowledged.
LEMMA OnceShrinks ==
  ASSUME NEW I, NEW J, NEW K, NEW L, NEW D, Once(I, K, D), K \subseteq L,
         \A y \in J : \E x \in I : y.msg = x.msg
  PROVE  Once(J, L, D)
BY DEF Once, Whole

\* With less waiting and more acknowledged the order stays.
LEMMA TurnsShrink ==
  ASSUME NEW I, NEW J, NEW R, NEW K, NEW L, NEW D, NEW skip, NEW skips,
         Turns(I, R, K, D, skip), J \subseteq I, K \subseteq L, skip => skips
  PROVE  Turns(J, R, L, D, skips)
<1>1. PICK q \in [Nat -> Nat] : Expects(R, q) /\ InTurn(I, q, K, D, skip)
  BY DEF Turns
<1>2. InTurn(J, q, L, D, skips)
  BY <1>1 DEF InTurn, Whole
<1> QED
  BY <1>1, <1>2 DEF Turns

\* The item of a chunk that is stored.
Fresh(k) == [msg |-> Chunks[k].msg, sid |-> Chunks[k].sid, ssn |-> Chunks[k].ssn,
             U |-> Chunks[k].U, forwarded |-> FALSE]

\* A chunk that is not acknowledged is of no delivered message.
LEMMA OnceStore ==
  ASSUME NEW I, NEW J, NEW K, NEW L, NEW D, Once(I, K, D), K \subseteq L,
         NEW k \in 1 .. NC, k \notin K, J \subseteq I \cup {Fresh(k)}
  PROVE  Once(J, L, D)
<1>1. Chunks[k].msg \notin D /\ Fresh(k).msg = Chunks[k].msg
  BY DEF Once, Whole, Fresh
<1> QED
  BY <1>1 DEF Once, Whole

\* Its message comes after those expected before.
LEMMA TurnsStore ==
  ASSUME NEW I, NEW J, NEW R, NEW K, NEW L, NEW D, NEW skip,
         Turns(I, R, K, D, skip), K \subseteq L,
         NEW k \in 1 .. NC, k \notin K, J \subseteq I \cup {Fresh(k)}
  PROVE  Turns(J, Mapped(R, Chunks[k].sid), L, D, skip)
<1> DEFINE m == Chunks[k].msg
           y == Fresh(k)
<1>1. PICK q \in [Nat -> Nat] : Expects(R, q) /\ InTurn(I, q, K, D, skip)
  BY DEF Turns
<1>2. /\ m \in Messages /\ y.msg = m /\ y.sid = Msgs[m].sid /\ y.U = Msgs[m].unordered
      /\ y.forwarded = FALSE /\ (~y.U => y.ssn = Ssn(m)) /\ Chunks[k].sid = Msgs[m].sid
  BY MessageOf DEF Fresh
<1>3. Genuine(y)
  BY <1>2 DEF Genuine
<1>4. Msgs[m].sid \in Nat /\ Rank(m) \in Nat
  BY <1>2, RankType
<1>5. ~Msgs[m].unordered => ~(Rank(m) < q[Msgs[m].sid])
  BY <1>1, <1>2 DEF InTurn, Whole
<1>6. ASSUME NEW d \in D, SameStream(d, m) PROVE d < m
  <2>1. d \in Messages /\ Rank(d) < q[Msgs[m].sid] /\ ~Msgs[m].unordered
    BY <1>1, <1>6 DEF InTurn, SameStream
  <2>2. Rank(d) \in Nat /\ q[Msgs[m].sid] \in Nat
    BY <1>4, <2>1, RankType
  <2>3. Rank(d) < Rank(m)
    BY <1>4, <1>5, <2>1, <2>2
  <2> QED
    BY <1>2, <1>6, <2>1, <2>3, RankOrder
<1>7. InTurn(J, q, L, D, skip)
  <2> HIDE DEF m, y
  <2>1. \A x \in J : x \in I \/ x = y
    BY DEF y
  <2>2. \A x \in J : Genuine(x) /\ (~x.U => (x.forwarded <=> Rank(x.msg) < q[x.sid]))
    BY <1>1, <1>2, <1>3, <1>5, <2>1 DEF InTurn
  <2>3. \A x \in J, d \in D : SameStream(d, x.msg) => d < x.msg
    BY <1>1, <1>2, <1>6, <2>1 DEF InTurn
  <2> QED
    BY <1>1, <2>2, <2>3 DEF InTurn, Whole
<1>8. Expects(Mapped(R, Msgs[m].sid), q)
  BY <1>1, <1>4, ExpectsMapped
<1> QED
  BY <1>2, <1>7, <1>8 DEF Turns

\* Comparing the SSNs of two messages of a stream compares them.
LEMMA SsnMessages ==
  ASSUME NEW x \in Messages, NEW m \in Messages, SameStream(x, m)
  PROVE  SsnDiff(Ssn(x), Ssn(m)) < 0 <=> x < m
<1> DEFINE sid == Msgs[m].sid
<1>1. /\ Rank(x) \in Nat /\ Rank(m) \in Nat /\ sid \in Nat /\ Msgs[x].sid = sid
      /\ Rank(x) <= Cardinality(OnStream(sid)) /\ Rank(m) <= Cardinality(OnStream(sid))
      /\ Ssn(x) = Plus(InitSsn, Rank(x), SSN_MOD) /\ Ssn(m) = Plus(InitSsn, Rank(m), SSN_MOD)
  BY RankType DEF SameStream
<1> HIDE DEF sid
<1>2. Cardinality(OnStream(sid)) \in Nat
  BY <1>1, StreamCount
<1>3. Rank(x) \in 0 .. Cardinality(OnStream(sid)) /\ Rank(m) \in 0 .. Cardinality(OnStream(sid))
  BY <1>1, <1>2
<1>4. SsnDiff(Ssn(x), Ssn(m)) = Rank(x) - Rank(m)
  BY <1>1, <1>3, SsnOrder
<1>5. (Rank(x) - Rank(m) < 0) <=> (Rank(x) < Rank(m))
  BY <1>1
<1> QED
  BY <1>4, <1>5, RankOrder

\* The SSN after one, and the message that has the SSN expected next.
LEMMA SsnNext ==
  ASSUME NEW n \in Nat
  PROVE  Plus(Plus(InitSsn, n, SSN_MOD), 1, SSN_MOD) = Plus(InitSsn, n + 1, SSN_MOD)
<1> DEFINE x == InitSsn + n
<1>1. /\ x \in Int /\ SSN_MOD \in Nat /\ SSN_MOD > 0 /\ InitSsn + (n + 1) = x + 1
  BY RecvSizes
<1> HIDE DEF x
<1>2. \A d \in Int : ((x % SSN_MOD) + d) % SSN_MOD = (x + d) % SSN_MOD
  BY <1>1, ModAdd
<1>3. ((x % SSN_MOD) + 1) % SSN_MOD = (x + 1) % SSN_MOD
  BY <1>2
<1> QED
  BY <1>1, <1>3 DEF Plus, x

\* A message has the SSN expected next just if it is the next of its stream.
LEMMA SsnExpected ==
  ASSUME NEW m \in Messages, NEW r \in 0 .. Cardinality(OnStream(Msgs[m].sid)),
         Ssn(m) = Plus(InitSsn, r, SSN_MOD)
  PROVE  Rank(m) = r
<1> DEFINE sid == Msgs[m].sid
           C == Cardinality(OnStream(sid))
<1>1. Rank(m) \in Nat /\ sid \in Nat /\ Rank(m) <= C /\ Ssn(m) = Plus(InitSsn, Rank(m), SSN_MOD)
  BY RankType
<1>2. C \in Nat
  BY <1>1, StreamCount
<1> HIDE DEF C
<1>3. Rank(m) \in 0 .. C
  BY <1>1, <1>2
<1>4. /\ SsnDiff(Plus(InitSsn, Rank(m), SSN_MOD), Plus(InitSsn, r, SSN_MOD)) = Rank(m) - r
      /\ SsnDiff(Plus(InitSsn, r, SSN_MOD), Plus(InitSsn, r, SSN_MOD)) = r - r
  BY <1>1, <1>3, SsnOrder DEF C
<1>5. Rank(m) - r = r - r
  BY <1>1, <1>4
<1> QED
  BY <1>1, <1>2, <1>5 DEF C

\* What is delivered is acknowledged whole and waits no more.
LEMMA OnceDeliver ==
  ASSUME NEW I, NEW J, NEW K, NEW L, NEW D, Once(I, K, D), K \subseteq L, NEW m, Whole(K, m),
         \A y \in J : y \in I /\ y.msg # m
  PROVE  Once(J, L, D \cup {m})
BY DEF Once, Whole

\* Item x is next on its stream.
NextOf(I, R, x) ==
    \/ x.U
    \/ /\ x.forwarded \/ (x.sid \in DOMAIN R /\ x.ssn = R[x.sid])
       /\ \A y \in I : y.sid = x.sid /\ y.forwarded => ~(SsnDiff(y.ssn, x.ssn) < 0)

\* It precedes everything else that waits on the stream.
LEMMA NextPrecedes ==
  ASSUME NEW I, NEW R, NEW K, NEW D, NEW skip, NEW q \in [Nat -> Nat], Expects(R, q),
         InTurn(I, q, K, D, skip), NEW x \in I, NextOf(I, R, x)
  PROVE  /\ ~x.U /\ ~x.forwarded => Rank(x.msg) = q[x.sid]
         /\ \A y \in I : SameStream(x.msg, y.msg) /\ y.msg # x.msg => x.msg < y.msg
<1> DEFINE m == x.msg
           sid == x.sid
           r == q[sid]
<1>1. Genuine(x) /\ (~x.U => (x.forwarded <=> Rank(m) < r))
  BY DEF InTurn
<1>2. m \in Messages /\ sid = Msgs[m].sid /\ sid \in Nat /\ Rank(m) \in Nat
  BY <1>1, RankType DEF Genuine
<1>3. r \in Nat /\ r \in 0 .. Cardinality(OnStream(sid))
  BY <1>2 DEF Expects
<1>4. ASSUME ~x.U, ~x.forwarded PROVE Rank(m) = r
  <2>1. sid \in DOMAIN R /\ Ssn(m) = R[sid]
    BY <1>1, <1>4 DEF NextOf, Genuine
  <2>2. R[sid] = Plus(InitSsn, r, SSN_MOD)
    BY <1>2, <2>1 DEF Expects
  <2> QED
    BY <1>2, <1>3, <2>1, <2>2, SsnExpected
<1>5. ASSUME NEW y \in I, SameStream(m, y.msg), y.msg # m PROVE m < y.msg
  <2>1. Genuine(y) /\ (~y.U => (y.forwarded <=> Rank(y.msg) < q[y.sid]))
    BY DEF InTurn
  <2>2. y.msg \in Messages /\ y.sid = sid /\ ~y.U /\ ~x.U /\ y.ssn = Ssn(y.msg) /\ x.ssn = Ssn(m)
    BY <1>1, <1>2, <1>5, <2>1 DEF Genuine, SameStream
  <2>3. Rank(y.msg) \in Nat /\ y.msg \in Int /\ m \in Int /\ SameStream(y.msg, m)
    <3>1. Rank(y.msg) \in Nat
      BY <2>2, RankType
    <3>2. \A z \in Messages : z \in Int
      BY DEF Messages
    <3>3. SameStream(y.msg, m)
      BY <1>5 DEF SameStream
    <3> QED
      BY <1>2, <2>2, <3>1, <3>2, <3>3
  <2>4. CASE y.forwarded
    <3>1. ~(SsnDiff(Ssn(y.msg), Ssn(m)) < 0)
      BY <2>2, <2>4 DEF NextOf
    <3>2. ~(y.msg < m)
      BY <1>2, <2>2, <2>3, <3>1, SsnMessages
    <3> QED
      BY <1>5, <2>3, <3>2
  <2>5. CASE ~y.forwarded
    <3>1. ~(Rank(y.msg) < r) /\ Rank(m) <= r
      BY <1>1, <1>2, <1>3, <1>4, <2>1, <2>2, <2>5
    <3>2. ~(Rank(y.msg) < Rank(m))
      BY <1>2, <1>3, <2>3, <3>1
    <3>3. ~(y.msg < m)
      BY <1>2, <2>2, <2>3, <3>2, RankOrder
    <3> QED
      BY <1>5, <2>3, <3>3
  <2> QED
    BY <2>4, <2>5
<1> QED
  BY <1>4, <1>5

\* The table of SSNs after a delivery of x.
Advanced(R, x) == IF x.U \/ x.forwarded THEN R
                  ELSE [R EXCEPT ![x.sid] = Plus(@, 1, SSN_MOD)]

\* The items in J are those of I without message m.
Without(I, J, m) == \A y \in J : y \in I /\ y.msg # m

\* Message m comes after those of D on its stream, and after all before it unless some are
\* skipped.
Comes(m, D, skip) ==
    /\ \A d \in D : SameStream(d, m) => d < m
    /\ ~skip => \A z \in Messages : z < m /\ SameStream(z, m) => z \in D

\* Delivering the message that is next keeps the order; it comes after those delivered on its
\* stream, and after all before it unless some were skipped.
LEMMA TurnsDeliver ==
  ASSUME NEW I, NEW J, NEW R, NEW K, NEW L, NEW D, NEW skip, Turns(I, R, K, D, skip),
         K \subseteq L, NEW x \in I, NextOf(I, R, x), Whole(K, x.msg),
         Without(I, J, x.msg)
  PROVE  Turns(J, Advanced(R, x), L, D \cup {x.msg}, skip) /\ Comes(x.msg, D, skip)
<1> DEFINE m == x.msg
           sid == x.sid
           E == D \cup {m}
<1>0. \A y \in J : y \in I /\ y.msg # m
  BY DEF Without
<1>1. PICK q \in [Nat -> Nat] : Expects(R, q) /\ InTurn(I, q, K, D, skip)
  BY DEF Turns
<1> DEFINE r == q[sid]
<1>2. /\ ~x.U /\ ~x.forwarded => Rank(m) = r
      /\ \A y \in I : SameStream(m, y.msg) /\ y.msg # m => m < y.msg
  BY <1>1, NextPrecedes
<1>3. Genuine(x) /\ (~x.U => (x.forwarded <=> Rank(m) < r))
  BY <1>1 DEF InTurn
<1>4. /\ m \in Messages /\ sid = Msgs[m].sid /\ x.U = Msgs[m].unordered /\ sid \in Nat
      /\ Rank(m) \in Nat /\ r \in Nat
  BY <1>1, <1>3, RankType DEF Genuine
<1>5. \A y \in J, d \in E : SameStream(d, y.msg) => d < y.msg
  BY <1>0, <1>1, <1>2 DEF InTurn
<1>6. \A d \in D : SameStream(d, m) => d < m
  BY <1>1 DEF InTurn
<1>7. ASSUME ~skip, NEW z \in Messages, z < m, SameStream(z, m) PROVE z \in D
  <2>1. Rank(z) < Rank(m) /\ Rank(z) \in Nat /\ ~Msgs[z].unordered /\ Msgs[z].sid = sid /\ ~x.U
    BY <1>4, <1>7, RankOrder, RankType DEF SameStream
  <2>2. Rank(m) <= r
    BY <1>2, <1>3, <1>4, <2>1
  <2>3. Rank(z) < r
    BY <1>4, <2>1, <2>2
  <2> QED
    BY <1>1, <1>7, <2>1, <2>3 DEF InTurn
<1>8. Turns(J, Advanced(R, x), L, E, skip)
  <2>1. CASE x.U \/ x.forwarded
    <3>1. InTurn(J, q, L, E, skip)
      <4>1. \A y \in J : Genuine(y) /\ (~y.U => (y.forwarded <=> Rank(y.msg) < q[y.sid]))
        BY <1>0, <1>1 DEF InTurn
      <4>2. \A z \in Messages : ~Msgs[z].unordered /\ Rank(z) < q[Msgs[z].sid] =>
                                  Whole(L, z) /\ (skip \/ z \in E)
        BY <1>1 DEF InTurn, Whole
      <4>3. \A d \in E : d \in Messages /\ (~Msgs[d].unordered => Rank(d) < q[Msgs[d].sid])
        BY <1>1, <1>3, <1>4, <2>1 DEF InTurn
      <4> QED
        BY <1>5, <4>1, <4>2, <4>3 DEF InTurn
    <3>2. Advanced(R, x) = R
      BY <2>1 DEF Advanced
    <3> QED
      BY <1>1, <3>1, <3>2 DEF Turns
  <2>2. CASE ~x.U /\ ~x.forwarded
    <3> DEFINE p == [q EXCEPT ![sid] = r + 1]
               T == Advanced(R, x)
    <3>1. Rank(m) = r /\ r < Cardinality(OnStream(sid)) /\ Cardinality(OnStream(sid)) \in Nat
      BY <1>2, <1>4, <2>2, RankType, StreamCount
    <3>2. sid \in DOMAIN R /\ R[sid] = Plus(InitSsn, r, SSN_MOD)
      BY <1>1, <1>4, <2>2 DEF NextOf, Expects
    <3>3. p \in [Nat -> Nat] /\ p[sid] = r + 1 /\ \A y \in Nat : y # sid => p[y] = q[y]
      BY <1>1, <1>4
    <3>4. /\ DOMAIN T = DOMAIN R /\ T[sid] = Plus(InitSsn, r + 1, SSN_MOD)
          /\ \A y \in DOMAIN R : y # sid => T[y] = R[y]
      <4>1. T = [R EXCEPT ![sid] = Plus(R[sid], 1, SSN_MOD)]
        BY <2>2 DEF Advanced
      <4>2. Plus(R[sid], 1, SSN_MOD) = Plus(InitSsn, r + 1, SSN_MOD)
        BY <1>4, <3>2, SsnNext
      <4> QED
        BY <3>2, <4>1, <4>2
    <3> HIDE DEF p, T
    <3>5. Expects(T, p)
      <4> SUFFICES ASSUME NEW y \in Nat
                   PROVE  /\ p[y] \in 0 .. Cardinality(OnStream(y))
                          /\ IF y \in DOMAIN T THEN T[y] = Plus(InitSsn, p[y], SSN_MOD)
                             ELSE p[y] = 0
        BY DEF Expects
      <4>1. CASE y = sid
        <5>1. r + 1 \in 0 .. Cardinality(OnStream(sid))
          BY <1>4, <3>1
        <5> QED
          BY <3>2, <3>3, <3>4, <4>1, <5>1
      <4>2. CASE y # sid
        <5>1. /\ q[y] \in 0 .. Cardinality(OnStream(y))
              /\ IF y \in DOMAIN R THEN R[y] = Plus(InitSsn, q[y], SSN_MOD) ELSE q[y] = 0
          BY <1>1 DEF Expects
        <5> QED
          BY <3>3, <3>4, <4>2, <5>1
      <4> QED
        BY <4>1, <4>2
    <3>6. ASSUME NEW y \in J
          PROVE  Genuine(y) /\ (~y.U => (y.forwarded <=> Rank(y.msg) < p[y.sid]))
      <4>1. y \in I /\ y.msg # m /\ Genuine(y) /\ (~y.U => (y.forwarded <=> Rank(y.msg) < q[y.sid]))
        BY <1>0, <1>1 DEF InTurn
      <4>2. /\ y.msg \in Messages /\ y.sid = Msgs[y.msg].sid /\ y.sid \in Nat
            /\ y.U = Msgs[y.msg].unordered /\ Rank(y.msg) \in Nat
        BY <4>1, RankType DEF Genuine
      <4>3. CASE y.sid = sid /\ ~y.U
        <5>1. SameStream(m, y.msg)
          BY <1>4, <2>2, <4>2, <4>3 DEF SameStream
        <5>2. Rank(m) < Rank(y.msg)
          BY <1>2, <1>4, <4>1, <4>2, <5>1, RankOrder
        <5>3. ~(Rank(y.msg) < r) /\ ~(Rank(y.msg) < r + 1)
          BY <1>4, <3>1, <4>2, <5>2
        <5> QED
          BY <3>3, <4>1, <4>3, <5>3
      <4>4. CASE y.sid # sid \/ y.U
        BY <3>3, <4>1, <4>2, <4>4
      <4> QED
        BY <4>3, <4>4
    <3>7. ASSUME NEW z \in Messages, ~Msgs[z].unordered, Rank(z) < p[Msgs[z].sid]
          PROVE  Whole(L, z) /\ (skip \/ z \in E)
      <4>1. Rank(z) \in Nat /\ Msgs[z].sid \in Nat
        BY RankType
      <4>2. CASE Rank(z) < q[Msgs[z].sid]
        BY <1>1, <3>7, <4>2 DEF InTurn, Whole
      <4>3. CASE ~(Rank(z) < q[Msgs[z].sid])
        <5>1. Msgs[z].sid = sid
          BY <3>3, <3>7, <4>1, <4>3
        <5>2. Rank(z) = Rank(m)
          BY <1>4, <3>1, <3>3, <3>7, <4>1, <4>3, <5>1
        <5>3. SameStream(z, m) /\ SameStream(m, z)
          BY <1>4, <2>2, <3>7, <5>1 DEF SameStream
        <5>4. ~(z < m) /\ ~(m < z)
          BY <1>4, <4>1, <5>2, <5>3, RankOrder
        <5>5. \A y \in Messages : y \in Int
          BY DEF Messages
        <5>6. z = m
          BY <1>4, <3>7, <5>4, <5>5
        <5> QED
          BY <5>6 DEF Whole
      <4> QED
        BY <4>2, <4>3
    <3>8. ASSUME NEW d \in E
          PROVE  d \in Messages /\ (~Msgs[d].unordered => Rank(d) < p[Msgs[d].sid])
      <4>1. CASE d \in D
        <5>1. d \in Messages /\ (~Msgs[d].unordered => Rank(d) < q[Msgs[d].sid])
          BY <1>1, <4>1 DEF InTurn
        <5>2. Rank(d) \in Nat /\ Msgs[d].sid \in Nat
          BY <5>1, RankType
        <5>3. Rank(d) < r => Rank(d) < r + 1
          BY <1>4, <5>2
        <5> QED
          BY <3>3, <5>1, <5>2, <5>3
      <4>2. CASE d = m
        <5>1. r < r + 1
          BY <1>4
        <5> QED
          BY <1>4, <3>1, <3>3, <4>2, <5>1
      <4> QED
        BY <4>1, <4>2
    <3>9. InTurn(J, p, L, E, skip)
      BY <1>5, <3>6, <3>7, <3>8 DEF InTurn
    <3> QED
      BY <3>3, <3>5, <3>9 DEF Turns, T
  <2> QED
    BY <2>1, <2>2
<1> QED
  BY <1>6, <1>7, <1>8 DEF Comes

\* The step from s to t leaves the expected SSNs alone and adds no message.
Fewer(s, t) == t.recv_ssn = s.recv_ssn /\ Items(t) \subseteq Items(s)

\* Such steps compose.
LEMMA FewerTrans ==
  ASSUME NEW s, NEW t, NEW u, Fewer(s, t), Fewer(t, u)
  PROVE  Fewer(s, u)
BY DEF Fewer

\* Entries that stay or go make a step of this kind.
LEMMA SlotwiseFewer ==
  ASSUME NEW s, NEW t, t.recv_ssn = s.recv_ssn,
         \A j \in Live(t) : j \in Live(s) /\ Item(t.recv_gap[j]) = Item(s.recv_gap[j])
  PROVE  Fewer(s, t)
BY DEF Fewer, Items

\* An entry of the same fields has the same item.
LEMMA SameItem ==
  ASSUME NEW s \in State, NEW t, NEW j \in Slots, SameEntry(s, t, j)
  PROVE  Item(t.recv_gap[j]) = Item(s.recv_gap[j])
<1>1. /\ t.recv_gap[j].msg = s.recv_gap[j].msg /\ t.recv_gap[j].sid = s.recv_gap[j].sid
      /\ t.recv_gap[j].ssn = s.recv_gap[j].ssn /\ t.recv_gap[j].U = s.recv_gap[j].U
      /\ t.recv_gap[j].forwarded = s.recv_gap[j].forwarded
  BY SameEntryFields
<1> QED
  BY <1>1 DEF Item

\* nsctp_rx_reclaim adds none.
LEMMA ReclaimFewer ==
  ASSUME NEW s \in RxStates
  PROVE  Fewer(s, nsctp_rx_reclaim(s))
<1> DEFINE t == nsctp_rx_reclaim(s)
<1>1. Reclaimed(s, t) /\ s \in State
  BY ReclaimOK DEF RxStates
<1> HIDE DEF t
<1>2. ASSUME NEW j \in Live(t) PROVE j \in Live(s) /\ Item(t.recv_gap[j]) = Item(s.recv_gap[j])
  <2>1. j \in Live(s) /\ j \in Slots /\ SameEntry(s, t, j)
    BY <1>1, StateParts DEF Reclaimed
  <2> QED
    BY <1>1, <2>1, SameItem
<1>3. t.recv_ssn = s.recv_ssn
  BY <1>1 DEF Reclaimed
<1>4. Fewer(s, t)
  BY <1>2, <1>3, SlotwiseFewer
<1> QED
  BY <1>4 DEF t

\* Two merged fragments are of one message; what is left says of it what one of them said.
LEMMA JoinedItem ==
  ASSUME NEW s \in State, NEW i \in Slots, NEW j \in Slots,
         nsctp_fragments_follow(s.recv_gap[i], s.recv_gap[j])
  PROVE  \/ Item(JoinedEntry(s, i, j, 0)) = Item(s.recv_gap[i])
         \/ Item(JoinedEntry(s, i, j, 0)) = Item(s.recv_gap[j])
<1> DEFINE d == s.recv_gap[i]
           e == s.recv_gap[j]
           x == JoinedEntry(s, i, j, 0)
<1>1. d \in Entry /\ e \in Entry /\ nsctp_fragments_follow(d, e)
  BY StateParts
<1>2. x = [d EXCEPT !.off = 0, !.len = d.len + e.len, !.tsn = e.tsn, !.E = e.E,
                    !.forwarded = d.forwarded \/ e.forwarded]
  BY DEF JoinedEntry
<1> HIDE DEF d, e, x
<1>3. /\ x.msg = d.msg /\ x.sid = d.sid /\ x.ssn = d.ssn /\ x.U = d.U
      /\ x.forwarded = (d.forwarded \/ e.forwarded)
  BY <1>1, <1>2 DEF Entry
<1>4. d.forwarded \in BOOLEAN /\ e.forwarded \in BOOLEAN
  BY <1>1 DEF Entry
<1>5. d.msg = e.msg /\ d.sid = e.sid /\ d.ssn = e.ssn /\ d.U = e.U
  BY <1>1 DEF nsctp_fragments_follow
<1>6. x.forwarded = d.forwarded \/ x.forwarded = e.forwarded
  BY <1>3, <1>4
<1> QED
  BY <1>3, <1>5, <1>6 DEF Item, d, e, x

\* A merge adds no message.
LEMMA MergeOnceFewer ==
  ASSUME NEW s \in RxStates
  PROVE  Fewer(s, MergeOnce(s))
<1>0. s \in State
  BY DEF RxStates
<1>1. CASE MergeOnce(s) = s
  BY <1>1 DEF Fewer
<1>2. CASE \E i, j \in Slots : Mergeable(s, i, j) /\ MergeOnce(s) = MergedPair(s, i, j)
  <2>1. PICK i \in Slots, j \in Slots : Mergeable(s, i, j) /\ MergeOnce(s) = MergedPair(s, i, j)
    BY <1>2
  <2> DEFINE t == MergedPair(s, i, j)
  <2>2. s.recv_gap[i] \in Entry /\ s.recv_gap[j] \in Entry
    BY <1>0, StateParts
  <2>3. /\ i \in Live(s) /\ j \in Live(s)
        /\ nsctp_fragments_follow(s.recv_gap[i], s.recv_gap[j])
    BY <2>1 DEF Mergeable
  <2>4. i # j
    BY <2>2, <2>3, FollowDistinct
  <2>5. ~s.recv_gap[i].E
    BY <2>3 DEF nsctp_fragments_follow
  <2>6. MergedInto(s, i, j, t)
    BY <2>3, <2>4, <2>5, MergePair
  <2> HIDE DEF t
  <2>7. /\ Live(t) = Live(s) \ {j} /\ t.recv_gap[i] = JoinedEntry(s, i, j, 0)
        /\ \A k \in Valid(s) \ {i, j} : SameEntry(s, t, k)
        /\ t.recv_ssn = s.recv_ssn
    BY <2>6 DEF MergedInto
  <2>8. Item(t.recv_gap[i]) \in Items(s)
    BY <1>0, <2>3, <2>7, JoinedItem DEF Items
  <2>9. ASSUME NEW k \in Live(t) PROVE Item(t.recv_gap[k]) \in Items(s)
    <3>1. CASE k = i
      BY <2>8, <3>1
    <3>2. CASE k # i
      <4>1. k \in Live(s) /\ k \in Slots /\ k \in Valid(s) \ {i, j}
        BY <1>0, <2>7, <3>2, StateParts
      <4>2. Item(t.recv_gap[k]) = Item(s.recv_gap[k])
        BY <1>0, <2>7, <4>1, SameItem
      <4> QED
        BY <4>1, <4>2 DEF Items
    <3> QED
      BY <3>1, <3>2
  <2>10. Fewer(s, t)
    BY <2>7, <2>9 DEF Fewer, Items
  <2> QED
    BY <2>1, <2>10 DEF t
<1> QED
  BY <1>0, <1>1, <1>2, MergeChoice

\* Nor does nsctp_rx_merge.
LEMMA MergeFewer ==
  ASSUME NEW s \in RxStates
  PROVE  Fewer(s, nsctp_rx_merge(s))
<1> DEFINE N == MAX_RECV_GAP
           R == {q \in RxStates : Fewer(s, q)}
           m == CHOOSE m : m = [n \in 0 .. N |-> IF n = 0 THEN s ELSE MergeOnce(m[n - 1])]
<1>1. N \in Nat /\ s \in R
  BY RecvSizes DEF Fewer
<1>2. \A q \in R, k \in 1 .. N : MergeAgain(q, k) \in R
  <2> SUFFICES ASSUME NEW q \in R PROVE MergeOnce(q) \in R
    BY DEF MergeAgain
  <2>1. q \in RxStates /\ Fewer(s, q)
    OBVIOUS
  <2>2. MergeOnce(q) \in RxStates /\ Fewer(q, MergeOnce(q))
    BY <2>1, MergeOnceOK, MergeOnceFewer
  <2> QED
    BY <2>1, <2>2, FewerTrans
<1> HIDE DEF N, R
<1>3. /\ \E h : MergeLoop!Iterates(h, s, N)
      /\ \A h : MergeLoop!Iterates(h, s, N) => h[N] \in R
  BY <1>1, <1>2, MergeWellOrdered, MergeLoop!IterationInvariant
<1>4. \A h : MergeLoop!Iterates(h, s, N) <=>
             h = [n \in 0 .. N |-> IF n = 0 THEN s ELSE MergeOnce(h[n - 1])]
  BY DEF MergeLoop!Iterates, MergeAgain
<1>5. m = [n \in 0 .. N |-> IF n = 0 THEN s ELSE MergeOnce(m[n - 1])]
  BY <1>3, <1>4
<1>6. nsctp_rx_merge(s) = m[N]
  BY DEF nsctp_rx_merge, N
<1> HIDE DEF m
<1>7. nsctp_rx_merge(s) \in R
  BY <1>3, <1>4, <1>5, <1>6
<1> QED
  BY <1>7 DEF R

\* Nor does a change that leaves the table alone.
LEMMA SameFewer ==
  ASSUME NEW s, NEW t, t.recv_gap = s.recv_gap, t.recv_ssn = s.recv_ssn
  PROVE  Fewer(s, t)
<1>1. Live(t) = Live(s)
  BY DEF Live, Valid
<1> QED
  BY <1>1 DEF Fewer, Items

\* Nor does nsctp_gap_drain.
LEMMA DrainFewer ==
  ASSUME NEW s \in RxStates
  PROVE  Fewer(s, nsctp_gap_drain(s))
<1> DEFINE x == Plus(s.cumulative_tsn, ContiguousRun(s), TSN_MOD)
           t == [s EXCEPT !.cumulative_tsn = x]
<1>0. s \in State
  BY DEF RxStates
<1>1. x \in 0 .. TSN_MOD - 1
  <2>1. s.cumulative_tsn \in Int /\ ContiguousRun(s) \in Int
    BY <1>0, StateParts, RunType
  <2> QED
    BY <2>1, PlusTsn
<1>2. nsctp_gap_drain(s) = nsctp_rx_reclaim(t)
  BY DEF nsctp_gap_drain
<1> HIDE DEF x
<1>3. t \in State /\ t.recv_gap = s.recv_gap /\ t.recv_gap_buf = s.recv_gap_buf
      /\ t.recv_gap_count = s.recv_gap_count /\ t.recv_ssn = s.recv_ssn
  BY <1>0, <1>1 DEF State
<1> HIDE DEF t
<1>4. t \in RxStates
  BY <1>0, <1>3, SameTable, RelabelOK
<1>5. Fewer(s, t) /\ Fewer(t, nsctp_rx_reclaim(t))
  BY <1>3, <1>4, SameFewer, ReclaimFewer
<1> QED
  BY <1>2, <1>5, FewerTrans

\* The step from s to t adds at most the message of chunk k, and maps its stream.
Grown(s, t, k) ==
    /\ t.recv_ssn = Mapped(s.recv_ssn, Chunks[k].sid)
    /\ Items(t) \subseteq Items(s) \cup {Fresh(k)}

\* nsctp_stream maps the stream in the table.
LEMMA StreamMapped ==
  ASSUME NEW s \in State, NEW sid
  PROVE  nsctp_stream(s, sid).recv_ssn = Mapped(s.recv_ssn, sid)
<1>1. CASE sid \in DOMAIN s.recv_ssn
  BY <1>1 DEF nsctp_stream, StreamKnown, Mapped
<1>2. CASE sid \notin DOMAIN s.recv_ssn
  <2> DEFINE h == Mapped(s.recv_ssn, sid)
  <2>1. nsctp_stream(s, sid) = [s EXCEPT !.recv_ssn = h]
    BY <1>2 DEF nsctp_stream, StreamKnown, Mapped
  <2> HIDE DEF h
  <2>2. nsctp_stream(s, sid).recv_ssn = h
    BY <2>1 DEF State
  <2> QED
    BY <2>2 DEF h
<1> QED
  BY <1>1, <1>2

\* Storing chunk k adds its message and maps its stream.
LEMMA StoreGrows ==
  ASSUME NEW s \in RxStates, NEW k \in 1 .. NC, NEW tsn, NEW slot,
         StoredIn(s, Chunks[k], tsn, slot, Store(s, Chunks[k], tsn))
  PROVE  Grown(s, Store(s, Chunks[k], tsn), k)
<1> DEFINE c == Chunks[k]
           t == Store(s, c, tsn)
           u == nsctp_stream(s, c.sid)
           e == StoredEntry(s, c, tsn)
<1>0. s \in State /\ c.sid \in Nat
  BY ChunkCount DEF RxStates, Chunk
<1>1. t.recv_ssn = Mapped(s.recv_ssn, c.sid)
  <2>1. u \in State
    BY <1>0, StreamOK
  <2>2. t.recv_ssn = u.recv_ssn
    <3> HIDE DEF u
    <3>1. \A a, b, d : [u EXCEPT !.recv_gap_buf = a, !.recv_gap = b, !.recv_gap_count = d].recv_ssn
                         = u.recv_ssn
      BY <2>1 DEF State
    <3>2. \E a, b, d : t = [u EXCEPT !.recv_gap_buf = a, !.recv_gap = b, !.recv_gap_count = d]
      BY <2>1 DEF Store, State, u
    <3> QED
      BY <3>1, <3>2
  <2> QED
    BY <1>0, <2>2, StreamMapped
<1>2. /\ slot \in Slots \ Valid(s) /\ t.recv_gap = [s.recv_gap EXCEPT ![slot] = e]
  BY DEF StoredIn
<1> HIDE DEF t
<1>3. DOMAIN s.recv_gap = Slots /\ Valid(s) \subseteq Slots
  BY <1>0, StateParts
<1>4. Item(e) = Fresh(k)
  BY DEF Item, Fresh, StoredEntry, NoEntry
<1> HIDE DEF e
<1>5. ASSUME NEW j \in Live(t) PROVE Item(t.recv_gap[j]) \in Items(s) \cup {Fresh(k)}
  <2>1. CASE j = slot
    BY <1>2, <1>3, <1>4, <2>1
  <2>2. CASE j # slot
    <3>1. j \in Slots /\ t.recv_gap[j] = s.recv_gap[j]
      BY <1>2, <1>3, <2>2 DEF Live, Valid
    <3>2. j \in Live(s)
      BY <3>1 DEF Live, Valid
    <3> QED
      BY <3>1, <3>2 DEF Items
  <2> QED
    BY <2>1, <2>2
<1> QED
  BY <1>1, <1>5 DEF Grown, Items, t

\* nsctp_handle_data_chunk adds at most the message of its chunk, and only if the chunk was not
\* acknowledged.
LEMMA DataChunkItems ==
  ASSUME NEW s \in RxStates, NEW f, Spans(f), Filled(s, f), NEW k \in 1 .. NC
  PROVE  LET t == nsctp_handle_data_chunk(s, Chunks[k], TsnOf(k))
         IN Fewer(s, t) \/ (~Acked(s, k) /\ Grown(s, t, k))
<1> DEFINE ch == Chunks[k]
           tsn == TsnOf(k)
           s1 == [s EXCEPT !.sack_needed = TRUE]
           s2 == nsctp_rx_reclaim(s1)
           s3 == Store(s2, ch, tsn)
           t == nsctp_handle_data_chunk(s, ch, tsn)
<1>0. s \in State
  BY DEF RxStates
<1>1. PICK c : FilledTo(s, f, c)
  BY DEF Filled
<1>3. /\ s1 \in State /\ s1.recv_gap = s.recv_gap /\ s1.recv_gap_buf = s.recv_gap_buf
      /\ s1.recv_gap_count = s.recv_gap_count /\ s1.cumulative_tsn = s.cumulative_tsn
      /\ s1.recv_ssn = s.recv_ssn
  BY <1>0 DEF State
<1>4. s1 \in RxStates
  BY <1>0, <1>3, SameTable, RelabelOK
<1>5. \/ t = s
      \/ t = s1
      \/ t = s2
      \/ /\ ~(TsnDiff(tsn, s.cumulative_tsn) <= 0)
         /\ ~Duplicate(s2, tsn)
         /\ ~NoRoom(s2, ch, tsn)
         /\ t = nsctp_rx_merge(nsctp_gap_drain(s3))
  BY Zenon DEF nsctp_handle_data_chunk, s1, s2
<1> HIDE DEF s1, t
<1>6. FilledTo(s1, f, c) /\ Ahead(s, s) /\ Ahead(s, s1) /\ Fewer(s, s1)
  BY <1>1, <1>3, SameFilled, FilledAhead, SameRetains, RetainAfter, SameFewer
<1>7. /\ s2 \in RxStates /\ Ahead(s, s2) /\ Fewer(s, s2)
      /\ s2.cumulative_tsn = s.cumulative_tsn
  <2>1. s2 \in RxStates /\ s2.cumulative_tsn = s1.cumulative_tsn
    BY <1>4, ReclaimOK DEF Reclaimed
  <2>2. Ahead(s, s2)
    BY <1>4, <1>6, ReclaimRetains, RetainAfter
  <2>3. Fewer(s, s2)
    BY <1>4, <1>6, ReclaimFewer, FewerTrans
  <2> QED
    BY <1>3, <2>1, <2>2, <2>3
<1> HIDE DEF s2
<1>8. ASSUME ~(TsnDiff(tsn, s.cumulative_tsn) <= 0), ~Duplicate(s2, tsn), ~NoRoom(s2, ch, tsn),
             t = nsctp_rx_merge(nsctp_gap_drain(s3))
      PROVE  ~Acked(s, k) /\ Grown(s, t, k)
  <2>1. ch \in Chunk /\ tsn \in 0 .. TSN_MOD - 1
    BY ChunkCount, TsnType
  <2>2. Valid(s2) # Slots /\ Len(s2.recv_gap_buf) + Len(ch.payload) <= RECV_GAP_BUF_SIZE
    BY <1>7, <1>8, <2>1, RoomFor
  <2>3. s3 \in RxStates /\ \E slot \in Slots : StoredIn(s2, ch, tsn, slot, s3)
    BY <1>7, <2>1, <2>2, StoreOK
  <2>4. Grown(s2, s3, k)
    BY <1>7, <2>3, StoreGrows
  <2>5. ~Acked(s, k)
    <3>1. ~Acked(s2, k)
      BY <1>7, <1>8 DEF Acked
    <3>2. k \in DOMAIN Chunks
      BY ChunkCount
    <3> QED
      BY <1>7, <3>1, <3>2, AheadAcks
  <2> HIDE DEF s3
  <2>6. nsctp_gap_drain(s3) \in RxStates /\ Fewer(s3, nsctp_gap_drain(s3))
    BY <2>3, DrainOK, DrainFewer
  <2>7. Fewer(s3, t)
    BY <1>8, <2>6, MergeFewer, FewerTrans
  <2> QED
    BY <1>7, <2>4, <2>5, <2>7 DEF Grown, Fewer
<1> QED
  BY <1>5, <1>6, <1>7, <1>8 DEF t, Fewer

\* The chunk that ends a message is its last.
LEMMA EndsMessage ==
  ASSUME NEW k \in 1 .. NC
  PROVE  Chunks[k].E <=> k = Base[Chunks[k].msg + 1]
<1>1. PICK m \in Messages : \E i \in 1 .. Len(Lengths(m)) : k = Base[m] + i
  BY BaseFacts
<1>2. PICK i \in 1 .. Len(Lengths(m)) : k = Base[m] + i
  BY <1>1
<1>3. Chunks[k].msg = m /\ Chunks[k].E = (i = Len(Lengths(m)))
  BY <1>2, ChunkFields
<1>4. Base[m] \in Nat /\ Base[m + 1] = Base[m] + Len(Lengths(m)) /\ Len(Lengths(m)) \in Nat
  BY BaseFacts, MessageFacts
<1>5. k = Base[m + 1] <=> i = Len(Lengths(m))
  BY <1>2, <1>4
<1> QED
  BY <1>3, <1>5

\* The parts of a message that is delivered hold all its chunks.
LEMMA PartsCover ==
  ASSUME NEW s \in RxStates, NEW f, NEW c, NEW lo, NEW hi, Spans(f), Labelled(s, f, lo, hi, c),
         NEW i \in Live(s), s.recv_gap[i].B, Parts(s, i) # <<>>,
         NEW z \in 1 .. NC, Chunks[z].msg = s.recv_gap[i].msg
  PROVE  \E x \in 1 .. Len(Parts(s, i)) : lo[Parts(s, i)[x]] <= z /\ z <= hi[Parts(s, i)[x]]
<1> DEFINE parts == Parts(s, i)
           n == Len(parts)
           m == s.recv_gap[i].msg
           a == lo[i]
           b == hi[i]
           d == hi[parts[n]]
<1>0. s \in State /\ i \in Slots
  BY StateParts DEF RxStates
<1>1. PartLabels(s, f, lo, hi, i, parts)
  BY <1>0, PartsLabelled
<1>2. /\ parts \in Seq(Live(s)) /\ n \in Nat /\ n \in 1 .. n
      /\ s.recv_gap[parts[n]].E
  <2>1. /\ parts \in Seq(Live(s)) /\ n \in 1 .. MAX_RECV_GAP
        /\ \A x \in 1 .. n : s.recv_gap[parts[x]].E <=> x = n
    BY <1>0, PartsFacts
  <2>2. n \in Nat /\ n \in 1 .. n
    BY <2>1, ChunkCount
  <2> QED
    BY <2>1, <2>2
<1> HIDE DEF n
<1>3. parts[n] \in Live(s)
  BY <1>2 DEF n
<1>4. \A j \in Live(s) : /\ lo[j] \in 1 .. NC /\ hi[j] \in 1 .. NC /\ lo[j] <= hi[j]
                         /\ \A y \in lo[j] .. hi[j] : Chunks[y].msg = s.recv_gap[j].msg
                         /\ s.recv_gap[j].B => f[lo[j]] = 0
                         /\ s.recv_gap[j].E <=> Chunks[hi[j]].E
  BY DEF Labelled, Holds
<1>5. parts[1] = i /\ \A x \in 1 .. n : /\ hi[parts[x]] = b + x - 1
                                        /\ x > 1 => lo[parts[x]] = hi[parts[x]]
                                        /\ s.recv_gap[parts[x]].msg = m
  BY <1>1 DEF PartLabels, n
<1> HIDE DEF parts
<1>6. /\ a \in 1 .. NC /\ b \in 1 .. NC /\ a <= b /\ f[a] = 0 /\ Chunks[a].msg = m
      /\ d \in 1 .. NC /\ Chunks[d].E /\ Chunks[d].msg = m /\ d = b + n - 1
  <2>1. a \in a .. b
    BY <1>4
  <2>2. lo[parts[n]] <= d /\ d \in lo[parts[n]] .. d
    BY <1>3, <1>4
  <2>3. Chunks[d].msg = s.recv_gap[parts[n]].msg /\ Chunks[d].E /\ d \in 1 .. NC
    BY <1>2, <1>3, <1>4, <2>2
  <2>4. d = b + n - 1 /\ s.recv_gap[parts[n]].msg = m
    BY <1>2, <1>5
  <2> QED
    BY <1>4, <2>1, <2>3, <2>4
<1> HIDE DEF a, b, d, m
<1>7. m \in Messages /\ Base[m] < z /\ z <= Base[m + 1] /\ Base[m] \in Nat /\ Base[m + 1] \in Nat
      /\ Base[m] < a
  <2>1. Chunks[z].msg = m
    BY DEF m
  <2>2. m \in Messages /\ Base[m] < z /\ z <= Base[m + 1] /\ Base[m] < a
    BY <1>6, <2>1, MessageOf
  <2>3. Base[m] \in Nat /\ Base[m + 1] \in Nat
    <3>1. Base[m] \in Nat /\ Base[m + 1] \in 0 .. NC
      BY <2>2, BaseFacts
    <3>2. \A q \in 0 .. NC : q \in Nat
      OBVIOUS
    <3> QED
      BY <3>1, <3>2
  <2> QED
    BY <2>2, <2>3
<1>8. a = Base[m] + 1
  <2> SUFFICES ASSUME a # Base[m] + 1 PROVE FALSE
    OBVIOUS
  <2>a. a # Base[m] + 1
    OBVIOUS
  <2> DEFINE y == a - 1
  <2>1. y \in 1 .. NC /\ y \in Nat /\ y + 1 = a /\ Base[m] < y /\ y < Base[m + 1]
    <3>1. a <= Base[m + 1]
      BY <1>6, MessageOf
    <3> DEFINE p == Base[m]
               q == Base[m + 1]
    <3>2. p \in Nat /\ q \in Nat /\ p < a /\ a <= q /\ a # p + 1 /\ a \in 1 .. NC /\ NC \in Nat
      BY <1>6, <1>7, <2>a, <3>1, ChunkCount
    <3> HIDE DEF p, q
    <3>3. y \in 1 .. NC /\ y \in Nat /\ y + 1 = a /\ p < y /\ y < q
      BY <3>2
    <3> QED
      BY <3>3 DEF p, q
  <2> HIDE DEF y
  <2>2. Chunks[y].msg = m
    BY <1>7, <2>1, ChunkBetween
  <2>3. ~Chunks[y].E
    <3>1. Chunks[y].E <=> y = Base[Chunks[y].msg + 1]
      BY <2>1, EndsMessage
    <3>2. y # Base[m + 1]
      BY <1>7, <2>1
    <3> QED
      BY <2>2, <3>1, <3>2
  <2>4. f[a] = f[y] + Size(y) /\ f[y] \in Nat /\ Size(y) \in Nat
    BY <2>1, <2>3 DEF Spans
  <2>5. Size(y) > 0
    <3>1. Chunks[y] \in Chunk
      BY <2>1, ChunkCount
    <3>2. Len(Chunks[y].payload) > 0
      BY <2>3, <3>1 DEF Chunk
    <3> QED
      BY <3>2 DEF Size
  <2> QED
    BY <1>6, <2>4, <2>5
<1>9. d = Base[m + 1]
  BY <1>6, EndsMessage
<1>10. CASE z <= b
  <2>1. 1 \in 1 .. n /\ lo[parts[1]] <= z /\ z <= hi[parts[1]]
    BY <1>2, <1>5, <1>6, <1>7, <1>8, <1>10 DEF a, b
  <2> QED
    BY <2>1 DEF n, parts
<1>11. CASE ~(z <= b)
  <2> DEFINE x == z - b + 1
  <2>1. x \in 1 .. n /\ x > 1 /\ b + x - 1 = z
    BY <1>2, <1>6, <1>7, <1>9, <1>11
  <2> HIDE DEF x
  <2>2. lo[parts[x]] = z /\ hi[parts[x]] = z
    BY <1>5, <2>1
  <2>3. lo[parts[x]] <= z /\ z <= hi[parts[x]]
    BY <1>6, <2>2
  <2> QED
    BY <2>1, <2>3 DEF n, parts
<1> QED
  BY <1>10, <1>11

\* A message that is complete is acknowledged whole, and only its parts are entries of it.
LEMMA PartsWhole ==
  ASSUME NEW s \in RxStates, NEW f, Spans(f), Filled(s, f), NEW i \in Live(s),
         s.recv_gap[i].B, Parts(s, i) # <<>>
  PROVE  /\ Whole(Acks(s), s.recv_gap[i].msg)
         /\ \A j \in Live(s) : s.recv_gap[j].msg = s.recv_gap[i].msg =>
              \E x \in 1 .. Len(Parts(s, i)) : Parts(s, i)[x] = j
<1> DEFINE parts == Parts(s, i)
           n == Len(parts)
           m == s.recv_gap[i].msg
<1>0. s \in State /\ i \in Slots
  BY StateParts DEF RxStates
<1>1. PICK c : FilledTo(s, f, c)
  BY DEF Filled
<1>2. PICK lo \in [Slots -> Nat], hi \in [Slots -> Nat] : Labelled(s, f, lo, hi, c)
  BY <1>1 DEF FilledTo
<1>3. \A z \in 1 .. NC : Chunks[z].msg = m =>
        \E x \in 1 .. n : lo[parts[x]] <= z /\ z <= hi[parts[x]]
  BY <1>2, PartsCover
<1>4. parts \in Seq(Live(s)) /\ \A x \in 1 .. n : parts[x] \in Live(s)
  BY <1>0, PartsFacts
<1> HIDE DEF parts, n
<1>5. \A j \in Live(s) : /\ lo[j] \in 1 .. NC /\ hi[j] \in 1 .. NC /\ lo[j] <= hi[j]
                         /\ s.recv_gap[j].tsn = TsnOf(hi[j])
                         /\ \A y \in lo[j] .. hi[j] : Chunks[y].msg = s.recv_gap[j].msg
                         /\ lo[j] < hi[j] => hi[j] <= c
  BY <1>2 DEF Labelled, Holds
<1>6. /\ c \in 0 .. NC /\ s.cumulative_tsn = TsnOf(c) /\ Live(s) \subseteq Valid(s)
      /\ \A j, l \in Live(s) : j # l => hi[j] < lo[l] \/ hi[l] < lo[j]
  BY <1>2 DEF Labelled, Live
<1> HIDE DEF m
<1>7. ASSUME NEW z \in 1 .. NC, Chunks[z].msg = m PROVE Acked(s, z)
  <2>1. PICK x \in 1 .. n : lo[parts[x]] <= z /\ z <= hi[parts[x]]
    BY <1>3, <1>7
  <2> DEFINE j == parts[x]
             p == lo[j]
             q == hi[j]
  <2>2. /\ j \in Live(s) /\ j \in Valid(s) /\ p \in 1 .. NC /\ q \in 1 .. NC /\ p <= z /\ z <= q
        /\ s.recv_gap[j].tsn = TsnOf(q) /\ (p < q => q <= c)
    BY <1>4, <1>5, <1>6, <2>1
  <2> HIDE DEF p, q, j
  <2>3. CASE z = q
    BY <2>2, <2>3 DEF Acked, Duplicate
  <2>4. CASE z # q
    <3>1. z <= c /\ z \in 0 .. NC /\ z - c <= 0
      BY <1>6, <2>2, <2>4, ChunkCount
    <3>2. TsnDiff(TsnOf(z), TsnOf(c)) = z - c
      BY <1>6, <3>1, TsnOrder
    <3> QED
      BY <1>6, <3>1, <3>2 DEF Acked
  <2> QED
    BY <2>3, <2>4
<1>8. ASSUME NEW j \in Live(s), s.recv_gap[j].msg = m PROVE \E x \in 1 .. n : parts[x] = j
  <2> DEFINE p == lo[j]
             z == hi[j]
  <2>1. p \in 1 .. NC /\ z \in 1 .. NC /\ p <= z /\ z \in p .. z /\ Chunks[z].msg = m
    <3>1. lo[j] \in 1 .. NC /\ hi[j] \in 1 .. NC /\ lo[j] <= hi[j]
      BY <1>5
    <3>2. hi[j] \in lo[j] .. hi[j]
      BY <3>1
    <3> QED
      BY <1>5, <1>8, <3>1, <3>2
  <2>2. PICK x \in 1 .. n : lo[parts[x]] <= z /\ z <= hi[parts[x]]
    BY <1>3, <2>1
  <2> DEFINE l == parts[x]
             a == lo[l]
             b == hi[l]
  <2>3. l \in Live(s) /\ a \in 1 .. NC /\ b \in 1 .. NC /\ a <= z /\ z <= b
        /\ (l # j => b < p \/ z < a)
    BY <1>4, <1>5, <1>6, <2>2
  <2> HIDE DEF a, b, l, p, z
  <2>4. l = j
    BY <2>1, <2>3
  <2> QED
    BY <2>4 DEF l
<1> QED
  BY <1>7, <1>8 DEF Whole, Acks, m, n, parts

\* What a delivery from entry i does to the messages that wait: that of entry i is gone.
LEMMA DeliverItems ==
  ASSUME NEW s \in RxStates, NEW f, Spans(f), Filled(s, f), NEW i \in Deliverable(s)
  PROVE  LET x == Item(s.recv_gap[i])
             t == DeliverFrom(s, i).st
         IN /\ x \in Items(s) /\ NextOf(Items(s), s.recv_ssn, x)
            /\ Whole(Acks(s), x.msg)
            /\ \A y \in Items(t) : y \in Items(s) /\ y.msg # x.msg
            /\ t.recv_ssn = Advanced(s.recv_ssn, x)
<1> DEFINE t == DeliverFrom(s, i).st
           parts == Parts(s, i)
           n == Len(parts)
           acc == Gather(s, parts)
           u == acc.st
           e == s.recv_gap[i]
           m == e.msg
           x == Item(e)
<1>0. s \in State /\ PoolOK(s) /\ Live(s) \subseteq Valid(s) /\ Valid(s) \subseteq Slots
  BY StateParts DEF RxStates
<1>1. i \in Live(s) /\ i \in Slots /\ e.B /\ parts # <<>> /\ InSequence(s, i)
  BY <1>0 DEF Deliverable
<1>2. parts \in Seq(Valid(s)) /\ Distinct(parts) /\ n \in Nat
  BY <1>0, <1>1, PartsFacts
<1>3. acc \in GatherStates(s, parts, n)
  BY <1>0, <1>2, GatherOK
<1>4. Whole(Acks(s), m) /\ \A j \in Live(s) : s.recv_gap[j].msg = m => \E y \in 1 .. n : parts[y] = j
  BY <1>1, PartsWhole
<1>5. Delivered(s, i, t)
  BY DeliverStep
<1>6. /\ u \in State /\ Kept(s, u) /\ t.recv_gap = u.recv_gap
      /\ \A y \in 1 .. n : u.recv_gap[parts[y]].delivered
  BY <1>3, <1>5 DEF GatherStates, Fronted, Delivered
<1>7. t.recv_ssn = Advanced(s.recv_ssn, x)
  <2>1. u.recv_ssn = s.recv_ssn
    BY <1>6 DEF Kept
  <2>2. t = IF e.U \/ e.forwarded THEN u
            ELSE [u EXCEPT !.recv_ssn[e.sid] = Plus(@, 1, SSN_MOD)]
    BY DEF DeliverFrom
  <2>3. x.U = e.U /\ x.forwarded = e.forwarded /\ x.sid = e.sid
    BY DEF Item
  <2> HIDE DEF u, t, x, e
  <2>4. [u EXCEPT !.recv_ssn[e.sid] = Plus(@, 1, SSN_MOD)].recv_ssn
          = [u.recv_ssn EXCEPT ![e.sid] = Plus(@, 1, SSN_MOD)]
    BY <1>6 DEF State
  <2> QED
    BY <2>1, <2>2, <2>3, <2>4 DEF Advanced
<1> HIDE DEF t, u, parts, n, acc
<1>8. x \in Items(s)
  BY <1>1 DEF Items
<1>9. NextOf(Items(s), s.recv_ssn, x)
  <2>1. /\ x.U = e.U /\ x.forwarded = e.forwarded /\ x.sid = e.sid /\ x.ssn = e.ssn
    BY DEF Item
  <2>2. CASE e.U
    BY <2>1, <2>2 DEF NextOf
  <2>3. CASE ~e.U
    <3>1. e.forwarded \/ (e.sid \in DOMAIN s.recv_ssn /\ e.ssn = s.recv_ssn[e.sid])
      BY <1>1, <2>3 DEF InSequence, StreamKnown
    <3>2. \A j \in Live(s) : s.recv_gap[j].sid = e.sid /\ s.recv_gap[j].forwarded =>
                               ~(SsnDiff(s.recv_gap[j].ssn, e.ssn) < 0)
      BY <1>1, <2>3 DEF InSequence
    <3> HIDE DEF x, e
    <3>3. ASSUME NEW y \in Items(s), y.sid = x.sid, y.forwarded PROVE ~(SsnDiff(y.ssn, x.ssn) < 0)
      <4>1. PICK j \in Live(s) : y = Item(s.recv_gap[j])
        BY DEF Items
      <4>2. y.sid = s.recv_gap[j].sid /\ y.forwarded = s.recv_gap[j].forwarded
            /\ y.ssn = s.recv_gap[j].ssn
        BY <4>1 DEF Item
      <4> QED
        BY <2>1, <3>2, <3>3, <4>2
    <3> QED
      BY <2>1, <3>1, <3>3 DEF NextOf
  <2> QED
    BY <2>2, <2>3
<1>10. ASSUME NEW y \in Items(t) PROVE y \in Items(s) /\ y.msg # m
  <2>1. PICK j \in Live(t) : y = Item(t.recv_gap[j])
    BY DEF Items
  <2>2. j \in Valid(u) /\ Valid(u) = Valid(s) /\ ~u.recv_gap[j].delivered /\ y = Item(u.recv_gap[j])
    BY <1>6, <2>1 DEF Live, Valid, Kept
  <2>3. j \in Slots /\ KeptEntry(s, u, j)
    BY <1>0, <1>6, <2>2 DEF Kept
  <2>4. j \in Live(s)
    BY <2>2, <2>3 DEF KeptEntry, Live
  <2>5. /\ u.recv_gap[j].msg = s.recv_gap[j].msg /\ u.recv_gap[j].sid = s.recv_gap[j].sid
        /\ u.recv_gap[j].ssn = s.recv_gap[j].ssn /\ u.recv_gap[j].U = s.recv_gap[j].U
        /\ u.recv_gap[j].forwarded = s.recv_gap[j].forwarded
    BY <1>0, <1>6, <2>3, KeptFields
  <2>6. y = Item(s.recv_gap[j]) /\ y.msg = s.recv_gap[j].msg
    BY <2>2, <2>5 DEF Item
  <2>7. s.recv_gap[j].msg # m
    BY <1>4, <1>6, <2>2, <2>4
  <2> QED
    BY <2>4, <2>6, <2>7 DEF Items
<1> QED
  BY <1>4, <1>7, <1>8, <1>9, <1>10 DEF t, Item

\* A pair of a FORWARD-TSN releases the messages of its stream up to its SSN: z is what is
\* left of y.
Released(z, y, sid, ssn) ==
    /\ z.msg = y.msg /\ z.sid = y.sid /\ z.ssn = y.ssn /\ z.U = y.U
    /\ z.forwarded <=> y.forwarded \/ (y.sid = sid /\ ~y.U /\ SsnDiff(y.ssn, ssn) <= 0)

\* State t has the messages of s, or those that the pair <<sid, ssn>> leaves of them.
Forwarded(s, t, sid, ssn) ==
    LET R == Mapped(s.recv_ssn, sid)
    IN IF SsnDiff(ssn, R[sid]) < 0
       THEN t.recv_ssn = R /\ Items(t) \subseteq Items(s)
       ELSE /\ t.recv_ssn = [R EXCEPT ![sid] = Plus(ssn, 1, SSN_MOD)]
            /\ \A z \in Items(t) : \E y \in Items(s) : Released(z, y, sid, ssn)

\* A pair for message m keeps the order if all of its stream up to m is acknowledged.
LEMMA TurnsForward ==
  ASSUME NEW I, NEW J, NEW R, NEW S, NEW K, NEW D, Turns(I, R, K, D, TRUE),
         NEW m \in Messages, ~Msgs[m].unordered,
         \A z \in Messages : SameStream(z, m) /\ z <= m => Whole(K, z),
         LET sid == Msgs[m].sid
             T == Mapped(R, sid)
         IN IF SsnDiff(Ssn(m), T[sid]) < 0
            THEN S = T /\ J \subseteq I
            ELSE /\ S = [T EXCEPT ![sid] = Plus(Ssn(m), 1, SSN_MOD)]
                 /\ \A z \in J : \E y \in I : Released(z, y, sid, Ssn(m))
  PROVE  Turns(J, S, K, D, TRUE)
<1> DEFINE sid == Msgs[m].sid
           T == Mapped(R, sid)
           n == Rank(m)
<1>1. PICK q \in [Nat -> Nat] : Expects(R, q) /\ InTurn(I, q, K, D, TRUE)
  BY DEF Turns
<1> DEFINE r == q[sid]
           C == Cardinality(OnStream(sid))
           p == [q EXCEPT ![sid] = n + 1]
<1>2. /\ n \in Nat /\ sid \in Nat /\ n < C /\ Ssn(m) = Plus(InitSsn, n, SSN_MOD)
      /\ C \in Nat
  BY RankType, StreamCount
<1>3. Expects(T, q) /\ sid \in DOMAIN T
  BY <1>1, <1>2, ExpectsMapped
<1>4. r \in 0 .. C /\ r \in Nat /\ T[sid] = Plus(InitSsn, r, SSN_MOD)
  <2>1. r \in 0 .. C /\ T[sid] = Plus(InitSsn, r, SSN_MOD)
    BY <1>2, <1>3 DEF Expects
  <2>2. r \in Nat
    BY <1>1, <1>2
  <2> QED
    BY <2>1, <2>2
<1>5. SsnDiff(Ssn(m), T[sid]) = n - r
  <2>1. n \in 0 .. C
    BY <1>2
  <2> QED
    BY <1>2, <1>4, <2>1, SsnOrder
<1> HIDE DEF T
<1>6. CASE n - r < 0
  <2>1. S = T /\ J \subseteq I
    BY <1>5, <1>6 DEF T
  <2>2. Turns(I, S, K, D, TRUE)
    BY <1>1, <1>3, <2>1 DEF Turns
  <2>3. K \subseteq K /\ (TRUE => TRUE)
    OBVIOUS
  <2> QED
    BY <2>1, <2>2, <2>3, TurnsShrink
<1>7. CASE ~(n - r < 0)
  <2>1. /\ S = [T EXCEPT ![sid] = Plus(Ssn(m), 1, SSN_MOD)]
        /\ \A z \in J : \E y \in I : Released(z, y, sid, Ssn(m))
    BY <1>5, <1>7 DEF T
  <2>2. r <= n /\ n + 1 \in 0 .. C /\ n + 1 \in Nat
    BY <1>2, <1>4, <1>7
  <2>3. /\ p \in [Nat -> Nat] /\ p[sid] = n + 1
        /\ \A y \in Nat : y # sid => p[y] = q[y]
    BY <1>1, <1>2, <2>2
  <2>4. /\ DOMAIN S = DOMAIN T /\ S[sid] = Plus(InitSsn, n + 1, SSN_MOD)
        /\ \A y \in DOMAIN T : y # sid => S[y] = T[y]
    <3>1. Plus(Ssn(m), 1, SSN_MOD) = Plus(InitSsn, n + 1, SSN_MOD)
      BY <1>2, SsnNext
    <3> QED
      BY <1>3, <2>1, <3>1
  <2> HIDE DEF p, r, C
  <2>5. Expects(S, p)
    <3> SUFFICES ASSUME NEW y \in Nat
                 PROVE  /\ p[y] \in 0 .. Cardinality(OnStream(y))
                        /\ IF y \in DOMAIN S THEN S[y] = Plus(InitSsn, p[y], SSN_MOD) ELSE p[y] = 0
      BY DEF Expects
    <3>1. CASE y = sid
      BY <1>3, <2>2, <2>3, <2>4, <3>1 DEF C
    <3>2. CASE y # sid
      BY <1>3, <2>3, <2>4, <3>2 DEF Expects
    <3> QED
      BY <3>1, <3>2
  <2>6. \A y \in Nat : q[y] <= p[y]
    <3> SUFFICES ASSUME NEW y \in Nat PROVE q[y] <= p[y]
      OBVIOUS
    <3>1. q[y] \in Nat
      BY <1>1
    <3>2. CASE y = sid
      <4>1. q[y] = r /\ p[y] = n + 1
        BY <2>3, <3>2 DEF r
      <4> HIDE DEF n
      <4>2. r <= n + 1
        BY <1>2, <1>4, <2>2
      <4> QED
        BY <4>1, <4>2
    <3>3. CASE y # sid
      <4>1. p[y] = q[y]
        BY <2>3, <3>3
      <4>2. \A a \in Nat : a <= a
        OBVIOUS
      <4> QED
        BY <3>1, <4>1, <4>2
    <3> QED
      BY <3>2, <3>3
  <2>7. ASSUME NEW z \in J
        PROVE  /\ Genuine(z) /\ (~z.U => (z.forwarded <=> Rank(z.msg) < p[z.sid]))
               /\ \E y \in I : y.msg = z.msg
    <3>1. PICK y \in I : Released(z, y, sid, Ssn(m))
      BY <2>1
    <3>2. Genuine(y) /\ (~y.U => (y.forwarded <=> Rank(y.msg) < q[y.sid]))
      BY <1>1 DEF InTurn
    <3>3. y.msg \in Messages /\ y.sid = Msgs[y.msg].sid /\ y.sid \in Nat /\ Rank(y.msg) \in Nat
      BY <3>2, RankType DEF Genuine
    <3>4. /\ z.msg = y.msg /\ z.sid = y.sid /\ z.U = y.U
          /\ z.forwarded <=> y.forwarded \/ (y.sid = sid /\ ~y.U /\ SsnDiff(y.ssn, Ssn(m)) <= 0)
      BY <3>1 DEF Released
    <3>5. Genuine(z)
      BY <3>1, <3>2, <3>4 DEF Genuine, Released
    <3>6. CASE ~y.U /\ y.sid = sid
      <4>1. SameStream(y.msg, m) /\ y.ssn = Ssn(y.msg)
        BY <3>2, <3>3, <3>6 DEF SameStream, Genuine
      <4>2. SsnDiff(y.ssn, Ssn(m)) = Rank(y.msg) - n
        <5>1. Rank(y.msg) \in 0 .. C /\ n \in 0 .. C
          <6>1. Msgs[y.msg].sid = sid
            BY <3>3, <3>6
          <6>2. Rank(y.msg) <= C
            BY <3>3, <6>1, RankType DEF C
          <6> HIDE DEF n
          <6> QED
            BY <1>2, <3>3, <6>2
        <5>2. Ssn(y.msg) = Plus(InitSsn, Rank(y.msg), SSN_MOD)
          BY <3>3, RankType
        <5>3. SsnDiff(Plus(InitSsn, Rank(y.msg), SSN_MOD), Plus(InitSsn, n, SSN_MOD)) = Rank(y.msg) - n
          <6> HIDE DEF n, sid
          <6> QED
            BY <1>2, <5>1, SsnOrder DEF C
        <5> QED
          BY <1>2, <4>1, <5>2, <5>3
      <4>3. y.forwarded <=> Rank(y.msg) < r
        BY <3>2, <3>6 DEF r
      <4>4. z.forwarded <=> y.forwarded \/ Rank(y.msg) - n <= 0
        BY <3>4, <3>6, <4>2
      <4>5. z.forwarded <=> Rank(y.msg) < n + 1
        BY <1>2, <1>4, <2>2, <3>3, <4>3, <4>4
      <4> QED
        BY <2>3, <3>4, <3>5, <3>6, <4>5
    <3>7. CASE ~(~y.U /\ y.sid = sid)
      <4>1. z.forwarded <=> y.forwarded
        BY <3>4, <3>7
      <4>2. ~z.U => ~y.U /\ y.sid # sid
        BY <3>4, <3>7
      <4>3. y.sid # sid => p[z.sid] = q[y.sid]
        BY <2>3, <3>3, <3>4
      <4> QED
        BY <3>2, <3>4, <3>5, <4>1, <4>2, <4>3
    <3> QED
      BY <3>6, <3>7
  <2>8. \A z \in J, d \in D : SameStream(d, z.msg) => d < z.msg
    BY <1>1, <2>7 DEF InTurn
  <2>9. ASSUME NEW z \in Messages, ~Msgs[z].unordered, Rank(z) < p[Msgs[z].sid]
        PROVE  Whole(K, z)
    <3>1. Rank(z) \in Nat /\ Msgs[z].sid \in Nat
      BY RankType
    <3>2. CASE Msgs[z].sid = sid
      <4>1. SameStream(z, m) /\ SameStream(m, z)
        BY <2>9, <3>2 DEF SameStream
      <4>2. ~(Rank(m) < Rank(z))
        BY <1>2, <2>3, <2>9, <3>1, <3>2
      <4>3. ~(m < z)
        BY <4>1, <4>2, RankOrder
      <4>4. \A y \in Messages : y \in Int
        BY DEF Messages
      <4>5. z <= m
        <5>1. z \in Int /\ m \in Int
          BY <4>4
        <5> QED
          BY <4>3, <5>1
      <4> QED
        BY <4>1, <4>5
    <3>3. CASE Msgs[z].sid # sid
      BY <1>1, <2>3, <2>9, <3>1, <3>3 DEF InTurn
    <3> QED
      BY <3>2, <3>3
  <2>10. ASSUME NEW d \in D
         PROVE  d \in Messages /\ (~Msgs[d].unordered => Rank(d) < p[Msgs[d].sid])
    <3>1. d \in Messages /\ (~Msgs[d].unordered => Rank(d) < q[Msgs[d].sid])
      BY <1>1 DEF InTurn
    <3>2. Rank(d) \in Nat /\ Msgs[d].sid \in Nat
      BY <3>1, RankType
    <3>3. q[Msgs[d].sid] <= p[Msgs[d].sid] /\ q[Msgs[d].sid] \in Nat /\ p[Msgs[d].sid] \in Nat
      BY <1>1, <2>3, <2>6, <3>2
    <3> QED
      BY <3>1, <3>2, <3>3
  <2>11. InTurn(J, p, K, D, TRUE)
    BY <2>7, <2>8, <2>9, <2>10 DEF InTurn
  <2> QED
    BY <2>3, <2>5, <2>11 DEF Turns
<1> QED
  BY <1>2, <1>4, <1>6, <1>7

\* Dropping stranded fragments adds no message.
LEMMA DropFewer ==
  ASSUME NEW s \in State, NEW new_tsn
  PROVE  Fewer(s, DropStranded(s, new_tsn))
<1> DEFINE D == {i \in Slots : /\ s.recv_gap[i].valid
                               /\ TsnDiff(s.recv_gap[i].tsn, new_tsn) <= 0
                               /\ ~(s.recv_gap[i].B /\ s.recv_gap[i].E)}
           g == Marks(s, D, {})
           t == DropStranded(s, new_tsn)
<1>1. t = [s EXCEPT !.recv_gap = g]
  BY DEF DropStranded, Marks
<1>2. \A j \in Slots : \/ g[j] = s.recv_gap[j]
                       \/ g[j] = [s.recv_gap[j] EXCEPT !.delivered = TRUE]
  BY DEF Marks
<1> HIDE DEF D, g, t
<1>3. t.recv_gap = g /\ t.recv_ssn = s.recv_ssn
  BY <1>1 DEF State
<1>4. ASSUME NEW j \in Slots, g[j] = [s.recv_gap[j] EXCEPT !.delivered = TRUE]
      PROVE  g[j].delivered
  <2>1. s.recv_gap[j] \in Entry
    BY StateParts
  <2> QED
    BY <1>4, <2>1 DEF Entry
<1>5. ASSUME NEW j \in Live(t)
      PROVE  j \in Live(s) /\ Item(t.recv_gap[j]) = Item(s.recv_gap[j])
  <2>1. j \in Slots /\ g[j].valid /\ ~g[j].delivered
    BY <1>3 DEF Live, Valid
  <2>2. g[j] = s.recv_gap[j]
    BY <1>2, <1>4, <2>1
  <2> QED
    BY <1>3, <2>1, <2>2 DEF Live, Valid
<1>6. Fewer(s, t)
  BY <1>3, <1>5, SlotwiseFewer
<1> QED
  BY <1>6 DEF t

\* An entry that a FORWARD-TSN marks.
LEMMA ForwardedItem ==
  ASSUME NEW e \in Entry
  PROVE  LET x == [e EXCEPT !.forwarded = TRUE]
         IN /\ x.valid = e.valid /\ x.delivered = e.delivered
            /\ Item(x).msg = Item(e).msg /\ Item(x).sid = Item(e).sid
            /\ Item(x).ssn = Item(e).ssn /\ Item(x).U = Item(e).U /\ Item(x).forwarded
BY DEF Entry, Item

\* What a pair of a FORWARD-TSN does to the messages that wait.
LEMMA ForwardStreamItems ==
  ASSUME NEW s0 \in State, NEW pair \in Pairs
  PROVE  Forwarded(s0, ForwardStream(s0, pair), pair[1], pair[2])
<1> DEFINE sid == pair[1]
           ssn == pair[2]
           s == nsctp_stream(s0, sid)
           G(e) == e.valid /\ e.sid = sid /\ ~e.U /\ SsnDiff(e.ssn, ssn) <= 0
           g == [i \in Slots |-> IF G(s.recv_gap[i])
                                 THEN [s.recv_gap[i] EXCEPT !.forwarded = TRUE] ELSE s.recv_gap[i]]
           R == Mapped(s0.recv_ssn, sid)
           h == [R EXCEPT ![sid] = Plus(ssn, 1, SSN_MOD)]
           t == ForwardStream(s0, pair)
<1>0. sid \in Nat
  BY DEF Pairs
<1>1. s.recv_ssn = R
  BY <1>0, StreamMapped
<1>2. s \in State /\ s = [s0 EXCEPT !.recv_ssn = s.recv_ssn]
  BY <1>0, StreamOK
<1>3. s.recv_gap = s0.recv_gap
  <2> DEFINE v == s.recv_ssn
  <2>1. s = [s0 EXCEPT !.recv_ssn = v]
    BY <1>2
  <2> HIDE DEF v
  <2> QED
    BY <2>1 DEF State
<1>4. IF SsnDiff(ssn, R[sid]) < 0 THEN t = s
      ELSE t = [s EXCEPT !.recv_gap = g, !.recv_ssn = h]
  BY <1>1 DEF ForwardStream
<1> HIDE DEF t, s, R, h
<1>5. CASE SsnDiff(ssn, R[sid]) < 0
  <2>1. t.recv_gap = s0.recv_gap /\ t.recv_ssn = R
    BY <1>1, <1>3, <1>4, <1>5
  <2>2. Live(t) = Live(s0)
    BY <2>1 DEF Live, Valid
  <2>3. Items(t) \subseteq Items(s0)
    BY <2>1, <2>2 DEF Items
  <2> QED
    BY <1>5, <2>1, <2>3 DEF Forwarded, t, R
<1>6. CASE ~(SsnDiff(ssn, R[sid]) < 0)
  <2> HIDE DEF g
  <2>1. t.recv_gap = g /\ t.recv_ssn = h
    BY <1>2, <1>4, <1>6 DEF State
  <2> HIDE DEF sid, ssn
  <2>2. ASSUME NEW z \in Items(t) PROVE \E y \in Items(s0) : Released(z, y, sid, ssn)
    <3>1. PICK j \in Live(t) : z = Item(t.recv_gap[j])
      BY DEF Items
    <3> DEFINE e == s0.recv_gap[j]
    <3>2. j \in Slots /\ g[j].valid /\ ~g[j].delivered /\ z = Item(g[j])
      BY <2>1, <3>1 DEF Live, Valid
    <3>3. e \in Entry
      BY <3>2, StateParts
    <3>4. g[j] = IF G(e) THEN [e EXCEPT !.forwarded = TRUE] ELSE e
      BY <1>3, <3>2 DEF g
    <3> HIDE DEF e
    <3>5. /\ g[j].valid = e.valid /\ g[j].delivered = e.delivered
          /\ Item(g[j]).msg = Item(e).msg /\ Item(g[j]).sid = Item(e).sid
          /\ Item(g[j]).ssn = Item(e).ssn /\ Item(g[j]).U = Item(e).U
          /\ Item(g[j]).forwarded <=> Item(e).forwarded \/ G(e)
      <4> HIDE DEF G
      <4>1. CASE G(e)
        BY <3>3, <3>4, <4>1, ForwardedItem
      <4>2. CASE ~G(e)
        BY <3>4, <4>2
      <4> QED
        BY <4>1, <4>2
    <3>6. j \in Live(s0) /\ Item(e) \in Items(s0) /\ e.valid
      BY <3>2, <3>5 DEF Live, Valid, Items, e
    <3>7. Item(e).sid = e.sid /\ Item(e).U = e.U /\ Item(e).ssn = e.ssn
      BY DEF Item
    <3>8. Released(z, Item(e), sid, ssn)
      BY <3>2, <3>5, <3>6, <3>7 DEF Released
    <3> QED
      BY <3>6, <3>8
  <2> QED
    BY <1>6, <2>1, <2>2 DEF Forwarded, t, R, h, sid, ssn
<1> QED
  BY <1>5, <1>6

\* The pairs of a FORWARD-TSN whose messages are up to m.
PairsUpTo(m) == {<<Msgs[x].sid, Ssn(x)>> : x \in {y \in Messages : y <= m /\ ~Msgs[y].unordered}}

\* The pairs of a FORWARD-TSN are of messages that it skips.
LEMMA SkippedPairsUpTo ==
  ASSUME NEW h \in Messages, NEW m \in Messages
  PROVE  SetToSeqs(SkippedPairs(h, m)) \in SUBSET Seq(PairsUpTo(m)) /\ PairsUpTo(m) \subseteq Pairs
<1> DEFINE S == SkippedPairs(h, m)
           P == PairsUpTo(m)
<1>0. Len(Msgs) \in Nat /\ h \in Nat /\ m \in Nat /\ h..m \in SUBSET Messages
  <2>1. Len(Msgs) \in Nat
    BY PeerConforms
  <2> QED
    BY <2>1 DEF Messages
<1>1. ASSUME NEW x \in h..m, ~Msgs[x].unordered
      PROVE  <<Msgs[x].sid, Ssn(LastSkipped(h, m, Msgs[x].sid))>> \in P
  <2> DEFINE sid == Msgs[x].sid
             L == {n \in h..m : Msgs[n].sid = sid /\ ~Msgs[n].unordered}
             y == LastSkipped(h, m, sid)
  <2>1. L \in SUBSET (0 .. m) /\ L # {}
    BY <1>0, <1>1
  <2> HIDE DEF L
  <2>2. Max(L) \in L
    BY <1>0, <2>1, MaxOf
  <2>3. y \in L
    BY <2>2 DEF LastSkipped, L
  <2> HIDE DEF y
  <2>4. y \in Messages /\ y <= m /\ ~Msgs[y].unordered /\ Msgs[y].sid = sid
    BY <1>0, <2>3 DEF L
  <2> HIDE DEF sid
  <2>5. <<sid, Ssn(y)>> \in P
    BY <2>4 DEF PairsUpTo
  <2> QED
    BY <2>5 DEF sid, y
<1>2. S \subseteq P
  BY <1>1 DEF SkippedPairs
<1>3. P \subseteq Pairs
  <2> SUFFICES ASSUME NEW x \in Messages PROVE <<Msgs[x].sid, Ssn(x)>> \in Pairs
    BY DEF PairsUpTo
  <2>1. Msgs[x].sid \in Nat /\ Ssn(x) \in 0 .. SSN_MOD - 1
    BY MessageFacts, SsnType
  <2> QED
    BY <2>1 DEF Pairs
<1>4. IsFiniteSet(S)
  BY SkippedPairsType
<1> HIDE DEF S, P
<1>5. Cardinality(S) \in Nat
  BY <1>4, FS_CardinalityType
<1>6. SetToSeqs(S) \in SUBSET [1 .. Cardinality(S) -> P]
  BY <1>2 DEF SetToSeqs
<1>7. [1 .. Cardinality(S) -> P] \in SUBSET Seq(P)
  BY <1>5
<1> QED
  BY <1>3, <1>6, <1>7 DEF S, P

\* When the cumulative TSN has reached the last chunk of m, the messages up to m are acknowledged.
LEMMA AckedUpTo ==
  ASSUME NEW s, NEW f, NEW m \in Messages, NEW d \in LastChunk(m) .. NC, FilledTo(s, f, d),
         NEW z \in Messages, z <= m
  PROVE  Whole(Acks(s), z)
<1>0. LastChunk(m) \in 1 .. NC /\ Chunks[LastChunk(m)].msg = m /\ NC \in Nat
      /\ \A k \in 1 .. NC : Chunks[k].msg = m => k <= LastChunk(m)
  BY LastChunkType, ChunkCount
<1>1. d \in 0 .. NC /\ s.cumulative_tsn = TsnOf(d)
  BY <1>0 DEF FilledTo, Labelled
<1> SUFFICES ASSUME NEW k \in 1 .. NC, Chunks[k].msg = z PROVE Acked(s, k)
  BY DEF Whole, Acks
<1>2. k <= LastChunk(m)
  <2>1. CASE z = m
    BY <1>0, <2>1
  <2>2. CASE z # m
    <3>1. SUFFICES ASSUME LastChunk(m) <= k PROVE FALSE
      BY <1>0
    <3>2. m <= z
      BY <1>0, <3>1, MessageOrder
    <3>3. m \in Int /\ z \in Int
      BY DEF Messages
    <3> QED
      BY <2>2, <3>2, <3>3
  <2> QED
    BY <2>1, <2>2
<1>3. k <= d /\ k \in 0 .. NC /\ k - d <= 0
  BY <1>0, <1>1, <1>2
<1>4. TsnDiff(TsnOf(k), TsnOf(d)) = k - d
  BY <1>1, <1>3, TsnOrder
<1> QED
  BY <1>1, <1>3, <1>4 DEF Acked

\* A state of the table keeps the order with respect to L and D, and is of messages of I.
OrderedFrom(I, L, D) ==
    {t \in State : /\ Turns(Items(t), t.recv_ssn, L, D, TRUE)
                   /\ \A y \in Items(t) : \E x \in I : y.msg = x.msg}

\* Each pair of a FORWARD-TSN keeps the order.
LEMMA ForwardOne ==
  ASSUME NEW I, NEW L, NEW D, NEW m \in Messages,
         \A z \in Messages : z <= m => Whole(L, z),
         NEW t \in OrderedFrom(I, L, D), NEW pair \in PairsUpTo(m), PairsUpTo(m) \subseteq Pairs
  PROVE  ForwardStream(t, pair) \in OrderedFrom(I, L, D)
<1> DEFINE u == ForwardStream(t, pair)
<1>1. PICK x \in Messages : /\ x <= m /\ ~Msgs[x].unordered
                            /\ pair = <<Msgs[x].sid, Ssn(x)>>
  BY DEF PairsUpTo
<1>2. t \in State /\ Turns(Items(t), t.recv_ssn, L, D, TRUE)
      /\ \A y \in Items(t) : \E v \in I : y.msg = v.msg
  BY DEF OrderedFrom
<1>3. u \in State
  BY <1>2, ForwardStreamOK DEF Pairs
<1>4. Forwarded(t, u, Msgs[x].sid, Ssn(x))
  BY <1>1, <1>2, ForwardStreamItems
<1> HIDE DEF u
<1>5. \A z \in Messages : SameStream(z, x) /\ z <= x => Whole(L, z)
  <2> SUFFICES ASSUME NEW z \in Messages, z <= x PROVE z <= m
    OBVIOUS
  <2>1. z \in Int /\ x \in Int /\ m \in Int
    BY DEF Messages
  <2> QED
    BY <1>1, <2>1
<1>6. Turns(Items(u), u.recv_ssn, L, D, TRUE)
  BY <1>1, <1>2, <1>4, <1>5, TurnsForward DEF Forwarded
<1>7. \A z \in Items(u) : \E y \in Items(t) : z.msg = y.msg
  BY <1>4 DEF Forwarded, Released
<1>8. \A z \in Items(u) : \E v \in I : z.msg = v.msg
  BY <1>2, <1>7
<1> QED
  BY <1>3, <1>6, <1>8 DEF OrderedFrom, u

\* All pairs of a FORWARD-TSN keep the order.
LEMMA ForwardAll ==
  ASSUME NEW I, NEW L, NEW D, NEW m \in Messages,
         \A z \in Messages : z <= m => Whole(L, z),
         NEW s \in OrderedFrom(I, L, D), PairsUpTo(m) \subseteq Pairs,
         NEW pairs \in Seq(PairsUpTo(m))
  PROVE  FoldLeft(ForwardStream, s, pairs) \in OrderedFrom(I, L, D)
<1> DEFINE R == OrderedFrom(I, L, D)
           X == PairsUpTo(m)
<1>1. \A t \in R, p \in X : ForwardStream(t, p) \in R
  BY ForwardOne
<1> HIDE DEF R, X
<1>2. s \in R /\ pairs \in Seq(X)
  BY DEF R, X
<1>3. ForwardFold!Fold(s, pairs) \in R
  BY <1>1, <1>2, ForwardWellOrdered, ForwardFold!FoldInvariant
<1>4. ForwardFold!Fold(s, pairs) = FoldLeft(ForwardStream, s, pairs)
  BY DEF FoldLeft, MapThenFoldSet, Max,
         ForwardFold!Fold, ForwardFold!Largest
<1> QED
  BY <1>3, <1>4 DEF R

\* nsctp_handle_forward_tsn keeps the order; its messages were in the table before.
LEMMA ForwardTurns ==
  ASSUME NEW s \in RxStates, NEW f, Spans(f), Filled(s, f), NEW m \in Messages,
         NEW pairs \in Seq(PairsUpTo(m)), PairsUpTo(m) \subseteq Pairs,
         NEW D, Turns(Items(s), s.recv_ssn, Acks(s), D, TRUE)
  PROVE  LET t == nsctp_handle_forward_tsn(s, TsnOf(LastChunk(m)), pairs)
         IN /\ Turns(Items(t), t.recv_ssn, Acks(t), D, TRUE)
            /\ \A y \in Items(t) : \E x \in Items(s) : y.msg = x.msg
<1> DEFINE k == LastChunk(m)
           tsn == TsnOf(k)
           s1 == [s EXCEPT !.sack_needed = TRUE]
           s0 == [s1 EXCEPT !.cumulative_tsn = tsn]
           s2 == nsctp_rx_merge(s0)
           s3 == DropStranded(s2, tsn)
           s4 == FoldLeft(ForwardStream, s3, pairs)
           t == nsctp_gap_drain(s4)
           L == Acks(t)
<1>0. s \in State /\ k \in 1 .. NC /\ k \in 0 .. NC /\ tsn \in 0 .. TSN_MOD - 1 /\ pairs \in Seq(Pairs)
  BY ChunkCount, LastChunkType DEF RxStates
<1>1. PICK c : FilledTo(s, f, c)
  BY DEF Filled
<1>2. c \in 0 .. NC /\ s.cumulative_tsn = TsnOf(c)
  BY <1>1 DEF FilledTo, Labelled
<1>3. \/ nsctp_handle_forward_tsn(s, tsn, pairs) = s1
      \/ /\ ~(TsnDiff(tsn, s.cumulative_tsn) <= 0)
         /\ nsctp_handle_forward_tsn(s, tsn, pairs) = t
  BY DEF nsctp_handle_forward_tsn
<1>a. Ahead(s, nsctp_handle_forward_tsn(s, tsn, pairs))
  BY <1>0, ForwardAhead
<1>b. Acks(s) \subseteq Acks(nsctp_handle_forward_tsn(s, tsn, pairs))
  <2> DEFINE u == nsctp_handle_forward_tsn(s, tsn, pairs)
  <2>1. \A x \in DOMAIN Chunks : Acked(s, x) => Acked(u, x)
    BY <1>a, AheadAcks
  <2> HIDE DEF u
  <2>2. Acks(s) \subseteq Acks(u)
    BY <2>1, ChunkCount DEF Acks
  <2> QED
    BY <2>2 DEF u
<1>4. Fewer(s, s1) /\ s1 \in State
  <2>1. s1.recv_gap = s.recv_gap /\ s1.recv_ssn = s.recv_ssn /\ s1 \in State
    BY <1>0 DEF State
  <2> HIDE DEF s1
  <2> QED
    BY <2>1, SameFewer
<1>5. CASE nsctp_handle_forward_tsn(s, tsn, pairs) = s1
  <2> HIDE DEF s1, tsn
  <2>1. Items(s1) \subseteq Items(s) /\ s1.recv_ssn = s.recv_ssn /\ Acks(s) \subseteq Acks(s1)
    BY <1>4, <1>5, <1>b DEF Fewer
  <2>2. Turns(Items(s1), s1.recv_ssn, Acks(s1), D, TRUE)
    <3> DEFINE I == Items(s)
               J == Items(s1)
               R == s.recv_ssn
               K == Acks(s)
               N == Acks(s1)
    <3>1. Turns(I, R, K, D, TRUE) /\ J \subseteq I /\ K \subseteq N
      BY <2>1
    <3> HIDE DEF I, J, R, K, N
    <3>2. Turns(J, R, N, D, TRUE)
      BY <3>1, TurnsShrink
    <3> QED
      BY <2>1, <3>2 DEF J, R, N
  <2> QED
    BY <1>5, <2>1, <2>2 DEF tsn
<1>6. CASE /\ ~(TsnDiff(tsn, s.cumulative_tsn) <= 0)
           /\ nsctp_handle_forward_tsn(s, tsn, pairs) = t
  <2>1. c <= k
    <3>1. TsnDiff(tsn, s.cumulative_tsn) = k - c
      BY <1>0, <1>2, TsnOrder
    <3> HIDE DEF tsn, k
    <3> QED
      BY <1>0, <1>2, <1>6, <3>1, ChunkCount
  <2>2. s0 \in RxStates /\ FilledTo(s0, f, k) /\ Fewer(s, s0)
    <3>1. /\ s0 \in State /\ s0.recv_gap = s.recv_gap /\ s0.recv_gap_buf = s.recv_gap_buf
          /\ s0.recv_gap_count = s.recv_gap_count /\ s0.cumulative_tsn = tsn
          /\ s0.recv_ssn = s.recv_ssn
      BY <1>0 DEF State
    <3> HIDE DEF s0, k
    <3>2. s0 \in RxStates
      BY <1>0, <3>1, SameTable, RelabelOK
    <3>3. FilledTo(s0, f, k)
      BY <1>0, <1>1, <2>1, <3>1, RaiseOK
    <3> QED
      BY <3>1, <3>2, <3>3, SameFewer
  <2> HIDE DEF s0
  <2>3. s2 \in RxStates /\ s2 \in State /\ FilledTo(s2, f, k) /\ Fewer(s, s2)
    <3>1. Fewer(s0, s2)
      BY <2>2, MergeFewer
    <3> QED
      BY <1>0, <2>2, <3>1, MergeOK, MergeFilled, FewerTrans DEF RxStates
  <2> HIDE DEF s2
  <2>4. s3 \in RxStates /\ s3 \in State /\ FilledTo(s3, f, k) /\ Fewer(s, s3)
    <3>1. s3 \in State /\ Relabelled(s2, s3) /\ s3.cumulative_tsn = s2.cumulative_tsn /\ Fewer(s2, s3)
      BY <2>3, DropStrandedOK, DropFewer
    <3> HIDE DEF s3
    <3>2. FilledTo(s3, f, k)
      BY <2>3, <3>1, RelabelCarries, CarryOK
    <3> QED
      BY <2>3, <3>1, <3>2, RelabelOK, FewerTrans
  <2> HIDE DEF s3
  <2>5. s4 \in RxStates /\ FilledTo(s4, f, k)
    <3>1. s4 \in State /\ Relabelled(s3, s4) /\ s4.cumulative_tsn = s3.cumulative_tsn
      BY <1>0, <2>4, ForwardStreamsOK
    <3> HIDE DEF s4
    <3> QED
      BY <2>4, <3>1, RelabelOK, RelabelCarries, CarryOK
  <2>6. PICK d \in k .. NC : FilledTo(t, f, d)
    <3> HIDE DEF s4
    <3> QED
      BY <1>0, <2>5, DrainFilled
  <2>7. \A z \in Messages : z <= m => Whole(L, z)
    <3> HIDE DEF t
    <3> QED
      BY <2>6, AckedUpTo
  <2>8. Acks(s) \subseteq L
    BY <1>6, <1>b
  <2>9. Fewer(s4, t)
    <3> HIDE DEF s4
    <3> QED
      BY <2>5, DrainFewer
  <2> HIDE DEF t, L
  <2>10. s3 \in OrderedFrom(Items(s), L, D)
    <3>1. Items(s3) \subseteq Items(s) /\ s3.recv_ssn = s.recv_ssn
      BY <2>4 DEF Fewer
    <3>2. Turns(Items(s3), s3.recv_ssn, L, D, TRUE)
      BY <2>8, <3>1, TurnsShrink
    <3> QED
      BY <2>4, <3>1, <3>2 DEF OrderedFrom
  <2>11. s4 \in OrderedFrom(Items(s), L, D)
    BY <2>7, <2>10, ForwardAll
  <2> HIDE DEF s4
  <2>12. /\ Items(t) \subseteq Items(s4) /\ t.recv_ssn = s4.recv_ssn /\ L \subseteq L
         /\ Turns(Items(s4), s4.recv_ssn, L, D, TRUE)
         /\ \A y \in Items(s4) : \E x \in Items(s) : y.msg = x.msg
    BY <2>9, <2>11 DEF Fewer, OrderedFrom
  <2>13. Turns(Items(t), t.recv_ssn, L, D, TRUE)
    BY <2>12, TurnsShrink
  <2> QED
    BY <1>6, <2>12, <2>13 DEF L, tsn, k
<1> QED
  BY <1>3, <1>5, <1>6

\* The order of state s, after the delivery of the messages D.
Sorted(s, D, skip) ==
    /\ Once(Items(s), Acks(s), D)
    /\ Turns(Items(s), s.recv_ssn, Acks(s), D, skip)

\* A state that is ahead has acknowledged as much.
LEMMA AheadOrdered ==
  ASSUME NEW s, NEW t, Ahead(s, t)
  PROVE  Acks(s) \subseteq Acks(t)
<1>1. \A x \in DOMAIN Chunks : Acked(s, x) => Acked(t, x)
  BY AheadAcks
<1> QED
  BY <1>1, ChunkCount DEF Acks

\* A state with fewer messages that is ahead keeps the order.
LEMMA FewerSorted ==
  ASSUME NEW s, NEW t, NEW D, NEW skip, Sorted(s, D, skip), Fewer(s, t),
         Acks(s) \subseteq Acks(t), NEW skips, skip => skips
  PROVE  Sorted(t, D, skips)
<1>1. Items(t) \subseteq Items(s) /\ t.recv_ssn = s.recv_ssn
  BY DEF Fewer
<1>2. Once(Items(t), Acks(t), D)
  <2>1. \A y \in Items(t) : \E x \in Items(s) : y.msg = x.msg
    BY <1>1
  <2> QED
    BY <2>1, OnceShrinks DEF Sorted
<1>3. Turns(Items(t), t.recv_ssn, Acks(t), D, skips)
  BY <1>1, TurnsShrink DEF Sorted
<1> QED
  BY <1>2, <1>3 DEF Sorted

\* So does one of the same table.
LEMMA SameSorted ==
  ASSUME NEW s, NEW t, NEW D, NEW skip, Sorted(s, D, skip),
         t.recv_gap = s.recv_gap, t.recv_ssn = s.recv_ssn, t.cumulative_tsn = s.cumulative_tsn
  PROVE  Sorted(t, D, skip)
<1>1. Fewer(s, t)
  BY SameFewer
<1>2. Acks(s) \subseteq Acks(t)
  BY DEF Acks, Acked, Duplicate, Valid
<1> QED
  BY <1>1, <1>2, FewerSorted

\* nsctp_handle_data_chunk keeps the order.
LEMMA DataChunkSorted ==
  ASSUME NEW s \in RxStates, NEW f, Spans(f), Filled(s, f), NEW k \in 1 .. NC,
         NEW D, NEW skip, Sorted(s, D, skip)
  PROVE  Sorted(nsctp_handle_data_chunk(s, Chunks[k], TsnOf(k)), D, skip)
<1> DEFINE t == nsctp_handle_data_chunk(s, Chunks[k], TsnOf(k))
<1>1. Fewer(s, t) \/ (~Acked(s, k) /\ Grown(s, t, k))
  BY DataChunkItems
<1>2. Acks(s) \subseteq Acks(t)
  BY DataChunkAhead, AheadOrdered
<1> HIDE DEF t
<1>3. CASE Fewer(s, t)
  BY <1>2, <1>3, FewerSorted DEF t
<1>4. CASE ~Acked(s, k) /\ Grown(s, t, k)
  <2>1. /\ k \notin Acks(s) /\ t.recv_ssn = Mapped(s.recv_ssn, Chunks[k].sid)
        /\ Items(t) \subseteq Items(s) \cup {Fresh(k)}
    BY <1>4 DEF Acks, Grown
  <2>2. Once(Items(t), Acks(t), D)
    BY <1>2, <2>1, OnceStore DEF Sorted
  <2>3. Turns(Items(t), Mapped(s.recv_ssn, Chunks[k].sid), Acks(t), D, skip)
    BY <1>2, <2>1, TurnsStore DEF Sorted
  <2> QED
    BY <2>1, <2>2, <2>3 DEF Sorted, t
<1> QED
  BY <1>1, <1>3, <1>4

\* nsctp_handle_forward_tsn keeps the order.
LEMMA ForwardSorted ==
  ASSUME NEW s \in RxStates, NEW f, Spans(f), Filled(s, f), NEW h \in Messages, NEW m \in Messages,
         NEW pairs \in SetToSeqs(SkippedPairs(h, m)), NEW D, Sorted(s, D, TRUE)
  PROVE  Sorted(nsctp_handle_forward_tsn(s, TsnOf(LastChunk(m)), pairs), D, TRUE)
<1> DEFINE t == nsctp_handle_forward_tsn(s, TsnOf(LastChunk(m)), pairs)
<1>1. pairs \in Seq(PairsUpTo(m)) /\ PairsUpTo(m) \subseteq Pairs
  BY SkippedPairsUpTo
<1>2. pairs \in Seq(Pairs) /\ LastChunk(m) \in 1 .. NC
  BY SkippedPairsType, LastChunkType, ChunkCount
<1>3. Acks(s) \subseteq Acks(t)
  BY <1>2, ForwardAhead, AheadOrdered
<1>4. /\ Turns(Items(t), t.recv_ssn, Acks(t), D, TRUE)
      /\ \A y \in Items(t) : \E x \in Items(s) : y.msg = x.msg
  BY <1>1, ForwardTurns DEF Sorted
<1> HIDE DEF t
<1>5. Once(Items(t), Acks(t), D)
  BY <1>3, <1>4, OnceShrinks DEF Sorted
<1> QED
  BY <1>4, <1>5 DEF Sorted, t

\* Queueing a SACK keeps the order.
LEMMA SackSorted ==
  ASSUME NEW s \in State, NEW D, NEW skip, Sorted(s, D, skip), QueueSack(s)
  PROVE  Sorted(rx', D, skip)
<1> DEFINE t == [s EXCEPT !.sack_needed = FALSE]
<1>1. /\ t.recv_gap = s.recv_gap /\ t.recv_ssn = s.recv_ssn
      /\ t.cumulative_tsn = s.cumulative_tsn
  BY DEF State
<1>2. rx' = t \/ rx' = s
  BY DEF QueueSack
<1> HIDE DEF t
<1>3. Sorted(t, D, skip)
  BY <1>1, SameSorted
<1> QED
  BY <1>2, <1>3

\* A delivery keeps the order: its message is new, it comes after those delivered on its stream,
\* and after all before it unless some were skipped.
LEMMA DeliverSorted ==
  ASSUME NEW s \in RxStates, NEW f, Spans(f), Filled(s, f), NEW i \in Deliverable(s),
         NEW D, NEW skip, Sorted(s, D, skip)
  PROVE  LET m == s.recv_gap[i].msg
         IN /\ Sorted(DeliverFrom(s, i).st, D \cup {m}, skip)
            /\ m \notin D /\ Comes(m, D, skip)
<1> DEFINE x == Item(s.recv_gap[i])
           t == DeliverFrom(s, i).st
           m == s.recv_gap[i].msg
<1>1. /\ x \in Items(s) /\ NextOf(Items(s), s.recv_ssn, x)
      /\ Whole(Acks(s), x.msg)
      /\ \A y \in Items(t) : y \in Items(s) /\ y.msg # x.msg
      /\ t.recv_ssn = Advanced(s.recv_ssn, x)
  BY DeliverItems
<1>2. Acks(s) \subseteq Acks(t)
  <2>1. Ahead(s, s)
    BY FilledAhead DEF Filled
  <2>2. Ahead(s, t)
    BY <2>1, DeliverAhead
  <2> QED
    BY <2>2, AheadOrdered
<1>3. x.msg = m
  BY DEF Item
<1> HIDE DEF x, t, m
<1>4. Once(Items(t), Acks(t), D \cup {x.msg})
  BY <1>1, <1>2, OnceDeliver DEF Sorted
<1>5. /\ Turns(Items(t), Advanced(s.recv_ssn, x), Acks(t), D \cup {x.msg}, skip)
      /\ Comes(x.msg, D, skip)
  <2> DEFINE I == Items(s)
             J == Items(t)
             R == s.recv_ssn
             K == Acks(s)
             L == Acks(t)
  <2>1. /\ Turns(I, R, K, D, skip) /\ K \subseteq L /\ x \in I /\ NextOf(I, R, x)
        /\ Whole(K, x.msg) /\ Without(I, J, x.msg)
    BY <1>1, <1>2 DEF Sorted, Without
  <2> HIDE DEF I, J, R, K, L
  <2>2. Turns(J, Advanced(R, x), L, D \cup {x.msg}, skip) /\ Comes(x.msg, D, skip)
    BY <2>1, TurnsDeliver
  <2> QED
    BY <2>2 DEF J, R, L
<1>6. m \notin D
  BY <1>1, <1>3 DEF Sorted, Once
<1> QED
  BY <1>1, <1>3, <1>4, <1>5, <1>6 DEF Sorted, t, m

\* No message is in q twice, and the ordered messages of a stream are in order.
InOrder(q) ==
    \A n \in 1 .. Len(q) : \A x \in 1 .. (n - 1) :
      /\ q[x].msg # q[n].msg
      /\ SameStream(q[x].msg, q[n].msg) => q[x].msg < q[n].msg

\* Each ordered message in q comes after all before it on its stream.
NoGap(q) ==
    \A n \in 1 .. Len(q) : \A m \in Messages :
      m < q[n].msg /\ SameStream(m, q[n].msg) => \E x \in 1 .. (n - 1) : q[x].msg = m

\* One more message that is new and comes after those of its stream.
LEMMA AppendInOrder ==
  ASSUME NEW q \in Seq(Sent), NEW d \in Sent, InOrder(q), d.msg \notin Handed(q),
         \A y \in Handed(q) : SameStream(y, d.msg) => y < d.msg
  PROVE  InOrder(Append(q, d))
<1> DEFINE r == Append(q, d)
           l == Len(q)
<1>1. l \in Nat /\ Len(r) = l + 1 /\ r[l + 1] = d /\ \A x \in 1 .. l : r[x] = q[x]
  OBVIOUS
<1>2. \A x \in 1 .. l : q[x].msg \in Handed(q)
  BY DEF Handed
<1> HIDE DEF r, l
<1> SUFFICES ASSUME NEW n \in 1 .. Len(r), NEW x \in 1 .. (n - 1)
             PROVE  /\ r[x].msg # r[n].msg
                    /\ SameStream(r[x].msg, r[n].msg) => r[x].msg < r[n].msg
  BY DEF InOrder, r
<1>3. x \in 1 .. l
  BY <1>1
<1>4. CASE n = l + 1
  BY <1>1, <1>2, <1>3, <1>4
<1>5. CASE n # l + 1
  <2>1. n \in 1 .. l
    BY <1>1, <1>5
  <2> QED
    BY <1>1, <1>3, <2>1 DEF InOrder, l
<1> QED
  BY <1>4, <1>5

\* One more message that all before it on its stream precede.
LEMMA AppendNoGap ==
  ASSUME NEW q \in Seq(Sent), NEW d \in Sent, NoGap(q),
         \A z \in Messages : z < d.msg /\ SameStream(z, d.msg) => z \in Handed(q)
  PROVE  NoGap(Append(q, d))
<1> DEFINE r == Append(q, d)
           l == Len(q)
<1>1. l \in Nat /\ Len(r) = l + 1 /\ r[l + 1] = d /\ \A x \in 1 .. l : r[x] = q[x]
  OBVIOUS
<1> HIDE DEF r, l
<1> SUFFICES ASSUME NEW n \in 1 .. Len(r), NEW m \in Messages,
                    m < r[n].msg, SameStream(m, r[n].msg)
             PROVE  \E x \in 1 .. (n - 1) : r[x].msg = m
  BY DEF NoGap, r
<1>2. CASE n = l + 1
  <2>1. m \in Handed(q)
    BY <1>1, <1>2
  <2>2. PICK x \in 1 .. l : q[x].msg = m
    BY <2>1 DEF Handed, l
  <2>3. x \in 1 .. (n - 1) /\ r[x] = q[x]
    BY <1>1, <1>2
  <2> QED
    BY <2>2, <2>3
<1>3. CASE n # l + 1
  <2>1. n \in 1 .. l /\ r[n] = q[n]
    BY <1>1, <1>3
  <2>2. PICK x \in 1 .. (n - 1) : q[x].msg = m
    BY <2>1 DEF NoGap, l
  <2>3. x \in 1 .. l
    BY <1>1, <2>1
  <2> QED
    BY <1>1, <2>2, <2>3
<1> QED
  BY <1>2, <1>3

\* What waits is in its turn for what has been delivered, and that is in order.
OrderInv ==
    /\ IntactInv
    /\ Sorted(rx, Handed(delivered), gone # {})
    /\ InOrder(delivered)
    /\ gone = {} => NoGap(delivered)

\* Initially nothing is expected of any stream but its first message.
LEMMA InitSorted == Sorted(RxInit, {}, FALSE)
<1> DEFINE q == [y \in Nat |-> 0]
           R == RxInit.recv_ssn
           I == Items(RxInit)
           K == Acks(RxInit)
<1>1. I = {}
  <2>1. RxInit.recv_gap = [j \in Slots |-> NoEntry]
    BY DEF RxInit
  <2>2. Live(RxInit) = {}
    BY <2>1 DEF Valid, Live, NoEntry
  <2> QED
    BY <2>2 DEF Items
<1>2. DOMAIN R = {}
  BY DEF RxInit
<1>3. q \in [Nat -> Nat] /\ \A y \in Nat : q[y] = 0
  OBVIOUS
<1> HIDE DEF q, R, I, K
<1>4. Expects(R, q)
  <2> SUFFICES ASSUME NEW y \in Nat PROVE q[y] \in 0 .. Cardinality(OnStream(y)) /\ q[y] = 0
    BY <1>2 DEF Expects
  <2>1. Cardinality(OnStream(y)) \in Nat
    BY StreamCount
  <2> QED
    BY <1>3, <2>1
<1>5. InTurn(I, q, K, {}, FALSE)
  <2>1. ASSUME NEW m \in Messages PROVE ~(Rank(m) < q[Msgs[m].sid])
    <3>1. Rank(m) \in Nat /\ Msgs[m].sid \in Nat
      BY RankType
    <3> QED
      BY <1>3, <3>1
  <2> QED
    BY <1>1, <2>1 DEF InTurn
<1>6. Turns(I, R, K, {}, FALSE)
  BY <1>3, <1>4, <1>5 DEF Turns
<1>7. Once(I, K, {})
  BY DEF Once
<1> QED
  BY <1>6, <1>7 DEF Sorted, I, R, K

\* A step that leaves what was delivered and keeps the order of what waits keeps the invariant.
LEMMA WaitingStep ==
  ASSUME OrderInv, IntactInv', delivered' = delivered, gone \subseteq gone',
         Sorted(rx', Handed(delivered), gone' # {})
  PROVE  OrderInv'
<1>1. gone' = {} => gone = {}
  OBVIOUS
<1> QED
  BY <1>1 DEF OrderInv

\* A delivery keeps the invariant.
LEMMA DeliveryStep ==
  ASSUME OrderInv, PollDelivery, IntactInv'
  PROVE  OrderInv'
<1> DEFINE s == nsctp_rx_reclaim(rx)
           i == Min(Deliverable(s))
           d == DeliverFrom(s, i)
           m == s.recv_gap[i].msg
           D == Handed(delivered)
           skip == gone # {}
<1>0. /\ rx \in RxStates /\ delivered \in Seq(Sent) /\ Sorted(rx, D, skip)
      /\ InOrder(delivered) /\ (gone = {} => NoGap(delivered)) /\ gone' = gone
  BY DEF OrderInv, IntactInv, Inv, PollDelivery
<1>1. PICK f : Spans(f) /\ Filled(rx, f)
  BY DEF OrderInv, IntactInv
<1>2. s \in RxStates /\ Filled(s, f) /\ Sorted(s, D, skip)
  <2>1. PICK c : FilledTo(rx, f, c)
    BY <1>1 DEF Filled
  <2>2. FilledTo(s, f, c)
    BY <1>0, <2>1, ReclaimCarries, CarryOK
  <2>3. Ahead(rx, rx)
    BY <1>1, FilledAhead DEF Filled
  <2>4. Acks(rx) \subseteq Acks(s)
    BY <1>0, <2>3, ReclaimRetains, RetainAfter, AheadOrdered
  <2>5. Fewer(rx, s)
    BY <1>0, ReclaimFewer
  <2> HIDE DEF s, D, skip
  <2>6. Sorted(s, D, skip)
    BY <1>0, <2>4, <2>5, FewerSorted
  <2> QED
    BY <1>0, <2>2, <2>6, ReclaimOK DEF Filled, s
<1>3. \/ rx' = s /\ delivered' = delivered
      \/ Deliverable(s) # {} /\ rx' = d.st /\ delivered' = Append(delivered, d.message)
  BY DEF PollDelivery
<1>4. d.message.msg = m
  BY DEF DeliverFrom
<1> HIDE DEF s, i
<1>5. Deliverable(s) # {} => i \in Deliverable(s)
  BY <1>2, FirstDeliverable DEF i
<1>6. Deliverable(s) # {} => /\ d.message \in Sent /\ Sorted(d.st, D \cup {m}, skip)
                             /\ m \notin D /\ Comes(m, D, skip)
  BY <1>1, <1>2, <1>5, DeliverIntact, DeliverSorted
<1> HIDE DEF d, m
<1>7. CASE rx' = s /\ delivered' = delivered
  BY <1>0, <1>2, <1>7 DEF OrderInv
<1>8. CASE Deliverable(s) # {} /\ rx' = d.st /\ delivered' = Append(delivered, d.message)
  <2>1. Handed(delivered') = D \cup {m}
    BY <1>0, <1>4, <1>6, <1>8, HandedAppend
  <2>2. InOrder(delivered')
    <3>1. \A y \in D : SameStream(y, m) => y < m
      BY <1>6, <1>8 DEF Comes
    <3> QED
      BY <1>0, <1>4, <1>6, <1>8, <3>1, AppendInOrder
  <2>3. ASSUME gone = {} PROVE NoGap(delivered')
    <3>1. \A z \in Messages : z < m /\ SameStream(z, m) => z \in D
      BY <1>6, <1>8, <2>3 DEF Comes
    <3> QED
      BY <1>0, <1>4, <1>6, <1>8, <2>3, <3>1, AppendNoGap
  <2> QED
    BY <1>0, <1>6, <1>8, <2>1, <2>2, <2>3 DEF OrderInv
<1> QED
  BY <1>3, <1>7, <1>8

\* Every step keeps the order.
LEMMA OrderStep == OrderInv /\ [Next]_vars => OrderInv'
<1> SUFFICES ASSUME OrderInv, [Next]_vars PROVE OrderInv'
  OBVIOUS
<1> DEFINE D == Handed(delivered)
           skip == gone # {}
<1>a. IntactInv'
  BY IntactStep DEF OrderInv
<1>0. rx \in RxStates /\ rx \in State /\ Sorted(rx, D, skip)
  BY DEF OrderInv, IntactInv, Inv, RxStates
<1>1. PICK f : Spans(f) /\ Filled(rx, f)
  BY DEF OrderInv, IntactInv
<1>2. ASSUME NEW k \in DOMAIN Chunks, HandleData(k) PROVE OrderInv'
  <2> DEFINE s == nsctp_handle_data_chunk(rx, Chunks[k], TsnOf(k))
  <2>1. k \in 1 .. NC /\ s \in State
    BY <1>0, ChunkCount, TsnType, DataChunkOK DEF RxStates
  <2>2. (rx' = s \/ QueueSack(s)) /\ delivered' = delivered /\ gone' = gone
    BY <1>2 DEF HandleData, HandleChunk
  <2> HIDE DEF skip, D
  <2>3. Sorted(s, D, skip)
    BY <1>0, <1>1, <2>1, DataChunkSorted
  <2> HIDE DEF s
  <2>4. Sorted(rx', D, skip)
    BY <2>1, <2>2, <2>3, SackSorted
  <2> QED
    BY <1>a, <2>2, <2>4, WaitingStep DEF D, skip
<1>3. ASSUME NEW h \in Messages, NEW m \in Messages, HandleForwardTsn(h, m) PROVE OrderInv'
  <2>0. PICK pairs \in SetToSeqs(SkippedPairs(h, m)) :
           QueueSack(nsctp_handle_forward_tsn(rx, TsnOf(LastChunk(m)), pairs))
    BY <1>3 DEF HandleForwardTsn
  <2> DEFINE s == nsctp_handle_forward_tsn(rx, TsnOf(LastChunk(m)), pairs)
  <2>1. LastChunk(m) \in 1 .. NC /\ pairs \in Seq(Pairs)
    BY <2>0, ChunkCount, LastChunkType, SkippedPairsType
  <2>2. s \in State
    BY <1>0, <2>1, LastChunkType, ForwardTsnOK DEF RxStates
  <2>3. skip = TRUE
    <3>1. h <= m /\ h .. m \subseteq gone
      BY <1>3 DEF HandleForwardTsn
    <3>2. h \in h .. m
      BY <3>1 DEF Messages
    <3> QED
      BY <3>1, <3>2
  <2>4. delivered' = delivered /\ gone' = gone
    BY <1>3 DEF HandleForwardTsn
  <2> HIDE DEF skip, D
  <2>5. Sorted(s, D, TRUE)
    BY <1>0, <1>1, <2>0, <2>3, ForwardSorted
  <2>6. QueueSack(s)
    BY <2>0
  <2> HIDE DEF s
  <2>7. Sorted(rx', D, TRUE)
    BY <2>2, <2>5, <2>6, SackSorted
  <2>8. gone' # {}
    BY <2>3, <2>4 DEF skip
  <2> QED
    BY <1>a, <2>3, <2>4, <2>7, WaitingStep DEF D, skip
<1>4. ASSUME NEW given \in SUBSET Messages, PeerAbandon(given) PROVE OrderInv'
  <2>1. rx' = rx /\ delivered' = delivered /\ gone' = gone \cup given
    BY <1>4 DEF PeerAbandon
  <2> DEFINE skips == gone' # {}
  <2>2. skip => skips
    BY <2>1
  <2> HIDE DEF skip, skips, D
  <2>3. Fewer(rx, rx)
    BY DEF Fewer
  <2>4. Sorted(rx, D, skips)
    BY <1>0, <2>2, <2>3, FewerSorted
  <2> QED
    BY <1>a, <2>1, <2>4, WaitingStep DEF D, skips
<1>5. ASSUME PollDelivery PROVE OrderInv'
  BY <1>a, <1>5, DeliveryStep
<1>6. ASSUME PollOutput PROVE OrderInv'
  <2> DEFINE t == [rx EXCEPT !.sack_needed = FALSE]
  <2>1. /\ t.recv_gap = rx.recv_gap /\ t.recv_ssn = rx.recv_ssn
        /\ t.cumulative_tsn = rx.cumulative_tsn
    BY <1>0 DEF State
  <2>2. (rx' = rx \/ rx' = t) /\ delivered' = delivered /\ gone' = gone
    BY <1>6 DEF PollOutput
  <2> HIDE DEF t, skip, D
  <2>3. Sorted(t, D, skip)
    BY <1>0, <2>1, SameSorted
  <2>4. Sorted(rx', D, skip)
    BY <1>0, <2>2, <2>3
  <2> QED
    BY <1>a, <2>2, <2>4, WaitingStep DEF D, skip
<1>7. CASE UNCHANGED vars
  <2>1. rx' = rx /\ delivered' = delivered /\ gone' = gone
    BY <1>7 DEF vars
  <2> QED
    BY <1>0, <1>a, <2>1, WaitingStep
<1> QED
  BY <1>2, <1>3, <1>4, <1>5, <1>6, <1>7 DEF Next

\* What the invariant says of the messages handed over.
LEMMA OrderedMessages ==
  ASSUME OrderInv
  PROVE  DeliveredOnce /\ DeliveredInOrder /\ (gone = {} => NoneSkipped)
<1>1. delivered \in Seq(Sent) /\ InOrder(delivered) /\ (gone = {} => NoGap(delivered))
  BY DEF OrderInv, IntactInv
<1>2. DOMAIN delivered = 1 .. Len(delivered)
  BY <1>1
<1>3. DeliveredOnce /\ DeliveredInOrder
  BY <1>1, <1>2 DEF DeliveredOnce, DeliveredInOrder, InOrder
<1>4. ASSUME gone = {} PROVE NoneSkipped
  <2> SUFFICES ASSUME NEW n \in DOMAIN delivered, NEW m \in 1 .. (delivered[n].msg - 1),
                      SameStream(m, delivered[n].msg)
               PROVE  m \in gone \/ \E x \in 1 .. (n - 1) : delivered[x].msg = m
    BY DEF NoneSkipped
  <2> DEFINE y == delivered[n].msg
  <2>0. n \in 1 .. Len(delivered)
    BY <1>2
  <2>1. y \in Messages /\ Messages = 1 .. Len(Msgs) /\ Len(Msgs) \in Nat
    BY <1>1, <2>0, PeerConforms DEF Sent, Messages
  <2>2. m \in Messages /\ m < y
    <3> HIDE DEF y
    <3>1. m \in 1 .. (y - 1)
      BY DEF y
    <3> QED
      BY <2>1, <3>1
  <2> QED
    BY <1>1, <1>4, <2>0, <2>2 DEF NoGap
<1> QED
  BY <1>3, <1>4

\* The invariant holds throughout.
LEMMA OrderInvariant == Spec => []OrderInv
<1>1. Init => OrderInv
  <2> SUFFICES ASSUME Init PROVE OrderInv
    OBVIOUS
  <2>1. IntactInv
    <3>1. Inv
      BY InitOK, RecvSizes DEF Init, Inv
    <3>2. \E f : Spans(f) /\ Filled(rx, f)
      BY InitFilled DEF Init
    <3>3. delivered \in Seq(Sent)
      BY DEF Init
    <3> QED
      BY <3>1, <3>2, <3>3 DEF IntactInv
  <2>2. rx = RxInit /\ Handed(delivered) = {} /\ (gone # {}) = FALSE /\ Len(delivered) = 0
    BY DEF Init, Handed
  <2>3. InOrder(delivered) /\ NoGap(delivered)
    BY <2>2 DEF InOrder, NoGap
  <2>4. Sorted(rx, Handed(delivered), gone # {})
    BY <2>2, InitSorted
  <2> QED
    BY <2>1, <2>3, <2>4 DEF OrderInv
<1> QED
  BY <1>1, OrderStep, PTL DEF Spec

\* However chunks are repeated and reordered, windows refuse them and FORWARD-TSNs skip messages,
\* nsctp_poll_delivery hands over no message twice, and the ordered messages of a stream in the
\* order of the peer.
THEOREM DeliveredInTurn == Spec => [](DeliveredOnce /\ DeliveredInOrder)
<1>1. OrderInv => DeliveredOnce /\ DeliveredInOrder
  BY OrderedMessages
<1> QED
  BY <1>1, OrderInvariant, PTL

\* As long as the peer abandons nothing, moreover, no message of an ordered stream is skipped
\* (OrderedOnce).
THEOREM NothingIsSkipped == Spec => [](gone = {} => OrderedOnce)
<1>1. OrderInv => (gone = {} => OrderedOnce)
  BY OrderedMessages DEF OrderedOnce
<1> QED
  BY <1>1, OrderInvariant, PTL
=============================================================================
