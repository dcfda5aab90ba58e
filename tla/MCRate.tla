------------------------------- MODULE MCRate -------------------------------
(***************************************************************************)
(* Instances of Rate: a sender that adapts, feedback in every encoding, a  *)
(* queue that is always full, and Sender Reports of three tracks.          *)
(***************************************************************************)
EXTENDS Rate

Remb(kbps) == [is |-> "remb", mantissa |-> kbps, exp |-> 0, valid |-> TRUE]
Pli(t) == [is |-> "pli", track |-> t]
Sr(t, block, cut) == [is |-> "sr", track |-> t, block |-> block, cut |-> cut]
Rr(t, block, cut) == [is |-> "rr", track |-> t, block |-> block, cut |-> cut]
Other == [is |-> "other"]
Broken == [is |-> "broken"]

\* The deltas a peer appends for these statuses.
Deltas(statuses) == Count(statuses, "small") + 2 * Count(statuses, "large")

Feedback(statuses, chunks) ==
  [is |-> "twcc", count |-> Len(statuses), chunks |-> chunks, deltas |-> Deltas(statuses),
   lost |-> Count(statuses, "lost")]

Repeat(symbol, n) == [i \in 1..n |-> symbol]
Runs(symbols) == [i \in 1..Len(symbols) |-> [kind |-> "run", symbols |-> symbols[i]]]

\* Feedback about 20 packets of which n were lost.
Lost(n) ==
  LET s == IF n = 0 THEN <<Repeat("small", 20)>>
           ELSE IF n = 20 THEN <<Repeat("lost", 20)>>
           ELSE <<Repeat("small", 20 - n), Repeat("lost", n)>>
  IN Feedback(FoldLeft(LAMBDA a, b : a \o b, <<>>, s), Runs(s))

-----------------------------------------------------------------------------
(* Every way to encode a sequence of statuses. *)

Padded(s, n) == [i \in 1..n |-> IF i <= Len(s) THEN s[i] ELSE "lost"]

\* The chunks that may come next, with the number of statuses each one covers.
FirstChunks(s) ==
  LET same == Max({n \in 1..Len(s) : \A i \in 1..n : s[i] = s[1]})
      Covers(n) == Min({n, Len(s)})
  IN {[chunk |-> [kind |-> "run", symbols |-> Repeat(s[1], n)], n |-> Covers(n)] :
        n \in {same} \cup (IF same = Len(s) THEN {same + 3} ELSE {})}
     \cup {[chunk |-> [kind |-> "vector", symbols |-> Padded(s, n)], n |-> Covers(n)] :
             n \in {7} \cup (IF \E i \in 1..Covers(14) : s[i] = "large" THEN {} ELSE {14})}

RECURSIVE Encodings(_)
Encodings(s) ==
  IF s = <<>> THEN {<<>>}
  ELSE UNION {{<<f.chunk>> \o rest : rest \in Encodings(SubSeq(s, f.n + 1, Len(s)))} : f \in FirstChunks(s)}

Statuses ==
  [1..2 -> {"lost", "small", "large"}] \cup
  {<<"small", "lost", "large">> \o Repeat("small", n) \o <<"lost">> : n \in {2, 3, 4}} \cup
  {Repeat("small", n) \o <<"lost", "small">> \o Repeat("lost", n) : n \in {5, 6, 7}} \cup
  {Repeat("lost", n) : n \in {7, 14, 15}}

Good == UNION {{Feedback(s, chunks) : chunks \in Encodings(s)} : s \in Statuses}

\* Feedback that no peer means: each is refused.
Malformed ==
  {[fb EXCEPT !.lost = Never, !.deltas = @ + 4] : fb \in Good} \cup
  {[fb EXCEPT !.lost = Never, !.deltas = @ - 4] : fb \in {g \in Good : g.deltas >= 4}} \cup
  {[fb EXCEPT !.lost = Never, !.chunks[1].symbols[1] = "reserved"] : fb \in Good} \cup
  {[fb EXCEPT !.lost = Never, !.chunks[1] = [kind |-> "run", symbols |-> <<>>]] : fb \in Good} \cup
  {[Feedback(s, Runs(<<s>>)) EXCEPT !.lost = Never] : s \in {Repeat("small", TWCC_MAX_PACKETS + 1)}}

Empty == Feedback(<<>>, <<>>)

-----------------------------------------------------------------------------
Adaptation ==
  [inputs |-> {<<>>, <<Remb(150)>>, <<Remb(900)>>, <<Other, Lost(1)>>, <<Lost(9)>>},
   gaps |-> {1, 3}, calls |-> {}, max_inputs |-> 5, drains |-> TRUE, tracks |-> 1,
   ladder |-> <<100, 300, 600>>, start |-> 57]

\* Feedback of several kinds in one packet, and what the application sets meanwhile.
Settings ==
  [inputs |-> {<<Lost(0), Remb(400)>>,
               <<[is |-> "remb", mantissa |-> 9, exp |-> 30, valid |-> TRUE]>>,
               <<[is |-> "remb", mantissa |-> 6, exp |-> 6, valid |-> FALSE], Lost(9)>>},
   gaps |-> {2},
   calls |-> {[op |-> "bounds", min |-> 200, max |-> 0], [op |-> "bounds", min |-> 800, max |-> 400],
              [op |-> "initial", bps |-> 700], [op |-> "threshold", pct |-> 40],
              [op |-> "threshold", pct |-> 101],
              [op |-> "ladder", rungs |-> <<200, 100>>], [op |-> "ladder", rungs |-> <<150, 350>>],
              [op |-> "ladder", rungs |-> <<>>]},
   max_inputs |-> 3, drains |-> TRUE, tracks |-> 1, ladder |-> <<100, 300, 600>>, start |-> 1]

Encoded ==
  [inputs |-> {<<fb>> : fb \in Good \cup Malformed \cup {Empty}} \cup
              {<<Sr(1, 9, ""), fb, Lost(1)>> : fb \in Malformed} \cup
              {<<Lost(1), Broken, Lost(9), Rr(1, 9, "")>>, <<Rr(1, 9, "block"), Lost(1)>>},
   gaps |-> {1}, calls |-> {}, max_inputs |-> 1, drains |-> FALSE, tracks |-> 1, ladder |-> <<>>,
   start |-> 1]

\* The queue is full most of the time: events wait and replace each other.
Crowded ==
  [inputs |-> {<<Pli(1), Remb(900), Pli(2)>>, <<Remb(150)>>, <<Pli(0), Pli(1)>>},
   gaps |-> {5},
   calls |-> {[op |-> "send", track |-> 1], [op |-> "direction", track |-> 1, direction |-> "recvonly"],
              [op |-> "direction", track |-> 1, direction |-> "sendrecv"],
              [op |-> "direction", track |-> 2, direction |-> "inactive"]},
   max_inputs |-> 3, drains |-> FALSE, tracks |-> 2, ladder |-> <<100, 300, 600>>, start |-> 1]

Reports ==
  [inputs |-> {<<>>},
   gaps |-> {2, 5},
   calls |-> {[op |-> "send", track |-> t] : t \in 1..3} \cup
             {[op |-> "direction", track |-> 2, direction |-> d] : d \in {"sendonly", "recvonly"}} \cup
             {[op |-> "request", track |-> 3]},
   max_inputs |-> 5, drains |-> FALSE, tracks |-> 3, ladder |-> <<>>, start |-> 55]

\* Reports about our tracks.
Heard ==
  [inputs |-> {<<Sr(2, 3, ""), Rr(1, 7, "")>>, <<Sr(1, 5, "info"), Rr(0, 9, "")>>,
               <<Sr(2, 8, "block"), Rr(1, 1, "")>>},
   gaps |-> {1}, calls |-> {}, max_inputs |-> 3, drains |-> FALSE, tracks |-> 2, ladder |-> <<>>,
   start |-> 1]

MCScenarios ==
  [adaptation |-> Adaptation, settings |-> Settings, encoded |-> Encoded, crowded |-> Crowded,
   reports |-> Reports, heard |-> Heard]
=============================================================================
