---------------------------- MODULE SctpTraffic -----------------------------
(***************************************************************************)
(* The user messages of one direction of an SCTP association, and the DATA *)
(* chunks a conforming sender cuts them into: what both halves of          *)
(* src/nano_sctp.c agree on.                                               *)
(*                                                                         *)
(* A payload byte is the pair <<message, position>>: the model can tell    *)
(* where each byte came from after it has been buffered, moved and merged. *)
(***************************************************************************)
EXTENDS Integers, Sequences, FiniteSets, SequencesExt, FiniteSetsExt, Serial

CONSTANTS
    Msgs,               \* Seq of [sid, unordered, lens]: lens of the fragments
    Abandonable,        \* the messages (indices of Msgs) that may be abandoned
    MAX_MESSAGE_SIZE,   \* NANORTC_SCTP_MAX_MESSAGE_SIZE
    MAX_DATACHANNELS,   \* streams an endpoint can map
    TSN_MOD, SSN_MOD,   \* 2^32 and 2^16 in the code
    InitTsn,            \* the sender's first TSN, a random number
    InitSsn             \* first SSN: 0 for a new association, later ones after
                        \* that many messages

\* The bytes of fragments of the given lengths.
Add(a, n) == a + n
Sum(lens) == FoldLeft(Add, 0, lens)

\* What a conforming peer sends: no empty fragment of a fragmented message, no
\* message above the advertised maximum, at most the negotiated streams.
ASSUME PeerConforms ==
    /\ Msgs \in Seq([sid : Nat, unordered : BOOLEAN, lens : Seq(Nat)])
    /\ \A m \in DOMAIN Msgs :
         /\ Msgs[m].lens # <<>>
         /\ Len(Msgs[m].lens) > 1 => \A i \in DOMAIN Msgs[m].lens : Msgs[m].lens[i] > 0
         /\ Sum(Msgs[m].lens) <= MAX_MESSAGE_SIZE
    /\ Cardinality({Msgs[m].sid : m \in DOMAIN Msgs}) <= MAX_DATACHANNELS

-----------------------------------------------------------------------------
Messages == 1..Len(Msgs)

Bytes(m) == [p \in 1..Sum(Msgs[m].lens) |-> <<m, p>>]

Ssn(m) == Plus(InitSsn,
               Cardinality({n \in 1..(m - 1) : /\ Msgs[n].sid = Msgs[m].sid
                                               /\ ~Msgs[n].unordered}),
               SSN_MOD)

\* The fragments of message m, without their TSNs.
Fragments(m) ==
    LET lens == Msgs[m].lens
    IN [i \in 1..Len(lens) |->
          LET before == Sum(SubSeq(lens, 1, i - 1))
          IN [msg |-> m, sid |-> Msgs[m].sid,
              ssn |-> IF Msgs[m].unordered THEN 0 ELSE Ssn(m),
              B |-> i = 1, E |-> i = Len(lens), U |-> Msgs[m].unordered,
              payload |-> SubSeq(Bytes(m), before + 1, before + lens[i])]]

\* All DATA chunks of the peer in TSN order.
AppendFragments(s, m) == s \o Fragments(m)
Chunks == FoldLeft(AppendFragments, <<>>, [m \in Messages |-> m])

TsnOf(k) == Plus(InitTsn, k - 1, TSN_MOD)
LastChunk(m) == Max({k \in DOMAIN Chunks : Chunks[k].msg = m})
FirstChunk(m) == Min({k \in DOMAIN Chunks : Chunks[k].msg = m})

TsnDiff(a, b) == Diff(a, b, TSN_MOD)
SsnDiff(a, b) == Diff(a, b, SSN_MOD)
=============================================================================
