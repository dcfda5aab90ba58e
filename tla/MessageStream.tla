--------------------------- MODULE MessageStream ----------------------------
(***************************************************************************)
(* What a data channel transport promises its two applications, with no    *)
(* packets, queues or clocks: messages are accepted in order, each arrives *)
(* at most once and whole, the ordered messages of a stream in the order   *)
(* of sending, and only a message sent with limited retransmissions may be *)
(* skipped.                                                                *)
(***************************************************************************)
EXTENDS SctpTraffic

VARIABLES
    accepted,   \* how many of Msgs the sender has accepted
    skipped,    \* the messages the sender has given up
    got         \* the messages the receiver has, in order of arrival

vars == <<accepted, skipped, got>>

Init == accepted = 0 /\ skipped = {} /\ got = <<>>

Accept == /\ accepted < Len(Msgs)
          /\ accepted' = accepted + 1
          /\ UNCHANGED <<skipped, got>>

GiveUp(given) == /\ given \subseteq (Abandonable \cap 1..accepted) \ skipped
                 /\ skipped' = skipped \cup given
                 /\ UNCHANGED <<accepted, got>>

Arrived == {got[n].msg : n \in DOMAIN got}

SameOrder(m) == {x \in Messages : /\ Msgs[x].sid = Msgs[m].sid
                                  /\ ~Msgs[x].unordered /\ ~Msgs[m].unordered}

Arrive(m) == /\ m \in (1..accepted) \ Arrived
             /\ \A x \in SameOrder(m) : /\ x < m => x \in Arrived \cup skipped
                                        /\ x > m => x \notin Arrived
             /\ got' = Append(got, [msg |-> m, sid |-> Msgs[m].sid, data |-> Bytes(m)])
             /\ UNCHANGED <<accepted, skipped>>

Next == \/ Accept
        \/ \E given \in SUBSET Messages : GiveUp(given)
        \/ \E m \in Messages : Arrive(m)

Spec == Init /\ [][Next]_vars
=============================================================================
