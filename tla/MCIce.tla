------------------------------- MODULE MCIce -------------------------------
(***************************************************************************)
(* Instances of Ice for TLC.                                               *)
(***************************************************************************)
EXTENDS Ice

\* One controlling and three controlled addresses, one more than the tables of
\* candidates and of pending checks hold: the last pair works, over the second
\* only the controlled agent's packets arrive, the first is dead. The controlling
\* agent is not told of the second; its request, or one over the last pair, may
\* find a table full.
MCLocals == [controlling |-> 1, controlled |-> 3]
C == <<"controlling", 1>>
D1 == <<"controlled", 1>>
D2 == <<"controlled", 2>>
D3 == <<"controlled", 3>>
MCWorks == {<<C, D3>>, <<D3, C>>, <<D2, C>>}
MCSignalled == [controlling |-> {D1, D3}, controlled |-> {C}]
=============================================================================
