-------------------------------- MODULE Addr --------------------------------
(***************************************************************************)
(* Addresses as text and as numbers: nano_addr.c.                          *)
(*                                                                         *)
(* A text is [colon, fields]: whether a ':' occurs in it, and its fields   *)
(* between the separators.  A field is <<"num", n>>, <<"::">>,             *)
(* <<"dotted", quad>> (a dotted quad, the whole of an IPv4 text or the     *)
(* tail of an IPv6 one) or <<"name">> (anything that is not a number).     *)
(* Digits, hexadecimal or decimal, are left out.                           *)
(***************************************************************************)
EXTENDS Integers, Sequences, FiniteSets, SequencesExt

IPV6_MAX_GROUPS == 8

\* What a parser that fails returns.
NoAddr == [family |-> 0, groups |-> <<>>]

addr_parse_ipv4(quad) ==
  IF Len(quad) = 4 /\ \A i \in 1..4 : quad[i] <= 255
  THEN [family |-> 4, groups |-> quad]
  ELSE NoAddr

\* The 16-bit groups one field stands for.
Groups(field) ==
  CASE field[1] = "num" -> <<field[2]>>
    [] field[1] = "dotted" -> <<field[2][1] * 256 + field[2][2],
                                field[2][3] * 256 + field[2][4]>>
    [] OTHER -> <<>>

WellFormed(fields) ==
  \A i \in 1..Len(fields) :
    CASE fields[i][1] = "num" -> fields[i][2] < 65536
      [] fields[i][1] = "dotted" -> i = Len(fields) /\ addr_parse_ipv4(fields[i][2]) # NoAddr
      [] OTHER -> fields[i] = <<"::">>

addr_parse_ipv6(fields) ==
  LET gaps == {i \in 1..Len(fields) : fields[i] = <<"::">>}
      All(fs) == FlattenSeq([i \in 1..Len(fs) |-> Groups(fs[i])])
      count == Len(All(fields))
      gap == CHOOSE i \in gaps : TRUE
      zeros == [i \in 1..(IPV6_MAX_GROUPS - count) |-> 0]
  IN IF \/ ~WellFormed(fields)
        \/ Cardinality(gaps) > 1
        \/ count > IPV6_MAX_GROUPS
        \/ gaps = {} /\ count # IPV6_MAX_GROUPS
     THEN NoAddr
     ELSE [family |-> 6,
           groups |-> IF gaps = {} THEN All(fields)
                      ELSE All(SubSeq(fields, 1, gap - 1)) \o zeros
                             \o All(SubSeq(fields, gap + 1, Len(fields)))]

addr_parse_auto(text) ==
  IF text.colon THEN addr_parse_ipv6(text.fields)
  ELSE IF Len(text.fields) = 1 /\ text.fields[1][1] = "dotted"
  THEN addr_parse_ipv4(text.fields[1][2])
  ELSE NoAddr

\* The longest run of zero groups, the first of them: [start, len], len 0 when there is none.
ZeroRun(groups) ==
  LET runs == {r \in [start : 1..IPV6_MAX_GROUPS, len : 1..IPV6_MAX_GROUPS] :
                 /\ r.start + r.len - 1 <= IPV6_MAX_GROUPS
                 /\ \A i \in r.start..(r.start + r.len - 1) : groups[i] = 0}
      best == {r \in runs : \A q \in runs : q.len <= r.len}
  IN IF runs = {} THEN [start |-> 0, len |-> 0]
     ELSE CHOOSE r \in best : \A q \in best : r.start <= q.start

\* The groups after the zero run continue one group too late.
ShortTail(groups) ==
  LET run == ZeroRun(groups)
      Nums(s) == [i \in 1..Len(s) |-> <<"num", s[i]>>]
  IN IF run.len <= 1 THEN Nums(groups)
     ELSE Nums(SubSeq(groups, 1, run.start - 1)) \o <<<<"::">>>>
            \o Nums(SubSeq(groups, run.start + run.len + 1, IPV6_MAX_GROUPS))

addr_format_ipv6(groups) ==
  LET run == ZeroRun(groups)
      Nums(s) == [i \in 1..Len(s) |-> <<"num", s[i]>>]
  IN IF run.len <= 1 THEN Nums(groups)
     ELSE Nums(SubSeq(groups, 1, run.start - 1)) \o <<<<"::">>>>
            \o Nums(SubSeq(groups, run.start + run.len, IPV6_MAX_GROUPS))

addr_format(addr) ==
  IF addr.family = 4
  THEN [colon |-> FALSE, fields |-> <<<<"dotted", addr.groups>>>>]
  ELSE [colon |-> TRUE, fields |-> addr_format_ipv6(addr.groups)]
=============================================================================
