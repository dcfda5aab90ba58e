---------------------------- MODULE MCSignalling ----------------------------
(***************************************************************************)
(* Small programs for the Signalling module: what two applications do.     *)
(***************************************************************************)
EXTENDS Signalling, TLC

Directions == {"sendrecv", "sendonly", "recvonly", "inactive"}

Track(kind, codec, direction) ==
  [op |-> "add_track", kind |-> kind, codec |-> codec, direction |-> direction]
Channels(label, ordered, rexmit) ==
  [op |-> "create_datachannel", label |-> label, ordered |-> ordered, rexmit |-> rexmit]
Host(text, port) == [op |-> "add_local_candidate", text |-> text, port |-> port]
Servers(urls) == [op |-> "set_ice_servers", urls |-> urls]
SendOn(label) == [op |-> "datachannel_send", label |-> label]
CloseOf(label) == [op |-> "datachannel_close", label |-> label]
Offering(room) == [op |-> "create_offer", room |-> room]
Answering(room) == [op |-> "accept_offer", room |-> room]
Answered == [op |-> "accept_answer"]
Done == [op |-> "end_of_candidates"]
Foreign(desc) == [op |-> "foreign_offer", desc |-> desc]

Pair(off, ans) == [p \in Peers |-> IF p = "off" THEN off ELSE ans]
Session(offered, own) ==
  Pair(offered \o <<Offering(TRUE), Answered>>, own \o <<Answering(TRUE)>>)

(* One track in every pair of directions, chosen by the answerer or left to the library. *)
Codecs == {<<"audio", "OPUS">>, <<"audio", "PCMU">>, <<"video", "H264">>, <<"video", "H265">>}
SingleTrack ==
  {Session(<<Track(c[1], c[2], d)>>, <<Track(c[1], c[2], e)>>) :
     c \in Codecs, d \in Directions, e \in Directions}
  \cup {Session(<<Track(c[1], c[2], d)>>, <<>>) :
          c \in Codecs \ {<<"video", "H265">>}, d \in Directions}

(* Two tracks and a data channel in any order, with calls that fail and are made again. *)
Lines(d) == <<Track("audio", "OPUS", d), Track("video", "H264", "sendonly"), Channels("a", TRUE, -1)>>
Several ==
  {Pair([i \in 1..3 |-> Lines(d)[order[i]]] \o <<Offering(FALSE), Offering(TRUE), Answered>>,
        <<Answering(FALSE), Answering(TRUE)>>) :
     d \in Directions, order \in Permutations(1..3)}
  \cup {Pair(<<Lines("sendrecv")[1], Lines("sendrecv")[2], Track("video", "H264", "sendrecv"),
               Offering(TRUE), Answered>>,
             <<Lines(d)[1], Answering(FALSE), Answering(TRUE)>>) : d \in Directions}

(* Offers of other implementations: many payload types, in their own order of attributes. *)
Map(pt, codec) == [is |-> "rtpmap", pt |-> pt, codec |-> codec]
Fmtp(pt, mode1, preferred, srst) ==
  [is |-> "fmtp", pt |-> pt, mode1 |-> mode1, preferred |-> preferred, srst |-> srst]
Chrome == <<Map(96, "VP8"), Map(102, "H264"), Fmtp(102, TRUE, FALSE, TRUE),
            Map(104, "H264"), Fmtp(104, FALSE, FALSE, TRUE),
            Map(106, "H264"), Fmtp(106, TRUE, TRUE, TRUE),
            Map(49, "H265"), Fmtp(49, FALSE, FALSE, TRUE)>>
Firefox == <<Fmtp(126, TRUE, TRUE, TRUE), Fmtp(97, FALSE, TRUE, TRUE),
             Map(120, "VP8"), Map(126, "H264"), Map(97, "H264")>>
Safari == <<Map(96, "H264"), Fmtp(96, TRUE, TRUE, TRUE), Map(100, "H265")>>
Multi == <<Map(96, "H264"), Fmtp(96, TRUE, TRUE, TRUE), Map(49, "H265"), Fmtp(49, FALSE, FALSE, FALSE)>>

Block(kind, mid, pts, direction, attrs, twcc, limit) ==
  [kind |-> kind, mid |-> mid, pts |-> pts, direction |-> direction, attrs |-> attrs,
   twcc |-> twcc, limit |-> limit]
AudioBlock == Block("audio", 0, <<111, 0, 8>>, "sendrecv",
                    <<Map(111, "OPUS"), Map(0, "PCMU"), Map(8, "PCMA")>>, 0, TRUE)
VideoBlock(attrs, pts, d, mid) == Block("video", mid, pts, d, attrs, 5, TRUE)
DataBlock(mid, limit) == Block("application", mid, <<>>, "sendrecv", <<>>, 0, limit)
Desc(ufrag, blocks) ==
  [setup |-> "actpass", ufrag |-> ufrag, blocks |-> blocks, candidates |-> <<>>, eoc |-> TRUE]
Video(name, d, mid) ==
  CASE name = "chrome" -> VideoBlock(Chrome, <<96, 102, 104, 106, 49>>, d, mid)
    [] name = "firefox" -> VideoBlock(Firefox, <<120, 126, 97>>, d, mid)
    [] name = "safari" -> VideoBlock(Safari, <<96, 100>>, d, mid)
    [] OTHER -> VideoBlock(Multi, <<96, 49>>, d, mid)

Takes == [op |-> "foreign_answer"]
Browsers ==
  {Pair(<<Foreign(Desc(9, <<Video(b, d, 0)>>)), Takes>>, own \o <<Answering(TRUE)>>) :
     b \in {"chrome", "firefox", "safari"}, d \in Directions,
     own \in {<<>>, <<Track("video", "H264", "sendonly")>>}}
  \cup {Pair(<<Foreign(Desc(9, <<Video(b, d, 0)>>)), Takes>>,
             <<Track("video", "H265", "sendrecv"), Answering(TRUE)>>) :
          b \in {"chrome", "safari"}, d \in Directions}
  \* Refused or malformed first, then an offer that can be taken.
  \cup {Pair(<<Foreign(bad), Foreign(Desc(9, <<AudioBlock, Video("firefox", "sendrecv", 1),
                                              DataBlock(2, TRUE)>>)), Takes>>,
             <<Answering(TRUE), Answering(FALSE), Answering(TRUE), Done>>) :
          bad \in {Desc(9, <<Video("msmt", "sendrecv", 0)>>),
                   Desc(0, <<Video("chrome", "recvonly", 0)>>),
                   Desc(9, <<AudioBlock, DataBlock(1, FALSE), Video("chrome", "inactive", 2)>>)}}

(* Addresses and candidates. *)
Dotted(a, b, c, d) == [colon |-> FALSE, fields |-> <<<<"dotted", <<a, b, c, d>>>>>>]
V4(a, b, c, d) == [family |-> 4, groups |-> <<a, b, c, d>>]
V6(groups) == [family |-> 6, groups |-> groups]
Mdns == [colon |-> FALSE, fields |-> <<<<"name">>>>]
Url(scheme, host, credential, addr, port) ==
  [scheme |-> scheme, host |-> host, credential |-> credential,
   server |-> [addr |-> addr, port |-> port]]
Stun(addr) == Url("stun", Dotted(9, 9, 9, 9), FALSE, addr, 40)
Turn(addr) == Url("turn", Dotted(9, 9, 9, 9), TRUE, addr, 50)
Mapped == [colon |-> TRUE, fields |-> <<<<"::">>, <<"num", 65535>>, <<"dotted", <<10, 0, 0, 1>>>>>>]
Long == [colon |-> TRUE, fields |-> [i \in 1..8 |-> <<"num", IF i \in {1, 8} THEN i ELSE 0>>]]

Addresses ==
  {Pair(<<Servers(<<Url("stun", Mdns, FALSE, V4(8, 8, 8, 8), 1), Stun(V6(g))>>)>>, <<>>) :
     g \in [1..8 -> {0, 5}]}

Gathering ==
  {Pair(<<Channels("a", TRUE, -1), Host(Dotted(10, 0, 0, 1), 30), Offering(TRUE), Answered,
          Host(Dotted(10, 0, 0, 3), 31)>>,
        <<Host(own, 30), Servers(<<Url("stun", Mdns, FALSE, V4(8, 8, 8, 8), 1), Turn(V4(10, 0, 0, 2)),
                                   Url("bad", Mdns, FALSE, V4(8, 8, 8, 8), 1)>>),
          Answering(TRUE)>>) : own \in {Mapped, Long}}
  \cup {Pair(<<Channels("a", TRUE, -1), Servers(<<Stun(V4(20, 0, 0, 1)), Stun(V4(8, 8, 8, 8))>>),
               Offering(TRUE), Host(Dotted(20, 0, 0, 1), 40), Answered>>,
             <<Host(Mdns, 30), Answering(TRUE), Host(Dotted(10, 0, 0, 9), 30)>>)}
  \cup {Pair(<<Servers(<<Stun(V4(10, 0, 0, 1)), Url("turn", Dotted(9, 9, 9, 9), FALSE, V4(8, 8, 8, 8), 1),
                         Turn(V4(8, 8, 8, 8))>>),
               Host(Dotted(10, 0, 0, 1), 40), Host(Dotted(300, 0, 0, 1), 41)>>, <<>>)}

(* Data channels on both sides, under backpressure. *)
Messaging ==
  {Pair(<<Channels("a", TRUE, -1), Offering(TRUE), Answered, Channels("b", FALSE, 0),
          SendOn("a"), SendOn("b")>>,
        <<Answering(TRUE), Channels("x", TRUE, -1), SendOn("a"), SendOn("b"), SendOn("x")>>),
   Pair(<<Channels("a", FALSE, -1), Offering(TRUE), Answered, SendOn("a"), CloseOf("a"),
          Channels("b", TRUE, 1), SendOn("b")>>,
        <<Answering(TRUE), SendOn("a"), Channels("x", TRUE, -1), CloseOf("x"), Channels("y", FALSE, -1)>>),
   Pair(<<Channels("a", TRUE, -1), Channels("b", TRUE, -1), Channels("c", TRUE, -1),
          Channels("d", TRUE, -1), Offering(TRUE), Answered>>, <<Answering(TRUE), SendOn("b")>>)}

AllPrograms == SingleTrack \cup Several \cup Browsers \cup Addresses \cup Gathering \cup Messaging
=============================================================================
