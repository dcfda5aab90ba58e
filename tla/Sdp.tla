--------------------------------- MODULE Sdp ---------------------------------
(***************************************************************************)
(* Session descriptions: what nano_sdp.c keeps, reads and writes, in a     *)
(* build with media transport, H.265 and data channels.                    *)
(*                                                                         *)
(* A description is [setup, ufrag, blocks, candidates, eoc]; ufrag names   *)
(* the credentials (0: none).  A block is one m-line with its attributes   *)
(*   [kind, mid, pts, direction, attrs, twcc, limit]                       *)
(* where pts are the payload types of the m= line, attrs the rtpmap and    *)
(* fmtp lines in their order, twcc the id of the transport-wide extension  *)
(* (0: none) and limit FALSE when a max-message-size line is malformed.    *)
(* A candidate is [text, port, type].                                      *)
(***************************************************************************)
EXTENDS Integers, Sequences, FiniteSets, SequencesExt

CONSTANTS MAX_MEDIA_TRACKS, SDP_MAX_CANDIDATES, TWCC_EXT_ID

Nothing == [text |-> <<>>, port |-> 0]

direction_complement(remote) ==
  CASE remote = "recvonly" -> "sendonly"
    [] remote = "sendonly" -> "recvonly"
    [] remote = "inactive" -> "inactive"
    [] OTHER -> "sendrecv"

sdp_init ==
  [mlines |-> <<>>, mid_count |-> 0, has_datachannel |-> FALSE, dc_mid |-> 0,
   local_setup |-> "passive", remote_setup |-> "actpass",
   local_ufrag |-> 0, remote_ufrag |-> 0,
   local_candidates |-> <<>>, srflx |-> Nothing, relay |-> Nothing,
   remote_candidates |-> <<>>, end_of_candidates |-> FALSE]

\* One m-line of the table: what the caller chose and what the peer said.
Mline(kind, mid, codec) ==
  [kind |-> kind, mid |-> mid, codec |-> codec, pt |-> 0, remote_pt |-> 0,
   direction |-> "sendrecv", remote_direction |-> "sendrecv",
   h264_rtpmap_pt |-> 0, h265_rtpmap_pt |-> 0, h265_reject |-> FALSE, twcc_ext_id |-> 0]

sdp_add_mline(sdp, kind, codec, pt, direction) ==
  [sdp EXCEPT !.mlines = Append(@, [Mline(kind, sdp.mid_count, codec) EXCEPT
                                      !.pt = pt, !.direction = direction]),
              !.mid_count = @ + 1]

-----------------------------------------------------------------------------
(* The parser. *)

\* A receiver that chose H.265 takes its payload type from the rtpmap, before any fmtp.
parse_rtpmap(ml, line) ==
  IF ml.kind # "video" THEN ml
  ELSE IF line.codec = "H264" THEN [ml EXCEPT !.h264_rtpmap_pt = line.pt]
  ELSE IF line.codec = "H265"
  THEN [ml EXCEPT !.h265_rtpmap_pt = line.pt,
                  !.pt = IF ml.codec = "H265" THEN line.pt ELSE @]
  ELSE ml

\* An fmtp line selects its payload type when it describes H.264 in mode 1 (the preferred
\* profile wins), or the H.265 whose rtpmap came before it.
parse_fmtp(ml, line) ==
  LET h264 == line.mode1 /\ ml.h264_rtpmap_pt \in {0, line.pt}
      first == IF h264 /\ ml.codec # "H265" /\ (line.preferred \/ ml.pt = 0)
               THEN line.pt ELSE ml.pt
      h265 == ml.h265_rtpmap_pt # 0 /\ ml.h265_rtpmap_pt = line.pt
  IN IF ml.kind # "video" THEN ml
     ELSE [ml EXCEPT !.pt = IF h265 /\ line.srst /\ (first = 0 \/ ml.codec = "H265")
                            THEN line.pt ELSE first,
                     !.h265_reject = @ \/ (h265 /\ ~line.srst)]

ParseLine(ml, line) == IF line.is = "rtpmap" THEN parse_rtpmap(ml, line) ELSE parse_fmtp(ml, line)

\* The parse clears the whole m-line.
ClearedBlock(block, mid, saved) ==
  LET fresh == [Mline(block.kind, mid, "NONE") EXCEPT !.remote_pt = Head(block.pts)]
  IN [FoldLeft(ParseLine, fresh, block.attrs) EXCEPT
        !.twcc_ext_id = block.twcc, !.remote_direction = block.direction]

\* The codec the caller chose for the m-line of the same index survives the parse.
ParseBlock(block, mid, saved) ==
  LET fresh == [Mline(block.kind, mid, saved) EXCEPT !.remote_pt = Head(block.pts)]
  IN [FoldLeft(ParseLine, fresh, block.attrs) EXCEPT
        !.twcc_ext_id = block.twcc, !.remote_direction = block.direction]

\* The audio and video m-lines among the blocks, as many as the table holds.
ParseMlines(sdp, blocks) ==
  LET media == SelectSeq([i \in 1..Len(blocks) |-> i],
                         LAMBDA i : blocks[i].kind \in {"audio", "video"})
      Saved(k) == IF k <= Len(sdp.mlines) THEN sdp.mlines[k].codec ELSE "NONE"
  IN [k \in 1..Min({Len(media), MAX_MEDIA_TRACKS}) |->
        ParseBlock(blocks[media[k]], media[k] - 1, Saved(k))]

\* Candidate lines are added to the ones an earlier description left.
ParseCandidates(known, told) ==
  known \o SubSeq(told, 1, Min({SDP_MAX_CANDIDATES - Len(known), Len(told)}))

\* Everything up to a malformed line is already in the table when the parser gives up.
sdp_parse(sdp, desc) ==
  LET bad == {i \in 1..Len(desc.blocks) : ~desc.blocks[i].limit}
      last == IF bad = {} THEN Len(desc.blocks) ELSE Min(bad)
      dcs == {i \in 1..last : desc.blocks[i].kind = "application"}
      mlines == ParseMlines(sdp, SubSeq(desc.blocks, 1, last))
      told == IF last = 0 \/ 1 \in bad THEN <<>> ELSE desc.candidates
      ufrag == IF desc.ufrag # 0 THEN desc.ufrag ELSE sdp.remote_ufrag
  IN [sdp |-> [sdp EXCEPT !.mlines = mlines, !.mid_count = last,
                 !.has_datachannel = dcs # {},
                 !.dc_mid = IF dcs = {} THEN @ ELSE Max(dcs) - 1,
                 !.remote_ufrag = ufrag, !.remote_setup = desc.setup,
                 !.remote_candidates = ParseCandidates(@, told),
                 !.end_of_candidates = @ \/ (bad = {} /\ desc.eoc)],
      ok |-> /\ bad = {}
             /\ ufrag # 0
             /\ \A k \in 1..Len(mlines) : ~mlines[k].h265_reject]

-----------------------------------------------------------------------------
(* The generator. *)

sdp_append_datachannel_mline(mid) ==
  [kind |-> "application", mid |-> mid, pts |-> <<>>, direction |-> "sendrecv",
   attrs |-> <<>>, twcc |-> 0, limit |-> TRUE]

\* The name of an audio codec follows from the payload type, not from the track.
sdp_append_audio_mline(ml) ==
  [kind |-> "audio", mid |-> ml.mid, pts |-> <<ml.pt>>, direction |-> ml.direction,
   attrs |-> <<[is |-> "rtpmap", pt |-> ml.pt,
                codec |-> CASE ml.pt = 0 -> "PCMU" [] ml.pt = 8 -> "PCMA" [] OTHER -> "OPUS"]>>,
   twcc |-> 0, limit |-> TRUE]

Twcc(ml) == IF ml.twcc_ext_id # 0 THEN ml.twcc_ext_id ELSE TWCC_EXT_ID

sdp_append_video_mline(ml) ==
  LET codec == IF ml.codec = "H265" THEN "H265" ELSE "H264"
  IN [kind |-> "video", mid |-> ml.mid, pts |-> <<ml.pt>>, direction |-> ml.direction,
      attrs |-> <<[is |-> "rtpmap", pt |-> ml.pt, codec |-> codec],
                  [is |-> "fmtp", pt |-> ml.pt, mode1 |-> codec = "H264",
                   preferred |-> codec = "H264", srst |-> TRUE]>>,
      twcc |-> Twcc(ml), limit |-> TRUE]

\* Host candidates in the order they were added, then the reflexive one, then the relay.
Candidates(sdp) ==
  LET Typed(c, type) == IF c = Nothing THEN <<>>
                        ELSE <<[text |-> c.text, port |-> c.port, type |-> type]>>
  IN FlattenSeq([i \in 1..Len(sdp.local_candidates) |-> Typed(sdp.local_candidates[i], 0)])
       \o Typed(sdp.srflx, 1) \o Typed(sdp.relay, 2)

\* Role and credentials stand in the m-lines: a description without any carries neither.
Transport(sdp, blocks) ==
  IF blocks = <<>> THEN [setup |-> "actpass", ufrag |-> 0]
  ELSE [setup |-> sdp.local_setup, ufrag |-> sdp.local_ufrag]

\* m-lines sorted by mid, the candidates in the first one.
sdp_generate_answer(sdp) ==
  LET Block(ml) == IF ml.kind = "audio" THEN sdp_append_audio_mline(ml) ELSE sdp_append_video_mline(ml)
      media == [i \in 1..Len(sdp.mlines) |-> Block(sdp.mlines[i])]
      blocks == SortSeq(media \o (IF sdp.has_datachannel
                                  THEN <<sdp_append_datachannel_mline(sdp.dc_mid)>> ELSE <<>>),
                        LAMBDA a, b : a.mid < b.mid)
  IN [desc |-> [setup |-> Transport(sdp, blocks).setup, ufrag |-> Transport(sdp, blocks).ufrag,
                blocks |-> blocks, eoc |-> FALSE,
                candidates |-> IF blocks = <<>> THEN <<>> ELSE Candidates(sdp)],
      sdp |-> [sdp EXCEPT !.mlines =
                 [i \in 1..Len(sdp.mlines) |->
                    [sdp.mlines[i] EXCEPT !.twcc_ext_id =
                       IF sdp.mlines[i].kind = "video" THEN Twcc(sdp.mlines[i]) ELSE @]]]]
=============================================================================
