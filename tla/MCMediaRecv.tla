---------------------------- MODULE MCMediaRecv -----------------------------
(***************************************************************************)
(* Builds and traffic of MediaRecv for TLC: sizes of the NALs of each      *)
(* access unit, and the first sequence number of each stream.              *)
(***************************************************************************)
EXTENDS MediaRecv

\* No reorder buffer, a network that keeps the order, a NAL too large for the buffer.
Plain == [kind |-> "video", codec |-> "h264", reorder |-> FALSE, nack |-> FALSE, fec |-> FALSE,
          aus |-> << <<2>>, <<15>>, <<31>>, <<3>> >>, starts |-> <<5, 1>>, copies |-> 0]

\* Reorder buffer and NACK; packets are late, lost and copied.
Nack == [kind |-> "video", codec |-> "h265", reorder |-> TRUE, nack |-> TRUE, fec |-> FALSE,
         aus |-> << <<2, 2>>, <<28>> >>, starts |-> <<5, 1>>, copies |-> 1]

\* Reorder buffer and FEC, which a copied packet would confuse.
Ulpfec == [kind |-> "video", codec |-> "h264", reorder |-> TRUE, nack |-> FALSE, fec |-> TRUE,
           aus |-> << <<2>>, <<15>> >>, starts |-> <<5, 1>>, copies |-> 0]

Audio == [kind |-> "audio", codec |-> "opus", reorder |-> FALSE, nack |-> FALSE, fec |-> FALSE,
          aus |-> << <<2>>, <<2>>, <<2>>, <<2>> >>, starts |-> <<5, 9>>, copies |-> 1]

AllBuilds == [plain |-> Plain, nack |-> Nack, ulpfec |-> Ulpfec, audio |-> Audio]

\* A stream that starts just before its sequence numbers wrap.
Wrapping == [plain |-> [Plain EXCEPT !.aus = << <<2>>, <<2>>, <<2>> >>, !.starts = <<14>>]]
=============================================================================
