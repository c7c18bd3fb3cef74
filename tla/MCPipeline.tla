----------------------------- MODULE MCPipeline -----------------------------
(***************************************************************************)
(* The catalogue and queries of MCMatchingEngine, and songs of up to four  *)
(* peaks with clips of them under the processor's defaults (STFT and       *)
(* FingerprintConfig), but for a fanout of 2 and one peak per second.      *)
(*                                                                         *)
(* With 46.4 ms to a frame, a clip from frame 4 or 7 has landmarks on both *)
(* sides of the border of a bucket.  A song of 140 frames may keep six     *)
(* peaks, a clip of 90 four, and a clip of 45 only two.                    *)
(***************************************************************************)
EXTENDS MCMatchingEngine, Pipeline

PeakAt(t, f, a) == [time |-> t, freq |-> f, amp |-> a]

\* Equal bins at equal distances, the borders of the bins, equal loudness, a
\* peak beyond every zone but the last one's.
SongPeaks ==
    {PeakAt(4, 300, 2), PeakAt(7, 1858, 1), PeakAt(9, 300, 3), PeakAt(10, 14, 2),
     PeakAt(14, 300, 2), PeakAt(24, 14, 2), PeakAt(110, 300, 1)}

MCRecordings ==
    {[peaks |-> kept, frames |-> 140] :
        kept \in {p \in SUBSET SongPeaks : Cardinality(p) \in 2..4}}

MCClips ==
    {[start |-> 0, frames |-> 45], [start |-> 4, frames |-> 90], [start |-> 7, frames |-> 110]}
=============================================================================
