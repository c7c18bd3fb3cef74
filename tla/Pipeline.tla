------------------------------ MODULE Pipeline ------------------------------
(***************************************************************************)
(* A recording from the processor to the verdict: Landmarks fingerprints   *)
(* a song, its fingerprints become rows of the index, a clip of the song   *)
(* is fingerprinted in its turn and asked for, and MatchingEngine answers. *)
(* A request with ready fingerprints (POST /recognitions as JSON) enters   *)
(* the engine directly; those are the runs that begin at MatchingEngine's  *)
(* own initial states.                                                     *)
(***************************************************************************)
EXTENDS MatchingEngine

CONSTANTS
    Recordings, Clips,
    Fanout, ZoneMin, ZoneMax, MinFreqBin, MaxFreqBin, FreqSize, DeltaSize, VersionSize,
    HopSize, SampleRate, MaxPeaksPerSecond

Peak == [time : Nat, freq : Nat, amp : Int]

\* An FFT bin of an STFT frame has one peak at most.
IsRecording(s) ==
    /\ s.frames \in Nat
    /\ s.peaks \subseteq Peak /\ IsFiniteSet(s.peaks)
    /\ \A p \in s.peaks : p.time < s.frames
    /\ \A p, q \in s.peaks : p.time = q.time /\ p.freq = q.freq => p = q

IsClip(c) == c.start \in Nat /\ c.frames \in Nat

ASSUME PipelineAssumption ==
    /\ \A s \in Recordings : IsRecording(s)
    /\ \A c \in Clips : IsClip(c)
    /\ FreqSize \in Nat \ {0} /\ DeltaSize \in Nat \ {0} /\ Version \in 0..(VersionSize - 1)
    /\ Fanout \in Nat /\ ZoneMin \in Nat /\ ZoneMax \in 0..(DeltaSize - 1)
    /\ MinFreqBin \in Nat /\ MaxFreqBin \in Nat
    /\ VersionSize \in Nat \ {0} /\ HopSize \in Nat /\ SampleRate \in Nat \ {0}
    /\ MaxPeaksPerSecond \in Nat

VARIABLES recording, clip, track, peaks, i, j, paired, prints

Processor == INSTANCE Landmarks WITH Songs <- Recordings, song <- recording, found <- paired

audio == <<recording, clip, track, peaks, i, j, paired, prints>>
pipeline == <<vars, audio>>

-----------------------------------------------------------------------------
\* The processor has no part in a request that brings its fingerprints along.
FromJson ==
    /\ Init
    /\ recording = [peaks |-> {}, frames |-> 0] /\ clip = [start |-> 0, frames |-> 0]
    /\ track = "done"
    /\ peaks = <<>> /\ i = 0 /\ j = 0 /\ paired = 0
    /\ prints = [t \in Processor!Tracks |-> <<>>]

FromAudio ==
    /\ Processor!Init
    /\ table = {} /\ songs = {} /\ query = <<>>
    /\ Fresh

PipelineInit == FromJson \/ FromAudio

Fingerprint ==
    /\ Processor!Detect \/ Processor!Skip \/ Processor!Pair \/ Processor!NextAnchor
    /\ UNCHANGED vars

\* The song's fingerprints are inserted as rows of song 1.
Ingest ==
    /\ track = "song" /\ Processor!Return
    /\ songs' = {1}
    /\ table' = {[row |-> k, hash |-> prints["song"][k].hash, song |-> 1,
                  offset |-> prints["song"][k].offset_ms, version |-> Version] :
                     k \in DOMAIN prints["song"]}
    /\ UNCHANGED request

\* The clip's fingerprints become the query, in the order they were made.
Ask ==
    /\ track = "clip" /\ Processor!Return
    /\ query' = [k \in DOMAIN prints["clip"] |->
                     [hash |-> prints["clip"][k].hash, offset |-> prints["clip"][k].offset_ms]]
    /\ UNCHANGED <<songs, table, found, pending, votes, hits, ranking, pc, outcome>>

Recognize == track = "done" /\ Next /\ UNCHANGED audio

PipelineNext == Fingerprint \/ Ingest \/ Ask \/ Recognize

PipelineSpec == PipelineInit /\ [][PipelineNext]_pipeline

-----------------------------------------------------------------------------
(***************************************************************************)
(* Properties, besides those of MatchingEngine.                            *)
(***************************************************************************)

\* The loops over the peaks and what they produce are well formed
\* (fingerprint.py 20-64).
ProcessorTypeOK == Processor!TypeOK

(***************************************************************************)
(* The fingerprints of song and clip are the documented landmarks of their *)
(* peaks (Landmarks!LandmarksAreAsDocumented; fingerprint.py 20-50,        *)
(* hashing.py 44-90, peaks.py 75-80).                                      *)
(***************************************************************************)
LandmarksAreAsDocumented == pc = "lookup" => Processor!LandmarksAreAsDocumented

(***************************************************************************)
(* Every landmark of a clean clip is one of the song's and points to the   *)
(* place the clip was taken from, give or take a millisecond, unless peaks *)
(* were thinned out (Landmarks!ClipPointsToItsPlace; fingerprint.py 27-48, *)
(* constellation.py 20-21).                                                *)
(***************************************************************************)
ClipPointsToItsPlace == pc = "lookup" => Processor!ClipPointsToItsPlace

(***************************************************************************)
(* A clean clip keeps at least half of its votes.  The milliseconds of     *)
(* song and clip are rounded separately, and a place beside the border of  *)
(* a bucket has its votes split over the border; what is left in the       *)
(* dominant bucket is one vote for every two landmarks or more, which is   *)
(* what the thresholds of the gates have to work with.  It takes the       *)
(* landmarks of the processor, its rounding, the buckets of the backend    *)
(* and its choice among them (constellation.py 20-21, voting.rs 30-46,     *)
(* 80-127).                                                                *)
(***************************************************************************)
ClipKeepsHalfItsVotes ==
    pc = "vote" /\ pending = {} /\ recording.frames > 0 /\ Processor!Sparse =>
        2 * DominantVotes(votes, 1) >= Len(query)
=============================================================================
