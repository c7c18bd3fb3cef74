------------------------------ MODULE Landmarks -----------------------------
(***************************************************************************)
(* From peaks to fingerprints (processor, music_fingerprint/peaks.py from  *)
(* the thinning on, constellation.py, fingerprint.py, hashing.py), for a   *)
(* song and for a clean clip of it, as a client would send one.            *)
(*                                                                         *)
(* A peak is [time, freq, amp]: an STFT frame, an FFT bin, a loudness.     *)
(* What finds the peaks of a spectrogram is outside the model: the clip    *)
(* is cut on the frame grid and shows the peaks the song has there.  A     *)
(* field of a hash is given by its size, 1 << bits.  A configuration is    *)
(* expected to give a distance of the target zone and the version room in  *)
(* their fields (hashing.py 16-17, config.py 92-94).                       *)
(***************************************************************************)
EXTENDS Integers, Sequences, FiniteSets

CONSTANTS
    Songs,      \* songs, each [peaks, frames]: its peaks and its length
    Clips,      \* clips, each [start, frames]
    Fanout, ZoneMin, ZoneMax,           \* FingerprintConfig
    MinFreqBin, MaxFreqBin, FreqSize, DeltaSize, VersionSize,
    HopSize, SampleRate, MaxPeaksPerSecond,
    Version     \* FINGERPRINT_ALGORITHM_VERSION

VARIABLES
    song, clip,     \* the input
    track,          \* which of the two is being fingerprinted, or "done"
    peaks,          \* its constellation, <<>> until it is there
    i, j, found,    \* the loops of _generate_landmarks
    prints          \* track -> its fingerprints, in the order they are made

input == <<song, clip>>
vars == <<input, track, peaks, i, j, found, prints>>

Tracks == {"song", "clip"}

AtLeast(n, m) == IF m < n THEN n ELSE m
AtMost(n, m) == IF m > n THEN n ELSE m

-----------------------------------------------------------------------------
(***************************************************************************)
(* hashing.py                                                              *)
(***************************************************************************)
QuantizeFrequencyBin(bin) ==
    LET span == AtLeast(1, MaxFreqBin - MinFreqBin)
    IN  (AtMost(span, AtLeast(0, bin - MinFreqBin)) * (FreqSize - 1)) \div span

\* What a shift to the left multiplies by: shift_f1 and shift_version.
AnchorUnit == DeltaSize * FreqSize
VersionUnit == AnchorUnit * FreqSize

\* pack_hash: the fields do not overlap, so that `|` adds them up.
PackHash(anchor, target, dt) ==
    Version * VersionUnit + QuantizeFrequencyBin(anchor) * AnchorUnit
        + QuantizeFrequencyBin(target) * DeltaSize + AtMost(DeltaSize - 1, AtLeast(0, dt))

Field(hash, unit, size) == (hash \div unit) % size

UnpackHash(hash) ==
    [version |-> Field(hash, VersionUnit, VersionSize),
     anchor |-> Field(hash, AnchorUnit, FreqSize),
     target |-> Field(hash, DeltaSize, FreqSize),
     delta |-> Field(hash, 1, DeltaSize)]

\* ConstellationMap.time_bin_to_ms: to the nearest millisecond, halves to even.
TimeBinToMs(t) ==
    LET n    == t * HopSize * 1000
        down == n \div SampleRate
        rest == 2 * (n % SampleRate)
    IN  IF rest < SampleRate \/ (rest = SampleRate /\ down % 2 = 0) THEN down ELSE down + 1

-----------------------------------------------------------------------------
(***************************************************************************)
(* detect_peaks, from the candidates on.                                   *)
(***************************************************************************)
Candidates(t) ==
    IF t = "song" THEN song.peaks
    ELSE {[p EXCEPT !.time = @ - clip.start] :
             p \in {q \in song.peaks : q.time \in clip.start..(clip.start + clip.frames - 1)}}

Frames(t) == IF t = "song" THEN song.frames ELSE clip.frames

\* max_peaks, for a duration of whole hops.
MaxPeaks(t) == AtLeast(1, (MaxPeaksPerSecond * Frames(t) * HopSize) \div SampleRate)

Lexicographic(a, b, c, d) == a < c \/ (a = c /\ b < d)

\* np.nonzero goes by frequency, then time, and the sort by loudness is stable.
Louder(p, q) ==
    p.amp > q.amp \/ (p.amp = q.amp /\ Lexicographic(p.freq, p.time, q.freq, q.time))
Earlier(p, q) == Lexicographic(p.time, p.freq, q.time, q.freq)

Thinned(candidates, n) ==
    {p \in candidates : Cardinality({q \in candidates : Louder(q, p)}) < n}

\* peaks.sort, by (time_bin, frequency_bin)
Rank(kept, p) == Cardinality({q \in kept : Earlier(q, p)})

InOrder(kept) ==
    [k \in 1..Cardinality(kept) |-> CHOOSE p \in kept : Rank(kept, p) = k - 1]

\* Mutant: a thinned list stays sorted by loudness.
DetectUnsorted(t) ==
    LET kept == Thinned(Candidates(t), MaxPeaks(t))
    IN  IF kept = Candidates(t) THEN InOrder(kept)
        ELSE [k \in 1..Cardinality(kept) |->
                 CHOOSE p \in kept : Cardinality({q \in kept : Louder(q, p)}) = k - 1]

DetectPeaks(t) == InOrder(Thinned(Candidates(t), MaxPeaks(t)))

-----------------------------------------------------------------------------
Init ==
    /\ song \in Songs /\ clip \in Clips
    /\ track = "song"
    /\ peaks = <<>>
    /\ i = 0 /\ j = 0 /\ found = 0
    /\ prints = [t \in Tracks |-> <<>>]

\* build_constellation
Detect ==
    /\ track \in Tracks /\ i = 0
    /\ peaks' = DetectPeaks(track)
    /\ i' = 1 /\ j' = 2 /\ found' = 0
    /\ UNCHANGED <<input, track, prints>>

Distance == peaks[j].time - peaks[i].time

\* Mutant: the fanout is not asked for.
SearchingOn ==
    /\ track \in Tracks /\ i \in 1..Len(peaks)
    /\ j <= Len(peaks) /\ Distance <= ZoneMax

\* The condition of the inner loop, and that it does not break.
Searching ==
    /\ track \in Tracks /\ i \in 1..Len(peaks)
    /\ j <= Len(peaks) /\ found < Fanout /\ Distance <= ZoneMax

Skip ==
    /\ Searching /\ Distance < ZoneMin
    /\ j' = j + 1
    /\ UNCHANGED <<input, track, peaks, i, found, prints>>

Pair ==
    /\ Searching /\ Distance >= ZoneMin
    /\ prints' = [prints EXCEPT ![track] = Append(@,
           [hash |-> PackHash(peaks[i].freq, peaks[j].freq, Distance),
            offset_ms |-> TimeBinToMs(peaks[i].time)])]
    /\ j' = j + 1 /\ found' = found + 1
    /\ UNCHANGED <<input, track, peaks, i>>

\* Mutant: the count of the anchor before is kept.
NextAnchorCounting ==
    /\ track \in Tracks /\ i \in 1..Len(peaks) /\ ~Searching
    /\ i' = i + 1 /\ j' = i + 2
    /\ UNCHANGED <<input, track, peaks, found, prints>>

NextAnchor ==
    /\ track \in Tracks /\ i \in 1..Len(peaks) /\ ~Searching
    /\ i' = i + 1 /\ j' = i + 2 /\ found' = 0
    /\ UNCHANGED <<input, track, peaks, prints>>

\* The song is fingerprinted at ingestion, the clip when it is recognised.
Return ==
    /\ track \in Tracks /\ i > Len(peaks)
    /\ track' = IF track = "song" THEN "clip" ELSE "done"
    /\ peaks' = <<>>
    /\ i' = 0 /\ j' = 0 /\ found' = 0
    /\ UNCHANGED <<input, prints>>

Next == Detect \/ Skip \/ Pair \/ NextAnchor \/ Return

Spec == Init /\ [][Next]_vars

-----------------------------------------------------------------------------
(***************************************************************************)
(* Properties.                                                             *)
(***************************************************************************)

\* Hashes are unsigned and fit their fields, offsets lie within their track, an
\* anchor has at most Fanout pairs (hashing.py, fingerprint.py).
TypeOK ==
    /\ track \in Tracks \cup {"done"}
    /\ i \in 0..(Len(peaks) + 1) /\ j \in 0..(Len(peaks) + 2) /\ found \in 0..Fanout
    /\ \A t \in Tracks : \A k \in DOMAIN prints[t] :
          /\ prints[t][k].hash \in Nat
          /\ prints[t][k].hash \div VersionUnit = Version
          /\ prints[t][k].offset_ms \in 0..TimeBinToMs(Frames(t))

(***************************************************************************)
(* The reference (docs/fingerprinting.md, "Landmark generation" and "Hash  *)
(* format"): every anchor with the first Fanout peaks of its target zone,  *)
(* and a hash that tells their quantized bins and their distance.          *)
(***************************************************************************)
Zone(kept, a) == {p \in kept : p.time - a.time \in ZoneMin..ZoneMax /\ Earlier(a, p)}

Targets(kept, a) ==
    {p \in Zone(kept, a) : Rank(Zone(kept, a), p) < Fanout}

Documented(t) ==
    LET kept == Thinned(Candidates(t), MaxPeaks(t))
    IN  UNION {{[fields |-> [version |-> Version,
                             anchor |-> QuantizeFrequencyBin(a.freq),
                             target |-> QuantizeFrequencyBin(p.freq),
                             delta |-> p.time - a.time],
                 offset_ms |-> TimeBinToMs(a.time)] : p \in Targets(kept, a)} : a \in kept}

Generated(t) ==
    {[fields |-> UnpackHash(prints[t][k].hash), offset_ms |-> prints[t][k].offset_ms] :
        k \in DOMAIN prints[t]}

(***************************************************************************)
(* The loops, which stop at the first peak beyond the zone, make the       *)
(* documented landmarks and no others, of a thinned list too, and no two   *)
(* of them share a hash by an overlap of its fields (fingerprint.py 27-48, *)
(* hashing.py 44-90).                                                      *)
(***************************************************************************)
LandmarksAreAsDocumented ==
    track = "done" => \A t \in Tracks : Generated(t) = Documented(t)

\* Nothing was thinned out of either track.
Sparse == \A t \in Tracks : Cardinality(Candidates(t)) <= MaxPeaks(t)

\* The rows of the song that carry the hash of fingerprint k of the clip.
RowsOf(k) == {r \in DOMAIN prints["song"] : prints["song"][r].hash = prints["clip"][k].hash}
OffsetOf(r, k) == prints["song"][r].offset_ms - prints["clip"][k].offset_ms

(***************************************************************************)
(* Every landmark of a clean clip is one of the song's, and points to the  *)
(* place the clip was taken from, up to a millisecond of rounding: where   *)
(* the clip cuts a zone short, its targets are still the first of the      *)
(* song's.  Thinning, which ranks the peaks of each track for itself, may  *)
(* undo this (fingerprint.py 27-48, constellation.py 20-21, peaks.py       *)
(* 75-80).                                                                 *)
(***************************************************************************)
ClipPointsToItsPlace ==
    track = "done" /\ Sparse =>
        \A k \in DOMAIN prints["clip"] :
            \E r \in RowsOf(k) :
                OffsetOf(r, k) - TimeBinToMs(clip.start) \in -1..1
=============================================================================
