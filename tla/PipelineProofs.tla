--------------------------- MODULE PipelineProofs ---------------------------
(***************************************************************************)
(* Proofs about module Pipeline: what the processor makes of a recording,  *)
(* for any recording, clip and configuration, and what becomes of it in    *)
(* the matching engine, whose own invariant holds along the pipeline.      *)
(***************************************************************************)
EXTENDS Pipeline, MatchingEngineProofs

-----------------------------------------------------------------------------
(***************************************************************************)
(* Sorting.                                                                *)
(***************************************************************************)

\* What detect_peaks and the clip are about.
Constellation(kept) ==
    /\ IsFiniteSet(kept) /\ kept \subseteq Peak
    /\ \A p, q \in kept : p.time = q.time /\ p.freq = q.freq => p = q

Below(kept, p) == {q \in kept : Processor!Earlier(q, p)}

\* Peaks are ordered by time and, within a frame, by frequency.
LEMMA EarlierIsOrder ==
    ASSUME NEW kept, Constellation(kept)
    PROVE  /\ \A p \in kept : ~Processor!Earlier(p, p)
           /\ \A p, q \in kept : p = q \/ Processor!Earlier(p, q) \/ Processor!Earlier(q, p)
           /\ \A p, q, r \in kept :
                 Processor!Earlier(p, q) /\ Processor!Earlier(q, r) => Processor!Earlier(p, r)
           /\ \A p, q \in kept : Processor!Earlier(p, q) => p.time <= q.time
<1>1. \A p \in kept : p.time \in Nat /\ p.freq \in Nat
    BY DEF Constellation, Peak
<1>2. \A p, q : Processor!Earlier(p, q) <=>
          p.time < q.time \/ (p.time = q.time /\ p.freq < q.freq)
    BY DEF Processor!Earlier, Processor!Lexicographic
<1>3. \A p \in kept : ~Processor!Earlier(p, p)
    BY <1>1, <1>2
<1>4. \A p, q \in kept : p = q \/ Processor!Earlier(p, q) \/ Processor!Earlier(q, p)
  <2> TAKE p, q \in kept
  <2>1. \/ p.time = q.time /\ p.freq = q.freq
        \/ Processor!Earlier(p, q) \/ Processor!Earlier(q, p)
      BY <1>1, <1>2
  <2>2. QED
      BY <2>1 DEF Constellation
<1>5. \A p, q, r \in kept :
          Processor!Earlier(p, q) /\ Processor!Earlier(q, r) => Processor!Earlier(p, r)
    BY <1>1, <1>2
<1>6. \A p, q \in kept : Processor!Earlier(p, q) => p.time <= q.time
    BY <1>1, <1>2
<1>7. QED
    BY <1>3, <1>4, <1>5, <1>6

\* The processor counts with its own instance of FiniteSets.
LEMMA SameCount == \A S : Processor!Cardinality(S) = Cardinality(S)
BY DEF Processor!Cardinality, Cardinality

LEMMA RankCounts ==
    \A kept, p : Processor!Rank(kept, p) = Cardinality(Below(kept, p))
BY SameCount DEF Processor!Rank, Below

\* The sort leaves every peak in one place, in order.
LEMMA InOrderIsSorted ==
    ASSUME NEW kept, Constellation(kept)
    PROVE  LET seq == Processor!InOrder(kept)
           IN  /\ seq \in Seq(kept) /\ Len(seq) = Cardinality(kept) /\ Len(seq) \in Nat
               /\ DOMAIN seq = 1..Len(seq)
               /\ \A n \in 1..Len(seq) : seq[n] \in kept
               /\ \A p \in kept : \E n \in 1..Len(seq) : seq[n] = p
               /\ \A m, n \in 1..Len(seq) : m < n <=> Processor!Earlier(seq[m], seq[n])
               /\ \A m, n \in 1..Len(seq) : m < n => seq[m].time <= seq[n].time
<1> DEFINE size == Cardinality(kept)
           ranks == 0..(size - 1)
           rank == [p \in kept |-> Cardinality(Below(kept, p))]
           seq == Processor!InOrder(kept)
<1>1. IsFiniteSet(kept) /\ size \in Nat
    BY FS_CardinalityType DEF Constellation
<1>2. \A p \in kept : IsFiniteSet(Below(kept, p)) /\ Below(kept, p) \subseteq kept /\ p \notin Below(kept, p)
  <2> TAKE p \in kept
  <2>1. Below(kept, p) \subseteq kept
      BY DEF Below
  <2>2. p \notin Below(kept, p)
      BY EarlierIsOrder DEF Below
  <2>3. QED
      BY <1>1, <2>1, <2>2, FS_Subset
<1>3. ASSUME NEW p \in kept PROVE rank[p] \in ranks
  <2>1. rank[p] \in Nat /\ rank[p] <= size
      BY <1>1, <1>2, FS_Subset, FS_CardinalityType
  <2>2. rank[p] # size
      BY <1>1, <1>2, FS_Subset
  <2>3. QED
      BY <1>1, <2>1, <2>2
<1>4. ASSUME NEW p \in kept, NEW q \in kept, Processor!Earlier(p, q)
      PROVE  rank[p] < rank[q]
  <2>1. Below(kept, p) \subseteq Below(kept, q)
      BY <1>4, EarlierIsOrder DEF Below
  <2>2. p \in Below(kept, q) /\ p \notin Below(kept, p)
      BY <1>2, <1>4 DEF Below
  <2>3. /\ Cardinality(Below(kept, p)) <= Cardinality(Below(kept, q))
        /\ Cardinality(Below(kept, p)) # Cardinality(Below(kept, q))
      BY <1>2, <2>1, <2>2, FS_Subset
  <2>4. Cardinality(Below(kept, p)) \in Nat /\ Cardinality(Below(kept, q)) \in Nat
      BY <1>2, FS_CardinalityType
  <2>5. QED
      BY <2>3, <2>4
<1>5. \A p \in kept : rank[p] \in Int
    BY <1>1, <1>3
<1> HIDE DEF rank
<1>6. \A p, q \in kept : rank[p] = rank[q] => p = q
    BY <1>4, <1>5, EarlierIsOrder
<1>7. \A p, q \in kept : Processor!Earlier(p, q) <=> rank[p] < rank[q]
    BY <1>4, <1>5, EarlierIsOrder
<1>8. rank \in [kept -> ranks]
    BY <1>3 DEF rank
<1>9. rank \in Injection(kept, ranks)
    BY <1>6, <1>8 DEF Injection, IsInjective
<1>10. IsFiniteSet(ranks) /\ Cardinality(ranks) = size
    BY <1>1, FS_Interval
<1>11. rank \in Surjection(kept, ranks)
  <2> HIDE DEF ranks
  <2>1. Cardinality(kept) = Cardinality(ranks) <=> rank \in Surjection(kept, ranks)
      BY <1>9, <1>10, FS_Injection
  <2>2. QED
      BY <1>10, <2>1
<1>12. \A n \in 1..size : n - 1 \in ranks
    BY <1>1
<1>13. ASSUME NEW n \in 1..size PROVE seq[n] \in kept /\ rank[seq[n]] = n - 1
  <2>1. \E p \in kept : rank[p] = n - 1
      BY <1>11, <1>12 DEF Surjection
  <2>2. seq[n] = CHOOSE p \in kept : Processor!Rank(kept, p) = n - 1
      BY SameCount DEF Processor!InOrder
  <2>3. \A p \in kept : rank[p] = Processor!Rank(kept, p)
      BY RankCounts DEF rank
  <2> HIDE DEF seq
  <2>4. QED
      BY <2>1, <2>2, <2>3
<1>14. DOMAIN seq = 1..size /\ seq \in [1..size -> kept]
    BY <1>13, SameCount DEF Processor!InOrder
<1> HIDE DEF seq
<1>15. seq \in Seq(kept) /\ Len(seq) = size
    BY <1>1, <1>14
<1>16. \A p \in kept : \E n \in 1..size : seq[n] = p
  <2> TAKE p \in kept
  <2>1. rank[p] + 1 \in 1..size
      BY <1>1, <1>3
  <2>2. seq[rank[p] + 1] \in kept /\ rank[seq[rank[p] + 1]] = rank[p]
      BY <1>5, <1>13, <2>1
  <2>3. QED
      BY <1>6, <2>1, <2>2
<1>17. \A m, n \in 1..size : m < n <=> Processor!Earlier(seq[m], seq[n])
    BY <1>1, <1>7, <1>13
<1>18. \A m, n \in 1..size : m < n => seq[m].time <= seq[n].time
    BY <1>13, <1>17, EarlierIsOrder
<1>19. QED
    BY <1>1, <1>13, <1>14, <1>15, <1>16, <1>17, <1>18 DEF seq

-----------------------------------------------------------------------------
(***************************************************************************)
(* The peaks of a track.                                                   *)
(***************************************************************************)

Kept(t) == Processor!Thinned(Processor!Candidates(t), Processor!MaxPeaks(t))
Line(t) == Processor!DetectPeaks(t)

\* They are a matter of the input only.
LEMMA LinesStay ==
    ASSUME UNCHANGED <<recording, clip>>, NEW t
    PROVE  /\ Processor!Candidates(t)' = Processor!Candidates(t)
           /\ Processor!Frames(t)' = Processor!Frames(t)
           /\ Processor!MaxPeaks(t)' = Processor!MaxPeaks(t)
           /\ Kept(t)' = Kept(t)
           /\ Line(t)' = Line(t)
<1>1. recording' = recording /\ clip' = clip
    OBVIOUS
<1>2. Processor!Candidates(t)' = Processor!Candidates(t)
    BY <1>1 DEF Processor!Candidates
<1>3. Processor!Frames(t)' = Processor!Frames(t)
    BY <1>1 DEF Processor!Frames
<1>4. Processor!MaxPeaks(t)' = Processor!MaxPeaks(t)
    BY <1>3 DEF Processor!MaxPeaks
<1>5. Kept(t)' = Kept(t)
    BY <1>2, <1>4 DEF Kept
<1>6. Line(t)' = Line(t)
    BY <1>5 DEF Kept, Line, Processor!DetectPeaks
<1>7. QED
    BY <1>2, <1>3, <1>4, <1>5, <1>6

LEMMA MeasuresAreNumbers ==
    ASSUME IsRecording(recording), IsClip(clip), NEW t
    PROVE  Processor!Frames(t) \in Nat /\ Processor!MaxPeaks(t) \in Nat \ {0}
<1>1. Processor!Frames(t) \in Nat
    BY DEF Processor!Frames, IsRecording, IsClip
<1> DEFINE frames == Processor!Frames(t)
           total == MaxPeaksPerSecond * frames * HopSize
<1>2. MaxPeaksPerSecond \in Nat /\ HopSize \in Nat /\ SampleRate \in Nat \ {0}
    BY PipelineAssumption
<1>3. total \in Nat
  <2> HIDE DEF frames
  <2>1. \A a, b, c \in Nat : a * b * c \in Nat
      BY SMT
  <2>2. QED
      BY <1>1, <1>2, <2>1 DEF frames
<1>4. total \div SampleRate \in Nat
    BY <1>2, <1>3
<1>5. Processor!MaxPeaks(t) = Processor!AtLeast(1, total \div SampleRate)
    BY DEF Processor!MaxPeaks
<1> HIDE DEF total
<1>6. QED
    BY <1>1, <1>4, <1>5 DEF Processor!AtLeast

\* The song's peaks, and those of a clip on the clip's own clock.
LEMMA CandidatesAreConstellation ==
    ASSUME IsRecording(recording), IsClip(clip), NEW t \in Processor!Tracks
    PROVE  /\ Constellation(Processor!Candidates(t))
           /\ \A p \in Processor!Candidates(t) : p.time < Processor!Frames(t)
<1>1. /\ recording.frames \in Nat
      /\ recording.peaks \subseteq Peak /\ IsFiniteSet(recording.peaks)
      /\ \A p \in recording.peaks : p.time < recording.frames
      /\ \A p, q \in recording.peaks : p.time = q.time /\ p.freq = q.freq => p = q
      /\ clip.start \in Nat /\ clip.frames \in Nat
    BY DEF IsRecording, IsClip
<1>2. CASE t = "song"
  <2>1. Processor!Candidates(t) = recording.peaks /\ Processor!Frames(t) = recording.frames
      BY <1>2 DEF Processor!Candidates, Processor!Frames
  <2>2. QED
      BY <1>1, <2>1 DEF Constellation
<1>3. CASE t = "clip"
  <2> DEFINE shown == {q \in recording.peaks : q.time \in clip.start..(clip.start + clip.frames - 1)}
             cut == Processor!Candidates(t)
             f == [p \in shown |-> [p EXCEPT !.time = @ - clip.start]]
  <2>1. cut = {f[p] : p \in shown} /\ Processor!Frames(t) = clip.frames
      BY <1>3 DEF Processor!Candidates, Processor!Frames
  <2>2. ASSUME NEW p \in shown
        PROVE  /\ p \in Peak /\ f[p] \in Peak
               /\ f[p].time = p.time - clip.start /\ f[p].freq = p.freq /\ f[p].amp = p.amp
               /\ f[p].time < clip.frames
    <3>1. p \in Peak /\ p.time \in clip.start..(clip.start + clip.frames - 1)
        BY <1>1
    <3>2. p = [time |-> p.time, freq |-> p.freq, amp |-> p.amp]
          /\ p.time \in Nat /\ p.freq \in Nat /\ p.amp \in Int
        BY <3>1 DEF Peak
    <3>3. f[p] = [time |-> p.time - clip.start, freq |-> p.freq, amp |-> p.amp]
        BY <3>2
    <3>4. p.time - clip.start \in Nat /\ p.time - clip.start < clip.frames
        BY <1>1, <3>1, <3>2
    <3> HIDE DEF f
    <3>5. QED
        BY <3>1, <3>2, <3>3, <3>4 DEF Peak
  <2>3. IsFiniteSet(shown)
      BY <1>1, FS_Subset
  <2>4. f \in [shown -> cut] /\ \A c \in cut : \E p \in shown : f[p] = c
      BY <2>1
  <2> HIDE DEF f, shown, cut
  <2>5. IsFiniteSet(cut)
      BY <2>3, <2>4, MappedOnto
  <2>6. cut \subseteq Peak /\ \A c \in cut : c.time < clip.frames
      BY <2>2, <2>4
  <2>7. ASSUME NEW c \in cut, NEW d \in cut, c.time = d.time, c.freq = d.freq PROVE c = d
    <3>1. PICK p \in shown : f[p] = c
        BY <2>4
    <3>2. PICK q \in shown : f[q] = d
        BY <2>4
    <3>3. p.time - clip.start = q.time - clip.start /\ p.freq = q.freq
        BY <2>2, <2>7, <3>1, <3>2
    <3>4. p.time \in Nat /\ q.time \in Nat
        BY <2>2 DEF Peak
    <3>5. p.time = q.time
        BY <1>1, <3>3, <3>4
    <3>6. p \in recording.peaks /\ q \in recording.peaks
        BY DEF shown
    <3>7. QED
        BY <1>1, <3>1, <3>2, <3>3, <3>5, <3>6
  <2>8. QED
      BY <2>1, <2>5, <2>6, <2>7 DEF Constellation, cut
<1>4. QED
    BY <1>2, <1>3 DEF Processor!Tracks

LEMMA KeptIsConstellation ==
    ASSUME IsRecording(recording), IsClip(clip), NEW t \in Processor!Tracks
    PROVE  /\ Constellation(Kept(t))
           /\ Kept(t) \subseteq Processor!Candidates(t)
           /\ \A p \in Kept(t) : p \in Peak /\ p.time < Processor!Frames(t)
<1>1. Kept(t) \subseteq Processor!Candidates(t)
    BY DEF Kept, Processor!Thinned
<1>2. IsFiniteSet(Kept(t))
    BY <1>1, CandidatesAreConstellation, FS_Subset DEF Constellation
<1>3. QED
    BY <1>1, <1>2, CandidatesAreConstellation DEF Constellation

\* A list of peaks in the order of their frames.
InTime(q) ==
    /\ Len(q) \in Nat /\ DOMAIN q = 1..Len(q)
    /\ \A n \in 1..Len(q) : q[n] \in Peak
    /\ \A m, n \in 1..Len(q) : m < n => q[m].time <= q[n].time

LEMMA LineIsInTime ==
    ASSUME IsRecording(recording), IsClip(clip), NEW t \in Processor!Tracks
    PROVE  /\ InTime(Line(t))
           /\ \A n \in 1..Len(Line(t)) : Line(t)[n] \in Kept(t)
           /\ \A p \in Kept(t) : \E n \in 1..Len(Line(t)) : Line(t)[n] = p
           /\ \A m, n \in 1..Len(Line(t)) : m < n <=> Processor!Earlier(Line(t)[m], Line(t)[n])
<1>1. Line(t) = Processor!InOrder(Kept(t))
    BY DEF Line, Kept, Processor!DetectPeaks
<1>2. Constellation(Kept(t)) /\ \A p \in Kept(t) : p \in Peak
    BY KeptIsConstellation
<1> HIDE DEF Kept
<1>3. QED
    BY <1>1, <1>2, InOrderIsSorted DEF InTime

-----------------------------------------------------------------------------
(***************************************************************************)
(* The hash and its fields (hashing.py).                                   *)
(***************************************************************************)

LEMMA Multiples ==
    /\ \A a, b \in Nat : a * b \in Nat
    /\ \A a, b, s \in Nat : a <= b => a * s <= b * s
    /\ \A a, b, s \in Nat : a < b => a * s + s <= b * s
<1>1. \A a, b \in Nat : a * b \in Nat
    BY SMT
<1>2. \A a, b, d, s \in Nat : b = a + d => b * s = a * s + d * s /\ d * s \in Nat
    BY SMT
<1>3. \A a, b, s \in Nat : a <= b => a * s <= b * s
  <2> SUFFICES ASSUME NEW a \in Nat, NEW b \in Nat, NEW s \in Nat, a <= b PROVE a * s <= b * s
      OBVIOUS
  <2>1. b - a \in Nat /\ b = a + (b - a)
      OBVIOUS
  <2>2. b * s = a * s + (b - a) * s /\ (b - a) * s \in Nat
      BY <1>2, <2>1
  <2>3. a * s \in Nat
      BY <1>1
  <2>4. QED
      BY <2>2, <2>3
<1>4. \A a, s \in Nat : (a + 1) * s = a * s + s
    BY SMT
<1>5. \A a, b, s \in Nat : a < b => a * s + s <= b * s
  <2> SUFFICES ASSUME NEW a \in Nat, NEW b \in Nat, NEW s \in Nat, a < b PROVE a * s + s <= b * s
      OBVIOUS
  <2>1. a + 1 \in Nat /\ a + 1 <= b
      OBVIOUS
  <2>2. QED
      BY <1>3, <1>4, <2>1
<1>6. QED
    BY <1>1, <1>3, <1>5

\* Quotient and remainder are the only ones there are.
LEMMA Division ==
    ASSUME NEW s \in Nat \ {0}, NEW n \in Nat
    PROVE  /\ n \div s \in Nat /\ n % s \in 0..(s - 1)
           /\ n = (n \div s) * s + (n % s)
           /\ \A x \in Nat, r \in 0..(s - 1) : n = x * s + r => n \div s = x /\ n % s = r
<1>1. /\ n \div s \in Nat /\ n % s \in 0..(s - 1)
      /\ n = (n \div s) * s + (n % s)
    BY SMT
<1>2. ASSUME NEW x \in Nat, NEW r \in 0..(s - 1), n = x * s + r
      PROVE  n \div s = x /\ n % s = r
  <2> DEFINE y == n \div s
             z == n % s
  <2>1. y \in Nat /\ z \in 0..(s - 1) /\ n = y * s + z
      BY <1>1
  <2> HIDE DEF y, z
  <2>2. x * s \in Nat /\ y * s \in Nat /\ s \in Nat
      BY <2>1, Multiples
  <2>3. y < x => y * s + s <= x * s
      BY <2>1, <2>2, Multiples
  <2>4. x < y => x * s + s <= y * s
      BY <2>1, <2>2, Multiples
  <2>5. ~(y < x) /\ ~(x < y)
      BY <1>2, <2>1, <2>2, <2>3, <2>4
  <2>6. x = y
      BY <2>1, <2>5
  <2>7. r = z
      BY <1>2, <2>1, <2>2, <2>6
  <2>8. QED
      BY <2>6, <2>7 DEF y, z
<1>3. QED
    BY <1>1, <1>2

\* n is x times s and r more.
Composed(n, x, s, r) == n = x * s + r

LEMMA Divides ==
    ASSUME NEW s \in Nat \ {0}, NEW x \in Nat, NEW r \in 0..(s - 1), NEW n \in Nat,
           Composed(n, x, s, r)
    PROVE  n \div s = x /\ n % s = r
BY Division DEF Composed

\* A bin is one of FreqSize, however far out of the band it is.
LEMMA QuantizedBin ==
    ASSUME NEW bin \in Nat
    PROVE  Processor!QuantizeFrequencyBin(bin) \in 0..(FreqSize - 1)
<1> DEFINE span == Processor!AtLeast(1, MaxFreqBin - MinFreqBin)
           inside == Processor!AtMost(span, Processor!AtLeast(0, bin - MinFreqBin))
           top == FreqSize - 1
<1>1. MinFreqBin \in Nat /\ MaxFreqBin \in Nat /\ FreqSize \in Nat \ {0}
    BY PipelineAssumption
<1>2. span \in Nat \ {0} /\ inside \in Nat /\ inside <= span /\ top \in Nat
    BY <1>1 DEF Processor!AtLeast, Processor!AtMost
<1>3. Processor!QuantizeFrequencyBin(bin) = (inside * top) \div span
    BY DEF Processor!QuantizeFrequencyBin
<1> HIDE DEF span, inside, top
<1>4. inside * top \in Nat /\ inside * top <= span * top
    BY <1>2, Multiples
<1> DEFINE y == (inside * top) \div span
           z == (inside * top) % span
<1>5. y \in Nat /\ z \in Nat /\ inside * top = y * span + z
  <2> DEFINE n == inside * top
  <2>1. n \in Nat /\ span \in Nat \ {0}
      BY <1>2, <1>4
  <2> HIDE DEF n
  <2>2. n \div span \in Nat /\ n % span \in 0..(span - 1) /\ n = (n \div span) * span + (n % span)
      BY <2>1, Division
  <2>3. QED
      BY <2>1, <2>2 DEF n
<1> HIDE DEF y, z
<1>6. y * span \in Nat /\ span \in Nat
    BY <1>2, <1>5, Multiples
<1>7. top < y => top * span + span <= y * span
    BY <1>2, <1>5, <1>6, Multiples
<1>8. span * top = top * span /\ top * span \in Nat
    BY <1>2, <1>6, Multiples
<1>9. ~(top < y)
    BY <1>2, <1>4, <1>5, <1>6, <1>7, <1>8
<1>10. QED
    BY <1>1, <1>2, <1>3, <1>5, <1>9 DEF top, y


\* The fields v, a, b and d, one beside the other.
Packed(hash, F, D, v, a, b, d) == hash = v * ((D * F) * F) + a * (D * F) + b * D + d

\* They can be read again.
LEMMA FieldsApart ==
    ASSUME NEW F \in Nat \ {0}, NEW D \in Nat \ {0}, NEW v \in Nat,
           NEW a \in 0..(F - 1), NEW b \in 0..(F - 1), NEW d \in 0..(D - 1),
           NEW hash, Packed(hash, F, D, v, a, b, d)
    PROVE  /\ hash \in Nat
           /\ hash \div ((D * F) * F) = v
           /\ (hash \div (D * F)) % F = a
           /\ (hash \div D) % F = b
           /\ hash % D = d
<1>1. \A x, y \in Nat \ {0} : x * y \in Nat \ {0}
    BY SMT
<1>2. PICK AU \in Nat \ {0} : AU = D * F
    BY <1>1
<1>3. PICK VU \in Nat \ {0} : VU = AU * F
    BY <1>1
<1>4. PICK low \in 0..(AU - 1) : low = b * D + d
  <2>1. b * D \in Nat /\ b * D + D <= F * D /\ F * D = D * F
      BY Multiples
  <2>2. b * D + d \in 0..(AU - 1)
      BY <1>2, <2>1
  <2>3. QED
      BY <2>2
<1>5. PICK mid \in 0..(VU - 1) : mid = a * AU + low
  <2>1. a * AU \in Nat /\ a * AU + AU <= F * AU /\ F * AU = AU * F
      BY Multiples
  <2>2. a * AU + low \in 0..(VU - 1)
      BY <1>3, <2>1
  <2>3. QED
      BY <2>2
<1>6. PICK high \in Nat : high = v * F + a
    BY Multiples
<1>7. PICK upper \in Nat : upper = high * F + b
    BY Multiples
<1>8. PICK n \in Nat : n = v * VU + mid
    BY Multiples
<1>9. n = high * AU + low
  <2>1. \A x, y, s, w \in Nat : x * (s * w) + y * s = (x * w + y) * s
      BY SMT
  <2>2. v * (AU * F) + a * AU = high * AU
      BY <1>6, <2>1
  <2>3. QED
      BY <1>3, <1>5, <1>8, <2>2
<1>10. n = upper * D + d
  <2>1. \A x, y, s, w \in Nat : x * (s * w) + y * s = (x * w + y) * s
      BY SMT
  <2>2. high * (D * F) + b * D = upper * D
      BY <1>7, <2>1
  <2>3. QED
      BY <1>2, <1>4, <1>9, <2>2
<1>11. hash = n
  <2>1. v * VU = v * ((D * F) * F) /\ a * AU = a * (D * F)
      BY <1>2, <1>3
  <2>2. v * VU \in Nat /\ a * AU \in Nat /\ b * D \in Nat
      BY Multiples
  <2>3. n = v * VU + a * AU + b * D + d
      BY <1>4, <1>5, <1>8, <2>2
  <2>4. QED
      BY <2>1, <2>3 DEF Packed
<1>12. n \div VU = v
  <2>1. Composed(n, v, VU, mid)
      BY <1>8 DEF Composed
  <2>2. QED
      BY <2>1, Divides
<1>13. n \div AU = high /\ high % F = a
  <2>1. Composed(n, high, AU, low) /\ Composed(high, v, F, a)
      BY <1>6, <1>9 DEF Composed
  <2>2. QED
      BY <2>1, Divides
<1>14. n \div D = upper /\ n % D = d /\ upper % F = b
  <2>1. Composed(n, upper, D, d) /\ Composed(upper, high, F, b)
      BY <1>7, <1>10 DEF Composed
  <2>2. QED
      BY <2>1, Divides
<1>15. QED
    BY <1>2, <1>3, <1>11, <1>12, <1>13, <1>14

\* Every field can be told from the hash.
LEMMA HashIsPacked ==
    ASSUME NEW f \in Nat, NEW g \in Nat, NEW dt \in 0..ZoneMax
    PROVE  /\ Processor!PackHash(f, g, dt) \in Nat
           /\ Processor!PackHash(f, g, dt) \div Processor!VersionUnit = Version
           /\ Processor!UnpackHash(Processor!PackHash(f, g, dt)) =
                  [version |-> Version,
                   anchor |-> Processor!QuantizeFrequencyBin(f),
                   target |-> Processor!QuantizeFrequencyBin(g),
                   delta |-> dt]
<1> DEFINE hash == Processor!PackHash(f, g, dt)
<1>1. PICK F \in Nat \ {0}, D \in Nat \ {0}, v \in Nat :
          F = FreqSize /\ D = DeltaSize /\ v = Version
    BY PipelineAssumption
<1>2. dt \in 0..(D - 1) /\ VersionSize \in Nat \ {0} /\ Version \in 0..(VersionSize - 1)
    BY <1>1, PipelineAssumption
<1>3. PICK a \in 0..(F - 1), b \in 0..(F - 1) :
          a = Processor!QuantizeFrequencyBin(f) /\ b = Processor!QuantizeFrequencyBin(g)
    BY <1>1, QuantizedBin
<1>4. Processor!AtMost(DeltaSize - 1, Processor!AtLeast(0, dt)) = dt
    BY <1>1, <1>2 DEF Processor!AtMost, Processor!AtLeast
<1>5. Processor!AnchorUnit = D * F /\ Processor!VersionUnit = (D * F) * F
    BY <1>1 DEF Processor!AnchorUnit, Processor!VersionUnit
<1>6. Packed(hash, F, D, v, a, b, dt)
    BY <1>1, <1>3, <1>4, <1>5 DEF Processor!PackHash, Packed
<1>7. Processor!UnpackHash(hash) =
          [version |-> (hash \div ((D * F) * F)) % VersionSize,
           anchor |-> (hash \div (D * F)) % F,
           target |-> (hash \div D) % F,
           delta |-> (hash \div 1) % D]
    BY <1>1, <1>5 DEF Processor!UnpackHash, Processor!Field
<1> HIDE DEF hash
<1>8. /\ hash \in Nat
      /\ hash \div ((D * F) * F) = v
      /\ (hash \div (D * F)) % F = a
      /\ (hash \div D) % F = b
      /\ hash % D = dt
    BY <1>1, <1>2, <1>3, <1>6, FieldsApart
<1>9. hash \div 1 = hash /\ Version % VersionSize = Version
    BY <1>2, <1>8
<1>10. QED
    BY <1>1, <1>3, <1>5, <1>7, <1>8, <1>9 DEF hash
-----------------------------------------------------------------------------
(***************************************************************************)
(* Frames in milliseconds (constellation.py 20-21).                        *)
(***************************************************************************)

\* The exact time of frame t, in thousandths of a sample.
Exact(t) == t * HopSize * 1000

LEMMA ExactIsLinear ==
    /\ \A t \in Nat : Exact(t) \in Nat
    /\ \A t, u \in Nat : Exact(t + u) = Exact(t) + Exact(u)
    /\ \A t, u \in Nat : t <= u => Exact(t) <= Exact(u)
<1>1. PICK h \in Nat : h = HopSize
    BY PipelineAssumption
<1>2. \A t \in Nat : t * h \in Nat /\ Exact(t) = 1000 * (t * h)
  <2> TAKE t \in Nat
  <2>1. t * h \in Nat
      BY Multiples
  <2>2. \A n \in Nat : n * 1000 = 1000 * n
      OBVIOUS
  <2>3. QED
      BY <1>1, <2>1, <2>2 DEF Exact
<1>3. \A t, u \in Nat : (t + u) * h = t * h + u * h
    BY SMT
<1>4. \A t \in Nat : Exact(t) \in Nat
    BY <1>2
<1>5. \A t, u \in Nat : Exact(t + u) = Exact(t) + Exact(u)
  <2> TAKE t \in Nat, u \in Nat
  <2>1. Exact(t + u) = 1000 * ((t + u) * h) /\ Exact(t) = 1000 * (t * h) /\ Exact(u) = 1000 * (u * h)
      BY <1>2
  <2>2. t * h \in Nat /\ u * h \in Nat /\ (t + u) * h = t * h + u * h
      BY <1>2, <1>3
  <2>3. QED
      BY <2>1, <2>2
<1>6. \A t, u \in Nat : t <= u => Exact(t) <= Exact(u)
  <2> SUFFICES ASSUME NEW t \in Nat, NEW u \in Nat, t <= u PROVE Exact(t) <= Exact(u)
      OBVIOUS
  <2>1. u - t \in Nat /\ u = t + (u - t)
      OBVIOUS
  <2>2. Exact(u) = Exact(t) + Exact(u - t)
      BY <1>5, <2>1
  <2>3. QED
      BY <1>4, <2>1, <2>2
<1>7. QED
    BY <1>4, <1>5, <1>6

\* The milliseconds are the nearest there are.
LEMMA NearestMs ==
    ASSUME NEW t \in Nat
    PROVE  /\ Processor!TimeBinToMs(t) \in Nat
           /\ -SampleRate <= 2 * (Exact(t) - Processor!TimeBinToMs(t) * SampleRate)
           /\ 2 * (Exact(t) - Processor!TimeBinToMs(t) * SampleRate) <= SampleRate
<1>1. PICK s \in Nat \ {0} : s = SampleRate
    BY PipelineAssumption
<1>2. PICK n \in Nat : n = Exact(t)
    BY ExactIsLinear
<1>3. PICK x \in Nat, r \in 0..(s - 1) : x = n \div s /\ r = n % s /\ n = x * s + r
  <2>1. n \div s \in Nat /\ n % s \in 0..(s - 1) /\ n = (n \div s) * s + (n % s)
      BY Division
  <2>2. QED
      BY <2>1
<1>4. Processor!TimeBinToMs(t) =
          IF 2 * r < s \/ (2 * r = s /\ x % 2 = 0) THEN x ELSE x + 1
    BY <1>1, <1>2, <1>3 DEF Processor!TimeBinToMs, Exact
<1>5. PICK p \in Nat : p = x * s /\ (x + 1) * s = p + s
  <2>1. x * s \in Nat /\ (x + 1) * s = x * s + s
      BY SMT
  <2>2. QED
      BY <2>1
<1>6. CASE Processor!TimeBinToMs(t) = x /\ 2 * r <= s
  <2>1. Processor!TimeBinToMs(t) * SampleRate = p /\ Exact(t) = p + r
      BY <1>1, <1>2, <1>3, <1>5, <1>6
  <2>2. QED
      BY <1>1, <1>6, <2>1
<1>7. CASE Processor!TimeBinToMs(t) = x + 1 /\ 2 * r >= s
  <2>1. Processor!TimeBinToMs(t) * SampleRate = p + s /\ Exact(t) = p + r
      BY <1>1, <1>2, <1>3, <1>5, <1>7
  <2>2. QED
      BY <1>1, <1>7, <2>1
<1>8. QED
    BY <1>4, <1>6, <1>7

\* A later frame has no earlier millisecond.
LEMMA MsAreMonotonic ==
    ASSUME NEW t \in Nat, NEW u \in Nat, t <= u
    PROVE  Processor!TimeBinToMs(t) <= Processor!TimeBinToMs(u)
<1>1. PICK s \in Nat \ {0} : s = SampleRate
    BY PipelineAssumption
<1>2. PICK a \in Nat, b \in Nat, x \in Nat, y \in Nat :
          /\ a = Exact(t) /\ b = Exact(u)
          /\ x = Processor!TimeBinToMs(t) /\ y = Processor!TimeBinToMs(u)
    BY ExactIsLinear, NearestMs
<1>3. a <= b
    BY <1>2, ExactIsLinear
<1>4. -s <= 2 * (a - x * s) /\ 2 * (a - x * s) <= s /\ -s <= 2 * (b - y * s) /\ 2 * (b - y * s) <= s
    BY <1>1, <1>2, NearestMs
<1>5. SUFFICES ASSUME y < x PROVE FALSE
    BY <1>2
<1>6. y * s + s <= x * s /\ x * s \in Nat /\ y * s \in Nat
    BY <1>5, Multiples
<1>7. a = b
    BY <1>3, <1>4, <1>6
<1>8. Exact(t) = Exact(u)
    BY <1>2, <1>7
<1>9. Processor!TimeBinToMs(t) = Processor!TimeBinToMs(u)
    BY <1>8 DEF Processor!TimeBinToMs, Exact
<1>10. QED
    BY <1>2, <1>5, <1>9

\* Rounding a sum and rounding its parts differ by a millisecond at most.
LEMMA MsAddUp ==
    ASSUME NEW t \in Nat, NEW u \in Nat
    PROVE  Processor!TimeBinToMs(t + u) - Processor!TimeBinToMs(t) - Processor!TimeBinToMs(u) \in -1..1
<1>1. PICK s \in Nat \ {0} : s = SampleRate
    BY PipelineAssumption
<1>2. t + u \in Nat
    OBVIOUS
<1>3. PICK a \in Nat, b \in Nat, x \in Nat, y \in Nat, z \in Nat :
          /\ a = Exact(t) /\ b = Exact(u)
          /\ x = Processor!TimeBinToMs(t) /\ y = Processor!TimeBinToMs(u)
          /\ z = Processor!TimeBinToMs(t + u)
    BY <1>2, ExactIsLinear, NearestMs
<1>4. /\ -s <= 2 * (a - x * s) /\ 2 * (a - x * s) <= s
      /\ -s <= 2 * (b - y * s) /\ 2 * (b - y * s) <= s
    BY <1>1, <1>3, NearestMs
<1>5. -s <= 2 * ((a + b) - z * s) /\ 2 * ((a + b) - z * s) <= s
  <2>1. Exact(t + u) = a + b
      BY <1>3, ExactIsLinear
  <2>2. QED
      BY <1>1, <1>2, <1>3, <2>1, NearestMs
<1>6. x * s \in Nat /\ y * s \in Nat /\ z * s \in Nat
    BY Multiples
<1>7. 2 * (z * s - x * s - y * s) <= 3 * s /\ -(3 * s) <= 2 * (z * s - x * s - y * s)
    BY <1>4, <1>5, <1>6
<1>8. z - x - y <= 1
  <2> SUFFICES ASSUME x + y + 1 < z PROVE FALSE
      OBVIOUS
  <2>1. (x + y + 1) * s + s <= z * s
      BY Multiples
  <2>2. (x + y + 1) * s = x * s + y * s + s
      BY SMT
  <2>3. QED
      BY <1>6, <1>7, <2>1, <2>2
<1>9. -1 <= z - x - y
  <2> SUFFICES ASSUME z + 1 < x + y PROVE FALSE
      OBVIOUS
  <2>1. (z + 1) * s + s <= (x + y) * s
      BY Multiples
  <2>2. (z + 1) * s = z * s + s /\ (x + y) * s = x * s + y * s
      BY SMT
  <2>3. QED
      BY <1>6, <1>7, <2>1, <2>2
<1>10. QED
    BY <1>3, <1>8, <1>9

-----------------------------------------------------------------------------
(***************************************************************************)
(* The loops of _generate_landmarks (fingerprint.py 20-50).                *)
(***************************************************************************)

\* Peak b of the line q is in the target zone of peak a ...
InZone(q, a, b) == a < b /\ q[b].time - q[a].time \in ZoneMin..ZoneMax

\* ... after those ...
Nearer(q, a, b) == {m \in DOMAIN q : m < b /\ InZone(q, a, m)}

\* ... which leave it a place in the fanout.
Chosen(q, a, b) == InZone(q, a, b) /\ Cardinality(Nearer(q, a, b)) < Fanout

\* The chosen pairs the loops have passed when they are at i = x and j = y.
Passed(q, x, y) ==
    {p \in (DOMAIN q) \X (DOMAIN q) :
        Chosen(q, p[1], p[2]) /\ (p[1] < x \/ (p[1] = x /\ p[2] < y))}

AllChosen(q) == {p \in (DOMAIN q) \X (DOMAIN q) : Chosen(q, p[1], p[2])}

PrintOf(q, a, b) ==
    [hash |-> Processor!PackHash(q[a].freq, q[b].freq, q[b].time - q[a].time),
     offset_ms |-> Processor!TimeBinToMs(q[a].time)]

PrintsOf(q, P) == {PrintOf(q, p[1], p[2]) : p \in P}

Printed(s) == {s[k] : k \in DOMAIN s}

\* Which pairs of track t have been made into fingerprints.
Finished(t) == track = "done" \/ (track = "clip" /\ t = "song")

MadeOf(t) ==
    IF Finished(t) THEN AllChosen(Line(t))
    ELSE IF t = track /\ i # 0 THEN Passed(Line(t), i, j) ELSE {}

Fingerprints == [hash : Nat, offset_ms : Nat]

InputTyped ==
    /\ IsRecording(recording) /\ IsClip(clip)
    /\ track \in Processor!Tracks \cup {"done"}

\* Where the loops are, and how many partners the anchor has.
Looping ==
    /\ i = 0 => peaks = <<>> /\ j = 0 /\ paired = 0
    /\ i # 0 =>
          /\ track \in Processor!Tracks /\ peaks = Line(track)
          /\ i \in 1..(Len(peaks) + 1) /\ j \in (i + 1)..(Len(peaks) + 2)
          /\ paired = Cardinality(Nearer(peaks, i, j)) /\ paired <= Fanout

\* What has been made of the pairs they have passed.
Printing ==
    /\ prints \in [Processor!Tracks -> Seq(Fingerprints)]
    /\ \A t \in Processor!Tracks : Printed(prints[t]) = PrintsOf(Line(t), MadeOf(t))

AudioInv == InputTyped /\ Looping /\ Printing

LEMMA NearerGrows ==
    ASSUME NEW q, InTime(q), NEW a \in 1..Len(q)
    PROVE  /\ \A b : IsFiniteSet(Nearer(q, a, b)) /\ Cardinality(Nearer(q, a, b)) \in Nat
           /\ Nearer(q, a, a + 1) = {}
           /\ \A b, c \in Int : b <= c => Cardinality(Nearer(q, a, b)) <= Cardinality(Nearer(q, a, c))
           /\ \A b \in 1..Len(q) :
                 Cardinality(Nearer(q, a, b + 1)) =
                     IF InZone(q, a, b) THEN Cardinality(Nearer(q, a, b)) + 1
                     ELSE Cardinality(Nearer(q, a, b))
<1>1. DOMAIN q = 1..Len(q) /\ Len(q) \in Nat
    BY DEF InTime
<1>2. IsFiniteSet(DOMAIN q)
    BY <1>1, FS_Interval
<1>3. ASSUME NEW b PROVE IsFiniteSet(Nearer(q, a, b)) /\ Cardinality(Nearer(q, a, b)) \in Nat
  <2>1. Nearer(q, a, b) \subseteq DOMAIN q
      BY DEF Nearer
  <2>2. QED
      BY <1>2, <2>1, FS_Subset, FS_CardinalityType
<1>4. Nearer(q, a, a + 1) = {}
    BY <1>1 DEF Nearer, InZone
<1>5. ASSUME NEW b \in Int, NEW c \in Int, b <= c
      PROVE  Cardinality(Nearer(q, a, b)) <= Cardinality(Nearer(q, a, c))
  <2>1. Nearer(q, a, b) \subseteq Nearer(q, a, c)
      BY <1>1, <1>5 DEF Nearer
  <2>2. QED
      BY <1>3, <2>1, FS_Subset
<1>6. ASSUME NEW b \in 1..Len(q)
      PROVE  Cardinality(Nearer(q, a, b + 1)) =
                 IF InZone(q, a, b) THEN Cardinality(Nearer(q, a, b)) + 1
                 ELSE Cardinality(Nearer(q, a, b))
  <2>1. b \notin Nearer(q, a, b)
      BY <1>1 DEF Nearer
  <2>2. InZone(q, a, b) => Nearer(q, a, b + 1) = Nearer(q, a, b) \cup {b}
      BY <1>1 DEF Nearer
  <2>3. ~InZone(q, a, b) => Nearer(q, a, b + 1) = Nearer(q, a, b)
      BY <1>1 DEF Nearer
  <2>4. Cardinality(Nearer(q, a, b) \cup {b}) = Cardinality(Nearer(q, a, b)) + 1
      BY <1>3, <2>1, FS_AddElement
  <2>5. QED
      BY <2>2, <2>3, <2>4
<1>7. QED
    BY <1>3, <1>4, <1>5, <1>6

\* The loops begin with no pair, and go on by one.
LEMMA PassedGrows ==
    ASSUME NEW q, InTime(q)
    PROVE  /\ Passed(q, 1, 2) = {}
           /\ \A y : Passed(q, Len(q) + 1, y) = AllChosen(q)
           /\ \A x, y \in 1..Len(q) :
                 Passed(q, x, y + 1) =
                     IF Chosen(q, x, y) THEN Passed(q, x, y) \cup {<<x, y>>} ELSE Passed(q, x, y)
           /\ \A x \in 1..Len(q) : \A y \in Int :
                 (\A b \in 1..Len(q) : y <= b => ~Chosen(q, x, b))
                     => Passed(q, x + 1, x + 2) = Passed(q, x, y)
<1>1. DOMAIN q = 1..Len(q) /\ Len(q) \in Nat
    BY DEF InTime
<1>2. \A x, y : \A p : p \in Passed(q, x, y) <=>
          \E a, b \in 1..Len(q) :
              p = <<a, b>> /\ Chosen(q, a, b) /\ (a < x \/ (a = x /\ b < y))
    BY <1>1 DEF Passed
<1>3. \A a, b : Chosen(q, a, b) => a < b
    BY DEF Chosen, InZone
<1>4. Passed(q, 1, 2) = {}
    BY <1>1, <1>2, <1>3
<1>5. \A y : Passed(q, Len(q) + 1, y) = AllChosen(q)
    BY <1>1 DEF Passed, AllChosen
<1>6. ASSUME NEW x \in 1..Len(q), NEW y \in 1..Len(q)
      PROVE  Passed(q, x, y + 1) =
                 IF Chosen(q, x, y) THEN Passed(q, x, y) \cup {<<x, y>>} ELSE Passed(q, x, y)
  <2>1. \A a, b \in 1..Len(q) :
            (a < x \/ (a = x /\ b < y + 1)) <=> (a < x \/ (a = x /\ b < y)) \/ (a = x /\ b = y)
      BY <1>1
  <2>2. \A p : p \in Passed(q, x, y + 1) <=>
            p \in Passed(q, x, y) \/ (Chosen(q, x, y) /\ p = <<x, y>>)
      BY <1>2, <2>1
  <2>3. QED
      BY <2>2
<1>7. ASSUME NEW x \in 1..Len(q), NEW y \in Int,
             \A b \in 1..Len(q) : y <= b => ~Chosen(q, x, b)
      PROVE  Passed(q, x + 1, x + 2) = Passed(q, x, y)
  <2>1. \A a, b \in 1..Len(q) : Chosen(q, a, b) =>
            ((a < x + 1 \/ (a = x + 1 /\ b < x + 2)) <=> (a < x \/ (a = x /\ b < y)))
    <3> SUFFICES ASSUME NEW a \in 1..Len(q), NEW b \in 1..Len(q), Chosen(q, a, b)
                 PROVE  (a < x + 1 \/ (a = x + 1 /\ b < x + 2)) <=> (a < x \/ (a = x /\ b < y))
        OBVIOUS
    <3>1. a < b
        BY <1>3
    <3>2. a = x => b < y
        BY <1>7
    <3>3. QED
        BY <1>1, <3>1, <3>2
  <2>2. \A p : p \in Passed(q, x + 1, x + 2) <=> p \in Passed(q, x, y)
      BY <1>2, <2>1
  <2>3. QED
      BY <2>2
<1>8. QED
    BY <1>4, <1>5, <1>6, <1>7

\* A chosen pair makes a well formed fingerprint.
LEMMA PrintIsTyped ==
    ASSUME NEW q, InTime(q), NEW a \in 1..Len(q), NEW b \in 1..Len(q), InZone(q, a, b)
    PROVE  /\ PrintOf(q, a, b) \in Fingerprints
           /\ q[a] \in Peak /\ q[b] \in Peak /\ q[b].time - q[a].time \in 0..ZoneMax
<1>1. q[a] \in Peak /\ q[b] \in Peak
    BY DEF InTime
<1>2. q[a].time \in Nat /\ q[a].freq \in Nat /\ q[b].time \in Nat /\ q[b].freq \in Nat
    BY <1>1 DEF Peak
<1>3. q[b].time - q[a].time \in 0..ZoneMax
    BY PipelineAssumption DEF InZone
<1>4. Processor!PackHash(q[a].freq, q[b].freq, q[b].time - q[a].time) \in Nat
    BY <1>2, <1>3, HashIsPacked
<1>5. Processor!TimeBinToMs(q[a].time) \in Nat
    BY <1>2, NearestMs
<1>6. QED
    BY <1>1, <1>3, <1>4, <1>5 DEF PrintOf, Fingerprints

LEMMA AudioInit == PipelineInit => AudioInv
<1> SUFFICES ASSUME PipelineInit PROVE AudioInv
    OBVIOUS
<1>1. prints = [t \in Processor!Tracks |-> <<>>] /\ i = 0 /\ j = 0 /\ paired = 0 /\ peaks = <<>>
    BY DEF PipelineInit, FromJson, FromAudio, Processor!Init
<1>2. \A t \in Processor!Tracks : prints[t] = <<>>
    BY <1>1
<1>3. prints \in [Processor!Tracks -> Seq(Fingerprints)]
    BY <1>1
<1>4. \A t \in Processor!Tracks : Printed(prints[t]) = {}
  <2>1. Printed(<<>>) = {}
      BY DEF Printed
  <2>2. QED
      BY <1>2, <2>1
<1>5. CASE FromJson
  <2>1. recording = [peaks |-> {}, frames |-> 0] /\ clip = [start |-> 0, frames |-> 0] /\ track = "done"
      BY <1>5 DEF FromJson
  <2>2. IsFiniteSet({})
      BY FS_EmptySet
  <2>3. IsRecording(recording) /\ IsClip(clip)
      BY <2>1, <2>2 DEF IsRecording, IsClip
  <2>4. ASSUME NEW t \in Processor!Tracks PROVE AllChosen(Line(t)) = {}
    <3>1. Processor!Candidates(t) = {}
        BY <2>1 DEF Processor!Candidates
    <3>2. Kept(t) = {}
        BY <2>3, <3>1, KeptIsConstellation
    <3>3. ~(\E n \in 1..Len(Line(t)) : TRUE)
        BY <2>3, <3>2, LineIsInTime
    <3>4. DOMAIN Line(t) = 1..Len(Line(t))
        BY <2>3, LineIsInTime DEF InTime
    <3>5. QED
        BY <3>3, <3>4 DEF AllChosen
  <2>5. \A t \in Processor!Tracks : PrintsOf(Line(t), MadeOf(t)) = {}
      BY <2>1, <2>4 DEF PrintsOf, MadeOf, Finished
  <2>6. QED
      BY <1>1, <1>3, <1>4, <2>1, <2>3, <2>5 DEF AudioInv, InputTyped, Looping, Printing
<1>6. CASE FromAudio
  <2>1. recording \in Recordings /\ clip \in Clips /\ track = "song"
      BY <1>6 DEF FromAudio, Processor!Init
  <2>2. IsRecording(recording) /\ IsClip(clip)
      BY <2>1, PipelineAssumption
  <2>3. \A t \in Processor!Tracks : PrintsOf(Line(t), MadeOf(t)) = {}
      BY <1>1, <2>1 DEF PrintsOf, MadeOf, Finished
  <2>4. QED
      BY <1>1, <1>3, <1>4, <2>1, <2>2, <2>3
         DEF AudioInv, InputTyped, Looping, Printing, Processor!Tracks
<1>7. QED
    BY <1>5, <1>6 DEF PipelineInit

\* What the steps inside of a track leave alone.
LEMMA InsideTrack ==
    ASSUME AudioInv, UNCHANGED <<recording, clip, track>>
    PROVE  InputTyped' /\ \A t \in Processor!Tracks : Line(t)' = Line(t)
<1>1. \A t \in Processor!Tracks : Line(t)' = Line(t)
    BY LinesStay
<1>2. InputTyped'
    BY DEF AudioInv, InputTyped, IsRecording, IsClip
<1>3. QED
    BY <1>1, <1>2

LEMMA DetectPreserves == AudioInv /\ Processor!Detect => AudioInv'
<1> SUFFICES ASSUME AudioInv, Processor!Detect PROVE AudioInv'
    OBVIOUS
<1>1. /\ track \in Processor!Tracks /\ i = 0
      /\ peaks' = Line(track)
      /\ i' = 1 /\ j' = 2 /\ paired' = 0
      /\ recording' = recording /\ clip' = clip /\ track' = track /\ prints' = prints
    BY DEF Processor!Detect, Processor!input, Line
<1>2. InputTyped' /\ \A t \in Processor!Tracks : Line(t)' = Line(t)
    BY <1>1, InsideTrack
<1>3. IsRecording(recording) /\ IsClip(clip)
    BY DEF AudioInv, InputTyped
<1>4. InTime(Line(track))
    BY <1>1, <1>3, LineIsInTime
<1>5. Nearer(Line(track), 1, 2) = {}
  <2>1. CASE Len(Line(track)) = 0
      BY <1>4, <2>1 DEF Nearer, InTime
  <2>2. CASE Len(Line(track)) # 0
    <3>1. 1 \in 1..Len(Line(track)) /\ 1 + 1 = 2
        BY <1>4, <2>2 DEF InTime
    <3>2. QED
        BY <1>4, <3>1, NearerGrows
  <2>3. QED
      BY <2>1, <2>2
<1>6. Looping'
  <2>1. i' \in 1..(Len(Line(track)) + 1) /\ j' \in (i' + 1)..(Len(Line(track)) + 2)
      BY <1>1, <1>4 DEF InTime
  <2>2. paired' = Cardinality(Nearer(Line(track), 1, 2)) /\ paired' <= Fanout
      BY <1>1, <1>5, FS_EmptySet, PipelineAssumption
  <2>3. QED
      BY <1>1, <1>2, <2>1, <2>2 DEF Looping, Nearer, InZone
<1>7. Printing'
  <2>1. \A t \in Processor!Tracks : MadeOf(t)' = MadeOf(t)
    <3>1. Passed(Line(track), 1, 2) = {}
        BY <1>4, PassedGrows
    <3>2. ASSUME NEW t \in Processor!Tracks PROVE MadeOf(t)' = MadeOf(t)
      <4>1. CASE t = track
        <5>1. Finished(t)' = Finished(t)
            BY <1>1 DEF Finished
        <5>2. ~Finished(t)
            BY <1>1, <4>1 DEF Finished, Processor!Tracks
        <5>3. MadeOf(t) = {}
            BY <1>1, <5>2 DEF MadeOf
        <5>4. MadeOf(t)' = Passed(Line(t)', 1, 2)
            BY <1>1, <4>1, <5>1, <5>2 DEF MadeOf
        <5>5. QED
            BY <1>2, <3>1, <4>1, <5>3, <5>4
      <4>2. CASE t # track
        <5>1. Finished(t)' = Finished(t)
            BY <1>1 DEF Finished
        <5>2. AllChosen(Line(t)') = AllChosen(Line(t))
            BY <1>2
        <5>3. QED
            BY <1>1, <1>2, <4>2, <5>1, <5>2 DEF MadeOf
      <4>3. QED
          BY <4>1, <4>2
    <3>3. QED
        BY <3>2
  <2>2. QED
      BY <1>1, <1>2, <2>1 DEF AudioInv, Printing
<1>8. QED
    BY <1>2, <1>6, <1>7 DEF AudioInv

\* What is known in the loops ...
LEMMA AtAnchor ==
    ASSUME AudioInv, track \in Processor!Tracks, i \in 1..Len(peaks)
    PROVE  /\ IsRecording(recording) /\ IsClip(clip)
           /\ peaks = Line(track) /\ InTime(peaks) /\ Len(peaks) \in Nat
           /\ i # 0 /\ j \in (i + 1)..(Len(peaks) + 2)
           /\ paired = Cardinality(Nearer(peaks, i, j)) /\ paired \in 0..Fanout
           /\ ~Finished(track)
           /\ prints \in [Processor!Tracks -> Seq(Fingerprints)]
           /\ Printed(prints[track]) = PrintsOf(peaks, Passed(peaks, i, j))
<1>1. i # 0 /\ IsRecording(recording) /\ IsClip(clip)
  <2>1. i = 0 => Len(peaks) = 0
      BY DEF AudioInv, Looping
  <2>2. QED
      BY <2>1 DEF AudioInv, InputTyped
<1>2. /\ peaks = Line(track)
      /\ j \in (i + 1)..(Len(peaks) + 2)
      /\ paired = Cardinality(Nearer(peaks, i, j)) /\ paired <= Fanout
    BY <1>1 DEF AudioInv, Looping
<1>3. InTime(peaks) /\ Len(peaks) \in Nat
    BY <1>1, <1>2, LineIsInTime DEF InTime
<1>4. paired \in 0..Fanout
    BY <1>2, <1>3, NearerGrows, PipelineAssumption
<1>5. ~Finished(track)
    BY DEF Finished, Processor!Tracks
<1>6. MadeOf(track) = Passed(peaks, i, j)
    BY <1>1, <1>2, <1>5 DEF MadeOf
<1>7. /\ prints \in [Processor!Tracks -> Seq(Fingerprints)]
      /\ Printed(prints[track]) = PrintsOf(peaks, Passed(peaks, i, j))
    BY <1>2, <1>6 DEF AudioInv, Printing
<1>8. QED
    BY <1>1, <1>2, <1>3, <1>4, <1>5, <1>7

\* ... and what a step in them has to keep.
LEMMA LoopStep ==
    ASSUME AudioInv, track \in Processor!Tracks, i \in 1..Len(peaks),
           UNCHANGED <<recording, clip, track, peaks>>,
           i' \in 1..(Len(peaks) + 1), j' \in (i' + 1)..(Len(peaks) + 2),
           paired' = Cardinality(Nearer(peaks, i', j')), paired' <= Fanout,
           prints' \in [Processor!Tracks -> Seq(Fingerprints)],
           \A t \in Processor!Tracks : t # track => prints'[t] = prints[t],
           Printed(prints'[track]) = PrintsOf(peaks, Passed(peaks, i', j'))
    PROVE  AudioInv'
<1>1. recording' = recording /\ clip' = clip /\ track' = track /\ peaks' = peaks
    OBVIOUS
<1>2. peaks = Line(track) /\ Len(peaks) \in Nat /\ ~Finished(track) /\ i # 0
    BY AtAnchor
<1>3. InputTyped' /\ \A t \in Processor!Tracks : Line(t)' = Line(t)
    BY <1>1, InsideTrack
<1>4. i' # 0
    OBVIOUS
<1>5. Looping'
  <2>1. peaks' = Line(track)'
      BY <1>1, <1>2, <1>3
  <2>2. Nearer(peaks, i, j)' = Nearer(peaks, i', j')
      BY <1>1 DEF Nearer, InZone
  <2>3. QED
      BY <1>1, <1>4, <2>1, <2>2 DEF Looping
<1>6. ASSUME NEW t \in Processor!Tracks PROVE Printed(prints[t])' = PrintsOf(Line(t), MadeOf(t))'
  <2>1. Line(t)' = Line(t) /\ Finished(t)' = Finished(t)
      BY <1>1, <1>3 DEF Finished
  <2>2. CASE t = track
    <3>1. MadeOf(t)' = Passed(peaks, i', j')
        BY <1>1, <1>2, <1>3, <1>4, <2>1, <2>2 DEF MadeOf
    <3>2. PrintsOf(Line(t), MadeOf(t))' = PrintsOf(peaks, Passed(peaks, i', j'))
        BY <1>2, <2>1, <2>2, <3>1
    <3>3. QED
        BY <2>2, <3>2
  <2>3. CASE t # track
    <3>1. MadeOf(t)' = MadeOf(t)
        BY <1>1, <2>1, <2>3 DEF MadeOf
    <3>2. PrintsOf(Line(t), MadeOf(t))' = PrintsOf(Line(t), MadeOf(t))
        BY <2>1, <3>1
    <3>3. Printed(prints[t])' = Printed(prints[t])
        BY <2>3
    <3>4. QED
        BY <3>2, <3>3 DEF AudioInv, Printing
  <2>4. QED
      BY <2>2, <2>3
<1>7. QED
    BY <1>3, <1>5, <1>6 DEF AudioInv, Printing

\* The inner loop has an anchor and a peak after it.
LEMMA AtPair ==
    ASSUME AudioInv, Processor!Searching
    PROVE  /\ track \in Processor!Tracks /\ i \in 1..Len(peaks)
           /\ j \in 1..Len(peaks) /\ i < j
           /\ paired < Fanout
           /\ Processor!Distance = peaks[j].time - peaks[i].time
           /\ Processor!Distance \in Int /\ Processor!Distance <= ZoneMax
<1>1. /\ track \in Processor!Tracks /\ i \in 1..Len(peaks) /\ j <= Len(peaks)
      /\ paired < Fanout /\ Processor!Distance <= ZoneMax
    BY DEF Processor!Searching
<1>2. j \in (i + 1)..(Len(peaks) + 2) /\ Len(peaks) \in Nat /\ InTime(peaks)
    BY <1>1, AtAnchor
<1>3. j \in 1..Len(peaks) /\ i < j
    BY <1>1, <1>2
<1>4. peaks[i] \in Peak /\ peaks[j] \in Peak
    BY <1>1, <1>2, <1>3 DEF InTime
<1>5. Processor!Distance = peaks[j].time - peaks[i].time
    BY DEF Processor!Distance
<1>6. QED
    BY <1>1, <1>3, <1>4, <1>5 DEF Peak

LEMMA SkipPreserves == AudioInv /\ Processor!Skip => AudioInv'
<1> SUFFICES ASSUME AudioInv, Processor!Skip PROVE AudioInv'
    OBVIOUS
<1>1. /\ Processor!Searching /\ Processor!Distance < ZoneMin
      /\ j' = j + 1 /\ i' = i /\ paired' = paired /\ prints' = prints
      /\ UNCHANGED <<recording, clip, track, peaks>>
    BY DEF Processor!Skip, Processor!input
<1>2. /\ track \in Processor!Tracks /\ i \in 1..Len(peaks)
      /\ j \in 1..Len(peaks) /\ i < j
      /\ Processor!Distance = peaks[j].time - peaks[i].time /\ Processor!Distance \in Int
    BY <1>1, AtPair
<1>3. /\ InTime(peaks) /\ Len(peaks) \in Nat
      /\ paired = Cardinality(Nearer(peaks, i, j)) /\ paired \in 0..Fanout
      /\ prints \in [Processor!Tracks -> Seq(Fingerprints)]
      /\ Printed(prints[track]) = PrintsOf(peaks, Passed(peaks, i, j))
    BY <1>2, AtAnchor
<1>4. ~InZone(peaks, i, j) /\ ~Chosen(peaks, i, j)
    BY <1>1, <1>2, PipelineAssumption DEF InZone, Chosen
<1>5. Cardinality(Nearer(peaks, i, j + 1)) = paired
    BY <1>2, <1>3, <1>4, NearerGrows
<1>6. Passed(peaks, i, j + 1) = Passed(peaks, i, j)
    BY <1>2, <1>3, <1>4, PassedGrows
<1>7. i' \in 1..(Len(peaks) + 1) /\ j' \in (i' + 1)..(Len(peaks) + 2) /\ paired' <= Fanout
    BY <1>1, <1>2, <1>3, PipelineAssumption
<1>8. QED
    BY <1>1, <1>2, <1>3, <1>5, <1>6, <1>7, LoopStep

LEMMA PairPreserves == AudioInv /\ Processor!Pair => AudioInv'
<1> SUFFICES ASSUME AudioInv, Processor!Pair PROVE AudioInv'
    OBVIOUS
<1> DEFINE made == [hash |-> Processor!PackHash(peaks[i].freq, peaks[j].freq, Processor!Distance),
                    offset_ms |-> Processor!TimeBinToMs(peaks[i].time)]
<1>1. /\ Processor!Searching /\ Processor!Distance >= ZoneMin
      /\ prints' = [prints EXCEPT ![track] = Append(@, made)]
      /\ j' = j + 1 /\ i' = i /\ paired' = paired + 1
      /\ UNCHANGED <<recording, clip, track, peaks>>
    BY DEF Processor!Pair, Processor!input
<1>2. /\ track \in Processor!Tracks /\ i \in 1..Len(peaks)
      /\ j \in 1..Len(peaks) /\ i < j /\ paired < Fanout
      /\ Processor!Distance = peaks[j].time - peaks[i].time
      /\ Processor!Distance \in Int /\ Processor!Distance <= ZoneMax
    BY <1>1, AtPair
<1>3. /\ InTime(peaks) /\ Len(peaks) \in Nat
      /\ paired = Cardinality(Nearer(peaks, i, j)) /\ paired \in 0..Fanout
      /\ prints \in [Processor!Tracks -> Seq(Fingerprints)]
      /\ Printed(prints[track]) = PrintsOf(peaks, Passed(peaks, i, j))
    BY <1>2, AtAnchor
<1>4. InZone(peaks, i, j) /\ Chosen(peaks, i, j)
    BY <1>1, <1>2, <1>3, PipelineAssumption DEF InZone, Chosen
<1>5. Cardinality(Nearer(peaks, i, j + 1)) = paired + 1
    BY <1>2, <1>3, <1>4, NearerGrows
<1>6. Passed(peaks, i, j + 1) = Passed(peaks, i, j) \cup {<<i, j>>}
    BY <1>2, <1>3, <1>4, PassedGrows
<1>7. /\ i' \in 1..(Len(peaks) + 1) /\ j' \in (i' + 1)..(Len(peaks) + 2)
      /\ paired' = Cardinality(Nearer(peaks, i', j')) /\ paired' <= Fanout
    BY <1>1, <1>2, <1>3, <1>5, PipelineAssumption
<1>8. made = PrintOf(peaks, i, j)
    BY <1>2 DEF PrintOf
<1>9. made \in Fingerprints
    BY <1>2, <1>3, <1>4, <1>8, PrintIsTyped
<1> HIDE DEF made
<1>10. prints[track] \in Seq(Fingerprints)
    BY <1>2, <1>3
<1>11. Append(prints[track], made) \in Seq(Fingerprints)
    BY <1>9, <1>10
<1>12. /\ prints' \in [Processor!Tracks -> Seq(Fingerprints)]
       /\ prints'[track] = Append(prints[track], made)
       /\ \A t \in Processor!Tracks : t # track => prints'[t] = prints[t]
    BY <1>1, <1>2, <1>3, <1>11
<1>13. Printed(Append(prints[track], made)) = Printed(prints[track]) \cup {made}
  <2> DEFINE s == prints[track]
             t == Append(s, made)
  <2>1. s \in Seq(Fingerprints)
      BY <1>10
  <2>2. /\ Len(s) \in Nat /\ DOMAIN s = 1..Len(s)
        /\ DOMAIN t = 1..(Len(s) + 1)
        /\ \A k \in 1..Len(s) : t[k] = s[k]
        /\ t[Len(s) + 1] = made
    <3> HIDE DEF s
    <3>1. QED
        BY <1>9, <2>1
  <2> HIDE DEF s, t
  <2>3. \A k : k \in 1..(Len(s) + 1) <=> k \in 1..Len(s) \/ k = Len(s) + 1
      BY <2>2
  <2>4. \A e : (\E k \in DOMAIN t : e = t[k]) <=> (\E k \in DOMAIN s : e = s[k]) \/ e = made
      BY <2>2, <2>3
  <2>5. Printed(t) = Printed(s) \cup {made}
      BY <2>4 DEF Printed
  <2>6. QED
      BY <2>5 DEF s, t
<1>14. PrintsOf(peaks, Passed(peaks, i, j + 1)) = PrintsOf(peaks, Passed(peaks, i, j)) \cup {made}
  <2>1. \A P, e : e \in PrintsOf(peaks, P) <=> \E p \in P : e = PrintOf(peaks, p[1], p[2])
      BY DEF PrintsOf
  <2> DEFINE pair == <<i, j>>
             before == Passed(peaks, i, j)
             after == Passed(peaks, i, j + 1)
  <2>2. pair[1] = i /\ pair[2] = j
      OBVIOUS
  <2>3. PrintOf(peaks, pair[1], pair[2]) = made
      BY <1>8, <2>2
  <2>4. after = before \cup {pair}
      BY <1>6
  <2> HIDE DEF pair, before, after
  <2>5. \A e : e \in PrintsOf(peaks, after) <=> e \in PrintsOf(peaks, before) \/ e = made
      BY <2>1, <2>3, <2>4
  <2>6. QED
      BY <2>5 DEF before, after
<1>15. Printed(prints'[track]) = PrintsOf(peaks, Passed(peaks, i', j'))
    BY <1>1, <1>3, <1>12, <1>13, <1>14
<1>16. QED
    BY <1>1, <1>2, <1>7, <1>12, <1>15, LoopStep

\* Where the inner loop ends, no peak that is left has a place in the fanout.
LEMMA NoneLeft ==
    ASSUME AudioInv, track \in Processor!Tracks, i \in 1..Len(peaks), ~Processor!Searching,
           NEW b \in 1..Len(peaks), j <= b
    PROVE  ~Chosen(peaks, i, b)
<1>1. /\ InTime(peaks) /\ Len(peaks) \in Nat /\ j \in (i + 1)..(Len(peaks) + 2)
      /\ paired = Cardinality(Nearer(peaks, i, j)) /\ paired \in 0..Fanout
    BY AtAnchor
<1>2. j \in 1..Len(peaks)
    BY <1>1
<1>3. paired >= Fanout \/ Processor!Distance > ZoneMax
  <2>1. peaks[i] \in Peak /\ peaks[j] \in Peak
      BY <1>1, <1>2 DEF InTime
  <2>2. Processor!Distance \in Int
      BY <2>1 DEF Processor!Distance, Peak
  <2>3. Fanout \in Int /\ ZoneMax \in Int /\ paired \in Int
      BY <1>1, PipelineAssumption
  <2>4. QED
      BY <1>2, <2>2, <2>3 DEF Processor!Searching
<1>4. CASE paired >= Fanout
  <2>1. /\ Cardinality(Nearer(peaks, i, j)) <= Cardinality(Nearer(peaks, i, b))
        /\ Cardinality(Nearer(peaks, i, b)) \in Nat
      BY <1>1, <1>2, NearerGrows
  <2>2. QED
      BY <1>1, <1>4, <2>1, PipelineAssumption DEF Chosen
<1>5. CASE Processor!Distance > ZoneMax
  <2>1. /\ peaks[i] \in Peak /\ peaks[j] \in Peak /\ peaks[b] \in Peak
        /\ j = b \/ peaks[j].time <= peaks[b].time
      BY <1>1, <1>2 DEF InTime
  <2>2. peaks[b].time - peaks[i].time > ZoneMax
      BY <1>5, <2>1, PipelineAssumption DEF Processor!Distance, Peak
  <2>3. peaks[b].time - peaks[i].time \in Int
      BY <2>1 DEF Peak
  <2>4. QED
      BY <2>2, <2>3, PipelineAssumption DEF Chosen, InZone
<1>6. QED
    BY <1>3, <1>4, <1>5

LEMMA NextAnchorPreserves == AudioInv /\ Processor!NextAnchor => AudioInv'
<1> SUFFICES ASSUME AudioInv, Processor!NextAnchor PROVE AudioInv'
    OBVIOUS
<1>1. /\ track \in Processor!Tracks /\ i \in 1..Len(peaks) /\ ~Processor!Searching
      /\ i' = i + 1 /\ j' = i + 2 /\ paired' = 0 /\ prints' = prints
      /\ UNCHANGED <<recording, clip, track, peaks>>
    BY DEF Processor!NextAnchor, Processor!input
<1>2. /\ IsRecording(recording) /\ IsClip(clip) /\ InTime(peaks) /\ Len(peaks) \in Nat
      /\ j \in (i + 1)..(Len(peaks) + 2)
      /\ prints \in [Processor!Tracks -> Seq(Fingerprints)]
      /\ Printed(prints[track]) = PrintsOf(peaks, Passed(peaks, i, j))
    BY <1>1, AtAnchor
<1>3. \A b \in 1..Len(peaks) : j <= b => ~Chosen(peaks, i, b)
    BY <1>1, NoneLeft
<1>4. Passed(peaks, i + 1, i + 2) = Passed(peaks, i, j)
    BY <1>1, <1>2, <1>3, PassedGrows
<1>5. Nearer(peaks, i + 1, i + 2) = {}
    BY <1>1, <1>2 DEF Nearer, InZone, InTime
<1>6. paired' = Cardinality(Nearer(peaks, i', j')) /\ paired' <= Fanout
    BY <1>1, <1>5, FS_EmptySet, PipelineAssumption
<1>7. i' \in 1..(Len(peaks) + 1) /\ j' \in (i' + 1)..(Len(peaks) + 2)
    BY <1>1, <1>2
<1>8. QED
    BY <1>1, <1>2, <1>4, <1>6, <1>7, LoopStep

LEMMA ReturnPreserves == AudioInv /\ Processor!Return => AudioInv'
<1> SUFFICES ASSUME AudioInv, Processor!Return PROVE AudioInv'
    OBVIOUS
<1>1. /\ track \in Processor!Tracks /\ i > Len(peaks)
      /\ track' = IF track = "song" THEN "clip" ELSE "done"
      /\ peaks' = <<>> /\ i' = 0 /\ j' = 0 /\ paired' = 0
      /\ recording' = recording /\ clip' = clip /\ prints' = prints
    BY DEF Processor!Return, Processor!input
<1>2. IsRecording(recording) /\ IsClip(clip)
    BY DEF AudioInv, InputTyped
<1>3. i # 0 /\ peaks = Line(track) /\ i \in 1..(Len(peaks) + 1)
  <2>1. i # 0
      BY <1>1 DEF AudioInv, Looping
  <2>2. QED
      BY <2>1 DEF AudioInv, Looping
<1>4. InTime(peaks) /\ Len(peaks) \in Nat
    BY <1>1, <1>2, <1>3, LineIsInTime DEF InTime
<1>5. i = Len(peaks) + 1
    BY <1>1, <1>3, <1>4
<1>6. Passed(peaks, i, j) = AllChosen(peaks)
    BY <1>4, <1>5, PassedGrows
<1>7. \A t \in Processor!Tracks : Line(t)' = Line(t)
    BY <1>1, LinesStay
<1>8. ASSUME NEW t \in Processor!Tracks PROVE MadeOf(t)' = MadeOf(t)
  <2>1. Line(t)' = Line(t)
      BY <1>7
  <2>2. CASE t = track
    <3>1. ~Finished(t)
        BY <1>1, <2>2 DEF Finished, Processor!Tracks
    <3>2. Finished(t)'
        BY <1>1, <2>2 DEF Finished, Processor!Tracks
    <3>3. MadeOf(t) = AllChosen(Line(t))
        BY <1>3, <1>6, <2>2, <3>1 DEF MadeOf
    <3>4. MadeOf(t)' = AllChosen(Line(t)')
        BY <3>2 DEF MadeOf
    <3>5. QED
        BY <2>1, <3>3, <3>4
  <2>3. CASE t # track /\ t = "song"
    <3>1. Finished(t) /\ Finished(t)'
        BY <1>1, <2>3 DEF Finished, Processor!Tracks
    <3>2. MadeOf(t) = AllChosen(Line(t)) /\ MadeOf(t)' = AllChosen(Line(t)')
        BY <3>1 DEF MadeOf
    <3>3. QED
        BY <2>1, <3>2
  <2>4. CASE t # track /\ t = "clip"
    <3>1. ~Finished(t) /\ ~Finished(t)'
        BY <1>1, <2>4 DEF Finished, Processor!Tracks
    <3>2. MadeOf(t) = {} /\ MadeOf(t)' = {}
        BY <1>1, <2>4, <3>1 DEF MadeOf
    <3>3. QED
        BY <3>2
  <2>5. QED
      BY <2>2, <2>3, <2>4 DEF Processor!Tracks
<1>9. Printing'
  <2>1. \A t \in Processor!Tracks : PrintsOf(Line(t), MadeOf(t))' = PrintsOf(Line(t), MadeOf(t))
      BY <1>7, <1>8
  <2>2. QED
      BY <1>1, <2>1 DEF AudioInv, Printing
<1>10. InputTyped'
    BY <1>1 DEF AudioInv, InputTyped, IsRecording, IsClip, Processor!Tracks
<1>11. Looping'
    BY <1>1 DEF Looping
<1>12. QED
    BY <1>9, <1>10, <1>11 DEF AudioInv

\* The matching engine does not touch the processor's variables.
LEMMA AudioUntouched == AudioInv /\ UNCHANGED audio => AudioInv'
<1> SUFFICES ASSUME AudioInv, UNCHANGED audio PROVE AudioInv'
    OBVIOUS
<1>1. /\ recording' = recording /\ clip' = clip /\ track' = track /\ peaks' = peaks
      /\ i' = i /\ j' = j /\ paired' = paired /\ prints' = prints
    BY DEF audio
<1>2. InputTyped' /\ \A t \in Processor!Tracks : Line(t)' = Line(t)
    BY <1>1, InsideTrack
<1>3. \A t \in Processor!Tracks : MadeOf(t)' = MadeOf(t)
    BY <1>1, <1>2 DEF MadeOf, Finished
<1>4. \A t \in Processor!Tracks : PrintsOf(Line(t), MadeOf(t))' = PrintsOf(Line(t), MadeOf(t))
    BY <1>2, <1>3
<1>5. Printing'
    BY <1>1, <1>4 DEF AudioInv, Printing
<1>6. Looping'
  <2>1. Nearer(peaks, i, j)' = Nearer(peaks, i, j)
      BY <1>1 DEF Nearer, InZone
  <2>2. \A t \in Processor!Tracks : t = track => Line(t)' = Line(t)
      BY <1>2
  <2>3. QED
      BY <1>1, <2>1, <2>2 DEF AudioInv, Looping
<1>7. QED
    BY <1>2, <1>5, <1>6 DEF AudioInv

LEMMA AudioStep == AudioInv /\ [PipelineNext]_pipeline => AudioInv'
<1> SUFFICES ASSUME AudioInv, [PipelineNext]_pipeline PROVE AudioInv'
    OBVIOUS
<1>1. CASE Fingerprint
    BY <1>1, DetectPreserves, SkipPreserves, PairPreserves, NextAnchorPreserves DEF Fingerprint
<1>2. CASE Ingest
    BY <1>2, ReturnPreserves DEF Ingest
<1>3. CASE Ask
    BY <1>3, ReturnPreserves DEF Ask
<1>4. CASE Recognize
    BY <1>4, AudioUntouched DEF Recognize
<1>5. CASE UNCHANGED pipeline
    BY <1>5, AudioUntouched DEF pipeline
<1>6. QED
    BY <1>1, <1>2, <1>3, <1>4, <1>5 DEF PipelineNext

-----------------------------------------------------------------------------
(***************************************************************************)
(* The matching engine along the pipeline: it waits for the processor.     *)
(***************************************************************************)

PipeInv ==
    /\ Inv
    /\ AudioInv
    /\ track # "done" => Fresh

\* The rows Ingest makes, and what Ask makes of the clip's fingerprints.
SongRows ==
    {[row |-> k, hash |-> prints["song"][k].hash, song |-> 1,
      offset |-> prints["song"][k].offset_ms, version |-> Version] :
         k \in DOMAIN prints["song"]}

ClipMarks ==
    [k \in DOMAIN prints["clip"] |->
        [hash |-> prints["clip"][k].hash, offset |-> prints["clip"][k].offset_ms]]

LEMMA PrintsAreTyped ==
    ASSUME AudioInv, NEW t \in Processor!Tracks
    PROVE  /\ Len(prints[t]) \in Nat /\ DOMAIN prints[t] = 1..Len(prints[t])
           /\ \A k \in 1..Len(prints[t]) :
                 prints[t][k] \in Fingerprints /\ prints[t][k].hash \in Nat /\ prints[t][k].offset_ms \in Nat
<1>1. prints[t] \in Seq(Fingerprints)
    BY DEF AudioInv, Printing
<1>2. Len(prints[t]) \in Nat /\ DOMAIN prints[t] = 1..Len(prints[t])
      /\ \A k \in 1..Len(prints[t]) : prints[t][k] \in Fingerprints
    BY <1>1
<1>3. QED
    BY <1>2 DEF Fingerprints

LEMMA SongRowsAreTyped ==
    ASSUME AudioInv
    PROVE  SongRows \subseteq TableRow /\ IsFiniteSet(SongRows) /\ SongsOf(SongRows) \subseteq {1}
<1> DEFINE made == prints["song"]
           f == [k \in DOMAIN made |->
                    [row |-> k, hash |-> made[k].hash, song |-> 1,
                     offset |-> made[k].offset_ms, version |-> Version]]
<1>1. /\ Len(made) \in Nat /\ DOMAIN made = 1..Len(made)
      /\ \A k \in 1..Len(made) : made[k].hash \in Nat /\ made[k].offset_ms \in Nat
    BY PrintsAreTyped DEF Processor!Tracks
<1>2. SongRows = {f[k] : k \in DOMAIN made}
    BY DEF SongRows
<1>3. \A k \in DOMAIN made : f[k] \in TableRow /\ f[k].song = 1
  <2> TAKE k \in DOMAIN made
  <2>1. k \in Nat /\ made[k].hash \in Int /\ made[k].offset_ms \in Int /\ Version \in Nat /\ 1 \in Nat \ {0}
      BY <1>1, PipelineAssumption
  <2> HIDE DEF made
  <2>2. QED
      BY <2>1 DEF TableRow
<1>4. IsFiniteSet(DOMAIN made)
    BY <1>1, FS_Interval
<1>5. f \in [DOMAIN made -> SongRows] /\ \A r \in SongRows : \E k \in DOMAIN made : f[k] = r
    BY <1>2
<1> HIDE DEF f, made
<1>6. IsFiniteSet(SongRows)
    BY <1>4, <1>5, MappedOnto
<1>7. QED
    BY <1>3, <1>5, <1>6 DEF SongsOf

LEMMA ClipMarksAreTyped == AudioInv => ClipMarks \in Seq(Mark) /\ Len(ClipMarks) = Len(prints["clip"])
<1> SUFFICES ASSUME AudioInv PROVE ClipMarks \in Seq(Mark) /\ Len(ClipMarks) = Len(prints["clip"])
    OBVIOUS
<1> DEFINE made == prints["clip"]
<1>1. /\ Len(made) \in Nat /\ DOMAIN made = 1..Len(made)
      /\ \A k \in 1..Len(made) : made[k].hash \in Nat /\ made[k].offset_ms \in Nat
    BY PrintsAreTyped DEF Processor!Tracks
<1>2. ClipMarks = [k \in 1..Len(made) |-> [hash |-> made[k].hash, offset |-> made[k].offset_ms]]
    BY <1>1 DEF ClipMarks
<1>3. ClipMarks \in [1..Len(made) -> Mark]
    BY <1>1, <1>2 DEF Mark
<1>4. QED
    BY <1>1, <1>3

LEMMA FreshIsInvariant ==
    Fresh /\ query \in Seq(Mark) => RequestTyped /\ Counted(query, Done, votes, hits) /\ Controlled
BY FreshIsCounted

LEMMA FreshIsInvariantNext ==
    (Fresh /\ query \in Seq(Mark) => RequestTyped /\ Counted(query, Done, votes, hits) /\ Controlled)'
BY FreshIsInvariant, PTL

LEMMA PipeInit == PipelineInit => PipeInv
<1> SUFFICES ASSUME PipelineInit PROVE PipeInv
    OBVIOUS
<1>1. AudioInv
    BY AudioInit
<1>2. CASE FromJson
    BY <1>1, <1>2, InvInit DEF PipeInv, FromJson
<1>3. CASE FromAudio
  <2>1. table = {} /\ songs = {} /\ query = <<>> /\ Fresh
      BY <1>3 DEF FromAudio
  <2>2. TablesTyped
      BY <2>1, FS_EmptySet DEF TablesTyped, SongsOf
  <2>3. RequestTyped /\ Counted(query, Done, votes, hits) /\ Controlled
      BY <2>1, FreshIsInvariant
  <2>4. QED
      BY <1>1, <2>1, <2>2, <2>3 DEF PipeInv, Inv
<1>4. QED
    BY <1>2, <1>3 DEF PipelineInit

LEMMA PipeStep == PipeInv /\ [PipelineNext]_pipeline => PipeInv'
<1> SUFFICES ASSUME PipeInv, [PipelineNext]_pipeline PROVE PipeInv'
    OBVIOUS
<1>1. AudioInv' /\ AudioInv /\ Inv
    BY AudioStep DEF PipeInv
<1>2. ASSUME UNCHANGED vars, track' = track PROVE PipeInv'
  <2>1. Inv'
      BY <1>1, <1>2, InvStep
  <2>2. Fresh' = Fresh
      BY <1>2 DEF vars, request, Fresh
  <2>3. QED
      BY <1>1, <1>2, <2>1, <2>2 DEF PipeInv
<1>3. CASE Fingerprint
  <2>1. track' = track
      BY <1>3 DEF Fingerprint, Processor!Detect, Processor!Skip, Processor!Pair, Processor!NextAnchor
  <2>2. QED
      BY <1>2, <1>3, <2>1 DEF Fingerprint
<1>4. CASE Ingest
  <2>1. track = "song" /\ songs' = {1} /\ table' = SongRows /\ UNCHANGED request
      BY <1>4 DEF Ingest, SongRows
  <2>2. Fresh
      BY <2>1 DEF PipeInv
  <2>3. Fresh'
      BY <2>1, <2>2 DEF Fresh, request
  <2>4. RequestTyped' /\ Counted(query, Done, votes, hits)' /\ Controlled' /\ query' \in Seq(Mark)
      BY <1>1, <2>1, RequestUntouched
  <2>5. TablesTyped'
    <3>1. SongRows \subseteq TableRow /\ IsFiniteSet(SongRows) /\ SongsOf(SongRows) \subseteq {1}
        BY <1>1, SongRowsAreTyped
    <3>2. 1 \in Nat \ {0}
        OBVIOUS
    <3> HIDE DEF SongRows
    <3>3. QED
        BY <2>1, <2>4, <3>1, <3>2 DEF TablesTyped, SongsOf
  <2>6. QED
      BY <1>1, <2>3, <2>4, <2>5 DEF PipeInv, Inv
<1>5. CASE Ask
  <2>1. /\ track = "clip" /\ query' = ClipMarks
        /\ UNCHANGED <<songs, table, found, pending, votes, hits, ranking, pc, outcome>>
      BY <1>5 DEF Ask, ClipMarks
  <2>2. Fresh
      BY <2>1 DEF PipeInv
  <2>3. Fresh' /\ query' \in Seq(Mark)
      BY <1>1, <2>1, <2>2, ClipMarksAreTyped DEF Fresh
  <2>4. RequestTyped' /\ Counted(query, Done, votes, hits)' /\ Controlled'
      BY <2>3, FreshIsInvariantNext
  <2>5. TablesTyped'
      BY <1>1, <2>1, <2>3 DEF Inv, TablesTyped, SongsOf
  <2>6. QED
      BY <1>1, <2>3, <2>4, <2>5 DEF PipeInv, Inv
<1>6. CASE Recognize
  <2>1. Next /\ track' = "done"
      BY <1>6 DEF Recognize, audio
  <2>2. Inv'
      BY <1>1, <2>1, InvStep
  <2>3. QED
      BY <1>1, <2>1, <2>2 DEF PipeInv
<1>7. CASE UNCHANGED pipeline
    BY <1>2, <1>7 DEF pipeline, audio
<1>8. QED
    BY <1>3, <1>4, <1>5, <1>6, <1>7 DEF PipelineNext

-----------------------------------------------------------------------------
(***************************************************************************)
(* The fingerprints of a track.                                            *)
(***************************************************************************)

\* Every one is of a chosen pair.
LEMMA MadeOfChosen ==
    ASSUME AudioInv, NEW t \in Processor!Tracks, NEW k \in DOMAIN prints[t]
    PROVE  \E a, b \in 1..Len(Line(t)) :
              Chosen(Line(t), a, b) /\ prints[t][k] = PrintOf(Line(t), a, b)
<1>1. prints[t][k] \in PrintsOf(Line(t), MadeOf(t))
    BY DEF AudioInv, Printing, Printed
<1>2. PICK p \in MadeOf(t) : prints[t][k] = PrintOf(Line(t), p[1], p[2])
    BY <1>1 DEF PrintsOf
<1>3. MadeOf(t) \subseteq AllChosen(Line(t))
    BY DEF MadeOf, AllChosen, Passed
<1>4. DOMAIN Line(t) = 1..Len(Line(t))
    BY LineIsInTime DEF AudioInv, InputTyped, InTime
<1>5. p[1] \in 1..Len(Line(t)) /\ p[2] \in 1..Len(Line(t)) /\ Chosen(Line(t), p[1], p[2])
    BY <1>3, <1>4 DEF AllChosen
<1>6. QED
    BY <1>2, <1>5

\* And, of a finished track, every chosen pair has one.
LEMMA ChosenAreMade ==
    ASSUME AudioInv, NEW t \in Processor!Tracks, Finished(t),
           NEW a \in 1..Len(Line(t)), NEW b \in 1..Len(Line(t)), Chosen(Line(t), a, b)
    PROVE  \E k \in DOMAIN prints[t] : prints[t][k] = PrintOf(Line(t), a, b)
<1>1. DOMAIN Line(t) = 1..Len(Line(t))
    BY LineIsInTime DEF AudioInv, InputTyped, InTime
<1> DEFINE pair == <<a, b>>
<1>2. pair \in AllChosen(Line(t)) /\ pair[1] = a /\ pair[2] = b
    BY <1>1 DEF AllChosen
<1>3. AllChosen(Line(t)) = MadeOf(t)
    BY DEF MadeOf
<1> HIDE DEF pair
<1>4. PrintOf(Line(t), a, b) \in PrintsOf(Line(t), MadeOf(t))
    BY <1>2, <1>3 DEF PrintsOf
<1>5. PrintOf(Line(t), a, b) \in Printed(prints[t])
    BY <1>4 DEF AudioInv, Printing
<1>6. QED
    BY <1>5 DEF Printed

\* What a fingerprint of peaks a and b is.
LEMMA PrintOfPeaks ==
    ASSUME AudioInv, NEW t \in Processor!Tracks,
           NEW a \in 1..Len(Line(t)), NEW b \in 1..Len(Line(t)), Chosen(Line(t), a, b)
    PROVE  LET p == Line(t)[a]
               q == Line(t)[b]
               made == PrintOf(Line(t), a, b)
           IN  /\ p \in Kept(t) /\ q \in Kept(t) /\ p \in Peak /\ q \in Peak
               /\ q.time - p.time \in ZoneMin..ZoneMax /\ q.time - p.time \in 0..ZoneMax
               /\ made.hash = Processor!PackHash(p.freq, q.freq, q.time - p.time)
               /\ made.offset_ms = Processor!TimeBinToMs(p.time)
               /\ made.hash \in Nat /\ made.hash \div Processor!VersionUnit = Version
               /\ Processor!UnpackHash(made.hash) =
                     [version |-> Version,
                      anchor |-> Processor!QuantizeFrequencyBin(p.freq),
                      target |-> Processor!QuantizeFrequencyBin(q.freq),
                      delta |-> q.time - p.time]
<1> DEFINE line == Line(t)
<1>1. InTime(line) /\ \A n \in 1..Len(line) : line[n] \in Kept(t)
    BY LineIsInTime DEF AudioInv, InputTyped
<1>2. InZone(line, a, b)
    BY DEF Chosen
<1> HIDE DEF line
<1>3. line[a] \in Peak /\ line[b] \in Peak /\ line[b].time - line[a].time \in 0..ZoneMax
    BY <1>1, <1>2, PrintIsTyped DEF line
<1>4. line[b].time - line[a].time \in ZoneMin..ZoneMax
    BY <1>2 DEF InZone
<1>5. line[a].freq \in Nat /\ line[b].freq \in Nat
    BY <1>3 DEF Peak
<1>6. /\ PrintOf(line, a, b).hash = Processor!PackHash(line[a].freq, line[b].freq, line[b].time - line[a].time)
      /\ PrintOf(line, a, b).offset_ms = Processor!TimeBinToMs(line[a].time)
    BY DEF PrintOf
<1>7. line[a] \in Kept(t) /\ line[b] \in Kept(t)
    BY <1>1 DEF line
<1>8. PICK f \in Nat, g \in Nat, dt \in 0..ZoneMax :
          f = line[a].freq /\ g = line[b].freq /\ dt = line[b].time - line[a].time
    BY <1>3, <1>5
<1>9. LET hash == Processor!PackHash(f, g, dt)
      IN  /\ hash \in Nat /\ hash \div Processor!VersionUnit = Version
          /\ Processor!UnpackHash(hash) =
                [version |-> Version,
                 anchor |-> Processor!QuantizeFrequencyBin(f),
                 target |-> Processor!QuantizeFrequencyBin(g),
                 delta |-> dt]
    BY HashIsPacked
<1>10. QED
    BY <1>3, <1>4, <1>6, <1>7, <1>8, <1>9 DEF line

LEMMA ProcessorTypeFromInv == AudioInv => ProcessorTypeOK
<1> SUFFICES ASSUME AudioInv PROVE Processor!TypeOK
    BY DEF ProcessorTypeOK
<1>1. track \in Processor!Tracks \cup {"done"}
    BY DEF AudioInv, InputTyped
<1>2. /\ i \in 0..(Len(peaks) + 1) /\ j \in 0..(Len(peaks) + 2) /\ paired \in 0..Fanout
  <2>1. CASE i = 0
    <3>1. peaks = <<>> /\ j = 0 /\ paired = 0
        BY <2>1 DEF AudioInv, Looping
    <3>2. QED
        BY <2>1, <3>1, PipelineAssumption
  <2>2. CASE i # 0
    <3>1. /\ track \in Processor!Tracks /\ peaks = Line(track)
          /\ i \in 1..(Len(peaks) + 1) /\ j \in (i + 1)..(Len(peaks) + 2)
          /\ paired = Cardinality(Nearer(peaks, i, j)) /\ paired <= Fanout
        BY <2>2 DEF AudioInv, Looping
    <3>2. InTime(peaks)
        BY <3>1, LineIsInTime DEF AudioInv, InputTyped
    <3>3. Len(peaks) \in Nat
        BY <3>2 DEF InTime
    <3>4. paired \in Nat
      <4>1. Nearer(peaks, i, j) \subseteq 1..Len(peaks)
          BY <3>2 DEF Nearer, InTime
      <4>2. IsFiniteSet(1..Len(peaks))
          BY <3>3, FS_Interval
      <4>3. QED
          BY <3>1, <4>1, <4>2, FS_Subset, FS_CardinalityType
    <3>5. QED
        BY <3>1, <3>3, <3>4, PipelineAssumption
  <2>3. QED
      BY <2>1, <2>2
<1>3. ASSUME NEW t \in Processor!Tracks, NEW k \in DOMAIN prints[t]
      PROVE  /\ prints[t][k].hash \in Nat
             /\ prints[t][k].hash \div Processor!VersionUnit = Version
             /\ prints[t][k].offset_ms \in 0..Processor!TimeBinToMs(Processor!Frames(t))
  <2>1. PICK a \in 1..Len(Line(t)), b \in 1..Len(Line(t)) :
            Chosen(Line(t), a, b) /\ prints[t][k] = PrintOf(Line(t), a, b)
      BY MadeOfChosen
  <2>2. /\ Line(t)[a] \in Kept(t) /\ Line(t)[a] \in Peak
        /\ prints[t][k].hash \in Nat /\ prints[t][k].hash \div Processor!VersionUnit = Version
        /\ prints[t][k].offset_ms = Processor!TimeBinToMs(Line(t)[a].time)
      BY <2>1, PrintOfPeaks
  <2>3. Line(t)[a].time \in Nat /\ Line(t)[a].time < Processor!Frames(t)
      BY <2>2, KeptIsConstellation DEF AudioInv, InputTyped, Peak
  <2>4. Processor!Frames(t) \in Nat
      BY MeasuresAreNumbers DEF AudioInv, InputTyped
  <2>5. /\ Processor!TimeBinToMs(Line(t)[a].time) \in Nat
        /\ Processor!TimeBinToMs(Processor!Frames(t)) \in Nat
        /\ Processor!TimeBinToMs(Line(t)[a].time) <= Processor!TimeBinToMs(Processor!Frames(t))
    <3>1. PICK u \in Nat, v \in Nat : u = Line(t)[a].time /\ v = Processor!Frames(t) /\ u <= v
        BY <2>3, <2>4
    <3>2. /\ Processor!TimeBinToMs(u) \in Nat /\ Processor!TimeBinToMs(v) \in Nat
          /\ Processor!TimeBinToMs(u) <= Processor!TimeBinToMs(v)
        BY <3>1, NearestMs, MsAreMonotonic
    <3>3. QED
        BY <3>1, <3>2
  <2>6. QED
      BY <2>2, <2>5
<1>4. QED
    BY <1>1, <1>2, <1>3 DEF Processor!TypeOK

\* Indices of the line and peaks of the constellation say the same.
LEMMA TargetsAreChosen ==
    ASSUME IsRecording(recording), IsClip(clip), NEW t \in Processor!Tracks,
           NEW a \in 1..Len(Line(t)), NEW b \in 1..Len(Line(t))
    PROVE  Line(t)[b] \in Processor!Targets(Kept(t), Line(t)[a]) <=> Chosen(Line(t), a, b)
<1> DEFINE line == Line(t)
           kept == Kept(t)
           zone == Processor!Zone(kept, line[a])
           inside == Nearer(line, a, b)
           below == Below(zone, line[b])
           f == [m \in inside |-> line[m]]
<1>1. /\ InTime(line)
      /\ \A n \in 1..Len(line) : line[n] \in kept
      /\ \A p \in kept : \E n \in 1..Len(line) : line[n] = p
      /\ \A m, n \in 1..Len(line) : m < n <=> Processor!Earlier(line[m], line[n])
    BY LineIsInTime
<1>2. DOMAIN line = 1..Len(line) /\ Len(line) \in Nat
    BY <1>1 DEF InTime
<1>3. zone = {p \in kept : p.time - line[a].time \in ZoneMin..ZoneMax /\ Processor!Earlier(line[a], p)}
    BY DEF Processor!Zone
<1>4. below = {p \in zone : Processor!Earlier(p, line[b])}
    BY DEF Below
<1>5. a \in 1..Len(line) /\ b \in 1..Len(line)
    OBVIOUS
<1>6. IsFiniteSet(kept)
    BY KeptIsConstellation DEF Constellation
<1> HIDE DEF line, kept, zone, below
<1>7. \A m \in 1..Len(line) : line[m] \in zone <=> InZone(line, a, m)
    BY <1>1, <1>3, <1>5 DEF InZone
<1>8. \A m \in 1..Len(line) : line[m] \in below <=> m \in inside
    BY <1>1, <1>2, <1>4, <1>5, <1>7 DEF Nearer
<1>9. \A m, n \in 1..Len(line) : line[m] = line[n] => m = n
  <2> SUFFICES ASSUME NEW m \in 1..Len(line), NEW n \in 1..Len(line), line[m] = line[n], m # n
               PROVE  FALSE
      OBVIOUS
  <2>1. Processor!Earlier(line[m], line[n]) \/ Processor!Earlier(line[n], line[m])
      BY <1>1, <1>2
  <2>2. Processor!Earlier(line[m], line[m])
      BY <2>1
  <2>3. QED
      BY <1>1, <2>2
<1>10. inside \subseteq 1..Len(line)
    BY <1>2 DEF Nearer
<1>11. below \subseteq kept
    BY <1>3, <1>4
<1>12. f \in [inside -> below]
    BY <1>8, <1>10
<1>13. \A m, n \in inside : f[m] = f[n] => m = n
    BY <1>9, <1>10
<1>14. \A p \in below : \E m \in inside : f[m] = p
    BY <1>1, <1>8, <1>11
<1>15. IsFiniteSet(below) /\ IsFiniteSet(inside)
  <2>1. IsFiniteSet(1..Len(line))
      BY <1>2, FS_Interval
  <2>2. QED
      BY <1>6, <1>10, <1>11, <2>1, FS_Subset
<1> HIDE DEF f, inside
<1>16. Cardinality(inside) <= Cardinality(below)
    BY <1>12, <1>13, <1>15, ToldApart
<1>17. Cardinality(below) <= Cardinality(inside)
    BY <1>12, <1>14, <1>15, MappedOnto
<1>18. Cardinality(below) \in Nat /\ Cardinality(inside) \in Nat
    BY <1>15, FS_CardinalityType
<1>19. Cardinality(below) = Cardinality(inside)
    BY <1>16, <1>17, <1>18
<1>20. Processor!Rank(zone, line[b]) = Cardinality(below)
    BY RankCounts DEF below
<1>21. line[b] \in Processor!Targets(kept, line[a]) <=>
           line[b] \in zone /\ Processor!Rank(zone, line[b]) < Fanout
    BY DEF Processor!Targets, zone
<1>22. QED
    BY <1>5, <1>7, <1>19, <1>20, <1>21 DEF Chosen, inside, line, kept

LEMMA DocumentedFromInv == AudioInv => Processor!LandmarksAreAsDocumented
<1> SUFFICES ASSUME AudioInv, track = "done", NEW t \in Processor!Tracks
             PROVE  Processor!Generated(t) = Processor!Documented(t)
    BY DEF Processor!LandmarksAreAsDocumented
<1> DEFINE line == Line(t)
           kept == Kept(t)
           Told(p, q) ==
               [fields |-> [version |-> Version,
                            anchor |-> Processor!QuantizeFrequencyBin(p.freq),
                            target |-> Processor!QuantizeFrequencyBin(q.freq),
                            delta |-> q.time - p.time],
                offset_ms |-> Processor!TimeBinToMs(p.time)]
           Read(made) == [fields |-> Processor!UnpackHash(made.hash), offset_ms |-> made.offset_ms]
<1>1. IsRecording(recording) /\ IsClip(clip) /\ Finished(t)
    BY DEF AudioInv, InputTyped, Finished
<1>2. /\ \A n \in 1..Len(line) : line[n] \in kept
      /\ \A p \in kept : \E n \in 1..Len(line) : line[n] = p
    BY <1>1, LineIsInTime
<1>3. \A e : e \in Processor!Generated(t) <=> \E k \in DOMAIN prints[t] : e = Read(prints[t][k])
    BY DEF Processor!Generated
<1>4. \A e : e \in Processor!Documented(t) <=>
          \E p \in kept : \E q \in Processor!Targets(kept, p) : e = Told(p, q)
    BY DEF Processor!Documented, Kept
<1>5. \A p \in kept : Processor!Targets(kept, p) \subseteq kept
    BY DEF Processor!Targets, Processor!Zone
<1>6. \A a, b \in 1..Len(line) : Chosen(line, a, b) =>
          Read(PrintOf(line, a, b)) = Told(line[a], line[b])
    BY PrintOfPeaks
<1>7. \A a, b \in 1..Len(line) :
          line[b] \in Processor!Targets(kept, line[a]) <=> Chosen(line, a, b)
    BY <1>1, TargetsAreChosen
<1>8. \A k \in DOMAIN prints[t] : \E a, b \in 1..Len(line) :
          Chosen(line, a, b) /\ prints[t][k] = PrintOf(line, a, b)
    BY MadeOfChosen
<1>9. \A a, b \in 1..Len(line) : Chosen(line, a, b) =>
          \E k \in DOMAIN prints[t] : prints[t][k] = PrintOf(line, a, b)
    BY <1>1, ChosenAreMade
<1> HIDE DEF line, kept, Told, Read
<1>10. ASSUME NEW e \in Processor!Generated(t) PROVE e \in Processor!Documented(t)
  <2>1. PICK k \in DOMAIN prints[t] : e = Read(prints[t][k])
      BY <1>3
  <2>2. PICK a \in 1..Len(line), b \in 1..Len(line) :
            Chosen(line, a, b) /\ prints[t][k] = PrintOf(line, a, b)
      BY <1>8
  <2>3. e = Told(line[a], line[b]) /\ line[b] \in Processor!Targets(kept, line[a])
      BY <1>6, <1>7, <2>1, <2>2
  <2>4. QED
      BY <1>2, <1>4, <2>3
<1>11. ASSUME NEW e \in Processor!Documented(t) PROVE e \in Processor!Generated(t)
  <2>1. PICK p \in kept : \E q \in Processor!Targets(kept, p) : e = Told(p, q)
      BY <1>4
  <2>2. PICK q \in Processor!Targets(kept, p) : e = Told(p, q)
      BY <2>1
  <2>3. q \in kept
      BY <1>5, <2>2
  <2>4. PICK a \in 1..Len(line) : line[a] = p
      BY <1>2
  <2>5. PICK b \in 1..Len(line) : line[b] = q
      BY <1>2, <2>3
  <2>6. Chosen(line, a, b)
      BY <1>7, <2>2, <2>4, <2>5
  <2>7. PICK k \in DOMAIN prints[t] : prints[t][k] = PrintOf(line, a, b)
      BY <1>9, <2>6
  <2>8. e = Read(prints[t][k])
      BY <1>6, <2>2, <2>4, <2>5, <2>6, <2>7
  <2>9. QED
      BY <1>3, <2>8
<1>12. QED
    BY <1>10, <1>11

\* Nothing is thinned out of a track that has room for all of its peaks.
LEMMA SparseKeepsAll ==
    ASSUME IsRecording(recording), IsClip(clip), Processor!Sparse, NEW t \in Processor!Tracks
    PROVE  Kept(t) = Processor!Candidates(t)
<1> DEFINE all == Processor!Candidates(t)
           most == Processor!MaxPeaks(t)
<1>1. Cardinality(all) <= most
    BY SameCount DEF Processor!Sparse
<1>2. IsFiniteSet(all) /\ all \subseteq Peak /\ most \in Nat
    BY CandidatesAreConstellation, MeasuresAreNumbers DEF Constellation
<1>3. Kept(t) = {p \in all : Cardinality({q \in all : Processor!Louder(q, p)}) < most}
    BY SameCount DEF Kept, Processor!Thinned
<1> HIDE DEF all, most
<1>4. ASSUME NEW p \in all PROVE Cardinality({q \in all : Processor!Louder(q, p)}) < most
  <2> DEFINE louder == {q \in all : Processor!Louder(q, p)}
  <2>1. ~Processor!Louder(p, p)
      BY <1>2 DEF Processor!Louder, Processor!Lexicographic, Peak
  <2>2. louder \subseteq all /\ p \notin louder
      BY <2>1
  <2> HIDE DEF louder
  <2>3. IsFiniteSet(louder) /\ Cardinality(louder) <= Cardinality(all) /\ Cardinality(louder) # Cardinality(all)
      BY <1>2, <2>2, FS_Subset
  <2>4. Cardinality(louder) \in Nat /\ Cardinality(all) \in Nat
      BY <1>2, <2>3, FS_CardinalityType
  <2>5. QED
      BY <1>1, <1>2, <2>3, <2>4 DEF louder
<1>5. QED
    BY <1>3, <1>4 DEF all

\* A peak of the clip on the song's clock, and the other way round.
OnSong(p) == [p EXCEPT !.time = @ + clip.start]
OnClip(p) == [p EXCEPT !.time = @ - clip.start]

Shown == {q \in recording.peaks : q.time \in clip.start..(clip.start + clip.frames - 1)}

LEMMA Clocks ==
    ASSUME IsClip(clip), NEW p \in Peak
    PROVE  /\ OnSong(p) \in Peak /\ OnSong(p).time = p.time + clip.start
           /\ OnSong(p).freq = p.freq /\ OnSong(p).amp = p.amp
           /\ OnClip(p).time = p.time - clip.start
           /\ OnClip(p).freq = p.freq /\ OnClip(p).amp = p.amp
           /\ clip.start <= p.time => OnSong(OnClip(p)) = p
<1>1. clip.start \in Nat
    BY DEF IsClip
<1>2. /\ p = [time |-> p.time, freq |-> p.freq, amp |-> p.amp]
      /\ p.time \in Nat /\ p.freq \in Nat /\ p.amp \in Int
    BY DEF Peak
<1>3. /\ OnSong(p) = [time |-> p.time + clip.start, freq |-> p.freq, amp |-> p.amp]
      /\ OnClip(p) = [time |-> p.time - clip.start, freq |-> p.freq, amp |-> p.amp]
    BY <1>2 DEF OnSong, OnClip
<1>4. OnSong(OnClip(p)) = [time |-> (p.time - clip.start) + clip.start, freq |-> p.freq, amp |-> p.amp]
    BY <1>3 DEF OnSong
<1>5. (p.time - clip.start) + clip.start = p.time
    BY <1>1, <1>2
<1>6. QED
    BY <1>1, <1>2, <1>3, <1>4, <1>5 DEF Peak

LEMMA ClipShows ==
    ASSUME IsRecording(recording), IsClip(clip)
    PROVE  /\ Processor!Candidates("song") = recording.peaks /\ recording.peaks \subseteq Peak
           /\ Processor!Candidates("clip") \subseteq Peak
           /\ \A p \in Shown : OnClip(p) \in Processor!Candidates("clip")
           /\ \A p \in Processor!Candidates("clip") : OnSong(p) \in Shown
<1>1. Processor!Candidates("song") = recording.peaks /\ recording.peaks \subseteq Peak
    BY DEF Processor!Candidates, IsRecording
<1>2. Processor!Candidates("clip") = {OnClip(p) : p \in Shown}
    BY DEF Processor!Candidates, OnClip, Shown
<1>3. Processor!Candidates("clip") \subseteq Peak
    BY CandidatesAreConstellation DEF Processor!Tracks, Constellation
<1>4. ASSUME NEW p \in Processor!Candidates("clip") PROVE OnSong(p) \in Shown
  <2>1. PICK q \in Shown : p = OnClip(q)
      BY <1>2
  <2>2. q \in Peak /\ clip.start <= q.time
      BY <1>1 DEF Shown, Peak, IsClip
  <2>3. OnSong(p) = q
      BY <2>1, <2>2, Clocks
  <2>4. QED
      BY <2>3
<1>5. QED
    BY <1>1, <1>2, <1>3, <1>4

\* Where nothing is thinned out, a pair of the clip is one of the song.
LEMMA ClipPairIsSongPair ==
    ASSUME IsRecording(recording), IsClip(clip), Processor!Sparse,
           NEW p \in Kept("clip"), NEW q \in Processor!Targets(Kept("clip"), p)
    PROVE  OnSong(p) \in Kept("song") /\ OnSong(q) \in Processor!Targets(Kept("song"), OnSong(p))
<1> DEFINE song == Kept("song")
           part == Kept("clip")
           zone == Processor!Zone(song, OnSong(p))
           near == Processor!Zone(part, p)
           before == Below(zone, OnSong(q))
           nearer == Below(near, q)
           f == [r \in before |-> OnClip(r)]
<1>1. song = recording.peaks /\ part = Processor!Candidates("clip")
    BY SparseKeepsAll, ClipShows DEF Processor!Tracks
<1>2. /\ song \subseteq Peak /\ part \subseteq Peak
      /\ \A r \in Shown : OnClip(r) \in part
      /\ \A r \in part : OnSong(r) \in Shown
    BY <1>1, ClipShows
<1>3. clip.start \in Nat /\ clip.frames \in Nat
    BY DEF IsClip
<1>4. ZoneMin \in Nat /\ ZoneMax \in Nat /\ Fanout \in Nat
    BY PipelineAssumption
<1>5. \A a, b : Processor!Earlier(a, b) <=> a.time < b.time \/ (a.time = b.time /\ a.freq < b.freq)
    BY DEF Processor!Earlier, Processor!Lexicographic
<1>6. /\ zone = {r \in song : r.time - OnSong(p).time \in ZoneMin..ZoneMax /\ Processor!Earlier(OnSong(p), r)}
      /\ near = {r \in part : r.time - p.time \in ZoneMin..ZoneMax /\ Processor!Earlier(p, r)}
      /\ before = {r \in zone : Processor!Earlier(r, OnSong(q))}
      /\ nearer = {r \in near : Processor!Earlier(r, q)}
    BY DEF Processor!Zone, Below
<1>7. p \in part /\ q \in near /\ Cardinality(nearer) < Fanout
    BY RankCounts DEF Processor!Targets
<1> HIDE DEF song, part, zone, near, before, nearer
<1>8. p \in Peak /\ q \in Peak /\ q \in part
    BY <1>2, <1>6, <1>7
<1>9. /\ OnSong(p).time = p.time + clip.start /\ OnSong(p).freq = p.freq
      /\ OnSong(q).time = q.time + clip.start /\ OnSong(q).freq = q.freq
    BY <1>8, Clocks
<1>10. p.time \in Nat /\ p.freq \in Nat /\ q.time \in Nat /\ q.freq \in Nat
    BY <1>8 DEF Peak
<1>11. /\ OnSong(p) \in song /\ OnSong(q) \in song
       /\ OnSong(p).time >= clip.start /\ OnSong(q).time <= clip.start + clip.frames - 1
  <2>1. OnSong(p) \in Shown /\ OnSong(q) \in Shown
      BY <1>2, <1>7, <1>8
  <2>2. QED
      BY <1>1, <1>3, <1>9, <1>10, <2>1 DEF Shown
<1>12. OnSong(q) \in zone
  <2>1. q.time - p.time \in ZoneMin..ZoneMax /\ Processor!Earlier(p, q)
      BY <1>6, <1>7
  <2>2. OnSong(q).time - OnSong(p).time = q.time - p.time
      BY <1>3, <1>9, <1>10
  <2>3. Processor!Earlier(OnSong(p), OnSong(q))
      BY <1>3, <1>5, <1>9, <1>10, <2>1
  <2>4. QED
      BY <1>6, <1>11, <2>1, <2>2, <2>3
<1>13. ASSUME NEW r \in before
       PROVE  r \in Peak /\ r.time >= clip.start /\ OnClip(r) \in nearer
  <2>1. /\ r \in song /\ r.time - OnSong(p).time \in ZoneMin..ZoneMax
        /\ Processor!Earlier(OnSong(p), r) /\ Processor!Earlier(r, OnSong(q))
      BY <1>6
  <2>2. r \in Peak /\ r.time \in Nat /\ r.freq \in Nat
      BY <1>2, <2>1 DEF Peak
  <2>3. OnSong(p).time <= r.time /\ r.time <= OnSong(q).time
      BY <1>3, <1>5, <1>9, <1>10, <2>1, <2>2
  <2>4. r.time \in clip.start..(clip.start + clip.frames - 1)
      BY <1>3, <1>9, <1>10, <1>11, <2>2, <2>3
  <2>5. r \in Shown
      BY <1>1, <2>1, <2>4 DEF Shown
  <2>6. OnClip(r) \in part /\ OnClip(r).time = r.time - clip.start /\ OnClip(r).freq = r.freq
      BY <1>2, <2>2, <2>5, Clocks
  <2>7. OnClip(r).time - p.time = r.time - OnSong(p).time
      BY <1>3, <1>9, <1>10, <2>2, <2>6
  <2>8. Processor!Earlier(p, OnClip(r)) /\ Processor!Earlier(OnClip(r), q)
      BY <1>3, <1>5, <1>9, <1>10, <2>1, <2>2, <2>6
  <2>9. QED
      BY <1>3, <1>6, <2>1, <2>2, <2>4, <2>6, <2>7, <2>8
<1>14. f \in [before -> nearer]
    BY <1>13
<1>15. \A r, s \in before : f[r] = f[s] => r = s
  <2> SUFFICES ASSUME NEW r \in before, NEW s \in before, OnClip(r) = OnClip(s) PROVE r = s
      OBVIOUS
  <2>1. OnSong(OnClip(r)) = r /\ OnSong(OnClip(s)) = s
      BY <1>13, Clocks
  <2>2. QED
      BY <2>1
<1>16. IsFiniteSet(nearer)
  <2>1. nearer \subseteq part
      BY <1>6
  <2>2. IsFiniteSet(part)
      BY KeptIsConstellation DEF Processor!Tracks, Constellation, part
  <2>3. QED
      BY <2>1, <2>2, FS_Subset
<1> HIDE DEF f
<1>17. IsFiniteSet(before) /\ Cardinality(before) <= Cardinality(nearer)
    BY <1>14, <1>15, <1>16, ToldApart
<1>18. Cardinality(before) \in Nat /\ Cardinality(nearer) \in Nat
    BY <1>16, <1>17, FS_CardinalityType
<1>19. Processor!Rank(zone, OnSong(q)) < Fanout
    BY <1>4, <1>7, <1>17, <1>18, RankCounts DEF before
<1>20. OnSong(q) \in Processor!Targets(song, OnSong(p))
    BY <1>12, <1>19 DEF Processor!Targets, zone
<1>21. QED
    BY <1>11, <1>20 DEF song

LEMMA ClipPointsFromInv == AudioInv => Processor!ClipPointsToItsPlace
<1> SUFFICES ASSUME AudioInv, track = "done", Processor!Sparse, NEW k \in DOMAIN prints["clip"]
             PROVE  \E r \in Processor!RowsOf(k) :
                        Processor!OffsetOf(r, k) - Processor!TimeBinToMs(clip.start) \in -1..1
    BY DEF Processor!ClipPointsToItsPlace
<1>1. IsRecording(recording) /\ IsClip(clip) /\ Finished("song") /\ Finished("clip")
    BY DEF AudioInv, InputTyped, Finished
<1>2. "song" \in Processor!Tracks /\ "clip" \in Processor!Tracks
    BY DEF Processor!Tracks
<1> DEFINE part == Line("clip")
           song == Line("song")
<1>3. PICK a \in 1..Len(part), b \in 1..Len(part) :
          Chosen(part, a, b) /\ prints["clip"][k] = PrintOf(part, a, b)
    BY <1>2, MadeOfChosen
<1> DEFINE p == part[a]
           q == part[b]
<1>4. /\ p \in Kept("clip") /\ p \in Peak /\ q \in Peak
      /\ prints["clip"][k].hash = Processor!PackHash(p.freq, q.freq, q.time - p.time)
      /\ prints["clip"][k].offset_ms = Processor!TimeBinToMs(p.time)
    BY <1>2, <1>3, PrintOfPeaks
<1>5. q \in Processor!Targets(Kept("clip"), p)
    BY <1>1, <1>2, <1>3, TargetsAreChosen
<1>6. OnSong(p) \in Kept("song") /\ OnSong(q) \in Processor!Targets(Kept("song"), OnSong(p))
    BY <1>1, <1>4, <1>5, ClipPairIsSongPair
<1>7. OnSong(q) \in Kept("song")
    BY <1>6 DEF Processor!Targets, Processor!Zone
<1>8. PICK x \in 1..Len(song), y \in 1..Len(song) : song[x] = OnSong(p) /\ song[y] = OnSong(q)
    BY <1>1, <1>2, <1>6, <1>7, LineIsInTime
<1>9. Chosen(song, x, y)
    BY <1>1, <1>2, <1>6, <1>8, TargetsAreChosen
<1>10. PICK r \in DOMAIN prints["song"] : prints["song"][r] = PrintOf(song, x, y)
    BY <1>1, <1>2, <1>9, ChosenAreMade
<1>11. /\ prints["song"][r].hash =
             Processor!PackHash(OnSong(p).freq, OnSong(q).freq, OnSong(q).time - OnSong(p).time)
       /\ prints["song"][r].offset_ms = Processor!TimeBinToMs(OnSong(p).time)
    BY <1>2, <1>8, <1>9, <1>10, PrintOfPeaks
<1> HIDE DEF part, song, p, q
<1>12. /\ OnSong(p).time = p.time + clip.start /\ OnSong(q).time = q.time + clip.start
       /\ OnSong(p).freq = p.freq /\ OnSong(q).freq = q.freq
    BY <1>1, <1>4, Clocks
<1>13. clip.start \in Nat /\ p.time \in Nat /\ q.time \in Nat
    BY <1>1, <1>4 DEF IsClip, Peak
<1>14. OnSong(q).time - OnSong(p).time = q.time - p.time
    BY <1>12, <1>13
<1>15. prints["song"][r].hash = prints["clip"][k].hash
    BY <1>4, <1>11, <1>12, <1>14
<1>16. r \in Processor!RowsOf(k)
    BY <1>15 DEF Processor!RowsOf
<1>17. PICK t \in Nat, u \in Nat : t = p.time /\ u = clip.start
    BY <1>13
<1>18. Processor!TimeBinToMs(t + u) - Processor!TimeBinToMs(t) - Processor!TimeBinToMs(u) \in -1..1
    BY MsAddUp
<1>19. /\ Processor!TimeBinToMs(t) \in Nat /\ Processor!TimeBinToMs(u) \in Nat
       /\ Processor!TimeBinToMs(t + u) \in Nat
  <2>1. t + u \in Nat
      OBVIOUS
  <2>2. QED
      BY <2>1, NearestMs
<1>20. Processor!OffsetOf(r, k) = Processor!TimeBinToMs(t + u) - Processor!TimeBinToMs(t)
    BY <1>4, <1>11, <1>12, <1>17 DEF Processor!OffsetOf
<1>21. Processor!OffsetOf(r, k) - Processor!TimeBinToMs(clip.start) \in -1..1
    BY <1>17, <1>18, <1>19, <1>20
<1>22. QED
    BY <1>16, <1>21

-----------------------------------------------------------------------------
(***************************************************************************)
(* What the engine is fed of a recording.                                  *)
(***************************************************************************)

Fed ==
    recording.frames > 0 =>
        /\ track = "song" => table = {}
        /\ track = "clip" => table = SongRows
        /\ track = "done" =>
              query = ClipMarks /\ table \in {{}, SongRows} /\ found \in {{}, SongRows}

LEMMA FedInit == PipelineInit => Fed
<1>1. FromJson => recording.frames = 0
    BY DEF FromJson
<1>2. FromAudio => table = {} /\ track = "song"
    BY DEF FromAudio, Processor!Init
<1>3. QED
    BY <1>1, <1>2 DEF PipelineInit, Fed

LEMMA FedStep == PipeInv /\ Fed /\ [PipelineNext]_pipeline => Fed'
<1> SUFFICES ASSUME PipeInv, Fed, [PipelineNext]_pipeline, recording'.frames > 0
             PROVE  /\ track' = "song" => table' = {}
                    /\ track' = "clip" => table' = SongRows'
                    /\ track' = "done" =>
                          query' = ClipMarks' /\ table' \in {{}, SongRows'} /\ found' \in {{}, SongRows'}
    BY DEF Fed
<1>1. AudioInv
    BY DEF PipeInv
<1>2. ASSUME prints'["song"] = prints["song"] PROVE SongRows' = SongRows
    BY <1>2 DEF SongRows
<1>3. ASSUME prints' = prints PROVE SongRows' = SongRows /\ ClipMarks' = ClipMarks
    BY <1>3 DEF SongRows, ClipMarks
<1>4. CASE Fingerprint
  <2>1. /\ recording' = recording /\ track' = track /\ track \in Processor!Tracks
        /\ table' = table
        /\ prints' = prints \/ \E e : prints' = [prints EXCEPT ![track] = Append(@, e)]
      BY <1>4 DEF Fingerprint, Processor!Detect, Processor!Skip, Processor!Pair, Processor!NextAnchor,
                  Processor!Searching, Processor!input, vars
  <2>2. track = "clip" => prints'["song"] = prints["song"]
    <3>1. prints \in [Processor!Tracks -> Seq(Fingerprints)] /\ "song" \in Processor!Tracks
        BY <1>1 DEF AudioInv, Printing, Processor!Tracks
    <3>2. \A new : [prints EXCEPT !["clip"] = new]["song"] = prints["song"]
        BY <3>1
    <3>3. QED
        BY <2>1, <3>2
  <2>3. QED
      BY <1>2, <2>1, <2>2 DEF Fed, Processor!Tracks
<1>5. CASE Ingest
    BY <1>3, <1>5 DEF Ingest, Processor!Return, SongRows
<1>6. CASE Ask
  <2>1. /\ track = "clip" /\ track' = "done" /\ recording' = recording /\ prints' = prints
        /\ query' = ClipMarks /\ table' = table /\ found' = found
      BY <1>6 DEF Ask, Processor!Return, Processor!input, ClipMarks
  <2>2. found = {} /\ table = SongRows
      BY <2>1 DEF PipeInv, Fresh, Fed
  <2>3. QED
      BY <1>3, <2>1, <2>2
<1>7. CASE Recognize
  <2>1. Next /\ track = "done" /\ track' = "done" /\ recording' = recording /\ prints' = prints
      BY <1>7 DEF Recognize, audio
  <2>2. query = ClipMarks /\ table \in {{}, SongRows} /\ found \in {{}, SongRows}
      BY <2>1 DEF Fed
  <2>3. query' = query
      BY <2>1 DEF Next, RejectEmptyQuery, RunLookup, Judge, Fetch, DatabaseError, Vote,
                  DeleteSong, DeleteFingerprints, request
  <2>4. \/ table' = table
        \/ \E s : table' = {r \in table : r.song # s}
      BY <2>1 DEF Next, RejectEmptyQuery, RunLookup, Judge, Fetch, DatabaseError, Vote,
                  DeleteSong, DeleteFingerprints, request
  <2>5. found' \in {found, table}
      BY <2>1 DEF Next, RejectEmptyQuery, RunLookup, Judge, Fetch, DatabaseError, Vote,
                  DeleteSong, DeleteFingerprints, request
  <2>6. \A r \in SongRows : r.song = 1
      BY DEF SongRows
  <2> HIDE DEF SongRows
  <2>7. \A s : {r \in SongRows : r.song # s} \in {{}, SongRows}
      BY <2>6
  <2>8. table' \in {{}, SongRows}
      BY <2>2, <2>4, <2>7
  <2>9. QED
      BY <1>3, <2>1, <2>2, <2>3, <2>5, <2>8
<1>8. CASE UNCHANGED pipeline
    BY <1>3, <1>8 DEF pipeline, vars, request, audio, Fed
<1>9. QED
    BY <1>4, <1>5, <1>6, <1>7, <1>8 DEF PipelineNext

\* The positions of the query whose landmark points to the clip's place.
LEMMA EveryPositionHasRow ==
    ASSUME PipeInv, Fed, pc = "vote", recording.frames > 0, Processor!Sparse
    PROVE  /\ found = SongRows
           /\ \A k \in DOMAIN query : \E r \in found :
                 /\ r.hash = query[k].hash /\ r.version = Version /\ r.song = 1
                 /\ r.offset - query[k].offset - Processor!TimeBinToMs(clip.start) \in -1..1
<1>1. track = "done" /\ AudioInv /\ Inv
    BY DEF PipeInv, Fresh
<1>2. query = ClipMarks /\ found \in {{}, SongRows}
    BY <1>1 DEF Fed
<1>3. found = SongRows
  <2>1. Returned # {}
      BY <1>1 DEF Inv, Controlled
  <2>2. found = {} => Returned = {}
      BY DEF Returned, Lookup
  <2>3. QED
      BY <1>2, <2>1, <2>2
<1>4. DOMAIN query = DOMAIN prints["clip"]
      /\ \A k \in DOMAIN query :
            query[k].hash = prints["clip"][k].hash /\ query[k].offset = prints["clip"][k].offset_ms
    BY <1>2 DEF ClipMarks
<1>5. ASSUME NEW k \in DOMAIN query
      PROVE  \E r \in found :
                 /\ r.hash = query[k].hash /\ r.version = Version /\ r.song = 1
                 /\ r.offset - query[k].offset - Processor!TimeBinToMs(clip.start) \in -1..1
  <2>1. k \in DOMAIN prints["clip"]
      BY <1>4
  <2>2. PICK n \in Processor!RowsOf(k) :
            Processor!OffsetOf(n, k) - Processor!TimeBinToMs(clip.start) \in -1..1
      BY <1>1, <2>1, ClipPointsFromInv DEF Processor!ClipPointsToItsPlace
  <2>3. n \in DOMAIN prints["song"] /\ prints["song"][n].hash = prints["clip"][k].hash
      BY DEF Processor!RowsOf
  <2> DEFINE r == [row |-> n, hash |-> prints["song"][n].hash, song |-> 1,
                   offset |-> prints["song"][n].offset_ms, version |-> Version]
  <2>4. r \in found
      BY <1>3, <2>3 DEF SongRows
  <2>5. /\ r.hash = prints["song"][n].hash /\ r.offset = prints["song"][n].offset_ms
        /\ r.version = Version /\ r.song = 1
      OBVIOUS
  <2> HIDE DEF r
  <2>6. query[k].hash = prints["clip"][k].hash /\ query[k].offset = prints["clip"][k].offset_ms
      BY <1>4
  <2>8. r.offset - query[k].offset = Processor!OffsetOf(n, k)
      BY <2>5, <2>6 DEF Processor!OffsetOf
  <2>7. QED
      BY <2>2, <2>3, <2>4, <2>5, <2>6, <2>8
<1>6. QED
    BY <1>3, <1>5

\* Three neighbouring offsets fall into two neighbouring buckets.
LEMMA HalfFromInv ==
    ASSUME BucketMs >= 3, PipeInv, Fed,
           pc = "vote", pending = {}, recording.frames > 0, Processor!Sparse
    PROVE  2 * DominantVotes(votes, 1) >= Len(query)
<1> DEFINE c == Processor!TimeBinToMs(clip.start)
           z == Quantize(c - 1)
           Fits(k, r) ==
               /\ r.hash = query[k].hash /\ r.version = Version /\ r.song = 1
               /\ r.offset - query[k].offset - c \in -1..1
           row == [k \in DOMAIN query |-> CHOOSE r \in found : Fits(k, r)]
           At(y) == {k \in DOMAIN query : Quantize(row[k].offset - query[k].offset) = y}
           D == DominantVotes(votes, 1)
<1>1. Inv /\ AudioInv /\ found = SongRows
    BY EveryPositionHasRow DEF PipeInv
<1>2. /\ Counted(query, Returned, votes, hits) /\ VoteTable(votes)
      /\ IsFiniteSet(Returned) /\ query \in Seq(Mark) /\ found \subseteq TableRow
    BY <1>1, AllCounted DEF Inv, TablesTyped, RequestTyped
<1>3. /\ DOMAIN query = 1..Len(query) /\ Len(query) \in Nat
      /\ IsFiniteSet(DOMAIN query) /\ Cardinality(DOMAIN query) = Len(query)
      /\ \A k \in DOMAIN query : query[k] \in Mark
    BY <1>2, PositionsAreFinite
<1>4. c \in Nat
    BY <1>1, NearestMs DEF AudioInv, InputTyped, IsClip
<1>5. \A k \in DOMAIN query : \E r \in found : Fits(k, r)
    BY EveryPositionHasRow
<1>6. \A k \in DOMAIN query : row[k] \in found /\ Fits(k, row[k])
    BY <1>5
<1> HIDE DEF row, c
<1>7. \A k \in DOMAIN query :
          /\ row[k] \in TableRow /\ row[k].offset \in Int /\ query[k].offset \in Int
          /\ Quantize(row[k].offset - query[k].offset) \in {z, z + 1}
  <2> TAKE k \in DOMAIN query
  <2>1. row[k] \in TableRow /\ query[k] \in Mark
      BY <1>2, <1>3, <1>6
  <2>2. row[k].offset \in Int /\ query[k].offset \in Int
      BY <2>1 DEF TableRow, Mark
  <2>3. PICK off \in Int : off = row[k].offset - query[k].offset
      BY <2>2
  <2>4. PICK low \in Int : low = c - 1
      BY <1>4
  <2>5. off - c \in -1..1
      BY <1>6, <2>3
  <2>6. Width >= 3 /\ Width \in Nat
      BY BucketAssumption DEF Width
  <2>7. low <= off /\ off < low + Width
      BY <1>4, <2>3, <2>4, <2>5, <2>6
  <2>8. Quantize(off) - Quantize(low) \in {0, 1}
      BY <2>7, QuantizeIsSteady
  <2>9. Quantize(off) \in Int /\ Quantize(low) \in Int
      BY QuantizeIsNearest
  <2>10. Quantize(off) \in {Quantize(low), Quantize(low) + 1}
      BY <2>8, <2>9
  <2>11. QED
      BY <2>1, <2>2, <2>3, <2>4, <2>10
<1>8. 1 \in Voted(votes)
  <2>1. PICK m \in Returned : TRUE
      BY <1>1 DEF Inv, Controlled
  <2>2. m \in (DOMAIN query) \X found /\ query[m[1]].hash = m[2].hash
      BY DEF Returned, Lookup
  <2>3. m[2].song = 1
      BY <1>1, <2>2 DEF SongRows
  <2> DEFINE b == <<m, m[1]>>
  <2>4. b \in Ballots(query, Returned) /\ b[1] = m /\ b[2] = m[1]
      BY <2>2 DEF Ballots
  <2>5. Ballot(query, b[1][2], b[2]) \in DOMAIN votes
      BY <1>2, <2>4 DEF Counted
  <2>6. Ballot(query, b[1][2], b[2])[1] = 1
      BY <2>3, <2>4 DEF Ballot
  <2> HIDE DEF b
  <2>7. QED
      BY <2>5, <2>6 DEF Voted
<1>9. D \in Nat \ {0} /\ \A y : <<1, y>> \in DOMAIN votes => votes[<<1, y>>] <= D
    BY <1>2, <1>8, DominantBucketIsOne
<1> HIDE DEF D
<1>10. ASSUME NEW y PROVE IsFiniteSet(At(y)) /\ Cardinality(At(y)) \in Nat /\ Cardinality(At(y)) <= D
  <2> DEFINE cast == Cast(query, Returned, <<1, y>>)
             g == [k \in At(y) |-> <<<<k, row[k]>>, k>>]
  <2>1. IsFiniteSet(At(y)) /\ Cardinality(At(y)) \in Nat
      BY <1>3, FS_Subset, FS_CardinalityType
  <2>2. IsFiniteSet(cast)
      BY <1>2, BallotsAreFinite
  <2>3. ASSUME NEW k \in At(y)
        PROVE  /\ g[k] \in Ballots(query, Returned) /\ g[k] \in cast /\ g[k][2] = k
               /\ Ballot(query, g[k][1][2], g[k][2]) = <<1, y>>
    <3> DEFINE m == <<k, row[k]>>
               b == <<m, k>>
    <3>1. k \in DOMAIN query /\ row[k] \in found /\ Fits(k, row[k])
          /\ Quantize(row[k].offset - query[k].offset) = y
        BY <1>6
    <3>2. m \in Returned
        BY <3>1 DEF Returned, Lookup
    <3>3. b[1] = m /\ b[2] = k /\ m[1] = k /\ m[2] = row[k]
        OBVIOUS
    <3>4. b \in Ballots(query, Returned)
        BY <3>1, <3>2 DEF Ballots
    <3>5. Ballot(query, row[k], k) = <<1, y>>
        BY <3>1 DEF Ballot
    <3>6. g[k] = b
        OBVIOUS
    <3> HIDE DEF b, m, g
    <3>7. Ballot(query, b[1][2], b[2]) = <<1, y>>
        BY <3>3, <3>5
    <3>8. b \in cast
        BY <3>4, <3>7 DEF Cast
    <3>9. QED
        BY <3>3, <3>4, <3>6, <3>7, <3>8
  <2>4. g \in [At(y) -> cast]
      BY <2>3
  <2>5. \A k, l \in At(y) : g[k] = g[l] => k = l
      BY <2>3
  <2>6. Cardinality(At(y)) <= Cardinality(cast)
    <3> HIDE DEF g, cast, At
    <3>1. QED
        BY <2>2, <2>4, <2>5, ToldApart
  <2>7. CASE At(y) = {}
      BY <1>9, <2>1, <2>7, FS_EmptySet
  <2>8. CASE At(y) # {}
    <3>1. PICK k \in At(y) : TRUE
        BY <2>8
    <3>2. <<1, y>> \in DOMAIN votes
      <4>1. /\ g[k] \in Ballots(query, Returned)
            /\ Ballot(query, g[k][1][2], g[k][2]) = <<1, y>>
          BY <2>3
      <4> HIDE DEF g
      <4>2. QED
          BY <1>2, <4>1 DEF Counted
    <3>3. votes[<<1, y>>] = Cardinality(cast)
        BY <1>2, <3>2 DEF Counted
    <3>4. Cardinality(cast) <= D /\ Cardinality(cast) \in Nat
        BY <1>9, <2>2, <3>2, <3>3, FS_CardinalityType
    <3> HIDE DEF cast, At, g
    <3>5. QED
        BY <1>9, <2>1, <2>6, <3>4
  <2>9. QED
      BY <2>7, <2>8
<1>11. At(z) \cup At(z + 1) = DOMAIN query
    BY <1>7
<1> HIDE DEF At
<1>12. /\ Cardinality(At(z) \cup At(z + 1)) =
             Cardinality(At(z)) + Cardinality(At(z + 1)) - Cardinality(At(z) \cap At(z + 1))
       /\ Cardinality(At(z) \cap At(z + 1)) \in Nat
    BY <1>10, FS_Union, FS_Intersection, FS_CardinalityType
<1> DEFINE low == Cardinality(At(z))
           high == Cardinality(At(z + 1))
           both == Cardinality(At(z) \cap At(z + 1))
<1>13. /\ low \in Nat /\ low <= D /\ high \in Nat /\ high <= D /\ both \in Nat
       /\ Len(query) = low + high - both
    BY <1>3, <1>10, <1>11, <1>12
<1> HIDE DEF low, high, both
<1>14. QED
    BY <1>3, <1>9, <1>13 DEF D

-----------------------------------------------------------------------------
(***************************************************************************)
(* The theorems, for the pipeline from a recording to the verdict.         *)
(***************************************************************************)

\* The invariant of the processor, and what the engine is fed of it.
THEOREM PipelineInvariance == PipelineSpec => [](PipeInv /\ Fed)
<1>1. PipelineInit => PipeInv /\ Fed
    BY PipeInit, FedInit
<1>2. PipeInv /\ Fed /\ [PipelineNext]_pipeline => (PipeInv /\ Fed)'
    BY PipeStep, FedStep
<1>3. QED
    BY <1>1, <1>2, PTL DEF PipelineSpec

\* The loops over the peaks and what they produce are well formed
\* (fingerprint.py 20-64, hashing.py).
THEOREM ProcessorTypeCorrect == PipelineSpec => []ProcessorTypeOK
<1>1. PipeInv /\ Fed => ProcessorTypeOK
    BY ProcessorTypeFromInv DEF PipeInv
<1>2. QED
    BY <1>1, PipelineInvariance, PTL

\* The fingerprints are the documented landmarks of their peaks
\* (fingerprint.py 20-50, hashing.py 44-90).
THEOREM LandmarksDocumented == PipelineSpec => []LandmarksAreAsDocumented
<1>1. PipeInv /\ Fed => LandmarksAreAsDocumented
    BY DocumentedFromInv DEF PipeInv, LandmarksAreAsDocumented
<1>2. QED
    BY <1>1, PipelineInvariance, PTL

\* A clean clip of a song nothing was thinned out of points to its place, give
\* or take a millisecond (fingerprint.py 27-48, constellation.py 20-21).
THEOREM ClipPoints == PipelineSpec => []ClipPointsToItsPlace
<1>1. PipeInv /\ Fed => ClipPointsToItsPlace
    BY ClipPointsFromInv DEF PipeInv, ClipPointsToItsPlace
<1>2. QED
    BY <1>1, PipelineInvariance, PTL

\* It keeps half of its votes, where a bucket takes in three milliseconds or
\* more (constellation.py 20-21, voting.rs 30-46, 80-127).
THEOREM ClipKeepsHalf == ASSUME BucketMs >= 3 PROVE PipelineSpec => []ClipKeepsHalfItsVotes
<1>1. PipeInv /\ Fed => ClipKeepsHalfItsVotes
    BY HalfFromInv DEF ClipKeepsHalfItsVotes
<1>2. QED
    BY <1>1, PipelineInvariance, PTL

\* What is proved of the engine by itself holds of the engine at the end of the
\* pipeline: rows, queries and tables are well formed, the votes do not depend
\* on the order of the rows, and an excerpt has its votes.
THEOREM EngineTypeCorrect == PipelineSpec => []TypeOK
<1>1. PipeInv /\ Fed => TypeOK
    BY TypeOKFromInv DEF PipeInv
<1>2. QED
    BY <1>1, PipelineInvariance, PTL

THEOREM EngineOrderFree == PipelineSpec => []VotesAreOrderFree
<1>1. PipeInv /\ Fed => VotesAreOrderFree
    BY OrderFreeFromInv DEF PipeInv
<1>2. QED
    BY <1>1, PipelineInvariance, PTL

THEOREM EngineExcerptVoted == PipelineSpec => []ExcerptHasItsVotes
<1>1. PipeInv /\ Fed => ExcerptHasItsVotes
    BY ExcerptFromInv DEF PipeInv
<1>2. QED
    BY <1>1, PipelineInvariance, PTL

\* An answer is backed by rows, and no copy is returned, under the hypotheses
\* AnswerBacked and CopyRefused have.
THEOREM EngineAnswerBacked == ASSUME BucketMs >= 1 PROVE PipelineSpec => []AnswerIsAligned
<1>1. PipeInv /\ Fed => AnswerIsAligned
    BY AlignedFromInv DEF PipeInv
<1>2. QED
    BY <1>1, PipelineInvariance, PTL

THEOREM EngineCopyRefused ==
    ASSUME MinMarginRatio[1] > MinMarginRatio[2] PROVE PipelineSpec => []CopyIsRefused
<1>1. PipeInv /\ Fed => CopyIsRefused
    BY CopyRefusedFromInv DEF PipeInv
<1>2. QED
    BY <1>1, PipelineInvariance, PTL

\* A song deleted between the two reads is not returned by the pipeline either.
THEOREM EngineDeletedNotReturned == PipelineSpec => DeletedSongIsNotReturned
<1>1. PipeInv /\ [PipelineNext]_pipeline =>
          [outcome'.reason = "Match" /\ outcome' # outcome => outcome'.song \in songs]_vars
  <2> SUFFICES ASSUME PipeInv, [PipelineNext]_pipeline, outcome'.reason = "Match", outcome' # outcome
               PROVE  outcome'.song \in songs
      OBVIOUS
  <2>1. Next
    <3>1. ~Fingerprint /\ ~Ingest /\ ~Ask /\ ~UNCHANGED pipeline
        BY DEF Fingerprint, Ingest, Ask, pipeline, vars, request
    <3>2. QED
        BY <3>1 DEF PipelineNext, Recognize
  <2>2. QED
      BY <2>1, MatchStep DEF PipeInv
<1>2. QED
    BY <1>1, PipelineInvariance, PTL DEF PipelineSpec, DeletedSongIsNotReturned
=============================================================================
