----------------------------- MODULE Mp4Tables ------------------------------
(***************************************************************************)
(* The sample tables of the moov box (MP4Builder.createStbl): how many     *)
(* samples are in each chunk (stsc), where the chunks are (stco), how      *)
(* large the samples are (stsz) and how long each lasts (stts); and the    *)
(* time scale and durations of the movie header.                           *)
(*                                                                         *)
(* A player knows nothing but these tables.  SampleOffset and              *)
(* SampleDuration read them as ISO/IEC 14496-12 says a player does: the    *)
(* tables are right when reading gives back the tracks that were written.  *)
(*                                                                         *)
(* A loop over a list is a recursive function: what there is after the     *)
(* first k elements.                                                       *)
(***************************************************************************)
EXTENDS Integers, Sequences

(* createStts: equal consecutive durations share an entry. *)
AddDuration(entries, delta) ==
  IF entries # << >> /\ entries[Len(entries)].delta = delta
  THEN [entries EXCEPT ![Len(entries)].count = @ + 1]
  ELSE Append(entries, [count |-> 1, delta |-> delta])

SttsAfter(durations) ==
  LET after[k \in 0..Len(durations)] ==
        IF k = 0 THEN << >> ELSE AddDuration(after[k - 1], durations[k])
  IN  after

CreateStts(track) == SttsAfter(track.sampleDurations)[Len(track.sampleDurations)]

CreateStsz(track) == [k \in 1..Len(track.samples) |-> track.samples[k].size]

EndOf(sample) == sample.offset + sample.size

(* createStsc: a chunk ends where the next sample does not follow at once. *)
(* An entry is written when the sample count differs from the chunk before. *)
EndsChunk(samples, k) ==
  \/ k = Len(samples)
  \/ EndOf(samples[k]) # samples[k + 1].offset

CountSampleOfChunk(acc, ends) ==
  LET count == acc.count + 1
  IN  IF ~ends THEN [acc EXCEPT !.count = count]
      ELSE [ entries  |-> IF acc.previous = count THEN acc.entries
                          ELSE Append(acc.entries, [first |-> acc.chunk, count |-> count]),
             previous |-> count,
             count    |-> 0,
             chunk    |-> acc.chunk + 1 ]

StscAfter(samples) ==
  LET after[k \in 0..Len(samples)] ==
        IF k = 0 THEN [entries |-> << >>, previous |-> -1, count |-> 0, chunk |-> 1]
        ELSE CountSampleOfChunk(after[k - 1], EndsChunk(samples, k))
  IN  after

CreateStsc(track) == StscAfter(track.samples)[Len(track.samples)].entries

(* Faulty: every sample is listed as a chunk. *)
OffsetOfEachSample(track) == [k \in 1..Len(track.samples) |-> track.samples[k].offset]

(* createStco: the offset of every sample that does not follow the last. *)
ListChunk(acc, sample) ==
  [ offsets |-> IF acc.last = sample.offset THEN acc.offsets
                ELSE Append(acc.offsets, sample.offset),
    last    |-> EndOf(sample) ]

StcoAfter(samples) ==
  LET after[k \in 0..Len(samples)] ==
        IF k = 0 THEN [offsets |-> << >>, last |-> -1]
        ELSE ListChunk(after[k - 1], samples[k])
  IN  after

CreateStco(track) == StcoAfter(track.samples)[Len(track.samples)].offsets

(* For each second argument up to b the result, by the first.              *)
GcdUpTo(b) ==
  LET result[n \in 0..b] == [m \in Nat |-> IF n = 0 THEN m ELSE result[m % n][n]]
  IN  result

gcd(a, b) == GcdUpTo(b)[b][a]

TimescaleAfter(tracks) ==
  LET after[k \in 0..Len(tracks)] ==
        IF k = 0 THEN tracks[1].timeScale ELSE gcd(tracks[k].timeScale, after[k - 1])
  IN  after

GetTimescale(tracks) == IF tracks = << >> THEN 0 ELSE TimescaleAfter(tracks)[Len(tracks)]

(* The duration of a track on the clock of the movie (tkhd). *)
MovieTicks(track, tracks) ==
  (track.duration * GetTimescale(tracks)) \div track.timeScale

(* createMovieBox: the longest track. *)
Longer(longest, ticks) == IF ticks > longest THEN ticks ELSE longest

LongestAfter(tracks) ==
  LET after[k \in 0..Len(tracks)] ==
        IF k = 0 THEN 0 ELSE Longer(after[k - 1], MovieTicks(tracks[k], tracks))
  IN  after

MovieDuration(tracks) == LongestAfter(tracks)[Len(tracks)]

-----------------------------------------------------------------------------
(* What a player does with the tables (ISO/IEC 14496-12, 8.6 and 8.7). *)

(* The sums of the first numbers of a sequence. *)
Totals(numbers) ==
  LET total[k \in 0..Len(numbers)] == IF k = 0 THEN 0 ELSE total[k - 1] + numbers[k]
  IN  total

Total(numbers) == Totals(numbers)[Len(numbers)]

(* The group of a sample, when the groups have so many samples each. *)
GroupOf(counts, k) ==
  CHOOSE c \in 1..Len(counts) : Totals(counts)[c - 1] < k /\ k <= Totals(counts)[c]

(* Samples in chunk c: the last entry that begins at c or before. *)
SamplesInChunk(stsc, c) ==
  stsc[CHOOSE i \in 1..Len(stsc) :
         /\ stsc[i].first <= c
         /\ \A j \in (i + 1)..Len(stsc) : stsc[j].first > c].count

ChunkCounts(stsc, chunks) == [c \in 1..chunks |-> SamplesInChunk(stsc, c)]

(* The offset of its chunk, and the sizes of the samples before it there. *)
SampleOffset(stsc, stco, stsz, k) ==
  LET counts == ChunkCounts(stsc, Len(stco))
      chunk  == GroupOf(counts, k)
      sizes  == Totals(stsz)
  IN  stco[chunk] + sizes[k - 1] - sizes[Totals(counts)[chunk - 1]]

RunCounts(stts) == [i \in 1..Len(stts) |-> stts[i].count]

SampleDuration(stts, k) == stts[GroupOf(RunCounts(stts), k)].delta
=============================================================================
