----------------------------- MODULE MCMp4Muxer -----------------------------
(***************************************************************************)
(* Mp4Muxer for TLC, with the properties of the tables that finishMovie    *)
(* derives from its tracks.  Offsets and sizes are the code's own; the     *)
(* clocks are scaled by 1000 to stay within TLC's 32-bit integers.         *)
(***************************************************************************)
EXTENDS Mp4Muxer, Mp4Tables

(* Read back from stsc, stco and stsz, every sample is where the builder    *)
(* recorded it, and the chunks hold as many samples as there are: stsc and  *)
(* stco find the chunks in two separate loops, which must agree, and a      *)
(* chunk of the file may be split in either when a track shares it.         *)
SamplesLocated(track) ==
  LET stsc == CreateStsc(track)
      stco == CreateStco(track)
      stsz == CreateStsz(track)
      n == Len(track.samples)
  IN  /\ Total(ChunkCounts(stsc, Len(stco))) = n
      /\ \A k \in 1..n : SampleOffset(stsc, stco, stsz, k) = track.samples[k].offset

TablesLocateSamples == \A t \in 1..Len(tracks) : SamplesLocated(tracks[t])

(* The duration of a track is the sum of its decoding times, one of which   *)
(* belongs to each sample (the first is there before any sample is), and    *)
(* the run lengths of stts give those times back.                           *)
TimesAddUp(track) ==
  LET samples == Len(track.samples)
      durations == track.sampleDurations
      stts == CreateStts(track)
  IN  /\ Len(durations) = IF samples = 0 THEN 1 ELSE samples
      /\ track.duration = Total(durations)
      /\ Total(RunCounts(stts)) = Len(durations)
      /\ \A k \in 1..Len(durations) : SampleDuration(stts, k) = durations[k]

(* The movie lasts as long as its longest track, to within one tick of the  *)
(* movie's clock: the common time scale divides that of each track.         *)
MovieCovers(track) ==
  LET scale == GetTimescale(tracks)
  IN  /\ track.timeScale % scale = 0
      /\ MovieTicks(track, tracks) <= MovieDuration(tracks)
      /\ track.duration * scale < (MovieDuration(tracks) + 1) * track.timeScale

(* The times that players read agree: those of a track's samples add up to  *)
(* its duration, also after run-length encoding, and fit into the movie's.  *)
DurationsAgree ==
  \A t \in 1..Len(tracks) : TimesAddUp(tracks[t]) /\ MovieCovers(tracks[t])
=============================================================================
