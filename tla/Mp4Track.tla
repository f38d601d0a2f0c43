------------------------------ MODULE Mp4Track ------------------------------
(***************************************************************************)
(* One track of the MP4 file being written: video/Track.java and the       *)
(* Sample records it collects.  A module of data: the muxer (Mp4Muxer)     *)
(* keeps a sequence of these tracks and changes them with AddSample.       *)
(*                                                                         *)
(* Left out: the sample description boxes (SPS/PPS, AudioSpecificConfig),  *)
(* the sync sample list and the creation date, on which no property here   *)
(* depends.                                                                *)
(***************************************************************************)
EXTENDS Integers, Sequences

CONSTANTS
  Second,             \* microseconds in a second (1000000 in the code)
  VideoTimeScale,     \* 90000
  AudioTimeScale,     \* the sample rate of the input's audio track
  VideoLastDuration,  \* 3015, the duration given to the last video sample
  AudioLastDuration   \* 1024, the same for audio

ASSUME ClockAssumption ==
  /\ {Second, VideoTimeScale, AudioTimeScale} \subseteq Nat \ {0}
  /\ {VideoLastDuration, AudioLastDuration} \subseteq Nat

(* Integer division of Java: it truncates towards zero. *)
JavaDiv(a, b) == IF a >= 0 THEN a \div b ELSE -((-a) \div b)

(* Faulty variants, here and below, are for the mutation runs only. *)
TicksTruncated(us, scale) == JavaDiv(us * scale, Second)

(* Microseconds to ticks of a track's clock, rounded to the nearest tick. *)
Ticks(us, scale) == JavaDiv(us * scale + Second \div 2, Second)

(* The constructor assigns its parameter isAudio and not the field of that  *)
(* name, so isAudio() answers false for every track; "audio" is the         *)
(* parameter, which chooses everything else the constructor sets.           *)
NewTrack(isAudio) ==
  LET last == IF isAudio THEN AudioLastDuration ELSE VideoLastDuration
  IN  [ audio                |-> isAudio,
        timeScale            |-> IF isAudio THEN AudioTimeScale ELSE VideoTimeScale,
        samples              |-> << >>,
        sampleDurations      |-> <<last>>,
        duration             |-> last,
        lastPresentationTime |-> 0,
        first                |-> TRUE ]

(* list.add(list.size() - 1, x) *)
InsertBeforeLast(list, x) ==
  LET n == Len(list) IN SubSeq(list, 1, n - 1) \o <<x, list[n]>>

(* Faulty: the first time stamp counts as a duration. *)
AddSampleFirstCounted(track, offset, size, pts) ==
  LET delta == Ticks(pts - track.lastPresentationTime, track.timeScale)
  IN  [ track EXCEPT
          !.samples = Append(@, [offset |-> offset, size |-> size, pts |-> pts]),
          !.lastPresentationTime = pts,
          !.sampleDurations = InsertBeforeLast(@, delta),
          !.duration = @ + delta,
          !.first = FALSE ]

(***************************************************************************)
(* Track.addSample.  The time stamp of a sample is kept in the model only, *)
(* for the properties about the decoding times; the code forgets it.       *)
(***************************************************************************)
AddSample(track, offset, size, pts) ==
  LET delta == Ticks(pts - track.lastPresentationTime, track.timeScale)
  IN  [ track EXCEPT
          !.samples = Append(@, [offset |-> offset, size |-> size, pts |-> pts]),
          !.lastPresentationTime = pts,
          !.sampleDurations = IF track.first THEN @ ELSE InsertBeforeLast(@, delta),
          !.duration = IF track.first THEN @ ELSE @ + delta,
          !.first = FALSE ]

-----------------------------------------------------------------------------
(* The types of a track and of the samples in it. *)
SampleType == [offset : Nat, size : Nat, pts : Int]

TrackType ==
  [ audio                : BOOLEAN,
    timeScale            : Nat,
    samples              : Seq(SampleType),
    sampleDurations      : Seq(Int) \ {<< >>},
    duration             : Int,
    lastPresentationTime : Int,
    first                : BOOLEAN ]
=============================================================================
