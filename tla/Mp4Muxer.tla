------------------------------ MODULE Mp4Muxer ------------------------------
(***************************************************************************)
(* The MP4 writer of the video converter: video/MP4Builder.java with its   *)
(* Mp4Movie and Track objects.  Samples are appended to the cache file in  *)
(* chunks; each chunk is the payload of one mdat box, whose header is      *)
(* first written empty and rewritten in place when the chunk is full       *)
(* (flushCurrentMdat).  finishMovie closes the last chunk and appends the  *)
(* moov box, which locates every sample by its offset in the file.         *)
(*                                                                         *)
(* The file is a set of extents: what is at which offset.  A write         *)
(* replaces every extent it overlaps.  Sizes and offsets are those of the  *)
(* code; bytes are left out.  Every write may throw (WriteFails,           *)
(* FinishFails): convertVideo catches the exception and still calls        *)
(* finishMovie.                                                            *)
(***************************************************************************)
EXTENDS Mp4Track, FiniteSets

CONSTANTS
  FtypSize,       \* bytes of the ftyp box
  HeaderSize,     \* 16, the mdat header with its 64-bit size field
  PrefixSize,     \* 4, the length prefix that replaces a video start code
  ChunkLimit,     \* 32 * 1024
  UnsetContent,   \* 1024 * 1024 * 1024, contentSize of a fresh mdat object
  MoovSize,       \* bytes of the moov box
  VideoSizes,     \* sizes of the samples the callers write
  AudioSizes,
  PtsSteps,       \* microseconds between two samples of a track
  MaxSamples      \* bound on the calls of writeSampleData

ASSUME SizeAssumption ==
  /\ {FtypSize, HeaderSize, PrefixSize, ChunkLimit, UnsetContent, MoovSize}
        \subseteq Nat \ {0}
  /\ VideoSizes \subseteq Nat \ {0}
  /\ AudioSizes \subseteq Nat \ {0}
  /\ PtsSteps \subseteq Nat

(* An H.264 sample starts with a start code as long as the prefix that     *)
(* replaces it; a shorter one would take more room in the file than        *)
(* writeSampleData accounts for.                                           *)
ASSUME StartCodeAssumption == \A size \in VideoSizes : size >= PrefixSize

VARIABLES
  phase,   \* life of the MP4Builder: "new", "open", "closed" or "abandoned"
  error,   \* an exception reached convertVideo, which set its error flag
  tracks,  \* currentMp4Movie.getTracks()
  out      \* the file and the builder's bookkeeping, see OutType

vars == <<phase, error, tracks, out>>

-----------------------------------------------------------------------------
(* Extents of the file.  "size" is what a box header claims; "track" and   *)
(* "index" name the sample whose bytes these are.                          *)

Extent ==
  [ at : Nat, len : Nat, box : {"ftyp", "mdat", "sample", "moov"},
    size : Nat, track : Nat, index : Nat ]

FtypBox == [at |-> 0, len |-> FtypSize, box |-> "ftyp", size |-> FtypSize,
            track |-> 0, index |-> 0]

(* InterleaveChunkMdat.getBox: sixteen bytes that claim header and content. *)
MdatBox(at, content) ==
  [at |-> at, len |-> HeaderSize, box |-> "mdat", size |-> HeaderSize + content,
   track |-> 0, index |-> 0]

MoovBox(at) == [at |-> at, len |-> MoovSize, box |-> "moov", size |-> MoovSize,
                track |-> 0, index |-> 0]

SampleBytes(at, len, track, index) ==
  [at |-> at, len |-> len, box |-> "sample", size |-> 0,
   track |-> track, index |-> index]

Overlap(e, x) == /\ e.at < x.at + x.len
                 /\ x.at < e.at + e.len

(* FileChannel.write of x over the extents of disk. *)
Put(disk, x) == {e \in disk : ~Overlap(e, x)} \cup {x}

OutType ==
  [ disk         : SUBSET Extent,  \* the cache file
    position     : Nat,            \* fc.position()
    dataOffset   : Nat,            \* where the next sample is believed to go
    sinceLastMdat : Nat,           \* writedSinceLastMdat
    writeNewMdat : BOOLEAN,
    mdat         : [offset : Nat, contentSize : Nat] ]

-----------------------------------------------------------------------------
(* The stages of writeSampleData, each a function on the output. *)

(* Faulty: the header of the new chunk is not counted in dataOffset. *)
OpenMdatUncounted(o) ==
  IF ~o.writeNewMdat THEN o
  ELSE [o EXCEPT
          !.disk = Put(@, MdatBox(o.position, 0)),
          !.position = @ + HeaderSize,
          !.mdat = [offset |-> o.dataOffset, contentSize |-> 0],
          !.writeNewMdat = FALSE]

(* A new chunk begins with an empty header; nothing to do inside a chunk. *)
OpenMdat(o) ==
  IF ~o.writeNewMdat THEN o
  ELSE [o EXCEPT
          !.disk = Put(@, MdatBox(o.position, 0)),
          !.position = @ + HeaderSize,
          !.mdat = [offset |-> o.dataOffset, contentSize |-> 0],
          !.dataOffset = @ + HeaderSize,
          !.sinceLastMdat = @ + HeaderSize,
          !.writeNewMdat = FALSE]

CountSample(o, size) ==
  [o EXCEPT !.mdat.contentSize = @ + size, !.sinceLastMdat = @ + size]

(* Faulty: the channel does not return to the end of the file. *)
FlushWithoutReturn(o) ==
  [o EXCEPT
     !.disk = Put(@, MdatBox(o.mdat.offset, o.mdat.contentSize)),
     !.position = o.mdat.offset + HeaderSize,
     !.mdat = [offset |-> 0, contentSize |-> 0]]

(* The header of the chunk is rewritten with the size of its content; the  *)
(* channel then returns to the end of the file.                            *)
FlushCurrentMdat(o) ==
  [o EXCEPT
     !.disk = Put(@, MdatBox(o.mdat.offset, o.mdat.contentSize)),
     !.mdat = [offset |-> 0, contentSize |-> 0]]

(* Faulty: a chunk that is never full; one that is always; one that stays  *)
(* in use after its flush.                                                  *)
FlushNever(o) == o

FlushAlways(o) ==
  [FlushCurrentMdat(o) EXCEPT
     !.writeNewMdat = TRUE, !.sinceLastMdat = @ - ChunkLimit]

FlushAndContinue(o) ==
  IF o.sinceLastMdat < ChunkLimit THEN o
  ELSE [FlushCurrentMdat(o) EXCEPT !.sinceLastMdat = @ - ChunkLimit]

FlushIfFull(o) ==
  IF o.sinceLastMdat < ChunkLimit THEN o
  ELSE [FlushCurrentMdat(o) EXCEPT
          !.writeNewMdat = TRUE,
          !.sinceLastMdat = @ - ChunkLimit]

(* Bytes that reach the file for a sample of this size: a video sample     *)
(* loses its start code and gets a length prefix in its place.             *)
BytesWritten(size, isAudio) ==
  IF isAudio \/ size >= PrefixSize THEN size ELSE PrefixSize

AppendSample(o, size, isAudio, track, index) ==
  [o EXCEPT
     !.disk = Put(@, SampleBytes(o.position, BytesWritten(size, isAudio), track, index)),
     !.position = @ + BytesWritten(size, isAudio),
     !.dataOffset = @ + size]

(* The output when the sample has been announced but not yet written. *)
Prepared(o, size) == FlushIfFull(CountSample(OpenMdat(o), size))

-----------------------------------------------------------------------------
(* Who may call what, as convertVideo and readAndWriteTrack do it: one      *)
(* video track, then at most one audio track; samples go to the track       *)
(* added last, or, before the encoder has announced its format, to the      *)
(* index -5 (NoTrack), which Mp4Movie.addSample ignores.                    *)

NoTrack == 0

SampleCount == Cardinality({e \in out.disk : e.box = "sample"})

Writing == phase = "open" /\ ~error

CanWriteTo(t, size) ==
  /\ Writing
  /\ SampleCount < MaxSamples
  /\ t = Len(tracks)
  /\ size \in IF t # NoTrack /\ tracks[t].audio THEN AudioSizes ELSE VideoSizes

IsAudio(t) == t # NoTrack /\ tracks[t].audio

(* Mp4Movie.addSample: an index that names no track is ignored. *)
MovieWithSample(t, offset, size, step) ==
  IF t = NoTrack THEN tracks
  ELSE [tracks EXCEPT ![t] =
          AddSample(@, offset, size, @.lastPresentationTime + step)]

(* Index of the sample being written in its track, 0 if it has none. *)
NextIndex(t) == IF t = NoTrack THEN 0 ELSE Len(tracks[t].samples) + 1

-----------------------------------------------------------------------------
Init ==
  /\ phase = "new"
  /\ error = FALSE
  /\ tracks = << >>
  /\ out = [ disk |-> {}, position |-> 0, dataOffset |-> 0, sinceLastMdat |-> 0,
             writeNewMdat |-> TRUE,
             mdat |-> [offset |-> 0, contentSize |-> UnsetContent] ]

CreateMovie ==
  /\ phase = "new"
  /\ phase' = "open"
  /\ out' = [out EXCEPT !.disk = Put(@, FtypBox),
                        !.position = @ + FtypSize,
                        !.dataOffset = @ + FtypSize,
                        !.sinceLastMdat = @ + FtypSize]
  /\ UNCHANGED <<error, tracks>>

AddTrack(isAudio) ==
  /\ Writing
  /\ \A t \in 1..Len(tracks) : ~tracks[t].audio /\ isAudio
  /\ tracks' = Append(tracks, NewTrack(isAudio))
  /\ UNCHANGED <<phase, error, out>>

WriteSampleData(t, size, step) ==
  /\ CanWriteTo(t, size)
  /\ LET o == Prepared(out, size)
     IN  /\ tracks' = MovieWithSample(t, o.dataOffset, size, step)
         /\ out' = AppendSample(o, size, IsAudio(t), t, NextIndex(t))
  /\ UNCHANGED <<phase, error>>

(***************************************************************************)
(* writeSampleData throws: at the empty header of a new chunk, at the       *)
(* rewritten header of a full one (the channel stays where that header is), *)
(* or at the bytes of the sample, of which the length prefix may be         *)
(* written.  convertVideo sets error and writes no more samples.            *)
(***************************************************************************)
OpenMdatThrows ==
  /\ out.writeNewMdat
  /\ out' = [out EXCEPT !.mdat.contentSize = 0]
  /\ UNCHANGED tracks

FlushThrows(size) ==
  LET o == CountSample(OpenMdat(out), size)
  IN  /\ o.sinceLastMdat >= ChunkLimit
      /\ out' = [o EXCEPT !.position = o.mdat.offset]
      /\ UNCHANGED tracks

AppendThrows(t, size, step) ==
  LET o == Prepared(out, size)
  IN  /\ tracks' = MovieWithSample(t, o.dataOffset, size, step)
      /\ \E written \in {0} \cup (IF IsAudio(t) THEN {} ELSE {PrefixSize}) :
            out' = [o EXCEPT !.position = @ + written]

WriteFails(t, size, step) ==
  /\ CanWriteTo(t, size)
  /\ \/ OpenMdatThrows
     \/ FlushThrows(size)
     \/ AppendThrows(t, size, step)
  /\ error' = TRUE
  /\ UNCHANGED phase

(* Anything else in the conversion that throws: the codec, the extractor. *)
ConversionFails ==
  /\ Writing
  /\ error' = TRUE
  /\ UNCHANGED <<phase, tracks, out>>

(* Faulty: the last chunk keeps its empty header. *)
LeftOpen(o) == o

(* The output with its last chunk closed.  A builder that wrote no sample  *)
(* still has its first mdat object, whose content is not 0.                *)
Closed(o) == IF o.mdat.contentSize = 0 THEN o ELSE FlushCurrentMdat(o)

FinishMovie ==
  /\ phase = "open"
  /\ phase' = "closed"
  /\ LET o == Closed(out)
     IN  out' = [o EXCEPT !.disk = Put(@, MoovBox(o.position)),
                          !.position = @ + MoovSize]
  /\ UNCHANGED <<error, tracks>>

(* finishMovie throws: at the last header or at the moov box. *)
FinishFails ==
  /\ phase = "open"
  /\ phase' = "abandoned"
  /\ \/ /\ out.mdat.contentSize # 0
        /\ out' = [out EXCEPT !.position = out.mdat.offset]
     \/ out' = Closed(out)
  /\ UNCHANGED <<error, tracks>>

Next ==
  \/ CreateMovie
  \/ \E isAudio \in BOOLEAN : AddTrack(isAudio)
  \/ \E t \in 0..Len(tracks), size \in VideoSizes \cup AudioSizes, step \in PtsSteps :
        \/ WriteSampleData(t, size, step)
        \/ WriteFails(t, size, step)
  \/ ConversionFails
  \/ FinishMovie
  \/ FinishFails

Spec == Init /\ [][Next]_vars

-----------------------------------------------------------------------------
(* Type invariant. *)
TypeOK ==
  /\ phase \in {"new", "open", "closed", "abandoned"}
  /\ error \in BOOLEAN
  /\ tracks \in Seq(TrackType)
  /\ out \in OutType

HasSamples == \E e \in out.disk : e.box = "sample"

Boxes == {e \in out.disk : e.box # "sample"}

(* e lies in the payload of the mdat box b. *)
InPayload(e, b) == /\ b.box = "mdat"
                   /\ b.at + HeaderSize <= e.at
                   /\ e.at + e.len <= b.at + b.size

(* Sample k of track t as the moov box describes it. *)
Located(t, k) ==
  SampleBytes(tracks[t].samples[k].offset, tracks[t].samples[k].size, t, k)

(* Every sample the tracks list is where they say it is, whole, in the     *)
(* payload of a chunk, once finishMovie has closed the file: the headers   *)
(* that writeSampleData leaves stale until a flush are all rewritten, and  *)
(* none of the seeks back overwrites a sample.                             *)
SamplesReadable ==
  (phase = "closed" /\ ~error) =>
    \A t \in 1..Len(tracks) : \A k \in 1..Len(tracks[t].samples) :
      /\ Located(t, k) \in out.disk
      /\ \E b \in out.disk : InPayload(Located(t, k), b)

(* The boxes of a finished file that got a sample form one chain: each ends *)
(* where the next begins, from ftyp at 0 to moov at the end of the file.    *)
(* (Without a sample the header of the first mdat lands on the ftyp box.)   *)
BoxesTile ==
  (phase = "closed" /\ ~error /\ HasSamples) =>
    /\ FtypBox \in out.disk
    /\ MoovBox(out.position - MoovSize) \in out.disk
    /\ \A b \in Boxes : \/ b.at + b.size = out.position
                        \/ \E c \in Boxes : c.at = b.at + b.size

(* The offset the builder computes for the next sample is where the channel *)
(* will write it: the two are counted separately, through every seek.       *)
OffsetIsPosition == Writing => out.dataOffset = out.position

(* A chunk is closed by the sample that brings it to ChunkLimit: whatever   *)
(* precedes another sample of the same chunk is shorter.  The carry of      *)
(* writedSinceLastMdat from one chunk to the next only shortens it.         *)
ChunksBounded ==
  \A b \in out.disk, e \in out.disk, f \in out.disk :
    (/\ e.box = "sample" /\ f.box = "sample"
     /\ InPayload(e, b) /\ InPayload(f, b) /\ e.at < f.at)
      => e.at + e.len - b.at < ChunkLimit

(* A sample of a chunk that has been flushed is never overwritten, whatever *)
(* fails later: an exception between the two seeks of flushCurrentMdat      *)
(* leaves the channel on the header of the open chunk, and finishMovie then *)
(* writes the moov box over that chunk, but over no earlier one.            *)
FlushedSamplesKept ==
  [][ \A e \in out.disk :
        (e.box = "sample" /\ (out.writeNewMdat \/ e.at < out.mdat.offset))
          => e \in out'.disk ]_vars

(* When a player shows the samples of a track: the sum of the durations     *)
(* before each, in ticks; and how far that is from the time stamp.          *)
DecodingTimes(track) ==
  LET decoded[k \in 1..Len(track.samples)] ==
        IF k = 1 THEN 0 ELSE decoded[k - 1] + track.sampleDurations[k - 1]
  IN  decoded

Drift(track, k) ==
  DecodingTimes(track)[k] * Second
    - (track.samples[k].pts - track.samples[1].pts) * track.timeScale

(* Rounding each step to the nearest tick, a sample drifts from its time    *)
(* stamp by half a tick per sample at most.                                 *)
DriftBounded ==
  \A t \in 1..Len(tracks) : \A k \in 1..Len(tracks[t].samples) :
    /\ 2 * Drift(tracks[t], k) <= Second * (k - 1)
    /\ -2 * Drift(tracks[t], k) <= Second * (k - 1)
=============================================================================
