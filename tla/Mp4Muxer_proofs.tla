-------------------------- MODULE Mp4Muxer_proofs ---------------------------
(***************************************************************************)
(* Proofs about Mp4Muxer, for every size of the boxes, of the chunks and   *)
(* of the samples.  Type correctness first; then the layout of the file,   *)
(* by an invariant that holds between any two stages of writeSampleData    *)
(* (Layout), where "pending" is what the header of the chunk already       *)
(* claims and the channel has not yet written; then the size of chunks,    *)
(* of which what was written since the last one is a bound (Bounded); the  *)
(* times of a track, which are one rounded step after the other; and the   *)
(* tables of the moov box, whose loops are followed turn by turn.          *)
(***************************************************************************)
EXTENDS MCMp4Muxer, NaturalsInduction, WellFoundedInduction, TLAPS

-----------------------------------------------------------------------------
(* The constants. *)
LEMMA Sizes ==
  /\ FtypSize \in Nat /\ FtypSize > 0
  /\ HeaderSize \in Nat /\ HeaderSize > 0
  /\ PrefixSize \in Nat /\ PrefixSize > 0
  /\ ChunkLimit \in Nat /\ ChunkLimit > 0
  /\ UnsetContent \in Nat /\ UnsetContent > 0
  /\ MoovSize \in Nat /\ MoovSize > 0
<1>1. \A n \in {FtypSize, HeaderSize, PrefixSize, ChunkLimit, UnsetContent, MoovSize} :
        n \in Nat /\ n > 0
  BY SizeAssumption
<1> QED
  BY <1>1

LEMMA SampleSizes ==
  \A size \in VideoSizes \cup AudioSizes : size \in Nat /\ size > 0
  BY SizeAssumption

-----------------------------------------------------------------------------
(* Types. *)

LEMMA NewTrackType == ASSUME NEW isAudio \in BOOLEAN PROVE NewTrack(isAudio) \in TrackType
  BY ClockAssumption DEF NewTrack, TrackType

(* Division that truncates towards zero stays within the integers. *)
LEMMA TicksType ==
  ASSUME NEW us \in Int, NEW scale \in Nat PROVE Ticks(us, scale) \in Int
<1>1. us * scale + Second \div 2 \in Int
  BY ClockAssumption
<1>2. \A a \in Int : JavaDiv(a, Second) \in Int
  BY ClockAssumption DEF JavaDiv
<1> QED
  BY <1>1, <1>2 DEF Ticks

LEMMA InsertBeforeLastType ==
  ASSUME NEW list \in Seq(Int) \ {<< >>}, NEW x \in Int
  PROVE  InsertBeforeLast(list, x) \in Seq(Int) \ {<< >>}
<1> DEFINE n == Len(list)
           front == SubSeq(list, 1, n - 1)
           back == <<x, list[n]>>
<1>1. n \in Nat \ {0}
  OBVIOUS
<1>2. front \in Seq(Int)
  BY <1>1
<1>3. back \in Seq(Int) /\ Len(back) = 2
  BY <1>1
<1>4. front \o back \in Seq(Int) /\ Len(front \o back) = Len(front) + 2
  BY <1>2, <1>3
<1> QED
  BY <1>2, <1>4 DEF InsertBeforeLast

LEMMA AddSampleType ==
  ASSUME NEW track \in TrackType, NEW offset \in Nat, NEW size \in Nat, NEW pts \in Int
  PROVE  AddSample(track, offset, size, pts) \in TrackType
<1> DEFINE delta == Ticks(pts - track.lastPresentationTime, track.timeScale)
           sample == [offset |-> offset, size |-> size, pts |-> pts]
<1>1. delta \in Int
  BY TicksType DEF TrackType
<1>2. Append(track.samples, sample) \in Seq(SampleType)
  BY DEF TrackType, SampleType
<1>3. InsertBeforeLast(track.sampleDurations, delta) \in Seq(Int) \ {<< >>}
  BY <1>1, InsertBeforeLastType DEF TrackType
<1> HIDE DEF delta, sample
<1>4. track.duration + delta \in Int
  BY <1>1 DEF TrackType
<1> QED
  BY <1>1, <1>2, <1>3, <1>4 DEF AddSample, TrackType, delta, sample

LEMMA PutType ==
  ASSUME NEW disk \in SUBSET Extent, NEW x \in Extent PROVE Put(disk, x) \in SUBSET Extent
  BY DEF Put

LEMMA BoxTypes ==
  /\ FtypBox \in Extent
  /\ \A at \in Nat, content \in Nat : MdatBox(at, content) \in Extent
  /\ \A at \in Nat : MoovBox(at) \in Extent
  /\ \A at \in Nat, len \in Nat, t \in Nat, k \in Nat : SampleBytes(at, len, t, k) \in Extent
  BY Sizes DEF FtypBox, MdatBox, MoovBox, SampleBytes, Extent

LEMMA OpenMdatType ==
  ASSUME NEW o \in OutType PROVE OpenMdat(o) \in OutType
<1>1. MdatBox(o.position, 0) \in Extent
  BY BoxTypes DEF OutType
<1>2. Put(o.disk, MdatBox(o.position, 0)) \in SUBSET Extent
  BY <1>1, PutType DEF OutType
<1>3. CASE o.writeNewMdat
  <2>1. /\ o.position + HeaderSize \in Nat
        /\ o.dataOffset + HeaderSize \in Nat
        /\ o.sinceLastMdat + HeaderSize \in Nat
        /\ [offset |-> o.dataOffset, contentSize |-> 0] \in [offset : Nat, contentSize : Nat]
    BY Sizes DEF OutType
  <2> QED
    BY <1>2, <1>3, <2>1 DEF OpenMdat, OutType
<1> QED
  BY <1>3 DEF OpenMdat

LEMMA CountSampleType ==
  ASSUME NEW o \in OutType, NEW size \in Nat PROVE CountSample(o, size) \in OutType
<1>1. /\ [o.mdat EXCEPT !.contentSize = @ + size] \in [offset : Nat, contentSize : Nat]
      /\ o.sinceLastMdat + size \in Nat
  BY DEF OutType
<1> QED
  BY <1>1 DEF CountSample, OutType

LEMMA FlushType ==
  ASSUME NEW o \in OutType PROVE FlushCurrentMdat(o) \in OutType
<1>1. Put(o.disk, MdatBox(o.mdat.offset, o.mdat.contentSize)) \in SUBSET Extent
  BY BoxTypes, PutType DEF OutType
<1> QED
  BY <1>1 DEF FlushCurrentMdat, OutType

LEMMA FlushIfFullType ==
  ASSUME NEW o \in OutType PROVE FlushIfFull(o) \in OutType
<1>1. CASE o.sinceLastMdat < ChunkLimit
  BY <1>1 DEF FlushIfFull
<1>2. CASE ~(o.sinceLastMdat < ChunkLimit)
  <2>1. FlushCurrentMdat(o) \in OutType
    BY FlushType
  <2>2. FlushCurrentMdat(o).sinceLastMdat = o.sinceLastMdat
    BY DEF FlushCurrentMdat, OutType
  <2>3. o.sinceLastMdat - ChunkLimit \in Nat
    BY <1>2, Sizes DEF OutType
  <2> QED
    BY <1>2, <2>1, <2>2, <2>3 DEF FlushIfFull, OutType
<1> QED
  BY <1>1, <1>2

LEMMA PreparedType ==
  ASSUME NEW o \in OutType, NEW size \in Nat PROVE Prepared(o, size) \in OutType
  BY OpenMdatType, CountSampleType, FlushIfFullType DEF Prepared

LEMMA BytesWrittenType ==
  ASSUME NEW size \in Nat, NEW isAudio \in BOOLEAN
  PROVE  BytesWritten(size, isAudio) \in Nat
  BY Sizes DEF BytesWritten

LEMMA AppendSampleType ==
  ASSUME NEW o \in OutType, NEW size \in Nat, NEW isAudio \in BOOLEAN,
         NEW t \in Nat, NEW k \in Nat
  PROVE  AppendSample(o, size, isAudio, t, k) \in OutType
<1> DEFINE len == BytesWritten(size, isAudio)
<1>1. len \in Nat
  BY BytesWrittenType
<1> HIDE DEF len
<1>2. Put(o.disk, SampleBytes(o.position, len, t, k)) \in SUBSET Extent
  BY <1>1, BoxTypes, PutType DEF OutType
<1>3. o.position + len \in Nat /\ o.dataOffset + size \in Nat
  BY <1>1 DEF OutType
<1> QED
  BY <1>2, <1>3 DEF AppendSample, OutType, len

LEMMA MovieWithSampleType ==
  ASSUME tracks \in Seq(TrackType), NEW t \in 0..Len(tracks), NEW offset \in Nat,
         NEW size \in Nat, NEW step \in Nat
  PROVE  /\ MovieWithSample(t, offset, size, step) \in Seq(TrackType)
         /\ Len(MovieWithSample(t, offset, size, step)) = Len(tracks)
<1>1. CASE t = NoTrack
  BY <1>1 DEF MovieWithSample
<1>2. CASE t # NoTrack
  <2>1. t \in 1..Len(tracks) /\ tracks[t] \in TrackType
    BY <1>2 DEF NoTrack
  <2>2. tracks[t].lastPresentationTime + step \in Int
    <3>1. tracks[t].lastPresentationTime \in Int
      BY <2>1 DEF TrackType
    <3>2. step \in Int
      OBVIOUS
    <3> QED
      BY <3>1, <3>2
  <2>3. AddSample(tracks[t], offset, size, tracks[t].lastPresentationTime + step) \in TrackType
    BY <2>1, <2>2, AddSampleType
  <2> QED
    BY <1>2, <2>1, <2>3 DEF MovieWithSample
<1> QED
  BY <1>1, <1>2

LEMMA CallTypes ==
  ASSUME TypeOK, NEW t, NEW size, CanWriteTo(t, size)
  PROVE  /\ t \in 0..Len(tracks)
         /\ size \in Nat \ {0}
         /\ NextIndex(t) \in Nat
         /\ IsAudio(t) \in BOOLEAN
<1>1. t = Len(tracks) /\ t \in Nat
  BY DEF CanWriteTo, TypeOK
<1>2. size \in Nat \ {0}
  BY SampleSizes DEF CanWriteTo
<1>3. t # NoTrack => tracks[t] \in TrackType
  BY <1>1 DEF TypeOK, NoTrack
<1>4. NextIndex(t) \in Nat
  BY <1>3 DEF NextIndex, TrackType
<1>5. IsAudio(t) \in BOOLEAN
  BY <1>3 DEF IsAudio, TrackType
<1> QED
  BY <1>1, <1>2, <1>4, <1>5

(* Every variable keeps its type, whatever is written and whatever fails: in *)
(* particular the count of bytes since the last chunk never goes negative.   *)
LEMMA TypeStep == TypeOK /\ [Next]_vars => TypeOK'
<1> SUFFICES ASSUME TypeOK, [Next]_vars PROVE TypeOK'
  OBVIOUS
<1>1. out \in OutType /\ tracks \in Seq(TrackType)
  BY DEF TypeOK
<1>2. CASE CreateMovie
  <2>1. Put(out.disk, FtypBox) \in SUBSET Extent
    BY <1>1, BoxTypes, PutType DEF OutType
  <2>2. /\ out.position + FtypSize \in Nat
        /\ out.dataOffset + FtypSize \in Nat
        /\ out.sinceLastMdat + FtypSize \in Nat
    BY <1>1, Sizes DEF OutType
  <2>3. out' \in OutType
    BY <1>1, <1>2, <2>1, <2>2 DEF CreateMovie, OutType
  <2> QED
    BY <1>2, <2>3 DEF CreateMovie, TypeOK
<1>3. ASSUME NEW isAudio \in BOOLEAN, AddTrack(isAudio) PROVE TypeOK'
  BY <1>1, <1>3, NewTrackType DEF AddTrack, TypeOK
<1>4. ASSUME NEW t, NEW size, NEW step \in PtsSteps, WriteSampleData(t, size, step)
      PROVE  TypeOK'
  <2> DEFINE o == Prepared(out, size)
  <2>1. t \in 0..Len(tracks) /\ size \in Nat /\ NextIndex(t) \in Nat
        /\ IsAudio(t) \in BOOLEAN /\ step \in Nat
    BY <1>4, CallTypes, SizeAssumption DEF WriteSampleData
  <2>2. o \in OutType
    BY <1>1, <2>1, PreparedType
  <2>3. AppendSample(o, size, IsAudio(t), t, NextIndex(t)) \in OutType
    BY <2>1, <2>2, AppendSampleType
  <2>4. MovieWithSample(t, o.dataOffset, size, step) \in Seq(TrackType)
    BY <1>1, <2>1, <2>2, MovieWithSampleType DEF OutType
  <2> QED
    BY <1>4, <2>3, <2>4 DEF WriteSampleData, TypeOK
<1>5. ASSUME NEW t, NEW size, NEW step \in PtsSteps, WriteFails(t, size, step)
      PROVE  TypeOK'
  <2>1. t \in 0..Len(tracks) /\ size \in Nat /\ step \in Nat
    BY <1>5, CallTypes, SizeAssumption DEF WriteFails
  <2>2. CASE OpenMdatThrows
    BY <1>1, <1>5, <2>2 DEF OpenMdatThrows, WriteFails, TypeOK, OutType
  <2>3. CASE FlushThrows(size)
    <3> DEFINE o == CountSample(OpenMdat(out), size)
    <3>1. o \in OutType
      BY <1>1, <2>1, OpenMdatType, CountSampleType
    <3> HIDE DEF o
    <3>2. out' \in OutType
      BY <2>3, <3>1 DEF FlushThrows, OutType, o
    <3> QED
      BY <1>1, <1>5, <2>3, <3>2 DEF FlushThrows, WriteFails, TypeOK
  <2>4. CASE AppendThrows(t, size, step)
    <3> DEFINE o == Prepared(out, size)
    <3>1. o \in OutType
      BY <1>1, <2>1, PreparedType
    <3>2. MovieWithSample(t, o.dataOffset, size, step) \in Seq(TrackType)
      BY <1>1, <2>1, <3>1, MovieWithSampleType DEF OutType
    <3> HIDE DEF o
    <3>3. out' \in OutType
      BY <2>4, <3>1, Sizes DEF AppendThrows, OutType, o
    <3> QED
      BY <1>5, <2>4, <3>2, <3>3 DEF AppendThrows, WriteFails, TypeOK, o
  <2> QED
    BY <1>5, <2>2, <2>3, <2>4 DEF WriteFails
<1>6. CASE ConversionFails
  BY <1>6 DEF ConversionFails, TypeOK
<1>7. Closed(out) \in OutType
  BY <1>1, FlushType DEF Closed
<1>8. CASE FinishMovie
  <2>1. Put(Closed(out).disk, MoovBox(Closed(out).position)) \in SUBSET Extent
    BY <1>7, BoxTypes, PutType DEF OutType
  <2>2. Closed(out).position + MoovSize \in Nat
    BY <1>7, Sizes DEF OutType
  <2>3. out' \in OutType
    BY <1>7, <1>8, <2>1, <2>2 DEF FinishMovie, OutType
  <2> QED
    BY <1>8, <2>3 DEF FinishMovie, TypeOK
<1>9. CASE FinishFails
  <2>1. out' \in OutType
    BY <1>1, <1>7, <1>9 DEF FinishFails, OutType
  <2> QED
    BY <1>9, <2>1 DEF FinishFails, TypeOK
<1>10. CASE UNCHANGED vars
  BY <1>10 DEF vars, TypeOK
<1> QED
  BY <1>2, <1>3, <1>4, <1>5, <1>6, <1>8, <1>9, <1>10 DEF Next

LEMMA TypeInit == Init => TypeOK
<1> SUFFICES ASSUME Init PROVE TypeOK
  OBVIOUS
<1>1. out.mdat \in [offset : Nat, contentSize : Nat]
  BY Sizes DEF Init
<1>2. out \in OutType
  BY <1>1 DEF Init, OutType
<1>3. tracks \in Seq(TrackType)
  BY DEF Init
<1> QED
  BY <1>2, <1>3 DEF Init, TypeOK

(* The variables of the builder keep their types in every behaviour. *)
THEOREM TypeCorrect == Spec => []TypeOK
  BY TypeInit, TypeStep, PTL DEF Spec

-----------------------------------------------------------------------------
(* The layout of the file. *)

IsSample(e) == e.box = "sample"

(* What has been written ends at the channel, where the builder believes it *)
(* does, and begins with the ftyp box.                                       *)
Frontier(o) ==
  /\ o.position = o.dataOffset
  /\ FtypBox \in o.disk
  /\ \A e \in o.disk : /\ e.len > 0
                       /\ e.at + e.len <= o.position
                       /\ e = FtypBox \/ e.at >= FtypSize

(* The chunk in use: its header on disk is the empty one, and nothing else  *)
(* lies where that header will be rewritten.                                *)
OpenChunk(o, pending) ==
  ~o.writeNewMdat =>
    /\ o.mdat.offset >= FtypSize
    /\ o.mdat.offset + HeaderSize + o.mdat.contentSize = o.position + pending
    /\ MdatBox(o.mdat.offset, 0) \in o.disk
    /\ \A e \in o.disk : \/ e = MdatBox(o.mdat.offset, 0)
                         \/ e.at + e.len <= o.mdat.offset
                         \/ e.at >= o.mdat.offset + HeaderSize

(* Between two chunks only the first mdat object, unused, claims content. *)
NoStaleContent(o) == o.writeNewMdat => (o.mdat.contentSize = 0 \/ o.disk = {FtypBox})

Follows(disk, at) == \E c \in disk : ~IsSample(c) /\ c.at = at

(* Every box ends where another begins, the last where the file will end. *)
Chain(o, pending) ==
  \A b \in o.disk : ~IsSample(b) =>
    \/ Follows(o.disk, b.at + b.size)
    \/ o.writeNewMdat /\ b.at + b.size = o.position + pending
    \/ ~o.writeNewMdat /\ b.at = o.mdat.offset

(* Every sample is in the payload of a closed chunk or in the chunk in use. *)
InChunks(o) ==
  \A e \in o.disk : IsSample(e) =>
    \/ \E b \in o.disk : InPayload(e, b)
    \/ ~o.writeNewMdat /\ e.at >= o.mdat.offset + HeaderSize

(* The chunk just closed has room for the bytes that are pending. *)
Reserved(o, pending) ==
  (o.writeNewMdat /\ pending > 0) =>
    \E b \in o.disk : /\ b.box = "mdat"
                      /\ b.at + HeaderSize <= o.position
                      /\ o.position + pending <= b.at + b.size

Layout(o, pending) ==
  /\ Frontier(o)
  /\ OpenChunk(o, pending)
  /\ NoStaleContent(o)
  /\ Chain(o, pending)
  /\ InChunks(o)
  /\ Reserved(o, pending)

SamplesKept(before, after) == \A e \in before : IsSample(e) => e \in after

(* Writing where nothing is keeps everything that is there. *)
LEMMA PutAtEnd ==
  ASSUME NEW disk \in SUBSET Extent, NEW x \in Extent,
         \A e \in disk : e.at + e.len <= x.at
  PROVE  Put(disk, x) = disk \cup {x}
<1>1. \A e \in disk : ~Overlap(e, x)
  BY DEF Overlap, Extent
<1> QED
  BY <1>1 DEF Put

(* A new chunk can be opened anywhere between two samples. *)
LEMMA OpenMdatLayout ==
  ASSUME NEW o \in OutType, Layout(o, 0)
  PROVE  /\ Layout(OpenMdat(o), 0)
         /\ ~OpenMdat(o).writeNewMdat
         /\ SamplesKept(o.disk, OpenMdat(o).disk)
<1>1. CASE ~o.writeNewMdat
  BY <1>1 DEF OpenMdat, SamplesKept
<1>2. CASE o.writeNewMdat
  <2> DEFINE header == MdatBox(o.position, 0)
             p == OpenMdat(o)
  <2>1. header \in Extent /\ o.position \in Nat /\ o.disk \in SUBSET Extent
    BY BoxTypes DEF OutType
  <2>2. header.at = o.position /\ header.len = HeaderSize /\ header.box = "mdat"
        /\ header.size = HeaderSize
    BY Sizes DEF MdatBox
  <2>3. Put(o.disk, header) = o.disk \cup {header}
    BY <2>1, <2>2, PutAtEnd DEF Layout, Frontier
  <2>4. /\ p.disk = o.disk \cup {header}
        /\ p.position = o.position + HeaderSize
        /\ p.dataOffset = o.dataOffset + HeaderSize
        /\ p.mdat = [offset |-> o.dataOffset, contentSize |-> 0]
        /\ p.writeNewMdat = FALSE
    BY <1>2, <2>3 DEF OpenMdat, OutType
  <2> HIDE DEF p, header
  <2>5. o.dataOffset = o.position /\ o.position >= FtypSize
    BY <2>1, Sizes DEF Layout, Frontier, FtypBox
  <2>6. Frontier(p)
    BY <2>1, <2>2, <2>4, <2>5, Sizes DEF Layout, Frontier, Extent
  <2>7. OpenChunk(p, 0)
    <3>1. p.mdat.offset = o.position /\ p.mdat.contentSize = 0
      BY <2>4, <2>5
    <3>2. MdatBox(p.mdat.offset, 0) = header
      BY <3>1 DEF header
    <3>3. \A e \in o.disk : e.at + e.len <= o.position
      BY DEF Layout, Frontier
    <3> QED
      BY <2>1, <2>4, <2>5, <3>1, <3>2, <3>3, Sizes DEF OpenChunk
  <2>8. NoStaleContent(p)
    BY <2>4 DEF NoStaleContent
  <2>9. Chain(p, 0)
    <3> SUFFICES ASSUME NEW b \in p.disk, ~IsSample(b)
                 PROVE  \/ Follows(p.disk, b.at + b.size)
                        \/ b.at = p.mdat.offset
      BY <2>4 DEF Chain
    <3>1. CASE b = header
      BY <2>2, <2>4, <2>5, <3>1
    <3>2. CASE b \in o.disk
      <4>1. Follows(o.disk, b.at + b.size) \/ b.at + b.size = o.position
        BY <1>2, <2>1, <3>2 DEF Layout, Chain
      <4>2. ~IsSample(header)
        BY <2>2 DEF IsSample
      <4> QED
        BY <2>2, <2>4, <4>1, <4>2 DEF Follows
    <3> QED
      BY <2>4, <3>1, <3>2
  <2>10. InChunks(p)
    BY <1>2, <2>2, <2>4 DEF Layout, InChunks, IsSample
  <2>11. Reserved(p, 0)
    BY <2>4 DEF Reserved
  <2>12. SamplesKept(o.disk, p.disk)
    BY <2>4 DEF SamplesKept
  <2> QED
    BY <2>4, <2>6, <2>7, <2>8, <2>9, <2>10, <2>11, <2>12 DEF Layout, p
<1> QED
  BY <1>1, <1>2

(* The sample announced is pending until its bytes are written. *)
LEMMA CountSampleLayout ==
  ASSUME NEW o \in OutType, Layout(o, 0), ~o.writeNewMdat, NEW size \in Nat
  PROVE  /\ Layout(CountSample(o, size), size)
         /\ ~CountSample(o, size).writeNewMdat
         /\ CountSample(o, size).disk = o.disk
<1> DEFINE p == CountSample(o, size)
<1>1. /\ p.disk = o.disk
      /\ p.position = o.position
      /\ p.dataOffset = o.dataOffset
      /\ p.writeNewMdat = FALSE
      /\ p.mdat.offset = o.mdat.offset
      /\ p.mdat.contentSize = o.mdat.contentSize + size
  BY DEF CountSample, OutType
<1>2. /\ o.position \in Nat /\ o.mdat.offset \in Nat /\ o.mdat.contentSize \in Nat
  BY DEF OutType
<1> HIDE DEF p
<1>3. Frontier(p)
  BY <1>1 DEF Layout, Frontier
<1>4. OpenChunk(p, size)
  BY <1>1, <1>2, Sizes DEF Layout, OpenChunk
<1>5. Chain(p, size)
  BY <1>1 DEF Layout, Chain
<1>6. InChunks(p)
  BY <1>1 DEF Layout, InChunks
<1> QED
  BY <1>1, <1>3, <1>4, <1>5, <1>6 DEF Layout, NoStaleContent, Reserved, p

(* Rewriting the header of the chunk in use replaces the empty one and      *)
(* nothing else; the chunk then reaches to where the pending bytes will end. *)
LEMMA FlushLayout ==
  ASSUME NEW o \in OutType, NEW pending \in Nat, Layout(o, pending), ~o.writeNewMdat
  PROVE  LET header == MdatBox(o.mdat.offset, o.mdat.contentSize)
             disk == Put(o.disk, header)
         IN  /\ SamplesKept(o.disk, disk)
             /\ \A e \in disk : IsSample(e) => e \in o.disk
             /\ FtypBox \in disk
             /\ \A e \in disk : /\ e.len > 0
                                /\ e.at + e.len <= o.position
                                /\ e = FtypBox \/ e.at >= FtypSize
             /\ \A b \in disk : ~IsSample(b) =>
                   \/ Follows(disk, b.at + b.size)
                   \/ b.at + b.size = o.position + pending
             /\ \A e \in disk : IsSample(e) => \E b \in disk : InPayload(e, b)
             /\ header \in disk
             /\ header.at + HeaderSize <= o.position
             /\ header.at + header.size = o.position + pending
<1> DEFINE header == MdatBox(o.mdat.offset, o.mdat.contentSize)
           stale == MdatBox(o.mdat.offset, 0)
           disk == Put(o.disk, header)
<1>1. /\ o.position \in Nat /\ o.mdat.offset \in Nat /\ o.mdat.contentSize \in Nat
      /\ o.disk \in SUBSET Extent
  BY DEF OutType
<1>2. /\ header.at = o.mdat.offset /\ header.len = HeaderSize /\ header.box = "mdat"
      /\ header.size = HeaderSize + o.mdat.contentSize
      /\ stale.at = o.mdat.offset /\ stale.len = HeaderSize /\ stale.box = "mdat"
      /\ stale.size = HeaderSize
  BY <1>1, Sizes DEF MdatBox
<1>3. /\ o.mdat.offset >= FtypSize
      /\ o.mdat.offset + HeaderSize + o.mdat.contentSize = o.position + pending
      /\ stale \in o.disk
      /\ \A e \in o.disk : \/ e = stale
                           \/ e.at + e.len <= o.mdat.offset
                           \/ e.at >= o.mdat.offset + HeaderSize
  BY DEF Layout, OpenChunk
<1>4. header \in Extent
  BY <1>1, BoxTypes
<1>5. disk = {e \in o.disk : ~Overlap(e, header)} \cup {header}
  BY DEF Put
<1> HIDE DEF header, stale, disk
<1>6. \A e \in o.disk : e.at \in Nat /\ e.len \in Nat /\ e.size \in Nat
  BY <1>1 DEF Extent
<1>7. \A e \in o.disk : e # stale => ~Overlap(e, header)
  BY <1>1, <1>2, <1>3, <1>6, Sizes DEF Overlap
<1>8. \A e \in o.disk : e # stale => e \in disk
  BY <1>5, <1>7
<1>9. header \in disk
  BY <1>5
<1>10. SamplesKept(o.disk, disk)
  BY <1>2, <1>8 DEF SamplesKept, IsSample
<1>11. \A e \in disk : e \in o.disk \/ e = header
  BY <1>5
<1>12. \A e \in disk : IsSample(e) => e \in o.disk
  BY <1>2, <1>11 DEF IsSample
<1>13. FtypBox \in disk
  <2>1. FtypBox \in o.disk /\ FtypBox.at = 0
    BY DEF Layout, Frontier, FtypBox
  <2>2. FtypBox # stale
    BY <1>2, <1>3, <2>1, Sizes
  <2> QED
    BY <1>8, <2>1, <2>2
<1>14. header.at + HeaderSize <= o.position
  BY <1>2, <1>3 DEF Layout, Frontier
<1>15. header.at + header.size = o.position + pending
  BY <1>1, <1>2, <1>3, Sizes
<1>16. \A e \in disk : /\ e.len > 0
                       /\ e.at + e.len <= o.position
                       /\ e = FtypBox \/ e.at >= FtypSize
  BY <1>2, <1>3, <1>11, <1>14, Sizes DEF Layout, Frontier
<1>17. \A at : Follows(o.disk, at) => Follows(disk, at)
  <2> SUFFICES ASSUME NEW at, NEW c \in o.disk, ~IsSample(c), c.at = at
               PROVE  Follows(disk, at)
    BY DEF Follows
  <2>1. CASE c = stale
    BY <1>2, <1>9, <2>1 DEF Follows, IsSample
  <2>2. CASE c # stale
    BY <1>8, <2>2 DEF Follows
  <2> QED
    BY <2>1, <2>2
<1>18. \A b \in disk : ~IsSample(b) =>
          \/ Follows(disk, b.at + b.size)
          \/ b.at + b.size = o.position + pending
  <2> SUFFICES ASSUME NEW b \in disk, ~IsSample(b), b # header
               PROVE  Follows(disk, b.at + b.size)
    BY <1>15
  <2>1. b \in o.disk
    BY <1>11
  <2>2. CASE Follows(o.disk, b.at + b.size)
    BY <1>17, <2>2
  <2>3. CASE b.at = o.mdat.offset
    <3>1. Overlap(b, header)
      BY <1>1, <1>2, <1>6, <2>1, <2>3, Sizes DEF Overlap, Layout, Frontier
    <3> QED
      BY <1>5, <3>1
  <2> QED
    BY <2>1, <2>2, <2>3 DEF Layout, Chain
<1>19. \A e \in disk : IsSample(e) => \E b \in disk : InPayload(e, b)
  <2> SUFFICES ASSUME NEW e \in disk, IsSample(e)
               PROVE  \E b \in disk : InPayload(e, b)
    OBVIOUS
  <2>1. e \in o.disk /\ e.len > 0 /\ e.at + e.len <= o.position
    BY <1>12 DEF Layout, Frontier
  <2>2. CASE \E b \in o.disk : InPayload(e, b)
    <3>1. PICK b \in o.disk : InPayload(e, b)
      BY <2>2
    <3>2. b # stale
      BY <1>2, <1>6, <2>1, <3>1, Sizes DEF InPayload
    <3> QED
      BY <1>8, <3>1, <3>2
  <2>3. CASE e.at >= o.mdat.offset + HeaderSize
    <3>1. InPayload(e, header)
      BY <1>1, <1>2, <1>3, <1>6, <2>1, <2>3, Sizes DEF InPayload
    <3> QED
      BY <1>9, <3>1
  <2> QED
    BY <2>1, <2>2, <2>3 DEF Layout, InChunks
<1> QED
  BY <1>9, <1>10, <1>12, <1>13, <1>14, <1>15, <1>16, <1>18, <1>19 DEF disk, header

(* Closing a full chunk leaves the pending bytes inside it. *)
LEMMA FlushIfFullLayout ==
  ASSUME NEW o \in OutType, NEW pending \in Nat, Layout(o, pending), ~o.writeNewMdat
  PROVE  /\ Layout(FlushIfFull(o), pending)
         /\ SamplesKept(o.disk, FlushIfFull(o).disk)
<1>1. CASE o.sinceLastMdat < ChunkLimit
  BY <1>1 DEF FlushIfFull, SamplesKept
<1>2. CASE ~(o.sinceLastMdat < ChunkLimit)
  <2> DEFINE p == FlushIfFull(o)
             header == MdatBox(o.mdat.offset, o.mdat.contentSize)
             disk == Put(o.disk, header)
  <2>1. /\ p.disk = disk
        /\ p.position = o.position
        /\ p.dataOffset = o.dataOffset
        /\ p.writeNewMdat = TRUE
        /\ p.mdat.contentSize = 0
    BY <1>2 DEF FlushIfFull, FlushCurrentMdat, OutType
  <2>2. /\ SamplesKept(o.disk, disk)
        /\ FtypBox \in disk
        /\ \A e \in disk : /\ e.len > 0
                           /\ e.at + e.len <= o.position
                           /\ e = FtypBox \/ e.at >= FtypSize
        /\ \A b \in disk : ~IsSample(b) =>
              \/ Follows(disk, b.at + b.size)
              \/ b.at + b.size = o.position + pending
        /\ \A e \in disk : IsSample(e) => \E b \in disk : InPayload(e, b)
        /\ header \in disk
        /\ header.at + HeaderSize <= o.position
        /\ header.at + header.size = o.position + pending
    BY FlushLayout
  <2>3. header.box = "mdat" /\ o.position \in Nat /\ header.at \in Nat /\ header.size \in Nat
    BY Sizes DEF MdatBox, OutType
  <2> HIDE DEF p, disk, header
  <2>4. Frontier(p)
    BY <2>1, <2>2 DEF Frontier, Layout
  <2>5. Chain(p, pending)
    BY <2>1, <2>2 DEF Chain
  <2>6. Reserved(p, pending)
    <3>1. o.position + pending <= header.at + header.size
      BY <2>2, <2>3
    <3> QED
      BY <2>1, <2>2, <2>3, <3>1 DEF Reserved
  <2>7. InChunks(p)
    BY <2>1, <2>2 DEF InChunks
  <2>8. OpenChunk(p, pending) /\ NoStaleContent(p)
    BY <2>1 DEF OpenChunk, NoStaleContent
  <2> QED
    BY <2>1, <2>2, <2>4, <2>5, <2>6, <2>7, <2>8 DEF Layout, p
<1> QED
  BY <1>1, <1>2

(* The three stages before the bytes of a sample are written. *)
LEMMA PreparedLayout ==
  ASSUME NEW o \in OutType, Layout(o, 0), NEW size \in Nat
  PROVE  /\ Layout(Prepared(o, size), size)
         /\ SamplesKept(o.disk, Prepared(o, size).disk)
<1> DEFINE p == OpenMdat(o)
           q == CountSample(p, size)
           r == FlushIfFull(q)
<1>1. p \in OutType /\ q \in OutType
  BY OpenMdatType, CountSampleType
<1>2. Layout(p, 0) /\ ~p.writeNewMdat /\ SamplesKept(o.disk, p.disk)
  BY OpenMdatLayout
<1> HIDE DEF p
<1>3. Layout(q, size) /\ ~q.writeNewMdat /\ q.disk = p.disk
  BY <1>1, <1>2, CountSampleLayout
<1> HIDE DEF q
<1>4. Layout(r, size) /\ SamplesKept(q.disk, r.disk)
  BY <1>1, <1>3, FlushIfFullLayout
<1> HIDE DEF r
<1>5. SamplesKept(o.disk, r.disk)
  BY <1>2, <1>3, <1>4 DEF SamplesKept
<1> QED
  BY <1>4, <1>5 DEF Prepared, p, q, r

(* The bytes of the sample take exactly the room that was announced. *)
LEMMA AppendSampleLayout ==
  ASSUME NEW o \in OutType, NEW size \in Nat, size > 0, Layout(o, size),
         NEW isAudio \in BOOLEAN, BytesWritten(size, isAudio) = size,
         NEW t \in Nat, NEW k \in Nat
  PROVE  LET p == AppendSample(o, size, isAudio, t, k)
         IN  /\ Layout(p, 0)
             /\ SamplesKept(o.disk, p.disk)
             /\ SampleBytes(o.dataOffset, size, t, k) \in p.disk
<1> DEFINE p == AppendSample(o, size, isAudio, t, k)
           new == SampleBytes(o.position, size, t, k)
<1>1. /\ o.position \in Nat /\ o.mdat.offset \in Nat /\ o.mdat.contentSize \in Nat
      /\ o.disk \in SUBSET Extent /\ new \in Extent
  BY BoxTypes DEF OutType
<1>2. new.at = o.position /\ new.len = size /\ new.box = "sample"
  BY DEF SampleBytes
<1>3. Put(o.disk, new) = o.disk \cup {new}
  BY <1>1, <1>2, PutAtEnd DEF Layout, Frontier
<1>4. /\ p.disk = o.disk \cup {new}
      /\ p.position = o.position + size
      /\ p.dataOffset = o.dataOffset + size
      /\ p.writeNewMdat = o.writeNewMdat
      /\ p.mdat = o.mdat
  BY <1>3 DEF AppendSample, OutType
<1>5. o.position = o.dataOffset
  BY DEF Layout, Frontier
<1>6. new \in p.disk /\ IsSample(new)
  BY <1>2, <1>4 DEF IsSample
<1>7. SampleBytes(o.dataOffset, size, t, k) \in p.disk
  BY <1>5, <1>6
<1> HIDE DEF p, new
<1>8. \A e \in o.disk : e.at \in Nat /\ e.len \in Nat /\ e.size \in Nat
  BY <1>1 DEF Extent
<1>9. o.position >= FtypSize
  BY <1>1, Sizes DEF Layout, Frontier, FtypBox
<1>10. Frontier(p)
  <2>1. \A e \in o.disk : e.len > 0 /\ e.at + e.len <= o.position
                          /\ (e = FtypBox \/ e.at >= FtypSize) /\ FtypBox \in o.disk
    BY DEF Layout, Frontier
  <2>2. \A e \in o.disk : e.at + e.len <= o.position + size
    BY <1>1, <1>8, <2>1
  <2> QED
    BY <1>1, <1>2, <1>4, <1>5, <1>9, <2>1, <2>2 DEF Layout, Frontier
<1>11. OpenChunk(p, 0)
  <2> SUFFICES ASSUME ~o.writeNewMdat
               PROVE  /\ o.mdat.offset >= FtypSize
                      /\ o.mdat.offset + HeaderSize + o.mdat.contentSize = o.position + size
                      /\ MdatBox(o.mdat.offset, 0) \in p.disk
                      /\ \A e \in p.disk : \/ e = MdatBox(o.mdat.offset, 0)
                                           \/ e.at + e.len <= o.mdat.offset
                                           \/ e.at >= o.mdat.offset + HeaderSize
    BY <1>1, <1>4 DEF OpenChunk
  <2>1. MdatBox(o.mdat.offset, 0) \in o.disk
    BY DEF Layout, OpenChunk
  <2>2. o.mdat.offset + HeaderSize <= o.position
    BY <2>1 DEF Layout, Frontier, MdatBox
  <2> QED
    BY <1>2, <1>4, <2>1, <2>2 DEF Layout, OpenChunk
<1>12. NoStaleContent(p)
  <2> SUFFICES ASSUME o.writeNewMdat PROVE o.mdat.contentSize = 0
    BY <1>4 DEF NoStaleContent
  <2>1. \E b \in o.disk : b.box = "mdat"
    BY DEF Layout, Reserved
  <2>2. FtypBox.box = "ftyp"
    BY DEF FtypBox
  <2> QED
    BY <2>1, <2>2 DEF Layout, NoStaleContent
<1>13. Chain(p, 0)
  <2> SUFFICES ASSUME NEW b \in p.disk, ~IsSample(b)
               PROVE  \/ Follows(p.disk, b.at + b.size)
                      \/ p.writeNewMdat /\ b.at + b.size = p.position + 0
                      \/ ~p.writeNewMdat /\ b.at = p.mdat.offset
    BY DEF Chain
  <2>1. b \in o.disk
    BY <1>4, <1>6
  <2>2. \/ Follows(o.disk, b.at + b.size)
        \/ o.writeNewMdat /\ b.at + b.size = o.position + size
        \/ ~o.writeNewMdat /\ b.at = o.mdat.offset
    BY <2>1 DEF Layout, Chain
  <2>3. Follows(o.disk, b.at + b.size) => Follows(p.disk, b.at + b.size)
    BY <1>4 DEF Follows
  <2>4. p.position + 0 = o.position + size
    BY <1>1, <1>4
  <2> QED
    BY <1>4, <2>2, <2>3, <2>4
<1>14. InChunks(p)
  <2> SUFFICES ASSUME NEW e \in p.disk, IsSample(e)
               PROVE  \/ \E b \in p.disk : InPayload(e, b)
                      \/ ~o.writeNewMdat /\ e.at >= o.mdat.offset + HeaderSize
    BY <1>4 DEF InChunks
  <2>1. CASE e \in o.disk
    BY <1>4, <2>1 DEF Layout, InChunks
  <2>2. CASE e = new /\ o.writeNewMdat
    <3>1. PICK b \in o.disk : /\ b.box = "mdat"
                              /\ b.at + HeaderSize <= o.position
                              /\ o.position + size <= b.at + b.size
      BY <2>2 DEF Layout, Reserved
    <3>2. InPayload(new, b)
      BY <1>2, <3>1 DEF InPayload
    <3> QED
      BY <1>4, <2>2, <3>1, <3>2
  <2>3. CASE e = new /\ ~o.writeNewMdat
    <3>1. MdatBox(o.mdat.offset, 0) \in o.disk
      BY <2>3 DEF Layout, OpenChunk
    <3>2. o.mdat.offset + HeaderSize <= o.position
      BY <3>1 DEF Layout, Frontier, MdatBox
    <3> QED
      BY <1>2, <2>3, <3>2
  <2> QED
    BY <1>4, <2>1, <2>2, <2>3
<1>15. Reserved(p, 0)
  BY DEF Reserved
<1>16. SamplesKept(o.disk, p.disk)
  BY <1>4 DEF SamplesKept
<1> QED
  BY <1>7, <1>10, <1>11, <1>12, <1>13, <1>14, <1>15, <1>16 DEF Layout, p

-----------------------------------------------------------------------------
(* The invariant of the muxer. *)

Recorded ==
  \A t \in 1..Len(tracks) : \A k \in 1..Len(tracks[t].samples) : Located(t, k) \in out.disk

(* Samples of flushed chunks are behind the channel and behind the header   *)
(* that finishMovie will rewrite; this outlives an exception.               *)
Guarded(o) ==
  /\ \A e \in o.disk : (IsSample(e) /\ o.writeNewMdat) =>
        e.at + e.len <= o.position
  /\ \A e \in o.disk : (IsSample(e) /\ ~o.writeNewMdat /\ e.at < o.mdat.offset) =>
        e.at + e.len <= o.mdat.offset
  /\ ~o.writeNewMdat => o.mdat.offset <= o.position
  /\ o.writeNewMdat => (o.mdat.contentSize = 0 \/ \A e \in o.disk : ~IsSample(e))

FreshBuilder ==
  /\ out.disk = {} /\ out.position = 0 /\ out.dataOffset = 0
  /\ out.writeNewMdat /\ tracks = << >> /\ error = FALSE

LayoutInv ==
  /\ TypeOK
  /\ phase = "new" => FreshBuilder
  /\ Writing => Layout(out, 0) /\ Recorded
  /\ phase = "open" => Guarded(out)
  /\ SamplesReadable
  /\ BoxesTile

LEMMA LayoutGuards ==
  ASSUME NEW o \in OutType, NEW pending \in Nat, Layout(o, pending)
  PROVE  Guarded(o)
<1>1. /\ o.position \in Nat /\ o.mdat.offset \in Nat /\ o.mdat.contentSize \in Nat
      /\ o.disk \in SUBSET Extent
  BY DEF OutType
<1>2. \A e \in o.disk : e.at \in Nat /\ e.len \in Nat /\ e.at + e.len <= o.position
  BY <1>1 DEF Extent, Layout, Frontier
<1>3. \A e \in o.disk : (IsSample(e) /\ ~o.writeNewMdat /\ e.at < o.mdat.offset) =>
        e.at + e.len <= o.mdat.offset
  <2> SUFFICES ASSUME NEW e \in o.disk, IsSample(e), ~o.writeNewMdat, e.at < o.mdat.offset
               PROVE  e.at + e.len <= o.mdat.offset
    OBVIOUS
  <2>1. \/ e = MdatBox(o.mdat.offset, 0)
        \/ e.at + e.len <= o.mdat.offset
        \/ e.at >= o.mdat.offset + HeaderSize
    BY DEF Layout, OpenChunk
  <2>2. e # MdatBox(o.mdat.offset, 0)
    BY DEF IsSample, MdatBox
  <2> QED
    BY <1>1, <1>2, <2>1, <2>2, Sizes
<1>4. ~o.writeNewMdat => o.mdat.offset <= o.position
  <2> SUFFICES ASSUME ~o.writeNewMdat PROVE o.mdat.offset <= o.position
    OBVIOUS
  <2>1. MdatBox(o.mdat.offset, 0) \in o.disk
    BY DEF Layout, OpenChunk
  <2>2. o.mdat.offset + HeaderSize <= o.position
    BY <2>1 DEF Layout, Frontier, MdatBox
  <2> QED
    BY <1>1, <2>2, Sizes
<1>5. o.writeNewMdat => (o.mdat.contentSize = 0 \/ \A e \in o.disk : ~IsSample(e))
  BY DEF Layout, NoStaleContent, FtypBox, IsSample
<1> QED
  BY <1>2, <1>3, <1>4, <1>5 DEF Guarded

LEMMA FirstLayout ==
  ASSUME FreshBuilder, NEW o \in OutType, o.disk = {FtypBox},
         o.position = FtypSize, o.dataOffset = FtypSize, o.writeNewMdat
  PROVE  Layout(o, 0)
<1>1. /\ FtypBox.at = 0 /\ FtypBox.len = FtypSize /\ FtypBox.size = FtypSize
      /\ FtypBox.box = "ftyp"
  BY DEF FtypBox
<1>2. Frontier(o)
  BY <1>1, Sizes DEF Frontier
<1>3. Chain(o, 0)
  BY <1>1, Sizes DEF Chain
<1>4. InChunks(o)
  BY <1>1 DEF InChunks, IsSample
<1> QED
  BY <1>2, <1>3, <1>4 DEF Layout, OpenChunk, NoStaleContent, Reserved

(* The callers give writeSampleData no sample shorter than its start code. *)
LEMMA WholeSample ==
  ASSUME NEW t, NEW size, CanWriteTo(t, size) PROVE BytesWritten(size, IsAudio(t)) = size
  BY StartCodeAssumption DEF CanWriteTo, IsAudio, BytesWritten

LEMMA RecordedWrite ==
  ASSUME TypeOK, Recorded, NEW t \in 0..Len(tracks), NEW size \in Nat, NEW step \in Nat,
         NEW offset \in Nat,
         tracks' = MovieWithSample(t, offset, size, step),
         SamplesKept(out.disk, out'.disk),
         SampleBytes(offset, size, t, NextIndex(t)) \in out'.disk
  PROVE  Recorded'
<1> SUFFICES ASSUME NEW u \in 1..Len(tracks'), NEW k \in 1..Len(tracks'[u].samples)
             PROVE  SampleBytes(tracks'[u].samples[k].offset,
                                tracks'[u].samples[k].size, u, k) \in out'.disk
  BY DEF Recorded, Located
<1>1. Len(tracks') = Len(tracks) /\ tracks \in Seq(TrackType)
  BY MovieWithSampleType DEF TypeOK
<1>2. ASSUME NEW v \in 1..Len(tracks), NEW j \in 1..Len(tracks[v].samples)
      PROVE  SampleBytes(tracks[v].samples[j].offset, tracks[v].samples[j].size, v, j)
                \in out'.disk
  <2>1. SampleBytes(tracks[v].samples[j].offset, tracks[v].samples[j].size, v, j)
          \in out.disk
    BY DEF Recorded, Located
  <2> QED
    BY <2>1 DEF SamplesKept, IsSample, SampleBytes
<1>3. CASE t = NoTrack \/ u # t
  <2>1. tracks'[u] = tracks[u]
    BY <1>1, <1>3 DEF MovieWithSample, NoTrack
  <2> QED
    BY <1>1, <1>2, <2>1
<1>4. CASE t # NoTrack /\ u = t
  <2>1. tracks[t] \in TrackType /\ tracks[t].samples \in Seq(SampleType)
    <3>1. t \in 1..Len(tracks)
      BY <1>1, <1>4 DEF NoTrack
    <3>2. tracks[t] \in TrackType
      BY <1>1, <3>1
    <3> QED
      BY <3>2 DEF TrackType
  <2> DEFINE pts == tracks[t].lastPresentationTime + step
             sample == [offset |-> offset, size |-> size, pts |-> pts]
  <2>2. tracks'[t] = AddSample(tracks[t], offset, size, pts)
    BY <1>1, <1>4 DEF MovieWithSample, NoTrack
  <2>3. tracks'[t].samples = Append(tracks[t].samples, sample)
    BY <2>1, <2>2 DEF AddSample, TrackType
  <2>4. sample.offset = offset /\ sample.size = size
    OBVIOUS
  <2> HIDE DEF sample, pts
  <2>5. CASE k \in 1..Len(tracks[t].samples)
    <3>1. tracks'[t].samples[k] = tracks[t].samples[k]
      BY <2>1, <2>3, <2>5
    <3> QED
      BY <1>1, <1>2, <1>4, <2>5, <3>1
  <2>6. CASE k = Len(tracks[t].samples) + 1
    <3>1. tracks'[t].samples[k] = sample
      <4>1. Append(tracks[t].samples, sample)[Len(tracks[t].samples) + 1] = sample
        BY <2>1
      <4> QED
        BY <2>3, <2>6, <4>1
    <3>2. k = NextIndex(t)
      BY <1>4, <2>6 DEF NextIndex
    <3> QED
      BY <1>4, <2>4, <3>1, <3>2
  <2>7. Len(tracks'[t].samples) = Len(tracks[t].samples) + 1
    BY <2>1, <2>3
  <2> QED
    BY <1>4, <2>1, <2>5, <2>6, <2>7
<1> QED
  BY <1>3, <1>4

(* Closing the file from a sound layout makes it readable. *)
LEMMA FinishReadable ==
  ASSUME TypeOK, Writing, Layout(out, 0), Recorded, FinishMovie
  PROVE  SamplesReadable' /\ BoxesTile'
<1> DEFINE o == Closed(out)
           moov == MoovBox(o.position)
<1>1. out \in OutType /\ o \in OutType
  BY FlushType DEF TypeOK, Closed
<1>2. /\ o.position \in Nat /\ o.disk \in SUBSET Extent /\ moov \in Extent
  BY <1>1, BoxTypes DEF OutType
<1>3. moov.at = o.position /\ moov.len = MoovSize /\ moov.size = MoovSize /\ moov.box = "moov"
  BY DEF MoovBox
<1>4. /\ out'.disk = Put(o.disk, moov)
      /\ out'.position = o.position + MoovSize
      /\ tracks' = tracks
  BY <1>1 DEF FinishMovie, OutType
<1>5. o.position = out.position
  BY DEF Closed, FlushCurrentMdat, OutType, TypeOK
<1> HIDE DEF o, moov
<1> DEFINE Sound ==
      /\ SamplesKept(out.disk, o.disk)
      /\ FtypBox \in o.disk
      /\ \A e \in o.disk : e.len > 0 /\ e.at + e.len <= o.position
      /\ \A b \in o.disk : ~IsSample(b) =>
            \/ Follows(o.disk, b.at + b.size)
            \/ b.at + b.size = o.position
      /\ \A e \in o.disk : IsSample(e) => \E b \in o.disk : InPayload(e, b)
<1>6. ASSUME Sound PROVE SamplesReadable' /\ BoxesTile'
  <2>1. out'.disk = o.disk \cup {moov}
    BY <1>2, <1>3, <1>4, <1>6, PutAtEnd
  <2>2. ~IsSample(moov)
    BY <1>3 DEF IsSample
  <2>3. SamplesReadable'
    <3> SUFFICES ASSUME NEW t \in 1..Len(tracks), NEW k \in 1..Len(tracks[t].samples)
                 PROVE  /\ Located(t, k) \in out'.disk
                        /\ \E b \in out'.disk : InPayload(Located(t, k), b)
      BY <1>4 DEF SamplesReadable, Located
    <3>1. Located(t, k) \in out.disk /\ IsSample(Located(t, k))
      BY DEF Recorded, Located, SampleBytes, IsSample
    <3>2. Located(t, k) \in o.disk
      BY <1>6, <3>1 DEF SamplesKept
    <3> QED
      BY <1>6, <2>1, <3>1, <3>2
  <2>4. BoxesTile'
    <3>1. out'.position - MoovSize = o.position
      BY <1>2, <1>4, Sizes
    <3>2. MoovBox(out'.position - MoovSize) \in out'.disk
      BY <2>1, <3>1 DEF moov
    <3>3. ASSUME NEW b \in out'.disk, b.box # "sample"
          PROVE  \/ b.at + b.size = out'.position
                 \/ \E c \in out'.disk : c.box # "sample" /\ c.at = b.at + b.size
      <4>1. CASE b = moov
        BY <1>3, <1>4, <4>1
      <4>2. CASE b \in o.disk
        <5>1. Follows(o.disk, b.at + b.size) \/ b.at + b.size = moov.at
          BY <1>3, <1>6, <3>3, <4>2 DEF IsSample
        <5> QED
          BY <2>1, <2>2, <5>1 DEF Follows, IsSample
      <4> QED
        BY <2>1, <4>1, <4>2
    <3>4. FtypBox \in out'.disk
      BY <1>6, <2>1
    <3> QED
      BY <3>2, <3>3, <3>4 DEF BoxesTile, Boxes
  <2> QED
    BY <2>3, <2>4
<1>7. CASE out.mdat.contentSize = 0 /\ out.writeNewMdat
  <2>1. o = out
    BY <1>7 DEF Closed, o
  <2>2. Sound
    BY <1>1, <1>2, <1>7, <2>1 DEF Layout, Frontier, Chain, InChunks, SamplesKept
  <2> QED
    BY <1>6, <2>2
<1>8. CASE ~out.writeNewMdat
  <2> DEFINE header == MdatBox(out.mdat.offset, out.mdat.contentSize)
  <2>1. o.disk = Put(out.disk, header)
    <3>1. CASE out.mdat.contentSize # 0
      BY <1>1, <3>1 DEF Closed, FlushCurrentMdat, OutType, o
    <3>2. CASE out.mdat.contentSize = 0
      <4>1. o.disk = out.disk /\ header \in out.disk
        BY <1>8, <3>2 DEF Layout, OpenChunk, Closed, o
      <4>2. \A e \in out.disk : e # header => ~Overlap(e, header)
        <5>1. header.at = out.mdat.offset /\ header.len = HeaderSize
          BY DEF MdatBox
        <5>2. out.mdat.offset \in Nat /\ \A e \in out.disk : e.at \in Nat /\ e.len \in Nat
          BY <1>1 DEF OutType, Extent
        <5>3. \A e \in out.disk : \/ e = header
                                  \/ e.at + e.len <= out.mdat.offset
                                  \/ e.at >= out.mdat.offset + HeaderSize
          BY <1>8, <3>2 DEF Layout, OpenChunk
        <5> QED
          BY <5>1, <5>2, <5>3, Sizes DEF Overlap
      <4> QED
        BY <4>1, <4>2 DEF Put
    <3> QED
      BY <3>1, <3>2
  <2>2. Sound
    <3> HIDE DEF header
    <3>1. LET disk == Put(out.disk, header)
          IN  /\ SamplesKept(out.disk, disk)
              /\ FtypBox \in disk
              /\ \A e \in disk : e.len > 0 /\ e.at + e.len <= out.position
              /\ \A b \in disk : ~IsSample(b) =>
                    \/ Follows(disk, b.at + b.size)
                    \/ b.at + b.size = out.position + 0
              /\ \A e \in disk : IsSample(e) => \E b \in disk : InPayload(e, b)
      BY <1>1, <1>8, FlushLayout DEF header
    <3> QED
      BY <1>2, <1>5, <2>1, <3>1
  <2> QED
    BY <1>6, <2>2
<1>9. CASE out.writeNewMdat /\ out.mdat.contentSize # 0
  <2>1. out.disk = {FtypBox} /\ ~IsSample(FtypBox)
    BY <1>9 DEF Layout, NoStaleContent, FtypBox, IsSample
  <2>2. o.disk = Put(out.disk, MdatBox(out.mdat.offset, out.mdat.contentSize))
    BY <1>1, <1>9 DEF Closed, FlushCurrentMdat, OutType, o
  <2>3. \A e \in out'.disk : ~IsSample(e)
    BY <1>3, <1>4, <2>1, <2>2 DEF Put, IsSample, MdatBox
  <2>4. BoxesTile'
    BY <2>3 DEF BoxesTile, HasSamples, IsSample
  <2>5. SamplesReadable'
    <3> SUFFICES ASSUME NEW t \in 1..Len(tracks), NEW k \in 1..Len(tracks[t].samples)
                 PROVE  FALSE
      BY <1>4 DEF SamplesReadable
    <3>1. Located(t, k) \in out.disk /\ IsSample(Located(t, k))
      BY DEF Recorded, Located, SampleBytes, IsSample
    <3> QED
      BY <2>1, <3>1
  <2> QED
    BY <2>4, <2>5
<1> QED
  BY <1>7, <1>8, <1>9

LEMMA LayoutInit == Init => LayoutInv
<1> SUFFICES ASSUME Init PROVE LayoutInv
  OBVIOUS
<1>1. TypeOK
  BY TypeInit
<1> QED
  BY <1>1 DEF Init, LayoutInv, FreshBuilder, Writing, SamplesReadable, BoxesTile

(* A sample is written whole or, when something throws, the layout of the   *)
(* flushed chunks is left as it was.                                         *)
LEMMA WriteStep ==
  ASSUME LayoutInv, NEW t, NEW size, NEW step \in PtsSteps, WriteSampleData(t, size, step)
  PROVE  LayoutInv' /\ SamplesKept(out.disk, out'.disk)
<1> DEFINE o == Prepared(out, size)
<1>1. TypeOK /\ TypeOK' /\ out \in OutType /\ out' \in OutType
  BY TypeStep DEF LayoutInv, TypeOK, Next, CanWriteTo, WriteSampleData
<1>2. CanWriteTo(t, size) /\ Layout(out, 0) /\ Recorded
  BY DEF WriteSampleData, LayoutInv, CanWriteTo
<1>3. /\ t \in 0..Len(tracks) /\ size \in Nat /\ size > 0
      /\ NextIndex(t) \in Nat /\ IsAudio(t) \in BOOLEAN /\ step \in Nat /\ t \in Nat
  BY <1>1, <1>2, CallTypes, SizeAssumption
<1>4. o \in OutType /\ Layout(o, size) /\ SamplesKept(out.disk, o.disk)
  BY <1>1, <1>2, <1>3, PreparedType, PreparedLayout
<1>5. BytesWritten(size, IsAudio(t)) = size
  BY <1>2, WholeSample
<1>6. /\ out' = AppendSample(o, size, IsAudio(t), t, NextIndex(t))
      /\ tracks' = MovieWithSample(t, o.dataOffset, size, step)
      /\ phase' = phase /\ error' = error
  BY DEF WriteSampleData
<1> HIDE DEF o
<1>7. /\ Layout(out', 0)
      /\ SamplesKept(o.disk, out'.disk)
      /\ SampleBytes(o.dataOffset, size, t, NextIndex(t)) \in out'.disk
  BY <1>3, <1>4, <1>5, <1>6, AppendSampleLayout
<1>8. SamplesKept(out.disk, out'.disk)
  BY <1>4, <1>7 DEF SamplesKept
<1>9. o.dataOffset \in Nat
  BY <1>4 DEF OutType
<1>10. Recorded'
  BY <1>1, <1>2, <1>3, <1>6, <1>7, <1>8, <1>9, RecordedWrite
<1>11. Guarded(out')
  BY <1>1, <1>7, LayoutGuards
<1>12. phase' = "open"
  BY <1>2, <1>6 DEF CanWriteTo, Writing
<1> QED
  BY <1>1, <1>7, <1>8, <1>10, <1>11, <1>12 DEF LayoutInv, SamplesReadable, BoxesTile

LEMMA FailStep ==
  ASSUME LayoutInv, NEW t, NEW size, NEW step \in PtsSteps, WriteFails(t, size, step)
  PROVE  LayoutInv' /\ SamplesKept(out.disk, out'.disk)
<1>1. TypeOK /\ TypeOK' /\ out \in OutType /\ out' \in OutType
  BY TypeStep DEF LayoutInv, TypeOK, Next, CanWriteTo, WriteFails
<1>2. CanWriteTo(t, size) /\ Layout(out, 0) /\ phase' = "open" /\ error' = TRUE
  BY DEF WriteFails, LayoutInv, CanWriteTo, Writing
<1>3. size \in Nat /\ t \in Nat
  BY <1>1, <1>2, CallTypes
<1>4. Guarded(out') /\ SamplesKept(out.disk, out'.disk)
  <2>1. CASE OpenMdatThrows
    <3>1. /\ out'.disk = out.disk /\ out'.position = out.position
          /\ out'.writeNewMdat = TRUE /\ out'.mdat.contentSize = 0
      BY <1>1, <2>1 DEF OpenMdatThrows, OutType
    <3> QED
      BY <1>2, <3>1 DEF Guarded, SamplesKept, Layout, Frontier
  <2>2. CASE FlushThrows(size)
    <3> DEFINE p == OpenMdat(out)
               o == CountSample(p, size)
    <3>1. p \in OutType /\ Layout(p, 0) /\ ~p.writeNewMdat /\ SamplesKept(out.disk, p.disk)
      BY <1>1, <1>2, OpenMdatType, OpenMdatLayout
    <3> HIDE DEF p
    <3>2. o \in OutType /\ Layout(o, size) /\ ~o.writeNewMdat /\ o.disk = p.disk
      BY <1>3, <3>1, CountSampleType, CountSampleLayout
    <3>3. out' = [o EXCEPT !.position = o.mdat.offset]
      BY <2>2 DEF FlushThrows, o, p
    <3> HIDE DEF o
    <3>4. /\ out'.disk = o.disk /\ out'.mdat = o.mdat /\ ~out'.writeNewMdat
          /\ out'.position = o.mdat.offset /\ o.mdat.offset \in Nat
      BY <3>2, <3>3 DEF OutType
    <3>5. Guarded(o)
      BY <1>3, <3>2, LayoutGuards
    <3> QED
      BY <3>1, <3>2, <3>4, <3>5 DEF Guarded, SamplesKept
  <2>3. CASE AppendThrows(t, size, step)
    <3> DEFINE o == Prepared(out, size)
    <3>1. o \in OutType /\ Layout(o, size) /\ SamplesKept(out.disk, o.disk)
      BY <1>1, <1>2, <1>3, PreparedType, PreparedLayout
    <3>2. PICK written \in Nat : out' = [o EXCEPT !.position = @ + written]
      BY <2>3, Sizes DEF AppendThrows
    <3> HIDE DEF o
    <3>3. /\ out'.disk = o.disk /\ out'.mdat = o.mdat /\ out'.writeNewMdat = o.writeNewMdat
          /\ out'.position = o.position + written /\ o.position \in Nat
          /\ o.mdat.offset \in Nat /\ o.disk \in SUBSET Extent
      BY <3>1, <3>2 DEF OutType
    <3>4. Guarded(o)
      BY <1>3, <3>1, LayoutGuards
    <3>5. \A e \in o.disk : e.at \in Nat /\ e.len \in Nat
      BY <3>3 DEF Extent
    <3>6. o.writeNewMdat \in BOOLEAN
      BY <3>1 DEF OutType
    <3>7. CASE o.writeNewMdat
      <4>1. \A e \in out'.disk : IsSample(e) => e.at + e.len <= out'.position
        BY <3>2, <3>3, <3>4, <3>5, <3>7 DEF Guarded
      <4> QED
        BY <3>1, <3>3, <3>4, <3>7, <4>1 DEF Guarded, SamplesKept
    <3>8. CASE ~o.writeNewMdat
      <4>1. out'.mdat.offset <= out'.position
        BY <3>2, <3>3, <3>4, <3>8 DEF Guarded
      <4> QED
        BY <3>1, <3>3, <3>4, <3>8, <4>1 DEF Guarded, SamplesKept
    <3> QED
      BY <3>7, <3>8
  <2> QED
    BY <2>1, <2>2, <2>3 DEF WriteFails
<1> QED
  BY <1>1, <1>2, <1>4 DEF LayoutInv, Writing, SamplesReadable, BoxesTile

LEMMA LayoutStep == LayoutInv /\ [Next]_vars => LayoutInv'
<1> SUFFICES ASSUME LayoutInv, [Next]_vars PROVE LayoutInv'
  OBVIOUS
<1>1. TypeOK /\ TypeOK' /\ out \in OutType /\ out' \in OutType
  BY TypeStep DEF LayoutInv, TypeOK
<1>2. CASE CreateMovie
  <2>1. FreshBuilder /\ phase' = "open" /\ error' = error /\ tracks' = tracks
    BY <1>2 DEF CreateMovie, LayoutInv
  <2>2. /\ out'.disk = Put({}, FtypBox) /\ out'.position = FtypSize
        /\ out'.dataOffset = FtypSize /\ out'.writeNewMdat
    BY <1>1, <1>2, <2>1, Sizes DEF CreateMovie, FreshBuilder, OutType
  <2>3. out'.disk = {FtypBox}
    BY <2>2 DEF Put
  <2>4. Layout(out', 0)
    BY <1>1, <2>1, <2>2, <2>3, FirstLayout
  <2>5. Guarded(out')
    BY <1>1, <2>4, LayoutGuards
  <2>6. Recorded'
    BY <2>1 DEF Recorded, FreshBuilder
  <2> QED
    BY <1>1, <2>1, <2>4, <2>5, <2>6 DEF LayoutInv, SamplesReadable, BoxesTile
<1>3. ASSUME NEW isAudio \in BOOLEAN, AddTrack(isAudio) PROVE LayoutInv'
  <2>1. /\ tracks' = Append(tracks, NewTrack(isAudio)) /\ tracks \in Seq(TrackType)
        /\ phase = "open" /\ phase' = "open" /\ out' = out /\ error' = error /\ ~error
    BY <1>1, <1>3 DEF AddTrack, Writing, TypeOK
  <2>2. Layout(out, 0) /\ Recorded /\ Guarded(out)
    BY <2>1 DEF LayoutInv, Writing
  <2>3. Recorded'
    <3>1. \A t \in 1..Len(tracks) : tracks'[t] = tracks[t]
      BY <2>1
    <3>2. Len(tracks') = Len(tracks) + 1 /\ tracks'[Len(tracks) + 1] = NewTrack(isAudio)
      BY <2>1
    <3>3. tracks'[Len(tracks) + 1].samples = << >>
      BY <3>2 DEF NewTrack
    <3>4. SUFFICES ASSUME NEW t \in 1..Len(tracks'), NEW k \in 1..Len(tracks'[t].samples)
                   PROVE  Located(t, k)' \in out'.disk
      BY DEF Recorded
    <3>5. t \in 1..Len(tracks)
      BY <2>1, <3>2, <3>3, <3>4
    <3>6. Located(t, k) \in out.disk
      BY <2>2, <3>1, <3>4, <3>5 DEF Recorded
    <3> QED
      BY <2>1, <3>1, <3>5, <3>6 DEF Located
  <2> QED
    BY <1>1, <2>1, <2>2, <2>3 DEF LayoutInv, SamplesReadable, BoxesTile
<1>4. ASSUME NEW t, NEW size, NEW step \in PtsSteps, WriteSampleData(t, size, step)
      PROVE  LayoutInv'
  BY <1>4, WriteStep
<1>5. ASSUME NEW t, NEW size, NEW step \in PtsSteps, WriteFails(t, size, step)
      PROVE  LayoutInv'
  BY <1>5, FailStep
<1>6. CASE ConversionFails
  BY <1>1, <1>6 DEF ConversionFails, LayoutInv, Writing, SamplesReadable, BoxesTile
<1>7. CASE FinishMovie
  <2>1. phase = "open" /\ phase' = "closed" /\ error' = error
    BY <1>7 DEF FinishMovie
  <2>2. CASE error
    BY <1>1, <2>1, <2>2 DEF LayoutInv, Writing, SamplesReadable, BoxesTile
  <2>3. CASE ~error
    <3>1. SamplesReadable' /\ BoxesTile'
      BY <1>7, <2>1, <2>3, FinishReadable DEF LayoutInv, Writing
    <3> QED
      BY <1>1, <2>1, <3>1 DEF LayoutInv, Writing
  <2> QED
    BY <2>2, <2>3
<1>8. CASE FinishFails
  BY <1>1, <1>8 DEF FinishFails, LayoutInv, Writing, SamplesReadable, BoxesTile
<1>9. CASE UNCHANGED vars
  BY <1>1, <1>9 DEF vars, LayoutInv, FreshBuilder, Writing, Recorded, Located,
     SamplesReadable, BoxesTile, HasSamples, Boxes
<1> QED
  BY <1>2, <1>3, <1>4, <1>5, <1>6, <1>7, <1>8, <1>9 DEF Next

(* A flushed chunk survives every step, those that throw included. *)
LEMMA FlushedStep ==
  LayoutInv /\ [Next]_vars =>
    \A e \in out.disk :
      (e.box = "sample" /\ (out.writeNewMdat \/ e.at < out.mdat.offset)) => e \in out'.disk
<1> SUFFICES ASSUME LayoutInv, [Next]_vars, NEW e \in out.disk, IsSample(e),
                    out.writeNewMdat \/ e.at < out.mdat.offset
             PROVE  e \in out'.disk
  BY DEF IsSample
<1>1. out \in OutType /\ out' \in OutType
  BY TypeStep DEF LayoutInv, TypeOK
<1>2. CASE CreateMovie
  BY <1>2 DEF CreateMovie, LayoutInv, FreshBuilder
<1>3. ASSUME NEW isAudio \in BOOLEAN, AddTrack(isAudio) PROVE e \in out'.disk
  BY <1>3 DEF AddTrack
<1>4. ASSUME NEW t, NEW size, NEW step \in PtsSteps,
             WriteSampleData(t, size, step) \/ WriteFails(t, size, step)
      PROVE  e \in out'.disk
  BY <1>4, WriteStep, FailStep DEF SamplesKept
<1>5. CASE ConversionFails
  BY <1>5 DEF ConversionFails
<1>6. ASSUME phase = "open" PROVE e \in Closed(out).disk
  <2> DEFINE header == MdatBox(out.mdat.offset, out.mdat.contentSize)
  <2>1. CASE out.mdat.contentSize = 0
    BY <2>1 DEF Closed
  <2>2. CASE out.mdat.contentSize # 0
    <3>1. ~out.writeNewMdat /\ e.at + e.len <= out.mdat.offset
      BY <1>6, <2>2 DEF LayoutInv, Guarded
    <3>2. header.at = out.mdat.offset /\ out.mdat.offset \in Nat
          /\ e.at \in Nat /\ e.len \in Nat
      BY <1>1 DEF MdatBox, OutType, Extent
    <3>3. ~Overlap(e, header)
      BY <3>1, <3>2 DEF Overlap
    <3>4. Closed(out).disk = Put(out.disk, header)
      BY <1>1, <2>2 DEF Closed, FlushCurrentMdat, OutType
    <3> QED
      BY <3>3, <3>4 DEF Put
  <2> QED
    BY <2>1, <2>2
<1>7. CASE FinishMovie
  <2> DEFINE moov == MoovBox(Closed(out).position)
  <2>1. Closed(out) \in OutType
    BY <1>1, FlushType DEF Closed
  <2>2. Closed(out).position = out.position /\ out.position \in Nat
    BY <1>1 DEF Closed, FlushCurrentMdat, OutType
  <2>3. e.at \in Nat /\ e.len \in Nat /\ out.mdat.offset \in Nat
    BY <1>1 DEF OutType, Extent
  <2>4. e.at + e.len <= out.position
    BY <1>7, <2>2, <2>3 DEF FinishMovie, LayoutInv, Guarded
  <2>5. moov.at = out.position
    BY <2>2 DEF MoovBox
  <2>6. ~Overlap(e, moov)
    BY <2>2, <2>3, <2>4, <2>5 DEF Overlap
  <2>7. out'.disk = Put(Closed(out).disk, moov)
    BY <1>7, <2>1 DEF FinishMovie, OutType
  <2> QED
    BY <1>6, <1>7, <2>6, <2>7 DEF FinishMovie, Put
<1>8. CASE FinishFails
  BY <1>1, <1>6, <1>8 DEF FinishFails, OutType
<1>9. CASE UNCHANGED vars
  BY <1>9 DEF vars
<1> QED
  BY <1>2, <1>3, <1>4, <1>5, <1>7, <1>8, <1>9 DEF Next

(* Layout and record agree in every state, until an exception, and what an   *)
(* exception leaves behind is still guarded.                                 *)
THEOREM LayoutCorrect == Spec => []LayoutInv
  BY LayoutInit, LayoutStep, PTL DEF Spec

(* Once closed without an error, the file holds every recorded sample whole, *)
(* at its offset, in the payload of a chunk.                                 *)
THEOREM SamplesAreReadable == Spec => []SamplesReadable
<1>1. LayoutInv => SamplesReadable
  BY DEF LayoutInv
<1> QED
  BY <1>1, LayoutCorrect, PTL

(* A closed file with a sample is one chain of boxes from ftyp to moov. *)
THEOREM BoxesAreTiled == Spec => []BoxesTile
<1>1. LayoutInv => BoxesTile
  BY DEF LayoutInv
<1> QED
  BY <1>1, LayoutCorrect, PTL

(* The offsets put in the tables are those the channel writes at. *)
THEOREM OffsetsArePositions == Spec => []OffsetIsPosition
<1>1. LayoutInv => OffsetIsPosition
  BY DEF LayoutInv, Layout, Frontier, OffsetIsPosition
<1> QED
  BY <1>1, LayoutCorrect, PTL

(* No step, a failing one included, overwrites a sample of a flushed chunk. *)
THEOREM FlushedSamplesAreKept == Spec => FlushedSamplesKept
<1>1. LayoutInv /\ [Next]_vars =>
        [\A e \in out.disk :
           (e.box = "sample" /\ (out.writeNewMdat \/ e.at < out.mdat.offset))
             => e \in out'.disk]_vars
  BY FlushedStep
<1> QED
  BY <1>1, LayoutCorrect, PTL DEF Spec, FlushedSamplesKept

-----------------------------------------------------------------------------
(* The size of the chunks. *)

(* What ChunksBounded says, of any contents of the file. *)
Bounded(disk) ==
  \A b \in disk, e \in disk, f \in disk :
    (/\ IsSample(e) /\ IsSample(f)
     /\ InPayload(e, b) /\ InPayload(f, b) /\ e.at < f.at)
      => e.at + e.len - b.at < ChunkLimit

(* The samples from here on end within the limit of a chunk that begins here. *)
WithinLimit(disk, at) ==
  \A e \in disk : (IsSample(e) /\ e.at >= at + HeaderSize) => e.at + e.len - at < ChunkLimit

(* No chunk claims more than has been written or announced, and none but the *)
(* one in use anything beyond the beginning of that one.                     *)
ClaimsEnd(o, pending) ==
  \A b \in o.disk : b.box = "mdat" =>
    IF o.writeNewMdat THEN b.at + b.size <= o.position + pending
    ELSE b.at + b.size <= o.mdat.offset \/ b = MdatBox(o.mdat.offset, 0)

(* The chunk that has just been closed, for a sample that is still to be     *)
(* written, was within the limit without it.                                 *)
ClosedWithin(o) ==
  o.writeNewMdat => \A b \in o.disk :
    (b.box = "mdat" /\ b.at + b.size > o.position) => WithinLimit(o.disk, b.at)

(* writedSinceLastMdat counts at least what the chunk in use contains. *)
Chunks(o, pending) ==
  /\ Bounded(o.disk)
  /\ ClaimsEnd(o, pending)
  /\ ClosedWithin(o)
  /\ ~o.writeNewMdat => /\ WithinLimit(o.disk, o.mdat.offset)
                        /\ HeaderSize + o.mdat.contentSize <= o.sinceLastMdat

(* A chunk in use is not full, except between the stages of one call. *)
NotFull(o) == ~o.writeNewMdat => o.sinceLastMdat < ChunkLimit

(* Whatever an exception leaves behind, finishMovie may close it. *)
ChunksInv ==
  /\ LayoutInv
  /\ ChunksBounded
  /\ Writing => Chunks(out, 0) /\ NotFull(out)
  /\ (phase = "open" /\ out.mdat.contentSize # 0) => WithinLimit(out.disk, out.mdat.offset)

LEMMA MdatFields ==
  ASSUME NEW at \in Nat, NEW content \in Nat
  PROVE  /\ MdatBox(at, content) \in Extent
         /\ MdatBox(at, content).at = at
         /\ MdatBox(at, content).len = HeaderSize
         /\ MdatBox(at, content).size = HeaderSize + content
         /\ MdatBox(at, content).box = "mdat"
         /\ ~IsSample(MdatBox(at, content))
  BY BoxTypes DEF MdatBox, IsSample

(* Writing anything but a sample adds no sample. *)
LEMMA WithinKept ==
  ASSUME NEW disk, NEW x, NEW at, ~IsSample(x), WithinLimit(disk, at)
  PROVE  WithinLimit(Put(disk, x), at)
  BY DEF Put, WithinLimit

LEMMA BoundedKept ==
  ASSUME NEW disk, NEW x, ~IsSample(x), x.box # "mdat", Bounded(disk)
  PROVE  Bounded(Put(disk, x))
  BY DEF Put, Bounded, InPayload

(* A header may claim a payload whose samples are within the limit. *)
LEMMA BoundedHeader ==
  ASSUME NEW disk \in SUBSET Extent, NEW at \in Nat, NEW content \in Nat,
         Bounded(disk), WithinLimit(disk, at)
  PROVE  Bounded(Put(disk, MdatBox(at, content)))
<1> DEFINE header == MdatBox(at, content)
           after == Put(disk, header)
<1>1. header.at = at /\ ~IsSample(header)
  BY MdatFields
<1>2. after \subseteq disk \cup {header}
  BY DEF Put
<1> HIDE DEF header, after
<1> SUFFICES ASSUME NEW b \in after, NEW e \in after, NEW f \in after,
                    IsSample(e), IsSample(f), InPayload(e, b), InPayload(f, b), e.at < f.at
             PROVE  e.at + e.len - b.at < ChunkLimit
  BY DEF Bounded, after, header
<1>3. e \in disk /\ f \in disk
  BY <1>1, <1>2
<1>4. CASE b = header
  BY <1>1, <1>3, <1>4 DEF WithinLimit, InPayload
<1>5. CASE b \in disk
  BY <1>3, <1>5 DEF Bounded
<1> QED
  BY <1>2, <1>4, <1>5

LEMMA OpenMdatChunks ==
  ASSUME NEW o \in OutType, Layout(o, 0), Chunks(o, 0)
  PROVE  Chunks(OpenMdat(o), 0)
<1>1. CASE ~o.writeNewMdat
  BY <1>1 DEF OpenMdat
<1>2. CASE o.writeNewMdat
  <2> DEFINE header == MdatBox(o.position, 0)
             p == OpenMdat(o)
  <2>1. /\ p.disk = Put(o.disk, header)
        /\ p.position = o.position + HeaderSize
        /\ p.mdat = [offset |-> o.dataOffset, contentSize |-> 0]
        /\ p.sinceLastMdat = o.sinceLastMdat + HeaderSize
        /\ p.writeNewMdat = FALSE
    BY <1>2 DEF OpenMdat, OutType
  <2>2. /\ o.disk \in SUBSET Extent /\ o.position \in Nat /\ o.sinceLastMdat \in Nat
        /\ o.dataOffset = o.position
    BY DEF OutType, Layout, Frontier
  <2>3. p.mdat.offset = o.position /\ p.mdat.contentSize = 0
    BY <2>1, <2>2
  <2>4. header \in Extent /\ header.at = o.position /\ ~IsSample(header)
    BY <2>2, MdatFields
  <2>5. \A e \in o.disk : e.at \in Nat /\ e.len \in Nat /\ e.len > 0 /\ e.at + e.len <= o.position
    BY <2>2 DEF Layout, Frontier, Extent
  <2>6. WithinLimit(o.disk, o.position)
    BY <2>2, <2>5, Sizes DEF WithinLimit
  <2>7. Bounded(p.disk) /\ WithinLimit(p.disk, o.position)
    BY <2>1, <2>2, <2>4, <2>6, BoundedHeader, WithinKept DEF Chunks
  <2>8. ClaimsEnd(p, 0)
    <3> SUFFICES ASSUME NEW b \in p.disk, b.box = "mdat"
                 PROVE  b.at + b.size <= p.mdat.offset \/ b = MdatBox(p.mdat.offset, 0)
      BY <2>1 DEF ClaimsEnd
    <3>1. b \in o.disk \/ b = header
      BY <2>1 DEF Put
    <3>2. ASSUME b \in o.disk PROVE b.at + b.size <= o.position
      <4>1. b.at + b.size <= o.position + 0
        BY <1>2, <3>2 DEF Chunks, ClaimsEnd
      <4> QED
        BY <2>2, <4>1
    <3> QED
      BY <2>3, <3>1, <3>2
  <2>9. HeaderSize + p.mdat.contentSize <= p.sinceLastMdat
    BY <2>1, <2>2, <2>3, Sizes
  <2> HIDE DEF p
  <2>10. ClosedWithin(p)
    BY <2>1 DEF ClosedWithin
  <2> QED
    BY <2>3, <2>7, <2>8, <2>9, <2>10 DEF Chunks, p
<1> QED
  BY <1>1, <1>2

LEMMA CountSampleChunks ==
  ASSUME NEW o \in OutType, ~o.writeNewMdat, Chunks(o, 0), NEW size \in Nat
  PROVE  Chunks(CountSample(o, size), size)
<1> DEFINE p == CountSample(o, size)
<1>1. /\ p.disk = o.disk
      /\ p.writeNewMdat = FALSE
      /\ p.mdat.offset = o.mdat.offset
      /\ p.mdat.contentSize = o.mdat.contentSize + size
      /\ p.sinceLastMdat = o.sinceLastMdat + size
  BY DEF CountSample, OutType
<1>2. o.mdat.contentSize \in Nat /\ o.sinceLastMdat \in Nat
  BY DEF OutType
<1> HIDE DEF p
<1>3. HeaderSize + p.mdat.contentSize <= p.sinceLastMdat
  BY <1>1, <1>2, Sizes DEF Chunks
<1>4. ClaimsEnd(p, size)
  BY <1>1 DEF Chunks, ClaimsEnd
<1>5. ClosedWithin(p)
  BY <1>1 DEF ClosedWithin
<1> QED
  BY <1>1, <1>3, <1>4, <1>5 DEF Chunks, p

(* A chunk that is closed claims up to the end of the announced sample. *)
LEMMA FlushIfFullChunks ==
  ASSUME NEW o \in OutType, NEW pending \in Nat, Layout(o, pending), ~o.writeNewMdat,
         Chunks(o, pending)
  PROVE  Chunks(FlushIfFull(o), pending) /\ NotFull(FlushIfFull(o))
<1>1. CASE o.sinceLastMdat < ChunkLimit
  BY <1>1 DEF FlushIfFull, NotFull
<1>2. CASE ~(o.sinceLastMdat < ChunkLimit)
  <2> DEFINE p == FlushIfFull(o)
             header == MdatBox(o.mdat.offset, o.mdat.contentSize)
             stale == MdatBox(o.mdat.offset, 0)
  <2>1. /\ p.disk = Put(o.disk, header)
        /\ p.position = o.position
        /\ p.writeNewMdat = TRUE
    BY <1>2 DEF FlushIfFull, FlushCurrentMdat, OutType
  <2>2. /\ o.disk \in SUBSET Extent /\ o.position \in Nat
        /\ o.mdat.offset \in Nat /\ o.mdat.contentSize \in Nat
    BY DEF OutType
  <2>3. /\ header.at = o.mdat.offset /\ header.size = HeaderSize + o.mdat.contentSize
        /\ ~IsSample(header)
        /\ stale.at = o.mdat.offset /\ stale.size = HeaderSize /\ stale.len = HeaderSize
    <3>1. /\ header.at = o.mdat.offset /\ header.size = HeaderSize + o.mdat.contentSize
          /\ ~IsSample(header)
      BY <2>2, MdatFields
    <3>2. /\ stale.at = o.mdat.offset /\ stale.size = HeaderSize + 0 /\ stale.len = HeaderSize
      BY <2>2, MdatFields
    <3> QED
      BY <3>1, <3>2, Sizes
  <2>4. /\ o.mdat.offset + HeaderSize + o.mdat.contentSize = o.position + pending
        /\ stale \in o.disk
    BY DEF Layout, OpenChunk
  <2>5. o.mdat.offset + HeaderSize <= o.position
    BY <2>3, <2>4 DEF Layout, Frontier
  <2>6. WithinLimit(o.disk, o.mdat.offset) /\ Bounded(o.disk)
    BY DEF Chunks
  <2>7. Bounded(p.disk)
    BY <2>1, <2>2, <2>6, BoundedHeader
  <2>8. WithinLimit(p.disk, o.mdat.offset)
    BY <2>1, <2>3, <2>6, WithinKept
  <2>9. \A b \in p.disk : b.box = "mdat" =>
          \/ b.at = o.mdat.offset /\ b.at + b.size <= o.position + pending
          \/ b.at + b.size <= o.mdat.offset
    <3> SUFFICES ASSUME NEW b \in p.disk, b.box = "mdat"
                 PROVE  \/ b.at = o.mdat.offset /\ b.at + b.size <= o.position + pending
                        \/ b.at + b.size <= o.mdat.offset
      OBVIOUS
    <3>1. b \in o.disk \/ b = header
      BY <2>1 DEF Put
    <3>2. CASE b = header
      BY <2>2, <2>3, <2>4, <3>2, Sizes
    <3>3. CASE b \in o.disk
      <4>1. b.at + b.size <= o.mdat.offset \/ b = stale
        BY <3>3 DEF Chunks, ClaimsEnd
      <4>2. stale.at + stale.size <= o.position + pending
        BY <2>2, <2>3, <2>5, Sizes
      <4> QED
        BY <2>3, <4>1, <4>2
    <3> QED
      BY <3>1, <3>2, <3>3
  <2> HIDE DEF p
  <2>10. \A b \in p.disk : b \in Extent
    BY <2>1, <2>2, MdatFields DEF Put
  <2>11. ClaimsEnd(p, pending)
    <3>1. \A b \in p.disk : b.at \in Nat /\ b.size \in Nat
      BY <2>10 DEF Extent
    <3>2. \A b \in p.disk : b.box = "mdat" => b.at + b.size <= o.position + pending
      BY <2>2, <2>5, <2>9, <3>1, Sizes
    <3> QED
      BY <2>1, <3>2 DEF ClaimsEnd
  <2>12. ClosedWithin(p)
    <3>1. \A b \in p.disk : b.at \in Nat /\ b.size \in Nat
      BY <2>10 DEF Extent
    <3>2. \A b \in p.disk : (b.box = "mdat" /\ b.at + b.size > o.position)
             => b.at = o.mdat.offset
      BY <2>2, <2>5, <2>9, <3>1, Sizes
    <3> QED
      BY <2>1, <2>8, <3>2 DEF ClosedWithin
  <2> QED
    BY <2>1, <2>7, <2>11, <2>12 DEF Chunks, NotFull, p
<1> QED
  BY <1>1, <1>2

LEMMA PreparedChunks ==
  ASSUME NEW o \in OutType, Layout(o, 0), Chunks(o, 0), NEW size \in Nat
  PROVE  Chunks(Prepared(o, size), size) /\ NotFull(Prepared(o, size))
<1> DEFINE p == OpenMdat(o)
           q == CountSample(p, size)
<1>1. p \in OutType /\ q \in OutType
  BY OpenMdatType, CountSampleType
<1>2. Layout(p, 0) /\ ~p.writeNewMdat /\ Chunks(p, 0)
  BY OpenMdatLayout, OpenMdatChunks
<1> HIDE DEF p
<1>3. Layout(q, size) /\ ~q.writeNewMdat /\ Chunks(q, size)
  BY <1>1, <1>2, CountSampleLayout, CountSampleChunks
<1> HIDE DEF q
<1> QED
  BY <1>1, <1>3, FlushIfFullChunks DEF Prepared, p, q

(* The sample lies in the chunk just closed or in the one in use, after all  *)
(* that is there already.                                                    *)
LEMMA AppendSampleChunks ==
  ASSUME NEW o \in OutType, NEW size \in Nat, size > 0, Layout(o, size), Chunks(o, size),
         NotFull(o), NEW isAudio \in BOOLEAN, BytesWritten(size, isAudio) = size,
         NEW t \in Nat, NEW k \in Nat
  PROVE  Chunks(AppendSample(o, size, isAudio, t, k), 0)
         /\ NotFull(AppendSample(o, size, isAudio, t, k))
<1> DEFINE p == AppendSample(o, size, isAudio, t, k)
           new == SampleBytes(o.position, size, t, k)
<1>1. /\ o.position \in Nat /\ o.mdat.offset \in Nat /\ o.mdat.contentSize \in Nat
      /\ o.sinceLastMdat \in Nat /\ o.disk \in SUBSET Extent /\ new \in Extent
  BY BoxTypes DEF OutType
<1>2. new.at = o.position /\ new.len = size /\ new.box = "sample"
  BY DEF SampleBytes
<1>3. Put(o.disk, new) = o.disk \cup {new}
  BY <1>1, <1>2, PutAtEnd DEF Layout, Frontier
<1>4. /\ p.disk = o.disk \cup {new}
      /\ p.position = o.position + size
      /\ p.sinceLastMdat = o.sinceLastMdat
      /\ p.writeNewMdat = o.writeNewMdat
      /\ p.mdat = o.mdat
  BY <1>3 DEF AppendSample, OutType
<1> HIDE DEF p, new
<1>5. \A e \in o.disk : /\ e.at \in Nat /\ e.len \in Nat /\ e.size \in Nat
                        /\ e.len > 0 /\ e.at + e.len <= o.position
  BY <1>1 DEF Extent, Layout, Frontier
<1>6. ~o.writeNewMdat => o.mdat.offset + HeaderSize <= o.position
  <2> SUFFICES ASSUME ~o.writeNewMdat PROVE o.mdat.offset + HeaderSize <= o.position
    OBVIOUS
  <2> DEFINE stale == MdatBox(o.mdat.offset, 0)
  <2>1. stale \in o.disk
    BY DEF Layout, OpenChunk
  <2>2. stale.at = o.mdat.offset /\ stale.len = HeaderSize
    BY <1>1, MdatFields
  <2> HIDE DEF stale
  <2> QED
    BY <1>5, <2>1, <2>2
<1>7. ASSUME NEW b \in o.disk, InPayload(new, b)
      PROVE  o.writeNewMdat /\ b.box = "mdat" /\ b.at + b.size > o.position
  <2>1. b.box = "mdat" /\ b.at + b.size > o.position
    BY <1>1, <1>2, <1>5, <1>7 DEF InPayload
  <2>2. ASSUME ~o.writeNewMdat PROVE FALSE
    <3>1. b.at + b.size <= o.mdat.offset \/ b = MdatBox(o.mdat.offset, 0)
      BY <2>1, <2>2 DEF Chunks, ClaimsEnd
    <3>2. CASE b.at + b.size <= o.mdat.offset
      BY <1>1, <1>5, <1>6, <2>1, <2>2, <3>2, Sizes
    <3>3. CASE b = MdatBox(o.mdat.offset, 0)
      <4>1. b.at = o.mdat.offset /\ b.size = HeaderSize + 0
        BY <1>1, <3>3, MdatFields
      <4> QED
        BY <1>1, <1>6, <2>1, <2>2, <4>1, Sizes
    <3> QED
      BY <3>1, <3>2, <3>3
  <2> QED
    BY <2>1, <2>2
<1>8. Bounded(p.disk)
  <2> SUFFICES ASSUME NEW b \in p.disk, NEW e \in p.disk, NEW f \in p.disk,
                      IsSample(e), IsSample(f), InPayload(e, b), InPayload(f, b), e.at < f.at
               PROVE  e.at + e.len - b.at < ChunkLimit
    BY DEF Bounded
  <2>1. b \in o.disk
    BY <1>2, <1>4 DEF InPayload
  <2>2. e \in o.disk
    BY <1>1, <1>2, <1>4, <1>5
  <2>3. CASE f \in o.disk
    BY <2>1, <2>2, <2>3 DEF Chunks, Bounded
  <2>4. CASE f = new
    <3>1. WithinLimit(o.disk, b.at)
      BY <1>7, <2>1, <2>4 DEF Chunks, ClosedWithin
    <3> QED
      BY <2>2, <3>1 DEF WithinLimit, InPayload
  <2> QED
    BY <1>4, <2>3, <2>4
<1>9. \A b \in p.disk : b.box = "mdat" => b \in o.disk
  BY <1>2, <1>4
<1>10. o.writeNewMdat => \A b \in p.disk : b.box = "mdat" => b.at + b.size <= p.position
  BY <1>4, <1>9 DEF Chunks, ClaimsEnd
<1>11. ClaimsEnd(p, 0)
  <2>1. p.position + 0 = p.position
    BY <1>1, <1>4
  <2> QED
    BY <1>4, <1>9, <1>10, <2>1 DEF Chunks, ClaimsEnd
<1>12. ClosedWithin(p)
  <2>1. ASSUME o.writeNewMdat, NEW b \in p.disk, b.box = "mdat", b.at + b.size > p.position
        PROVE  FALSE
    <3>1. b.at + b.size \in Nat /\ p.position \in Nat
      BY <1>1, <1>4, <1>5, <1>9, <2>1
    <3> QED
      BY <1>10, <2>1, <3>1
  <2> QED
    BY <1>4, <2>1 DEF ClosedWithin
<1>13. ASSUME ~o.writeNewMdat PROVE WithinLimit(p.disk, o.mdat.offset)
  <2>1. WithinLimit(o.disk, o.mdat.offset)
    BY <1>13 DEF Chunks
  <2>2. o.mdat.offset + HeaderSize + o.mdat.contentSize = o.position + size
    BY <1>13 DEF Layout, OpenChunk
  <2>3. HeaderSize + o.mdat.contentSize <= o.sinceLastMdat /\ o.sinceLastMdat < ChunkLimit
    BY <1>13 DEF Chunks, NotFull
  <2>4. new.at + new.len - o.mdat.offset < ChunkLimit
    BY <1>1, <1>2, <2>2, <2>3, Sizes
  <2> QED
    BY <1>4, <2>1, <2>4 DEF WithinLimit
<1> QED
  BY <1>4, <1>8, <1>11, <1>12, <1>13 DEF Chunks, NotFull, p

(* Whatever finishMovie closes, and wherever it then writes the moov box. *)
LEMMA ClosedChunks ==
  ASSUME NEW o \in OutType, Bounded(o.disk),
         o.mdat.contentSize # 0 => WithinLimit(o.disk, o.mdat.offset)
  PROVE  Bounded(Closed(o).disk)
<1>1. CASE o.mdat.contentSize = 0
  BY <1>1 DEF Closed
<1>2. CASE o.mdat.contentSize # 0
  <2>1. Closed(o).disk = Put(o.disk, MdatBox(o.mdat.offset, o.mdat.contentSize))
    BY <1>2 DEF Closed, FlushCurrentMdat, OutType
  <2>2. o.mdat.offset \in Nat /\ o.mdat.contentSize \in Nat /\ o.disk \in SUBSET Extent
    BY DEF OutType
  <2> QED
    BY <1>2, <2>1, <2>2, BoundedHeader
<1> QED
  BY <1>1, <1>2

LEMMA ChunksInit == Init => ChunksInv
<1> SUFFICES ASSUME Init PROVE ChunksInv
  OBVIOUS
<1>1. LayoutInv
  BY LayoutInit
<1> QED
  BY <1>1 DEF Init, ChunksInv, ChunksBounded, Writing

LEMMA ChunksStep == ChunksInv /\ [Next]_vars => ChunksInv'
<1> SUFFICES ASSUME ChunksInv, [Next]_vars PROVE ChunksInv'
  OBVIOUS
<1>1. /\ LayoutInv /\ LayoutInv' /\ out \in OutType /\ out' \in OutType
      /\ Bounded(out.disk)
  BY LayoutStep DEF ChunksInv, LayoutInv, TypeOK, ChunksBounded, Bounded, IsSample
<1>2. ASSUME Bounded(out'.disk) PROVE ChunksBounded'
  BY <1>2 DEF ChunksBounded, Bounded, IsSample, InPayload
<1>3. CASE CreateMovie
  <2>1. FreshBuilder /\ phase' = "open" /\ error' = error
    BY <1>1, <1>3 DEF CreateMovie, LayoutInv
  <2>2. /\ out'.disk = Put({}, FtypBox) /\ out'.position = FtypSize /\ out'.writeNewMdat
    BY <1>1, <1>3, <2>1, Sizes DEF CreateMovie, FreshBuilder, OutType
  <2>3. out'.disk = {FtypBox} /\ FtypBox.box = "ftyp" /\ ~IsSample(FtypBox)
    BY <2>2 DEF Put, FtypBox, IsSample
  <2>4. Bounded(out'.disk) /\ WithinLimit(out'.disk, out'.mdat.offset)
    BY <2>3 DEF Bounded, WithinLimit
  <2>5. ClaimsEnd(out', 0) /\ ClosedWithin(out')
    BY <2>3 DEF ClaimsEnd, ClosedWithin
  <2> QED
    BY <1>1, <1>2, <2>2, <2>4, <2>5 DEF ChunksInv, Chunks, NotFull
<1>4. ASSUME NEW isAudio \in BOOLEAN, AddTrack(isAudio) PROVE ChunksInv'
  BY <1>1, <1>2, <1>4 DEF AddTrack, ChunksInv, Writing
<1>5. ASSUME NEW t, NEW size, NEW step \in PtsSteps, WriteSampleData(t, size, step)
      PROVE  ChunksInv'
  <2> DEFINE o == Prepared(out, size)
  <2>1. CanWriteTo(t, size) /\ Layout(out, 0) /\ Chunks(out, 0) /\ TypeOK
    BY <1>1, <1>5 DEF WriteSampleData, LayoutInv, ChunksInv, CanWriteTo
  <2>2. /\ size \in Nat /\ size > 0 /\ t \in Nat
        /\ NextIndex(t) \in Nat /\ IsAudio(t) \in BOOLEAN
    BY <2>1, CallTypes
  <2>3. o \in OutType /\ Layout(o, size) /\ Chunks(o, size) /\ NotFull(o)
    BY <1>1, <2>1, <2>2, PreparedType, PreparedLayout, PreparedChunks
  <2>4. BytesWritten(size, IsAudio(t)) = size
    BY <2>1, WholeSample
  <2>5. out' = AppendSample(o, size, IsAudio(t), t, NextIndex(t))
        /\ phase' = phase /\ error' = error
    BY <1>5 DEF WriteSampleData
  <2> HIDE DEF o
  <2>6. Chunks(out', 0) /\ NotFull(out')
    BY <2>2, <2>3, <2>4, <2>5, AppendSampleChunks
  <2>7. Layout(out', 0)
    BY <2>2, <2>3, <2>4, <2>5, AppendSampleLayout
  <2>8. out'.mdat.contentSize # 0 => WithinLimit(out'.disk, out'.mdat.offset)
    <3>1. CASE out'.writeNewMdat
      BY <2>7, <3>1 DEF Layout, NoStaleContent, WithinLimit, FtypBox, IsSample
    <3>2. CASE ~out'.writeNewMdat
      BY <2>6, <3>2 DEF Chunks
    <3> QED
      BY <3>1, <3>2
  <2> QED
    BY <1>1, <1>2, <2>6, <2>8 DEF ChunksInv, Chunks
<1>6. ASSUME NEW t, NEW size, NEW step \in PtsSteps, WriteFails(t, size, step)
      PROVE  ChunksInv'
  <2>1. CanWriteTo(t, size) /\ Layout(out, 0) /\ Chunks(out, 0) /\ TypeOK /\ ~Writing'
    BY <1>1, <1>6 DEF WriteFails, LayoutInv, ChunksInv, CanWriteTo, Writing
  <2>2. size \in Nat
    BY <2>1, CallTypes
  <2>3. /\ Bounded(out'.disk)
        /\ out'.mdat.contentSize # 0 => WithinLimit(out'.disk, out'.mdat.offset)
    <3>1. CASE OpenMdatThrows
      <4>1. out'.disk = out.disk /\ out'.mdat.contentSize = 0
        BY <1>1, <3>1 DEF OpenMdatThrows, OutType
      <4> QED
        BY <1>1, <4>1
    <3>2. CASE FlushThrows(size)
      <4> DEFINE p == OpenMdat(out)
                 o == CountSample(p, size)
      <4>1. p \in OutType /\ Layout(p, 0) /\ ~p.writeNewMdat /\ Chunks(p, 0)
        BY <1>1, <2>1, OpenMdatType, OpenMdatLayout, OpenMdatChunks
      <4> HIDE DEF p
      <4>2. o \in OutType /\ ~o.writeNewMdat /\ Chunks(o, size)
        BY <2>2, <4>1, CountSampleType, CountSampleLayout, CountSampleChunks
      <4>3. out' = [o EXCEPT !.position = o.mdat.offset]
        BY <3>2 DEF FlushThrows, o, p
      <4> HIDE DEF o
      <4>4. out'.disk = o.disk /\ out'.mdat = o.mdat
        BY <4>2, <4>3 DEF OutType
      <4> QED
        BY <4>2, <4>4 DEF Chunks
    <3>3. CASE AppendThrows(t, size, step)
      <4> DEFINE o == Prepared(out, size)
      <4>1. o \in OutType /\ Layout(o, size) /\ Chunks(o, size)
        BY <1>1, <2>1, <2>2, PreparedType, PreparedLayout, PreparedChunks
      <4>2. PICK written \in Nat : out' = [o EXCEPT !.position = @ + written]
        BY <3>3, Sizes DEF AppendThrows
      <4> HIDE DEF o
      <4>3. out'.disk = o.disk /\ out'.mdat = o.mdat
        BY <4>1, <4>2 DEF OutType
      <4>4. CASE o.writeNewMdat
        BY <4>1, <4>3, <4>4 DEF Chunks, Layout, NoStaleContent, WithinLimit, FtypBox, IsSample
      <4>5. CASE ~o.writeNewMdat
        BY <4>1, <4>3, <4>5 DEF Chunks
      <4> QED
        BY <4>4, <4>5
    <3> QED
      BY <1>6, <3>1, <3>2, <3>3 DEF WriteFails
  <2> QED
    BY <1>1, <1>2, <2>1, <2>3 DEF ChunksInv
<1>7. CASE ConversionFails
  BY <1>1, <1>2, <1>7 DEF ConversionFails, ChunksInv, Writing
<1>8. ASSUME phase = "open" PROVE Bounded(Closed(out).disk) /\ Closed(out) \in OutType
  BY <1>1, <1>8, ClosedChunks, FlushType DEF ChunksInv, Closed
<1>9. CASE FinishMovie
  <2>1. out'.disk = Put(Closed(out).disk, MoovBox(Closed(out).position)) /\ phase' = "closed"
    BY <1>8, <1>9 DEF FinishMovie, OutType
  <2>2. \A at : ~IsSample(MoovBox(at)) /\ MoovBox(at).box # "mdat"
    BY DEF MoovBox, IsSample
  <2>3. Bounded(out'.disk)
    BY <1>8, <1>9, <2>1, <2>2, BoundedKept DEF FinishMovie
  <2> QED
    BY <1>1, <1>2, <2>1, <2>3 DEF ChunksInv, Writing
<1>10. CASE FinishFails
  <2>1. out'.disk = out.disk \/ out' = Closed(out)
    BY <1>1, <1>10 DEF FinishFails, OutType
  <2>2. Bounded(out'.disk) /\ phase' = "abandoned"
    BY <1>1, <1>8, <1>10, <2>1 DEF FinishFails
  <2> QED
    BY <1>1, <1>2, <2>2 DEF ChunksInv, Writing
<1>11. CASE UNCHANGED vars
  BY <1>1, <1>2, <1>11 DEF vars, ChunksInv, Writing
<1> QED
  BY <1>3, <1>4, <1>5, <1>6, <1>7, <1>9, <1>10, <1>11 DEF Next

(* No chunk grows past the limit by more than its last sample, whatever has *)
(* been carried over from the chunks before and whatever has thrown.        *)
THEOREM ChunksAreBounded == Spec => []ChunksBounded
<1>1. ChunksInv => ChunksBounded
  BY DEF ChunksInv
<1> QED
  BY <1>1, ChunksInit, ChunksStep, PTL DEF Spec

-----------------------------------------------------------------------------
(* Loops.  What holds before the first turn and is kept by each holds       *)
(* after every turn; and a recursive function that follows a loop exists.   *)

LEMMA LeastNatural ==
  ASSUME NEW T \in SUBSET Nat, T # {}
  PROVE  \E x \in T : \A y \in T : x <= y
<1>1. PICK x \in T : \A y \in T : ~(<<y, x>> \in OpToRel(<, Nat))
  BY NatLessThanWellFounded, WFMin
<1>2. \A y \in T : <<y, x>> \in OpToRel(<, Nat) <=> y < x
  BY DEF OpToRel
<1>3. \A y \in T : ~(y < x)
  BY <1>1, <1>2, Zenon
<1>4. \A y \in T : x <= y
  BY <1>3
<1> QED
  BY <1>4

LEMMA EveryTurn ==
  ASSUME NEW n \in Nat, NEW Good, 0 \in Good, \A k \in 1..n : k - 1 \in Good => k \in Good
  PROVE  \A k \in 0..n : k \in Good
<1> DEFINE Bad == {k \in 0..n : k \notin Good}
<1>1. SUFFICES ASSUME Bad # {} PROVE FALSE
  OBVIOUS
<1>2. Bad \in SUBSET Nat
  OBVIOUS
<1> HIDE DEF Bad
<1>3. PICK x \in Bad : \A y \in Bad : x <= y
  BY <1>1, <1>2, LeastNatural
<1>4. x \in 1..n /\ x \notin Good
  BY <1>3 DEF Bad
<1>5. x - 1 \in 0..n /\ ~(x <= x - 1)
  BY <1>4
<1>6. x - 1 \in Good
  BY <1>3, <1>5 DEF Bad
<1> QED
  BY <1>4, <1>6

LoopOf(f, n, S, base, turn) ==
  /\ f \in [0..n -> S]
  /\ f[0] = base
  /\ \A k \in 1..n : f[k] = turn[<<f[k - 1], k>>]

LEMMA LoopExists ==
  ASSUME NEW n \in Nat, NEW S, NEW base \in S, NEW turn \in [S \X (1..n) -> S]
  PROVE  \E f : LoopOf(f, n, S, base, turn)
<1> DEFINE Loop(f, m) == /\ f \in [0..m -> S]
                         /\ f[0] = base
                         /\ \A k \in 1..m : f[k] = turn[<<f[k - 1], k>>]
           Good == {m \in 0..n : \E f : Loop(f, m)}
<1>1. 0 \in Good
  <2> DEFINE g == [k \in 0..0 |-> base]
  <2>1. g \in [0..0 -> S] /\ g[0] = base
    OBVIOUS
  <2> HIDE DEF g
  <2>2. Loop(g, 0)
    BY <2>1
  <2>3. \E f : Loop(f, 0)
    BY <2>2
  <2> HIDE DEF Loop
  <2>4. 0 \in 0..n
    OBVIOUS
  <2> QED
    BY <2>3, <2>4
<1>2. ASSUME NEW m \in 1..n, m - 1 \in Good PROVE m \in Good
  <2>1. PICK f : Loop(f, m - 1)
    BY <1>2
  <2> DEFINE g == [k \in 0..m |-> IF k < m THEN f[k] ELSE turn[<<f[m - 1], m>>]]
  <2>2. f[m - 1] \in S /\ turn[<<f[m - 1], m>>] \in S
    BY <2>1
  <2>3. g \in [0..m -> S]
    BY <2>1, <2>2
  <2>4. \A k \in 0..m - 1 : g[k] = f[k]
    OBVIOUS
  <2>5. g[m] = turn[<<f[m - 1], m>>]
    OBVIOUS
  <2> HIDE DEF g
  <2>6. ASSUME NEW k \in 1..m PROVE g[k] = turn[<<g[k - 1], k>>]
    <3>1. g[k - 1] = f[k - 1]
      BY <2>4
    <3>2. CASE k = m
      BY <2>5, <3>1, <3>2
    <3>3. CASE k # m
      <4>1. k \in 0..m - 1 /\ k \in 1..m - 1
        BY <3>3
      <4>2. f[k] = turn[<<f[k - 1], k>>]
        BY <2>1, <4>1
      <4> QED
        BY <2>4, <3>1, <4>1, <4>2
    <3> QED
      BY <3>2, <3>3
  <2>7. g[0] = base
    BY <2>1, <2>4
  <2>8. Loop(g, m)
    BY <2>3, <2>6, <2>7
  <2> QED
    BY <2>8
<1> HIDE DEF Good
<1>3. n \in Good
  BY <1>1, <1>2, EveryTurn
<1> QED
  BY <1>3 DEF Good, LoopOf

-----------------------------------------------------------------------------
(* Sums. *)

SumLoop(total, numbers) ==
  total = [k \in 0..Len(numbers) |-> IF k = 0 THEN 0 ELSE total[k - 1] + numbers[k]]

LEMMA TotalsLoop ==
  ASSUME NEW numbers \in Seq(Int)
  PROVE  /\ Totals(numbers) \in [0..Len(numbers) -> Int]
         /\ Totals(numbers)[0] = 0
         /\ \A k \in 1..Len(numbers) : Totals(numbers)[k] = Totals(numbers)[k - 1] + numbers[k]
<1> DEFINE n == Len(numbers)
           turn == [p \in Int \X (1..n) |-> p[1] + numbers[p[2]]]
           total == Totals(numbers)
<1>1. n \in Nat /\ \A k \in 1..n : numbers[k] \in Int
  OBVIOUS
<1>2. turn \in [Int \X (1..n) -> Int]
  BY <1>1
<1>3. \A x \in Int, k \in 1..n : turn[<<x, k>>] = x + numbers[k]
  OBVIOUS
<1> HIDE DEF turn, n
<1>4. PICK S : S = Int
  OBVIOUS
<1>5. 0 \in S /\ turn \in [S \X (1..n) -> S]
  BY <1>2, <1>4
<1>6. PICK f : LoopOf(f, n, S, 0, turn)
  BY <1>1, <1>5, LoopExists
<1>7. f \in [0..n -> Int] /\ f[0] = 0 /\ \A k \in 1..n : f[k] = turn[<<f[k - 1], k>>]
  BY <1>4, <1>6 DEF LoopOf
<1>8. \A k \in 1..n : f[k] = f[k - 1] + numbers[k]
  <2>1. \A k \in 1..n : f[k - 1] \in Int
    BY <1>1, <1>7
  <2> QED
    BY <1>3, <1>7, <2>1
<1>9. SumLoop(f, numbers)
  <2>1. \A k \in 0..n : f[k] = IF k = 0 THEN 0 ELSE f[k - 1] + numbers[k]
    BY <1>1, <1>7, <1>8
  <2>2. f = [k \in 0..n |-> IF k = 0 THEN 0 ELSE f[k - 1] + numbers[k]]
    BY <1>7, <2>1
  <2> QED
    BY <2>2 DEF SumLoop, n
<1>10. total = CHOOSE g : SumLoop(g, numbers)
  BY DEF Totals, SumLoop
<1>11. SumLoop(total, numbers)
  BY <1>9, <1>10
<1> HIDE DEF total
<1>12. total = [k \in 0..n |-> IF k = 0 THEN 0 ELSE total[k - 1] + numbers[k]]
  BY <1>11 DEF SumLoop, n
<1>13. \A k \in 0..n : total[k] = IF k = 0 THEN 0 ELSE total[k - 1] + numbers[k]
  BY <1>12
<1>14. 0 \in 0..n /\ \A k \in 1..n : k \in 0..n /\ k # 0
  BY <1>1
<1>15. total[0] = 0 /\ \A k \in 1..n : total[k] = total[k - 1] + numbers[k]
  BY <1>13, <1>14
<1>16. \A k \in 0..n : total[k] \in Int
  <2> DEFINE Good == {k \in 0..n : total[k] \in Int}
  <2>1. 0 \in Good
    BY <1>1, <1>15
  <2>2. \A k \in 1..n : k - 1 \in Good => k \in Good
    BY <1>1, <1>15
  <2> HIDE DEF Good
  <2>3. \A k \in 0..n : k \in Good
    BY <1>1, <2>1, <2>2, EveryTurn
  <2> QED
    BY <2>3 DEF Good
<1> QED
  BY <1>12, <1>15, <1>16 DEF total, n

LEMMA TotalsOfPrefix ==
  ASSUME NEW s \in Seq(Int), NEW t \in Seq(Int), NEW n \in Nat, n <= Len(s), n <= Len(t),
         \A k \in 1..n : s[k] = t[k]
  PROVE  \A k \in 0..n : Totals(s)[k] = Totals(t)[k]
<1> DEFINE Good == {k \in 0..n : Totals(s)[k] = Totals(t)[k]}
<1>1. 0 \in Good
  BY TotalsLoop
<1>2. ASSUME NEW k \in 1..n, k - 1 \in Good PROVE k \in Good
  <2>1. k \in 1..Len(s) /\ k \in 1..Len(t)
    OBVIOUS
  <2>2. Totals(s)[k] = Totals(s)[k - 1] + s[k] /\ Totals(t)[k] = Totals(t)[k - 1] + t[k]
    BY <2>1, TotalsLoop
  <2> QED
    BY <1>2, <2>2
<1> HIDE DEF Good
<1>3. \A k \in 0..n : k \in Good
  BY <1>1, <1>2, EveryTurn
<1> QED
  BY <1>3 DEF Good

(* Of groups with at least one sample each, every sample is in one.         *)
IsGroup(counts, c, k) ==
  /\ c \in 1..Len(counts)
  /\ Totals(counts)[c - 1] < k /\ k <= Totals(counts)[c]

LEMMA TotalsGrow ==
  ASSUME NEW counts \in Seq(Nat), NEW d \in 0..Len(counts)
  PROVE  \A c \in 0..d : Totals(counts)[c] <= Totals(counts)[d]
<1> DEFINE total == Totals(counts)
           Good == {k \in 0..d : \A c \in 0..k : total[c] <= total[k]}
<1>1. counts \in Seq(Int) /\ Len(counts) \in Nat /\ \A k \in 1..Len(counts) : counts[k] \in Nat
  OBVIOUS
<1>2. /\ \A k \in 0..Len(counts) : total[k] \in Int
      /\ \A k \in 1..Len(counts) : total[k] = total[k - 1] + counts[k]
  BY <1>1, TotalsLoop
<1> HIDE DEF total
<1>3. 0 \in Good
  BY <1>1, <1>2
<1>4. ASSUME NEW k \in 1..d, k - 1 \in Good PROVE k \in Good
  <2>1. k \in 1..Len(counts) /\ k - 1 \in 0..Len(counts) /\ k \in 0..Len(counts)
    BY <1>1
  <2>2. total[k] \in Int /\ total[k - 1] \in Int
    BY <1>2, <2>1
  <2>3. total[k] = total[k - 1] + counts[k] /\ counts[k] \in Nat
    BY <1>1, <1>2, <2>1
  <2>4. total[k - 1] <= total[k] /\ total[k] \in Int /\ total[k - 1] \in Int
    BY <2>2, <2>3
  <2>5. ASSUME NEW c \in 0..k PROVE total[c] <= total[k]
    <3>1. c \in 0..Len(counts) /\ total[c] \in Int
      BY <1>1, <1>2
    <3>2. CASE c = k
      BY <2>4, <3>2
    <3>3. CASE c # k
      <4>1. c \in 0..k - 1
        BY <3>3
      <4>2. total[c] <= total[k - 1]
        BY <1>4, <4>1
      <4> QED
        BY <2>4, <3>1, <4>2
    <3> QED
      BY <3>2, <3>3
  <2> QED
    BY <2>5
<1> HIDE DEF Good
<1>5. d \in Nat /\ d \in 0..d
  OBVIOUS
<1>6. \A k \in 0..d : k \in Good
  BY <1>3, <1>4, <1>5, EveryTurn
<1> QED
  BY <1>5, <1>6 DEF Good, total

LEMMA GroupUnique ==
  ASSUME NEW counts \in Seq(Nat), NEW k \in Nat, NEW c, NEW d,
         IsGroup(counts, c, k), IsGroup(counts, d, k)
  PROVE  c = d
<1> DEFINE total == Totals(counts)
<1>1. /\ counts \in Seq(Int) /\ Len(counts) \in Nat
      /\ c \in 1..Len(counts) /\ d \in 1..Len(counts)
      /\ total[c - 1] < k /\ k <= total[c] /\ total[d - 1] < k /\ k <= total[d]
  BY DEF IsGroup
<1>2. \A i \in 0..Len(counts) : total[i] \in Int
  BY <1>1, TotalsLoop
<1>3. \A i, j \in 0..Len(counts) : i <= j => total[i] <= total[j]
  BY TotalsGrow
<1> HIDE DEF total
<1>4. /\ c \in 0..Len(counts) /\ d \in 0..Len(counts)
      /\ c - 1 \in 0..Len(counts) /\ d - 1 \in 0..Len(counts)
  BY <1>1
<1>5. /\ total[c] \in Int /\ total[d] \in Int
      /\ total[c - 1] \in Int /\ total[d - 1] \in Int
  BY <1>2, <1>4
<1>6. total[c - 1] < k /\ k <= total[c] /\ total[d - 1] < k /\ k <= total[d]
  BY <1>1 DEF total
<1>7. ~(c <= d - 1)
  <2>1. c <= d - 1 => total[c] <= total[d - 1]
    BY <1>3, <1>4
  <2> QED
    BY <1>5, <1>6, <2>1
<1>8. ~(d <= c - 1)
  <2>1. d <= c - 1 => total[d] <= total[c - 1]
    BY <1>3, <1>4
  <2> QED
    BY <1>5, <1>6, <2>1
<1> QED
  BY <1>1, <1>7, <1>8

LEMMA GroupExists ==
  ASSUME NEW counts \in Seq(Nat), NEW k \in 1..Total(counts)
  PROVE  \E c : IsGroup(counts, c, k)
<1> DEFINE n == Len(counts)
           total == Totals(counts)
           Good == {c \in 0..n : total[c] < k}
<1>1. n \in Nat /\ counts \in Seq(Int) /\ \A c \in 0..n : total[c] \in Int
  BY TotalsLoop
<1>2. k \in Nat /\ k > 0 /\ k <= total[n] /\ total[0] = 0
  BY <1>1, TotalsLoop DEF Total
<1>3. SUFFICES ASSUME \A c : ~IsGroup(counts, c, k) PROVE FALSE
  OBVIOUS
<1>4. \A c \in 1..n : total[c - 1] < k => ~(k <= total[c])
  BY <1>3 DEF IsGroup
<1> HIDE DEF total
<1>5. 0 \in Good
  BY <1>1, <1>2
<1>6. \A c \in 1..n : c - 1 \in Good => c \in Good
  BY <1>1, <1>2, <1>4
<1> HIDE DEF Good, n
<1>7. \A c \in 0..n : c \in Good
  BY <1>1, <1>5, <1>6, EveryTurn
<1>8. n \in Good
  BY <1>1, <1>7
<1> QED
  BY <1>1, <1>2, <1>8 DEF Good

LEMMA GroupFound ==
  ASSUME NEW counts \in Seq(Nat), NEW k \in 1..Total(counts)
  PROVE  IsGroup(counts, GroupOf(counts, k), k)
<1>1. PICK c : IsGroup(counts, c, k)
  BY GroupExists
<1>2. c \in 1..Len(counts) /\ Totals(counts)[c - 1] < k /\ k <= Totals(counts)[c]
  BY <1>1 DEF IsGroup
<1> QED
  BY <1>2 DEF GroupOf, IsGroup

-----------------------------------------------------------------------------
(* The times of a track.  A track has one duration at first, that of its   *)
(* last sample; every further sample puts one before it, the step to that  *)
(* sample in ticks.                                                        *)

TimesInv(track) ==
  /\ track \in TrackType
  /\ track.timeScale # 0
  /\ track.duration = Total(track.sampleDurations)
  /\ track.first <=> Len(track.samples) = 0
  /\ Len(track.sampleDurations) = IF track.first THEN 1 ELSE Len(track.samples)
  /\ ~track.first => track.lastPresentationTime = track.samples[Len(track.samples)].pts
  /\ \A k \in 1..Len(track.samples) - 1 :
       /\ track.samples[k].pts <= track.samples[k + 1].pts
       /\ track.sampleDurations[k]
            = Ticks(track.samples[k + 1].pts - track.samples[k].pts, track.timeScale)

DriftInv == TypeOK /\ \A t \in 1..Len(tracks) : TimesInv(tracks[t])

LEMMA QuotientBounds ==
  ASSUME NEW a \in Nat, NEW b \in Nat \ {0}
  PROVE  a \div b \in Nat /\ (a \div b) * b <= a /\ a < (a \div b) * b + b
  OBVIOUS

(* A step is rounded to a tick that is at most half a tick away. *)
LEMMA RoundingBounds ==
  ASSUME NEW us \in Nat, NEW scale \in Nat
  PROVE  /\ Ticks(us, scale) \in Int
         /\ 2 * (Ticks(us, scale) * Second - us * scale) <= Second
         /\ -2 * (Ticks(us, scale) * Second - us * scale) <= Second
<1> DEFINE half == Second \div 2
           exact == us * scale
           ticks == (exact + half) \div Second
<1>1. Second \in Nat \ {0}
  BY ClockAssumption
<1>2. half \in Nat /\ 2 * half <= Second /\ Second <= 2 * half + 1
  BY <1>1
<1>3. exact \in Nat
  OBVIOUS
<1>4. Ticks(us, scale) = ticks
  BY <1>2, <1>3 DEF Ticks, JavaDiv
<1> HIDE DEF half, exact
<1>5. exact + half \in Nat
  BY <1>2, <1>3
<1>6. ticks \in Nat /\ ticks * Second <= exact + half /\ exact + half < ticks * Second + Second
  BY <1>1, <1>5, QuotientBounds
<1> HIDE DEF ticks
<1> DEFINE rounded == ticks * Second
<1>7. rounded \in Int /\ rounded <= exact + half /\ exact + half < rounded + Second
  BY <1>1, <1>6
<1> HIDE DEF rounded
<1>8. 2 * (rounded - exact) <= Second /\ -2 * (rounded - exact) <= Second
  BY <1>1, <1>2, <1>3, <1>7
<1> QED
  BY <1>4, <1>6, <1>8 DEF rounded, exact

LEMMA FrontElements ==
  ASSUME NEW S, NEW s \in Seq(S), NEW n \in 0..Len(s)
  PROVE  /\ SubSeq(s, 1, n) \in Seq(S) /\ Len(SubSeq(s, 1, n)) = n
         /\ \A i \in 1..n : SubSeq(s, 1, n)[i] = s[i]
<1>1. \A i \in 1..n : s[i] \in S
  OBVIOUS
<1>2. SubSeq(s, 1, n) \in Seq(S) /\ Len(SubSeq(s, 1, n)) = n
  BY <1>1
<1> QED
  BY <1>2

LEMMA ConcatElements ==
  ASSUME NEW s \in Seq(Int), NEW t \in Seq(Int)
  PROVE  /\ Len(s \o t) = Len(s) + Len(t)
         /\ \A i \in 1..Len(s) : (s \o t)[i] = s[i]
         /\ \A i \in 1..Len(t) : (s \o t)[Len(s) + i] = t[i]
  OBVIOUS

LEMMA InsertBeforeLastElements ==
  ASSUME NEW list \in Seq(Int) \ {<< >>}, NEW x \in Int
  PROVE  /\ Len(InsertBeforeLast(list, x)) = Len(list) + 1
         /\ \A i \in 1..Len(list) - 1 : InsertBeforeLast(list, x)[i] = list[i]
         /\ InsertBeforeLast(list, x)[Len(list)] = x
         /\ InsertBeforeLast(list, x)[Len(list) + 1] = list[Len(list)]
<1> DEFINE n == Len(list)
           front == SubSeq(list, 1, n - 1)
           back == <<x, list[n]>>
<1>1. n \in Nat \ {0} /\ n - 1 \in 0..Len(list)
  OBVIOUS
<1>2. /\ front \in Seq(Int) /\ Len(front) = n - 1
      /\ \A i \in 1..n - 1 : front[i] = list[i]
  BY <1>1, FrontElements
<1>3. back \in Seq(Int) /\ Len(back) = 2 /\ back[1] = x /\ back[2] = list[n]
  BY <1>1
<1>4. InsertBeforeLast(list, x) = front \o back
  BY DEF InsertBeforeLast
<1> HIDE DEF front, back, n
<1>5. /\ Len(front \o back) = Len(front) + Len(back)
      /\ \A i \in 1..Len(front) : (front \o back)[i] = front[i]
      /\ \A i \in 1..Len(back) : (front \o back)[Len(front) + i] = back[i]
  BY <1>2, <1>3, ConcatElements
<1>6. (front \o back)[n] = x
  <2>1. 1 \in 1..Len(back) /\ Len(front) + 1 = n
    BY <1>1, <1>2, <1>3
  <2> QED
    BY <1>3, <1>5, <2>1
<1>7. (front \o back)[n + 1] = list[n]
  <2>1. 2 \in 1..Len(back) /\ Len(front) + 2 = n + 1
    BY <1>1, <1>2, <1>3
  <2> QED
    BY <1>3, <1>5, <2>1
<1>8. Len(front \o back) = n + 1
  BY <1>1, <1>2, <1>3, <1>5
<1>9. \A i \in 1..n - 1 : (front \o back)[i] = list[i]
  BY <1>2, <1>5
<1> QED
  BY <1>4, <1>6, <1>7, <1>8, <1>9 DEF n

LEMMA InsertBeforeLastTotal ==
  ASSUME NEW list \in Seq(Int) \ {<< >>}, NEW x \in Int
  PROVE  Total(InsertBeforeLast(list, x)) = Total(list) + x
<1> DEFINE n == Len(list)
           new == InsertBeforeLast(list, x)
           before == Totals(list)
           total == Totals(new)
<1>1. n \in Nat \ {0} /\ n \in 1..n /\ list \in Seq(Int)
  OBVIOUS
<1>2. new \in Seq(Int)
  BY InsertBeforeLastType
<1>3. Len(new) = n + 1
  BY InsertBeforeLastElements
<1>4. \A i \in 1..n - 1 : new[i] = list[i]
  BY InsertBeforeLastElements
<1>5. new[n] = x /\ new[n + 1] = list[n]
  BY InsertBeforeLastElements
<1> HIDE DEF new
<1>6. n - 1 \in Nat /\ n - 1 <= Len(list) /\ n - 1 <= Len(new) /\ n - 1 \in 0..n - 1
  BY <1>1, <1>3
<1>7. \A i \in 1..n - 1 : list[i] = new[i]
  BY <1>4
<1>8. \A i \in 0..n - 1 : before[i] = total[i]
  BY <1>1, <1>2, <1>6, <1>7, TotalsOfPrefix
<1>9. before[n] = before[n - 1] + list[n]
  BY <1>1, TotalsLoop
<1>10. n \in 1..Len(new) /\ n + 1 \in 1..Len(new) /\ (n + 1) - 1 = n
  BY <1>1, <1>3
<1>11. total[n] = total[n - 1] + new[n]
  BY <1>2, <1>10, TotalsLoop
<1>12. total[n + 1] = total[n] + new[n + 1]
  <2>1. total[n + 1] = total[(n + 1) - 1] + new[n + 1]
    BY <1>2, <1>10, TotalsLoop
  <2> QED
    BY <1>10, <2>1
<1>13. before[n - 1] \in Int /\ list[n] \in Int
  <2>1. n - 1 \in 0..Len(list)
    BY <1>1
  <2> QED
    BY <1>1, <2>1, TotalsLoop
<1>14. total[n - 1] = before[n - 1]
  BY <1>6, <1>8
<1>15. Total(list) = before[n] /\ Total(new) = total[n + 1]
  BY <1>3 DEF Total
<1> HIDE DEF before, total, n
<1> QED
  BY <1>5, <1>9, <1>11, <1>12, <1>13, <1>14, <1>15 DEF new

LEMMA NewTrackTimes == ASSUME NEW isAudio \in BOOLEAN PROVE TimesInv(NewTrack(isAudio))
<1>1. NewTrack(isAudio) \in TrackType
  BY NewTrackType
<1>2. /\ NewTrack(isAudio).first /\ NewTrack(isAudio).samples = << >>
      /\ \E last \in Int : NewTrack(isAudio).sampleDurations = <<last>>
  BY ClockAssumption DEF NewTrack
<1>3. Len(NewTrack(isAudio).samples) = 0 /\ Len(NewTrack(isAudio).sampleDurations) = 1
  BY <1>2
<1>4. NewTrack(isAudio).timeScale # 0
  BY ClockAssumption DEF NewTrack
<1>5. NewTrack(isAudio).duration = Total(NewTrack(isAudio).sampleDurations)
  <2>1. PICK last \in Int : /\ NewTrack(isAudio).sampleDurations = <<last>>
                           /\ NewTrack(isAudio).duration = last
    BY ClockAssumption DEF NewTrack
  <2> HIDE DEF NewTrack
  <2>2. <<last>> \in Seq(Int) /\ Len(<<last>>) = 1 /\ 1 \in 1..Len(<<last>>) /\ <<last>>[1] = last
    OBVIOUS
  <2>3. Totals(<<last>>)[1] = Totals(<<last>>)[1 - 1] + <<last>>[1] /\ Totals(<<last>>)[0] = 0
    BY <2>2, TotalsLoop
  <2>4. Totals(<<last>>)[1] = last
    BY <2>2, <2>3
  <2>5. Total(<<last>>) = last
    BY <2>2, <2>4 DEF Total
  <2> QED
    BY <2>1, <2>5
<1> QED
  BY <1>1, <1>2, <1>3, <1>4, <1>5 DEF TimesInv

LEMMA AddSampleTimes ==
  ASSUME NEW track, TimesInv(track), NEW offset \in Nat, NEW size \in Nat, NEW step \in Nat
  PROVE  TimesInv(AddSample(track, offset, size, track.lastPresentationTime + step))
<1> DEFINE pts == track.lastPresentationTime + step
           delta == Ticks(pts - track.lastPresentationTime, track.timeScale)
           sample == [offset |-> offset, size |-> size, pts |-> pts]
           n == Len(track.samples)
           new == AddSample(track, offset, size, pts)
<1>1. /\ track \in TrackType /\ track.samples \in Seq(SampleType) /\ n \in Nat
      /\ track.sampleDurations \in Seq(Int) \ {<< >>} /\ track.first \in BOOLEAN
      /\ track.lastPresentationTime \in Int /\ track.timeScale \in Nat
  BY DEF TimesInv, TrackType
<1>2. pts \in Int /\ pts - track.lastPresentationTime \in Int
  BY <1>1
<1>3. new \in TrackType
  BY <1>1, <1>2, AddSampleType
<1>4. delta \in Int
  BY <1>1, <1>2, TicksType
<1>5. sample \in SampleType
  BY <1>2 DEF SampleType
<1>6. /\ new.samples = Append(track.samples, sample)
      /\ new.lastPresentationTime = pts /\ new.first = FALSE
      /\ new.timeScale = track.timeScale
      /\ new.sampleDurations = IF track.first THEN track.sampleDurations
                               ELSE InsertBeforeLast(track.sampleDurations, delta)
  BY <1>1 DEF AddSample, TrackType
<1> HIDE DEF new
<1>7. /\ Len(new.samples) = n + 1 /\ new.samples[n + 1] = sample
      /\ \A k \in 1..n : new.samples[k] = track.samples[k]
  BY <1>1, <1>5, <1>6
<1>8. sample.pts = pts
  OBVIOUS
<1>9. /\ Len(new.sampleDurations) = n + 1
      /\ \A k \in 1..n :
           /\ new.samples[k].pts <= new.samples[k + 1].pts
           /\ new.sampleDurations[k]
                = Ticks(new.samples[k + 1].pts - new.samples[k].pts, new.timeScale)
  <2>1. CASE track.first
    <3>1. n = 0 /\ Len(track.sampleDurations) = 1
      BY <2>1 DEF TimesInv
    <3> QED
      BY <1>6, <2>1, <3>1
  <2>2. CASE ~track.first
    <3>1. /\ n # 0 /\ Len(track.sampleDurations) = n
          /\ track.lastPresentationTime = track.samples[n].pts
      BY <2>2 DEF TimesInv
    <3>2. /\ Len(new.sampleDurations) = n + 1
          /\ \A k \in 1..n - 1 : new.sampleDurations[k] = track.sampleDurations[k]
          /\ new.sampleDurations[n] = delta
      <4>1. new.sampleDurations = InsertBeforeLast(track.sampleDurations, delta)
        BY <1>6, <2>2
      <4> HIDE DEF delta
      <4>2. /\ Len(new.sampleDurations) = Len(track.sampleDurations) + 1
            /\ \A k \in 1..Len(track.sampleDurations) - 1 :
                 new.sampleDurations[k] = track.sampleDurations[k]
            /\ new.sampleDurations[Len(track.sampleDurations)] = delta
        BY <1>1, <1>4, <4>1, InsertBeforeLastElements
      <4> QED
        BY <3>1, <4>2
    <3>3. ASSUME NEW k \in 1..n
          PROVE  /\ new.samples[k].pts <= new.samples[k + 1].pts
                 /\ new.sampleDurations[k]
                      = Ticks(new.samples[k + 1].pts - new.samples[k].pts, new.timeScale)
      <4>1. CASE k = n
        <5>1. new.samples[n].pts = track.lastPresentationTime /\ new.samples[n + 1].pts = pts
          <6>1. n \in 1..n
            BY <1>1, <3>1
          <6>2. new.samples[n] = track.samples[n]
            BY <1>7, <6>1
          <6> HIDE DEF sample
          <6> QED
            BY <1>7, <1>8, <3>1, <6>2
        <5>2. track.lastPresentationTime <= pts
          BY <1>1
        <5> QED
          BY <1>6, <3>2, <4>1, <5>1, <5>2
      <4>2. CASE k # n
        <5>1. k \in 1..n - 1 /\ k + 1 \in 1..n
          BY <1>1, <4>2
        <5>2. new.samples[k] = track.samples[k] /\ new.samples[k + 1] = track.samples[k + 1]
          BY <1>7, <5>1
        <5>3. /\ track.samples[k].pts <= track.samples[k + 1].pts
              /\ track.sampleDurations[k]
                   = Ticks(track.samples[k + 1].pts - track.samples[k].pts, track.timeScale)
          BY <5>1 DEF TimesInv
        <5> QED
          BY <1>6, <3>2, <5>1, <5>2, <5>3
      <4> QED
        BY <4>1, <4>2
    <3> QED
      BY <3>2, <3>3
  <2> QED
    BY <1>1, <2>1, <2>2
<1>10. Len(new.samples) - 1 = n /\ Len(new.samples) # 0
  BY <1>1, <1>7
<1>11. new.duration = Total(new.sampleDurations)
  <2>1. /\ track.duration = Total(track.sampleDurations)
        /\ new.duration = IF track.first THEN track.duration ELSE track.duration + delta
    BY <1>1 DEF TimesInv, AddSample, TrackType, new
  <2> HIDE DEF delta
  <2>2. Total(InsertBeforeLast(track.sampleDurations, delta))
          = Total(track.sampleDurations) + delta
    BY <1>1, <1>4, InsertBeforeLastTotal
  <2> QED
    BY <1>6, <2>1, <2>2
<1>12. new.timeScale # 0
  BY <1>6 DEF TimesInv
<1> QED
  BY <1>3, <1>6, <1>7, <1>8, <1>9, <1>10, <1>11, <1>12 DEF TimesInv, new, pts

-----------------------------------------------------------------------------
(* The decoding times, by induction: the first sample of which something   *)
(* does not hold would not be the first.                                   *)

SumsUp(times, n, durations) ==
  times = [k \in 1..n |-> IF k = 1 THEN 0 ELSE times[k - 1] + durations[k - 1]]

LEMMA SumsExist == ASSUME NEW n \in Nat, NEW d PROVE \E times : SumsUp(times, n, d)
<1> DEFINE Bad == {m \in Nat : ~\E times : SumsUp(times, m, d)}
<1>1. 0 \notin Bad
  <2> DEFINE none == [k \in 1..0 |-> 0]
  <2>1. SumsUp(none, 0, d)
    BY DEF SumsUp
  <2> QED
    BY <2>1
<1>2. ASSUME NEW m \in Nat, m \notin Bad PROVE m + 1 \notin Bad
  <2>1. PICK times : SumsUp(times, m, d)
    BY <1>2
  <2> DEFINE more == [k \in 1..m + 1 |-> IF k = 1 THEN 0 ELSE times[k - 1] + d[k - 1]]
  <2>2. \A k \in 1..m : times[k] = IF k = 1 THEN 0 ELSE times[k - 1] + d[k - 1]
    BY <2>1 DEF SumsUp
  <2>3. \A k \in 1..m : k \in 1..m + 1 /\ more[k] = times[k]
    BY <2>2
  <2> HIDE DEF more
  <2>4. ASSUME NEW k \in 1..m + 1, k # 1 PROVE more[k - 1] = times[k - 1]
    <3>1. k - 1 \in 1..m
      BY <2>4
    <3> QED
      BY <2>3, <3>1
  <2>5. more = [k \in 1..m + 1 |-> IF k = 1 THEN 0 ELSE more[k - 1] + d[k - 1]]
    BY <2>4 DEF more
  <2>6. SumsUp(more, m + 1, d)
    BY <2>5 DEF SumsUp
  <2> QED
    BY <2>6
<1> HIDE DEF Bad
<1>3. SUFFICES ASSUME Bad # {} PROVE FALSE
  BY DEF Bad
<1>4. PICK x \in Bad : \A y \in Bad : x <= y
  BY <1>3, LeastNatural DEF Bad
<1>5. x \in Nat /\ x # 0
  BY <1>1, <1>4 DEF Bad
<1>6. x - 1 \in Nat /\ x - 1 \notin Bad
  BY <1>4, <1>5
<1>7. (x - 1) + 1 \notin Bad
  BY <1>2, <1>6
<1> QED
  BY <1>4, <1>5, <1>7

LEMMA DecodingTimesSum ==
  ASSUME NEW track, Len(track.samples) \in Nat
  PROVE  SumsUp(DecodingTimes(track), Len(track.samples), track.sampleDurations)
<1>1. DecodingTimes(track)
        = CHOOSE times : SumsUp(times, Len(track.samples), track.sampleDurations)
  BY DEF DecodingTimes, SumsUp
<1>2. \E times : SumsUp(times, Len(track.samples), track.sampleDurations)
  BY SumsExist
<1> QED
  BY <1>1, <1>2

(* The distance that a sample can have drifted grows by half a tick. *)
LEMMA TrackDrift ==
  ASSUME NEW track, TimesInv(track), NEW k \in 1..Len(track.samples)
  PROVE  2 * Drift(track, k) <= Second * (k - 1) /\ -2 * Drift(track, k) <= Second * (k - 1)
<1> DEFINE n == Len(track.samples)
           times == DecodingTimes(track)
           pts(i) == track.samples[i].pts
           Near(i) == /\ times[i] \in Int
                      /\ 2 * Drift(track, i) <= Second * (i - 1)
                      /\ -2 * Drift(track, i) <= Second * (i - 1)
           Bad == {i \in 1..n : ~Near(i)}
<1>1. n \in Nat /\ Second \in Nat \ {0} /\ track.timeScale \in Nat
  BY ClockAssumption DEF TimesInv, TrackType
<1>2. \A i \in 1..n : pts(i) \in Int
  <2>1. track.samples \in Seq(SampleType)
    BY DEF TimesInv, TrackType
  <2>2. \A i \in 1..n : track.samples[i] \in SampleType
    BY <2>1
  <2> QED
    BY <2>2 DEF SampleType
<1>3. \A i \in 1..n : times[i] = IF i = 1 THEN 0 ELSE times[i - 1] + track.sampleDurations[i - 1]
  BY <1>1, DecodingTimesSum DEF SumsUp
<1>4. \A i \in 1..n : Drift(track, i) = times[i] * Second - (pts(i) - pts(1)) * track.timeScale
  BY DEF Drift
<1> HIDE DEF times, pts
<1>5. n >= 1 => Near(1)
  <2>1. SUFFICES ASSUME n >= 1 PROVE Near(1)
    OBVIOUS
  <2>2. 1 \in 1..n
    BY <1>1, <2>1
  <2>3. times[1] = 0
    BY <1>3, <2>2
  <2>4. Drift(track, 1) = 0 * Second - 0 * track.timeScale
    BY <1>2, <1>4, <2>2, <2>3
  <2>5. Drift(track, 1) = 0
    BY <1>1, <2>4
  <2> QED
    BY <1>1, <2>3, <2>5
<1>6. ASSUME NEW i \in 1..n - 1, Near(i) PROVE Near(i + 1)
  <2> DEFINE us == pts(i + 1) - pts(i)
             ticks == track.sampleDurations[i]
             far == times[i] * Second
             exact == (pts(i) - pts(1)) * track.timeScale
  <2>1. i \in 1..n /\ i + 1 \in 1..n /\ 1 \in 1..n /\ i \in Int
    BY <1>1
  <2>2. us \in Nat /\ ticks = Ticks(us, track.timeScale)
    <3>1. /\ track.samples[i].pts <= track.samples[i + 1].pts
          /\ track.sampleDurations[i]
               = Ticks(track.samples[i + 1].pts - track.samples[i].pts, track.timeScale)
      BY DEF TimesInv
    <3> QED
      BY <1>2, <2>1, <3>1 DEF pts
  <2>3. /\ ticks \in Int
        /\ 2 * (ticks * Second - us * track.timeScale) <= Second
        /\ -2 * (ticks * Second - us * track.timeScale) <= Second
    BY <1>1, <2>2, RoundingBounds
  <2>4. times[i + 1] = times[i] + ticks
    BY <1>3, <2>1
  <2>5. times[i] \in Int /\ times[i + 1] \in Int
    BY <1>6, <2>3, <2>4
  <2>6. times[i + 1] * Second = far + ticks * Second
    BY <1>1, <2>3, <2>4, <2>5
  <2>7. (pts(i + 1) - pts(1)) * track.timeScale = exact + us * track.timeScale
    BY <1>1, <1>2, <2>1
  <2>8. far \in Int /\ exact \in Int /\ ticks * Second \in Int /\ us * track.timeScale \in Int
    <3>1. \A a \in Int, b \in Int : a * b \in Int
      OBVIOUS
    <3>2. pts(i) - pts(1) \in Int /\ us \in Int /\ Second \in Int /\ track.timeScale \in Int
      BY <1>1, <1>2, <2>1
    <3> HIDE DEF us, ticks
    <3> QED
      BY <2>3, <2>5, <3>1, <3>2
  <2>9. Drift(track, i) = far - exact
    BY <1>4, <2>1
  <2>10. Drift(track, i + 1) = (far - exact) + (ticks * Second - us * track.timeScale)
    BY <1>4, <2>1, <2>6, <2>7, <2>8
  <2>11. Second * ((i + 1) - 1) = Second * (i - 1) + Second /\ Second * (i - 1) \in Int
    BY <1>1, <2>1
  <2> DEFINE more == ticks * Second - us * track.timeScale
             bound == Second * (i - 1)
  <2>12. more \in Int /\ 2 * more <= Second /\ -2 * more <= Second
    BY <2>3, <2>8
  <2>13. bound \in Int /\ 2 * (far - exact) <= bound /\ -2 * (far - exact) <= bound
    BY <1>6, <2>9, <2>11
  <2> HIDE DEF far, exact, more, bound
  <2>14. 2 * ((far - exact) + more) <= bound + Second /\ -2 * ((far - exact) + more) <= bound + Second
    BY <1>1, <2>8, <2>12, <2>13
  <2> QED
    BY <2>5, <2>10, <2>11, <2>14 DEF more, bound
<1> HIDE DEF Near
<1>7. Bad = {}
  <2>1. SUFFICES ASSUME Bad # {} PROVE FALSE
    OBVIOUS
  <2>2. PICK x \in Bad : \A y \in Bad : x <= y
    <3>1. Bad \in SUBSET Nat
      BY <1>1
    <3> HIDE DEF Bad
    <3> QED
      BY <2>1, <3>1, LeastNatural
  <2>3. x \in 1..n /\ ~Near(x)
    BY <2>2
  <2>4. x # 1
    BY <1>1, <1>5, <2>3
  <2>5. x - 1 \in 1..n - 1 /\ x - 1 \in 1..n /\ (x - 1) + 1 = x /\ ~(x <= x - 1)
    BY <1>1, <2>3, <2>4
  <2>6. Near(x - 1)
    BY <2>2, <2>5
  <2>7. Near((x - 1) + 1)
    BY <1>6, <2>5, <2>6
  <2> QED
    BY <2>3, <2>5, <2>7
<1> QED
  BY <1>7 DEF Near

LEMMA DriftStep == DriftInv /\ [Next]_vars => DriftInv'
<1> SUFFICES ASSUME DriftInv, [Next]_vars PROVE DriftInv'
  OBVIOUS
<1>1. TypeOK /\ TypeOK' /\ tracks \in Seq(TrackType) /\ tracks' \in Seq(TrackType)
  BY TypeStep DEF DriftInv, TypeOK
<1>2. CASE UNCHANGED tracks
  BY <1>1, <1>2 DEF DriftInv
<1>3. ASSUME NEW isAudio \in BOOLEAN, AddTrack(isAudio) PROVE DriftInv'
  <2>1. tracks' = Append(tracks, NewTrack(isAudio)) /\ NewTrack(isAudio) \in TrackType
    BY <1>3, NewTrackType DEF AddTrack
  <2>2. ASSUME NEW t \in 1..Len(tracks') PROVE TimesInv(tracks'[t])
    <3>1. CASE t \in 1..Len(tracks)
      <4>1. tracks'[t] = tracks[t]
        BY <1>1, <2>1, <3>1
      <4> QED
        BY <3>1, <4>1 DEF DriftInv
    <3>2. CASE t \notin 1..Len(tracks)
      <4>1. tracks'[t] = NewTrack(isAudio)
        BY <1>1, <2>1, <3>2
      <4> QED
        BY <4>1, NewTrackTimes
    <3> QED
      BY <3>1, <3>2
  <2> QED
    BY <1>1, <2>2 DEF DriftInv
<1>4. ASSUME NEW t, NEW size, NEW step \in PtsSteps, NEW offset \in Nat, CanWriteTo(t, size),
             tracks' = MovieWithSample(t, offset, size, step)
      PROVE  DriftInv'
  <2>1. CASE t = NoTrack
    BY <1>2, <1>4, <2>1 DEF MovieWithSample
  <2>2. CASE t # NoTrack
    <3> DEFINE new == AddSample(tracks[t], offset, size, tracks[t].lastPresentationTime + step)
    <3>1. t \in 1..Len(tracks) /\ size \in Nat /\ step \in Nat
      BY <1>1, <1>4, <2>2, CallTypes, SizeAssumption DEF NoTrack
    <3>2. TimesInv(new)
      BY <3>1, AddSampleTimes DEF DriftInv
    <3>3. tracks' = [tracks EXCEPT ![t] = new]
      BY <1>4, <2>2 DEF MovieWithSample
    <3> HIDE DEF new
    <3>4. ASSUME NEW u \in 1..Len(tracks') PROVE TimesInv(tracks'[u])
      <4>1. u \in 1..Len(tracks) /\ tracks'[u] = IF u = t THEN new ELSE tracks[u]
        BY <1>1, <3>1, <3>3
      <4> QED
        BY <3>2, <4>1 DEF DriftInv
    <3> QED
      BY <1>1, <3>4 DEF DriftInv
  <2> QED
    BY <2>1, <2>2
<1>5. ASSUME NEW t, NEW size, CanWriteTo(t, size) PROVE Prepared(out, size).dataOffset \in Nat
  BY <1>1, <1>5, CallTypes, PreparedType DEF TypeOK, OutType
<1>6. ASSUME NEW t, NEW size, NEW step \in PtsSteps, WriteSampleData(t, size, step)
      PROVE  DriftInv'
  BY <1>4, <1>5, <1>6 DEF WriteSampleData
<1>7. ASSUME NEW t, NEW size, NEW step \in PtsSteps, WriteFails(t, size, step)
      PROVE  DriftInv'
  <2>1. CASE OpenMdatThrows \/ FlushThrows(size)
    BY <1>2, <2>1 DEF OpenMdatThrows, FlushThrows
  <2>2. CASE AppendThrows(t, size, step)
    BY <1>4, <1>5, <1>7, <2>2 DEF AppendThrows, WriteFails
  <2> QED
    BY <1>7, <2>1, <2>2 DEF WriteFails
<1>8. CASE CreateMovie \/ ConversionFails \/ FinishMovie \/ FinishFails
  BY <1>2, <1>8 DEF CreateMovie, ConversionFails, FinishMovie, FinishFails
<1> QED
  BY <1>2, <1>3, <1>6, <1>7, <1>8 DEF Next, vars

LEMMA DriftInit == Init => DriftInv
<1> SUFFICES ASSUME Init PROVE DriftInv
  OBVIOUS
<1>1. tracks = << >>
  BY DEF Init
<1>2. 1..Len(tracks) = {}
  BY <1>1
<1> QED
  BY <1>2, TypeInit DEF DriftInv

(* A player shows no sample further from its time stamp than half a tick   *)
(* for each sample before it, however long the recording is and whatever   *)
(* the clocks: addSample rounds each step by itself, and the durations     *)
(* that createStts writes are these steps.                                 *)
THEOREM TimesAreNear == Spec => []DriftBounded
<1>1. DriftInv => DriftBounded
  BY TrackDrift DEF DriftInv, DriftBounded
<1> QED
  BY <1>1, DriftInit, DriftStep, PTL DEF Spec

-----------------------------------------------------------------------------
(* Run lengths (stts).  After k durations the runs hold k samples, and the  *)
(* run that a sample is in has that sample's duration.                      *)

RunType == [count : Nat \ {0}, delta : Int]

Encodes(entries, durations, k) ==
  LET counts == RunCounts(entries)
  IN  /\ entries \in Seq(RunType)
      /\ Total(counts) = k
      /\ \A i \in 1..Len(entries), j \in 1..k :
            (Totals(counts)[i - 1] < j /\ j <= Totals(counts)[i])
              => entries[i].delta = durations[j]

SttsLoop(after, durations) ==
  after = [k \in 0..Len(durations) |->
             IF k = 0 THEN << >> ELSE AddDuration(after[k - 1], durations[k])]

LEMMA RunCountsType ==
  ASSUME NEW e \in Seq(RunType)
  PROVE  /\ RunCounts(e) \in Seq(Nat) /\ RunCounts(e) \in Seq(Int)
         /\ Len(RunCounts(e)) = Len(e)
         /\ \A i \in 1..Len(e) : RunCounts(e)[i] = e[i].count
<1> DEFINE n == Len(e)
<1>1. n \in Nat /\ \A i \in 1..n : e[i] \in RunType
  OBVIOUS
<1>2. n \in Nat /\ \A i \in 1..n : e[i].count \in Nat /\ e[i].count \in Int
  BY <1>1 DEF RunType
<1>3. RunCounts(e) = [i \in 1..n |-> e[i].count]
  BY DEF RunCounts
<1> HIDE DEF n
<1>4. RunCounts(e) \in Seq(Nat)
  BY <1>2, <1>3
<1>5. RunCounts(e) \in Seq(Int)
  BY <1>2, <1>3
<1>6. Len(RunCounts(e)) = n
  BY <1>2, <1>3
<1>7. \A i \in 1..n : RunCounts(e)[i] = e[i].count
  BY <1>3
<1> QED
  BY <1>4, <1>5, <1>6, <1>7 DEF n

LEMMA AddDurationType ==
  ASSUME NEW e \in Seq(RunType), NEW delta \in Int
  PROVE  AddDuration(e, delta) \in Seq(RunType)
<1>1. CASE e # << >> /\ e[Len(e)].delta = delta
  <2>1. Len(e) \in 1..Len(e) /\ e[Len(e)] \in RunType
    BY <1>1
  <2>2. [e[Len(e)] EXCEPT !.count = @ + 1] \in RunType
    <3>1. ASSUME NEW r \in RunType PROVE [r EXCEPT !.count = @ + 1] \in RunType
      <4>1. r.count + 1 \in Nat \ {0}
        BY DEF RunType
      <4> QED
        BY <4>1 DEF RunType
    <3> QED
      BY <2>1, <3>1
  <2>3. AddDuration(e, delta) = [e EXCEPT ![Len(e)] = [e[Len(e)] EXCEPT !.count = @ + 1]]
    BY <1>1 DEF AddDuration
  <2> QED
    BY <2>1, <2>2, <2>3
<1>2. CASE ~(e # << >> /\ e[Len(e)].delta = delta)
  <2>1. [count |-> 1, delta |-> delta] \in RunType
    BY DEF RunType
  <2>2. AddDuration(e, delta) = Append(e, [count |-> 1, delta |-> delta])
    BY <1>2 DEF AddDuration
  <2> QED
    BY <2>1, <2>2
<1> QED
  BY <1>1, <1>2

LEMMA SttsLoopHolds ==
  ASSUME NEW d \in Seq(Int)
  PROVE  SttsLoop(SttsAfter(d), d)
<1> DEFINE n == Len(d)
           turn == [p \in Seq(RunType) \X (1..n) |-> AddDuration(p[1], d[p[2]])]
<1>1. n \in Nat /\ \A k \in 1..n : d[k] \in Int
  OBVIOUS
<1> HIDE DEF n
<1>2. ASSUME NEW p \in Seq(RunType) \X (1..n) PROVE AddDuration(p[1], d[p[2]]) \in Seq(RunType)
  BY <1>1, AddDurationType
<1>3. turn \in [Seq(RunType) \X (1..n) -> Seq(RunType)]
  BY <1>2
<1>4. \A e \in Seq(RunType), k \in 1..n : turn[<<e, k>>] = AddDuration(e, d[k])
  OBVIOUS
<1> HIDE DEF turn
<1>5. << >> \in Seq(RunType)
  OBVIOUS
<1>6. PICK f : LoopOf(f, n, Seq(RunType), << >>, turn)
  BY <1>1, <1>3, <1>5, LoopExists
<1>7. f \in [0..n -> Seq(RunType)] /\ f[0] = << >>
  BY <1>6 DEF LoopOf
<1>8. ASSUME NEW k \in 1..n PROVE f[k] = AddDuration(f[k - 1], d[k])
  <2>1. k - 1 \in 0..n
    BY <1>1
  <2>2. f[k - 1] \in Seq(RunType)
    BY <1>7, <2>1
  <2>3. f[k] = turn[<<f[k - 1], k>>]
    BY <1>6 DEF LoopOf
  <2> QED
    BY <1>4, <2>2, <2>3
<1>9. \A k \in 0..n : f[k] = IF k = 0 THEN << >> ELSE AddDuration(f[k - 1], d[k])
  <2>1. \A k \in 0..n : k # 0 => k \in 1..n
    BY <1>1
  <2> QED
    BY <1>7, <1>8, <2>1
<1>10. f = [k \in 0..n |-> IF k = 0 THEN << >> ELSE AddDuration(f[k - 1], d[k])]
  BY <1>7, <1>9
<1>11. SttsLoop(f, d)
  BY <1>10 DEF SttsLoop, n
<1>12. SttsAfter(d) = CHOOSE g : SttsLoop(g, d)
  BY DEF SttsAfter, SttsLoop
<1> QED
  BY <1>11, <1>12

LEMMA Below ==
  ASSUME NEW m \in Nat, NEW i \in 1..m, i # m
  PROVE  i \in 1..m - 1 /\ i \in 0..m - 1 /\ i - 1 \in 0..m - 1 /\ i \in 0..m
<1>1. i \in Nat /\ i >= 1 /\ i <= m - 1
  OBVIOUS
<1> QED
  BY <1>1

(* A new run at the end, or one more sample in the last run. *)
LEMMA EncodesNewRun ==
  ASSUME NEW d \in Seq(Int), NEW k \in 1..Len(d), NEW e, Encodes(e, d, k - 1),
         NEW e2, e2 = Append(e, [count |-> 1, delta |-> d[k]])
  PROVE  Encodes(e2, d, k)
<1> DEFINE m == Len(e)
           run == [count |-> 1, delta |-> d[k]]
           before == Totals(RunCounts(e))
           total == Totals(RunCounts(e2))
<1>1. e \in Seq(RunType) /\ m \in Nat /\ d[k] \in Int /\ k \in Nat
  BY DEF Encodes
<1>2. run \in RunType
  BY <1>1 DEF RunType
<1>3. e2 = Append(e, run)
  OBVIOUS
<1> HIDE DEF run
<1>4. e2 \in Seq(RunType) /\ Len(e2) = m + 1
  BY <1>1, <1>2, <1>3
<1>5. e2[m + 1] = run /\ \A i \in 1..m : e2[i] = e[i]
  BY <1>1, <1>2, <1>3
<1>6. run.count = 1 /\ run.delta = d[k]
  BY DEF run
<1>7. /\ RunCounts(e) \in Seq(Int) /\ Len(RunCounts(e)) = m
      /\ RunCounts(e2) \in Seq(Int) /\ Len(RunCounts(e2)) = m + 1
  BY <1>1, <1>4, RunCountsType
<1>8. /\ \A i \in 1..m : RunCounts(e)[i] = e[i].count
      /\ \A i \in 1..m + 1 : RunCounts(e2)[i] = e2[i].count
  BY <1>4 DEF RunCounts
<1>9. m <= m /\ m <= m + 1 /\ m + 1 \in 1..m + 1 /\ \A i \in 1..m : i \in 1..m + 1
  BY <1>1
<1>10. \A i \in 1..m : RunCounts(e)[i] = RunCounts(e2)[i]
  BY <1>5, <1>8, <1>9
<1>11. \A i \in 0..m : before[i] = total[i]
  BY <1>1, <1>7, <1>9, <1>10, TotalsOfPrefix
<1>12. m + 1 \in 1..Len(RunCounts(e2)) /\ RunCounts(e2)[m + 1] = 1
  <2>1. RunCounts(e2)[m + 1] = e2[m + 1].count
    BY <1>8, <1>9
  <2>2. e2[m + 1].count = 1
    BY <1>5, <1>6
  <2>3. m + 1 \in 1..Len(RunCounts(e2))
    BY <1>7, <1>9
  <2> QED
    BY <2>1, <2>2, <2>3
<1>13. total[m + 1] = total[m] + 1
  <2>1. total[m + 1] = total[(m + 1) - 1] + RunCounts(e2)[m + 1]
    BY <1>7, <1>12, TotalsLoop
  <2> QED
    BY <1>1, <1>12, <2>1
<1>14. before[m] = k - 1
  BY <1>7 DEF Encodes, Total
<1>15. \A i \in 0..m : before[i] \in Int /\ before[i] <= k - 1
  <2>1. m \in 0..Len(RunCounts(e)) /\ RunCounts(e) \in Seq(Nat)
    BY <1>1, <1>7, RunCountsType
  <2>2. \A i \in 0..m : before[i] <= before[m]
    BY <2>1, TotalsGrow
  <2>3. \A i \in 0..m : before[i] \in Int
    BY <1>7, TotalsLoop
  <2> QED
    BY <1>14, <2>2, <2>3
<1>16. \A i \in 1..m, j \in 1..k - 1 :
         (before[i - 1] < j /\ j <= before[i]) => e[i].delta = d[j]
  BY DEF Encodes
<1> HIDE DEF before, total, m
<1>17. total[m + 1] = k /\ total[m] = k - 1
  <2>1. m \in 0..m
    BY <1>1
  <2> QED
    BY <1>1, <1>11, <1>13, <1>14, <2>1
<1>18. ASSUME NEW i \in 1..m + 1, NEW j \in 1..k, total[i - 1] < j, j <= total[i]
       PROVE  e2[i].delta = d[j]
  <2>1. CASE i = m + 1
    <3>1. i - 1 = m
      BY <1>1, <2>1
    <3>2. j = k
      BY <1>1, <1>17, <1>18, <2>1, <3>1
    <3> QED
      BY <1>5, <1>6, <2>1, <3>2
  <2>2. CASE i # m + 1
    <3>1. i \in 1..m /\ i \in 0..m /\ i - 1 \in 0..m
      BY <1>1, <2>2
    <3>2. before[i - 1] < j /\ j <= before[i] /\ before[i] \in Int /\ before[i] <= k - 1
      BY <1>11, <1>15, <1>18, <3>1
    <3>3. j \in 1..k - 1
      BY <1>1, <3>2
    <3>4. e[i].delta = d[j]
      BY <1>16, <3>1, <3>2, <3>3
    <3> QED
      BY <1>5, <3>1, <3>4
  <2> QED
    BY <2>1, <2>2
<1>19. Total(RunCounts(e2)) = k
  BY <1>7, <1>17 DEF Total, total
<1> QED
  BY <1>4, <1>18, <1>19 DEF Encodes, total

LEMMA EncodesLongerRun ==
  ASSUME NEW d \in Seq(Int), NEW k \in 1..Len(d), NEW e, Encodes(e, d, k - 1),
         e # << >>, e[Len(e)].delta = d[k],
         NEW e2, e2 = [e EXCEPT ![Len(e)].count = @ + 1]
  PROVE  Encodes(e2, d, k)
<1> DEFINE m == Len(e)
           before == Totals(RunCounts(e))
           total == Totals(RunCounts(e2))
<1>1. e \in Seq(RunType) /\ m \in Nat \ {0} /\ d[k] \in Int /\ k \in Nat
  BY DEF Encodes
<1>2. e2 = AddDuration(e, d[k])
  BY DEF AddDuration
<1>3. e2 \in Seq(RunType)
  BY <1>1, <1>2, AddDurationType
<1>4. Len(e2) = m
  BY <1>1
<1>5. m \in 1..m /\ e[m] \in RunType
  BY <1>1
<1> DEFINE run == [e[m] EXCEPT !.count = @ + 1]
<1>6. e2 = [e EXCEPT ![m] = run]
  OBVIOUS
<1> HIDE DEF run
<1>7. e2[m] = run /\ \A i \in 1..m - 1 : e2[i] = e[i]
  BY <1>1, <1>5, <1>6
<1>8. e2[m] = [e[m] EXCEPT !.count = @ + 1] /\ \A i \in 1..m - 1 : e2[i] = e[i]
  BY <1>7 DEF run
<1>9. e2[m].count = e[m].count + 1 /\ e2[m].delta = e[m].delta
  BY <1>5, <1>8 DEF RunType
<1>10. /\ RunCounts(e) \in Seq(Int) /\ Len(RunCounts(e)) = m
       /\ RunCounts(e2) \in Seq(Int) /\ Len(RunCounts(e2)) = m
  BY <1>1, <1>3, <1>4, RunCountsType
<1>11. m - 1 \in Nat /\ m - 1 <= m /\ \A i \in 1..m - 1 : i \in 1..m
  BY <1>1
<1>12. /\ \A i \in 1..m : RunCounts(e)[i] = e[i].count
       /\ \A i \in 1..m : RunCounts(e2)[i] = e2[i].count
  BY <1>4 DEF RunCounts
<1>13. ASSUME NEW i \in 1..m - 1 PROVE RunCounts(e)[i] = RunCounts(e2)[i]
  <2>1. i \in 1..m
    BY <1>11
  <2>2. e2[i] = e[i]
    BY <1>8
  <2>3. RunCounts(e)[i] = e[i].count
    BY <1>12, <2>1
  <2>4. RunCounts(e2)[i] = e2[i].count
    BY <1>12, <2>1
  <2> QED
    BY <2>2, <2>3, <2>4
<1>14. \A i \in 0..m - 1 : before[i] = total[i]
  BY <1>10, <1>11, <1>13, TotalsOfPrefix
<1>15. RunCounts(e2)[m] = RunCounts(e)[m] + 1 /\ RunCounts(e)[m] \in Int
  <2>1. e[m].count \in Int
    BY <1>5 DEF RunType
  <2> QED
    BY <1>5, <1>9, <1>12, <2>1
<1>16. before[m] = before[m - 1] + RunCounts(e)[m] /\ total[m] = total[m - 1] + RunCounts(e2)[m]
  BY <1>5, <1>10, TotalsLoop
<1>17. before[m] = k - 1
  BY <1>10 DEF Encodes, Total
<1>18. \A i \in 0..m : before[i] \in Int /\ before[i] <= k - 1
  <2>1. m \in 0..Len(RunCounts(e)) /\ RunCounts(e) \in Seq(Nat)
    BY <1>1, <1>10, RunCountsType
  <2>2. \A i \in 0..m : before[i] <= before[m]
    BY <2>1, TotalsGrow
  <2>3. \A i \in 0..m : before[i] \in Int
    BY <1>10, TotalsLoop
  <2> QED
    BY <1>17, <2>2, <2>3
<1>19. \A i \in 1..m, j \in 1..k - 1 :
         (before[i - 1] < j /\ j <= before[i]) => e[i].delta = d[j]
  BY DEF Encodes
<1> HIDE DEF before, total, m
<1>20. m - 1 \in 0..m /\ m - 1 \in 0..m - 1
  BY <1>1
<1>21. total[m] = k /\ total[m - 1] = before[m - 1]
  <2>1. total[m - 1] = before[m - 1] /\ before[m - 1] \in Int
    BY <1>14, <1>18, <1>20
  <2>2. total[m] = before[m - 1] + (RunCounts(e)[m] + 1)
    BY <1>15, <1>16, <2>1
  <2>3. k - 1 = before[m - 1] + RunCounts(e)[m]
    BY <1>16, <1>17
  <2>4. \A b \in Int, r \in Int : k - 1 = b + r => k = b + (r + 1)
    BY <1>1
  <2>5. k = before[m - 1] + (RunCounts(e)[m] + 1)
    BY <1>15, <2>1, <2>3, <2>4
  <2> QED
    BY <2>1, <2>2, <2>5
<1>22. ASSUME NEW i \in 1..m, NEW j \in 1..k, total[i - 1] < j, j <= total[i]
       PROVE  e2[i].delta = d[j]
  <2>1. CASE i = m
    <3>1. CASE j = k
      <4>1. e[m].delta = d[k]
        BY DEF m
      <4> QED
        BY <1>9, <2>1, <3>1, <4>1
    <3>2. CASE j # k
      <4>1. j \in 1..k - 1
        BY <1>1, <3>2
      <4>2. before[m - 1] < j /\ j <= before[m]
        BY <1>1, <1>17, <1>21, <1>22, <2>1, <4>1
      <4>3. e[m].delta = d[j]
        BY <1>5, <1>19, <4>1, <4>2
      <4> QED
        BY <1>9, <2>1, <4>3
    <3> QED
      BY <3>1, <3>2
  <2>2. CASE i # m
    <3>1. i \in 1..m - 1 /\ i \in 0..m - 1 /\ i - 1 \in 0..m - 1 /\ i \in 0..m
      <4>1. m \in Nat
        BY <1>1
      <4> QED
        BY <2>2, <4>1, Below
    <3>2. before[i - 1] < j /\ j <= before[i] /\ before[i] \in Int /\ before[i] <= k - 1
      BY <1>14, <1>18, <1>22, <3>1
    <3>3. j \in 1..k - 1
      BY <1>1, <3>2
    <3>4. e[i].delta = d[j]
      BY <1>19, <3>2, <3>3
    <3> QED
      BY <1>8, <3>1, <3>4
  <2> QED
    BY <2>1, <2>2
<1>23. Total(RunCounts(e2)) = k
  BY <1>10, <1>21 DEF Total, total
<1> QED
  BY <1>3, <1>4, <1>22, <1>23 DEF Encodes, total

(* Reading the runs gives the durations back. *)
LEMMA SttsRight ==
  ASSUME NEW track, track.sampleDurations \in Seq(Int)
  PROVE  /\ Total(RunCounts(CreateStts(track))) = Len(track.sampleDurations)
         /\ \A k \in 1..Len(track.sampleDurations) :
               SampleDuration(CreateStts(track), k) = track.sampleDurations[k]
<1> DEFINE d == track.sampleDurations
           n == Len(d)
           after == SttsAfter(d)
           Good == {k \in 0..n : Encodes(after[k], d, k)}
<1>1. d \in Seq(Int) /\ n \in Nat
  OBVIOUS
<1>2. SttsLoop(after, d)
  BY SttsLoopHolds
<1> HIDE DEF d
<1>3. after = [k \in 0..n |-> IF k = 0 THEN << >> ELSE AddDuration(after[k - 1], d[k])]
  BY <1>2 DEF SttsLoop
<1> HIDE DEF after, n
<1>4. after[0] = << >>
  <2>1. 0 \in 0..n
    BY <1>1
  <2>2. \A k \in 0..n : after[k] = IF k = 0 THEN << >> ELSE AddDuration(after[k - 1], d[k])
    BY <1>3
  <2> QED
    BY <2>1, <2>2
<1>5. \A k \in 1..n : after[k] = AddDuration(after[k - 1], d[k])
  <2>1. \A k \in 1..n : k \in 0..n /\ k # 0
    BY <1>1
  <2>2. \A k \in 0..n : after[k] = IF k = 0 THEN << >> ELSE AddDuration(after[k - 1], d[k])
    BY <1>3
  <2> QED
    BY <2>1, <2>2
<1>6. Encodes(<< >>, d, 0)
  <2>1. << >> \in Seq(RunType) /\ Len(<< >>) = 0
    OBVIOUS
  <2>2. RunCounts(<< >>) \in Seq(Int) /\ Len(RunCounts(<< >>)) = 0
    BY <2>1, RunCountsType
  <2>3. Total(RunCounts(<< >>)) = 0
    BY <2>2, TotalsLoop DEF Total
  <2> QED
    BY <2>1, <2>3 DEF Encodes
<1>7. 0 \in Good
  BY <1>1, <1>4, <1>6
<1>8. ASSUME NEW k \in 1..n, k - 1 \in Good PROVE k \in Good
  <2> DEFINE e == after[k - 1]
  <2>1. Encodes(e, d, k - 1) /\ k \in 1..Len(d) /\ k \in 0..n
    BY <1>1, <1>8 DEF n
  <2>2. after[k] = AddDuration(e, d[k])
    BY <1>5
  <2> HIDE DEF e, Good
  <2>3. CASE e # << >> /\ e[Len(e)].delta = d[k]
    <3>1. after[k] = [e EXCEPT ![Len(e)].count = @ + 1]
      BY <2>2, <2>3 DEF AddDuration
    <3>2. Encodes(after[k], d, k)
      BY <1>1, <2>1, <2>3, <3>1, EncodesLongerRun
    <3> QED
      BY <2>1, <3>2 DEF Good
  <2>4. CASE ~(e # << >> /\ e[Len(e)].delta = d[k])
    <3>1. after[k] = Append(e, [count |-> 1, delta |-> d[k]])
      BY <2>2, <2>4 DEF AddDuration
    <3>2. Encodes(after[k], d, k)
      BY <1>1, <2>1, <3>1, EncodesNewRun
    <3> QED
      BY <2>1, <3>2 DEF Good
  <2> QED
    BY <2>3, <2>4
<1> HIDE DEF Good
<1>9. n \in Good
  <2>1. \A k \in 0..n : k \in Good
    BY <1>1, <1>7, <1>8, EveryTurn
  <2> QED
    BY <1>1, <2>1
<1> DEFINE stts == CreateStts(track)
           counts == RunCounts(stts)
<1>10. stts = after[n]
  BY DEF CreateStts, after, n, d
<1> HIDE DEF stts
<1>11. Encodes(stts, d, n)
  BY <1>9, <1>10 DEF Good
<1>12. stts \in Seq(RunType) /\ Total(counts) = n
  BY <1>11 DEF Encodes
<1>13. counts \in Seq(Nat) /\ Len(counts) = Len(stts)
  BY <1>12, RunCountsType
<1> HIDE DEF counts
<1>14. ASSUME NEW k \in 1..n PROVE SampleDuration(stts, k) = d[k]
  <2> DEFINE c == GroupOf(counts, k)
  <2>1. k \in 1..Total(counts)
    BY <1>12
  <2>2. IsGroup(counts, c, k)
    BY <1>13, <2>1, GroupFound
  <2>3. SampleDuration(stts, k) = stts[c].delta
    BY DEF SampleDuration, counts
  <2> HIDE DEF c
  <2>4. c \in 1..Len(stts) /\ Totals(counts)[c - 1] < k /\ k <= Totals(counts)[c]
    BY <1>13, <2>2 DEF IsGroup
  <2> QED
    BY <1>11, <2>3, <2>4 DEF Encodes, counts
<1> QED
  BY <1>12, <1>14 DEF stts, counts, n, d

-----------------------------------------------------------------------------
(* The clock of the movie: Euclid's algorithm finds a divisor of both.      *)

Divides(d, x) == \E q \in Nat : x = d * q

GcdLoop(result, b) ==
  result = [n \in 0..b |-> [m \in Nat |-> IF n = 0 THEN m ELSE result[m % n][n]]]

LEMMA Remainder ==
  ASSUME NEW m \in Nat, NEW n \in Nat \ {0}
  PROVE  m % n \in 0..n - 1
  OBVIOUS

LEMMA GcdLoopHolds ==
  ASSUME NEW b \in Nat
  PROVE  GcdLoop(GcdUpTo(b), b)
<1> DEFINE Good == {k \in 0..b : \E g : GcdLoop(g, k)}
<1>1. 0 \in Good
  <2> DEFINE g == [n \in 0..0 |-> [m \in Nat |-> m]]
  <2>1. g = [n \in 0..0 |-> [m \in Nat |-> IF n = 0 THEN m ELSE g[m % n][n]]]
    OBVIOUS
  <2> HIDE DEF g
  <2>2. GcdLoop(g, 0)
    BY <2>1 DEF GcdLoop
  <2> QED
    BY <2>2
<1>2. ASSUME NEW k \in 1..b, k - 1 \in Good PROVE k \in Good
  <2>1. PICK f : GcdLoop(f, k - 1)
    BY <1>2
  <2> DEFINE g == [n \in 0..k |-> IF n < k THEN f[n] ELSE [m \in Nat |-> f[m % k][k]]]
  <2>2. \A n \in 0..k - 1 : f[n] = [m \in Nat |-> IF n = 0 THEN m ELSE f[m % n][n]]
    BY <2>1 DEF GcdLoop
  <2>3. \A n \in 0..k - 1 : g[n] = f[n]
    OBVIOUS
  <2>4. g[k] = [m \in Nat |-> f[m % k][k]]
    OBVIOUS
  <2>5. g = [n \in 0..k |-> g[n]]
    OBVIOUS
  <2> HIDE DEF g
  <2>6. ASSUME NEW n \in 0..k
        PROVE  g[n] = [m \in Nat |-> IF n = 0 THEN m ELSE g[m % n][n]]
    <3>1. CASE n = k
      <4>1. \A m \in Nat : m % k \in 0..k - 1
        BY Remainder
      <4>2. \A m \in Nat : g[m % k] = f[m % k]
        BY <2>3, <4>1
      <4>3. [m \in Nat |-> f[m % k][k]] = [m \in Nat |-> IF k = 0 THEN m ELSE g[m % k][k]]
        BY <4>2
      <4> QED
        BY <2>4, <3>1, <4>3
    <3>2. CASE n # k
      <4>1. n \in 0..k - 1
        BY <3>2
      <4>2. ASSUME n # 0, NEW m \in Nat PROVE g[m % n] = f[m % n]
        <5>1. m % n \in 0..n - 1
          BY <4>2, Remainder
        <5>2. m % n \in 0..k - 1
          BY <4>1, <5>1
        <5> QED
          BY <2>3, <5>2
      <4>3. [m \in Nat |-> IF n = 0 THEN m ELSE f[m % n][n]]
              = [m \in Nat |-> IF n = 0 THEN m ELSE g[m % n][n]]
        BY <4>2
      <4> QED
        BY <2>2, <2>3, <4>1, <4>3
    <3> QED
      BY <3>1, <3>2
  <2>7. g = [n \in 0..k |-> [m \in Nat |-> IF n = 0 THEN m ELSE g[m % n][n]]]
    BY <2>5, <2>6
  <2>8. GcdLoop(g, k)
    BY <2>7 DEF GcdLoop
  <2> QED
    BY <2>8
<1> HIDE DEF Good
<1>3. b \in Good
  <2>1. \A k \in 0..b : k \in Good
    BY <1>1, <1>2, EveryTurn
  <2> QED
    BY <2>1
<1>4. \E g : GcdLoop(g, b)
  BY <1>3 DEF Good
<1>5. GcdUpTo(b) = CHOOSE g : GcdLoop(g, b)
  BY DEF GcdUpTo, GcdLoop
<1> QED
  BY <1>4, <1>5

LEMMA DividesSum ==
  ASSUME NEW d \in Nat, NEW m \in Nat, NEW n \in Nat \ {0}, Divides(d, n), Divides(d, m % n)
  PROVE  Divides(d, m)
<1>1. PICK p \in Nat : n = d * p
  BY DEF Divides
<1>2. PICK r \in Nat : m % n = d * r
  BY DEF Divides
<1> DEFINE q == m \div n
<1>3. q \in Nat /\ m = n * q + (m % n)
  OBVIOUS
<1> HIDE DEF q
<1>4. m = (d * p) * q + d * r
  BY <1>1, <1>2, <1>3
<1> DEFINE s == p * q
<1>5. (d * p) * q = d * s /\ s \in Nat
  BY <1>3
<1> HIDE DEF s
<1>6. d * s + d * r = d * (s + r) /\ s + r \in Nat
  BY <1>5
<1> QED
  BY <1>4, <1>5, <1>6 DEF Divides

LEMMA DividesSelf ==
  ASSUME NEW d \in Nat
  PROVE  Divides(d, d) /\ Divides(d, 0)
<1>1. d = d * 1 /\ 0 = d * 0 /\ 1 \in Nat /\ 0 \in Nat
  OBVIOUS
<1> QED
  BY <1>1 DEF Divides

LEMMA DividesTransitive ==
  ASSUME NEW d \in Nat, NEW e \in Nat, NEW x, Divides(d, e), Divides(e, x)
  PROVE  Divides(d, x)
<1>1. PICK p \in Nat : e = d * p
  BY DEF Divides
<1>2. PICK q \in Nat : x = e * q
  BY DEF Divides
<1>3. x = d * (p * q) /\ p * q \in Nat
  BY <1>1, <1>2
<1> QED
  BY <1>3 DEF Divides

LEMMA DividesNoRemainder ==
  ASSUME NEW d \in Nat \ {0}, NEW x \in Nat, Divides(d, x)
  PROVE  x % d = 0
<1>1. PICK q \in Nat : x = d * q
  BY DEF Divides
<1> DEFINE k == x \div d
           r == x % d
<1>2. k \in Nat /\ r \in 0..d - 1 /\ x = d * k + r
  OBVIOUS
<1> HIDE DEF k, r
<1>3. d * (q - k) = r /\ q - k \in Int
  BY <1>1, <1>2
<1>4. CASE q - k >= 1
  <2>1. d * (q - k) >= d
    BY <1>3, <1>4
  <2> QED
    BY <1>2, <1>3, <2>1
<1>5. CASE q - k <= -1
  <2>1. d * (q - k) <= -d
    BY <1>3, <1>5
  <2> QED
    BY <1>2, <1>3, <2>1
<1>6. CASE q - k = 0
  BY <1>2, <1>3, <1>6 DEF r
<1> QED
  BY <1>3, <1>4, <1>5, <1>6

CommonDivisor(d, m, n) == d \in Nat \ {0} /\ Divides(d, m) /\ Divides(d, n)

LEMMA GcdDivides ==
  ASSUME NEW m \in Nat, NEW n \in Nat \ {0}
  PROVE  CommonDivisor(gcd(m, n), m, n)
<1> DEFINE result == GcdUpTo(n)
           Right(i) == \A x \in Nat : (x # 0 \/ i # 0) => CommonDivisor(result[i][x], x, i)
           Good == {k \in 0..n : \A i \in 0..k : Right(i)}
<1>1. result = [i \in 0..n |-> [x \in Nat |-> IF i = 0 THEN x ELSE result[x % i][i]]]
  BY GcdLoopHolds DEF GcdLoop
<1> HIDE DEF result
<1>2. \A i \in 0..n : result[i] = [x \in Nat |-> IF i = 0 THEN x ELSE result[x % i][i]]
  BY <1>1
<1>3. ASSUME NEW i \in 0..n, NEW x \in Nat
      PROVE  result[i][x] = IF i = 0 THEN x ELSE result[x % i][i]
  <2>1. result[i] = [y \in Nat |-> IF i = 0 THEN y ELSE result[y % i][i]]
    BY <1>2
  <2> QED
    BY <2>1
<1>4. Right(0)
  <2>1. ASSUME NEW x \in Nat, x # 0 PROVE CommonDivisor(result[0][x], x, 0)
    <3>1. result[0][x] = x
      BY <1>3
    <3> QED
      BY <2>1, <3>1, DividesSelf DEF CommonDivisor
  <2> QED
    BY <2>1
<1>5. ASSUME NEW k \in 1..n, k - 1 \in Good PROVE k \in Good
  <2>1. \A i \in 0..k - 1 : Right(i)
    BY <1>5
  <2>2. ASSUME NEW x \in Nat PROVE CommonDivisor(result[k][x], x, k)
    <3>1. x % k \in 0..k - 1 /\ k \in Nat \ {0} /\ k \in 0..n
      BY Remainder
    <3>2. CommonDivisor(result[x % k][k], k, x % k)
      BY <2>1, <3>1
    <3>3. result[k][x] = result[x % k][k]
      BY <1>3, <3>1
    <3>4. CommonDivisor(result[k][x], k, x % k)
      BY <3>2, <3>3
    <3> QED
      BY <3>1, <3>4, DividesSum DEF CommonDivisor
  <2>3. Right(k)
    BY <2>2
  <2> HIDE DEF Right
  <2>4. \A i \in 0..k : i \in 0..k - 1 \/ i = k
    OBVIOUS
  <2> QED
    BY <2>1, <2>3, <2>4
<1>6. 0 \in Good
  <2> HIDE DEF Right
  <2>1. \A i \in 0..0 : i = 0
    OBVIOUS
  <2> QED
    BY <1>4, <2>1
<1>7. n \in Good
  <2> HIDE DEF Good
  <2>1. \A k \in 0..n : k \in Good
    BY <1>5, <1>6, EveryTurn
  <2> QED
    BY <2>1
<1>8. Right(n)
  BY <1>7
<1>9. CommonDivisor(result[n][m], m, n)
  BY <1>8
<1> QED
  BY <1>9 DEF gcd, result

(* The time scale of the movie divides that of every track. *)
TimescaleLoop(after, list) ==
  after = [k \in 0..Len(list) |->
             IF k = 0 THEN list[1].timeScale ELSE gcd(list[k].timeScale, after[k - 1])]

Scales(list) == \A k \in 1..Len(list) : list[k].timeScale \in Nat \ {0}

LEMMA TimescaleLoopHolds ==
  ASSUME NEW list, Len(list) \in Nat \ {0}, Scales(list)
  PROVE  TimescaleLoop(TimescaleAfter(list), list)
<1> DEFINE n == Len(list)
           S == Nat \ {0}
           turn == [p \in S \X (1..n) |-> gcd(list[p[2]].timeScale, p[1])]
<1>1. n \in Nat /\ list[1].timeScale \in S /\ \A k \in 1..n : list[k].timeScale \in S
  BY DEF Scales
<1> HIDE DEF n
<1>2. ASSUME NEW s \in S, NEW k \in 1..n PROVE gcd(list[k].timeScale, s) \in S
  BY <1>1, GcdDivides DEF CommonDivisor
<1>3. turn \in [S \X (1..n) -> S]
  <2>1. \A p \in S \X (1..n) : p[1] \in S /\ p[2] \in 1..n
    OBVIOUS
  <2> HIDE DEF S
  <2> QED
    BY <1>2, <2>1
<1>4. \A s \in S, k \in 1..n : turn[<<s, k>>] = gcd(list[k].timeScale, s)
  OBVIOUS
<1> HIDE DEF turn, S
<1>5. PICK f : LoopOf(f, n, S, list[1].timeScale, turn)
  BY <1>1, <1>3, LoopExists
<1>6. f \in [0..n -> S] /\ f[0] = list[1].timeScale
  BY <1>5 DEF LoopOf
<1>7. ASSUME NEW k \in 1..n PROVE f[k] = gcd(list[k].timeScale, f[k - 1])
  <2>1. k - 1 \in 0..n
    BY <1>1
  <2>2. f[k - 1] \in S
    BY <1>6, <2>1
  <2>3. f[k] = turn[<<f[k - 1], k>>]
    BY <1>5 DEF LoopOf
  <2> QED
    BY <1>4, <2>2, <2>3
<1>8. \A k \in 0..n : f[k] = IF k = 0 THEN list[1].timeScale ELSE gcd(list[k].timeScale, f[k - 1])
  <2>1. \A k \in 0..n : k # 0 => k \in 1..n
    BY <1>1
  <2> QED
    BY <1>6, <1>7, <2>1
<1>9. f = [k \in 0..n |-> IF k = 0 THEN list[1].timeScale ELSE gcd(list[k].timeScale, f[k - 1])]
  BY <1>6, <1>8
<1>10. TimescaleLoop(f, list)
  BY <1>9 DEF TimescaleLoop, n
<1>11. TimescaleAfter(list) = CHOOSE g : TimescaleLoop(g, list)
  BY DEF TimescaleAfter, TimescaleLoop
<1> QED
  BY <1>10, <1>11

LEMMA TimescaleDivides ==
  ASSUME NEW list, Len(list) \in Nat \ {0}, Scales(list)
  PROVE  /\ GetTimescale(list) \in Nat \ {0}
         /\ \A t \in 1..Len(list) : Divides(GetTimescale(list), list[t].timeScale)
<1> DEFINE n == Len(list)
           after == TimescaleAfter(list)
           Sound(k) == /\ after[k] \in Nat \ {0}
                       /\ \A t \in 1..k : Divides(after[k], list[t].timeScale)
           Good == {k \in 0..n : Sound(k)}
<1>1. n \in Nat \ {0} /\ \A k \in 1..n : list[k].timeScale \in Nat \ {0}
  BY DEF Scales
<1>2. after = [k \in 0..n |->
                 IF k = 0 THEN list[1].timeScale ELSE gcd(list[k].timeScale, after[k - 1])]
  BY TimescaleLoopHolds DEF TimescaleLoop
<1> HIDE DEF after, n
<1>3. \A k \in 0..n :
        after[k] = IF k = 0 THEN list[1].timeScale ELSE gcd(list[k].timeScale, after[k - 1])
  BY <1>2
<1>4. Sound(0)
  <2>1. 0 \in 0..n /\ 1 \in 1..n
    BY <1>1
  <2>2. after[0] = list[1].timeScale
    BY <1>3, <2>1
  <2> QED
    BY <1>1, <2>1, <2>2
<1>5. ASSUME NEW k \in 1..n, Sound(k - 1) PROVE Sound(k)
  <2>1. k \in 0..n /\ k # 0
    BY <1>1
  <2>2. after[k] = gcd(list[k].timeScale, after[k - 1])
    BY <1>3, <2>1
  <2>3. CommonDivisor(after[k], list[k].timeScale, after[k - 1])
    <3>1. list[k].timeScale \in Nat /\ after[k - 1] \in Nat \ {0}
      BY <1>1, <1>5
    <3> QED
      BY <2>2, <3>1, GcdDivides
  <2>4. after[k] \in Nat \ {0} /\ after[k] \in Nat /\ Divides(after[k], list[k].timeScale)
        /\ Divides(after[k], after[k - 1])
    BY <2>3 DEF CommonDivisor
  <2>5. ASSUME NEW t \in 1..k PROVE Divides(after[k], list[t].timeScale)
    <3>1. CASE t = k
      BY <2>4, <3>1
    <3>2. CASE t # k
      <4>1. t \in 1..k - 1 /\ after[k - 1] \in Nat
        BY <1>5, <3>2
      <4>2. Divides(after[k - 1], list[t].timeScale)
        BY <1>5, <4>1
      <4> QED
        BY <2>4, <4>1, <4>2, DividesTransitive
    <3> QED
      BY <3>1, <3>2
  <2> QED
    BY <2>4, <2>5
<1> HIDE DEF Sound
<1>6. 0 \in Good /\ \A k \in 1..n : k - 1 \in Good => k \in Good
  <2>1. 0 \in 0..n /\ \A k \in 1..n : k \in 0..n
    BY <1>1
  <2> QED
    BY <1>4, <1>5, <2>1
<1> HIDE DEF Good
<1>7. n \in Good
  <2>1. \A k \in 0..n : k \in Good
    BY <1>1, <1>6, EveryTurn
  <2> QED
    BY <1>1, <2>1
<1>8. Sound(n)
  BY <1>7 DEF Good
<1>9. GetTimescale(list) = after[n]
  <2>1. list # << >>
    BY <1>1 DEF n
  <2> QED
    BY <2>1 DEF GetTimescale, after, n
<1> QED
  BY <1>8, <1>9 DEF Sound, n

(* No track is longer than the movie. *)
LongestLoop(after, list) ==
  after = [k \in 0..Len(list) |->
             IF k = 0 THEN 0 ELSE Longer(after[k - 1], MovieTicks(list[k], list))]

MovieTimes(list) == \A k \in 1..Len(list) : MovieTicks(list[k], list) \in Int

LEMMA LongestLoopHolds ==
  ASSUME NEW list, Len(list) \in Nat, MovieTimes(list)
  PROVE  LongestLoop(LongestAfter(list), list) /\ LongestAfter(list) \in [0..Len(list) -> Int]
<1> DEFINE n == Len(list)
           turn == [p \in Int \X (1..n) |-> Longer(p[1], MovieTicks(list[p[2]], list))]
<1>1. PICK S : S = Int
  OBVIOUS
<1>2. n \in Nat /\ 0 \in S /\ \A k \in 1..n : MovieTicks(list[k], list) \in S
  BY <1>1 DEF MovieTimes
<1> HIDE DEF n
<1>3. ASSUME NEW p \in S \X (1..n) PROVE Longer(p[1], MovieTicks(list[p[2]], list)) \in S
  <2>1. p[1] \in S /\ p[2] \in 1..n
    OBVIOUS
  <2> QED
    BY <1>2, <2>1 DEF Longer
<1>4. turn \in [S \X (1..n) -> S]
  BY <1>1, <1>3
<1>5. \A s \in S, k \in 1..n : turn[<<s, k>>] = Longer(s, MovieTicks(list[k], list))
  BY <1>1
<1> HIDE DEF turn
<1>6. PICK f : LoopOf(f, n, S, 0, turn)
  BY <1>2, <1>4, LoopExists
<1>7. f \in [0..n -> S] /\ f[0] = 0
  BY <1>6 DEF LoopOf
<1>8. ASSUME NEW k \in 1..n PROVE f[k] = Longer(f[k - 1], MovieTicks(list[k], list))
  <2>1. k - 1 \in 0..n
    BY <1>2
  <2>2. f[k - 1] \in S
    BY <1>7, <2>1
  <2>3. f[k] = turn[<<f[k - 1], k>>]
    BY <1>6 DEF LoopOf
  <2> QED
    BY <1>5, <2>2, <2>3
<1>9. \A k \in 0..n : f[k] = IF k = 0 THEN 0 ELSE Longer(f[k - 1], MovieTicks(list[k], list))
  <2>1. \A k \in 0..n : k # 0 => k \in 1..n
    BY <1>2
  <2> QED
    BY <1>7, <1>8, <2>1
<1>10. f = [k \in 0..n |-> IF k = 0 THEN 0 ELSE Longer(f[k - 1], MovieTicks(list[k], list))]
  BY <1>7, <1>9
<1>11. LongestLoop(f, list)
  BY <1>10 DEF LongestLoop, n
<1>12. LongestAfter(list) = CHOOSE g : LongestLoop(g, list)
  BY DEF LongestAfter, LongestLoop
<1>13. LongestLoop(LongestAfter(list), list)
  BY <1>11, <1>12
<1> DEFINE after == LongestAfter(list)
<1>14. after = [k \in 0..n |-> IF k = 0 THEN 0 ELSE Longer(after[k - 1], MovieTicks(list[k], list))]
  BY <1>13 DEF LongestLoop, n
<1> HIDE DEF after
<1>15. \A k \in 0..n : after[k] = IF k = 0 THEN 0 ELSE Longer(after[k - 1], MovieTicks(list[k], list))
  BY <1>14
<1> DEFINE Good == {k \in 0..n : after[k] \in S}
<1>16. 0 \in Good
  <2>1. 0 \in 0..n
    BY <1>2
  <2> QED
    BY <1>2, <1>15, <2>1
<1>17. ASSUME NEW k \in 1..n, k - 1 \in Good PROVE k \in Good
  <2>1. k \in 0..n /\ k # 0 /\ after[k - 1] \in S
    BY <1>2, <1>17
  <2>2. after[k] = Longer(after[k - 1], MovieTicks(list[k], list))
    BY <1>15, <2>1
  <2> QED
    BY <1>2, <2>1, <2>2 DEF Longer
<1> HIDE DEF Good
<1>18. \A k \in 0..n : k \in Good
  BY <1>2, <1>16, <1>17, EveryTurn
<1>19. \A k \in 0..n : after[k] \in Int
  BY <1>1, <1>18 DEF Good
<1>20. after \in [0..n -> Int]
  BY <1>14, <1>19
<1> QED
  BY <1>13, <1>20 DEF after, n

LEMMA MovieLongest ==
  ASSUME NEW list, Len(list) \in Nat, MovieTimes(list), NEW t \in 1..Len(list)
  PROVE  MovieDuration(list) \in Int /\ MovieTicks(list[t], list) <= MovieDuration(list)
<1> DEFINE n == Len(list)
           after == LongestAfter(list)
           ticks(k) == MovieTicks(list[k], list)
           Good == {k \in 0..n : \A j \in 1..k : ticks(j) <= after[k]}
<1>1. n \in Nat /\ \A k \in 1..n : ticks(k) \in Int
  BY DEF MovieTimes
<1>2. after = [k \in 0..n |-> IF k = 0 THEN 0 ELSE Longer(after[k - 1], ticks(k))]
  BY LongestLoopHolds DEF LongestLoop
<1>3. \A k \in 0..n : after[k] \in Int
  BY LongestLoopHolds
<1> HIDE DEF after, n, ticks
<1>4. \A k \in 0..n : after[k] = IF k = 0 THEN 0 ELSE Longer(after[k - 1], ticks(k))
  BY <1>2
<1>5. 0 \in Good
  BY <1>1
<1>6. ASSUME NEW k \in 1..n, k - 1 \in Good PROVE k \in Good
  <2>1. k \in 0..n /\ k # 0 /\ k - 1 \in 0..n
    BY <1>1
  <2>2. after[k] = Longer(after[k - 1], ticks(k)) /\ after[k - 1] \in Int /\ ticks(k) \in Int
    BY <1>1, <1>3, <1>4, <2>1
  <2>3. after[k - 1] <= after[k] /\ ticks(k) <= after[k] /\ after[k] \in Int
    BY <2>2 DEF Longer
  <2>4. ASSUME NEW j \in 1..k PROVE ticks(j) <= after[k]
    <3>1. CASE j = k
      BY <2>3, <3>1
    <3>2. CASE j # k
      <4>1. j \in 1..k - 1 /\ j \in 1..n
        BY <1>1, <3>2
      <4>2. ticks(j) <= after[k - 1] /\ ticks(j) \in Int
        BY <1>1, <1>6, <4>1
      <4> QED
        BY <2>2, <2>3, <4>2
    <3> QED
      BY <3>1, <3>2
  <2> QED
    BY <2>1, <2>4
<1> HIDE DEF Good
<1>7. n \in Good
  <2>1. \A k \in 0..n : k \in Good
    BY <1>1, <1>5, <1>6, EveryTurn
  <2> QED
    BY <1>1, <2>1
<1>8. MovieDuration(list) = after[n]
  BY DEF MovieDuration, after, n
<1>9. n \in 0..n
  BY <1>1
<1>10. ticks(t) <= after[n]
  BY <1>7 DEF Good, n
<1> QED
  BY <1>3, <1>8, <1>9, <1>10 DEF ticks

LEMMA FloorBounds ==
  ASSUME NEW a \in Int, NEW b \in Nat \ {0}
  PROVE  a \div b \in Int /\ a < (a \div b) * b + b
  OBVIOUS

LEMMA MovieCoversTrack ==
  ASSUME DriftInv, NEW t \in 1..Len(tracks)
  PROVE  MovieCovers(tracks[t])
<1> DEFINE scale == GetTimescale(tracks)
           movie == MovieDuration(tracks)
<1>1. Len(tracks) \in Nat \ {0} /\ tracks \in Seq(TrackType)
  BY DEF DriftInv, TypeOK
<1>2. \A k \in 1..Len(tracks) : /\ tracks[k].timeScale \in Nat \ {0}
                                /\ tracks[k].duration \in Int
  BY DEF DriftInv, TimesInv, TrackType
<1>3. scale \in Nat \ {0} /\ Divides(scale, tracks[t].timeScale)
  BY <1>1, <1>2, TimescaleDivides DEF Scales
<1> HIDE DEF scale
<1>4. tracks[t].timeScale % scale = 0
  BY <1>2, <1>3, DividesNoRemainder
<1>5. ASSUME NEW k \in 1..Len(tracks)
      PROVE  MovieTicks(tracks[k], tracks) = (tracks[k].duration * scale) \div tracks[k].timeScale
  BY DEF MovieTicks, scale
<1>6. ASSUME NEW k \in 1..Len(tracks)
      PROVE  /\ MovieTicks(tracks[k], tracks) \in Int
             /\ tracks[k].duration * scale
                  < MovieTicks(tracks[k], tracks) * tracks[k].timeScale + tracks[k].timeScale
  <2> DEFINE a == tracks[k].duration * scale
  <2>1. a \in Int
    BY <1>2, <1>3
  <2>2. MovieTicks(tracks[k], tracks) = a \div tracks[k].timeScale
    BY <1>5
  <2> HIDE DEF a
  <2>3. tracks[k].timeScale \in Nat \ {0}
    BY <1>2
  <2>4. /\ a \div tracks[k].timeScale \in Int
        /\ a < (a \div tracks[k].timeScale) * tracks[k].timeScale + tracks[k].timeScale
    BY <2>1, <2>3, FloorBounds
  <2> QED
    BY <2>2, <2>4 DEF a
<1>7. movie \in Int /\ MovieTicks(tracks[t], tracks) <= movie
  BY <1>1, <1>6, MovieLongest DEF MovieTimes
<1> HIDE DEF movie
<1> DEFINE a == tracks[t].duration * scale
           ticks == MovieTicks(tracks[t], tracks)
           clock == tracks[t].timeScale
<1>8. /\ a \in Int /\ ticks \in Int /\ clock \in Nat \ {0}
      /\ a < ticks * clock + clock /\ ticks <= movie
  BY <1>2, <1>3, <1>6, <1>7
<1> HIDE DEF a, ticks, clock
<1>9. ticks * clock <= movie * clock
  BY <1>7, <1>8
<1>10. movie * clock + clock = (movie + 1) * clock
  BY <1>7, <1>8
<1>11. a < (movie + 1) * clock
  <2> DEFINE x == ticks * clock
             y == movie * clock
  <2>1. x \in Int /\ y \in Int
    BY <1>7, <1>8
  <2>2. a < x + clock /\ x <= y /\ y + clock = (movie + 1) * clock
    BY <1>8, <1>9, <1>10
  <2> HIDE DEF x, y
  <2> QED
    BY <1>8, <2>1, <2>2
<1> QED
  BY <1>4, <1>7, <1>11 DEF MovieCovers, a, scale, movie, clock

LEMMA TrackTimesAddUp ==
  ASSUME NEW track, TimesInv(track)
  PROVE  TimesAddUp(track)
<1>1. /\ track \in TrackType /\ track.duration = Total(track.sampleDurations)
      /\ track.sampleDurations \in Seq(Int)
  BY DEF TimesInv, TrackType
<1>2. Len(track.sampleDurations) = IF Len(track.samples) = 0 THEN 1 ELSE Len(track.samples)
  BY DEF TimesInv
<1>3. /\ Total(RunCounts(CreateStts(track))) = Len(track.sampleDurations)
      /\ \A k \in 1..Len(track.sampleDurations) :
            SampleDuration(CreateStts(track), k) = track.sampleDurations[k]
  BY <1>1, SttsRight
<1> QED
  BY <1>1, <1>2, <1>3 DEF TimesAddUp

(* The durations of the tables and headers agree, however long and uneven   *)
(* the recording is: createStts loses no sample and changes no duration     *)
(* when it counts equal ones, the duration of a track is the sum of its     *)
(* samples', and createMovieBox finds a clock that divides every track's    *)
(* and a duration that no track exceeds.                                    *)
THEOREM DurationsAreRight == Spec => []DurationsAgree
<1>1. DriftInv => DurationsAgree
  BY TrackTimesAddUp, MovieCoversTrack DEF DriftInv, DurationsAgree
<1> QED
  BY <1>1, DriftInit, DriftStep, PTL DEF Spec

-----------------------------------------------------------------------------
(* Chunks (stsc, stco).  createStsc counts the samples of each chunk and    *)
(* createStco lists where the chunks begin; both find the same chunks.      *)

EntryType == [first : Nat, count : Nat]
StscType == [entries : Seq(EntryType), previous : Int, count : Nat, chunk : Nat]
StcoType == [offsets : Seq(Nat), last : Int]

StscLoop(after, samples) ==
  after = [k \in 0..Len(samples) |->
             IF k = 0 THEN [entries |-> << >>, previous |-> -1, count |-> 0, chunk |-> 1]
             ELSE CountSampleOfChunk(after[k - 1], EndsChunk(samples, k))]

StcoLoop(after, samples) ==
  after = [k \in 0..Len(samples) |->
             IF k = 0 THEN [offsets |-> << >>, last |-> -1]
             ELSE ListChunk(after[k - 1], samples[k])]

LEMMA CountSampleOfChunkType ==
  ASSUME NEW acc \in StscType, NEW ends \in BOOLEAN
  PROVE  CountSampleOfChunk(acc, ends) \in StscType
<1>1. /\ acc.entries \in Seq(EntryType) /\ acc.count + 1 \in Nat /\ acc.count + 1 \in Int
      /\ acc.chunk \in Nat /\ acc.chunk + 1 \in Nat
  BY DEF StscType
<1>2. CASE ~ends
  <2>1. CountSampleOfChunk(acc, ends) = [acc EXCEPT !.count = acc.count + 1]
    BY <1>2 DEF CountSampleOfChunk
  <2> QED
    BY <1>1, <2>1 DEF StscType
<1>3. CASE ends
  <2> DEFINE entry == [first |-> acc.chunk, count |-> acc.count + 1]
             more == IF acc.previous = acc.count + 1 THEN acc.entries ELSE Append(acc.entries, entry)
  <2>1. entry \in EntryType
    BY <1>1 DEF EntryType
  <2> HIDE DEF entry
  <2>2. more \in Seq(EntryType)
    BY <1>1, <2>1
  <2>3. CountSampleOfChunk(acc, ends)
          = [entries |-> more, previous |-> acc.count + 1, count |-> 0, chunk |-> acc.chunk + 1]
    BY <1>3 DEF CountSampleOfChunk, entry
  <2> HIDE DEF more
  <2> QED
    BY <1>1, <2>2, <2>3 DEF StscType
<1> QED
  BY <1>2, <1>3

LEMMA ListChunkType ==
  ASSUME NEW acc \in StcoType, NEW sample \in SampleType
  PROVE  ListChunk(acc, sample) \in StcoType
<1>1. acc.offsets \in Seq(Nat) /\ sample.offset \in Nat /\ EndOf(sample) \in Int
  BY DEF StcoType, SampleType, EndOf
<1> DEFINE more == IF acc.last = sample.offset THEN acc.offsets ELSE Append(acc.offsets, sample.offset)
<1>2. more \in Seq(Nat)
  BY <1>1
<1>3. ListChunk(acc, sample) = [offsets |-> more, last |-> EndOf(sample)]
  BY DEF ListChunk
<1> HIDE DEF more
<1> QED
  BY <1>1, <1>2, <1>3 DEF StcoType

LEMMA EndsChunkType ==
  ASSUME NEW samples, NEW k
  PROVE  EndsChunk(samples, k) \in BOOLEAN
  BY DEF EndsChunk

LEMMA StscLoopHolds ==
  ASSUME NEW s \in Seq(SampleType)
  PROVE  StscLoop(StscAfter(s), s)
<1> DEFINE n == Len(s)
           none == [entries |-> << >>, previous |-> -1, count |-> 0, chunk |-> 1]
           turn == [p \in StscType \X (1..n) |-> CountSampleOfChunk(p[1], EndsChunk(s, p[2]))]
<1>1. n \in Nat
  OBVIOUS
<1>2. none \in StscType
  BY DEF StscType
<1> HIDE DEF n, none
<1>3. turn \in [StscType \X (1..n) -> StscType]
  <2>1. ASSUME NEW p \in StscType \X (1..n)
        PROVE  CountSampleOfChunk(p[1], EndsChunk(s, p[2])) \in StscType
    <3>1. p[1] \in StscType
      OBVIOUS
    <3> QED
      BY <3>1, EndsChunkType, CountSampleOfChunkType
  <2> QED
    BY <2>1
<1>4. \A a \in StscType, k \in 1..n : turn[<<a, k>>] = CountSampleOfChunk(a, EndsChunk(s, k))
  OBVIOUS
<1> HIDE DEF turn
<1>5. PICK f : LoopOf(f, n, StscType, none, turn)
  BY <1>1, <1>2, <1>3, LoopExists
<1>6. f \in [0..n -> StscType] /\ f[0] = none
  BY <1>5 DEF LoopOf
<1>7. ASSUME NEW k \in 1..n PROVE f[k] = CountSampleOfChunk(f[k - 1], EndsChunk(s, k))
  <2>1. k - 1 \in 0..n
    BY <1>1
  <2>2. f[k - 1] \in StscType
    BY <1>6, <2>1
  <2>3. f[k] = turn[<<f[k - 1], k>>]
    BY <1>5 DEF LoopOf
  <2> QED
    BY <1>4, <2>2, <2>3
<1>8. \A k \in 0..n : f[k] = IF k = 0 THEN none
                             ELSE CountSampleOfChunk(f[k - 1], EndsChunk(s, k))
  <2>1. \A k \in 0..n : k # 0 => k \in 1..n
    BY <1>1
  <2> QED
    BY <1>6, <1>7, <2>1
<1>9. f = [k \in 0..n |-> IF k = 0 THEN none ELSE CountSampleOfChunk(f[k - 1], EndsChunk(s, k))]
  BY <1>6, <1>8
<1>10. StscLoop(f, s)
  BY <1>9 DEF StscLoop, n, none
<1>11. StscAfter(s) = CHOOSE g : StscLoop(g, s)
  BY DEF StscAfter, StscLoop
<1> QED
  BY <1>10, <1>11

LEMMA StcoLoopHolds ==
  ASSUME NEW s \in Seq(SampleType)
  PROVE  StcoLoop(StcoAfter(s), s)
<1> DEFINE n == Len(s)
           none == [offsets |-> << >>, last |-> -1]
           turn == [p \in StcoType \X (1..n) |-> ListChunk(p[1], s[p[2]])]
<1>1. n \in Nat /\ \A k \in 1..n : s[k] \in SampleType
  OBVIOUS
<1>2. none \in StcoType
  BY DEF StcoType
<1> HIDE DEF n, none
<1>3. turn \in [StcoType \X (1..n) -> StcoType]
  <2>1. ASSUME NEW p \in StcoType \X (1..n) PROVE ListChunk(p[1], s[p[2]]) \in StcoType
    <3>1. p[1] \in StcoType /\ s[p[2]] \in SampleType
      BY <1>1
    <3> QED
      BY <3>1, ListChunkType
  <2> QED
    BY <2>1
<1>4. \A b \in StcoType, k \in 1..n : turn[<<b, k>>] = ListChunk(b, s[k])
  OBVIOUS
<1> HIDE DEF turn
<1>5. PICK f : LoopOf(f, n, StcoType, none, turn)
  BY <1>1, <1>2, <1>3, LoopExists
<1>6. f \in [0..n -> StcoType] /\ f[0] = none
  BY <1>5 DEF LoopOf
<1>7. ASSUME NEW k \in 1..n PROVE f[k] = ListChunk(f[k - 1], s[k])
  <2>1. k - 1 \in 0..n
    BY <1>1
  <2>2. f[k - 1] \in StcoType
    BY <1>6, <2>1
  <2>3. f[k] = turn[<<f[k - 1], k>>]
    BY <1>5 DEF LoopOf
  <2> QED
    BY <1>4, <2>2, <2>3
<1>8. \A k \in 0..n : f[k] = IF k = 0 THEN none ELSE ListChunk(f[k - 1], s[k])
  <2>1. \A k \in 0..n : k # 0 => k \in 1..n
    BY <1>1
  <2> QED
    BY <1>6, <1>7, <2>1
<1>9. f = [k \in 0..n |-> IF k = 0 THEN none ELSE ListChunk(f[k - 1], s[k])]
  BY <1>6, <1>8
<1>10. StcoLoop(f, s)
  BY <1>9 DEF StcoLoop, n, none
<1>11. StcoAfter(s) = CHOOSE g : StcoLoop(g, s)
  BY DEF StcoAfter, StcoLoop
<1> QED
  BY <1>10, <1>11

(* The entries describe the chunks of so many samples each. *)
IsEntry(entries, c, i) ==
  /\ i \in 1..Len(entries)
  /\ entries[i].first <= c
  /\ \A j \in (i + 1)..Len(entries) : entries[j].first > c

Described(entries, counts) ==
  /\ entries \in Seq(EntryType)
  /\ \A i \in 1..Len(entries) : entries[i].first <= Len(counts)
  /\ \A c \in 1..Len(counts) : \E i : IsEntry(entries, c, i) /\ entries[i].count = counts[c]

LEMMA DescribedRead ==
  ASSUME NEW entries, NEW counts \in Seq(Nat), Described(entries, counts)
  PROVE  ChunkCounts(entries, Len(counts)) = counts
<1>1. ASSUME NEW c \in 1..Len(counts) PROVE SamplesInChunk(entries, c) = counts[c]
  <2>1. PICK i : IsEntry(entries, c, i) /\ entries[i].count = counts[c]
    BY DEF Described
  <2> DEFINE Last(m) == /\ entries[m].first <= c
                        /\ \A j \in (m + 1)..Len(entries) : entries[j].first > c
             chosen == CHOOSE m \in 1..Len(entries) : Last(m)
  <2>2. i \in 1..Len(entries) /\ Last(i)
    BY <2>1 DEF IsEntry
  <2>3. chosen \in 1..Len(entries) /\ Last(chosen)
    BY <2>2
  <2>4. SamplesInChunk(entries, c) = entries[chosen].count
    BY DEF SamplesInChunk
  <2> HIDE DEF chosen
  <2>5. Len(entries) \in Nat /\ \A m \in 1..Len(entries) : entries[m] \in EntryType
    BY DEF Described
  <2>6. Len(entries) \in Nat /\ \A m \in 1..Len(entries) : entries[m].first \in Nat
    BY <2>5 DEF EntryType
  <2>7. ~(chosen \in (i + 1)..Len(entries)) /\ ~(i \in (chosen + 1)..Len(entries))
    BY <2>2, <2>3, <2>6
  <2>8. chosen = i
    BY <2>2, <2>3, <2>6, <2>7
  <2> QED
    BY <2>1, <2>4, <2>8
<1>2. ChunkCounts(entries, Len(counts)) = [c \in 1..Len(counts) |-> SamplesInChunk(entries, c)]
  BY DEF ChunkCounts
<1>3. counts = [c \in 1..Len(counts) |-> counts[c]]
  OBVIOUS
<1> QED
  BY <1>1, <1>2, <1>3

LEMMA DescribedMore ==
  ASSUME NEW entries, NEW counts \in Seq(Nat), Described(entries, counts), NEW x \in Nat
  PROVE  Described(Append(entries, [first |-> Len(counts) + 1, count |-> x]), Append(counts, x))
<1> DEFINE entry == [first |-> Len(counts) + 1, count |-> x]
           m == Len(entries)
           n == Len(counts)
           more == Append(entries, entry)
           longer == Append(counts, x)
<1>1. /\ entries \in Seq(EntryType) /\ m \in Nat /\ n \in Nat
      /\ \A i \in 1..m : entries[i].first <= n
  BY DEF Described
<1>2. entry \in EntryType /\ entry.first = n + 1 /\ entry.count = x
  BY <1>1 DEF EntryType
<1> HIDE DEF entry
<1>3. more \in Seq(EntryType) /\ Len(more) = m + 1
  BY <1>1, <1>2
<1>4. more[m + 1] = entry /\ \A i \in 1..m : more[i] = entries[i]
  BY <1>1, <1>2
<1>5. Len(longer) = n + 1
  OBVIOUS
<1>6. longer[n + 1] = x /\ \A c \in 1..n : longer[c] = counts[c]
  OBVIOUS
<1> HIDE DEF more, longer
<1>7. \A i \in 1..m : entries[i] \in EntryType
  BY <1>1
<1>8. \A i \in 1..m : entries[i].first \in Nat
  BY <1>7 DEF EntryType
<1>9. ASSUME NEW i \in 1..m + 1 PROVE more[i].first <= n + 1
  <2>1. CASE i = m + 1
    BY <1>1, <1>2, <1>4, <2>1
  <2>2. CASE i # m + 1
    <3>1. i \in 1..m
      BY <1>1, <2>2
    <3>2. more[i] = entries[i] /\ entries[i].first <= n /\ entries[i].first \in Nat
      BY <1>1, <1>4, <1>8, <3>1
    <3> HIDE DEF n
    <3> QED
      BY <1>1, <3>2
  <2> QED
    BY <2>1, <2>2
<1>10. ASSUME NEW c \in 1..n PROVE \E i : IsEntry(more, c, i) /\ more[i].count = longer[c]
  <2>1. PICK i : IsEntry(entries, c, i) /\ entries[i].count = counts[c]
    BY DEF Described
  <2>2. /\ i \in 1..m /\ i \in 1..m + 1 /\ entries[i].first <= c
        /\ \A j \in (i + 1)..m : entries[j].first > c
    BY <1>1, <2>1 DEF IsEntry
  <2>3. ASSUME NEW j \in (i + 1)..m + 1 PROVE more[j].first > c
    <3>1. CASE j = m + 1
      <4>1. more[j].first = n + 1
        BY <1>2, <1>4, <3>1
      <4> QED
        BY <1>1, <4>1
    <3>2. CASE j # m + 1
      <4>1. j \in (i + 1)..m /\ j \in 1..m
        BY <1>1, <2>2, <3>2
      <4>2. more[j] = entries[j] /\ entries[j].first > c
        BY <1>4, <2>2, <4>1
      <4> QED
        BY <4>2
    <3> QED
      BY <3>1, <3>2
  <2>4. more[i] = entries[i] /\ longer[c] = counts[c]
    BY <1>4, <1>6, <2>2
  <2>5. IsEntry(more, c, i)
    BY <1>3, <2>2, <2>3, <2>4 DEF IsEntry
  <2> QED
    BY <2>1, <2>4, <2>5
<1>11. IsEntry(more, n + 1, m + 1) /\ more[m + 1].count = longer[n + 1]
  <2>1. m + 1 \in 1..m + 1 /\ (m + 1) + 1..m + 1 = {}
    BY <1>1
  <2>2. more[m + 1].first = n + 1 /\ n + 1 <= n + 1
    BY <1>1, <1>2, <1>4
  <2> HIDE DEF m, n
  <2> QED
    BY <1>2, <1>3, <1>4, <1>6, <2>1, <2>2 DEF IsEntry
<1>12. \A c \in 1..n + 1 : \E i : IsEntry(more, c, i) /\ more[i].count = longer[c]
  <2>1. \A c \in 1..n + 1 : c \in 1..n \/ c = n + 1
    BY <1>1
  <2> QED
    BY <1>10, <1>11, <2>1
<1> QED
  BY <1>3, <1>5, <1>9, <1>12 DEF Described, more, longer, entry

LEMMA DescribedSame ==
  ASSUME NEW entries, NEW counts \in Seq(Nat), Described(entries, counts), NEW x \in Nat,
         entries # << >>, entries[Len(entries)].count = x
  PROVE  Described(entries, Append(counts, x))
<1> DEFINE m == Len(entries)
           n == Len(counts)
           longer == Append(counts, x)
<1>1. /\ entries \in Seq(EntryType) /\ n \in Nat
      /\ \A i \in 1..m : entries[i].first <= n
  BY DEF Described
<1>2. m \in Nat \ {0} /\ m \in 1..m /\ m + 1..m = {}
  BY <1>1
<1>3. \A i \in 1..m : entries[i] \in EntryType
  BY <1>1
<1>4. \A i \in 1..m : entries[i].first \in Nat
  BY <1>3 DEF EntryType
<1>5. Len(longer) = n + 1
  OBVIOUS
<1>6. longer[n + 1] = x /\ \A c \in 1..n : longer[c] = counts[c]
  OBVIOUS
<1>7. entries[m].count = x
  OBVIOUS
<1>8. \A c \in 1..n : \E i : IsEntry(entries, c, i) /\ entries[i].count = counts[c]
  BY DEF Described
<1> HIDE DEF longer, m, n
<1>9. \A i \in 1..m : entries[i].first <= n + 1
  BY <1>1, <1>4
<1>10. IsEntry(entries, n + 1, m)
  BY <1>2, <1>9 DEF IsEntry, m
<1>11. \A c \in 1..n + 1 : c \in 1..n \/ c = n + 1
  BY <1>1
<1>12. \A c \in 1..n + 1 : \E i : IsEntry(entries, c, i) /\ entries[i].count = longer[c]
  BY <1>6, <1>7, <1>8, <1>10, <1>11
<1> QED
  BY <1>1, <1>5, <1>9, <1>12 DEF Described, longer, m

(* Where the samples are.  Sample j is in chunk c if it comes after those   *)
(* of the chunks before; the last chunk may still be open.                  *)
SizesOf(samples) == [k \in 1..Len(samples) |-> samples[k].size]

InChunk(counts, c, j) ==
  /\ Totals(counts)[c - 1] < j
  /\ c <= Len(counts) => j <= Totals(counts)[c]

Placed(samples, offsets, counts, c, j) ==
  samples[j].offset
    = offsets[c] + Totals(SizesOf(samples))[j - 1] - Totals(SizesOf(samples))[Totals(counts)[c - 1]]

Locates(samples, offsets, counts, k) ==
  \A c \in 1..Len(offsets), j \in 1..k :
    InChunk(counts, c, j) => Placed(samples, offsets, counts, c, j)

(* After k samples: a is the state of createStsc, b that of createStco.     *)
Stsc(a, counts, k) ==
  /\ a \in StscType
  /\ Described(a.entries, counts)
  /\ a.previous = IF a.entries = << >> THEN -1 ELSE a.entries[Len(a.entries)].count
  /\ a.chunk = Len(counts) + 1
  /\ Total(counts) + a.count = k

Stco(samples, b, counts, open, k) ==
  /\ b \in StcoType
  /\ b.last = IF k = 0 THEN -1 ELSE EndOf(samples[k])
  /\ Len(b.offsets) = Len(counts) + (IF open THEN 1 ELSE 0)
  /\ Locates(samples, b.offsets, counts, k)

Chunked(samples, a, b, counts, k) ==
  /\ counts \in Seq(Nat)
  /\ Stsc(a, counts, k)
  /\ Stco(samples, b, counts, a.count # 0, k)
  /\ a.count = 0 <=> (k = 0 \/ EndsChunk(samples, k))

LEMMA SizesOfType ==
  ASSUME NEW s \in Seq(SampleType)
  PROVE  SizesOf(s) \in Seq(Int) /\ Len(SizesOf(s)) = Len(s)
<1>1. Len(s) \in Nat /\ \A k \in 1..Len(s) : s[k] \in SampleType
  OBVIOUS
<1>2. \A k \in 1..Len(s) : s[k].size \in Int
  BY <1>1 DEF SampleType
<1> QED
  BY <1>1, <1>2 DEF SizesOf

LEMMA CountsType ==
  ASSUME NEW counts \in Seq(Nat)
  PROVE  counts \in Seq(Int) /\ \A c \in 0..Len(counts) : /\ Totals(counts)[c] \in Int
                                                          /\ Totals(counts)[c] <= Total(counts)
<1>1. counts \in Seq(Int) /\ Len(counts) \in Nat /\ Len(counts) \in 0..Len(counts)
  OBVIOUS
<1>2. \A c \in 0..Len(counts) : Totals(counts)[c] \in Int
  BY <1>1, TotalsLoop
<1>3. \A c \in 0..Len(counts) : Totals(counts)[c] <= Totals(counts)[Len(counts)]
  BY <1>1, TotalsGrow
<1> QED
  BY <1>1, <1>2, <1>3 DEF Total

LEMMA TotalsOfAppend ==
  ASSUME NEW counts \in Seq(Nat), NEW x \in Nat
  PROVE  /\ \A c \in 0..Len(counts) : Totals(Append(counts, x))[c] = Totals(counts)[c]
         /\ Totals(Append(counts, x))[Len(counts) + 1] = Total(counts) + x
         /\ Total(Append(counts, x)) = Total(counts) + x
<1> DEFINE n == Len(counts)
           longer == Append(counts, x)
<1>1. n \in Nat /\ counts \in Seq(Int) /\ longer \in Seq(Int) /\ Len(longer) = n + 1
  OBVIOUS
<1>2. longer[n + 1] = x /\ \A c \in 1..n : counts[c] = longer[c]
  OBVIOUS
<1> HIDE DEF longer
<1>3. n <= Len(counts) /\ n <= Len(longer) /\ n + 1 \in 1..Len(longer) /\ (n + 1) - 1 = n /\ n \in 0..n
  BY <1>1
<1>4. \A c \in 0..n : Totals(counts)[c] = Totals(longer)[c]
  BY <1>1, <1>2, <1>3, TotalsOfPrefix
<1>5. Totals(longer)[n + 1] = Totals(longer)[n] + longer[n + 1]
  <2>1. Totals(longer)[n + 1] = Totals(longer)[(n + 1) - 1] + longer[n + 1]
    BY <1>1, <1>3, TotalsLoop
  <2> QED
    BY <1>3, <2>1
<1>6. Totals(longer)[n] = Total(counts)
  BY <1>3, <1>4 DEF Total
<1>7. Totals(longer)[n + 1] = Total(counts) + x
  BY <1>2, <1>5, <1>6
<1>8. Total(longer) = Total(counts) + x
  BY <1>1, <1>7 DEF Total
<1> QED
  BY <1>4, <1>7, <1>8 DEF longer

(* One sample more for createStco. *)
LEMMA StcoStep ==
  ASSUME NEW s \in Seq(SampleType), NEW k \in 1..Len(s), NEW a, NEW b, NEW counts,
         Chunked(s, a, b, counts, k - 1)
  PROVE  Stco(s, ListChunk(b, s[k]), counts, TRUE, k)
<1> DEFINE n == Len(counts)
           begin == Totals(counts)
           sizes == Totals(SizesOf(s))
           old == b.offsets
           new == ListChunk(b, s[k]).offsets
           opens == a.count = 0
<1>1. /\ k \in Nat \ {0} /\ counts \in Seq(Nat) /\ n \in Nat /\ a \in StscType /\ b \in StcoType
      /\ a.count \in Nat /\ old \in Seq(Nat) /\ Len(old) \in Nat
  BY DEF Chunked, Stsc, Stco, StscType, StcoType
<1>2. s[k] \in SampleType
  OBVIOUS
<1>3. s[k] \in SampleType /\ s[k].offset \in Nat /\ s[k].size \in Nat
  BY <1>2 DEF SampleType
<1>4. Total(counts) + a.count = k - 1 /\ Total(counts) \in Int
  BY <1>1, CountsType DEF Chunked, Stsc, Total
<1>5. \A c \in 0..n : begin[c] \in Int /\ begin[c] <= Total(counts)
  BY <1>1, CountsType
<1>6. begin[n] = Total(counts) /\ n \in 0..n
  BY <1>1 DEF Total
<1>7. Len(old) = IF opens THEN n ELSE n + 1
  BY <1>1 DEF Chunked, Stco
<1>8. \A c \in 1..Len(old), j \in 1..k - 1 :
        InChunk(counts, c, j) => s[j].offset = old[c] + sizes[j - 1] - sizes[begin[c - 1]]
  BY DEF Chunked, Stco, Locates, Placed
<1>9. opens <=> b.last # s[k].offset
  <2>1. CASE k - 1 = 0
    <3>1. opens /\ b.last = -1
      BY <2>1 DEF Chunked, Stco
    <3> QED
      BY <1>3, <3>1
  <2>2. CASE k - 1 # 0
    <3>1. b.last = EndOf(s[k - 1])
      BY <2>2 DEF Chunked, Stco
    <3>2. opens <=> EndsChunk(s, k - 1)
      BY <2>2 DEF Chunked
    <3>3. k - 1 # Len(s) /\ (k - 1) + 1 = k
      BY <1>1
    <3> QED
      BY <3>1, <3>2, <3>3 DEF EndsChunk
  <2> QED
    BY <2>1, <2>2
<1>10. new = IF opens THEN Append(old, s[k].offset) ELSE old
  BY <1>9 DEF ListChunk
<1>11. ListChunk(b, s[k]).last = EndOf(s[k]) /\ ListChunk(b, s[k]) \in StcoType
  BY <1>1, <1>3, ListChunkType DEF ListChunk
<1> HIDE DEF old, new, sizes, begin
<1>12. Len(new) = n + 1 /\ \A c \in 1..Len(old) : new[c] = old[c]
  BY <1>1, <1>3, <1>7, <1>10
<1>13. opens => new[n + 1] = s[k].offset
  BY <1>1, <1>3, <1>7, <1>10
<1>14. \A j \in 0..Len(s) : sizes[j] \in Int
  BY SizesOfType, TotalsLoop DEF sizes
<1> HIDE DEF opens, n
(* The new sample itself. *)
<1>15. s[k].offset = new[n + 1] + sizes[k - 1] - sizes[begin[n]]
  <2>1. CASE opens
    <3>1. begin[n] = k - 1 /\ k - 1 \in 0..Len(s)
      BY <1>1, <1>4, <1>6, <2>1 DEF opens
    <3>2. sizes[k - 1] \in Int
      BY <1>14, <3>1
    <3> QED
      BY <1>3, <1>13, <2>1, <3>1, <3>2
  <2>2. CASE ~opens
    <3>1. a.count > 0
      BY <1>1, <2>2 DEF opens
    <3>2. /\ begin[n] < k - 1 /\ begin[n] \in Int /\ Len(old) = n + 1
      BY <1>1, <1>4, <1>5, <1>6, <1>7, <2>2, <3>1
    <3>3. begin[n] >= 0
      <4>1. 0 \in 0..Len(counts) /\ Len(counts) \in 0..Len(counts)
        BY <1>1
      <4>2. Totals(counts)[0] <= Totals(counts)[Len(counts)] /\ Totals(counts)[0] = 0
        BY <1>1, <4>1, TotalsGrow, TotalsLoop, CountsType
      <4> QED
        BY <4>2, <3>2 DEF begin, n
    <3>4. k - 1 \in 1..k - 1 /\ k - 1 \in 1..Len(s)
      BY <1>1, <3>2, <3>3
    <3>5. InChunk(counts, n + 1, k - 1)
      <4>1. (n + 1) - 1 = n /\ ~(n + 1 <= n)
        BY <1>1, <1>6 DEF n
      <4> QED
        BY <3>2, <4>1 DEF InChunk, n, begin
    <3>6. s[k - 1].offset = old[n + 1] + sizes[(k - 1) - 1] - sizes[begin[n]]
      <4>1. n + 1 \in 1..Len(old) /\ (n + 1) - 1 = n
        BY <1>1, <3>2 DEF n
      <4> QED
        BY <1>8, <3>4, <3>5, <4>1
    <3>7. sizes[k - 1] = sizes[(k - 1) - 1] + s[k - 1].size
      <4>1. sizes[k - 1] = sizes[(k - 1) - 1] + SizesOf(s)[k - 1]
        BY <3>4, SizesOfType, TotalsLoop DEF sizes
      <4> QED
        BY <3>4, <4>1 DEF SizesOf
    <3>8. s[k].offset = s[k - 1].offset + s[k - 1].size
      <4>1. k - 1 # 0
        BY <3>4
      <4>2. b.last = EndOf(s[k - 1])
        BY <4>1 DEF Chunked, Stco
      <4> QED
        BY <1>9, <2>2, <4>2 DEF EndOf
    <3>9. /\ s[k - 1].offset \in Int /\ s[k - 1].size \in Int
          /\ sizes[k - 1] \in Int /\ sizes[(k - 1) - 1] \in Int
      <4>1. k - 1 \in 0..Len(s) /\ (k - 1) - 1 \in 0..Len(s)
        BY <3>4
      <4>2. \A x \in SampleType : x.offset \in Int /\ x.size \in Int
        BY DEF SampleType
      <4>3. s[k - 1].offset \in Int /\ s[k - 1].size \in Int
        <5>1. s[k - 1] \in SampleType
          BY <3>4
        <5> QED
          BY <4>2, <5>1
      <4>4. sizes[k - 1] \in Int /\ sizes[(k - 1) - 1] \in Int
        BY <1>14, <4>1
      <4> QED
        BY <4>3, <4>4
    <3>10. sizes[begin[n]] \in Int /\ old[n + 1] \in Int
      <4>1. begin[n] \in 0..Len(s)
        BY <3>2, <3>3, <3>4
      <4>2. n + 1 \in 1..Len(old)
        BY <1>1, <3>2 DEF n
      <4>3. sizes[begin[n]] \in Int
        BY <1>14, <4>1
      <4>4. old[n + 1] \in Nat
        BY <1>1, <4>2
      <4> QED
        BY <4>3, <4>4
    <3>11. new[n + 1] = old[n + 1]
      BY <1>10, <2>2
    <3> DEFINE x == sizes[(k - 1) - 1]
               y == sizes[k - 1]
               z == sizes[begin[n]]
               o == old[n + 1]
               p == s[k - 1].offset
               q == s[k - 1].size
    <3>12. /\ x \in Int /\ y \in Int /\ z \in Int /\ o \in Int /\ p \in Int /\ q \in Int
           /\ p = o + x - z /\ y = x + q /\ s[k].offset = p + q
      BY <3>6, <3>7, <3>8, <3>9, <3>10
    <3> HIDE DEF x, y, z, o, p, q
    <3>13. s[k].offset = o + y - z
      BY <3>12
    <3> QED
      BY <3>11, <3>13 DEF o, y, z
  <2> QED
    BY <2>1, <2>2
<1>16. ASSUME NEW c \in 1..n + 1, NEW j \in 1..k, InChunk(counts, c, j)
       PROVE  s[j].offset = new[c] + sizes[j - 1] - sizes[begin[c - 1]]
  <2>1. n \in Nat /\ begin[c - 1] < j /\ (c <= n => j <= begin[c])
    BY <1>1, <1>16 DEF InChunk, n, begin
  <2>2. CASE j = k
    <3>1. c = n + 1
      <4>1. SUFFICES ASSUME c # n + 1 PROVE FALSE
        OBVIOUS
      <4>2. c \in 0..n /\ c <= n
        BY <2>1, <4>1
      <4>3. k <= begin[c] /\ begin[c] <= Total(counts) /\ begin[c] \in Int
        BY <1>5, <2>1, <2>2, <4>2
      <4> QED
        BY <1>1, <1>4, <4>3
    <3> QED
      BY <1>15, <2>1, <2>2, <3>1
  <2>3. CASE j # k
    <3>1. j \in 1..k - 1
      BY <1>1, <2>3
    <3>2. c \in 1..Len(old)
      <4>1. SUFFICES ASSUME c \notin 1..Len(old) PROVE FALSE
        OBVIOUS
      <4>2. opens /\ c = n + 1
        BY <1>7, <2>1, <4>1
      <4>3. begin[c - 1] = k - 1
        BY <1>1, <1>4, <1>6, <2>1, <4>2 DEF opens
      <4> QED
        BY <1>1, <2>1, <3>1, <4>3
    <3> QED
      BY <1>8, <1>12, <1>16, <3>1, <3>2
  <2> QED
    BY <2>2, <2>3
<1>17. Locates(s, new, counts, k)
  BY <1>12, <1>16 DEF Locates, Placed, sizes, begin
<1> QED
  BY <1>1, <1>11, <1>12, <1>17 DEF Stco, new, n

(* A chunk that ends is one more in the lists, and the samples stay where   *)
(* they are.                                                                *)
LEMMA LocatesAppend ==
  ASSUME NEW s, NEW offsets, NEW counts \in Seq(Nat), NEW x \in Nat, NEW k \in Nat,
         Len(offsets) = Len(counts) + 1, Total(counts) + x = k,
         Locates(s, offsets, counts, k)
  PROVE  Locates(s, offsets, Append(counts, x), k)
<1> DEFINE n == Len(counts)
           longer == Append(counts, x)
<1>1. n \in Nat /\ Len(longer) = n + 1
  OBVIOUS
<1>2. /\ \A c \in 0..n : Totals(longer)[c] = Totals(counts)[c]
      /\ Totals(longer)[n + 1] = k
  BY TotalsOfAppend
<1> HIDE DEF longer, n
<1>3. ASSUME NEW c \in 1..n + 1, NEW j \in 1..k, InChunk(longer, c, j)
      PROVE  Placed(s, offsets, longer, c, j)
  <2>1. c - 1 \in 0..n /\ Totals(longer)[c - 1] = Totals(counts)[c - 1]
    BY <1>1, <1>2
  <2>2. Totals(counts)[c - 1] < j
    BY <1>3, <2>1 DEF InChunk
  <2>3. c <= n => j <= Totals(counts)[c]
    <3>1. c <= n => (c <= n + 1 /\ c \in 0..n)
      BY <1>1
    <3>2. c <= n => Totals(longer)[c] = Totals(counts)[c]
      BY <1>2, <3>1
    <3>3. c <= n => j <= Totals(longer)[c]
      BY <1>1, <1>3, <3>1 DEF InChunk
    <3> QED
      BY <3>2, <3>3
  <2>4. InChunk(counts, c, j)
    BY <2>2, <2>3 DEF InChunk, n
  <2>5. Placed(s, offsets, counts, c, j)
    BY <2>4 DEF Locates, n
  <2> QED
    BY <2>1, <2>5 DEF Placed
<1> QED
  BY <1>3 DEF Locates, longer, n

LEMMA ChunkedStep ==
  ASSUME NEW s \in Seq(SampleType), NEW k \in 1..Len(s), NEW a, NEW b, NEW counts,
         Chunked(s, a, b, counts, k - 1)
  PROVE  \E more : Chunked(s, CountSampleOfChunk(a, EndsChunk(s, k)), ListChunk(b, s[k]), more, k)
<1> DEFINE b2 == ListChunk(b, s[k])
           a2 == CountSampleOfChunk(a, EndsChunk(s, k))
           x == a.count + 1
<1>1. /\ k \in Nat \ {0} /\ counts \in Seq(Nat) /\ a \in StscType /\ a.count \in Nat
      /\ a.entries \in Seq(EntryType) /\ a.chunk \in Nat /\ x \in Nat /\ x # 0
  BY DEF Chunked, Stsc, StscType
<1>2. Stco(s, b2, counts, TRUE, k)
  BY StcoStep
<1>3. a2 \in StscType
  BY <1>1, EndsChunkType, CountSampleOfChunkType
<1>4. Total(counts) + x = k /\ Total(counts) \in Int
  BY <1>1, CountsType DEF Chunked, Stsc, Total
<1>5. /\ Described(a.entries, counts) /\ a.chunk = Len(counts) + 1
      /\ a.previous = IF a.entries = << >> THEN -1 ELSE a.entries[Len(a.entries)].count
  BY DEF Chunked, Stsc
<1> HIDE DEF b2
<1>6. CASE ~EndsChunk(s, k)
  <2>1. a2 = [a EXCEPT !.count = x]
    BY <1>6 DEF CountSampleOfChunk
  <2>2. /\ a2.entries = a.entries /\ a2.previous = a.previous /\ a2.chunk = a.chunk
        /\ a2.count = x
    BY <1>1, <2>1 DEF StscType
  <2> HIDE DEF a2, x
  <2>3. Stsc(a2, counts, k)
    BY <1>3, <1>4, <1>5, <2>2 DEF Stsc
  <2>4. Chunked(s, a2, b2, counts, k)
    BY <1>1, <1>2, <1>6, <2>2, <2>3 DEF Chunked
  <2> QED
    BY <2>4 DEF a2, b2
<1>7. CASE EndsChunk(s, k)
  <2> DEFINE entry == [first |-> a.chunk, count |-> x]
             longer == Append(counts, x)
             entries == IF a.previous = x THEN a.entries ELSE Append(a.entries, entry)
  <2>1. a2 = [entries |-> entries, previous |-> x, count |-> 0, chunk |-> a.chunk + 1]
    BY <1>7 DEF CountSampleOfChunk
  <2>2. a2.entries = entries /\ a2.previous = x /\ a2.count = 0 /\ a2.chunk = a.chunk + 1
    BY <2>1
  <2> HIDE DEF a2, x
  <2>3. longer \in Seq(Nat) /\ Len(longer) = Len(counts) + 1
    BY <1>1
  <2>4. Total(longer) = k
    BY <1>1, <1>4, TotalsOfAppend
  <2>5. /\ Described(entries, longer)
        /\ x = IF entries = << >> THEN -1 ELSE entries[Len(entries)].count
    <3>1. CASE a.previous = x
      <4>1. a.entries # << >> /\ a.entries[Len(a.entries)].count = x
        BY <1>1, <1>5, <3>1
      <4>2. Described(a.entries, longer)
        BY <1>1, <1>5, <4>1, DescribedSame
      <4> QED
        BY <3>1, <4>1, <4>2
    <3>2. CASE a.previous # x
      <4>1. Described(Append(a.entries, [first |-> Len(counts) + 1, count |-> x]), Append(counts, x))
        BY <1>1, <1>5, DescribedMore
      <4>2. entries = Append(a.entries, entry)
        BY <3>2
      <4>3. entry = [first |-> Len(counts) + 1, count |-> x] /\ entry.count = x
        BY <1>5
      <4> HIDE DEF entry
      <4>4. entry \in EntryType
        BY <1>1, <4>3 DEF EntryType
      <4>5. Append(a.entries, entry) # << >>
        BY <1>1, <4>4
      <4>6. Append(a.entries, entry)[Len(Append(a.entries, entry))] = entry
        BY <1>1, <4>4
      <4> QED
        BY <4>1, <4>2, <4>3, <4>5, <4>6
    <3> QED
      BY <3>1, <3>2
  <2> HIDE DEF entries, longer
  <2>6. Stsc(a2, longer, k)
    BY <1>1, <1>3, <1>5, <2>2, <2>3, <2>4, <2>5 DEF Stsc
  <2>7. /\ b2 \in StcoType /\ b2.last = EndOf(s[k]) /\ Len(b2.offsets) = Len(counts) + 1
        /\ Locates(s, b2.offsets, counts, k)
    BY <1>1, <1>2 DEF Stco
  <2>8. Locates(s, b2.offsets, longer, k)
    BY <1>1, <1>4, <2>7, LocatesAppend DEF longer
  <2>9. Stco(s, b2, longer, FALSE, k)
    <3>1. Len(longer) \in Nat
      BY <2>3
    <3> QED
      BY <1>1, <2>3, <2>7, <2>8, <3>1 DEF Stco
  <2>10. Chunked(s, a2, b2, longer, k)
    <3>1. (a2.count # 0) = FALSE
      BY <2>2
    <3> QED
      BY <1>7, <2>2, <2>3, <2>6, <2>9, <3>1 DEF Chunked
  <2> QED
    BY <2>10 DEF a2, b2
<1> QED
  BY <1>6, <1>7

LEMMA ChunkedFirst ==
  ASSUME NEW s
  PROVE  Chunked(s, [entries |-> << >>, previous |-> -1, count |-> 0, chunk |-> 1],
                 [offsets |-> << >>, last |-> -1], << >>, 0)
<1> DEFINE a == [entries |-> << >>, previous |-> -1, count |-> 0, chunk |-> 1]
           b == [offsets |-> << >>, last |-> -1]
<1>1. /\ a.entries = << >> /\ a.previous = -1 /\ a.count = 0 /\ a.chunk = 1
      /\ b.offsets = << >> /\ b.last = -1
  OBVIOUS
<1>2. a \in StscType /\ b \in StcoType
  BY DEF StscType, StcoType
<1> HIDE DEF a, b
<1>3. << >> \in Seq(Nat) /\ << >> \in Seq(Int) /\ << >> \in Seq(EntryType) /\ Len(<< >>) = 0
  OBVIOUS
<1>4. Total(<< >>) = 0
  BY <1>3, TotalsLoop DEF Total
<1>5. Described(<< >>, << >>)
  BY <1>3 DEF Described
<1>6. Stsc(a, << >>, 0)
  BY <1>1, <1>2, <1>3, <1>4, <1>5 DEF Stsc
<1>7. Stco(s, b, << >>, FALSE, 0)
  BY <1>1, <1>2, <1>3 DEF Stco, Locates
<1>8. (a.count # 0) = FALSE
  BY <1>1
<1>9. Chunked(s, a, b, << >>, 0)
  BY <1>1, <1>3, <1>6, <1>7, <1>8 DEF Chunked
<1> QED
  BY <1>9 DEF a, b

LEMMA ChunkedAll ==
  ASSUME NEW s \in Seq(SampleType)
  PROVE  \E counts : Chunked(s, StscAfter(s)[Len(s)], StcoAfter(s)[Len(s)], counts, Len(s))
<1> DEFINE n == Len(s)
           first == [entries |-> << >>, previous |-> -1, count |-> 0, chunk |-> 1]
           none == [offsets |-> << >>, last |-> -1]
           A == StscAfter(s)
           B == StcoAfter(s)
           Good == {k \in 0..n : \E counts : Chunked(s, A[k], B[k], counts, k)}
<1>1. n \in Nat
  OBVIOUS
<1>2. A = [k \in 0..n |-> IF k = 0 THEN first ELSE CountSampleOfChunk(A[k - 1], EndsChunk(s, k))]
  BY StscLoopHolds DEF StscLoop
<1>3. B = [k \in 0..n |-> IF k = 0 THEN none ELSE ListChunk(B[k - 1], s[k])]
  BY StcoLoopHolds DEF StcoLoop
<1>4. Chunked(s, first, none, << >>, 0)
  BY ChunkedFirst
<1> HIDE DEF A, B, first, none, n
<1>5. \A k \in 0..n : A[k] = IF k = 0 THEN first ELSE CountSampleOfChunk(A[k - 1], EndsChunk(s, k))
  BY <1>2
<1>6. \A k \in 0..n : B[k] = IF k = 0 THEN none ELSE ListChunk(B[k - 1], s[k])
  BY <1>3
<1>7. 0 \in Good
  <2>1. 0 \in 0..n
    BY <1>1
  <2>2. A[0] = first /\ B[0] = none
    BY <1>5, <1>6, <2>1
  <2>3. Chunked(s, A[0], B[0], << >>, 0)
    BY <1>4, <2>2
  <2> QED
    BY <2>1, <2>3
<1>8. ASSUME NEW k \in 1..n, k - 1 \in Good PROVE k \in Good
  <2>1. PICK counts : Chunked(s, A[k - 1], B[k - 1], counts, k - 1)
    BY <1>8
  <2>2. k \in 0..n /\ k # 0
    BY <1>1
  <2>3. A[k] = CountSampleOfChunk(A[k - 1], EndsChunk(s, k))
    BY <1>5, <2>2
  <2>4. B[k] = ListChunk(B[k - 1], s[k])
    BY <1>6, <2>2
  <2>5. k \in 1..Len(s)
    BY DEF n
  <2>6. \E more : Chunked(s, CountSampleOfChunk(A[k - 1], EndsChunk(s, k)),
                          ListChunk(B[k - 1], s[k]), more, k)
    BY <2>1, <2>5, ChunkedStep
  <2>7. \E more : Chunked(s, A[k], B[k], more, k)
    BY <2>3, <2>4, <2>6
  <2> QED
    BY <2>2, <2>7
<1> HIDE DEF Good
<1>9. n \in Good
  <2>1. \A k \in 0..n : k \in Good
    BY <1>1, <1>7, <1>8, EveryTurn
  <2> QED
    BY <1>1, <2>1
<1> QED
  BY <1>9 DEF Good, A, B, n

LEMMA TrackLocated ==
  ASSUME NEW track, track.samples \in Seq(SampleType)
  PROVE  SamplesLocated(track)
<1> DEFINE s == track.samples
           n == Len(s)
           a == StscAfter(s)[n]
           b == StcoAfter(s)[n]
           stsc == CreateStsc(track)
           stco == CreateStco(track)
           stsz == CreateStsz(track)
<1>1. s \in Seq(SampleType) /\ n \in Nat
  OBVIOUS
<1>2. PICK counts : Chunked(s, a, b, counts, n)
  BY <1>1, ChunkedAll
<1>3. stsc = a.entries /\ stco = b.offsets
  BY DEF CreateStsc, CreateStco
<1>4. stsz = SizesOf(s)
  BY DEF CreateStsz, SizesOf
<1> HIDE DEF a, b, stsc, stco, stsz
<1>5. a.count = 0 /\ counts \in Seq(Nat)
  <2>1. n = 0 \/ EndsChunk(s, n)
    BY DEF EndsChunk
  <2> QED
    BY <1>2, <2>1 DEF Chunked
<1>6. Described(stsc, counts) /\ Total(counts) = n
  <2>1. Total(counts) \in Int
    BY <1>5, CountsType DEF Total
  <2>2. Described(stsc, counts) /\ Total(counts) + 0 = n
    BY <1>2, <1>3, <1>5 DEF Chunked, Stsc
  <2> QED
    BY <2>1, <2>2
<1>7. Len(stco) = Len(counts) /\ Locates(s, stco, counts, n)
  <2>1. Len(counts) \in Nat
    BY <1>5
  <2>2. Stco(s, b, counts, a.count # 0, n)
    BY <1>2 DEF Chunked
  <2>3. Stco(s, b, counts, FALSE, n)
    BY <1>5, <2>2
  <2> QED
    BY <1>3, <2>1, <2>3 DEF Stco
<1>8. ChunkCounts(stsc, Len(stco)) = counts
  BY <1>5, <1>6, <1>7, DescribedRead
<1> HIDE DEF s, n
<1>9. ASSUME NEW k \in 1..n PROVE SampleOffset(stsc, stco, stsz, k) = s[k].offset
  <2> DEFINE c == GroupOf(counts, k)
  <2>1. k \in 1..Total(counts)
    BY <1>6
  <2>2. IsGroup(counts, c, k)
    BY <1>5, <2>1, GroupFound
  <2>3. SampleOffset(stsc, stco, stsz, k)
          = stco[c] + Totals(stsz)[k - 1] - Totals(stsz)[Totals(counts)[c - 1]]
    BY <1>8 DEF SampleOffset
  <2> HIDE DEF c
  <2>4. c \in 1..Len(stco) /\ InChunk(counts, c, k)
    BY <1>7, <2>2 DEF IsGroup, InChunk
  <2>5. Placed(s, stco, counts, c, k)
    BY <1>7, <2>4 DEF Locates
  <2> QED
    BY <1>4, <2>3, <2>5 DEF Placed
<1>10. Total(ChunkCounts(stsc, Len(stco))) = n
  BY <1>6, <1>8
<1> QED
  BY <1>9, <1>10 DEF SamplesLocated, stsc, stco, stsz, s, n

(* A player finds every sample where the builder recorded it, wherever the  *)
(* samples of the other track split the chunks: the loops of createStsc and *)
(* createStco, which compare offsets separately, find the same chunks.      *)
THEOREM TablesLocate == Spec => []TablesLocateSamples
<1>1. TypeOK => TablesLocateSamples
  <2> SUFFICES ASSUME TypeOK, NEW t \in 1..Len(tracks) PROVE SamplesLocated(tracks[t])
    BY DEF TablesLocateSamples
  <2>1. tracks \in Seq(TrackType)
    BY DEF TypeOK
  <2>2. tracks[t] \in TrackType
    BY <2>1
  <2>3. tracks[t].samples \in Seq(SampleType)
    BY <2>2 DEF TrackType
  <2> QED
    BY <2>3, TrackLocated
<1> QED
  BY <1>1, TypeCorrect, PTL
=============================================================================
