--------------------------- MODULE VoiceRecorder ---------------------------
(***************************************************************************)
(* The voice recorder of audio.c: frames of sound, encoded one by one, are *)
(* put on Ogg pages and written to a file, which is then read back.        *)
(*                                                                         *)
(* The caller (external) starts a recording, writes frames, of which a     *)
(* short or empty one is the last, and stops when it likes; it goes on     *)
(* after a frame that was not written.  A page that is written goes into   *)
(* the buffer of the C library (external) and leaves it when a later page  *)
(* makes it overflow, or when the file is closed; where that fails, what   *)
(* was buffered is lost, but for whole pages at its front and a part, at   *)
(* least the header, of the next.  The encoder turns a frame into any      *)
(* number of segments, or fails.  The reader is op_read's use of the       *)
(* stream (external), page by page.                                        *)
(*                                                                         *)
(* writeFrame is one call: pc says how far it is, since each page is a     *)
(* write that can fail.                                                    *)
(***************************************************************************)
EXTENDS OggStream

CONSTANTS
    FrameSize,      \* samples in a frame (960)
    Scale,          \* 48000 / rate (3)
    PreSkip,        \* header.preskip
    FrameSegments,  \* the segments a frame may take (1 .. 2)
    HeaderSegments, \* the segments of the comment packet
    BufferPages,    \* the pages that the C library's buffer holds at most
    MaxFrames       \* bound: calls of writeFrame in a recording

ASSUME RecorderAssumption ==
    /\ {FrameSize, Scale, HeaderSegments, BufferPages} \subseteq Nat \ {0}
    /\ {PreSkip, MaxFrames} \subseteq Nat
    /\ FrameSegments \subseteq Nat \ {0}

VARIABLES
    pc,             \* where the recorder is
    os,             \* the stream it writes to
    op,             \* the packet at hand
    samples,        \* total_samples
    enc_granulepos,
    last_granulepos,
    size_segments,
    last_segments,
    result,         \* what the last call returned
    file,           \* the pages written and not lost
    flushed,        \* how many of them have left the buffer
    frames,         \* calls of writeFrame
    given,          \* the packets put in
    failed,         \* whether a call has failed
    closeFailed,    \* whether closing the file has
    rs,             \* the stream of the reader
    position,       \* the page it reads next
    reads           \* the packets and gaps it got

countVars == <<samples, enc_granulepos, last_granulepos, size_segments, last_segments>>
historyVars == <<frames, given, failed, closeFailed>>
readVars == <<rs, position, reads>>
fileVars == <<file, flushed>>
vars == <<pc, os, op, countVars, result, fileVars, historyVars, readVars>>

FrameGranule == FrameSize * Scale
NoPacket == [packetno |-> 0, segments |-> 0, granulepos |-> 0, e_o_s |-> FALSE]

PacketType == [packetno : Nat, segments : Nat, granulepos : Int, e_o_s : BOOLEAN]

TypeOK ==
    /\ pc \in {"new", "header", "comments", "idle", "before", "after", "closed"}
    /\ DOMAIN os = DOMAIN NewEncoder /\ DOMAIN rs = DOMAIN NewDecoder
    /\ op \in PacketType
    /\ {samples, enc_granulepos, last_granulepos, size_segments} \subseteq Nat
    /\ last_segments \in Int
    /\ result \in 0 .. 1
    /\ \A i \in DOMAIN file : file[i].missing < PageLength(file[i].page)
    /\ flushed \in 0 .. Len(file) /\ Len(file) - flushed <= BufferPages
    /\ frames \in 0 .. MaxFrames
    /\ given \in Seq(PacketType)
    /\ {failed, closeFailed} \subseteq BOOLEAN
    /\ position \in 1 .. Len(file) + 1
    /\ rs.whole \in 0 .. Len(rs.lacing)

Init ==
    /\ pc = "new"
    /\ os = NewEncoder
    /\ op = NoPacket
    /\ samples = 0 /\ enc_granulepos = 0 /\ last_granulepos = 0
    /\ size_segments = 0 /\ last_segments = 0
    /\ result = 0
    /\ file = <<>> /\ flushed = 0
    /\ frames = 0 /\ given = <<>> /\ failed = FALSE /\ closeFailed = FALSE
    /\ rs = NewDecoder /\ position = 1 /\ reads = <<>>

-----------------------------------------------------------------------------
GivePacket(packet) ==
    /\ op' = packet
    /\ os' = PacketIn(os, packet)
    /\ given' = Append(given, packet)

(* A flush that fails: of these pages the first `kept' are in the file.    *)
LostAfter(pages, kept) ==
    {SubSeq(pages, 1, kept)} \cup
    {Append(SubSeq(pages, 1, kept), [page |-> pages[kept + 1].page, missing |-> m]) :
        m \in 1 .. Len(pages[kept + 1].page.segments)}

(* writeOggPage: the page goes into the buffer, and may make it overflow   *)
(* within the page or just at its end; if that fails the call returns 0.   *)
WritePage(next) ==
    LET pages == Append(file, [page |-> FlushedPage(os), missing |-> 0])
    IN  /\ os' = AfterFlush(os)
        /\ \/ /\ file' = pages
              /\ flushed' \in {flushed, Len(file), Len(pages)}
              /\ Len(pages) - flushed' <= BufferPages
              /\ UNCHANGED <<pc, result, failed>>
           \/ /\ \E kept \in flushed .. Len(file) : file' \in LostAfter(pages, kept)
              /\ flushed' = Len(file')
              /\ failed' = TRUE
              /\ result' = 0
              /\ pc' = next

(* initRecorder: two packets, each flushed.  Without them the caller has   *)
(* no recording.                                                           *)
InitRecorder ==
    /\ pc = "new"
    /\ pc' = "header"
    /\ GivePacket([packetno |-> 1, segments |-> 1, granulepos |-> 0, e_o_s |-> FALSE])
    /\ UNCHANGED <<countVars, result, fileVars, frames, failed, closeFailed, readVars>>

WriteHeader ==
    /\ pc \in {"header", "comments"}
    /\ Flushable(os)
    /\ WritePage("closed")
    /\ UNCHANGED <<op, countVars, frames, given, closeFailed, readVars>>

GiveComments ==
    /\ pc = "header"
    /\ ~Flushable(os)
    /\ pc' = "comments"
    /\ GivePacket([packetno |-> 2, segments |-> HeaderSegments, granulepos |-> 0, e_o_s |-> FALSE])
    /\ UNCHANGED <<countVars, result, fileVars, frames, failed, closeFailed, readVars>>

Started ==
    /\ pc = "comments"
    /\ ~Flushable(os)
    /\ pc' = "idle"
    /\ result' = 1
    /\ UNCHANGED <<os, op, countVars, fileVars, historyVars, readVars>>

(* writeFrame up to the encoder, which is not asked about an empty frame.  *)
BeginFrame(n) ==
    /\ pc = "idle"
    /\ frames < MaxFrames
    /\ ~op.e_o_s
    /\ frames' = frames + 1
    /\ samples' = samples + n

WriteFrame(n, size) ==
    /\ BeginFrame(n)
    /\ n > 0
    /\ op' = [op EXCEPT !.e_o_s = n < FrameSize, !.segments = size]
    /\ enc_granulepos' = enc_granulepos + FrameGranule
    /\ size_segments' = size
    /\ pc' = "before"
    /\ UNCHANGED <<os, last_granulepos, last_segments, result, fileVars, given, failed,
                   closeFailed, readVars>>

EncodingFails(n) ==
    /\ BeginFrame(n)
    /\ n > 0
    /\ op' = [op EXCEPT !.e_o_s = n < FrameSize]
    /\ result' = 0
    /\ failed' = TRUE
    /\ UNCHANGED <<pc, os, enc_granulepos, last_granulepos, size_segments, last_segments,
                   fileVars, given, closeFailed, readVars>>

WriteEmptyFrame ==
    /\ BeginFrame(0)
    /\ op' = [op EXCEPT !.e_o_s = TRUE, !.segments = 1]
    /\ pc' = "before"
    /\ UNCHANGED <<os, enc_granulepos, last_granulepos, size_segments, last_segments, result,
                   fileVars, given, failed, closeFailed, readVars>>

(* A page of the stream: what was counted is uncounted.                    *)
NeverUncounted(page) == UNCHANGED last_segments
Uncounted(page) == last_segments' = last_segments - Len(page.segments)
FlushPage ==
    LET page == FlushedPage(os)
    IN  /\ last_granulepos' = IF Completes(page.segments) THEN page.granulepos ELSE last_granulepos
        /\ Uncounted(page)
        /\ WritePage("idle")
        /\ UNCHANGED <<op, samples, enc_granulepos, size_segments, frames, given, closeFailed, readVars>>

(* Before the packet goes in, the pages of those before it.                *)
FlushesBefore ==
    /\ \/ size_segments <= PageSegments /\ last_segments + size_segments > PageSegments
       \/ enc_granulepos - last_granulepos > 0
    /\ Flushable(os)

FlushBefore == pc = "before" /\ FlushesBefore /\ FlushPage

(* The end of the stream has the time of its last sample.                  *)
GranuleOfPacket == IF op.e_o_s THEN samples * Scale + PreSkip ELSE enc_granulepos

GiveFrame ==
    /\ pc = "before"
    /\ ~FlushesBefore
    /\ pc' = "after"
    /\ GivePacket([op EXCEPT !.packetno = Len(given) + 1, !.granulepos = GranuleOfPacket])
    /\ last_segments' = last_segments + size_segments
    /\ UNCHANGED <<samples, enc_granulepos, last_granulepos, size_segments, result, fileVars,
                   frames, failed, closeFailed, readVars>>

(* After it has gone in, its own.                                          *)
PageAfter ==
    IF \/ op.e_o_s
       \/ enc_granulepos + FrameGranule - last_granulepos > 0
       \/ last_segments >= PageSegments
    THEN Flushable(os) ELSE PageDue(os)

FlushAfter == pc = "after" /\ PageAfter /\ FlushPage

FrameWritten ==
    /\ pc = "after"
    /\ ~PageAfter
    /\ pc' = "idle"
    /\ result' = 1
    /\ UNCHANGED <<os, op, countVars, fileVars, historyVars, readVars>>

(* cleanupRecorder: what the stream still holds is lost, and what the      *)
(* buffer holds is too if the flush of fclose fails, which nobody notices. *)
StopRecord ==
    /\ pc = "idle"
    /\ pc' = "closed"
    /\ os' = NewEncoder
    /\ op' = NoPacket
    /\ samples' = 0 /\ enc_granulepos' = 0 /\ last_granulepos' = 0
    /\ size_segments' = 0 /\ last_segments' = 0
    /\ \/ UNCHANGED <<file, closeFailed>>
       \/ /\ \E kept \in flushed .. Len(file) - 1 : file' \in LostAfter(file, kept)
          /\ closeFailed' = TRUE
    /\ flushed' = Len(file')
    /\ UNCHANGED <<result, frames, given, failed, readVars>>

-----------------------------------------------------------------------------
(***************************************************************************)
(* Reading: pages go in and packets come out in any order that the stream  *)
(* permits.                                                                *)
(***************************************************************************)
ReadPage ==
    /\ pc = "closed"
    /\ Synced(file, position)
    /\ rs' = PageIn(rs, file[position].page)
    /\ position' = position + 1
    /\ UNCHANGED <<pc, os, op, countVars, result, fileVars, historyVars, reads>>

SkipPage ==
    /\ pc = "closed"
    /\ SyncFails(file, position)
    /\ position' = position + 1
    /\ UNCHANGED <<pc, os, op, countVars, result, fileVars, historyVars, rs, reads>>

ReadPacket ==
    /\ pc = "closed"
    /\ PacketReady(rs)
    /\ rs' = PacketOut(rs)
    /\ reads' = Append(reads, SubSeq(rs.lacing, 1, PacketSize(rs)))
    /\ UNCHANGED <<pc, os, op, countVars, result, fileVars, historyVars, position>>

Next ==
    \/ InitRecorder \/ WriteHeader \/ GiveComments \/ Started
    \/ \E n \in 1 .. FrameSize, size \in FrameSegments : WriteFrame(n, size)
    \/ \E n \in 1 .. FrameSize : EncodingFails(n)
    \/ WriteEmptyFrame \/ FlushBefore \/ GiveFrame \/ FlushAfter \/ FrameWritten
    \/ StopRecord
    \/ ReadPage \/ SkipPage \/ ReadPacket

Spec == Init /\ [][Next]_vars

-----------------------------------------------------------------------------
Gaps == {i \in DOMAIN reads : IsGap(reads[i][1])}
PacketRead(i) == reads[i][1].packet

(***************************************************************************)
(* Whatever was not written or torn, a packet that is read is one that was *)
(* given, with all its segments and no other's, its own time and the end   *)
(* of the stream where it is; and packets are read in the order they were  *)
(* given.                                                                  *)
(***************************************************************************)
PacketsWhole ==
    \A i \in DOMAIN reads \ Gaps :
        LET segments == reads[i]
            packet == given[PacketRead(i)]
        IN  /\ Len(segments) = packet.segments
            /\ \A j \in DOMAIN segments :
                   segments[j].packet = PacketRead(i) /\ segments[j].part = j
            /\ Last(segments).granulepos = packet.granulepos
            /\ Last(segments).e_o_s = packet.e_o_s
            /\ \A j \in DOMAIN reads \ Gaps : j < i => PacketRead(j) < PacketRead(i)

(***************************************************************************)
(* No gap goes unnoticed: the decoder is told of one between two packets   *)
(* exactly when it misses one there.  What it misses without being told is *)
(* at the end, and belongs to a recording in which a call has failed, or   *)
(* was in the C library's buffer when the file could not be closed.  Any   *)
(* other recording is read back as it was given, nothing being held back   *)
(* for a page to fill up (max_ogg_delay is 0).                             *)
(***************************************************************************)
Exhausted == pc = "closed" /\ ~Synced(file, position) /\ ~SyncFails(file, position) /\ ~PacketReady(rs)
LostAtClose == IF closeFailed THEN BufferPages ELSE 0

GapsReported ==
    /\ \A i, j \in DOMAIN reads \ Gaps :
           i < j /\ i + 1 .. j - 1 \subseteq Gaps =>
               (PacketRead(j) > PacketRead(i) + 1 <=> i + 1 .. j - 1 # {})
    /\ Exhausted /\ ~failed =>
           /\ Gaps = {} /\ \A i \in DOMAIN reads : PacketRead(i) = i
           /\ Len(given) - Len(reads) <= LostAtClose

(***************************************************************************)
(* The recorder's own count of the segments that are buffered, by which it *)
(* decides to flush, is the stream's (framing.c keeps its in lacing_fill), *)
(* also after pages that could not be written.  (An empty frame adds the   *)
(* size of the one before it.)                                             *)
(***************************************************************************)
EmptyFrameGiven == pc # "before" /\ size_segments # op.segments

SegmentsCounted ==
    pc \in {"idle", "before", "after"} /\ ~EmptyFrameGiven => last_segments = Len(os.lacing)
=============================================================================
