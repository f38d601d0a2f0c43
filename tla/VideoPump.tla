----------------------------- MODULE VideoPump -----------------------------
(***************************************************************************)
(* The loop of MediaController.convertVideo that re-encodes the video      *)
(* track, with the OutputSurface it waits on.                              *)
(*                                                                         *)
(*    extractor -> decoder -> SurfaceTexture -> encoder -> MP4Builder      *)
(*                                                                         *)
(* Four actors: the conversion thread (one action per call it makes on a   *)
(* codec or a surface, ordered by pc), the decoder, the encoder, and the   *)
(* main looper, on which OutputSurface.onFrameAvailable is called.  The    *)
(* codecs' queues are bounded, so a call of the thread may time out and    *)
(* eglSwapBuffers may block.                                               *)
(*                                                                         *)
(* From Android 4.3 (sdk 18) on, frames reach the encoder through a        *)
(* surface; before, through its input buffers, and the loop gives up on a  *)
(* buffer after 2.5 ms.  startTime and endTime are always -1 here, so      *)
(* decoderDone stays FALSE.  Results that only inform (buffers changed,    *)
(* the decoder's format) send the thread round the loop unchanged and are  *)
(* left out.                                                               *)
(***************************************************************************)
EXTENDS Integers, Sequences, FiniteSets, Functions

CONSTANTS
    Frames,         \* number of frames of the recording
    Sdks,           \* values of Build.VERSION.SDK_INT
    DecoderSlots,   \* buffers of the decoder, input and output each
    EncoderSlots,   \* frames that may wait for the encoder
    OutputSlots     \* output buffers of the encoder

(***************************************************************************)
(* One output buffer is not enough for an encoder that announces its       *)
(* configuration in a buffer: it could never be drained while the thread   *)
(* waits for it to take a frame.                                           *)
(***************************************************************************)
ASSUME PumpAssumption ==
    /\ {Frames, DecoderSlots, EncoderSlots} \subseteq Nat \ {0}
    /\ OutputSlots \in Nat \ {0, 1}
    /\ Sdks \subseteq Nat

VARIABLES
    sdk,            \* this device's Build.VERSION.SDK_INT
    pc,             \* where the conversion thread is
    extractor,      \* the next sample of the recording
    inputDone, outputDone,
    videoTracks,    \* calls of addTrack; videoTrackIndex = -5 iff there was none
    info,           \* the decoder's buffer the thread is handling
    decoderIn, decoderOut,
    rendered,       \* frames released to the surface, not yet announced
    arrived,        \* the last frame announced by onFrameAvailable
    texture,        \* the image the last updateTexImage took
    mFrameAvailable,
    encoderIn, encoderOut,
    announcements,  \* what the encoder emits before its first sample
    movie,          \* the samples written to the MP4Builder
    late,           \* waits for an image that timed out
    swallowed,      \* errors over an image that the loop ignored
    missed          \* frames that were not handed to the encoder

pumpVars == <<sdk, pc, extractor, inputDone, outputDone, videoTracks, info,
              movie, late, swallowed, missed>>
decoderVars == <<decoderIn, decoderOut>>
surfaceVars == <<rendered, arrived, texture, mFrameAvailable>>
encoderVars == <<encoderIn, encoderOut, announcements>>
vars == <<pumpVars, decoderVars, surfaceVars, encoderVars>>

(***************************************************************************)
(* Frames are numbered from 1, and 0 stands for the end of the stream.  A  *)
(* buffer of the decoder says how many bytes it holds; before Android 4.3  *)
(* that may be none even for a frame.  The recording starts at time 0, and *)
(* the empty buffer of the end of the stream has time 0 too.               *)
(***************************************************************************)
EndOfStream == 0
Buffer == [frame : 0 .. Frames, size : {0, 1}]
PresentationTime(b) == IF b.frame = EndOfStream THEN 0 ELSE b.frame - 1

(* What goes into the encoder and comes out of it; only samples have data. *)
Empty(k) == [kind |-> k, image |-> 0, time |-> 0]
Eos == Empty("eos")
Format == Empty("format")
Config == Empty("config")
Picture == [kind : {"sample"}, image : 0 .. Frames, time : 1 .. Frames]
Announcements == {<<Format>>, <<Config>>, <<Format, Config>>, <<Config, Format>>}

UsesSurface == sdk >= 18

Final == {"done", "failed", "crashed"}

TypeOK ==
    /\ sdk \in Sdks
    /\ pc \in {"feed", "drain", "decode", "await", "draw", "signal"} \cup Final
    /\ extractor \in 1 .. Frames + 1
    /\ {inputDone, outputDone, mFrameAvailable} \subseteq BOOLEAN
    /\ videoTracks \in 0 .. 2
    /\ info \in Buffer
    /\ decoderIn \in Seq(0 .. Frames)
    /\ decoderOut \in Seq(Buffer)
    /\ Len(decoderIn) <= DecoderSlots /\ Len(decoderOut) <= DecoderSlots
    /\ rendered \in Seq(1 .. Frames)
    /\ {arrived, texture} \subseteq 0 .. Frames
    /\ encoderIn \in Seq(Picture \cup {Eos})
    /\ encoderOut \in Seq(Picture \cup {Eos, Format, Config})
    /\ movie \in Seq(Picture)
    /\ late \in 0 .. Frames /\ swallowed \in 0 .. Frames
    /\ missed \subseteq 1 .. Frames

Init ==
    /\ sdk \in Sdks
    /\ pc = "feed"
    /\ extractor = 1
    /\ inputDone = FALSE /\ outputDone = FALSE
    /\ videoTracks = 0
    /\ info = [frame |-> 1, size |-> 0]
    /\ decoderIn = <<>> /\ decoderOut = <<>>
    /\ rendered = <<>> /\ arrived = 0 /\ texture = 0
    /\ mFrameAvailable = FALSE
    /\ encoderIn = <<>> /\ encoderOut = <<>>
    /\ announcements \in Announcements
    /\ movie = <<>>
    /\ late = 0 /\ swallowed = 0 /\ missed = {}

-----------------------------------------------------------------------------
(***************************************************************************)
(* The conversion thread.  One turn of the outer loop offers the decoder   *)
(* one buffer; the inner loop then empties the encoder before it takes     *)
(* each single buffer from the decoder, and ends with the decoder's last.  *)
(***************************************************************************)
DecoderTakesOneMore == Len(decoderIn) <= DecoderSlots
DecoderTakes == Len(decoderIn) < DecoderSlots

FeedSample ==
    /\ extractor <= Frames
    /\ decoderIn' = Append(decoderIn, extractor)
    /\ extractor' = extractor + 1
    /\ UNCHANGED inputDone

FeedNoEndOfStream ==
    /\ extractor > Frames
    /\ inputDone' = TRUE
    /\ UNCHANGED <<decoderIn, extractor>>

FeedEndOfStream ==
    /\ extractor > Frames
    /\ decoderIn' = Append(decoderIn, EndOfStream)
    /\ inputDone' = TRUE
    /\ UNCHANGED extractor

Feed ==
    /\ pc = "feed"
    /\ \/ ~inputDone /\ DecoderTakes /\ (FeedSample \/ FeedEndOfStream)
       \/ (inputDone \/ ~DecoderTakes) /\ UNCHANGED <<decoderIn, extractor, inputDone>>
    /\ pc' = "drain"
    /\ UNCHANGED <<sdk, outputDone, videoTracks, info, movie,
                   late, swallowed, missed, decoderOut, surfaceVars, encoderVars>>

(* The first announcement of the format, whichever it is, adds the track.  *)
AddVideoTrackAlways(n) == n + 1
AddVideoTrackOnce(n) == IF n = 0 THEN 1 ELSE n

WriteSampleDoneEarly(head) ==
    /\ movie' = IF head = Eos THEN movie ELSE Append(movie, head)
    /\ outputDone' = inputDone
    /\ UNCHANGED videoTracks

WriteSample(head) ==
    /\ movie' = IF head = Eos THEN movie ELSE Append(movie, head)
    /\ outputDone' = (head = Eos)
    /\ UNCHANGED videoTracks

DrainEncoder ==
    /\ pc = "drain"
    /\ encoderOut # <<>>
    /\ encoderOut' = Tail(encoderOut)
    /\ \/ /\ Head(encoderOut) \in {Format, Config}
          /\ videoTracks' = AddVideoTrackOnce(videoTracks)
          /\ UNCHANGED <<movie, outputDone>>
       \/ /\ Head(encoderOut) \notin {Format, Config}
          /\ WriteSample(Head(encoderOut))
    /\ UNCHANGED <<sdk, pc, extractor, inputDone, info, late, swallowed, missed,
                   decoderVars, surfaceVars, encoderIn, announcements>>

EncoderTryAgainLater ==
    /\ pc = "drain"
    /\ encoderOut = <<>>
    /\ pc' = "decode"
    /\ UNCHANGED <<sdk, extractor, inputDone, outputDone, videoTracks, info, movie,
                   late, swallowed, missed, decoderVars, surfaceVars, encoderVars>>

EndOfInnerLoop == IF outputDone THEN "done" ELSE "feed"
AfterFrame(b) == IF b.frame = EndOfStream THEN "signal" ELSE "drain"

DecoderTryAgainLater ==
    /\ pc = "decode"
    /\ decoderOut = <<>>
    /\ pc' = EndOfInnerLoop
    /\ UNCHANGED <<sdk, extractor, inputDone, outputDone, videoTracks, info, movie,
                   late, swallowed, missed, decoderVars, surfaceVars, encoderVars>>

DoRenderAll(b) == b.size # 0 \/ ~UsesSurface
DoRender(b) == b.size # 0 \/ (~UsesSurface /\ PresentationTime(b) # 0)

TakeDecodedFrame ==
    /\ pc = "decode"
    /\ decoderOut # <<>>
    /\ LET b == Head(decoderOut)
       IN  /\ info' = b
           /\ \/ /\ DoRender(b)
                 /\ rendered' = Append(rendered, b.frame)
                 /\ pc' = "await"
                 /\ UNCHANGED missed
              \/ /\ ~DoRender(b)
                 /\ missed' = missed \cup ({b.frame} \ {EndOfStream})
                 /\ pc' = AfterFrame(b)
                 /\ UNCHANGED rendered
    /\ decoderOut' = Tail(decoderOut)
    /\ UNCHANGED <<sdk, extractor, inputDone, outputDone, videoTracks, movie,
                   late, swallowed, decoderIn, arrived, texture, mFrameAvailable, encoderVars>>

(***************************************************************************)
(* OutputSurface.awaitNewImage: the wait ends when the flag is set, by     *)
(* whichever frame, or after five seconds; the frame is then given up, and *)
(* may still arrive.  updateTexImage takes the most recent image, which    *)
(* may be one whose announcement is still to come.  It, or the check of    *)
(* the GL state before it, may throw once the flag has been taken: the     *)
(* loop catches whatever the wait throws, and gives the frame up.          *)
(***************************************************************************)
KeepFlag == UNCHANGED mFrameAvailable
TakeFlag == mFrameAvailable' = FALSE

RecentImages == {i \in {arrived} \cup Range(rendered) : i >= texture}

AwaitNewImage ==
    /\ pc = "await"
    /\ mFrameAvailable
    /\ TakeFlag
    /\ texture' \in RecentImages
    /\ pc' = "draw"
    /\ UNCHANGED <<sdk, extractor, inputDone, outputDone, videoTracks, info, movie,
                   late, swallowed, missed, decoderVars, rendered, arrived, encoderVars>>

GiveFrameUp ==
    /\ missed' = missed \cup {info.frame}
    /\ pc' = AfterFrame(info)
    /\ UNCHANGED <<sdk, extractor, inputDone, outputDone, videoTracks, info, movie,
                   decoderVars, rendered, arrived, encoderVars>>

FrameWaitTimedOut ==
    /\ pc = "await"
    /\ ~mFrameAvailable
    /\ late' = late + 1
    /\ GiveFrameUp
    /\ UNCHANGED <<swallowed, texture, mFrameAvailable>>

ImageNotTaken ==
    /\ pc = "await"
    /\ mFrameAvailable
    /\ TakeFlag
    /\ texture' \in {texture} \cup RecentImages
    /\ swallowed' = swallowed + 1
    /\ GiveFrameUp
    /\ UNCHANGED late

(***************************************************************************)
(* drawImage and swapBuffers hand the texture to the encoder with the time *)
(* of info, and block while the encoder takes nothing.  When               *)
(* eglSwapBuffers fails, swapBuffers returns false and nobody looks at it. *)
(* Before Android 4.3 a buffer of the encoder is queued as it is (no       *)
(* picture: image 0), or the frame is given up when there is none.         *)
(***************************************************************************)
EncoderTakes == Len(encoderIn) < EncoderSlots

DrawnAtItsOwnTime == [kind |-> "sample", image |-> texture, time |-> texture]
Drawn == [kind |-> "sample", image |-> texture, time |-> info.frame]

SwapBuffersOrDrop ==
    /\ pc = "draw"
    /\ UsesSurface
    /\ \/ EncoderTakes /\ encoderIn' = Append(encoderIn, Drawn) /\ UNCHANGED missed
       \/ ~EncoderTakes /\ missed' = missed \cup {info.frame} /\ UNCHANGED encoderIn
    /\ pc' = AfterFrame(info)
    /\ UNCHANGED <<sdk, extractor, inputDone, outputDone, videoTracks, info, movie,
                   late, swallowed, decoderVars, surfaceVars, encoderOut, announcements>>

SwapBuffers ==
    /\ pc = "draw"
    /\ UsesSurface
    /\ EncoderTakes
    /\ encoderIn' = Append(encoderIn, Drawn)
    /\ pc' = AfterFrame(info)
    /\ UNCHANGED <<sdk, extractor, inputDone, outputDone, videoTracks, info, movie,
                   late, swallowed, missed, decoderVars, surfaceVars, encoderOut, announcements>>

SwapBuffersFails ==
    /\ pc = "draw"
    /\ UsesSurface
    /\ swallowed' = swallowed + 1
    /\ GiveFrameUp
    /\ UNCHANGED <<late, texture, mFrameAvailable>>

QueueFrame ==
    /\ pc = "draw"
    /\ ~UsesSurface
    /\ \/ /\ EncoderTakes
          /\ encoderIn' = Append(encoderIn, [kind |-> "sample", image |-> 0, time |-> info.frame])
          /\ UNCHANGED missed
       \/ /\ ~EncoderTakes
          /\ missed' = missed \cup {info.frame}
          /\ UNCHANGED encoderIn
    /\ pc' = AfterFrame(info)
    /\ UNCHANGED <<sdk, extractor, inputDone, outputDone, videoTracks, info, movie,
                   late, swallowed, decoderVars, surfaceVars, encoderOut, announcements>>

(***************************************************************************)
(* The decoder is at its end: tell the encoder.  A surface is told in any  *)
(* case; a free input buffer may not be found, and is not looked for again.*)
(***************************************************************************)
EosIfThereIsRoom == EncoderTakes
EosGoesThrough == UsesSurface \/ EncoderTakes

SignalEndOfStream ==
    /\ pc = "signal"
    /\ encoderIn' = IF EosGoesThrough THEN Append(encoderIn, Eos) ELSE encoderIn
    /\ pc' = EndOfInnerLoop
    /\ UNCHANGED <<sdk, extractor, inputDone, outputDone, videoTracks, info, movie,
                   late, swallowed, missed, decoderVars, surfaceVars, encoderOut, announcements>>

(* Any other call of a codec or a surface may throw; the loop is then left.*)
PumpFails ==
    /\ pc \notin Final \cup {"await"}
    /\ pc' = "failed"
    /\ UNCHANGED <<sdk, extractor, inputDone, outputDone, videoTracks, info, movie,
                   late, swallowed, missed, decoderVars, surfaceVars, encoderVars>>

PumpStep ==
    \/ Feed
    \/ DrainEncoder \/ EncoderTryAgainLater
    \/ DecoderTryAgainLater \/ TakeDecodedFrame
    \/ AwaitNewImage \/ FrameWaitTimedOut
    \/ SwapBuffers \/ QueueFrame
    \/ SignalEndOfStream

-----------------------------------------------------------------------------
(* The codecs: first in, first out.                                        *)
DecoderStep ==
    /\ pc \notin Final
    /\ decoderIn # <<>>
    /\ Len(decoderOut) < DecoderSlots
    /\ \E size \in IF Head(decoderIn) = EndOfStream THEN {0}
                   ELSE IF UsesSurface THEN {1} ELSE {0, 1} :
          decoderOut' = Append(decoderOut, [frame |-> Head(decoderIn), size |-> size])
    /\ decoderIn' = Tail(decoderIn)
    /\ UNCHANGED <<pumpVars, surfaceVars, encoderVars>>

(* A change of format is not a buffer and takes no slot.                   *)
EncoderHasOutput == Len(SelectSeq(encoderOut, LAMBDA out : out # Format)) < OutputSlots

EncoderAnnounces ==
    /\ pc \notin Final
    /\ encoderIn # <<>>
    /\ announcements # <<>>
    /\ EncoderHasOutput \/ Head(announcements) = Format
    /\ encoderOut' = Append(encoderOut, Head(announcements))
    /\ announcements' = Tail(announcements)
    /\ UNCHANGED <<pumpVars, decoderVars, surfaceVars, encoderIn>>

EncoderEncodes ==
    /\ pc \notin Final
    /\ encoderIn # <<>>
    /\ announcements = <<>>
    /\ EncoderHasOutput
    /\ encoderOut' = Append(encoderOut, Head(encoderIn))
    /\ encoderIn' = Tail(encoderIn)
    /\ UNCHANGED <<pumpVars, decoderVars, surfaceVars, announcements>>

EncoderStep == EncoderAnnounces \/ EncoderEncodes

(***************************************************************************)
(* OutputSurface.onFrameAvailable, called on the main looper for every     *)
(* rendered frame.  Its exception ends the process.                        *)
(***************************************************************************)
OnFrameAvailable ==
    /\ pc \notin Final
    /\ rendered # <<>>
    /\ \/ /\ mFrameAvailable
          /\ pc' = "crashed"
          /\ UNCHANGED mFrameAvailable
       \/ /\ ~mFrameAvailable
          /\ mFrameAvailable' = TRUE
          /\ UNCHANGED pc
    /\ arrived' = Head(rendered)
    /\ rendered' = Tail(rendered)
    /\ UNCHANGED <<sdk, extractor, inputDone, outputDone, videoTracks, info, movie,
                   late, swallowed, missed, texture, decoderVars, encoderVars>>

Stopped == pc \in Final /\ UNCHANGED vars

Failure == ImageNotTaken \/ SwapBuffersFails \/ PumpFails

Next == PumpStep \/ Failure \/ DecoderStep \/ EncoderStep \/ OnFrameAvailable \/ Stopped

(***************************************************************************)
(* The thread is scheduled, the codecs work, the looper runs; nothing      *)
(* needs to fail.                                                          *)
(***************************************************************************)
Spec == /\ Init /\ [][Next]_vars
        /\ WF_vars(PumpStep)
        /\ WF_vars(DecoderStep)
        /\ WF_vars(EncoderStep)
        /\ WF_vars(OnFrameAvailable)

-----------------------------------------------------------------------------
(***************************************************************************)
(* Whether the configuration comes as a buffer, as a change of format or   *)
(* as both, in either order, one video track is added, and it is there     *)
(* before the first sample is written.                                     *)
(***************************************************************************)
OneVideoTrack ==
    /\ videoTracks <= 1
    /\ movie # <<>> => videoTracks = 1

(***************************************************************************)
(* The picture encoded for a time is never a later one, and is behind by   *)
(* at most the number of waits that timed out: without a time-out each     *)
(* frame is encoded with its own picture.                                  *)
(***************************************************************************)
IsSample(b) == b.kind = "sample"
Pictures == {b \in Range(movie) \cup Range(encoderOut) \cup Range(encoderIn) : IsSample(b)}

PictureLagBounded ==
    UsesSurface => \A p \in Pictures : p.image <= p.time /\ p.time - p.image <= late

(***************************************************************************)
(* Every frame of the recording is accounted for: on a surface, where the  *)
(* encoder's queue costs no frame, one is lost for each picture that comes *)
(* too late and for each error the loop swallows, and for nothing else;    *)
(* and when the loop ends by itself no frame is left in a queue, each one  *)
(* having been written to the file or given up for a reason.               *)
(***************************************************************************)
FramesAccountedFor ==
    /\ UsesSurface => Cardinality(missed) = late + swallowed
    /\ pc = "done" =>
           /\ extractor = Frames + 1
           /\ decoderIn \o decoderOut \o encoderIn \o encoderOut = <<>>
           /\ {p.time : p \in Range(movie)} \cup missed = 1 .. Frames

(***************************************************************************)
(* The transcoded track is a copy of the recording in the sense of         *)
(* FrameCopy: a frame has had its turn once it is encoded or given up.     *)
(* What the encoder holds is announcements, then samples, then perhaps the *)
(* end of the stream.                                                      *)
(***************************************************************************)
Queue == encoderOut \o encoderIn
Ahead == Cardinality({i \in DOMAIN encoderOut : encoderOut[i] \in {Format, Config}})
Behind == IF Eos \in Range(Queue) THEN 1 ELSE 0
Encoded == movie \o SubSeq(Queue, Ahead + 1, Len(Queue) - Behind)

Copying == INSTANCE FrameCopy WITH
    next <- Len(Encoded) + Cardinality(missed) + 1,
    copied <- [i \in 1 .. Len(Encoded) |-> Encoded[i].time],
    ended <- pc = "done"

CopiesFrames == Copying!Spec

(***************************************************************************)
(* The loop ends.  It never waits for ever on a full or an empty queue,    *)
(* with a single exception: before Android 4.3, if the encoder had no      *)
(* free input buffer when the decoder reached its end, the encoder is      *)
(* never told, and the loop goes on without end.                           *)
(***************************************************************************)
EosLost ==
    /\ ~UsesSurface
    /\ info.frame = EndOfStream
    /\ pc \in {"feed", "drain", "decode"}
    /\ Eos \notin Range(encoderIn) \cup Range(encoderOut)
    /\ ~outputDone

PumpEnds == <>(pc \in Final \/ EosLost)
=============================================================================
