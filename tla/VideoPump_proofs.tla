-------------------------- MODULE VideoPump_proofs --------------------------
(***************************************************************************)
(* Proofs about VideoPump, for recordings of any length and codecs with    *)
(* any number of buffers.                                                  *)
(*                                                                         *)
(* The invariant has five layers, each proved with the help of those       *)
(* before it: the order of what is in the decoder, the order of what the   *)
(* encoder emits, a count of the announcements of the surface, the         *)
(* whereabouts of every frame, and the shape of the encoder's queue, from  *)
(* which it follows that the loop implements FrameCopy.                    *)
(***************************************************************************)
EXTENDS VideoPump, FiniteSetTheorems, TLAPS

(***************************************************************************)
(* The first layer.  The decoder has been fed the frames in their order    *)
(* and then the end of the stream; what was taken from it is the first     *)
(* part of that, and what it still holds is the rest.                      *)
(***************************************************************************)
Types ==
    /\ sdk \in Sdks
    /\ pc \in {"feed", "drain", "decode", "await", "draw", "signal"} \cup Final
    /\ extractor \in 1 .. Frames + 1
    /\ inputDone \in BOOLEAN /\ outputDone \in BOOLEAN /\ mFrameAvailable \in BOOLEAN
    /\ videoTracks \in 0 .. 1
    /\ info \in Buffer
    /\ decoderIn \in Seq(0 .. Frames) /\ Len(decoderIn) <= DecoderSlots
    /\ decoderOut \in Seq(Buffer) /\ Len(decoderOut) <= DecoderSlots
    /\ rendered \in Seq(1 .. Frames)
    /\ arrived \in 0 .. Frames /\ texture \in 0 .. Frames
    /\ encoderIn \in Seq(Picture \cup {Eos})
    /\ encoderOut \in Seq(Picture \cup {Eos, Format, Config})
    /\ announcements \in Seq({Format, Config})
    /\ movie \in Seq(Picture)
    /\ late \in Nat /\ swallowed \in Nat
    /\ missed \subseteq 1 .. Frames

Fed == extractor - 1 + (IF inputDone THEN 1 ELSE 0)
Taken == Fed - Len(decoderOut) - Len(decoderIn)
Item(k) == IF k <= Frames THEN k ELSE EndOfStream

InOrder ==
    /\ inputDone => extractor = Frames + 1
    /\ Taken \in Nat
    /\ \A i \in 1 .. Len(decoderOut) : decoderOut[i].frame = Item(Taken + i)
    /\ \A i \in 1 .. Len(decoderIn) : decoderIn[i] = Item(Taken + Len(decoderOut) + i)
    /\ \A i \in 1 .. Len(decoderOut) :
           /\ decoderOut[i].frame = EndOfStream => decoderOut[i].size = 0
           /\ UsesSurface /\ decoderOut[i].frame # EndOfStream => decoderOut[i].size = 1
    /\ Taken >= 1 => info.frame = Item(Taken)
    /\ pc \in {"await", "draw"} => Taken \in 1 .. Frames
    /\ pc = "signal" => Taken = Frames + 1

DecoderInv == Types /\ InOrder

-----------------------------------------------------------------------------
LEMMA Constants ==
    /\ Frames \in Nat \ {0} /\ DecoderSlots \in Nat \ {0} /\ EncoderSlots \in Nat \ {0}
    /\ Sdks \subseteq Nat
  BY PumpAssumption

LEMMA InitDecoder == Init => DecoderInv
  <1> SUFFICES ASSUME Init PROVE DecoderInv
    OBVIOUS
  <1>1. announcements \in Seq({Format, Config})
    <2>1. announcements \in {<<Format>>, <<Config>>, <<Format, Config>>, <<Config, Format>>}
      BY DEF Init, Announcements
    <2>2. <<Format>> \in Seq({Format, Config}) /\ <<Config>> \in Seq({Format, Config})
      OBVIOUS
    <2>3. <<Format, Config>> \in Seq({Format, Config}) /\ <<Config, Format>> \in Seq({Format, Config})
      OBVIOUS
    <2> QED
      BY <2>1, <2>2, <2>3
  <1>2. info \in Buffer
    BY Constants DEF Init, Buffer
  <1>3. Types
    <2>1. /\ sdk \in Sdks /\ pc = "feed" /\ inputDone \in BOOLEAN
          /\ outputDone \in BOOLEAN /\ mFrameAvailable \in BOOLEAN
      BY DEF Init
    <2>4. /\ extractor \in 1 .. Frames + 1
          /\ videoTracks \in 0 .. 1 /\ late \in Nat /\ swallowed \in Nat /\ missed \subseteq 1 .. Frames
          /\ arrived \in 0 .. Frames /\ texture \in 0 .. Frames
      BY Constants DEF Init
    <2>2. /\ decoderIn \in Seq(0 .. Frames) /\ Len(decoderIn) <= DecoderSlots
          /\ decoderOut \in Seq(Buffer) /\ Len(decoderOut) <= DecoderSlots
      BY Constants DEF Init
    <2>3. /\ rendered \in Seq(1 .. Frames)
          /\ encoderIn \in Seq(Picture \cup {Eos})
          /\ encoderOut \in Seq(Picture \cup {Eos, Format, Config})
          /\ movie \in Seq(Picture)
      BY DEF Init
    <2> QED
      BY <1>1, <1>2, <2>1, <2>2, <2>3, <2>4 DEF Types
  <1>4. InOrder
    BY Constants DEF Init, InOrder, Fed, Taken, Item
  <1> QED
    BY <1>3, <1>4 DEF DecoderInv

(* What the steps that do not touch the decoder have to show.              *)
LEMMA DecoderUntouched ==
    ASSUME DecoderInv, UNCHANGED <<sdk, extractor, inputDone, info, decoderVars>>,
           pc' \in {"await", "draw"} => Taken \in 1 .. Frames,
           pc' = "signal" => Taken = Frames + 1
    PROVE  InOrder'
  <1>1. Taken' = Taken
    BY DEF Taken, Fed, decoderVars
  <1> QED
    BY <1>1 DEF DecoderInv, InOrder, decoderVars, UsesSurface

(* A frame that is rendered is followed by another turn of the loop.       *)
LEMMA AfterRendered ==
    ASSUME DecoderInv, pc \in {"await", "draw"}
    PROVE  AfterFrame(info) = "drain" /\ info.frame = Taken /\ Taken \in 1 .. Frames
  <1>1. Taken \in 1 .. Frames /\ info.frame = Item(Taken)
    BY DEF DecoderInv, InOrder
  <1>2. info.frame = Taken
    BY <1>1, Constants DEF Item
  <1> QED
    BY <1>1, <1>2, Constants DEF AfterFrame, EndOfStream

LEMMA Bounded ==
    ASSUME DecoderInv
    PROVE  /\ Fed \in 0 .. Frames + 1 /\ Taken \in 0 .. Frames + 1
           /\ Len(decoderIn) \in Nat /\ Len(decoderOut) \in Nat
           /\ Taken + Len(decoderOut) + Len(decoderIn) = Fed
  <1>1. Len(decoderIn) \in Nat /\ Len(decoderOut) \in Nat
    BY DEF DecoderInv, Types
  <1>2. extractor \in 1 .. Frames + 1 /\ (inputDone => extractor = Frames + 1)
    BY DEF DecoderInv, Types, InOrder
  <1>3. Fed \in 0 .. Frames + 1
    BY <1>2, Constants DEF Fed
  <1>4. Taken \in Nat
    BY DEF DecoderInv, InOrder
  <1> QED
    BY <1>1, <1>3, <1>4, Constants DEF Taken

LEMMA FeedDecoder ==
    ASSUME DecoderInv, Feed
    PROVE  DecoderInv'
  <1>1. pc' = "drain" /\ UNCHANGED <<sdk, outputDone, videoTracks, info, movie,
                                     late, swallowed, missed,
                   decoderOut, rendered, arrived, texture, mFrameAvailable,
                   encoderIn, encoderOut, announcements>>
    BY DEF Feed, surfaceVars, encoderVars
  <1>2. CASE UNCHANGED <<decoderIn, extractor, inputDone>>
    <2>1. Types'
      BY <1>1, <1>2 DEF DecoderInv, Types
    <2> QED
      BY <1>1, <1>2, <2>1, DecoderUntouched DEF DecoderInv, decoderVars
  <1>3. ASSUME NEW k \in 0 .. Frames, ~inputDone, DecoderTakes, decoderIn' = Append(decoderIn, k),
               Fed' = Fed + 1, k = Item(Fed + 1), inputDone' \in BOOLEAN,
               inputDone' => extractor' = Frames + 1,
               extractor' \in 1 .. Frames + 1
        PROVE  DecoderInv'
    <2>1. /\ decoderIn' \in Seq(0 .. Frames) /\ Len(decoderIn') = Len(decoderIn) + 1
          /\ decoderIn'[Len(decoderIn) + 1] = k
          /\ \A i \in 1 .. Len(decoderIn) : decoderIn'[i] = decoderIn[i]
      BY <1>3 DEF DecoderInv, Types
    <2>2. Types'
      <3>1. Len(decoderIn') <= DecoderSlots
        BY <1>3, <2>1, Bounded, Constants DEF DecoderTakes
      <3> QED
        BY <1>1, <1>3, <2>1, <3>1 DEF DecoderInv, Types
    <2>3. Taken' = Taken
      <3>1. Fed \in Int /\ Len(decoderOut) \in Int /\ Len(decoderIn) \in Int
        BY Bounded, Constants
      <3>2. Fed' = Fed + 1 /\ Len(decoderIn') = Len(decoderIn) + 1 /\ decoderOut' = decoderOut
        BY <1>1, <1>3, <2>1
      <3> QED
        BY <3>1, <3>2 DEF Taken
    <2>4. \A i \in 1 .. Len(decoderIn') : decoderIn'[i] = Item(Taken + Len(decoderOut) + i)
      BY <1>3, <2>1, Bounded DEF DecoderInv, InOrder
    <2>5. InOrder'
      BY <1>1, <1>3, <2>3, <2>4 DEF DecoderInv, InOrder, UsesSurface, Item
    <2> QED
      BY <2>2, <2>5 DEF DecoderInv
  <1>4. CASE ~inputDone /\ DecoderTakes /\ FeedSample
    <2>1. /\ extractor \in 1 .. Frames /\ extractor' = extractor + 1 /\ inputDone' = FALSE
          /\ decoderIn' = Append(decoderIn, extractor)
      BY <1>4, Constants DEF FeedSample, DecoderInv, Types
    <2>2. Fed' = Fed + 1 /\ extractor = Fed + 1 /\ extractor = Item(Fed + 1)
      BY <1>4, <2>1, Constants DEF Fed, Item
    <2>3. extractor \in 0 .. Frames /\ extractor' \in 1 .. Frames + 1
      BY <2>1, Constants
    <2>5. inputDone' \in BOOLEAN /\ (inputDone' => extractor' = Frames + 1)
      BY <2>1
    <2>4. ~inputDone /\ DecoderTakes
      BY <1>4
    <2> QED
      BY <1>3, <2>1, <2>2, <2>3, <2>4, <2>5
  <1>5. CASE ~inputDone /\ DecoderTakes /\ FeedEndOfStream
    <2>1. /\ extractor = Frames + 1 /\ extractor' = extractor /\ inputDone' = TRUE
          /\ decoderIn' = Append(decoderIn, EndOfStream)
      BY <1>5, Constants DEF FeedEndOfStream, DecoderInv, Types
    <2>2. Fed' = Fed + 1 /\ EndOfStream = Item(Fed + 1) /\ EndOfStream \in 0 .. Frames
      BY <1>5, <2>1, Constants DEF Fed, Item, EndOfStream
    <2> QED
      BY <1>3, <1>5, <2>1, <2>2, Constants
  <1> QED
    BY <1>2, <1>4, <1>5 DEF Feed

LEMMA DrainDecoder ==
    ASSUME DecoderInv, DrainEncoder
    PROVE  DecoderInv'
  <1>1. /\ pc = "drain" /\ encoderOut # <<>> /\ encoderOut' = Tail(encoderOut)
        /\ UNCHANGED <<sdk, pc, extractor, inputDone, info,
                       late, swallowed, missed, decoderIn, decoderOut,
                        rendered, arrived, texture, mFrameAvailable, encoderIn, announcements>>
    BY DEF DrainEncoder, decoderVars, surfaceVars
  <1>2. /\ encoderOut' \in Seq(Picture \cup {Eos, Format, Config})
        /\ Head(encoderOut) \in Picture \cup {Eos, Format, Config}
    BY <1>1 DEF DecoderInv, Types
  <1>3. videoTracks' \in 0 .. 1 /\ outputDone' \in BOOLEAN /\ movie' \in Seq(Picture)
    <2>1. CASE Head(encoderOut) \in {Format, Config}
      BY <2>1 DEF DrainEncoder, AddVideoTrackOnce, DecoderInv, Types
    <2>2. CASE Head(encoderOut) \notin {Format, Config}
      <3>1. movie \in Seq(Picture)
        BY DEF DecoderInv, Types
      <3>2. Head(encoderOut) = Eos \/ Head(encoderOut) \in Picture
        BY <1>2, <2>2
      <3>3. movie' = IF Head(encoderOut) = Eos THEN movie ELSE Append(movie, Head(encoderOut))
        BY <2>2 DEF DrainEncoder, WriteSample
      <3>4. movie' \in Seq(Picture)
        BY <3>1, <3>2, <3>3
      <3>5. videoTracks' \in 0 .. 1 /\ outputDone' \in BOOLEAN
        BY <2>2 DEF DrainEncoder, WriteSample, DecoderInv, Types
      <3> QED
        BY <3>4, <3>5
    <2> QED
      BY <2>1, <2>2
  <1>4. Types'
    BY <1>1, <1>2, <1>3 DEF DecoderInv, Types
  <1>5. InOrder'
    BY <1>1, DecoderUntouched DEF decoderVars
  <1> QED
    BY <1>4, <1>5 DEF DecoderInv

LEMMA TryAgainLater ==
    ASSUME DecoderInv, EncoderTryAgainLater \/ DecoderTryAgainLater
    PROVE  DecoderInv'
  <1>1. /\ pc' \in {"decode", "done", "feed"}
        /\ UNCHANGED <<sdk, extractor, inputDone, outputDone, videoTracks, info, movie,
                       late, swallowed, missed,
                        decoderIn, decoderOut, rendered, arrived, texture, mFrameAvailable,
                        encoderIn, encoderOut, announcements>>
    BY DEF EncoderTryAgainLater, DecoderTryAgainLater, EndOfInnerLoop, decoderVars, surfaceVars, encoderVars
  <1>2. Types'
    BY <1>1 DEF DecoderInv, Types, Final
  <1>3. InOrder'
    BY <1>1, DecoderUntouched DEF decoderVars
  <1> QED
    BY <1>2, <1>3 DEF DecoderInv

(* What the thread takes is the next frame, or the end of the stream,      *)
(* which is never rendered: it holds no data, and its time is zero.        *)
LEMMA TakenIsNext ==
    ASSUME DecoderInv, TakeDecodedFrame
    PROVE  /\ Taken' = Taken + 1 /\ Taken' \in 1 .. Frames + 1
           /\ info' = decoderOut[1] /\ info'.frame = Item(Taken') /\ info' \in Buffer
           /\ DoRender(info') => Taken' \in 1 .. Frames /\ info'.frame = Taken'
           /\ Taken' = Frames + 1 => info'.frame = EndOfStream
           /\ Taken' \in 1 .. Frames => info'.frame = Taken'
           /\ AfterFrame(info') = IF Taken' = Frames + 1 THEN "signal" ELSE "drain"
           /\ Taken' \in 1 .. Frames /\ UsesSurface => DoRender(info')
  <1>1. /\ decoderOut # <<>> /\ decoderOut' = Tail(decoderOut) /\ info' = Head(decoderOut)
        /\ UNCHANGED <<extractor, inputDone, decoderIn>>
    BY DEF TakeDecodedFrame
  <1>2. /\ info' = decoderOut[1] /\ info' \in Buffer
        /\ 1 \in 1 .. Len(decoderOut) /\ Len(decoderOut') = Len(decoderOut) - 1
    BY <1>1 DEF DecoderInv, Types
  <1>3. Taken' = Taken + 1 /\ Taken' \in 1 .. Frames + 1
    <2>1. Fed' = Fed
      BY <1>1 DEF Fed
    <2> QED
      BY <1>1, <1>2, <2>1, Bounded, Constants DEF Taken
  <1>4. info'.frame = Item(Taken')
    BY <1>2, <1>3 DEF DecoderInv, InOrder
  <1>5. /\ Taken' = Frames + 1 => info'.frame = EndOfStream
        /\ Taken' \in 1 .. Frames => info'.frame = Taken'
    BY <1>3, <1>4, Constants DEF Item
  <1>6. /\ info'.frame = EndOfStream => info'.size = 0
        /\ UsesSurface /\ info'.frame # EndOfStream => info'.size = 1
    BY <1>2 DEF DecoderInv, InOrder
  <1>7. info'.frame = EndOfStream => ~DoRender(info')
    BY <1>6 DEF DoRender, PresentationTime
  <1>8. EndOfStream \notin 1 .. Frames
    BY DEF EndOfStream
  <1>9. Taken' \in 1 .. Frames /\ UsesSurface => DoRender(info')
    BY <1>5, <1>6, <1>8 DEF DoRender
  <1> QED
    BY <1>2, <1>3, <1>4, <1>5, <1>7, <1>8, <1>9, Constants DEF AfterFrame

LEMMA TakeDecoder ==
    ASSUME DecoderInv, TakeDecodedFrame
    PROVE  DecoderInv'
  <1>1. /\ decoderOut # <<>> /\ decoderOut' = Tail(decoderOut)
        /\ UNCHANGED <<sdk, extractor, inputDone, outputDone, videoTracks, movie, late, swallowed,
                   decoderIn, arrived, texture, mFrameAvailable, encoderIn, encoderOut, announcements>>
    BY DEF TakeDecodedFrame, encoderVars
  <1>2. /\ decoderOut' \in Seq(Buffer) /\ Len(decoderOut') = Len(decoderOut) - 1
        /\ Len(decoderOut) \in Nat \ {0}
        /\ \A i \in 1 .. Len(decoderOut') : decoderOut'[i] = decoderOut[i + 1]
    BY <1>1 DEF DecoderInv, Types
  <1>3. \/ /\ DoRender(info') /\ rendered' = Append(rendered, info'.frame)
           /\ pc' = "await" /\ missed' = missed
        \/ /\ ~DoRender(info') /\ missed' = missed \cup ({info'.frame} \ {EndOfStream})
           /\ pc' = AfterFrame(info') /\ rendered' = rendered
    BY DEF TakeDecodedFrame
  <1>4. /\ pc' \in {"await", "signal", "drain"}
        /\ pc' = "await" => Taken' \in 1 .. Frames
        /\ pc' = "signal" => Taken' = Frames + 1
        /\ missed' \subseteq 1 .. Frames /\ rendered' \in Seq(1 .. Frames)
    <2>1. missed \subseteq 1 .. Frames /\ rendered \in Seq(1 .. Frames)
      BY DEF DecoderInv, Types
    <2>2. CASE DoRender(info')
      <3>1. /\ rendered' = Append(rendered, info'.frame) /\ pc' = "await" /\ missed' = missed
        BY <1>3, <2>2
      <3>2. Taken' \in 1 .. Frames /\ info'.frame \in 1 .. Frames
        BY <2>2, TakenIsNext
      <3> QED
        BY <2>1, <3>1, <3>2
    <2>3. CASE ~DoRender(info')
      <3>1. /\ missed' = missed \cup ({info'.frame} \ {EndOfStream})
            /\ pc' = AfterFrame(info') /\ rendered' = rendered
        BY <1>3, <2>3
      <3>2. pc' = IF Taken' = Frames + 1 THEN "signal" ELSE "drain"
        BY <3>1, TakenIsNext
      <3>3. {info'.frame} \ {EndOfStream} \subseteq 1 .. Frames
        BY TakenIsNext, Constants
      <3> QED
        BY <2>1, <3>1, <3>2, <3>3
    <2> QED
      BY <2>2, <2>3
  <1>5. Types'
    <2>1. Len(decoderOut') <= DecoderSlots
      BY <1>2, Constants DEF DecoderInv, Types
    <2> QED
      BY <1>1, <1>2, <1>4, <2>1, TakenIsNext DEF DecoderInv, Types
  <1>6. InOrder'
    <2>1. \A i \in 1 .. Len(decoderOut') :
              /\ decoderOut'[i].frame = Item(Taken' + i)
              /\ decoderOut'[i].frame = EndOfStream => decoderOut'[i].size = 0
              /\ UsesSurface /\ decoderOut'[i].frame # EndOfStream => decoderOut'[i].size = 1
      <3> SUFFICES ASSUME NEW i \in 1 .. Len(decoderOut')
                   PROVE  /\ decoderOut'[i].frame = Item(Taken' + i)
                          /\ decoderOut'[i].frame = EndOfStream => decoderOut'[i].size = 0
                          /\ UsesSurface /\ decoderOut'[i].frame # EndOfStream
                                => decoderOut'[i].size = 1
        OBVIOUS
      <3>1. i + 1 \in 1 .. Len(decoderOut) /\ decoderOut'[i] = decoderOut[i + 1]
        BY <1>2
      <3>2. Taken + (i + 1) = Taken' + i
        BY <1>2, Bounded, TakenIsNext, Constants
      <3> QED
        BY <3>1, <3>2 DEF DecoderInv, InOrder
    <2>2. \A i \in 1 .. Len(decoderIn') : decoderIn'[i] = Item(Taken' + Len(decoderOut') + i)
      <3>1. Taken' + Len(decoderOut') = Taken + Len(decoderOut)
        BY <1>2, Bounded, TakenIsNext, Constants
      <3> QED
        BY <1>1, <3>1 DEF DecoderInv, InOrder
    <2>3. Taken' \in Nat /\ info'.frame = Item(Taken')
      BY TakenIsNext, Constants
    <2>4. inputDone' => extractor' = Frames + 1
      BY <1>1 DEF DecoderInv, InOrder
    <2> QED
      BY <1>1, <1>4, <2>1, <2>2, <2>3, <2>4 DEF InOrder, Item, UsesSurface
  <1> QED
    BY <1>5, <1>6 DEF DecoderInv

LEMMA ElementType ==
    ASSUME NEW S, NEW s \in Seq(S), NEW i \in 1 .. Len(s)
    PROVE  s[i] \in S
  OBVIOUS

(***************************************************************************)
(* A frame that was rendered is given up when the wait for it times out,   *)
(* when its image cannot be taken, and when the swap of buffers fails.     *)
(***************************************************************************)
GivenUp == FrameWaitTimedOut \/ ImageNotTaken \/ SwapBuffersFails

LEMMA GivenUpIs ==
    ASSUME DecoderInv, GivenUp
    PROVE  /\ pc \in {"await", "draw"} /\ pc' = "drain"
           /\ missed' = missed \cup {Taken} /\ info.frame = Taken /\ Taken \in 1 .. Frames
           /\ \/ late' = late + 1 /\ swallowed' = swallowed
              \/ late' = late /\ swallowed' = swallowed + 1
           /\ mFrameAvailable' \in BOOLEAN
           /\ texture' \in {texture, arrived} \cup Range(rendered)
           /\ UNCHANGED <<sdk, extractor, inputDone, outputDone, videoTracks, info, movie, decoderIn,
                          decoderOut, rendered, arrived, encoderIn, encoderOut, announcements>>
  <1>1. GiveFrameUp /\ pc \in {"await", "draw"}
    BY DEF GivenUp, FrameWaitTimedOut, ImageNotTaken, SwapBuffersFails
  <1>2. \/ late' = late + 1 /\ swallowed' = swallowed
        \/ late' = late /\ swallowed' = swallowed + 1
    BY DEF GivenUp, FrameWaitTimedOut, ImageNotTaken, SwapBuffersFails
  <1>3. mFrameAvailable' \in BOOLEAN /\ texture' \in {texture, arrived} \cup Range(rendered)
    BY DEF GivenUp, FrameWaitTimedOut, ImageNotTaken, SwapBuffersFails, TakeFlag, RecentImages,
           DecoderInv, Types
  <1> QED
    BY <1>1, <1>2, <1>3, AfterRendered DEF GiveFrameUp, decoderVars, encoderVars

LEMMA AwaitDecoder ==
    ASSUME DecoderInv, AwaitNewImage \/ GivenUp
    PROVE  DecoderInv'
  <1>1. /\ pc \in {"await", "draw"} /\ pc' \in {"draw", "drain"}
        /\ mFrameAvailable' \in BOOLEAN /\ texture' \in {texture, arrived} \cup Range(rendered)
        /\ late' \in {late, late + 1} /\ swallowed' \in {swallowed, swallowed + 1}
        /\ missed' \subseteq missed \cup {info.frame}
        /\ UNCHANGED <<sdk, extractor, inputDone, outputDone, videoTracks, info, movie, decoderIn,
                       decoderOut, rendered, arrived, encoderIn, encoderOut, announcements>>
    BY GivenUpIs DEF AwaitNewImage, TakeFlag, RecentImages, decoderVars, encoderVars
  <1>2. texture' \in 0 .. Frames
    <2>1. rendered \in Seq(1 .. Frames) /\ arrived \in 0 .. Frames /\ texture \in 0 .. Frames
      BY DEF DecoderInv, Types
    <2>2. Range(rendered) \subseteq 0 .. Frames
      BY <2>1, Constants DEF Range
    <2> QED
      BY <1>1, <2>1, <2>2
  <1>3. missed' \subseteq 1 .. Frames /\ late' \in Nat /\ swallowed' \in Nat
    BY <1>1, AfterRendered DEF DecoderInv, Types
  <1>4. Types'
    BY <1>1, <1>2, <1>3 DEF DecoderInv, Types
  <1>5. InOrder'
    <2>1. pc' \in {"await", "draw"} => Taken \in 1 .. Frames
      BY <1>1, AfterRendered
    <2> QED
      BY <1>1, <2>1, DecoderUntouched DEF decoderVars
  <1> QED
    BY <1>4, <1>5 DEF DecoderInv

(* What goes into the encoder is a picture, at the time of a frame.        *)
LEMMA DrawnIsPicture ==
    ASSUME DecoderInv, pc = "draw"
    PROVE  /\ Drawn \in Picture
           /\ [kind |-> "sample", image |-> 0, time |-> info.frame] \in Picture
  <1>1. info.frame \in 1 .. Frames /\ texture \in 0 .. Frames
    BY AfterRendered DEF DecoderInv, Types
  <1>2. 0 \in 0 .. Frames
    BY Constants
  <1> QED
    BY <1>1, <1>2 DEF Drawn, Picture

LEMMA DrawDecoder ==
    ASSUME DecoderInv, SwapBuffers \/ QueueFrame
    PROVE  DecoderInv'
  <1>1. /\ pc = "draw" /\ pc' = "drain"
        /\ missed' \subseteq missed \cup {info.frame}
        /\ UNCHANGED <<sdk, extractor, inputDone, outputDone, videoTracks, info, movie,
                       late, swallowed,
                       decoderIn, decoderOut, rendered, arrived, texture, mFrameAvailable,
                       encoderOut, announcements>>
    BY AfterRendered DEF SwapBuffers, QueueFrame, decoderVars, surfaceVars
  <1>2. encoderIn' \in Seq(Picture \cup {Eos})
    <2>1. encoderIn \in Seq(Picture \cup {Eos})
      BY DEF DecoderInv, Types
    <2>2. \/ encoderIn' = encoderIn
          \/ encoderIn' = Append(encoderIn, Drawn)
          \/ encoderIn' = Append(encoderIn, [kind |-> "sample", image |-> 0, time |-> info.frame])
      BY DEF SwapBuffers, QueueFrame
    <2> QED
      BY <1>1, <2>1, <2>2, DrawnIsPicture
  <1>3. missed' \subseteq 1 .. Frames
    BY <1>1, AfterRendered DEF DecoderInv, Types
  <1>4. Types'
    BY <1>1, <1>2, <1>3 DEF DecoderInv, Types
  <1>5. InOrder'
    BY <1>1, DecoderUntouched DEF decoderVars
  <1> QED
    BY <1>4, <1>5 DEF DecoderInv

LEMMA SignalDecoder ==
    ASSUME DecoderInv, SignalEndOfStream
    PROVE  DecoderInv'
  <1>1. /\ pc' \in {"done", "feed"}
        /\ UNCHANGED <<sdk, extractor, inputDone, outputDone, videoTracks, info, movie,
                       late, swallowed, missed,
                       decoderIn, decoderOut, rendered, arrived, texture, mFrameAvailable,
                       encoderOut, announcements>>
    BY DEF SignalEndOfStream, EndOfInnerLoop, decoderVars, surfaceVars
  <1>2. encoderIn' \in Seq(Picture \cup {Eos})
    BY DEF SignalEndOfStream, DecoderInv, Types
  <1>3. Types'
    BY <1>1, <1>2 DEF DecoderInv, Types, Final
  <1>4. InOrder'
    BY <1>1, DecoderUntouched DEF decoderVars
  <1> QED
    BY <1>3, <1>4 DEF DecoderInv

LEMMA FailDecoder ==
    ASSUME DecoderInv, PumpFails
    PROVE  DecoderInv'
  <1>1. /\ pc' = "failed"
        /\ UNCHANGED <<sdk, extractor, inputDone, outputDone, videoTracks, info, movie,
                       late, swallowed, missed,
                       decoderIn, decoderOut, rendered, arrived, texture, mFrameAvailable,
                       encoderIn, encoderOut, announcements>>
    BY DEF PumpFails, decoderVars, surfaceVars, encoderVars
  <1>2. Types'
    BY <1>1 DEF DecoderInv, Types, Final
  <1>3. InOrder'
    BY <1>1, DecoderUntouched DEF decoderVars
  <1> QED
    BY <1>2, <1>3 DEF DecoderInv

(* The decoder hands over the first of what it was fed as the last of what *)
(* it has decoded.                                                         *)
LEMMA StepDecoder ==
    ASSUME DecoderInv, DecoderStep
    PROVE  DecoderInv'
  <1>1. PICK size \in IF Head(decoderIn) = EndOfStream THEN {0}
                      ELSE IF UsesSurface THEN {1} ELSE {0, 1} :
            decoderOut' = Append(decoderOut, [frame |-> Head(decoderIn), size |-> size])
    BY DEF DecoderStep
  <1> DEFINE b == [frame |-> Head(decoderIn), size |-> size]
  <1>2. /\ decoderIn # <<>> /\ Len(decoderOut) < DecoderSlots /\ decoderIn' = Tail(decoderIn)
        /\ UNCHANGED <<sdk, pc, extractor, inputDone, outputDone, videoTracks, info, movie,
                       late, swallowed,
                       missed, rendered, arrived, texture, mFrameAvailable,
                       encoderIn, encoderOut, announcements>>
    BY DEF DecoderStep, pumpVars, surfaceVars, encoderVars
  <1>3. /\ decoderIn' \in Seq(0 .. Frames) /\ Len(decoderIn') = Len(decoderIn) - 1
        /\ Len(decoderIn) \in Nat \ {0} /\ Head(decoderIn) = decoderIn[1]
        /\ 1 \in 1 .. Len(decoderIn) /\ Head(decoderIn) \in 0 .. Frames
        /\ \A i \in 1 .. Len(decoderIn') : decoderIn'[i] = decoderIn[i + 1]
    <2>1. decoderIn \in Seq(0 .. Frames) /\ decoderIn # <<>> /\ decoderIn' = Tail(decoderIn)
      BY <1>2 DEF DecoderInv, Types
    <2>2. /\ decoderIn' \in Seq(0 .. Frames) /\ Len(decoderIn') = Len(decoderIn) - 1
          /\ Len(decoderIn) \in Nat \ {0} /\ Head(decoderIn) = decoderIn[1]
      BY <2>1
    <2>3. 1 \in 1 .. Len(decoderIn)
      BY <2>2
    <2>5. decoderIn[1] \in 0 .. Frames
      <3>1. decoderIn \in Seq(0 .. Frames)
        BY <2>1
      <3> QED
        BY <2>3, <3>1, ElementType
    <2>4. \A i \in 1 .. Len(decoderIn') : decoderIn'[i] = decoderIn[i + 1]
      BY <2>1, <2>2
    <2> QED
      BY <2>2, <2>3, <2>4, <2>5
  <1>4. /\ b \in Buffer
        /\ b.frame = Item(Taken + Len(decoderOut) + 1)
        /\ b.frame = EndOfStream => b.size = 0
        /\ UsesSurface /\ b.frame # EndOfStream => b.size = 1
    <2>1. size \in {0, 1}
      OBVIOUS
    <2>2. decoderIn[1] = Item(Taken + Len(decoderOut) + 1)
      BY <1>3 DEF DecoderInv, InOrder
    <2> QED
      BY <1>3, <2>1, <2>2 DEF Buffer
  <1> HIDE DEF b
  <1>5. /\ decoderOut' \in Seq(Buffer) /\ Len(decoderOut') = Len(decoderOut) + 1
        /\ decoderOut'[Len(decoderOut) + 1] = b
        /\ \A i \in 1 .. Len(decoderOut) : decoderOut'[i] = decoderOut[i]
    BY <1>1, <1>4 DEF DecoderInv, Types, b
  <1>6. Taken' = Taken /\ Len(decoderOut') <= DecoderSlots /\ Len(decoderIn') <= DecoderSlots
    <2>1. Fed' = Fed
      BY <1>2 DEF Fed
    <2>2. Len(decoderIn) <= DecoderSlots
      BY DEF DecoderInv, Types
    <2>3. Fed \in Int /\ Len(decoderOut) \in Int /\ Len(decoderIn) \in Int /\ DecoderSlots \in Nat
      BY Bounded, Constants
    <2>4. Len(decoderOut') = Len(decoderOut) + 1 /\ Len(decoderIn') = Len(decoderIn) - 1
      BY <1>3, <1>5
    <2>5. Len(decoderOut) < DecoderSlots
      BY <1>2
    <2> QED
      BY <2>1, <2>2, <2>3, <2>4, <2>5 DEF Taken
  <1>7. Types'
    BY <1>2, <1>3, <1>5, <1>6 DEF DecoderInv, Types
  <1>8. InOrder'
    <2>1. \A i \in 1 .. Len(decoderOut') :
              /\ decoderOut'[i].frame = Item(Taken + i)
              /\ decoderOut'[i].frame = EndOfStream => decoderOut'[i].size = 0
              /\ UsesSurface /\ decoderOut'[i].frame # EndOfStream => decoderOut'[i].size = 1
      <3> SUFFICES ASSUME NEW i \in 1 .. Len(decoderOut')
                   PROVE  /\ decoderOut'[i].frame = Item(Taken + i)
                          /\ decoderOut'[i].frame = EndOfStream => decoderOut'[i].size = 0
                          /\ UsesSurface /\ decoderOut'[i].frame # EndOfStream
                                => decoderOut'[i].size = 1
        OBVIOUS
      <3>1. CASE i = Len(decoderOut) + 1
        <4>1. Taken + Len(decoderOut) + 1 = Taken + i
          BY <3>1, Bounded, Constants
        <4> QED
          BY <1>4, <1>5, <3>1, <4>1
      <3>2. CASE i # Len(decoderOut) + 1
        <4>1. i \in 1 .. Len(decoderOut)
          BY <1>5, <3>2, Bounded
        <4> QED
          BY <1>5, <4>1 DEF DecoderInv, InOrder
      <3> QED
        BY <3>1, <3>2
    <2>2. \A i \in 1 .. Len(decoderIn') : decoderIn'[i] = Item(Taken + Len(decoderOut') + i)
      <3> SUFFICES ASSUME NEW i \in 1 .. Len(decoderIn')
                   PROVE  decoderIn'[i] = Item(Taken + Len(decoderOut') + i)
        OBVIOUS
      <3>1. i + 1 \in 1 .. Len(decoderIn) /\ decoderIn'[i] = decoderIn[i + 1]
        BY <1>3
      <3>2. Taken + Len(decoderOut) + (i + 1) = Taken + Len(decoderOut') + i
        BY <1>3, <1>5, Bounded, Constants
      <3> QED
        BY <3>1, <3>2 DEF DecoderInv, InOrder
    <2> QED
      BY <1>2, <1>6, <2>1, <2>2 DEF DecoderInv, InOrder, Item, UsesSurface
  <1> QED
    BY <1>7, <1>8 DEF DecoderInv

LEMMA EncodeDecoder ==
    ASSUME DecoderInv, EncoderStep
    PROVE  DecoderInv'
  <1>1. UNCHANGED <<sdk, pc, extractor, inputDone, outputDone, videoTracks, info, movie,
                    late, swallowed, missed,
                    decoderIn, decoderOut, rendered, arrived, texture, mFrameAvailable>>
    BY DEF EncoderStep, EncoderAnnounces, EncoderEncodes, pumpVars, decoderVars, surfaceVars
  <1>2. /\ encoderIn' \in Seq(Picture \cup {Eos})
        /\ encoderOut' \in Seq(Picture \cup {Eos, Format, Config})
        /\ announcements' \in Seq({Format, Config})
    <2>1. /\ encoderIn \in Seq(Picture \cup {Eos})
          /\ encoderOut \in Seq(Picture \cup {Eos, Format, Config})
          /\ announcements \in Seq({Format, Config})
      BY DEF DecoderInv, Types
    <2>2. CASE EncoderAnnounces
      <3>1. Head(announcements) \in {Format, Config} /\ announcements' = Tail(announcements)
        BY <2>1, <2>2 DEF EncoderAnnounces
      <3> QED
        BY <2>1, <2>2, <3>1 DEF EncoderAnnounces
    <2>3. CASE EncoderEncodes
      <3>1. Head(encoderIn) \in Picture \cup {Eos} /\ encoderIn' = Tail(encoderIn)
        BY <2>1, <2>3 DEF EncoderEncodes
      <3> QED
        BY <2>1, <2>3, <3>1 DEF EncoderEncodes
    <2> QED
      BY <2>2, <2>3 DEF EncoderStep
  <1>3. Types'
    BY <1>1, <1>2 DEF DecoderInv, Types
  <1>4. InOrder'
    <2>1. /\ pc' \in {"await", "draw"} => Taken \in 1 .. Frames
          /\ pc' = "signal" => Taken = Frames + 1
      BY <1>1 DEF DecoderInv, InOrder
    <2> QED
      BY <1>1, <2>1, DecoderUntouched DEF decoderVars
  <1> QED
    BY <1>3, <1>4 DEF DecoderInv

LEMMA FrameDecoder ==
    ASSUME DecoderInv, OnFrameAvailable
    PROVE  DecoderInv'
  <1>1. /\ pc' \in {pc, "crashed"} /\ mFrameAvailable' \in BOOLEAN
        /\ rendered # <<>> /\ arrived' = Head(rendered) /\ rendered' = Tail(rendered)
        /\ UNCHANGED <<sdk, extractor, inputDone, outputDone, videoTracks, info, movie,
                       late, swallowed, missed,
                       texture, decoderIn, decoderOut, encoderIn, encoderOut, announcements>>
    BY DEF OnFrameAvailable, decoderVars, encoderVars, DecoderInv, Types
  <1>2. arrived' \in 0 .. Frames /\ rendered' \in Seq(1 .. Frames)
    BY <1>1, Constants DEF DecoderInv, Types
  <1>3. Types'
    BY <1>1, <1>2 DEF DecoderInv, Types, Final
  <1>4. InOrder'
    <2>1. /\ pc' \in {"await", "draw"} => Taken \in 1 .. Frames
          /\ pc' = "signal" => Taken = Frames + 1
      BY <1>1 DEF DecoderInv, InOrder
    <2> QED
      BY <1>1, <2>1, DecoderUntouched DEF decoderVars
  <1> QED
    BY <1>3, <1>4 DEF DecoderInv

LEMMA StutterDecoder ==
    ASSUME DecoderInv, UNCHANGED vars
    PROVE  DecoderInv'
  <1>1. UNCHANGED <<sdk, pc, extractor, inputDone, outputDone, videoTracks, info, movie,
                    late, swallowed, missed,
                    decoderIn, decoderOut, rendered, arrived, texture, mFrameAvailable,
                    encoderIn, encoderOut, announcements>>
    BY DEF vars, pumpVars, decoderVars, surfaceVars, encoderVars
  <1>2. Types'
    BY <1>1 DEF DecoderInv, Types
  <1>3. InOrder'
    BY <1>1, DecoderUntouched DEF decoderVars, DecoderInv, InOrder
  <1> QED
    BY <1>2, <1>3 DEF DecoderInv

(***************************************************************************)
(* What the thread takes from the decoder are the frames of the recording, *)
(* each once and in their order.                                           *)
(***************************************************************************)
THEOREM DecoderCorrect == Spec => []DecoderInv
  <1>1. DecoderInv /\ [Next]_vars => DecoderInv'
    <2> SUFFICES ASSUME DecoderInv, [Next]_vars PROVE DecoderInv'
      OBVIOUS
    <2>1. CASE PumpStep
      BY <2>1, FeedDecoder, DrainDecoder, TryAgainLater, TakeDecoder, AwaitDecoder,
         DrawDecoder, SignalDecoder
      DEF PumpStep, GivenUp
    <2>2. CASE Failure \/ DecoderStep \/ EncoderStep \/ OnFrameAvailable
      BY <2>2, AwaitDecoder, FailDecoder, StepDecoder, EncodeDecoder, FrameDecoder
      DEF Failure, GivenUp
    <2>3. CASE Stopped \/ UNCHANGED vars
      BY <2>3, StutterDecoder DEF Stopped
    <2> QED
      BY <2>1, <2>2, <2>3 DEF Next
  <1> QED
    BY <1>1, InitDecoder, PTL DEF Spec

-----------------------------------------------------------------------------
(***************************************************************************)
(* The second layer.  The encoder announces its format before anything     *)
(* else, and the end of the stream is the last thing it is told and the    *)
(* last that it tells.                                                     *)
(***************************************************************************)
FormatFirst ==
    /\ movie # <<>> => videoTracks = 1
    /\ videoTracks = 0 =>
           \/ encoderOut = <<>> /\ announcements # <<>>
           \/ encoderOut # <<>> /\ Head(encoderOut) \in {Format, Config}

EosIn == \E i \in 1 .. Len(encoderIn) : encoderIn[i] = Eos
EosOut == \E i \in 1 .. Len(encoderOut) : encoderOut[i] = Eos

EosLast ==
    /\ \A i \in 1 .. Len(encoderIn) : encoderIn[i] = Eos => i = Len(encoderIn)
    /\ \A i \in 1 .. Len(encoderOut) :
           encoderOut[i] = Eos => i = Len(encoderOut) /\ encoderIn = <<>>
    /\ outputDone => encoderIn = <<>> /\ encoderOut = <<>>
    /\ EosIn \/ EosOut \/ outputDone =>
           Taken = Frames + 1 /\ pc \notin {"await", "draw", "signal"}
    /\ pc = "done" => outputDone

EncoderInv == FormatFirst /\ EosLast

LEMMA KindsDiffer ==
    /\ Eos \notin Picture /\ Format \notin Picture /\ Config \notin Picture
    /\ Eos # Format /\ Eos # Config
  BY DEF Eos, Format, Config, Empty, Picture

LEMMA EmptyByLength ==
    ASSUME NEW S, NEW s \in Seq(S), Len(s) = 0
    PROVE  s = <<>>
  OBVIOUS

LEMMA InitEncoder == Init => EncoderInv
  <1> SUFFICES ASSUME Init PROVE EncoderInv
    OBVIOUS
  <1>1. announcements # <<>>
    <2>1. announcements \in {<<Format>>, <<Config>>, <<Format, Config>>, <<Config, Format>>}
      BY DEF Init, Announcements
    <2>2. Len(<<Format>>) = 1 /\ Len(<<Config>>) = 1
          /\ Len(<<Format, Config>>) = 2 /\ Len(<<Config, Format>>) = 2
      OBVIOUS
    <2> QED
      BY <2>1, <2>2
  <1> QED
    BY <1>1 DEF Init, EncoderInv, FormatFirst, EosLast, EosIn, EosOut

(* Only TakeDecodedFrame takes anything from the decoder.                  *)
LEMMA TakenSame ==
    ASSUME DecoderInv,
           \/ UNCHANGED <<extractor, inputDone, decoderVars>>
           \/ Feed
           \/ DecoderStep
    PROVE  Taken' = Taken
  <1>1. CASE UNCHANGED <<extractor, inputDone, decoderVars>>
    BY <1>1 DEF Taken, Fed, decoderVars
  <1>2. ASSUME Fed' + Len(decoderIn) + Len(decoderOut) = Fed + Len(decoderIn') + Len(decoderOut'),
               Fed' \in Int, Len(decoderIn') \in Int, Len(decoderOut') \in Int
        PROVE  Taken' = Taken
    <2>1. Fed \in Int /\ Len(decoderIn) \in Int /\ Len(decoderOut) \in Int
      BY Bounded, Constants
    <2> QED
      BY <1>2, <2>1 DEF Taken
  <1>3. /\ decoderIn \in Seq(0 .. Frames) /\ decoderOut \in Seq(Buffer)
        /\ Fed \in Int /\ Len(decoderIn) \in Int /\ Len(decoderOut) \in Int
        /\ extractor \in Int
    BY Bounded, Constants DEF DecoderInv, Types
  <1>4. CASE Feed
    <2>1. UNCHANGED decoderOut
      BY <1>4 DEF Feed
    <2>2. CASE UNCHANGED <<decoderIn, extractor, inputDone>>
      BY <2>1, <2>2, <1>1 DEF decoderVars
    <2>3. CASE ~inputDone /\ (FeedSample \/ FeedEndOfStream)
      <3>1. Fed' = Fed + 1
        BY <1>3, <2>3, Constants DEF FeedSample, FeedEndOfStream, Fed
      <3>2. Len(decoderIn') = Len(decoderIn) + 1
        BY <1>3, <2>3 DEF FeedSample, FeedEndOfStream
      <3>3. /\ Fed' + Len(decoderIn) + Len(decoderOut) = Fed + Len(decoderIn') + Len(decoderOut')
            /\ Fed' \in Int /\ Len(decoderIn') \in Int /\ Len(decoderOut') \in Int
        BY <1>3, <2>1, <3>1, <3>2
      <3> QED
        BY <1>2, <3>3
    <2> QED
      BY <1>4, <2>2, <2>3 DEF Feed
  <1>5. CASE DecoderStep
    <2>1. Fed' = Fed
      BY <1>5 DEF DecoderStep, pumpVars, Fed
    <2>2. decoderIn # <<>> /\ decoderIn' = Tail(decoderIn)
      BY <1>5 DEF DecoderStep
    <2>3. Len(decoderIn') = Len(decoderIn) - 1
      BY <1>3, <2>2
    <2>4. Len(decoderOut') = Len(decoderOut) + 1
      BY <1>3, <1>5 DEF DecoderStep
    <2>5. /\ Fed' + Len(decoderIn) + Len(decoderOut) = Fed + Len(decoderIn') + Len(decoderOut')
          /\ Fed' \in Int /\ Len(decoderIn') \in Int /\ Len(decoderOut') \in Int
      BY <1>3, <2>1, <2>3, <2>4
    <2> QED
      BY <1>2, <2>5
  <1> QED
    BY <1>1, <1>4, <1>5

LEMMA EncoderUntouched ==
    ASSUME EncoderInv, Taken' = Taken,
           UNCHANGED <<videoTracks, movie, encoderIn, encoderOut, announcements, outputDone>>,
           pc' \in {"await", "draw", "signal"} => pc \in {"await", "draw", "signal"},
           pc' = "done" => outputDone
    PROVE  EncoderInv'
  <1>1. EosIn' = EosIn /\ EosOut' = EosOut
    BY DEF EosIn, EosOut
  <1>2. FormatFirst'
    BY DEF EncoderInv, FormatFirst
  <1>3. EosLast'
    BY <1>1 DEF EncoderInv, EosLast
  <1> QED
    BY <1>2, <1>3 DEF EncoderInv

(* Everything that leaves the encoder alone.                               *)
LEMMA OthersEncoder ==
    ASSUME DecoderInv, EncoderInv,
           \/ Feed \/ EncoderTryAgainLater \/ DecoderTryAgainLater
           \/ AwaitNewImage \/ GivenUp
           \/ PumpFails \/ DecoderStep \/ OnFrameAvailable \/ UNCHANGED vars
    PROVE  EncoderInv'
  <1>1. UNCHANGED <<videoTracks, movie, encoderIn, encoderOut, announcements, outputDone>>
    BY GivenUpIs
    DEF Feed, EncoderTryAgainLater, DecoderTryAgainLater, AwaitNewImage,
        PumpFails, DecoderStep, OnFrameAvailable, vars, encoderVars, pumpVars
  <1>2. /\ pc' \in {"await", "draw", "signal"} => pc \in {"await", "draw", "signal"}
        /\ pc' = "done" => outputDone
    BY AfterRendered, GivenUpIs
    DEF Feed, EncoderTryAgainLater, DecoderTryAgainLater, AwaitNewImage,
        PumpFails, DecoderStep, OnFrameAvailable, vars, pumpVars, EndOfInnerLoop,
        EncoderInv, EosLast
  <1>3. Taken' = Taken
    <2>1. \/ Feed \/ DecoderStep
          \/ UNCHANGED <<extractor, inputDone, decoderVars>>
      BY GivenUpIs
      DEF EncoderTryAgainLater, DecoderTryAgainLater, AwaitNewImage, decoderVars, PumpFails,
          OnFrameAvailable, vars, pumpVars
    <2> QED
      BY <2>1, TakenSame
  <1> QED
    BY <1>1, <1>2, <1>3, EncoderUntouched

(* After the end of the stream there is nothing more to take.              *)
LEMMA TakeEncoder ==
    ASSUME DecoderInv, EncoderInv, TakeDecodedFrame
    PROVE  EncoderInv'
  <1>1. UNCHANGED <<videoTracks, movie, encoderIn, encoderOut, announcements, outputDone>>
    BY DEF TakeDecodedFrame, encoderVars
  <1>2. ~(EosIn \/ EosOut \/ outputDone)
    <2>1. Taken # Frames + 1
      BY TakenIsNext, Bounded, Constants
    <2> QED
      BY <2>1 DEF EncoderInv, EosLast
  <1>3. EosIn' = EosIn /\ EosOut' = EosOut
    BY <1>1 DEF EosIn, EosOut
  <1>4. pc' # "done"
    BY DEF TakeDecodedFrame, AfterFrame
  <1> QED
    BY <1>1, <1>2, <1>3, <1>4 DEF EncoderInv, FormatFirst, EosLast

LEMMA DrainEncoderOrder ==
    ASSUME DecoderInv, EncoderInv, DrainEncoder
    PROVE  EncoderInv'
  <1>1. /\ pc = "drain" /\ encoderOut # <<>> /\ encoderOut' = Tail(encoderOut)
        /\ UNCHANGED <<pc, encoderIn, announcements>>
    BY DEF DrainEncoder
  <1>2. /\ Len(encoderOut) \in Nat \ {0} /\ Len(encoderOut') = Len(encoderOut) - 1
        /\ Head(encoderOut) = encoderOut[1]
        /\ \A i \in 1 .. Len(encoderOut') : encoderOut'[i] = encoderOut[i + 1]
        /\ encoderOut' \in Seq(Picture \cup {Eos, Format, Config})
    <2>1. encoderOut \in Seq(Picture \cup {Eos, Format, Config})
      BY DEF DecoderInv, Types
    <2> QED
      BY <1>1, <2>1
  <1>3. Taken' = Taken
    BY TakenSame DEF DrainEncoder
  <1>4. \A i \in 1 .. Len(encoderOut') : encoderOut'[i] = Eos =>
              i = Len(encoderOut') /\ encoderIn = <<>> /\ EosOut
    <2> SUFFICES ASSUME NEW i \in 1 .. Len(encoderOut'), encoderOut'[i] = Eos
                 PROVE  i = Len(encoderOut') /\ encoderIn = <<>> /\ EosOut
      OBVIOUS
    <2>1. i + 1 \in 1 .. Len(encoderOut) /\ encoderOut[i + 1] = Eos
      BY <1>2
    <2>2. i + 1 = Len(encoderOut) /\ encoderIn = <<>>
      BY <2>1 DEF EncoderInv, EosLast
    <2> QED
      BY <1>2, <2>1, <2>2 DEF EosOut
  <1>5. EosIn' = EosIn
    BY <1>1 DEF EosIn
  <1>6. EosOut' => EosOut
    BY <1>4 DEF EosOut
  <1>7. 1 \in 1 .. Len(encoderOut)
    BY <1>2
  <1>8. CASE Head(encoderOut) \in {Format, Config}
    <2>1. videoTracks' = 1 /\ UNCHANGED <<movie, outputDone>>
      BY <1>8 DEF DrainEncoder, AddVideoTrackOnce, DecoderInv, Types
    <2>2. ~outputDone
      BY <1>1 DEF EncoderInv, EosLast
    <2>3. FormatFirst'
      BY <2>1 DEF FormatFirst
    <2>4. EosLast'
      BY <1>1, <1>3, <1>4, <1>5, <1>6, <2>1, <2>2 DEF EncoderInv, EosLast
    <2> QED
      BY <2>3, <2>4 DEF EncoderInv
  <1>9. CASE Head(encoderOut) \notin {Format, Config}
    <2>1. /\ videoTracks' = videoTracks
          /\ outputDone' = (Head(encoderOut) = Eos)
      BY <1>9 DEF DrainEncoder, WriteSample
    <2>2. videoTracks = 1
      BY <1>1, <1>9 DEF EncoderInv, FormatFirst, DecoderInv, Types
    <2>3. FormatFirst'
      BY <2>1, <2>2 DEF FormatFirst
    <2>4. outputDone' => EosOut /\ encoderIn = <<>> /\ Len(encoderOut) = 1
      BY <1>2, <1>7, <2>1 DEF EosOut, EncoderInv, EosLast
    <2>5. outputDone' => encoderOut' = <<>>
      <3>1. Len(encoderOut) = 1 => Len(encoderOut') = 0
        BY <1>2
      <3>2. Len(encoderOut') = 0 => encoderOut' = <<>>
        BY <1>2, EmptyByLength
      <3> QED
        BY <2>4, <3>1, <3>2
    <2>6. EosLast'
      BY <1>1, <1>3, <1>4, <1>5, <1>6, <2>4, <2>5 DEF EncoderInv, EosLast
    <2> QED
      BY <2>3, <2>6 DEF EncoderInv
  <1> QED
    BY <1>8, <1>9

(* The encoder is handed a picture or the end of the stream.               *)
LEMMA HandedToEncoder ==
    ASSUME DecoderInv, EncoderInv, pc \in {"draw", "signal"}, pc' \notin {"await", "draw", "signal", "done"},
           NEW b, encoderIn' = Append(encoderIn, b),
           b = Eos => pc = "signal",
           UNCHANGED <<extractor, inputDone, decoderVars, videoTracks, movie, encoderOut,
                       announcements, outputDone>>
    PROVE  EncoderInv'
  <1>1. ~(EosIn \/ EosOut \/ outputDone)
    BY DEF EncoderInv, EosLast
  <1>2. encoderIn \in Seq(Picture \cup {Eos})
    BY DEF DecoderInv, Types
  <1>3. /\ Len(encoderIn) \in Nat /\ Len(encoderIn') = Len(encoderIn) + 1
        /\ encoderIn'[Len(encoderIn) + 1] = b
        /\ \A i \in 1 .. Len(encoderIn) : encoderIn'[i] = encoderIn[i]
    BY <1>2
  <1>4. Taken' = Taken
    BY TakenSame
  <1>5. b = Eos => Taken = Frames + 1
    BY DEF DecoderInv, InOrder
  <1>6. \A i \in 1 .. Len(encoderIn') : encoderIn'[i] = Eos => i = Len(encoderIn') /\ b = Eos
    <2> SUFFICES ASSUME NEW i \in 1 .. Len(encoderIn'), encoderIn'[i] = Eos
                 PROVE  i = Len(encoderIn') /\ b = Eos
      OBVIOUS
    <2>1. i \notin 1 .. Len(encoderIn)
      BY <1>1, <1>3 DEF EosIn
    <2> QED
      BY <1>3, <2>1
  <1>7. EosIn' => b = Eos
    BY <1>6 DEF EosIn
  <1>8. EosOut' = EosOut
    BY DEF EosOut
  <1>9. EosLast'
    BY <1>1, <1>4, <1>5, <1>6, <1>7, <1>8 DEF EncoderInv, EosLast, EosOut
  <1>10. FormatFirst'
    BY DEF EncoderInv, FormatFirst
  <1> QED
    BY <1>9, <1>10 DEF EncoderInv

LEMMA DrawEncoder ==
    ASSUME DecoderInv, EncoderInv, SwapBuffers \/ QueueFrame \/ SignalEndOfStream
    PROVE  EncoderInv'
  <1>1. UNCHANGED <<extractor, inputDone, decoderVars, videoTracks, movie, encoderOut,
                    announcements, outputDone>>
    BY DEF SwapBuffers, QueueFrame, SignalEndOfStream
  <1>2. ~outputDone /\ pc \in {"draw", "signal"}
    BY DEF SwapBuffers, QueueFrame, SignalEndOfStream, EncoderInv, EosLast
  <1>3. pc' \in {"drain", "feed"}
    BY <1>2, AfterRendered DEF SwapBuffers, QueueFrame, SignalEndOfStream, EndOfInnerLoop
  <1>4. CASE encoderIn' = encoderIn
    <2>1. Taken' = Taken
      BY <1>1, TakenSame
    <2> QED
      BY <1>1, <1>3, <1>4, <2>1, EncoderUntouched
  <1>5. ASSUME NEW b, encoderIn' = Append(encoderIn, b), b = Eos => pc = "signal"
        PROVE  EncoderInv'
    BY <1>1, <1>2, <1>3, <1>5, HandedToEncoder
  <1>6. CASE SwapBuffers
    <2>1. encoderIn' = Append(encoderIn, Drawn) /\ Drawn # Eos
      BY <1>6, DrawnIsPicture, KindsDiffer DEF SwapBuffers
    <2> QED
      BY <1>5, <2>1
  <1>7. CASE QueueFrame
    <2> DEFINE b == [kind |-> "sample", image |-> 0, time |-> info.frame]
    <2>1. b # Eos
      BY <1>7, DrawnIsPicture, KindsDiffer DEF QueueFrame
    <2> HIDE DEF b
    <2>2. encoderIn' = encoderIn \/ encoderIn' = Append(encoderIn, b)
      BY <1>7 DEF QueueFrame, b
    <2> QED
      BY <1>4, <1>5, <2>1, <2>2
  <1>8. CASE SignalEndOfStream
    <2>1. (encoderIn' = encoderIn \/ encoderIn' = Append(encoderIn, Eos)) /\ pc = "signal"
      BY <1>8 DEF SignalEndOfStream
    <2> QED
      BY <1>4, <1>5, <2>1
  <1> QED
    BY <1>6, <1>7, <1>8

LEMMA AnnounceEncoder ==
    ASSUME DecoderInv, EncoderInv, EncoderAnnounces
    PROVE  EncoderInv'
  <1>1. /\ encoderIn # <<>> /\ announcements # <<>>
        /\ encoderOut' = Append(encoderOut, Head(announcements))
        /\ UNCHANGED <<pc, extractor, inputDone, decoderVars, videoTracks, movie, encoderIn, outputDone>>
    BY DEF EncoderAnnounces, pumpVars
  <1>2. encoderOut \in Seq(Picture \cup {Eos, Format, Config}) /\ announcements \in Seq({Format, Config})
    BY DEF DecoderInv, Types
  <1>3. Head(announcements) \in {Format, Config}
    BY <1>1, <1>2
  <1> DEFINE b == Head(announcements)
  <1> HIDE DEF b
  <1>4. /\ Len(encoderOut) \in Nat /\ Len(encoderOut') = Len(encoderOut) + 1
        /\ encoderOut'[Len(encoderOut) + 1] = b
        /\ \A i \in 1 .. Len(encoderOut) : encoderOut'[i] = encoderOut[i]
    BY <1>1, <1>2 DEF b
  <1>5. b # Eos /\ b \in {Format, Config}
    BY <1>3, KindsDiffer DEF b
  <1>6. ~outputDone /\ ~EosOut
    BY <1>1 DEF EncoderInv, EosLast, EosOut
  <1>7. ~EosOut'
    <2> SUFFICES ASSUME NEW i \in 1 .. Len(encoderOut') PROVE encoderOut'[i] # Eos
      BY DEF EosOut
    <2> QED
      BY <1>4, <1>5, <1>6 DEF EosOut
  <1>8. Taken' = Taken /\ EosIn' = EosIn
    BY <1>1, TakenSame DEF EosIn
  <1>9. EosLast'
    BY <1>1, <1>6, <1>7, <1>8 DEF EncoderInv, EosLast, EosOut
  <1>10. FormatFirst'
    <2>1. encoderOut' # <<>> /\ Head(encoderOut') = encoderOut'[1]
      BY <1>4, <1>1, <1>2
    <2>2. videoTracks = 0 => encoderOut'[1] \in {Format, Config}
      <3>1. CASE encoderOut = <<>>
        BY <1>4, <1>5, <3>1
      <3>2. CASE encoderOut # <<>> /\ videoTracks = 0
        <4>1. encoderOut[1] \in {Format, Config} /\ 1 \in 1 .. Len(encoderOut)
          BY <1>2, <3>2 DEF EncoderInv, FormatFirst
        <4> QED
          BY <1>4, <4>1
      <3> QED
        BY <3>1, <3>2
    <2> QED
      BY <1>1, <2>1, <2>2 DEF EncoderInv, FormatFirst
  <1> QED
    BY <1>9, <1>10 DEF EncoderInv

LEMMA EncodeEncoder ==
    ASSUME DecoderInv, EncoderInv, EncoderEncodes
    PROVE  EncoderInv'
  <1>1. /\ encoderIn # <<>> /\ announcements = <<>>
        /\ encoderOut' = Append(encoderOut, Head(encoderIn)) /\ encoderIn' = Tail(encoderIn)
        /\ UNCHANGED <<pc, extractor, inputDone, decoderVars, videoTracks, movie, announcements, outputDone>>
    BY DEF EncoderEncodes, pumpVars
  <1>2. encoderOut \in Seq(Picture \cup {Eos, Format, Config}) /\ encoderIn \in Seq(Picture \cup {Eos})
    BY DEF DecoderInv, Types
  <1>3. /\ Len(encoderIn) \in Nat \ {0} /\ Len(encoderIn') = Len(encoderIn) - 1
        /\ \A i \in 1 .. Len(encoderIn') : encoderIn'[i] = encoderIn[i + 1]
        /\ Head(encoderIn) = encoderIn[1] /\ 1 \in 1 .. Len(encoderIn)
    BY <1>1, <1>2
  <1>4. /\ Len(encoderOut) \in Nat /\ Len(encoderOut') = Len(encoderOut) + 1
        /\ encoderOut'[Len(encoderOut) + 1] = encoderIn[1]
        /\ \A i \in 1 .. Len(encoderOut) : encoderOut'[i] = encoderOut[i]
    BY <1>1, <1>2, <1>3
  <1>5. ~outputDone /\ ~EosOut
    BY <1>1 DEF EncoderInv, EosLast, EosOut
  <1>6. \A i \in 1 .. Len(encoderIn') : encoderIn'[i] = Eos => i = Len(encoderIn') /\ EosIn
    <2> SUFFICES ASSUME NEW i \in 1 .. Len(encoderIn'), encoderIn'[i] = Eos
                 PROVE  i = Len(encoderIn') /\ EosIn
      OBVIOUS
    <2>1. i + 1 \in 1 .. Len(encoderIn) /\ encoderIn[i + 1] = Eos
      BY <1>3
    <2>2. i + 1 = Len(encoderIn)
      BY <2>1 DEF EncoderInv, EosLast
    <2> QED
      BY <1>3, <2>1, <2>2 DEF EosIn
  <1>7. \A i \in 1 .. Len(encoderOut') : encoderOut'[i] = Eos =>
            i = Len(encoderOut') /\ encoderIn' = <<>> /\ EosIn
    <2> SUFFICES ASSUME NEW i \in 1 .. Len(encoderOut'), encoderOut'[i] = Eos
                 PROVE  i = Len(encoderOut') /\ encoderIn' = <<>> /\ EosIn
      OBVIOUS
    <2>1. i = Len(encoderOut) + 1 /\ encoderIn[1] = Eos
      BY <1>4, <1>5 DEF EosOut
    <2>2. Len(encoderIn) = 1
      BY <1>3, <2>1 DEF EncoderInv, EosLast
    <2>3. encoderIn' = <<>>
      BY <1>1, <1>2, <1>3, <2>2
    <2> QED
      BY <1>3, <1>4, <2>1, <2>3 DEF EosIn
  <1>8. Taken' = Taken /\ (EosIn' => EosIn) /\ (EosOut' => EosIn)
    BY <1>1, <1>6, <1>7, TakenSame DEF EosIn, EosOut
  <1>9. EosLast'
    BY <1>1, <1>5, <1>6, <1>7, <1>8 DEF EncoderInv, EosLast
  <1>10. FormatFirst'
    <2>1. encoderOut' # <<>> /\ Head(encoderOut') = encoderOut'[1]
      BY <1>4, <1>1, <1>2
    <2>2. videoTracks = 0 => encoderOut'[1] \in {Format, Config}
      <3> SUFFICES ASSUME videoTracks = 0 PROVE encoderOut'[1] \in {Format, Config}
        OBVIOUS
      <3>1. encoderOut # <<>> /\ Head(encoderOut) \in {Format, Config}
        BY <1>1 DEF EncoderInv, FormatFirst
      <3>2. encoderOut[1] \in {Format, Config} /\ 1 \in 1 .. Len(encoderOut)
        BY <1>2, <3>1
      <3> QED
        BY <1>4, <3>2
    <2> QED
      BY <1>1, <2>1, <2>2 DEF EncoderInv, FormatFirst
  <1> QED
    BY <1>9, <1>10 DEF EncoderInv

(***************************************************************************)
(* The format comes first and the end of the stream last.                  *)
(***************************************************************************)
THEOREM EncoderCorrect == Spec => []EncoderInv
  <1>1. DecoderInv /\ EncoderInv /\ [Next]_vars => EncoderInv'
    <2> SUFFICES ASSUME DecoderInv, EncoderInv, [Next]_vars PROVE EncoderInv'
      OBVIOUS
    <2>1. CASE PumpStep
      BY <2>1, OthersEncoder, TakeEncoder, DrainEncoderOrder, DrawEncoder DEF PumpStep, GivenUp
    <2>2. CASE Failure \/ DecoderStep \/ OnFrameAvailable \/ Stopped \/ UNCHANGED vars
      BY <2>2, OthersEncoder DEF Stopped, Failure, GivenUp
    <2>3. CASE EncoderStep
      BY <2>3, AnnounceEncoder, EncodeEncoder DEF EncoderStep
    <2> QED
      BY <2>1, <2>2, <2>3 DEF Next
  <1> QED
    BY <1>1, InitEncoder, DecoderCorrect, PTL DEF Spec

(***************************************************************************)
(* However the encoder announces its format, one video track is added, and *)
(* it is there before the first sample is written.                         *)
(***************************************************************************)
THEOREM OneTrack == Spec => []OneVideoTrack
  <1>1. DecoderInv /\ EncoderInv => OneVideoTrack
    BY DEF DecoderInv, Types, EncoderInv, FormatFirst, OneVideoTrack
  <1> QED
    BY <1>1, DecoderCorrect, EncoderCorrect, PTL

-----------------------------------------------------------------------------
(***************************************************************************)
(* The third layer.  On a surface every frame is rendered and announced    *)
(* once, in order.  A wait that is over has taken one announcement, unless *)
(* it timed out; so the last frame that arrived is the number of waits     *)
(* that were answered, and one more while the flag is set.  A frame is     *)
(* given up once at most, in its wait or when it is drawn.                 *)
(***************************************************************************)
FramesTaken == IF Taken <= Frames THEN Taken ELSE Frames
WaitsOver == IF pc = "await" THEN FramesTaken - 1 ELSE FramesTaken

Turns == IF pc \in {"await", "draw"} THEN FramesTaken - 1 ELSE FramesTaken

Announced ==
    /\ arrived + Len(rendered) = FramesTaken
    /\ \A i \in 1 .. Len(rendered) : rendered[i] = arrived + i
    /\ arrived = WaitsOver - late + (IF mFrameAvailable THEN 1 ELSE 0)

TextureIsRecent == texture <= info.frame /\ info.frame <= texture + late

SurfaceInv ==
    /\ late + swallowed <= Turns
    /\ UsesSurface /\ pc \notin Final => Announced /\ (pc = "draw" => TextureIsRecent)
    /\ missed \subseteq 1 .. FramesTaken
    /\ pc \in {"await", "draw"} => Taken \notin missed
    /\ UsesSurface => Cardinality(missed) = late + swallowed

LEMMA InitSurface == Init => SurfaceInv
  <1> SUFFICES ASSUME Init PROVE SurfaceInv
    OBVIOUS
  <1>1. Taken = 0 /\ FramesTaken = 0 /\ WaitsOver = 0 /\ Turns = 0
    BY Constants DEF Init, Taken, Fed, FramesTaken, WaitsOver, Turns
  <1>2. Cardinality(missed) = 0
    BY FS_EmptySet DEF Init
  <1>3. Announced
    BY <1>1 DEF Init, Announced
  <1> QED
    BY <1>1, <1>2, <1>3 DEF Init, SurfaceInv

LEMMA TakenTypes ==
    ASSUME DecoderInv
    PROVE  /\ Taken \in 0 .. Frames + 1 /\ FramesTaken \in 0 .. Frames /\ FramesTaken <= Taken
           /\ Taken \in 1 .. Frames => FramesTaken = Taken
           /\ pc = "await" => WaitsOver = FramesTaken - 1
           /\ pc # "await" => WaitsOver = FramesTaken
           /\ WaitsOver \in Int /\ WaitsOver <= FramesTaken
           /\ pc \in {"await", "draw"} => Turns = FramesTaken - 1
           /\ pc \notin {"await", "draw"} => Turns = FramesTaken
           /\ Turns \in Int /\ Turns <= FramesTaken
           /\ late \in Nat /\ swallowed \in Nat /\ arrived \in Nat /\ texture \in Nat /\ Len(rendered) \in Nat
           /\ info.frame \in Nat
  <1>1. Taken \in 0 .. Frames + 1
    BY Bounded
  <1>2. FramesTaken \in 0 .. Frames /\ FramesTaken <= Taken /\ (Taken \in 1 .. Frames => FramesTaken = Taken)
    BY <1>1, Constants DEF FramesTaken
  <1>3. late \in Nat /\ swallowed \in Nat /\ arrived \in Nat /\ texture \in Nat /\ Len(rendered) \in Nat
    BY Constants DEF DecoderInv, Types
  <1>4. info.frame \in Nat
    BY Constants DEF DecoderInv, Types, Buffer
  <1> QED
    BY <1>1, <1>2, <1>3, <1>4, Constants DEF WaitsOver, Turns

(* What the steps that leave the surface alone have to show.               *)
LEMMA SurfaceUntouched ==
    ASSUME DecoderInv, SurfaceInv, Taken' = Taken,
           UNCHANGED <<sdk, info, rendered, arrived, texture, mFrameAvailable, late, swallowed>>,
           pc' = "await" => pc = "await", pc' = "draw" => pc = "draw",
           pc = "await" => pc' \in {"await"} \cup Final,
           pc' \notin Final => pc \notin Final,
           \/ missed' = missed
           \/ missed' = missed \cup {Taken} /\ pc = "draw" /\ pc' = "drain" /\ ~UsesSurface
    PROVE  SurfaceInv'
  <1>1. FramesTaken' = FramesTaken /\ UsesSurface' = UsesSurface
    BY DEF FramesTaken, UsesSurface
  <1>2. late + swallowed <= Turns'
    BY <1>1, TakenTypes DEF SurfaceInv, Turns
  <1>3. pc' \notin Final => WaitsOver' = WaitsOver
    BY <1>1 DEF WaitsOver, Final
  <1>4. UsesSurface /\ pc' \notin Final => Announced' /\ (pc' = "draw" => TextureIsRecent')
    BY <1>1, <1>3 DEF SurfaceInv, Announced, TextureIsRecent
  <1>5. missed' \subseteq 1 .. FramesTaken
    <2>1. CASE missed' = missed
      BY <2>1 DEF SurfaceInv
    <2>2. CASE missed' = missed \cup {Taken} /\ pc = "draw"
      <3>1. Taken \in 1 .. FramesTaken
        BY <2>2, AfterRendered, TakenTypes
      <3> QED
        BY <2>2, <3>1 DEF SurfaceInv
    <2> QED
      BY <2>1, <2>2
  <1>6. /\ pc' \in {"await", "draw"} => Taken \notin missed'
        /\ UsesSurface => Cardinality(missed') = late + swallowed
    BY DEF SurfaceInv
  <1> QED
    BY <1>1, <1>2, <1>4, <1>5, <1>6 DEF SurfaceInv

LEMMA OthersSurface ==
    ASSUME DecoderInv, SurfaceInv,
           \/ Feed \/ DrainEncoder \/ EncoderTryAgainLater \/ DecoderTryAgainLater
           \/ SwapBuffers \/ QueueFrame \/ SignalEndOfStream
           \/ PumpFails \/ DecoderStep \/ EncoderStep \/ UNCHANGED vars
    PROVE  SurfaceInv'
  <1>1. UNCHANGED <<sdk, info, rendered, arrived, texture, mFrameAvailable, late, swallowed>>
    BY DEF Feed, DrainEncoder, EncoderTryAgainLater, DecoderTryAgainLater, SwapBuffers, QueueFrame,
           SignalEndOfStream, PumpFails, DecoderStep, EncoderStep, EncoderAnnounces, EncoderEncodes,
           vars, pumpVars, surfaceVars
  <1>2. /\ pc' = "await" => pc = "await"
        /\ pc' = "draw" => pc = "draw"
        /\ pc = "await" => pc' \in {"await"} \cup Final
        /\ pc' \notin Final => pc \notin Final
    BY AfterRendered
    DEF Feed, DrainEncoder, EncoderTryAgainLater, DecoderTryAgainLater, SwapBuffers, QueueFrame,
        SignalEndOfStream, PumpFails, DecoderStep, EncoderStep, EncoderAnnounces, EncoderEncodes,
        vars, pumpVars, EndOfInnerLoop, Final
  <1>3. \/ missed' = missed
        \/ missed' = missed \cup {Taken} /\ pc = "draw" /\ pc' = "drain" /\ ~UsesSurface
    BY AfterRendered
    DEF Feed, DrainEncoder, EncoderTryAgainLater, DecoderTryAgainLater, SwapBuffers, QueueFrame,
        SignalEndOfStream, PumpFails, DecoderStep, EncoderStep, EncoderAnnounces, EncoderEncodes,
        vars, pumpVars
  <1>4. Taken' = Taken
    <2>1. \/ Feed \/ DecoderStep
          \/ UNCHANGED <<extractor, inputDone, decoderVars>>
      BY DEF DrainEncoder, EncoderTryAgainLater, DecoderTryAgainLater, SwapBuffers, QueueFrame,
             SignalEndOfStream, PumpFails, EncoderStep, EncoderAnnounces, EncoderEncodes,
             vars, pumpVars
    <2> QED
      BY <2>1, TakenSame
  <1> QED
    BY <1>1, <1>2, <1>3, <1>4, SurfaceUntouched

(* A frame taken from the decoder is rendered, or it is the end.           *)
LEMMA TakeSurface ==
    ASSUME DecoderInv, SurfaceInv, TakeDecodedFrame
    PROVE  SurfaceInv'
  <1>1. /\ pc = "decode"
        /\ UNCHANGED <<sdk, late, swallowed, arrived, texture, mFrameAvailable>>
    BY DEF TakeDecodedFrame
  <1>2. /\ Taken' = Taken + 1 /\ Taken' \in 1 .. Frames + 1 /\ UsesSurface' = UsesSurface
        /\ WaitsOver = FramesTaken
    BY <1>1, TakenIsNext, TakenTypes DEF UsesSurface
  <1>3. missed \subseteq 1 .. Taken /\ Taken' \notin missed
    <2>1. missed \subseteq 1 .. FramesTaken
      BY DEF SurfaceInv
    <2>2. FramesTaken \in Nat /\ Taken \in Nat /\ FramesTaken <= Taken
      BY TakenTypes, Constants
    <2> QED
      BY <1>2, <2>1, <2>2
  <1>4. CASE DoRender(info')
    <2>1. /\ rendered' = Append(rendered, Taken') /\ pc' = "await" /\ missed' = missed
          /\ Taken' \in 1 .. Frames
      BY <1>4, TakenIsNext DEF TakeDecodedFrame
    <2>2. /\ FramesTaken' = FramesTaken + 1 /\ FramesTaken' = Taken'
          /\ WaitsOver' = WaitsOver /\ Turns' = Turns
      BY <1>1, <1>2, <2>1, TakenTypes, Constants DEF FramesTaken, WaitsOver, Turns
    <2>3. /\ Len(rendered') = Len(rendered) + 1
          /\ rendered'[Len(rendered) + 1] = Taken'
          /\ \A i \in 1 .. Len(rendered) : rendered'[i] = rendered[i]
      BY <2>1 DEF DecoderInv, Types
    <2>4. UsesSurface => Announced'
      <3> SUFFICES ASSUME UsesSurface PROVE Announced'
        OBVIOUS
      <3>1. Announced
        BY <1>1 DEF SurfaceInv, Final
      <3>2. arrived' + Len(rendered') = FramesTaken'
        BY <1>1, <2>2, <2>3, <3>1, TakenTypes DEF Announced
      <3>3. \A i \in 1 .. Len(rendered') : rendered'[i] = arrived + i
        <4> SUFFICES ASSUME NEW i \in 1 .. Len(rendered') PROVE rendered'[i] = arrived + i
          OBVIOUS
        <4>1. CASE i \in 1 .. Len(rendered)
          BY <2>3, <3>1, <4>1 DEF Announced
        <4>2. CASE i = Len(rendered) + 1
          <5>1. Taken' = arrived + (Len(rendered) + 1)
            BY <2>2, <3>1, TakenTypes DEF Announced
          <5> QED
            BY <2>3, <4>2, <5>1
        <4> QED
          BY <2>3, <4>1, <4>2, TakenTypes
      <3> QED
        BY <1>1, <2>2, <3>1, <3>2, <3>3 DEF Announced
    <2>5. missed' \subseteq 1 .. FramesTaken'
      BY <1>2, <1>3, <2>1, <2>2, TakenTypes
    <2> QED
      BY <1>1, <1>2, <1>3, <2>1, <2>2, <2>4, <2>5 DEF SurfaceInv
  <1>5. CASE ~DoRender(info')
    <2>1. /\ rendered' = rendered /\ pc' \in {"signal", "drain"}
          /\ missed' = missed \cup ({info'.frame} \ {EndOfStream})
      BY <1>5 DEF TakeDecodedFrame, AfterFrame
    <2>2. FramesTaken' \in {FramesTaken, FramesTaken + 1} /\ WaitsOver' = FramesTaken'
      BY <1>2, <2>1, TakenTypes, Constants DEF FramesTaken, WaitsOver
    <2>3. missed' \subseteq 1 .. FramesTaken'
      <3>1. CASE Taken' = Frames + 1
        <4>1. missed' = missed /\ FramesTaken' = FramesTaken
          BY <1>2, <2>1, <3>1, TakenIsNext, TakenTypes, Constants DEF FramesTaken
        <4> QED
          BY <4>1 DEF SurfaceInv
      <3>2. CASE Taken' \in 1 .. Frames
        <4>1. info'.frame = Taken' /\ FramesTaken' = Taken'
          BY <3>2, TakenIsNext, Constants DEF FramesTaken
        <4>2. Taken \in Int /\ Taken' = Taken + 1 /\ Taken' >= 1
          BY <1>2, TakenTypes
        <4> SUFFICES ASSUME NEW x \in missed' PROVE x \in 1 .. Taken'
          BY <4>1
        <4>3. x \in missed \/ x = Taken'
          BY <2>1, <4>1
        <4>4. x \in missed => x \in 1 .. Taken
          BY <1>3
        <4> QED
          BY <4>2, <4>3, <4>4
      <3> QED
        BY <1>2, <3>1, <3>2, Constants
    <2>4. UsesSurface => /\ missed' = missed /\ FramesTaken' = FramesTaken
      <3> SUFFICES ASSUME UsesSurface PROVE missed' = missed /\ FramesTaken' = FramesTaken
        OBVIOUS
      <3>1. Taken' = Frames + 1
        BY <1>2, <1>5, TakenIsNext, Constants
      <3> QED
        BY <1>2, <2>1, <3>1, TakenIsNext, TakenTypes, Constants DEF FramesTaken
    <2>5. UsesSurface => Announced'
      <3> SUFFICES ASSUME UsesSurface PROVE Announced'
        OBVIOUS
      <3>1. Announced
        BY <1>1 DEF SurfaceInv, Final
      <3> QED
        BY <1>1, <1>2, <2>1, <2>2, <2>4, <3>1 DEF Announced
    <2>6. late' + swallowed' <= Turns'
      BY <1>1, <1>2, <2>1, <2>2, TakenTypes DEF SurfaceInv, Turns
    <2> QED
      BY <1>1, <1>2, <2>1, <2>3, <2>4, <2>5, <2>6 DEF SurfaceInv
  <1> QED
    BY <1>4, <1>5

(* The image that is drawn is that of the frame, or late by the time-outs. *)
LEMMA AwaitSurface ==
    ASSUME DecoderInv, SurfaceInv, AwaitNewImage
    PROVE  SurfaceInv'
  <1>1. /\ pc = "await" /\ pc' = "draw" /\ mFrameAvailable /\ mFrameAvailable' = FALSE
        /\ texture' \in {arrived} \cup Range(rendered)
        /\ UNCHANGED <<sdk, extractor, inputDone, decoderVars, info,
                       late, swallowed, missed, rendered, arrived>>
    BY DEF AwaitNewImage, TakeFlag, RecentImages
  <1>2. Taken' = Taken /\ UsesSurface' = UsesSurface /\ FramesTaken' = FramesTaken
    BY <1>1, TakenSame DEF UsesSurface, FramesTaken
  <1>3. info.frame = Taken /\ FramesTaken = Taken
    BY <1>1, AfterRendered, TakenTypes
  <1>4. WaitsOver' = FramesTaken /\ WaitsOver = FramesTaken - 1
    BY <1>1, <1>2 DEF WaitsOver
  <1>5. UsesSurface => Announced' /\ TextureIsRecent'
    <2> SUFFICES ASSUME UsesSurface PROVE Announced' /\ TextureIsRecent'
      OBVIOUS
    <2>1. Announced
      BY <1>1 DEF SurfaceInv, Final
    <2>2. arrived = FramesTaken - late
      BY <1>1, <1>4, <2>1, TakenTypes DEF Announced
    <2>3. Announced'
      <3>1. arrived' = WaitsOver' - late' + (IF mFrameAvailable' THEN 1 ELSE 0)
        BY <1>1, <1>4, <2>2, TakenTypes
      <3> QED
        BY <1>1, <1>2, <2>1, <3>1 DEF Announced
    <2>4. \A i \in DOMAIN rendered : arrived <= rendered[i] /\ rendered[i] <= FramesTaken
                                      /\ rendered[i] \in Nat
      <3> SUFFICES ASSUME NEW i \in DOMAIN rendered
                   PROVE  arrived <= rendered[i] /\ rendered[i] <= FramesTaken
                          /\ rendered[i] \in Nat
        OBVIOUS
      <3>1. i \in 1 .. Len(rendered)
        BY DEF DecoderInv, Types
      <3>2. rendered[i] = arrived + i /\ arrived + Len(rendered) = FramesTaken
        BY <2>1, <3>1 DEF Announced
      <3>3. arrived \in Nat /\ Len(rendered) \in Nat
        BY TakenTypes
      <3> QED
        BY <3>1, <3>2, <3>3
    <2>5. arrived <= FramesTaken
      BY <2>2, TakenTypes
    <2>6. arrived <= texture' /\ texture' <= FramesTaken /\ texture' \in Nat
      BY <1>1, <2>4, <2>5, TakenTypes DEF Range
    <2> QED
      BY <1>1, <1>3, <2>2, <2>3, <2>6, TakenTypes DEF TextureIsRecent
  <1>6. late' + swallowed' <= Turns'
    BY <1>1, <1>2, TakenTypes DEF SurfaceInv, Turns
  <1> QED
    BY <1>1, <1>2, <1>5, <1>6 DEF SurfaceInv

(* A frame that is given up costs one late picture or one error.           *)
LEMMA GivenUpSurface ==
    ASSUME DecoderInv, SurfaceInv, GivenUp
    PROVE  SurfaceInv'
  <1>1. /\ pc \in {"await", "draw"} /\ pc' = "drain" /\ missed' = missed \cup {Taken}
        /\ late' + swallowed' = late + swallowed + 1
        /\ UNCHANGED <<sdk, extractor, inputDone, decoderVars, info, rendered, arrived>>
    <2>1. late \in Nat /\ swallowed \in Nat
      BY DEF DecoderInv, Types
    <2>2. late' + swallowed' = late + swallowed + 1
      BY <2>1, GivenUpIs
    <2> QED
      BY <2>2, GivenUpIs DEF decoderVars
  <1>2. Taken' = Taken /\ UsesSurface' = UsesSurface /\ FramesTaken' = FramesTaken
    BY <1>1, TakenSame DEF UsesSurface, FramesTaken
  <1>3. FramesTaken = Taken /\ Taken \in 1 .. Frames
    BY <1>1, AfterRendered, TakenTypes
  <1>4. WaitsOver' = FramesTaken /\ Turns' = FramesTaken /\ Turns = FramesTaken - 1
    BY <1>1, <1>2 DEF WaitsOver, Turns
  <1>t. late \in Nat /\ swallowed \in Nat /\ FramesTaken \in Nat /\ arrived \in Nat
    BY TakenTypes, Constants
  <1>w. pc = "await" => WaitsOver = FramesTaken - 1
    BY DEF WaitsOver
  <1>d. pc = "draw" => WaitsOver = FramesTaken
    BY DEF WaitsOver
  <1>5. UsesSurface => Announced'
    <2> SUFFICES ASSUME UsesSurface PROVE Announced'
      OBVIOUS
    <2>1. Announced
      BY <1>1 DEF SurfaceInv, Final
    <2>2. arrived' = WaitsOver' - late' + (IF mFrameAvailable' THEN 1 ELSE 0)
      <3>1. CASE FrameWaitTimedOut
        <4>1. pc = "await" /\ late' = late + 1 /\ ~mFrameAvailable /\ ~mFrameAvailable'
          BY <3>1 DEF FrameWaitTimedOut
        <4> QED
          BY <1>1, <1>4, <1>t, <1>w, <1>d, <2>1, <4>1 DEF Announced
      <3>2. CASE ImageNotTaken
        <4>1. pc = "await" /\ late' = late /\ mFrameAvailable /\ ~mFrameAvailable'
          BY <3>2 DEF ImageNotTaken, TakeFlag
        <4> QED
          BY <1>1, <1>4, <1>t, <1>w, <1>d, <2>1, <4>1 DEF Announced
      <3>3. CASE SwapBuffersFails
        <4>1. pc = "draw" /\ late' = late /\ mFrameAvailable' = mFrameAvailable
          BY <3>3 DEF SwapBuffersFails
        <4> QED
          BY <1>1, <1>4, <1>t, <1>w, <1>d, <2>1, <4>1 DEF Announced
      <3> QED
        BY <3>1, <3>2, <3>3 DEF GivenUp
    <2> QED
      BY <1>1, <1>2, <2>1, <2>2 DEF Announced
  <1>6. late' + swallowed' <= Turns'
    BY <1>1, <1>4, <1>t DEF SurfaceInv
  <1>7. missed' \subseteq 1 .. FramesTaken
    BY <1>1, <1>3 DEF SurfaceInv
  <1>8. UsesSurface => Cardinality(missed') = late' + swallowed'
    <2>1. IsFiniteSet(missed)
      <3>1. IsFiniteSet(1 .. Frames)
        BY FS_Interval, Constants
      <3>2. missed \subseteq 1 .. Frames
        BY DEF DecoderInv, Types
      <3> QED
        BY <3>1, <3>2, FS_Subset
    <2>2. Taken \notin missed
      BY <1>1 DEF SurfaceInv
    <2>3. Cardinality(missed') = Cardinality(missed) + 1
      BY <1>1, <2>1, <2>2, FS_AddElement
    <2> QED
      BY <1>1, <2>3 DEF SurfaceInv
  <1> QED
    BY <1>1, <1>2, <1>5, <1>6, <1>7, <1>8 DEF SurfaceInv

LEMMA FrameSurface ==
    ASSUME DecoderInv, SurfaceInv, OnFrameAvailable
    PROVE  SurfaceInv'
  <1>1. /\ pc \notin Final /\ rendered # <<>>
        /\ arrived' = Head(rendered) /\ rendered' = Tail(rendered)
        /\ \/ pc' = "crashed"
           \/ pc' = pc /\ ~mFrameAvailable /\ mFrameAvailable' = TRUE
        /\ UNCHANGED <<sdk, extractor, inputDone, decoderVars, info,
                       late, swallowed, missed, texture>>
    BY DEF OnFrameAvailable
  <1>2. Taken' = Taken /\ UsesSurface' = UsesSurface /\ FramesTaken' = FramesTaken
    BY <1>1, TakenSame DEF UsesSurface, FramesTaken
  <1>3. late' + swallowed' <= Turns'
    BY <1>1, <1>2, TakenTypes DEF SurfaceInv, Turns
  <1>4. UsesSurface /\ pc' \notin Final => Announced' /\ (pc' = "draw" => TextureIsRecent')
    <2> SUFFICES ASSUME UsesSurface, pc' \notin Final
                 PROVE  Announced' /\ (pc' = "draw" => TextureIsRecent')
      OBVIOUS
    <2>1. pc' = pc /\ ~mFrameAvailable /\ mFrameAvailable' = TRUE
      BY <1>1 DEF Final
    <2>2. Announced /\ (pc = "draw" => TextureIsRecent)
      BY <1>1 DEF SurfaceInv
    <2>3. /\ Len(rendered) \in Nat \ {0} /\ Len(rendered') = Len(rendered) - 1
          /\ Head(rendered) = rendered[1]
          /\ \A i \in 1 .. Len(rendered') : rendered'[i] = rendered[i + 1]
      <3>1. rendered \in Seq(1 .. Frames)
        BY DEF DecoderInv, Types
      <3> QED
        BY <1>1, <3>1
    <2>4. arrived' = arrived + 1
      BY <1>1, <2>2, <2>3 DEF Announced
    <2>5. arrived' + Len(rendered') = FramesTaken
      BY <2>2, <2>3, <2>4, TakenTypes DEF Announced
    <2>6. \A i \in 1 .. Len(rendered') : rendered'[i] = arrived' + i
      <3> SUFFICES ASSUME NEW i \in 1 .. Len(rendered') PROVE rendered'[i] = arrived' + i
        OBVIOUS
      <3>1. i + 1 \in 1 .. Len(rendered) /\ rendered'[i] = rendered[i + 1]
        BY <2>3
      <3> QED
        BY <2>2, <2>4, <3>1, TakenTypes DEF Announced
    <2>7. arrived' = WaitsOver' - late' + (IF mFrameAvailable' THEN 1 ELSE 0)
      <3>1. WaitsOver' = WaitsOver
        BY <1>2, <2>1 DEF WaitsOver
      <3>2. arrived = WaitsOver - late
        BY <2>1, <2>2, TakenTypes DEF Announced
      <3> QED
        BY <1>1, <2>1, <2>4, <3>1, <3>2, TakenTypes
    <2> QED
      BY <1>1, <1>2, <2>1, <2>2, <2>5, <2>6, <2>7 DEF Announced, TextureIsRecent
  <1> QED
    BY <1>1, <1>2, <1>3, <1>4 DEF SurfaceInv

(***************************************************************************)
(* Announcements, waits, time-outs and errors add up.                      *)
(***************************************************************************)
THEOREM SurfaceCorrect == Spec => []SurfaceInv
  <1>1. DecoderInv /\ SurfaceInv /\ [Next]_vars => SurfaceInv'
    <2> SUFFICES ASSUME DecoderInv, SurfaceInv, [Next]_vars PROVE SurfaceInv'
      OBVIOUS
    <2>1. CASE PumpStep
      BY <2>1, OthersSurface, TakeSurface, AwaitSurface, GivenUpSurface DEF PumpStep, GivenUp
    <2>2. CASE Failure \/ DecoderStep \/ EncoderStep \/ Stopped \/ UNCHANGED vars
      BY <2>2, OthersSurface, GivenUpSurface DEF Stopped, Failure, GivenUp
    <2>3. CASE OnFrameAvailable
      BY <2>3, FrameSurface
    <2> QED
      BY <2>1, <2>2, <2>3 DEF Next
  <1> QED
    BY <1>1, InitSurface, DecoderCorrect, PTL DEF Spec

(***************************************************************************)
(* The fields of the loop keep their types; in particular no more waits    *)
(* time out, and no more errors are swallowed, than there are frames.      *)
(***************************************************************************)
THEOREM TypeCorrect == Spec => []TypeOK
  <1>1. DecoderInv /\ SurfaceInv => TypeOK
    <2> SUFFICES ASSUME DecoderInv, SurfaceInv PROVE TypeOK
      OBVIOUS
    <2>1. late \in 0 .. Frames /\ swallowed \in 0 .. Frames
      BY TakenTypes, Constants DEF SurfaceInv
    <2>2. videoTracks \in 0 .. 2
      BY DEF DecoderInv, Types
    <2> QED
      BY <2>1, <2>2 DEF DecoderInv, Types, TypeOK
  <1> QED
    BY <1>1, DecoderCorrect, SurfaceCorrect, PTL

-----------------------------------------------------------------------------
(***************************************************************************)
(* The fourth layer.  A picture is made once, when a frame is drawn, and   *)
(* is never lost on its way through the encoder to the file.               *)
(***************************************************************************)
LEMMA RangeOfAppend ==
    ASSUME NEW S, NEW s \in Seq(S), NEW e
    PROVE  Range(Append(s, e)) = Range(s) \cup {e}
  <1>1. /\ DOMAIN s = 1 .. Len(s) /\ Len(s) \in Nat
        /\ DOMAIN Append(s, e) = 1 .. (Len(s) + 1)
        /\ Append(s, e)[Len(s) + 1] = e
        /\ \A i \in 1 .. Len(s) : Append(s, e)[i] = s[i]
    OBVIOUS
  <1>2. \A i \in 1 .. (Len(s) + 1) : i \in 1 .. Len(s) \/ i = Len(s) + 1
    BY <1>1
  <1>3. \A i \in 1 .. Len(s) : i \in 1 .. (Len(s) + 1)
    BY <1>1
  <1>4. Len(s) + 1 \in 1 .. (Len(s) + 1)
    BY <1>1
  <1> QED
    BY <1>1, <1>2, <1>3, <1>4 DEF Range

LEMMA RangeOfTail ==
    ASSUME NEW S, NEW s \in Seq(S), s # <<>>
    PROVE  Range(s) = {Head(s)} \cup Range(Tail(s))
  <1>1. /\ DOMAIN s = 1 .. Len(s) /\ Len(s) \in Nat \ {0}
        /\ DOMAIN Tail(s) = 1 .. (Len(s) - 1)
        /\ Head(s) = s[1]
        /\ \A i \in 1 .. (Len(s) - 1) : Tail(s)[i] = s[i + 1]
    OBVIOUS
  <1>2. \A i \in 1 .. Len(s) : i = 1 \/ (i - 1 \in 1 .. (Len(s) - 1) /\ Tail(s)[i - 1] = s[i])
    <2> SUFFICES ASSUME NEW i \in 1 .. Len(s), i # 1
                 PROVE  i - 1 \in 1 .. (Len(s) - 1) /\ Tail(s)[i - 1] = s[i]
      OBVIOUS
    <2>1. i - 1 \in 1 .. (Len(s) - 1) /\ (i - 1) + 1 = i
      BY <1>1
    <2> QED
      BY <1>1, <2>1
  <1>3. Range(s) \subseteq {Head(s)} \cup Range(Tail(s))
    <2> SUFFICES ASSUME NEW i \in 1 .. Len(s) PROVE s[i] \in {Head(s)} \cup Range(Tail(s))
      BY <1>1 DEF Range
    <2> QED
      BY <1>1, <1>2 DEF Range
  <1>4. {Head(s)} \cup Range(Tail(s)) \subseteq Range(s)
    <2>1. Head(s) \in Range(s)
      BY <1>1 DEF Range
    <2>2. ASSUME NEW i \in 1 .. (Len(s) - 1) PROVE Tail(s)[i] \in Range(s)
      <3>1. i + 1 \in 1 .. Len(s) /\ Tail(s)[i] = s[i + 1]
        BY <1>1
      <3> QED
        BY <1>1, <3>1 DEF Range
    <2> QED
      BY <1>1, <2>1, <2>2 DEF Range
  <1> QED
    BY <1>3, <1>4

LEMMA SamplesArePictures ==
    /\ \A p \in Picture : IsSample(p)
    /\ ~IsSample(Eos) /\ ~IsSample(Format) /\ ~IsSample(Config)
  BY DEF Picture, IsSample, Eos, Format, Config, Empty

Whereabouts == Range(movie) \cup Range(encoderOut) \cup Range(encoderIn)

(* The steps that draw nothing leave the pictures as they are.             *)
LEMMA PicturesKept ==
    ASSUME DecoderInv, [Next]_vars, ~SwapBuffers, ~QueueFrame
    PROVE  Pictures' = Pictures
  <1>1. ASSUME NEW b, ~IsSample(b),
               \/ Whereabouts' = Whereabouts
               \/ Whereabouts' = Whereabouts \cup {b}
               \/ Whereabouts = Whereabouts' \cup {b}
        PROVE  Pictures' = Pictures
    BY <1>1 DEF Pictures, Whereabouts
  <1>2. /\ encoderOut \in Seq(Picture \cup {Eos, Format, Config})
        /\ encoderIn \in Seq(Picture \cup {Eos}) /\ movie \in Seq(Picture)
        /\ announcements \in Seq({Format, Config})
    BY DEF DecoderInv, Types
  <1>3. CASE UNCHANGED <<movie, encoderOut, encoderIn>>
    BY <1>1, <1>3, SamplesArePictures DEF Whereabouts
  <1>4. CASE DrainEncoder
    <2>1. /\ encoderOut # <<>> /\ encoderOut' = Tail(encoderOut) /\ encoderIn' = encoderIn
      BY <1>4 DEF DrainEncoder
    <2>2. Range(encoderOut) = {Head(encoderOut)} \cup Range(encoderOut')
      BY <1>2, <2>1, RangeOfTail
    <2>3. CASE Head(encoderOut) \in {Format, Config}
      <3>1. movie' = movie
        BY <1>4, <2>3 DEF DrainEncoder
      <3>2. Whereabouts = Whereabouts' \cup {Head(encoderOut)}
        BY <2>1, <2>2, <3>1 DEF Whereabouts
      <3> QED
        BY <1>1, <2>3, <3>2, SamplesArePictures
    <2>4. CASE Head(encoderOut) = Eos
      <3>1. movie' = movie
        BY <1>4, <2>4, KindsDiffer DEF DrainEncoder, WriteSample
      <3>2. Whereabouts = Whereabouts' \cup {Head(encoderOut)}
        BY <2>1, <2>2, <3>1 DEF Whereabouts
      <3> QED
        BY <1>1, <2>4, <3>2, SamplesArePictures
    <2>5. CASE Head(encoderOut) \notin {Format, Config, Eos}
      <3>1. movie' = Append(movie, Head(encoderOut))
        BY <1>4, <2>5 DEF DrainEncoder, WriteSample
      <3>2. Range(movie') = Range(movie) \cup {Head(encoderOut)}
        BY <1>2, <3>1, RangeOfAppend
      <3>3. Whereabouts' = Whereabouts
        BY <2>1, <2>2, <3>2 DEF Whereabouts
      <3> QED
        BY <1>1, <3>3, SamplesArePictures
    <2> QED
      BY <2>3, <2>4, <2>5
  <1>5. CASE SignalEndOfStream
    <2>1. encoderIn' = encoderIn \/ encoderIn' = Append(encoderIn, Eos)
      BY <1>5 DEF SignalEndOfStream
    <2>2. Range(encoderIn') = Range(encoderIn) \/ Range(encoderIn') = Range(encoderIn) \cup {Eos}
      BY <1>2, <2>1, RangeOfAppend
    <2>3. Whereabouts' = Whereabouts \/ Whereabouts' = Whereabouts \cup {Eos}
      BY <1>5, <2>2 DEF SignalEndOfStream, Whereabouts
    <2> QED
      BY <1>1, <2>3, SamplesArePictures
  <1>6. CASE EncoderAnnounces
    <2>1. /\ encoderOut' = Append(encoderOut, Head(announcements)) /\ announcements # <<>>
          /\ movie' = movie /\ encoderIn' = encoderIn
      BY <1>6 DEF EncoderAnnounces, pumpVars
    <2>2. ~IsSample(Head(announcements))
      <3>1. Head(announcements) \in {Format, Config}
        BY <1>2, <2>1
      <3> QED
        BY <3>1, SamplesArePictures
    <2>3. Range(encoderOut') = Range(encoderOut) \cup {Head(announcements)}
      BY <1>2, <2>1, RangeOfAppend
    <2>4. Whereabouts' = Whereabouts \cup {Head(announcements)}
      BY <2>1, <2>3 DEF Whereabouts
    <2> QED
      BY <1>1, <2>2, <2>4
  <1>7. CASE EncoderEncodes
    <2>1. /\ encoderIn # <<>> /\ encoderIn' = Tail(encoderIn)
          /\ encoderOut' = Append(encoderOut, Head(encoderIn)) /\ movie' = movie
      BY <1>7 DEF EncoderEncodes, pumpVars
    <2>2. Range(encoderIn) = {Head(encoderIn)} \cup Range(encoderIn')
      BY <1>2, <2>1, RangeOfTail
    <2>3. Range(encoderOut') = Range(encoderOut) \cup {Head(encoderIn)}
      BY <1>2, <2>1, RangeOfAppend
    <2>4. Whereabouts' = Whereabouts
      BY <2>1, <2>2, <2>3 DEF Whereabouts
    <2> QED
      BY <1>1, <2>4, SamplesArePictures
  <1>8. \/ UNCHANGED <<movie, encoderOut, encoderIn>>
        \/ DrainEncoder \/ SignalEndOfStream \/ EncoderAnnounces \/ EncoderEncodes
    BY GivenUpIs
    DEF Next, PumpStep, Feed, EncoderTryAgainLater, DecoderTryAgainLater, TakeDecodedFrame,
           AwaitNewImage, Failure, PumpFails, DecoderStep, EncoderStep, GivenUp,
           OnFrameAvailable, Stopped, vars, pumpVars, encoderVars
  <1> QED
    BY <1>3, <1>4, <1>5, <1>6, <1>7, <1>8

LEMMA PictureDrawn ==
    ASSUME DecoderInv, SwapBuffers \/ QueueFrame
    PROVE  \/ Pictures' = Pictures /\ ~UsesSurface /\ info.frame \in missed'
           \/ \E p \in Picture : /\ Pictures' = Pictures \cup {p} /\ p.time = info.frame
                                 /\ UsesSurface => p = Drawn
  <1>1. ASSUME NEW p \in Picture, encoderIn' = Append(encoderIn, p),
               UNCHANGED <<movie, encoderOut>>
        PROVE  Pictures' = Pictures \cup {p}
    <2>1. encoderIn \in Seq(Picture \cup {Eos})
      BY DEF DecoderInv, Types
    <2>2. Range(encoderIn') = Range(encoderIn) \cup {p}
      BY <1>1, <2>1, RangeOfAppend
    <2>3. Whereabouts' = Whereabouts \cup {p}
      BY <1>1, <2>2 DEF Whereabouts
    <2> QED
      BY <2>3, SamplesArePictures DEF Pictures, Whereabouts
  <1>2. pc = "draw" /\ UNCHANGED <<movie, encoderOut>>
    BY DEF SwapBuffers, QueueFrame
  <1>3. CASE SwapBuffers
    <2>1. encoderIn' = Append(encoderIn, Drawn) /\ Drawn \in Picture /\ Drawn.time = info.frame
      BY <1>2, <1>3, DrawnIsPicture DEF SwapBuffers, Drawn
    <2>2. Pictures' = Pictures \cup {Drawn}
      BY <1>1, <1>2, <2>1
    <2> QED
      BY <2>1, <2>2
  <1>4. CASE QueueFrame
    <2> DEFINE p == [kind |-> "sample", image |-> 0, time |-> info.frame]
    <2>1. p \in Picture /\ p.time = info.frame /\ ~UsesSurface
      BY <1>2, <1>4, DrawnIsPicture DEF QueueFrame
    <2>2. \/ encoderIn' = Append(encoderIn, p)
          \/ encoderIn' = encoderIn /\ info.frame \in missed'
      BY <1>4 DEF QueueFrame
    <2> HIDE DEF p
    <2>3. CASE encoderIn' = Append(encoderIn, p)
      <3>1. Pictures' = Pictures \cup {p}
        BY <1>1, <1>2, <2>1, <2>3
      <3> QED
        BY <2>1, <3>1
    <2>4. CASE encoderIn' = encoderIn /\ info.frame \in missed'
      BY <1>2, <2>1, <2>4 DEF Pictures
    <2> QED
      BY <2>2, <2>3, <2>4
  <1> QED
    BY <1>3, <1>4

Accounted ==
    pc \notin {"failed", "crashed"} =>
        \A f \in 1 .. FramesTaken :
            \/ f \in missed
            \/ pc \in {"await", "draw"} /\ f = Taken
            \/ \E p \in Pictures : p.time = f

PicturesInv == PictureLagBounded /\ Accounted

LEMMA InitPictures == Init => PicturesInv
  <1> SUFFICES ASSUME Init PROVE PicturesInv
    OBVIOUS
  <1>1. Pictures = {}
    BY DEF Init, Pictures, Range
  <1>2. FramesTaken = 0
    BY Constants DEF Init, FramesTaken, Taken, Fed
  <1> QED
    BY <1>1, <1>2 DEF PicturesInv, PictureLagBounded, Accounted

(* The waits that timed out are never fewer than before.                   *)
LEMMA LagKept ==
    ASSUME DecoderInv, DecoderInv', SurfaceInv, PictureLagBounded, [Next]_vars
    PROVE  PictureLagBounded'
  <1>1. late \in Nat /\ late' \in {late, late + 1} /\ UsesSurface' = UsesSurface
    BY GivenUpIs
    DEF DecoderInv, Types, Next, PumpStep, Feed, DrainEncoder, EncoderTryAgainLater,
           DecoderTryAgainLater, TakeDecodedFrame, AwaitNewImage, Failure, GivenUp, SwapBuffers,
           QueueFrame, SignalEndOfStream, PumpFails, DecoderStep, EncoderStep, EncoderAnnounces,
           EncoderEncodes, OnFrameAvailable, Stopped, vars, pumpVars, UsesSurface
  <1> SUFFICES ASSUME UsesSurface, NEW p \in Pictures'
               PROVE  p.image <= p.time /\ p.time - p.image <= late'
    BY <1>1 DEF PictureLagBounded
  <1>2. \A q \in Pictures : q \in Picture
    <2>1. /\ encoderOut \in Seq(Picture \cup {Eos, Format, Config})
          /\ encoderIn \in Seq(Picture \cup {Eos}) /\ movie \in Seq(Picture)
      BY DEF DecoderInv, Types
    <2>2. Whereabouts \subseteq Picture \cup {Eos, Format, Config}
      BY <2>1 DEF Range, Whereabouts
    <2> QED
      BY <2>2, SamplesArePictures DEF Pictures, Whereabouts
  <1>3. CASE p \in Pictures
    <2>1. p.image <= p.time /\ p.time - p.image <= late
      BY <1>3 DEF PictureLagBounded
    <2>2. p.image \in Nat /\ p.time \in Nat
      BY <1>2, <1>3, Constants DEF Picture
    <2> QED
      BY <1>1, <2>1, <2>2
  <1>4. CASE p \notin Pictures
    <2>1. SwapBuffers \/ QueueFrame
      BY <1>4, PicturesKept
    <2>2. p = Drawn
      BY <1>4, <2>1, PictureDrawn
    <2>3. pc = "draw" /\ late' = late
      BY <2>1 DEF SwapBuffers, QueueFrame
    <2>4. texture <= info.frame /\ info.frame <= texture + late
      BY <2>3 DEF SurfaceInv, TextureIsRecent, Final
    <2> QED
      BY <2>2, <2>3, <2>4, TakenTypes DEF Drawn
  <1> QED
    BY <1>3, <1>4

LEMMA AccountedKept ==
    ASSUME DecoderInv, DecoderInv', SurfaceInv, Accounted, [Next]_vars
    PROVE  Accounted'
  <1> SUFFICES ASSUME pc' \notin {"failed", "crashed"}, NEW f \in 1 .. FramesTaken'
               PROVE  \/ f \in missed'
                      \/ pc' \in {"await", "draw"} /\ f = Taken'
                      \/ \E p \in Pictures' : p.time = f
    BY DEF Accounted
  <1>1. CASE SwapBuffers \/ QueueFrame
    <2>1. Taken' = Taken /\ FramesTaken' = FramesTaken
      <3>1. UNCHANGED <<extractor, inputDone, decoderVars>>
        BY <1>1 DEF SwapBuffers, QueueFrame
      <3>2. Taken' = Taken
        BY <3>1, TakenSame
      <3> QED
        BY <3>2 DEF FramesTaken
    <2>2. pc = "draw" /\ missed \subseteq missed' /\ info.frame = Taken
      BY <1>1, AfterRendered DEF SwapBuffers, QueueFrame
    <2>3. \/ f \in missed \/ f = Taken
          \/ \E p \in Pictures : p.time = f
      BY <2>1, <2>2 DEF Accounted
    <2>4. Pictures \subseteq Pictures'
      BY <1>1, PictureDrawn
    <2>5. Taken \in missed' \/ \E p \in Pictures' : p.time = Taken
      BY <1>1, <2>2, PictureDrawn
    <2> QED
      BY <2>2, <2>3, <2>4, <2>5
  <1>2. CASE ~SwapBuffers /\ ~QueueFrame /\ TakeDecodedFrame
    <2>1. Pictures' = Pictures
      BY <1>2, PicturesKept
    <2>2. pc = "decode" /\ missed \subseteq missed'
      BY <1>2 DEF TakeDecodedFrame
    <2>3. f \in 1 .. FramesTaken \/ (f = Taken' /\ Taken' \in 1 .. Frames)
      BY <1>2, TakenIsNext, TakenTypes, Constants DEF FramesTaken
    <2>4. CASE f \in 1 .. FramesTaken
      BY <2>1, <2>2, <2>4 DEF Accounted
    <2>5. CASE f = Taken' /\ Taken' \in 1 .. Frames
      <3>1. info'.frame = f /\ f # EndOfStream
        BY <1>2, <2>5, TakenIsNext DEF EndOfStream
      <3> QED
        BY <1>2, <2>5, <3>1 DEF TakeDecodedFrame
    <2> QED
      BY <2>3, <2>4, <2>5
  <1>3. CASE ~SwapBuffers /\ ~QueueFrame /\ ~TakeDecodedFrame
    <2>1. Pictures' = Pictures
      BY <1>3, PicturesKept
    <2>2. Taken' = Taken
      <3>1. \/ Feed \/ DecoderStep
            \/ UNCHANGED <<extractor, inputDone, decoderVars>>
        BY <1>3, GivenUpIs
        DEF Next, PumpStep, decoderVars, DrainEncoder, EncoderTryAgainLater, DecoderTryAgainLater,
             AwaitNewImage, GivenUp, SignalEndOfStream, Failure, PumpFails, EncoderStep,
             EncoderAnnounces, EncoderEncodes, OnFrameAvailable, Stopped, vars, pumpVars
      <3> QED
        BY <3>1, TakenSame
    <2>3. FramesTaken' = FramesTaken /\ f \in 1 .. FramesTaken
      BY <2>2 DEF FramesTaken
    <2>4. missed \subseteq missed' /\ pc \notin {"failed", "crashed"}
      BY <1>3, GivenUpIs
      DEF Next, PumpStep, Feed, DrainEncoder, EncoderTryAgainLater, DecoderTryAgainLater,
             AwaitNewImage, GivenUp, SignalEndOfStream, Failure, PumpFails, DecoderStep,
             EncoderStep, EncoderAnnounces, EncoderEncodes, OnFrameAvailable, Stopped,
             vars, pumpVars, Final
    <2>5. pc \in {"await", "draw"} => pc' \in {"await", "draw"} \/ Taken \in missed'
      BY <1>3, AfterRendered, GivenUpIs
      DEF Next, PumpStep, Feed, DrainEncoder, EncoderTryAgainLater, DecoderTryAgainLater,
          AwaitNewImage, GivenUp, SignalEndOfStream, Failure, PumpFails, DecoderStep,
          EncoderStep, EncoderAnnounces, EncoderEncodes, OnFrameAvailable, Stopped,
          vars, pumpVars
    <2> QED
      BY <2>1, <2>2, <2>3, <2>4, <2>5 DEF Accounted
  <1> QED
    BY <1>1, <1>2, <1>3

(***************************************************************************)
(* Every picture in the encoder or the file is recent, and every frame     *)
(* that was taken is a picture, missed, or on its way.                     *)
(***************************************************************************)
THEOREM PicturesCorrect == Spec => []PicturesInv
  <1>1. DecoderInv /\ DecoderInv' /\ SurfaceInv /\ PicturesInv /\ [Next]_vars => PicturesInv'
    BY LagKept, AccountedKept DEF PicturesInv
  <1> QED
    BY <1>1, InitPictures, DecoderCorrect, SurfaceCorrect, PTL DEF Spec

(***************************************************************************)
(* On a surface no frame is shown a picture from its future, nor one older *)
(* than the time-outs explain, however slow the main looper is.            *)
(***************************************************************************)
THEOREM LagBounded == Spec => []PictureLagBounded
  <1>1. PicturesInv => PictureLagBounded
    BY DEF PicturesInv
  <1> QED
    BY <1>1, PicturesCorrect, PTL

(***************************************************************************)
(* When the loop has ended by itself, every frame of the recording is in   *)
(* the file or was given up for a reason, and nothing is left in a queue.  *)
(***************************************************************************)
THEOREM AllFramesAccountedFor == Spec => []FramesAccountedFor
  <1>1. DecoderInv /\ EncoderInv /\ SurfaceInv /\ PicturesInv => FramesAccountedFor
    <2> SUFFICES ASSUME DecoderInv, EncoderInv, SurfaceInv, PicturesInv, pc = "done"
                 PROVE  /\ extractor = Frames + 1
                        /\ decoderIn \o decoderOut \o encoderIn \o encoderOut = <<>>
                        /\ {p.time : p \in Range(movie)} \cup missed = 1 .. Frames
      BY DEF FramesAccountedFor, SurfaceInv
    <2>1. encoderIn = <<>> /\ encoderOut = <<>> /\ Taken = Frames + 1
      BY DEF EncoderInv, EosLast
    <2>2. Len(decoderIn) = 0 /\ Len(decoderOut) = 0 /\ Fed = Frames + 1
      BY <2>1, Bounded, Constants
    <2>3. decoderIn = <<>> /\ decoderOut = <<>>
      BY <2>2, EmptyByLength DEF DecoderInv, Types
    <2>4. extractor = Frames + 1
      <3>1. extractor \in 1 .. Frames + 1 /\ (inputDone => extractor = Frames + 1)
        BY DEF DecoderInv, Types, InOrder
      <3> QED
        BY <2>2, <3>1, Constants DEF Fed
    <2>5. decoderIn \o decoderOut \o encoderIn \o encoderOut = <<>>
      BY <2>1, <2>3
    <2>6. FramesTaken = Frames
      BY <2>1, Constants DEF FramesTaken
    <2>7. Pictures \subseteq Range(movie)
      <3>1. Range(encoderIn) = {} /\ Range(encoderOut) = {}
        BY <2>1 DEF Range
      <3> QED
        BY <3>1 DEF Pictures
    <2>8. \A f \in 1 .. Frames : f \in missed \/ \E p \in Pictures : p.time = f
      BY <2>6 DEF PicturesInv, Accounted
    <2>9. \A p \in Range(movie) : p.time \in 1 .. Frames
      <3>1. Range(movie) \subseteq Picture
        BY DEF DecoderInv, Types, Range
      <3> QED
        BY <3>1 DEF Picture
    <2>10. missed \subseteq 1 .. Frames
      BY DEF DecoderInv, Types
    <2> QED
      BY <2>4, <2>5, <2>7, <2>8, <2>9, <2>10
  <1> QED
    BY <1>1, DecoderCorrect, EncoderCorrect, SurfaceCorrect, PicturesCorrect, PTL
-----------------------------------------------------------------------------
(***************************************************************************)
(* The fifth layer: VideoPump implements FrameCopy.  What the encoder      *)
(* holds is announcements first, then samples, then perhaps the end of the *)
(* stream, so that no step but a drawing changes the sequence of encoded   *)
(* samples; and every frame taken from the decoder has been encoded or     *)
(* given up, but for the one being drawn.                                  *)
(***************************************************************************)
QueueOrder ==
    /\ Ahead <= Len(encoderOut)
    /\ \A i \in 1 .. Len(encoderOut) : encoderOut[i] \in {Format, Config} <=> i <= Ahead
    /\ announcements # <<>> => Ahead = Len(encoderOut)

TurnsCounted ==
    pc \notin {"failed", "crashed"} => Len(Encoded) + Cardinality(missed) = Turns

CopyInv == QueueOrder /\ TurnsCounted

(* Sequences, by their elements.                                           *)
LEMMA SameElements ==
    ASSUME NEW S, NEW s \in Seq(S), NEW t \in Seq(S), Len(s) = Len(t),
           \A i \in 1 .. Len(s) : s[i] = t[i]
    PROVE  s = t
  OBVIOUS

LEMMA Joined ==
    ASSUME NEW S, NEW s \in Seq(S), NEW t \in Seq(S)
    PROVE  /\ s \o t \in Seq(S) /\ Len(s \o t) = Len(s) + Len(t)
           /\ Len(s) \in Nat /\ Len(t) \in Nat
           /\ \A i \in 1 .. Len(s) : (s \o t)[i] = s[i]
           /\ \A i \in 1 .. Len(t) : (s \o t)[Len(s) + i] = t[i]
  OBVIOUS

LEMMA Middle ==
    ASSUME NEW S, NEW s \in Seq(S), NEW a \in Nat, NEW b \in Nat, a + b <= Len(s)
    PROVE  /\ SubSeq(s, a + 1, Len(s) - b) \in Seq(S)
           /\ Len(SubSeq(s, a + 1, Len(s) - b)) = Len(s) - b - a
           /\ \A i \in 1 .. Len(s) - b - a : SubSeq(s, a + 1, Len(s) - b)[i] = s[a + i]
  <1>1. Len(s) \in Nat /\ \A i \in 1 .. Len(s) : s[i] \in S
    OBVIOUS
  <1>2. \A i \in 1 .. Len(s) - b - a : a + i \in 1 .. Len(s) /\ i + (a + 1) - 1 = a + i
    BY <1>1
  <1>3. Len(s) - b - (a + 1) + 1 = Len(s) - b - a /\ Len(s) - b - a \in Nat
    BY <1>1
  <1>4. SubSeq(s, a + 1, Len(s) - b) = [i \in 1 .. Len(s) - b - a |-> s[a + i]]
    BY <1>1, <1>2, <1>3
  <1>5. \A i \in 1 .. Len(s) - b - a : s[a + i] \in S
    BY <1>1, <1>2
  <1> DEFINE n == Len(s) - b - a
             t == SubSeq(s, a + 1, Len(s) - b)
  <1>6. n \in Nat /\ t = [i \in 1 .. n |-> s[a + i]] /\ \A i \in 1 .. n : s[a + i] \in S
    BY <1>3, <1>4, <1>5
  <1> HIDE DEF n, t
  <1>7. t \in Seq(S) /\ Len(t) = n /\ \A i \in 1 .. n : t[i] = s[a + i]
    BY <1>6
  <1> QED
    BY <1>7 DEF n, t

(* The encoded samples, by their places in the file and in the queue.      *)
Emitted == Picture \cup {Eos, Format, Config}
Samples(m, q, a, b) == m \o SubSeq(q, a + 1, Len(q) - b)

LEMMA Shape ==
    ASSUME NEW m \in Seq(Emitted), NEW q \in Seq(Emitted), NEW a \in Nat, NEW b \in Nat,
           a + b <= Len(q)
    PROVE  /\ Samples(m, q, a, b) \in Seq(Emitted)
           /\ Len(Samples(m, q, a, b)) = Len(m) + (Len(q) - b - a)
           /\ \A i \in 1 .. Len(m) : Samples(m, q, a, b)[i] = m[i]
           /\ \A i \in 1 .. Len(q) - b - a : Samples(m, q, a, b)[Len(m) + i] = q[a + i]
  <1> DEFINE e == Samples(m, q, a, b)
  <1> DEFINE t == SubSeq(q, a + 1, Len(q) - b)
  <1>1. /\ t \in Seq(Emitted) /\ Len(t) = Len(q) - b - a
        /\ \A i \in 1 .. Len(q) - b - a : t[i] = q[a + i]
    BY Middle
  <1>2. Len(q) \in Nat
    OBVIOUS
  <1>3. e = m \o t
    BY DEF Samples
  <1> HIDE DEF t, e
  <1>4. /\ e \in Seq(Emitted) /\ Len(e) = Len(m) + Len(t) /\ Len(m) \in Nat
        /\ \A i \in 1 .. Len(m) : e[i] = m[i]
        /\ \A i \in 1 .. Len(t) : e[Len(m) + i] = t[i]
    <2>1. /\ m \o t \in Seq(Emitted) /\ Len(m \o t) = Len(m) + Len(t) /\ Len(m) \in Nat
          /\ \A i \in 1 .. Len(m) : (m \o t)[i] = m[i]
          /\ \A i \in 1 .. Len(t) : (m \o t)[Len(m) + i] = t[i]
      <3>1. t \in Seq(Emitted)
        BY <1>1
      <3> QED
        BY <3>1, Joined
    <2> QED
      BY <1>3, <2>1, Zenon
  <1> QED
    BY <1>1, <1>2, <1>4 DEF e

LEMMA RangeOfJoined ==
    ASSUME NEW s \in Seq(Emitted), NEW t \in Seq(Emitted), NEW x
    PROVE  x \in Range(s \o t) <=>
               \/ \E i \in 1 .. Len(s) : s[i] = x
               \/ \E i \in 1 .. Len(t) : t[i] = x
  <1>1. DOMAIN (s \o t) = 1 .. Len(s) + Len(t)
    OBVIOUS
  <1>2. ASSUME NEW i \in 1 .. Len(s) + Len(t)
        PROVE  \/ i \in 1 .. Len(s) /\ (s \o t)[i] = s[i]
               \/ i - Len(s) \in 1 .. Len(t) /\ (s \o t)[i] = t[i - Len(s)]
    <2>1. \/ i \in 1 .. Len(s)
          \/ i - Len(s) \in 1 .. Len(t) /\ Len(s) + (i - Len(s)) = i
      BY Joined
    <2> QED
      BY <2>1, Joined
  <1>3. /\ \A i \in 1 .. Len(s) : i \in 1 .. Len(s) + Len(t)
        /\ \A i \in 1 .. Len(t) : Len(s) + i \in 1 .. Len(s) + Len(t)
    BY Joined
  <1>4. \A i \in 1 .. Len(s) : s[i] = x => x \in Range(s \o t)
    BY <1>1, <1>3, Joined DEF Range
  <1>5. \A i \in 1 .. Len(t) : t[i] = x => x \in Range(s \o t)
    BY <1>1, <1>3, Joined DEF Range
  <1>6. x \in Range(s \o t) => \/ \E i \in 1 .. Len(s) : s[i] = x
                               \/ \E i \in 1 .. Len(t) : t[i] = x
    BY <1>1, <1>2 DEF Range
  <1> QED
    BY <1>4, <1>5, <1>6

(* Announcements that come first are counted by their last place.          *)
LEMMA AheadIs ==
    ASSUME NEW S, NEW s \in Seq(S), NEW F, NEW n \in 0 .. Len(s),
           \A i \in 1 .. Len(s) : s[i] \in F <=> i <= n
    PROVE  Cardinality({i \in DOMAIN s : s[i] \in F}) = n
  <1>1. DOMAIN s = 1 .. Len(s) /\ Len(s) \in Nat
    OBVIOUS
  <1>2. {i \in DOMAIN s : s[i] \in F} = 1 .. n
    BY <1>1
  <1>3. Cardinality(1 .. n) = n
    BY <1>1, FS_Interval
  <1> QED
    BY <1>2, <1>3

LEMMA AheadType ==
    ASSUME NEW S, NEW s \in Seq(S), NEW F
    PROVE  Cardinality({i \in DOMAIN s : s[i] \in F}) \in Nat
  <1>1. DOMAIN s = 1 .. Len(s) /\ Len(s) \in Nat
    OBVIOUS
  <1>2. IsFiniteSet(1 .. Len(s)) /\ {i \in DOMAIN s : s[i] \in F} \in SUBSET (1 .. Len(s))
    BY <1>1, FS_Interval
  <1> QED
    BY <1>2, FS_Subset, FS_CardinalityType

LEMMA EmittedTypes ==
    ASSUME DecoderInv
    PROVE  /\ movie \in Seq(Emitted) /\ encoderOut \in Seq(Emitted) /\ encoderIn \in Seq(Emitted)
           /\ announcements \in Seq({Format, Config})
           /\ \A i \in 1 .. Len(encoderIn) : encoderIn[i] \notin {Format, Config}
  <1>1. /\ encoderOut \in Seq(Picture \cup {Eos, Format, Config})
        /\ encoderIn \in Seq(Picture \cup {Eos}) /\ movie \in Seq(Picture)
        /\ announcements \in Seq({Format, Config})
    BY DEF DecoderInv, Types
  <1>2. \A i \in 1 .. Len(encoderIn) : encoderIn[i] \notin {Format, Config}
    BY <1>1, KindsDiffer
  <1> QED
    BY <1>1, <1>2 DEF Emitted

EncodedShape ==
    /\ movie \in Seq(Emitted) /\ Queue \in Seq(Emitted) /\ Encoded \in Seq(Emitted)
    /\ Len(Queue) = Len(encoderOut) + Len(encoderIn)
    /\ \A i \in 1 .. Len(encoderOut) : Queue[i] = encoderOut[i]
    /\ \A i \in 1 .. Len(encoderIn) : Queue[Len(encoderOut) + i] = encoderIn[i]
    /\ Ahead \in Nat /\ Ahead <= Len(encoderOut) /\ Behind \in {0, 1}
    /\ (Behind = 1) <=> EosIn \/ EosOut
    /\ Ahead + Behind <= Len(Queue)
    /\ Len(Encoded) = Len(movie) + (Len(Queue) - Behind - Ahead)
    /\ \A i \in 1 .. Len(movie) : Encoded[i] = movie[i]
    /\ \A i \in 1 .. Len(Queue) - Behind - Ahead : Encoded[Len(movie) + i] = Queue[Ahead + i]

LEMMA ShapeHere == DecoderInv /\ QueueOrder => EncodedShape
  <1> SUFFICES ASSUME DecoderInv, QueueOrder PROVE EncodedShape
    OBVIOUS
  <1>1. /\ movie \in Seq(Emitted) /\ encoderOut \in Seq(Emitted) /\ encoderIn \in Seq(Emitted)
        /\ Len(encoderOut) \in Nat /\ Len(encoderIn) \in Nat
    BY EmittedTypes
  <1>2. /\ Queue \in Seq(Emitted) /\ Len(Queue) = Len(encoderOut) + Len(encoderIn)
        /\ \A i \in 1 .. Len(encoderOut) : Queue[i] = encoderOut[i]
        /\ \A i \in 1 .. Len(encoderIn) : Queue[Len(encoderOut) + i] = encoderIn[i]
    BY <1>1, Joined DEF Queue
  <1>3. Ahead \in Nat /\ Ahead <= Len(encoderOut)
    BY <1>1, AheadType DEF Ahead, QueueOrder
  <1>4. Eos \in Range(Queue) <=> EosIn \/ EosOut
    BY <1>1, RangeOfJoined, SMTT(30) DEF Queue, EosIn, EosOut
  <1>5. Behind \in {0, 1} /\ ((Behind = 1) <=> EosIn \/ EosOut)
    BY <1>4 DEF Behind
  <1>6. Ahead + Behind <= Len(Queue)
    <2>1. EosIn => Len(encoderIn) > 0
      BY <1>1 DEF EosIn
    <2>2. EosOut => Ahead < Len(encoderOut)
      <3> SUFFICES ASSUME NEW i \in 1 .. Len(encoderOut), encoderOut[i] = Eos
                   PROVE  Ahead < Len(encoderOut)
        BY DEF EosOut
      <3>1. ~(i <= Ahead)
        BY KindsDiffer DEF QueueOrder
      <3> QED
        BY <1>1, <1>3, <3>1
    <2> QED
      BY <1>1, <1>2, <1>3, <1>5, <2>1, <2>2
  <1>7. Behind \in Nat
    BY <1>5
  <1>8. /\ Encoded \in Seq(Emitted) /\ Len(Encoded) = Len(movie) + (Len(Queue) - Behind - Ahead)
        /\ \A i \in 1 .. Len(movie) : Encoded[i] = movie[i]
        /\ \A i \in 1 .. Len(Queue) - Behind - Ahead : Encoded[Len(movie) + i] = Queue[Ahead + i]
    <2>1. /\ movie \in Seq(Emitted) /\ Queue \in Seq(Emitted) /\ Ahead \in Nat /\ Behind \in Nat
          /\ Ahead + Behind <= Len(Queue)
          /\ Encoded = Samples(movie, Queue, Ahead, Behind)
      BY <1>1, <1>2, <1>3, <1>6, <1>7 DEF Encoded, Samples
    <2> DEFINE e == Samples(movie, Queue, Ahead, Behind)
    <2>a. e \in Seq(Emitted)
      BY <2>1, Shape
    <2>b. Len(e) = Len(movie) + (Len(Queue) - Behind - Ahead)
      BY <2>1, Shape
    <2>c. \A i \in 1 .. Len(movie) : e[i] = movie[i]
      BY <2>1, Shape, ZenonT(60)
    <2>d. \A i \in 1 .. Len(Queue) - Behind - Ahead : e[Len(movie) + i] = Queue[Ahead + i]
      BY <2>1, Shape, ZenonT(60)
    <2> HIDE DEF e
    <2>3. Encoded = e
      BY <2>1 DEF e
    <2> QED
      BY <2>a, <2>b, <2>c, <2>d, <2>3, Zenon
  <1> QED
    BY <1>1, <1>2, <1>3, <1>5, <1>6, <1>8 DEF EncodedShape

LEMMA ShapeNext == (DecoderInv /\ QueueOrder)' => EncodedShape'
  BY ShapeHere, PTL

(* Samples are encoded in their order: nothing but the queue's end grows.  *)
LEMMA SameEncoded ==
    ASSUME EncodedShape, EncodedShape', movie' = movie,
           Ahead' + Len(Queue) = Ahead + Len(Queue'), Behind' = Behind,
           \A i \in 1 .. Len(Queue) - Behind - Ahead : Queue'[Ahead' + i] = Queue[Ahead + i]
    PROVE  Encoded' = Encoded
  <1> DEFINE n == Len(Queue) - Behind - Ahead
  <1>1. /\ movie \in Seq(Emitted) /\ Encoded \in Seq(Emitted) /\ Len(Encoded) = Len(movie) + n
        /\ \A i \in 1 .. Len(movie) : Encoded[i] = movie[i]
        /\ \A i \in 1 .. n : Encoded[Len(movie) + i] = Queue[Ahead + i]
    BY DEF EncodedShape
  <1>2. n \in Nat /\ Len(movie) \in Nat /\ n = Len(Queue') - Behind' - Ahead'
    <2>1. /\ movie \in Seq(Emitted) /\ Queue \in Seq(Emitted) /\ Queue' \in Seq(Emitted)
          /\ Ahead \in Nat /\ Ahead' \in Nat /\ Behind \in {0, 1}
          /\ Ahead + Behind <= Len(Queue)
      BY DEF EncodedShape
    <2>2. Len(Queue) \in Nat /\ Len(Queue') \in Nat /\ Len(movie) \in Nat
      BY <2>1
    <2> QED
      BY <2>1, <2>2
  <1>3. /\ Encoded' \in Seq(Emitted) /\ Len(Encoded') = Len(movie) + n
        /\ \A i \in 1 .. Len(movie) : Encoded'[i] = movie[i]
        /\ \A i \in 1 .. n : Encoded'[Len(movie) + i] = Queue'[Ahead' + i]
    BY <1>2 DEF EncodedShape
  <1> HIDE DEF n
  <1>4. \A i \in 1 .. Len(movie) + n : \/ i \in 1 .. Len(movie)
                                       \/ i - Len(movie) \in 1 .. n /\ Len(movie) + (i - Len(movie)) = i
    BY <1>2
  <1>5. \A i \in 1 .. n : Queue'[Ahead' + i] = Queue[Ahead + i]
    BY DEF n
  <1>6. \A i \in 1 .. Len(Encoded) : Encoded'[i] = Encoded[i]
    <2> SUFFICES ASSUME NEW i \in 1 .. Len(movie) + n PROVE Encoded'[i] = Encoded[i]
      BY <1>1
    <2>1. CASE i \in 1 .. Len(movie)
      BY <1>1, <1>3, <2>1
    <2>2. CASE i - Len(movie) \in 1 .. n /\ Len(movie) + (i - Len(movie)) = i
      BY <1>1, <1>3, <1>5, <2>2
    <2> QED
      BY <1>4, <2>1, <2>2
  <1> QED
    BY <1>1, <1>3, <1>6, SameElements

LEMMA OneMoreEncoded ==
    ASSUME EncodedShape, EncodedShape', movie' = movie, Ahead' = Ahead,
           Behind = 0, Behind' = 0, NEW p, Queue' = Append(Queue, p)
    PROVE  /\ Len(Encoded') = Len(Encoded) + 1 /\ Encoded'[Len(Encoded) + 1] = p
           /\ \A i \in 1 .. Len(Encoded) : Encoded'[i] = Encoded[i]
  <1> DEFINE n == Len(Queue) - Ahead
             l == Len(movie)
  <1>1. /\ movie \in Seq(Emitted) /\ Queue \in Seq(Emitted) /\ Ahead \in Nat /\ Ahead <= Len(Queue)
        /\ Len(Encoded) = l + (Len(Queue) - 0 - Ahead)
        /\ \A i \in 1 .. l : Encoded[i] = movie[i]
        /\ \A i \in 1 .. Len(Queue) - 0 - Ahead : Encoded[l + i] = Queue[Ahead + i]
    BY DEF EncodedShape
  <1>2. /\ Len(Encoded') = l + (Len(Queue') - 0 - Ahead)
        /\ \A i \in 1 .. l : Encoded'[i] = movie[i]
        /\ \A i \in 1 .. Len(Queue') - 0 - Ahead : Encoded'[l + i] = Queue'[Ahead + i]
    BY DEF EncodedShape
  <1>3. /\ Len(Queue) \in Nat /\ Len(Queue') = Len(Queue) + 1 /\ Queue'[Len(Queue) + 1] = p
        /\ \A i \in 1 .. Len(Queue) : Queue'[i] = Queue[i]
    BY <1>1
  <1>4. /\ n \in Nat /\ l \in Nat /\ Len(Queue) - 0 - Ahead = n /\ Len(Queue') - 0 - Ahead = n + 1
        /\ Ahead + (n + 1) = Len(Queue) + 1
    BY <1>1, <1>3
  <1>5. \A i \in 1 .. n : Queue'[Ahead + i] = Queue[Ahead + i]
    <2>1. \A i \in 1 .. n : Ahead + i \in 1 .. Len(Queue)
      BY <1>1, <1>3
    <2> QED
      BY <1>3, <2>1
  <1>6. /\ Len(Encoded) = l + n /\ Len(Encoded') = l + (n + 1)
        /\ \A i \in 1 .. n : Encoded[l + i] = Queue[Ahead + i]
        /\ \A i \in 1 .. n + 1 : Encoded'[l + i] = Queue'[Ahead + i]
    BY <1>1, <1>2, <1>4
  <1> HIDE DEF n, l
  <1>7. Encoded'[l + (n + 1)] = p
    <2>1. n + 1 \in 1 .. n + 1
      BY <1>4
    <2> QED
      BY <1>3, <1>4, <1>6, <2>1
  <1>8. ASSUME NEW i \in 1 .. l + n PROVE Encoded'[i] = Encoded[i]
    <2>1. CASE i \in 1 .. l
      BY <1>1, <1>2, <2>1
    <2>2. CASE i \notin 1 .. l
      <3>1. i - l \in 1 .. n /\ i - l \in 1 .. n + 1 /\ l + (i - l) = i
        BY <1>4, <2>2
      <3> QED
        BY <1>5, <1>6, <3>1
    <2> QED
      BY <2>1, <2>2
  <1> QED
    BY <1>4, <1>6, <1>7, <1>8

(* Most steps leave the encoder and the file alone.                        *)
LEMMA OthersQueue ==
    ASSUME QueueOrder, UNCHANGED <<movie, encoderOut, encoderIn, announcements>>
    PROVE  QueueOrder' /\ Encoded' = Encoded
  <1>1. Ahead' = Ahead /\ Queue' = Queue /\ Behind' = Behind
    BY DEF Ahead, Queue, Behind
  <1>2. QueueOrder'
    BY <1>1 DEF QueueOrder
  <1>3. Encoded' = Encoded
    BY <1>1 DEF Encoded
  <1> QED
    BY <1>2, <1>3

(* The end of the stream is told to the encoder.                           *)
LEMMA HandedQueue ==
    ASSUME DecoderInv, DecoderInv', QueueOrder, ~EosIn, ~EosOut,
           NEW p \in Emitted, encoderIn' = Append(encoderIn, p),
           UNCHANGED <<movie, encoderOut, announcements>>
    PROVE  /\ QueueOrder' /\ EncodedShape /\ EncodedShape' /\ Behind = 0
           /\ Queue' = Append(Queue, p) /\ Ahead' = Ahead
           /\ (Behind' = 1) <=> p = Eos
  <1>1. Ahead' = Ahead
    BY DEF Ahead
  <1>2. QueueOrder'
    BY <1>1 DEF QueueOrder
  <1>3. EncodedShape /\ EncodedShape'
    BY <1>2, ShapeHere, ShapeNext
  <1>4. Behind = 0
    BY <1>3 DEF EncodedShape
  <1>5. encoderOut \in Seq(Emitted) /\ encoderIn \in Seq(Emitted) /\ encoderIn' \in Seq(Emitted)
    <2>1. encoderOut \in Seq(Emitted) /\ encoderIn \in Seq(Emitted)
      BY EmittedTypes
    <2> QED
      BY <2>1
  <1>6. Queue' = Append(Queue, p)
    BY <1>5 DEF Queue
  <1>7. EosIn' <=> p = Eos
    <2>1. /\ Len(encoderIn) \in Nat /\ Len(encoderIn') = Len(encoderIn) + 1
          /\ encoderIn'[Len(encoderIn) + 1] = p
          /\ \A i \in 1 .. Len(encoderIn) : encoderIn'[i] = encoderIn[i]
      BY <1>5
    <2>2. \A i \in 1 .. Len(encoderIn) : encoderIn'[i] # Eos
      BY <2>1 DEF EosIn
    <2>3. \A i \in 1 .. Len(encoderIn') : i \in 1 .. Len(encoderIn) \/ i = Len(encoderIn) + 1
      BY <2>1
    <2>4. Len(encoderIn) + 1 \in 1 .. Len(encoderIn')
      BY <2>1
    <2> QED
      BY <2>1, <2>2, <2>3, <2>4 DEF EosIn
  <1>8. ~EosOut'
    BY DEF EosOut
  <1>9. (Behind' = 1) <=> p = Eos
    BY <1>3, <1>7, <1>8 DEF EncodedShape
  <1> QED
    BY <1>1, <1>2, <1>3, <1>4, <1>6, <1>9

LEMMA SignalQueue ==
    ASSUME DecoderInv, DecoderInv', EncoderInv, QueueOrder, SignalEndOfStream
    PROVE  QueueOrder' /\ Encoded' = Encoded
  <1>1. pc = "signal" /\ UNCHANGED <<movie, encoderOut, announcements>>
    BY DEF SignalEndOfStream
  <1>2. CASE encoderIn' = encoderIn
    BY <1>1, <1>2, OthersQueue
  <1>3. CASE encoderIn' = Append(encoderIn, Eos)
    <2>1. ~EosIn /\ ~EosOut
      BY <1>1 DEF EncoderInv, EosLast
    <2>2. Eos \in Emitted
      BY DEF Emitted
    <2>3. /\ QueueOrder' /\ EncodedShape /\ EncodedShape' /\ Behind = 0
          /\ Queue' = Append(Queue, Eos) /\ Ahead' = Ahead /\ Behind' = 1
      BY <1>1, <1>3, <2>1, <2>2, HandedQueue
    <2>4. movie \in Seq(Emitted) /\ Queue \in Seq(Emitted) /\ Ahead \in Nat /\ Ahead <= Len(Queue)
      BY <2>3 DEF EncodedShape
    <2>5. Queue' = Append(Queue, Eos) /\ Len(Queue) \in Nat
      BY <2>3, <2>4
    <2>6. Encoded = movie \o SubSeq(Queue, Ahead + 1, Len(Queue))
      <3>1. Len(Queue) - 0 = Len(Queue)
        BY <2>5
      <3> QED
        BY <2>3, <3>1 DEF Encoded
    <2>7. Encoded' = movie \o SubSeq(Queue', Ahead + 1, Len(Queue))
      <3>1. Len(Queue') - 1 = Len(Queue)
        BY <2>4, <2>5
      <3> QED
        BY <1>1, <2>3, <3>1 DEF Encoded
    <2>8. \A i \in Ahead + 1 .. Len(Queue) : Queue'[i] = Queue[i]
      BY <2>4, <2>5
    <2>9. SubSeq(Queue', Ahead + 1, Len(Queue)) = SubSeq(Queue, Ahead + 1, Len(Queue))
      <3> DEFINE n == Len(Queue) - Ahead
      <3>1. /\ SubSeq(Queue, Ahead + 1, Len(Queue)) \in Seq(Emitted)
            /\ Len(SubSeq(Queue, Ahead + 1, Len(Queue))) = n /\ n \in Nat
            /\ \A i \in 1 .. n : SubSeq(Queue, Ahead + 1, Len(Queue))[i] = Queue[Ahead + i]
        BY <2>4, <2>5, Middle
      <3>2. Queue' \in Seq(Emitted) /\ Len(Queue') - 1 = Len(Queue) /\ Ahead + 1 <= Len(Queue')
        BY <2>4, <2>5, <2>2
      <3>3. /\ SubSeq(Queue', Ahead + 1, Len(Queue)) \in Seq(Emitted)
            /\ Len(SubSeq(Queue', Ahead + 1, Len(Queue))) = n
            /\ \A i \in 1 .. n : SubSeq(Queue', Ahead + 1, Len(Queue))[i] = Queue'[Ahead + i]
        BY <2>4, <3>2, Middle
      <3>4. \A i \in 1 .. n : Ahead + i \in Ahead + 1 .. Len(Queue)
        BY <2>4, <2>5
      <3> HIDE DEF n
      <3>5. \A i \in 1 .. n : Queue'[Ahead + i] = Queue[Ahead + i]
        BY <2>8, <3>4
      <3> QED
        BY <3>1, <3>3, <3>5, SameElements
    <2> QED
      BY <2>3, <2>6, <2>7, <2>9
  <1> QED
    BY <1>2, <1>3 DEF SignalEndOfStream

LEMMA DrawQueue ==
    ASSUME DecoderInv, DecoderInv', EncoderInv, QueueOrder, SwapBuffers \/ QueueFrame
    PROVE  /\ QueueOrder'
           /\ \/ Encoded' = Encoded /\ missed' = missed \cup {info.frame}
              \/ /\ missed' = missed
                 /\ Len(Encoded') = Len(Encoded) + 1
                 /\ Encoded'[Len(Encoded) + 1].time = info.frame
                 /\ \A i \in 1 .. Len(Encoded) : Encoded'[i] = Encoded[i]
  <1>1. pc = "draw" /\ UNCHANGED <<movie, encoderOut, announcements>>
    BY DEF SwapBuffers, QueueFrame
  <1>2. ~EosIn /\ ~EosOut
    BY <1>1 DEF EncoderInv, EosLast
  <1>3. ASSUME NEW p \in Picture, encoderIn' = Append(encoderIn, p), p.time = info.frame
        PROVE  /\ QueueOrder' /\ Len(Encoded') = Len(Encoded) + 1
               /\ Encoded'[Len(Encoded) + 1].time = info.frame
               /\ \A i \in 1 .. Len(Encoded) : Encoded'[i] = Encoded[i]
    <2>1. p \in Emitted /\ p # Eos
      BY KindsDiffer DEF Emitted
    <2>2. /\ QueueOrder' /\ EncodedShape /\ EncodedShape' /\ Behind = 0
          /\ Queue' = Append(Queue, p) /\ Ahead' = Ahead /\ ~(Behind' = 1)
      BY <1>1, <1>2, <1>3, <2>1, HandedQueue
    <2>3. Behind' = 0
      BY <2>2 DEF EncodedShape
    <2>4. /\ Len(Encoded') = Len(Encoded) + 1 /\ Encoded'[Len(Encoded) + 1] = p
          /\ \A i \in 1 .. Len(Encoded) : Encoded'[i] = Encoded[i]
      BY <1>1, <2>2, <2>3, OneMoreEncoded
    <2> QED
      BY <1>3, <2>2, <2>4
  <1>4. CASE SwapBuffers
    <2>1. /\ encoderIn' = Append(encoderIn, Drawn) /\ Drawn \in Picture /\ Drawn.time = info.frame
          /\ missed' = missed
      BY <1>1, <1>4, DrawnIsPicture DEF SwapBuffers, Drawn
    <2> QED
      BY <1>3, <2>1
  <1>5. CASE QueueFrame
    <2> DEFINE p == [kind |-> "sample", image |-> 0, time |-> info.frame]
    <2>1. p \in Picture /\ p.time = info.frame
      BY <1>1, <1>5, DrawnIsPicture DEF QueueFrame
    <2>2. \/ encoderIn' = Append(encoderIn, p) /\ missed' = missed
          \/ encoderIn' = encoderIn /\ missed' = missed \cup {info.frame}
      BY <1>5 DEF QueueFrame
    <2> HIDE DEF p
    <2>3. CASE encoderIn' = Append(encoderIn, p) /\ missed' = missed
      BY <1>3, <2>1, <2>3
    <2>4. CASE encoderIn' = encoderIn /\ missed' = missed \cup {info.frame}
      BY <1>1, <2>4, OthersQueue
    <2> QED
      BY <2>2, <2>3, <2>4
  <1> QED
    BY <1>4, <1>5

(* An announcement enters the queue behind the other announcements.        *)
LEMMA AnnounceQueue ==
    ASSUME DecoderInv, DecoderInv', QueueOrder, EncoderAnnounces
    PROVE  QueueOrder' /\ Encoded' = Encoded
  <1>1. /\ announcements # <<>> /\ encoderOut' = Append(encoderOut, Head(announcements))
        /\ announcements' = Tail(announcements) /\ UNCHANGED <<movie, encoderIn>>
    BY DEF EncoderAnnounces, pumpVars
  <1>2. /\ encoderOut \in Seq(Emitted) /\ encoderIn \in Seq(Emitted)
        /\ announcements \in Seq({Format, Config})
    BY EmittedTypes
  <1>3. Head(announcements) \in {Format, Config}
    BY <1>1, <1>2
  <1> DEFINE b == Head(announcements)
             n == Len(encoderOut)
  <1>4. /\ n \in Nat /\ Len(encoderOut') = n + 1 /\ encoderOut'[n + 1] = b
        /\ \A i \in 1 .. n : encoderOut'[i] = encoderOut[i]
        /\ encoderOut' \in Seq(Emitted)
    <2>1. b \in Emitted
      BY <1>3 DEF Emitted
    <2> HIDE DEF b
    <2>2. encoderOut' = Append(encoderOut, b)
      BY <1>1 DEF b
    <2> QED
      BY <1>2, <2>1, <2>2
  <1>5. Ahead = n
    BY <1>1 DEF QueueOrder
  <1> HIDE DEF b, n
  <1>6. \A i \in 1 .. n + 1 : encoderOut'[i] \in {Format, Config} /\ i <= n + 1
    <2> SUFFICES ASSUME NEW i \in 1 .. n + 1 PROVE encoderOut'[i] \in {Format, Config} /\ i <= n + 1
      OBVIOUS
    <2>1. CASE i = n + 1
      BY <1>3, <1>4, <2>1 DEF b
    <2>2. CASE i # n + 1
      <3>1. i \in 1 .. n /\ i <= n
        BY <1>4, <2>2
      <3>2. encoderOut[i] \in {Format, Config}
        BY <1>5, <3>1 DEF QueueOrder, n
      <3> QED
        BY <1>4, <3>1, <3>2
    <2> QED
      BY <2>1, <2>2
  <1>7. Ahead' = n + 1
    <2>1. /\ n + 1 \in 0 .. Len(encoderOut')
          /\ \A i \in 1 .. Len(encoderOut') : encoderOut'[i] \in {Format, Config} <=> i <= n + 1
      BY <1>4, <1>6
    <2> QED
      BY <1>4, <2>1, AheadIs DEF Ahead
  <1>8. QueueOrder'
    BY <1>4, <1>6, <1>7 DEF QueueOrder
  <1>9. EncodedShape /\ EncodedShape'
    BY <1>8, ShapeHere, ShapeNext
  <1>10. Behind' = Behind
    <2>1. EosIn' <=> EosIn
      BY <1>1 DEF EosIn
    <2>2. EosOut' <=> EosOut
      <3>1. b # Eos
        BY <1>3, KindsDiffer DEF b
      <3>2. \A i \in 1 .. n + 1 : i \in 1 .. n \/ i = n + 1
        BY <1>4
      <3>3. \A i \in 1 .. n : i \in 1 .. n + 1
        BY <1>4
      <3>4. n = Len(encoderOut)
        BY DEF n
      <3> QED
        BY <1>4, <3>1, <3>2, <3>3, <3>4 DEF EosOut
    <2>3. Behind \in {0, 1} /\ ((Behind = 1) <=> EosIn \/ EosOut)
      BY <1>9 DEF EncodedShape
    <2>4. Behind' \in {0, 1} /\ ((Behind' = 1) <=> EosIn' \/ EosOut')
      BY <1>9 DEF EncodedShape
    <2> QED
      BY <2>1, <2>2, <2>3, <2>4
  <1>11. Len(Queue) = n + Len(encoderIn) /\ Len(Queue') = n + 1 + Len(encoderIn)
    BY <1>1, <1>4, <1>9 DEF EncodedShape, n
  <1>12. \A i \in 1 .. Len(Queue) - Behind - Ahead : Queue'[Ahead' + i] = Queue[Ahead + i]
    <2> SUFFICES ASSUME NEW i \in 1 .. Len(Queue) - Behind - Ahead
                 PROVE  Queue'[Ahead' + i] = Queue[Ahead + i]
      OBVIOUS
    <2>1. Behind \in {0, 1} /\ Len(encoderIn) \in Nat
      BY <1>2, <1>9 DEF EncodedShape
    <2>2. i \in 1 .. Len(encoderIn)
      BY <1>4, <1>5, <1>11, <2>1
    <2>3. Queue[n + i] = encoderIn[i]
      BY <1>9, <2>2 DEF EncodedShape, n
    <2>4. Queue'[n + 1 + i] = encoderIn[i]
      BY <1>1, <1>4, <1>9, <2>2 DEF EncodedShape
    <2> QED
      BY <1>5, <1>7, <2>3, <2>4
  <1>13. Ahead' + Len(Queue) = Ahead + Len(Queue')
    <2>1. Len(encoderIn) \in Nat
      BY <1>2
    <2> QED
      BY <1>4, <1>5, <1>7, <1>11, <2>1
  <1> QED
    BY <1>1, <1>8, <1>9, <1>10, <1>12, <1>13, SameEncoded

(* Encoding moves a sample from one end of the queue's middle to the other.*)
LEMMA EncodeQueue ==
    ASSUME DecoderInv, DecoderInv', QueueOrder, EncoderEncodes
    PROVE  QueueOrder' /\ Encoded' = Encoded
  <1>1. /\ encoderIn # <<>> /\ announcements = <<>> /\ announcements' = <<>>
        /\ encoderOut' = Append(encoderOut, Head(encoderIn)) /\ encoderIn' = Tail(encoderIn)
        /\ movie' = movie
    BY DEF EncoderEncodes, pumpVars
  <1>2. /\ encoderOut \in Seq(Emitted) /\ encoderIn \in Seq(Emitted)
        /\ \A i \in 1 .. Len(encoderIn) : encoderIn[i] \notin {Format, Config}
    BY EmittedTypes
  <1> DEFINE b == Head(encoderIn)
             n == Len(encoderOut)
  <1>3. b = encoderIn[1] /\ 1 \in 1 .. Len(encoderIn) /\ b \in Emitted
    BY <1>1, <1>2
  <1>4. b \notin {Format, Config}
    BY <1>2, <1>3
  <1> HIDE DEF b
  <1>5. /\ n \in Nat /\ Len(encoderOut') = n + 1 /\ encoderOut'[n + 1] = b
        /\ \A i \in 1 .. n : encoderOut'[i] = encoderOut[i]
        /\ encoderOut' \in Seq(Emitted)
    <2>1. encoderOut' = Append(encoderOut, b)
      BY <1>1 DEF b
    <2> QED
      BY <1>2, <1>3, <2>1
  <1>6. Ahead \in Nat /\ Ahead <= n
    BY <1>2, AheadType DEF Ahead, QueueOrder
  <1>7. \A i \in 1 .. n : encoderOut[i] \in {Format, Config} <=> i <= Ahead
    BY DEF QueueOrder
  <1> HIDE DEF n
  <1>8. \A i \in 1 .. n + 1 : encoderOut'[i] \in {Format, Config} <=> i <= Ahead
    <2> SUFFICES ASSUME NEW i \in 1 .. n + 1
                 PROVE  encoderOut'[i] \in {Format, Config} <=> i <= Ahead
      OBVIOUS
    <2>1. CASE i = n + 1
      <3>1. ~(i <= Ahead)
        BY <1>5, <1>6, <2>1
      <3> QED
        BY <1>4, <1>5, <2>1, <3>1
    <2>2. CASE i # n + 1
      <3>1. i \in 1 .. n
        BY <1>5, <2>2
      <3> QED
        BY <1>5, <1>7, <3>1
    <2> QED
      BY <2>1, <2>2
  <1>9. Ahead' = Ahead
    <2>1. Ahead \in 0 .. Len(encoderOut')
      BY <1>5, <1>6
    <2> QED
      BY <1>5, <1>8, <2>1, AheadIs DEF Ahead
  <1>10. QueueOrder'
    <2>1. Ahead' <= Len(encoderOut')
      BY <1>5, <1>6, <1>9
    <2> QED
      BY <1>1, <1>5, <1>8, <1>9, <2>1 DEF QueueOrder
  <1>11. EncodedShape /\ EncodedShape'
    BY <1>10, ShapeHere, ShapeNext
  <1>12. Queue' = Queue
    <2> DEFINE rest == Tail(encoderIn)
               l == Len(encoderIn)
    <2>1. /\ l \in Nat /\ l >= 1 /\ Len(rest) = l - 1 /\ rest \in Seq(Emitted)
          /\ \A i \in 1 .. l - 1 : rest[i] = encoderIn[i + 1]
      BY <1>1, <1>2, <1>3
    <2>2. encoderIn' = rest
      BY <1>1
    <2> HIDE DEF rest
    <2>3. /\ Len(Queue) = n + l /\ Len(Queue') = (n + 1) + (l - 1)
          /\ \A i \in 1 .. n : Queue[i] = encoderOut[i]
          /\ \A i \in 1 .. l : Queue[n + i] = encoderIn[i]
      BY <1>5, <1>11, <2>1, <2>2 DEF EncodedShape, n
    <2>4. /\ \A i \in 1 .. n + 1 : Queue'[i] = encoderOut'[i]
          /\ \A i \in 1 .. l - 1 : Queue'[(n + 1) + i] = rest[i]
      BY <1>5, <1>11, <2>1, <2>2 DEF EncodedShape
    <2> HIDE DEF l
    <2>5. ASSUME NEW i \in 1 .. n + l PROVE Queue'[i] = Queue[i]
      <3>1. CASE i \in 1 .. n
        <4>1. i \in 1 .. n + 1
          BY <1>5, <3>1
        <4> QED
          BY <1>5, <2>3, <2>4, <3>1, <4>1
      <3>2. CASE i = n + 1
        <4>1. i \in 1 .. n + 1 /\ 1 \in 1 .. l
          BY <1>5, <2>1, <3>2
        <4> QED
          BY <1>3, <1>5, <2>3, <2>4, <3>2, <4>1
      <3>3. CASE i \notin 1 .. n /\ i # n + 1
        <4>1. /\ i - n - 1 \in 1 .. l - 1 /\ (n + 1) + (i - n - 1) = i
              /\ (i - n - 1) + 1 = i - n /\ i - n \in 1 .. l /\ n + (i - n) = i
          BY <1>5, <2>1, <3>3
        <4> QED
          BY <2>1, <2>3, <2>4, <4>1
      <3> QED
        BY <3>1, <3>2, <3>3
    <2>6. Len(Queue') = Len(Queue) /\ Len(Queue) = n + l
      BY <1>5, <2>1, <2>3
    <2>7. Queue \in Seq(Emitted) /\ Queue' \in Seq(Emitted)
      BY <1>11 DEF EncodedShape
    <2> QED
      BY <2>5, <2>6, <2>7, SameElements
  <1>13. Behind' = Behind
    BY <1>12 DEF Behind
  <1> QED
    BY <1>1, <1>9, <1>10, <1>12, <1>13 DEF Encoded

(* What leaves the encoder is an announcement, or the next sample, or the  *)
(* end of the stream.                                                      *)
LEMMA DrainQueue ==
    ASSUME DecoderInv, DecoderInv', EncoderInv, QueueOrder, DrainEncoder
    PROVE  QueueOrder' /\ Encoded' = Encoded
  <1>1. /\ encoderOut # <<>> /\ encoderOut' = Tail(encoderOut)
        /\ UNCHANGED <<encoderIn, announcements>>
    BY DEF DrainEncoder
  <1>2. encoderOut \in Seq(Emitted) /\ encoderIn \in Seq(Emitted) /\ movie \in Seq(Emitted)
    BY EmittedTypes
  <1> DEFINE b == Head(encoderOut)
             n == Len(encoderOut)
             l == Len(encoderIn)
  <1>3. /\ n \in Nat /\ n >= 1 /\ Len(encoderOut') = n - 1 /\ b = encoderOut[1] /\ l \in Nat
        /\ \A i \in 1 .. n - 1 : encoderOut'[i] = encoderOut[i + 1]
        /\ encoderOut' \in Seq(Emitted) /\ b \in Emitted
    BY <1>1, <1>2
  <1>4. Ahead \in Nat /\ Ahead <= n
    BY <1>2, AheadType DEF Ahead, QueueOrder
  <1>5. /\ \A i \in 1 .. n : encoderOut[i] \in {Format, Config} <=> i <= Ahead
        /\ announcements # <<>> => Ahead = n
    BY DEF QueueOrder
  <1> DEFINE a == IF Ahead = 0 THEN 0 ELSE Ahead - 1
  <1>6. b \in {Format, Config} <=> Ahead # 0
    <2>1. 1 \in 1 .. n /\ (1 <= Ahead <=> Ahead # 0)
      BY <1>3, <1>4
    <2> QED
      BY <1>3, <1>5, <2>1
  <1> HIDE DEF b, n
  <1>7. a \in 0 .. n - 1
    BY <1>3, <1>4
  <1>8. \A i \in 1 .. n - 1 : encoderOut'[i] \in {Format, Config} <=> i <= a
    <2> SUFFICES ASSUME NEW i \in 1 .. n - 1
                 PROVE  encoderOut'[i] \in {Format, Config} <=> i <= a
      OBVIOUS
    <2>1. i + 1 \in 1 .. n /\ (i + 1 <= Ahead <=> i <= a)
      BY <1>3, <1>4
    <2> QED
      BY <1>3, <1>5, <2>1
  <1> HIDE DEF a
  <1>9. Ahead' = a
    BY <1>3, <1>7, <1>8, AheadIs DEF Ahead
  <1>10. QueueOrder'
    <2>1. Ahead' <= Len(encoderOut')
      BY <1>3, <1>7, <1>9
    <2>2. announcements' # <<>> => Ahead' = Len(encoderOut')
      <3>1. Ahead = n => a = n - 1
        BY <1>3 DEF a
      <3> QED
        BY <1>1, <1>3, <1>5, <1>9, <3>1
    <2> QED
      BY <1>3, <1>8, <1>9, <2>1, <2>2 DEF QueueOrder
  <1>11. EncodedShape /\ EncodedShape'
    BY <1>10, ShapeHere, ShapeNext
  <1>12. /\ Len(Queue) = n + l /\ Len(Queue') = (n - 1) + l
         /\ \A i \in 1 .. n : Queue[i] = encoderOut[i]
         /\ \A i \in 1 .. l : Queue[n + i] = encoderIn[i]
    BY <1>1, <1>3, <1>11 DEF EncodedShape, n
  <1>13. /\ \A i \in 1 .. n - 1 : Queue'[i] = encoderOut'[i]
         /\ \A i \in 1 .. l : Queue'[(n - 1) + i] = encoderIn[i]
    BY <1>1, <1>3, <1>11 DEF EncodedShape
  <1>14. EosIn' = EosIn
    BY <1>1 DEF EosIn
  <1>15. EosOut <=> EosOut' \/ b = Eos
    <2>1. ASSUME NEW i \in 1 .. n, encoderOut[i] = Eos PROVE EosOut' \/ b = Eos
      <3>1. i = 1 \/ (i - 1 \in 1 .. n - 1 /\ (i - 1) + 1 = i)
        BY <1>3
      <3> QED
        BY <1>3, <2>1, <3>1 DEF EosOut
    <2>2. ASSUME NEW i \in 1 .. n - 1, encoderOut'[i] = Eos PROVE EosOut
      <3>1. i + 1 \in 1 .. n /\ encoderOut[i + 1] = Eos
        BY <1>3, <2>2
      <3> QED
        BY <3>1 DEF EosOut, n
    <2>3. b = Eos => EosOut
      <3>1. 1 \in 1 .. n
        BY <1>3
      <3> QED
        BY <1>3, <3>1 DEF EosOut, n
    <2> QED
      BY <1>3, <2>1, <2>2, <2>3 DEF EosOut, n
  <1>a. Behind \in {0, 1} /\ ((Behind = 1) <=> EosIn \/ EosOut)
    BY <1>11 DEF EncodedShape
  <1>b. Behind' \in {0, 1} /\ ((Behind' = 1) <=> EosIn' \/ EosOut')
    BY <1>11 DEF EncodedShape
  <1> HIDE DEF l
  <1>c. ASSUME NEW i \in 1 .. (n - 1) + l PROVE Queue'[i] = Queue[i + 1]
    <2>1. CASE i \in 1 .. n - 1
      <3>1. i + 1 \in 1 .. n
        BY <1>3, <2>1
      <3> QED
        BY <1>3, <1>12, <1>13, <2>1, <3>1
    <2>2. CASE i \notin 1 .. n - 1
      <3>1. /\ i - (n - 1) \in 1 .. l /\ (n - 1) + (i - (n - 1)) = i
            /\ n + (i - (n - 1)) = i + 1
        BY <1>3, <2>2
      <3> QED
        BY <1>12, <1>13, <3>1
    <2> QED
      BY <2>1, <2>2
  <1>16. CASE b \in {Format, Config}
    <2>1. movie' = movie
      BY <1>16 DEF DrainEncoder, b
    <2>2. Behind' = Behind
      <3>1. b # Eos
        BY <1>16, KindsDiffer
      <3> QED
        BY <1>14, <1>15, <1>a, <1>b, <3>1
    <2>3. Ahead' = Ahead - 1 /\ Ahead \in Nat \ {0}
      BY <1>4, <1>6, <1>9, <1>16 DEF a
    <2>4. Ahead' + Len(Queue) = Ahead + Len(Queue')
      BY <1>3, <1>12, <2>3
    <2>5. ASSUME NEW i \in 1 .. Len(Queue) - Behind - Ahead
          PROVE  Queue'[Ahead' + i] = Queue[Ahead + i]
      <3>1. Ahead' + i \in 1 .. (n - 1) + l /\ (Ahead' + i) + 1 = Ahead + i
        BY <1>3, <1>12, <1>a, <2>3
      <3> QED
        BY <1>c, <3>1
    <2> QED
      BY <1>10, <1>11, <2>1, <2>2, <2>4, <2>5, SameEncoded
  <1>17. CASE b = Eos
    <2>1. movie' = movie
      BY <1>17, KindsDiffer DEF DrainEncoder, WriteSample, b
    <2>2. Ahead = 0 /\ Ahead' = 0
      BY <1>6, <1>9, <1>17, KindsDiffer DEF a
    <2>3. n = 1 /\ encoderIn = <<>>
      <3>1. 1 \in 1 .. Len(encoderOut) /\ encoderOut[1] = Eos
        BY <1>3, <1>17 DEF n
      <3> QED
        BY <3>1 DEF EncoderInv, EosLast, n
    <2>4. Len(Queue) = 1 /\ Len(Queue') = 0 /\ Behind = 1 /\ Behind' = 0
      <3>1. l = 0
        BY <2>3 DEF l
      <3>2. ~EosIn' /\ ~EosOut'
        <4>1. Len(encoderIn') = 0 /\ Len(encoderOut') = 0
          BY <1>1, <1>3, <2>3
        <4> QED
          BY <4>1 DEF EosIn, EosOut
      <3> QED
        BY <1>3, <1>12, <1>15, <1>17, <1>a, <1>b, <2>3, <3>1, <3>2
    <2>5. /\ Encoded \in Seq(Emitted) /\ Encoded' \in Seq(Emitted)
          /\ Len(Encoded) = Len(movie) + (Len(Queue) - Behind - Ahead)
          /\ Len(Encoded') = Len(movie) + (Len(Queue') - Behind' - Ahead')
          /\ \A i \in 1 .. Len(movie) : Encoded[i] = movie[i]
          /\ \A i \in 1 .. Len(movie) : Encoded'[i] = movie[i]
      BY <1>11, <2>1 DEF EncodedShape
    <2>6. Len(Encoded) = Len(movie) /\ Len(Encoded') = Len(movie)
      <3>1. Len(movie) \in Nat
        BY <1>2
      <3> QED
        BY <2>2, <2>4, <2>5, <3>1
    <2> QED
      BY <1>10, <2>5, <2>6, SameElements
  <1>18. CASE b \notin {Format, Config} /\ b # Eos
    <2>1. movie' = Append(movie, b)
      BY <1>18 DEF DrainEncoder, WriteSample, b
    <2>2. Ahead = 0 /\ Ahead' = 0
      BY <1>6, <1>9, <1>18 DEF a
    <2>3. Behind' = Behind
      BY <1>14, <1>15, <1>18, <1>a, <1>b
    <2> DEFINE m == Len(movie)
               k == n + l - Behind
    <2>4. /\ m \in Nat /\ Len(movie') = m + 1 /\ movie'[m + 1] = b
          /\ \A i \in 1 .. m : movie'[i] = movie[i]
      BY <1>2, <1>3, <2>1
    <2>5. /\ Encoded \in Seq(Emitted)
          /\ Len(Encoded) = m + (Len(Queue) - Behind - Ahead)
          /\ \A i \in 1 .. m : Encoded[i] = movie[i]
          /\ \A i \in 1 .. Len(Queue) - Behind - Ahead : Encoded[m + i] = Queue[Ahead + i]
      BY <1>11 DEF EncodedShape
    <2>6. /\ Encoded' \in Seq(Emitted)
          /\ Len(Encoded') = (m + 1) + (Len(Queue') - Behind' - Ahead')
          /\ \A i \in 1 .. m + 1 : Encoded'[i] = movie'[i]
          /\ \A i \in 1 .. Len(Queue') - Behind' - Ahead' :
                 Encoded'[(m + 1) + i] = Queue'[Ahead' + i]
      BY <1>11, <2>4 DEF EncodedShape
    <2>7. k \in Nat /\ k >= 1
      <3>1. Ahead + Behind <= Len(Queue)
        BY <1>11 DEF EncodedShape
      <3>2. Behind = 1 => EosIn \/ EosOut
        BY <1>a
      <3>3. EosIn => l >= 1
        BY <1>2 DEF EosIn, l
      <3>4. EosOut /\ ~EosIn => n >= 2
        <4> SUFFICES ASSUME NEW i \in 1 .. n, encoderOut[i] = Eos PROVE n >= 2
          BY DEF EosOut, n
        <4>1. i # 1
          BY <1>3, <1>18
        <4> QED
          BY <1>3, <4>1
      <3> QED
        BY <1>3, <1>a, <3>2, <3>3, <3>4
    <2>8. /\ Len(Queue) - Behind - Ahead = k /\ Len(Queue') - Behind' - Ahead' = k - 1
      BY <1>3, <1>12, <1>a, <2>2, <2>3
    <2>9. /\ Len(Encoded) = m + k /\ Len(Encoded') = (m + 1) + (k - 1)
          /\ \A i \in 1 .. k : Encoded[m + i] = Queue[0 + i]
          /\ \A i \in 1 .. k - 1 : Encoded'[(m + 1) + i] = Queue'[0 + i]
      BY <2>2, <2>5, <2>6, <2>8
    <2>10. \A i \in 1 .. k - 1 : i \in 1 .. (n - 1) + l
      BY <1>3, <1>a
    <2>11. Queue[1] = b
      <3>1. 1 \in 1 .. n
        BY <1>3
      <3> QED
        BY <1>3, <1>12, <3>1
    <2> HIDE DEF k, m
    <2>12. ASSUME NEW i \in 1 .. m + k PROVE Encoded'[i] = Encoded[i]
      <3>1. CASE i \in 1 .. m
        <4>1. i \in 1 .. m + 1
          BY <2>4, <3>1
        <4> QED
          BY <2>4, <2>5, <2>6, <3>1, <4>1
      <3>2. CASE i = m + 1
        <4>1. 1 \in 1 .. k /\ 0 + 1 = 1 /\ m + 1 \in 1 .. m + 1
          BY <2>4, <2>7
        <4>2. Encoded[m + 1] = Queue[1]
          BY <2>9, <4>1
        <4> QED
          BY <2>4, <2>6, <2>11, <3>2, <4>1, <4>2
      <3>3. CASE i \notin 1 .. m /\ i # m + 1
        <4> DEFINE j == i - (m + 1)
        <4>1. /\ j \in 1 .. k - 1 /\ (m + 1) + j = i /\ 0 + j = j
              /\ j + 1 \in 1 .. k /\ m + (j + 1) = i /\ 0 + (j + 1) = j + 1
          BY <2>4, <2>7, <3>3
        <4> HIDE DEF j
        <4>2. Encoded'[i] = Queue'[j] /\ Encoded[i] = Queue[j + 1]
          BY <2>9, <4>1
        <4>3. Queue'[j] = Queue[j + 1]
          BY <1>c, <2>10, <4>1
        <4> QED
          BY <4>2, <4>3
      <3> QED
        BY <3>1, <3>2, <3>3
    <2>13. Len(Encoded') = Len(Encoded) /\ Len(Encoded) = m + k
      BY <2>4, <2>7, <2>9
    <2> QED
      BY <1>10, <2>5, <2>6, <2>12, <2>13, SameElements
  <1> QED
    BY <1>16, <1>17, <1>18

-----------------------------------------------------------------------------
(* What a step does to the copy, as FrameCopy tells it.                    *)
Still == Encoded' = Encoded /\ Cardinality(missed') = Cardinality(missed)

Skipped ==
    /\ Encoded' = Encoded /\ Cardinality(missed') = Cardinality(missed) + 1
    /\ Turns < Frames /\ pc \notin Final /\ pc' \notin Final

Copied ==
    /\ Cardinality(missed') = Cardinality(missed)
    /\ Len(Encoded') = Len(Encoded) + 1 /\ Encoded'[Len(Encoded) + 1].time = Turns + 1
    /\ \A i \in 1 .. Len(Encoded) : Encoded'[i] = Encoded[i]
    /\ Turns < Frames /\ pc \notin Final /\ pc' \notin Final

LEMMA MissedFinite ==
    ASSUME DecoderInv
    PROVE  IsFiniteSet(missed) /\ Cardinality(missed) \in Nat
  <1>1. missed \in SUBSET (1 .. Frames) /\ IsFiniteSet(1 .. Frames)
    BY Constants, FS_Interval DEF DecoderInv, Types
  <1>2. IsFiniteSet(missed)
    BY <1>1, FS_Subset
  <1> QED
    BY <1>2, FS_CardinalityType

LEMMA OneMoreMissed ==
    ASSUME DecoderInv, NEW f, f \notin missed, missed' = missed \cup {f}
    PROVE  Cardinality(missed) \in Nat /\ Cardinality(missed') = Cardinality(missed) + 1
  BY MissedFinite, FS_AddElement

LEMMA InitCopy == Init => CopyInv
  <1> SUFFICES ASSUME Init PROVE CopyInv
    OBVIOUS
  <1>1. DecoderInv
    BY InitDecoder
  <1>2. encoderOut = <<>> /\ encoderIn = <<>> /\ movie = <<>> /\ missed = {} /\ pc = "feed"
    BY DEF Init
  <1>3. Ahead = 0
    <2>1. {i \in DOMAIN encoderOut : encoderOut[i] \in {Format, Config}} = {}
      BY <1>2
    <2> QED
      BY <2>1, FS_EmptySet DEF Ahead
  <1>4. QueueOrder
    BY <1>2, <1>3 DEF QueueOrder
  <1>5. EncodedShape
    BY <1>1, <1>4, ShapeHere
  <1>6. ~EosIn /\ ~EosOut
    BY <1>2 DEF EosIn, EosOut
  <1>7. Len(Encoded) = 0
    BY <1>2, <1>3, <1>5, <1>6 DEF EncodedShape
  <1>8. Cardinality(missed) = 0
    BY <1>2, FS_EmptySet
  <1>9. Turns = 0
    BY Constants DEF Init, Turns, FramesTaken, Taken, Fed
  <1> QED
    BY <1>4, <1>7, <1>8, <1>9 DEF CopyInv, TurnsCounted

(* The steps that neither take a frame nor end its turn.                   *)
LEMMA QuietCopy ==
    ASSUME DecoderInv, DecoderInv', EncoderInv, CopyInv,
           \/ Feed \/ DrainEncoder \/ EncoderTryAgainLater \/ DecoderTryAgainLater
           \/ AwaitNewImage \/ SignalEndOfStream
           \/ PumpFails \/ DecoderStep \/ EncoderStep \/ OnFrameAvailable \/ UNCHANGED vars
    PROVE  CopyInv' /\ Still
  <1>1. QueueOrder' /\ Encoded' = Encoded
    <2>1. CASE DrainEncoder
      BY <2>1, DrainQueue DEF CopyInv
    <2>2. CASE SignalEndOfStream
      BY <2>2, SignalQueue DEF CopyInv
    <2>3. CASE EncoderStep
      BY <2>3, AnnounceQueue, EncodeQueue DEF CopyInv, EncoderStep
    <2>4. CASE \/ Feed \/ EncoderTryAgainLater \/ DecoderTryAgainLater \/ AwaitNewImage
               \/ PumpFails \/ DecoderStep \/ OnFrameAvailable \/ UNCHANGED vars
      <3>1. UNCHANGED <<movie, encoderOut, encoderIn, announcements>>
        BY <2>4 DEF Feed, EncoderTryAgainLater, DecoderTryAgainLater, AwaitNewImage,
             PumpFails, DecoderStep, OnFrameAvailable, vars, pumpVars, encoderVars
      <3> QED
        BY <3>1, OthersQueue DEF CopyInv
    <2> QED
      BY <2>1, <2>2, <2>3, <2>4
  <1>2. missed' = missed
    BY DEF Feed, DrainEncoder, EncoderTryAgainLater, DecoderTryAgainLater, AwaitNewImage,
           SignalEndOfStream, PumpFails, DecoderStep, EncoderStep, EncoderAnnounces, EncoderEncodes,
           OnFrameAvailable, vars, pumpVars
  <1>3. FramesTaken' = FramesTaken
    <2>1. \/ Feed \/ DecoderStep
          \/ UNCHANGED <<extractor, inputDone, decoderVars>>
      BY DEF DrainEncoder, EncoderTryAgainLater, DecoderTryAgainLater, AwaitNewImage,
             SignalEndOfStream, PumpFails, EncoderStep, EncoderAnnounces, EncoderEncodes,
             OnFrameAvailable, vars, pumpVars
    <2>2. Taken' = Taken
      BY <2>1, TakenSame
    <2> QED
      BY <2>2 DEF FramesTaken
  <1>4. pc' \notin {"failed", "crashed"} =>
            /\ pc \notin {"failed", "crashed"}
            /\ pc' \in {"await", "draw"} <=> pc \in {"await", "draw"}
    BY DEF Feed, DrainEncoder, EncoderTryAgainLater, DecoderTryAgainLater, AwaitNewImage,
           SignalEndOfStream, PumpFails, DecoderStep, EncoderStep, EncoderAnnounces, EncoderEncodes,
           OnFrameAvailable, vars, pumpVars, EndOfInnerLoop, Final
  <1>5. pc' \notin {"failed", "crashed"} => Turns' = Turns
    BY <1>3, <1>4 DEF Turns
  <1>6. TurnsCounted'
    BY <1>1, <1>2, <1>4, <1>5 DEF CopyInv, TurnsCounted
  <1> QED
    BY <1>1, <1>2, <1>6 DEF CopyInv, Still

(* The frame that was taken has had its turn, without being encoded.       *)
LEMMA SkipCopy ==
    ASSUME DecoderInv, QueueOrder, QueueOrder', TurnsCounted, Encoded' = Encoded,
           NEW f, f \notin missed, missed' = missed \cup {f},
           Turns \in Nat, Turns < Frames, Turns' = Turns + 1,
           pc \notin Final, pc' \notin Final
    PROVE  CopyInv' /\ Skipped
  <1>1. Cardinality(missed) \in Nat /\ Cardinality(missed') = Cardinality(missed) + 1
    BY OneMoreMissed
  <1>2. Len(Encoded) + Cardinality(missed) = Turns
    BY DEF TurnsCounted, Final
  <1>3. Len(Encoded) \in Nat
    <2>1. Encoded \in Seq(Emitted)
      BY ShapeHere DEF EncodedShape
    <2> QED
      BY <2>1
  <1>4. TurnsCounted'
    BY <1>1, <1>2, <1>3 DEF TurnsCounted
  <1> QED
    BY <1>1, <1>4 DEF CopyInv, Skipped

LEMMA TurnsType ==
    ASSUME DecoderInv, pc \notin Final
    PROVE  /\ Turns \in Nat
           /\ pc \in {"await", "draw"} => Turns = Taken - 1 /\ Turns < Frames
           /\ pc \notin {"await", "draw"} => Turns = FramesTaken
  <1>1. /\ Taken \in 0 .. Frames + 1 /\ FramesTaken \in 0 .. Frames
        /\ Taken \in 1 .. Frames => FramesTaken = Taken
    BY TakenTypes
  <1>2. pc \in {"await", "draw"} => Taken \in 1 .. Frames
    BY AfterRendered
  <1> QED
    BY <1>1, <1>2, Constants DEF Turns

LEMMA TakeCopy ==
    ASSUME DecoderInv, DecoderInv', SurfaceInv, CopyInv, TakeDecodedFrame
    PROVE  CopyInv' /\ (Still \/ Skipped)
  <1>1. pc = "decode" /\ pc' \in {"await", "signal", "drain"} /\ QueueOrder' /\ Encoded' = Encoded
    <2>1. UNCHANGED <<movie, encoderOut, encoderIn, announcements>>
      BY DEF TakeDecodedFrame, encoderVars
    <2>2. pc = "decode" /\ pc' \in {"await", "signal", "drain"}
      BY DEF TakeDecodedFrame, AfterFrame
    <2> QED
      BY <2>1, <2>2, OthersQueue DEF CopyInv
  <1>2. pc \notin Final /\ pc' \notin Final
    BY <1>1 DEF Final
  <1>3. Turns = FramesTaken /\ Turns \in Nat /\ FramesTaken \in 0 .. Frames /\ Taken \in 0 .. Frames + 1
    BY <1>1, <1>2, TurnsType, TakenTypes
  <1>4. Taken' = Taken + 1 /\ Taken' \in 1 .. Frames + 1
    BY TakenIsNext
  <1>5. FramesTaken' = IF Taken' <= Frames THEN Taken + 1 ELSE Frames
    BY <1>4 DEF FramesTaken
  <1>6. FramesTaken = Taken
    BY <1>3, <1>4, Constants DEF FramesTaken
  <1>7. CASE DoRender(info') /\ missed' = missed /\ pc' = "await"
    <2>1. Taken' \in 1 .. Frames
      BY <1>7, TakenIsNext
    <2>2. Turns' = Turns
      <3>1. Turns' = FramesTaken' - 1
        BY <1>7 DEF Turns
      <3> QED
        BY <1>3, <1>4, <1>5, <1>6, <2>1, <3>1
    <2>3. TurnsCounted'
      BY <1>1, <1>2, <1>7, <2>2 DEF CopyInv, TurnsCounted, Final
    <2> QED
      BY <1>1, <1>7, <2>3 DEF CopyInv, Still
  <1>8. CASE ~DoRender(info') /\ missed' = missed \cup ({info'.frame} \ {EndOfStream})
             /\ pc' = AfterFrame(info')
    <2>1. pc' \notin {"await", "draw"}
      BY <1>8 DEF AfterFrame
    <2>2. Turns' = FramesTaken'
      BY <2>1 DEF Turns
    <2>3. CASE Taken' = Frames + 1
      <3>1. missed' = missed
        BY <1>8, <2>3, TakenIsNext
      <3>2. Turns' = Turns
        BY <1>3, <1>4, <1>5, <1>6, <2>2, <2>3, Constants
      <3>3. TurnsCounted'
        BY <1>1, <1>2, <3>1, <3>2 DEF CopyInv, TurnsCounted, Final
      <3> QED
        BY <1>1, <3>1, <3>3 DEF CopyInv, Still
    <2>4. CASE Taken' \in 1 .. Frames
      <3>1. info'.frame = Taken' /\ Taken' # EndOfStream
        BY <2>4, TakenIsNext DEF EndOfStream
      <3>2. missed' = missed \cup {Taken'}
        BY <1>8, <3>1
      <3>3. Taken' \notin missed
        <4>1. missed \subseteq 1 .. FramesTaken
          BY DEF SurfaceInv
        <4> QED
          BY <1>3, <1>4, <1>6, <4>1
      <3>4. Turns' = Turns + 1 /\ Turns < Frames
        BY <1>3, <1>4, <1>5, <1>6, <2>2, <2>4, Constants
      <3> QED
        BY <1>1, <1>2, <1>3, <3>2, <3>3, <3>4, SkipCopy DEF CopyInv
    <2> QED
      BY <1>4, <2>3, <2>4, Constants
  <1> QED
    BY <1>7, <1>8 DEF TakeDecodedFrame

(* A frame that is given up after it was rendered.                         *)
LEMMA GivenUpCopy ==
    ASSUME DecoderInv, SurfaceInv, CopyInv, GivenUp
    PROVE  CopyInv' /\ Skipped
  <1>1. /\ pc \in {"await", "draw"} /\ pc' = "drain" /\ info.frame = Taken /\ Taken \in 1 .. Frames
        /\ missed' = missed \cup {Taken}
    BY GivenUpIs
  <1>2. QueueOrder' /\ Encoded' = Encoded
    <2>1. UNCHANGED <<movie, encoderOut, encoderIn, announcements>>
      BY GivenUpIs
    <2> QED
      BY <2>1, OthersQueue DEF CopyInv
  <1>3. Taken \notin missed
    BY <1>1 DEF SurfaceInv
  <1>4. FramesTaken' = FramesTaken
    <2>1. Taken' = Taken
      BY GivenUpIs, TakenSame DEF decoderVars
    <2> QED
      BY <2>1 DEF FramesTaken
  <1>5. Turns \in Nat /\ Turns < Frames /\ Turns = Taken - 1
    BY <1>1, TurnsType DEF Final
  <1>6. Turns' = Turns + 1
    <2>1. Turns' = FramesTaken
      BY <1>1, <1>4 DEF Turns
    <2>2. FramesTaken = Taken /\ Taken \in Int
      BY <1>1, TakenTypes, Constants
    <2> QED
      BY <1>5, <2>1, <2>2
  <1>7. pc \notin Final /\ pc' \notin Final
    BY <1>1 DEF Final
  <1> QED
    BY <1>1, <1>2, <1>3, <1>5, <1>6, <1>7, SkipCopy DEF CopyInv

LEMMA DrawCopy ==
    ASSUME DecoderInv, DecoderInv', EncoderInv, SurfaceInv, CopyInv, SwapBuffers \/ QueueFrame
    PROVE  CopyInv' /\ (Skipped \/ Copied)
  <1>1. pc = "draw" /\ pc' = "drain" /\ info.frame = Taken /\ Taken \in 1 .. Frames
    BY AfterRendered DEF SwapBuffers, QueueFrame
  <1>2. /\ QueueOrder'
        /\ \/ Encoded' = Encoded /\ missed' = missed \cup {info.frame}
           \/ /\ missed' = missed
              /\ Len(Encoded') = Len(Encoded) + 1
              /\ Encoded'[Len(Encoded) + 1].time = info.frame
              /\ \A i \in 1 .. Len(Encoded) : Encoded'[i] = Encoded[i]
    BY DrawQueue DEF CopyInv
  <1>3. Taken \notin missed
    BY <1>1 DEF SurfaceInv
  <1>4. FramesTaken' = FramesTaken
    <2>1. UNCHANGED <<extractor, inputDone, decoderVars>>
      BY DEF SwapBuffers, QueueFrame
    <2>2. Taken' = Taken
      BY <2>1, TakenSame
    <2> QED
      BY <2>2 DEF FramesTaken
  <1>5. Turns \in Nat /\ Turns < Frames /\ Turns = Taken - 1
    BY <1>1, TurnsType DEF Final
  <1>6. Turns' = Turns + 1 /\ Turns + 1 = Taken
    <2>1. Turns' = FramesTaken
      BY <1>1, <1>4 DEF Turns
    <2>2. FramesTaken = Taken /\ Taken \in Int
      BY <1>1, TakenTypes, Constants
    <2> QED
      BY <1>5, <2>1, <2>2
  <1>7. pc \notin Final /\ pc' \notin Final
    BY <1>1 DEF Final
  <1>8. CASE Encoded' = Encoded /\ missed' = missed \cup {info.frame}
    BY <1>1, <1>2, <1>3, <1>5, <1>6, <1>7, <1>8, SkipCopy DEF CopyInv
  <1>9. CASE /\ missed' = missed
             /\ Len(Encoded') = Len(Encoded) + 1
             /\ Encoded'[Len(Encoded) + 1].time = info.frame
             /\ \A i \in 1 .. Len(Encoded) : Encoded'[i] = Encoded[i]
    <2>1. Len(Encoded) + Cardinality(missed) = Turns
      BY <1>7 DEF CopyInv, TurnsCounted, Final
    <2>2. Cardinality(missed) \in Nat
      BY MissedFinite
    <2>3. Len(Encoded) \in Nat
      <3>1. Encoded \in Seq(Emitted)
        BY ShapeHere DEF EncodedShape, CopyInv
      <3> QED
        BY <3>1
    <2>4. TurnsCounted'
      BY <1>6, <1>9, <2>1, <2>2, <2>3 DEF TurnsCounted
    <2> QED
      BY <1>1, <1>2, <1>5, <1>6, <1>7, <1>9, <2>4 DEF CopyInv, Copied
  <1> QED
    BY <1>2, <1>8, <1>9

LEMMA CopyStep ==
    ASSUME DecoderInv, DecoderInv', EncoderInv, SurfaceInv, CopyInv, [Next]_vars
    PROVE  CopyInv' /\ (Still \/ Skipped \/ Copied)
  <1>1. CASE TakeDecodedFrame
    BY <1>1, TakeCopy
  <1>2. CASE GivenUp
    BY <1>2, GivenUpCopy
  <1>3. CASE SwapBuffers \/ QueueFrame
    BY <1>3, DrawCopy
  <1>4. CASE \/ Feed \/ DrainEncoder \/ EncoderTryAgainLater \/ DecoderTryAgainLater
             \/ AwaitNewImage \/ SignalEndOfStream
             \/ PumpFails \/ DecoderStep \/ EncoderStep \/ OnFrameAvailable \/ UNCHANGED vars
    BY <1>4, QuietCopy
  <1> QED
    BY <1>1, <1>2, <1>3, <1>4 DEF Next, PumpStep, Failure, GivenUp, Stopped

(***************************************************************************)
(* The samples encoded and the frames given up are together the frames     *)
(* that have had their turn.                                               *)
(***************************************************************************)
THEOREM CopyCorrect == Spec => []CopyInv
  <1>1. DecoderInv /\ DecoderInv' /\ EncoderInv /\ SurfaceInv /\ CopyInv /\ [Next]_vars => CopyInv'
    BY CopyStep
  <1> QED
    BY <1>1, InitCopy, DecoderCorrect, EncoderCorrect, SurfaceCorrect, PTL DEF Spec

(* When the loop ends by itself, all of them have.                         *)
AllTurned == pc = "done" => Len(Encoded) + Cardinality(missed) = Frames

LEMMA TurnedAtEnd == DecoderInv /\ EncoderInv /\ CopyInv => AllTurned
  <1> SUFFICES ASSUME DecoderInv, EncoderInv, CopyInv, pc = "done"
               PROVE  Len(Encoded) + Cardinality(missed) = Frames
    BY DEF AllTurned
  <1>1. Taken = Frames + 1
    BY DEF EncoderInv, EosLast
  <1>2. Turns = Frames
    BY <1>1, Constants DEF Turns, FramesTaken
  <1> QED
    BY <1>2 DEF CopyInv, TurnsCounted

LEMMA AppendTime ==
    ASSUME NEW S, NEW s \in Seq(S), NEW x \in S
    PROVE  Append(s, x) = [i \in 1 .. Len(s) + 1 |-> IF i <= Len(s) THEN s[i] ELSE x]
  <1> DEFINE n == Len(s)
             r == [i \in 1 .. n + 1 |-> IF i <= n THEN s[i] ELSE x]
  <1>1. n \in Nat /\ \A i \in 1 .. n : s[i] \in S
    OBVIOUS
  <1>2. /\ Append(s, x) \in Seq(S) /\ Len(Append(s, x)) = n + 1 /\ Append(s, x)[n + 1] = x
        /\ \A i \in 1 .. n : Append(s, x)[i] = s[i]
    OBVIOUS
  <1> HIDE DEF n
  <1>3. ASSUME NEW i \in 1 .. n + 1 PROVE r[i] \in S /\ r[i] = Append(s, x)[i]
    <2>1. CASE i <= n
      <3>1. i \in 1 .. n
        BY <1>1, <2>1
      <3> QED
        BY <1>1, <1>2, <2>1, <3>1
    <2>2. CASE ~(i <= n)
      <3>1. i = n + 1
        BY <1>1, <2>2
      <3> QED
        BY <1>2, <2>2, <3>1
    <2> QED
      BY <2>1, <2>2
  <1>4. r \in [1 .. n + 1 -> S]
    BY <1>3
  <1> HIDE DEF r
  <1>5. r \in Seq(S) /\ Len(r) = n + 1
    BY <1>1, <1>4
  <1>6. Append(s, x) = r
    BY <1>2, <1>3, <1>5, SameElements
  <1> QED
    BY <1>6 DEF r, n

(* The two parts of the mapping that are not variables of VideoPump.       *)
NextTurn == Len(Encoded) + Cardinality(missed) + 1
Times == [i \in 1 .. Len(Encoded) |-> Encoded[i].time]

LEMMA CopiedTimes ==
    ASSUME DecoderInv, DecoderInv', QueueOrder, QueueOrder', Copied, NextTurn = Turns + 1
    PROVE  Times' = Append(Times, NextTurn)
  <1>1. Encoded \in Seq(Emitted) /\ Encoded' \in Seq(Emitted)
    BY ShapeHere, ShapeNext DEF EncodedShape
  <1> DEFINE n == Len(Encoded)
  <1>2. n \in Nat
    BY <1>1
  <1>3. /\ Len(Encoded') = n + 1 /\ Encoded'[n + 1].time = NextTurn
        /\ \A i \in 1 .. n : Encoded'[i] = Encoded[i]
    BY DEF Copied
  <1>4. Times = [i \in 1 .. n |-> Encoded[i].time] /\ Times' = [i \in 1 .. n + 1 |-> Encoded'[i].time]
    BY <1>3 DEF Times
  <1> HIDE DEF n
  <1> DEFINE S == {Encoded[i].time : i \in 1 .. n} \cup {NextTurn}
  <1>5. Times \in Seq(S) /\ Len(Times) = n /\ NextTurn \in S
    <2>1. Times \in [1 .. n -> S]
      BY <1>4
    <2> HIDE DEF S
    <2>2. Times \in Seq(S) /\ Len(Times) = n
      BY <1>2, <2>1
    <2> QED
      BY <2>2 DEF S
  <1>6. Append(Times, NextTurn) = [i \in 1 .. n + 1 |-> IF i <= n THEN Times[i] ELSE NextTurn]
    <2> HIDE DEF S
    <2> QED
      BY <1>5, AppendTime
  <1>7. ASSUME NEW i \in 1 .. n + 1
        PROVE  Encoded'[i].time = IF i <= n THEN Times[i] ELSE NextTurn
    <2>1. CASE i <= n
      <3>1. i \in 1 .. n
        BY <1>2, <2>1
      <3> QED
        BY <1>3, <1>4, <2>1, <3>1
    <2>2. CASE ~(i <= n)
      <3>1. i = n + 1
        BY <1>2, <2>2
      <3> QED
        BY <1>3, <2>2, <3>1
    <2> QED
      BY <2>1, <2>2
  <1> QED
    BY <1>4, <1>6, <1>7

LEMMA CopyingStep ==
    ASSUME DecoderInv, DecoderInv', EncoderInv, SurfaceInv, CopyInv, CopyInv', AllTurned',
           [Next]_vars
    PROVE  [Copying!Next]_(Copying!copyVars)
  <1> DEFINE ended == pc = "done"
  <1>1. CopyInv' /\ (Still \/ Skipped \/ Copied)
    BY CopyStep
  <1>2. Cardinality(missed) \in Nat /\ Len(Encoded) \in Nat
    <2>1. Encoded \in Seq(Emitted)
      BY ShapeHere DEF EncodedShape, CopyInv
    <2> QED
      BY <2>1, MissedFinite
  <1>3. pc \notin Final => NextTurn = Turns + 1
    BY <1>2 DEF CopyInv, TurnsCounted, NextTurn, Final
  <1>4. CASE Still
    <2>1. NextTurn' = NextTurn /\ Times' = Times
      BY <1>4 DEF Still, NextTurn, Times
    <2>2. pc = "done" => pc' = "done"
      BY GivenUpIs
      DEF Next, PumpStep, Feed, DrainEncoder, EncoderTryAgainLater, DecoderTryAgainLater,
             TakeDecodedFrame, AwaitNewImage, GivenUp, Failure, SwapBuffers, QueueFrame,
             SignalEndOfStream, PumpFails, DecoderStep, EncoderStep, EncoderAnnounces,
             EncoderEncodes, OnFrameAvailable, Stopped, Final, vars, pumpVars
    <2>3. CASE ended' = ended
      BY <2>1, <2>3 DEF Copying!copyVars, NextTurn, Times
    <2>4. CASE ended' # ended
      <3>1. pc # "done" /\ pc' = "done"
        BY <2>2, <2>4
      <3>2. NextTurn = Frames + 1
        BY <1>4, <3>1 DEF AllTurned, Still, NextTurn
      <3>3. Copying!End
        BY <2>1, <3>1, <3>2 DEF Copying!End, NextTurn, Times
      <3> QED
        BY <3>3 DEF Copying!Next
    <2> QED
      BY <2>3, <2>4
  <1>5. CASE Skipped
    <2>1. NextTurn' = NextTurn + 1 /\ Times' = Times /\ pc # "done" /\ pc' # "done"
      BY <1>2, <1>5 DEF Skipped, NextTurn, Times, Final
    <2>2. NextTurn <= Frames
      <3>1. Turns \in Nat
        BY <1>5, TurnsType DEF Skipped
      <3> QED
        BY <1>3, <1>5, <3>1, Constants DEF Skipped
    <2>3. Copying!Skip
      BY <2>1, <2>2 DEF Copying!Skip, Copying!Turn, NextTurn, Times
    <2> QED
      BY <2>3 DEF Copying!Next
  <1>6. CASE Copied
    <2>1. NextTurn' = NextTurn + 1 /\ pc # "done" /\ pc' # "done"
      BY <1>2, <1>6 DEF Copied, NextTurn, Final
    <2>2. Times' = Append(Times, NextTurn)
      BY <1>3, <1>6, CopiedTimes DEF Copied, CopyInv
    <2>3. NextTurn <= Frames
      <3>1. Turns \in Nat
        BY <1>6, TurnsType DEF Copied
      <3> QED
        BY <1>3, <1>6, <3>1, Constants DEF Copied
    <2>4. Copying!Copy
      BY <2>1, <2>2, <2>3 DEF Copying!Copy, Copying!Turn, NextTurn, Times
    <2> QED
      BY <2>4 DEF Copying!Next
  <1> QED
    BY <1>1, <1>4, <1>5, <1>6

LEMMA CopyingInit == Init => Copying!Init
  <1> SUFFICES ASSUME Init PROVE Copying!Init
    OBVIOUS
  <1>1. DecoderInv /\ CopyInv
    BY InitDecoder, InitCopy
  <1>2. pc = "feed" /\ missed = {} /\ movie = <<>>
    BY DEF Init
  <1>3. Cardinality(missed) = 0
    BY <1>2, FS_EmptySet
  <1>4. Len(Encoded) = 0
    <2>1. Turns = 0
      BY Constants DEF Init, Turns, FramesTaken, Taken, Fed
    <2>2. Len(Encoded) \in Nat
      <3>1. Encoded \in Seq(Emitted)
        BY <1>1, ShapeHere DEF EncodedShape, CopyInv
      <3> QED
        BY <3>1
    <2> QED
      BY <1>1, <1>2, <1>3, <2>1, <2>2 DEF CopyInv, TurnsCounted
  <1>5. Times = <<>>
    BY <1>4 DEF Times
  <1> QED
    BY <1>2, <1>3, <1>4, <1>5 DEF Copying!Init, Times

(***************************************************************************)
(* The loop of convertVideo copies the frames of the recording: each one   *)
(* is encoded once, in its turn and with its own time, or given up in its  *)
(* turn, and the loop ends by itself only when all have had theirs.        *)
(***************************************************************************)
THEOREM ImplementsFrameCopy == Spec => CopiesFrames
  <1>1. /\ DecoderInv /\ DecoderInv' /\ EncoderInv /\ EncoderInv' /\ SurfaceInv
        /\ CopyInv /\ CopyInv' /\ [Next]_vars
        => [Copying!Next]_(Copying!copyVars)
    <2>1. DecoderInv' /\ EncoderInv' /\ CopyInv' => AllTurned'
      BY TurnedAtEnd, PTL
    <2> QED
      BY <2>1, CopyingStep
  <1> QED
    BY <1>1, CopyingInit, DecoderCorrect, EncoderCorrect, SurfaceCorrect, CopyCorrect, PTL
    DEF Spec, CopiesFrames, Copying!Spec

=============================================================================
