----------------------------- MODULE FrameCopy -----------------------------
(***************************************************************************)
(* What transcoding a video track promises: the frames of the recording    *)
(* are looked at once each, in order; a frame is copied or skipped, never  *)
(* copied twice or out of turn, and the copy ends when every frame has had *)
(* its turn.  VideoPump is the program that does it with two codecs, a     *)
(* surface and four queues.                                                *)
(***************************************************************************)
EXTENDS Naturals, Sequences

CONSTANT Frames     \* the frames of the recording are 1 .. Frames

VARIABLES
    next,       \* the frame whose turn it is
    copied,     \* the frames copied so far
    ended       \* the end of the stream has come out of the encoder

copyVars == <<next, copied, ended>>

Init ==
    /\ next = 1
    /\ copied = <<>>
    /\ ended = FALSE

Turn ==
    /\ ~ended
    /\ next <= Frames
    /\ next' = next + 1
    /\ UNCHANGED ended

Copy == Turn /\ copied' = Append(copied, next)

Skip == Turn /\ UNCHANGED copied

End ==
    /\ ~ended
    /\ next = Frames + 1
    /\ ended' = TRUE
    /\ UNCHANGED <<next, copied>>

Next == Copy \/ Skip \/ End

Spec == Init /\ [][Next]_copyVars
=============================================================================
