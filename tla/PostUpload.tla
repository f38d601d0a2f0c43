----------------------------- MODULE PostUpload -----------------------------
(***************************************************************************)
(* RecipientsActivity and the retained UploadFragment: sharing one         *)
(* recording.                                                              *)
(*                                                                         *)
(* The activity may be recreated (a change of configuration); every        *)
(* instance is a screen of its own, with its own dialog and button, while  *)
(* the fragment and the uploads it started live on.  mCallbacks is the     *)
(* screen, or null while there is none.  An upload stores the video, then  *)
(* the thumbnail, then sends two writes to the database, the geo-point and *)
(* the post.  Everything but doInBackground and the server runs on the     *)
(* main looper.                                                            *)
(*                                                                         *)
(* AppStatus, permissions and the caption decide only whether and what     *)
(* the user shares.  resizeBitmap has no caller.                           *)
(***************************************************************************)
EXTENDS Naturals, Sequences, FiniteSets

CONSTANTS
    MaxScreens,     \* bound: instances of RecipientsActivity
    MaxUploads      \* bound: UploadPostTasks

ASSUME UploadAssumption == {MaxScreens, MaxUploads} \subseteq Nat \ {0}

Screens == 1 .. MaxScreens
Uploads == 1 .. MaxUploads

VARIABLES
    screen,         \* the instance of RecipientsActivity
    activity,       \* what becomes of it
    media,          \* fileBytes and mThumbnail of the screen are not null
    dialog,         \* progressDialog is showing
    shareAround,    \* the button is enabled
    stage,          \* how far each UploadPostTask is
    owner,          \* the screen that started it
    holds,          \* it was given fileBytes and mThumbnail
    wire,           \* writes on their way to the database
    points, posts,  \* uploads with a geo-point and with a post
    refused,        \* uploads whose geo-point the database rejected
    told,           \* what the user was told of each upload
    crashed

screenVars == <<screen, media>>
viewVars == <<activity, dialog, shareAround>>
taskVars == <<owner, holds>>
serverVars == <<points, posts, refused>>
vars == <<screenVars, viewVars, stage, taskVars, wire, serverVars, told, crashed>>

Running == {"queued", "video", "thumb", "writing", "written", "rejected"}
Writes == [kind : {"point", "post"}, upload : Uploads]

TypeOK ==
    /\ screen \in Screens
    /\ activity \in {"shown", "finishing", "recreating", "gone"}
    /\ {media, dialog, shareAround, crashed} \subseteq BOOLEAN
    /\ stage \in [Uploads -> Running \cup {"none", "silent", "ended"}]
    /\ owner \in [Uploads -> Screens \cup {0}]
    /\ holds \in [Uploads -> BOOLEAN]
    /\ wire \in Seq(Writes)
    /\ {points, posts, refused} \subseteq SUBSET Uploads
    /\ told \in [Uploads -> {"nothing", "shared", "error"}]

Init ==
    /\ screen = 1
    /\ activity = "shown"
    /\ media \in BOOLEAN
    /\ dialog = FALSE /\ shareAround = TRUE
    /\ stage = [u \in Uploads |-> "none"]
    /\ owner = [u \in Uploads |-> 0]
    /\ holds = [u \in Uploads |-> FALSE]
    /\ wire = <<>>
    /\ points = {} /\ posts = {} /\ refused = {}
    /\ told = [u \in Uploads |-> "nothing"]
    /\ crashed = FALSE

-----------------------------------------------------------------------------
(***************************************************************************)
(* The user.  The dialog is modal and not cancelable: while it shows,      *)
(* neither the buttons nor Back reach the activity.  Between finish and    *)
(* the destruction of the activity they do.                                *)
(***************************************************************************)
TouchableAlways == activity \in {"shown", "finishing"} /\ ~crashed
Touchable == activity \in {"shown", "finishing"} /\ ~crashed /\ ~dialog

ShowProgress == dialog' = TRUE /\ shareAround' = FALSE /\ UNCHANGED activity

(* send(): without a location nothing is uploaded.                         *)
SendWithoutLocation ==
    /\ Touchable /\ shareAround
    /\ ShowProgress
    /\ UNCHANGED <<screenVars, stage, taskVars, wire, serverVars, told, crashed>>

Send(u) ==
    /\ Touchable /\ shareAround
    /\ stage[u] = "none" /\ \A v \in 1 .. u - 1 : stage[v] # "none"
    /\ stage' = [stage EXCEPT ![u] = "queued"]
    /\ owner' = [owner EXCEPT ![u] = screen]
    /\ holds' = [holds EXCEPT ![u] = media]
    /\ ShowProgress
    /\ UNCHANGED <<screenVars, wire, serverVars, told, crashed>>

(* cancelPost, or Back.                                                    *)
Leave ==
    /\ Touchable /\ activity = "shown"
    /\ activity' = "finishing"
    /\ UNCHANGED <<screenVars, dialog, shareAround, stage, taskVars, wire, serverVars, told, crashed>>

-----------------------------------------------------------------------------
(***************************************************************************)
(* The activity's life.  onDetach clears mCallbacks, onAttach sets it; in  *)
(* between, when the activity is recreated, only the background runs.      *)
(***************************************************************************)
OnDetach ==
    /\ ~crashed
    /\ \/ activity = "finishing" /\ activity' = "gone"
       \/ activity = "shown" /\ screen < MaxScreens /\ activity' = "recreating"
    /\ dialog' = FALSE
    /\ UNCHANGED <<screenVars, shareAround, stage, taskVars, wire, serverVars, told, crashed>>

OnAttach ==
    /\ ~crashed
    /\ activity = "recreating"
    /\ activity' = "shown"
    /\ screen' = screen + 1
    /\ media' \in BOOLEAN
    /\ shareAround' = TRUE
    /\ UNCHANGED <<dialog, stage, taskVars, wire, serverVars, told, crashed>>

Detached == activity \in {"recreating", "gone"}

-----------------------------------------------------------------------------
GoTo(u, s) == stage' = [stage EXCEPT ![u] = s]

(***************************************************************************)
(* doInBackground, one task after the other.  It has weak references only: *)
(* what a destroyed screen held may have been collected, and then it ends  *)
(* without a word.  getString of a detached fragment throws.               *)
(***************************************************************************)
MayBeCollected(u) == owner[u] # screen \/ Detached

DoInBackground(u) ==
    /\ ~crashed
    /\ stage[u] = "queued" /\ \A v \in 1 .. u - 1 : stage[v] # "queued"
    /\ \/ /\ ~holds[u] \/ MayBeCollected(u)
          /\ GoTo(u, "silent")
          /\ UNCHANGED crashed
       \/ /\ holds[u] /\ ~Detached
          /\ GoTo(u, "video")
          /\ UNCHANGED crashed
       \/ /\ holds[u] /\ Detached
          /\ crashed' = TRUE
          /\ UNCHANGED stage
    /\ UNCHANGED <<screenVars, viewVars, taskVars, wire, serverVars, told>>

(***************************************************************************)
(* onPostUploaded, called through mCallbacks.  An error enables the button *)
(* and leaves the dialog as it is.                                         *)
(***************************************************************************)
SharedKeepsButton ==
    /\ activity' = "finishing"
    /\ dialog' = FALSE
    /\ shareAround' = TRUE

Shared ==
    /\ activity' = "finishing"
    /\ dialog' = FALSE
    /\ shareAround' = FALSE

OnPostUploaded(u, outcome) ==
    \/ /\ activity # "gone"
       /\ told' = [told EXCEPT ![u] = outcome]
       /\ GoTo(u, "ended")
       /\ \/ outcome = "shared" /\ Shared
          \/ outcome = "error" /\ shareAround' = TRUE /\ UNCHANGED <<activity, dialog>>
       /\ UNCHANGED crashed
    \/ /\ activity = "gone"
       /\ crashed' = TRUE
       /\ UNCHANGED <<viewVars, stage, told>>

MainLooper == activity # "recreating" /\ ~crashed

VideoStored(u) ==
    /\ MainLooper
    /\ stage[u] = "video"
    /\ GoTo(u, "thumb")
    /\ UNCHANGED <<screenVars, viewVars, taskVars, wire, serverVars, told, crashed>>

(* A store that failed, or a user who is no longer signed in.              *)
StorageFails(u) ==
    /\ MainLooper
    /\ stage[u] \in {"video", "thumb"}
    /\ OnPostUploaded(u, "error")
    /\ UNCHANGED <<screenVars, taskVars, wire, serverVars>>

WritesUnderNoKey(u) == <<[kind |-> "point", upload |-> 0], [kind |-> "post", upload |-> u]>>
WritesPostFirst(u) == <<[kind |-> "post", upload |-> u], [kind |-> "point", upload |-> u]>>
WritesOf(u) == <<[kind |-> "point", upload |-> u], [kind |-> "post", upload |-> u]>>

ThumbStored(u) ==
    /\ MainLooper
    /\ stage[u] = "thumb"
    /\ wire' = wire \o WritesOf(u)
    /\ GoTo(u, "writing")
    /\ UNCHANGED <<screenVars, viewVars, taskVars, serverVars, told, crashed>>

(* The database applies or rejects the writes, in order.  Nobody listens   *)
(* for what becomes of the geo-point.                                      *)
ServerWrites ==
    /\ wire # <<>>
    /\ wire' = Tail(wire)
    /\ LET u == Head(wire).upload
       IN  \/ /\ Head(wire).kind = "point"
              /\ \/ points' = points \cup {u} /\ UNCHANGED refused
                 \/ refused' = refused \cup {u} /\ UNCHANGED points
              /\ UNCHANGED <<posts, stage>>
           \/ /\ Head(wire).kind = "post"
              /\ posts' = posts \cup {u}
              /\ GoTo(u, "written")
              /\ UNCHANGED <<points, refused>>
           \/ /\ Head(wire).kind = "post"
              /\ GoTo(u, "rejected")
              /\ UNCHANGED serverVars
    /\ UNCHANGED <<screenVars, viewVars, taskVars, told, crashed>>

OnCompleteOnly(u) ==
    /\ MainLooper
    /\ stage[u] = "written"
    /\ OnPostUploaded(u, "shared")
    /\ UNCHANGED <<screenVars, taskVars, wire, serverVars>>

OnComplete(u) ==
    /\ MainLooper
    /\ \/ stage[u] = "written" /\ OnPostUploaded(u, "shared")
       \/ stage[u] = "rejected" /\ OnPostUploaded(u, "error")
    /\ UNCHANGED <<screenVars, taskVars, wire, serverVars>>

UploadStep(u) ==
    \/ DoInBackground(u)
    \/ VideoStored(u) \/ ThumbStored(u) \/ StorageFails(u)
    \/ OnComplete(u)

Next ==
    \/ SendWithoutLocation \/ Leave
    \/ OnDetach \/ OnAttach
    \/ \E u \in Uploads : Send(u) \/ UploadStep(u)
    \/ ServerWrites

(***************************************************************************)
(* Tasks run, a store succeeds or fails in the end (Firebase gives up      *)
(* after ten minutes), the database answers while there is a connection,   *)
(* and Android completes what it began.  The user need not do anything.    *)
(***************************************************************************)
Spec ==
    /\ Init /\ [][Next]_vars
    /\ \A u \in Uploads : WF_vars(UploadStep(u))
    /\ WF_vars(ServerWrites) /\ WF_vars(OnAttach)

-----------------------------------------------------------------------------
(***************************************************************************)
(* A post is never visible before the database decided on its geo-point:   *)
(* setLocation comes first, and onComplete of the post answers after both. *)
(***************************************************************************)
PostHasPoint == posts \subseteq points \cup refused

(***************************************************************************)
(* Only recreating the activity makes it possible to share a recording     *)
(* twice, and not more often than there were screens.                      *)
(***************************************************************************)
OnePostPerScreen == Cardinality(posts) <= screen

(***************************************************************************)
(* A null mCallbacks or a detached fragment ends the process only after    *)
(* the activity was recreated or left: who shares on a screen that stays   *)
(* cannot leave it while the upload runs.                                  *)
(***************************************************************************)
WaitingIsSafe ==
    \A u \in Uploads :
        [](screen = 1 /\ activity = "shown" /\ stage[u] = "queued"
            => [](crashed => screen > 1 \/ activity = "recreating"))

(***************************************************************************)
(* Whatever fails, an upload that has its video and thumbnail is answered  *)
(* on the screen that started it, if that screen stays.                    *)
(***************************************************************************)
UploadAnswered ==
    \A u \in Uploads :
        stage[u] = "queued" /\ holds[u]
            ~> told[u] # "nothing" \/ crashed \/ owner[u] # screen \/ activity = "gone"

(***************************************************************************)
(* What the dialog says, "Uploading Post..." (R.string.uploading_post):    *)
(* while it shows, there is an upload.                                     *)
(***************************************************************************)
UploadingWhileShown == dialog => \E u \in Uploads : stage[u] \in Running
=============================================================================
