-------------------------- MODULE VideoConversion --------------------------
(***************************************************************************)
(* From the camera to RecipientsActivity.  MainActivity.compress converts  *)
(* every recording twice at the same time: on a thread of its own          *)
(* (MediaController.scheduleVideoConvert) and in an AsyncTask              *)
(* (VideoCompressor), whose end opens RecipientsActivity.  Both run        *)
(* MediaController.convertVideo on the one file video.mp4 and share two    *)
(* static fields, cacheFile and finalUri; nothing synchronizes them.       *)
(*                                                                         *)
(* The names of converted files have the resolution of a second.  What     *)
(* happens inside a conversion is VideoPump and Mp4Muxer: here it succeeds *)
(* or throws.  The camera may record again while conversions run.          *)
(***************************************************************************)
EXTENDS Naturals, Sequences, FiniteSets

CONSTANTS
    MaxRecordings,  \* bound: recordings the user makes
    MaxSeconds      \* bound: seconds that pass

ASSUME ConversionAssumption == {MaxRecordings, MaxSeconds} \subseteq Nat \ {0}

Seconds == 1 .. MaxSeconds
NoFile == 0     \* a static field that was never assigned
Recordings == 1 .. MaxRecordings
Conversions == Recordings \X {"thread", "task"}

VARIABLES
    now,            \* the second on the clock when it was last read
    folder,         \* the folder of converted files exists; the app never makes it
    recordings,     \* recordings made
    input,          \* the recording in video.mp4, 0 if there is no such file
    pc,             \* where each conversion is
    result,         \* what convertVideo returned to its task
    error,          \* the local variable of convertVideo, while it runs
    cacheFile,      \* static, names a converted file
    finalUri,       \* static, its Uri
    target,         \* the file each running conversion writes
    disk,           \* the converted files
    storageFailed,  \* history: conversions whose muxer failed to write
    shown,          \* what RecipientsActivity was last opened with
    crashed         \* an exception ended the process

convVars == <<pc, result, error, target>>
staticVars == <<cacheFile, finalUri>>
inputVars == <<recordings, input>>
diskVars == <<disk, storageFailed>>
vars == <<now, folder, inputVars, convVars, staticVars, diskVars, shown, crashed>>

(***************************************************************************)
(* A converted file is whole when one conversion wrote it from start to    *)
(* end, partial when that conversion failed, and mixed when two had it     *)
(* open together.                                                          *)
(***************************************************************************)
States == {"absent", "open", "whole", "partial", "mixed"}
File == [writers : SUBSET Conversions, state : States]

Steps == <<"retriever", "name", "uri", "check", "create", "extract", "finish", "delete">>
Running == {Steps[i] : i \in 1 .. Len(Steps)}

TypeOK ==
    /\ now \in Seconds
    /\ {folder, crashed} \subseteq BOOLEAN
    /\ recordings \in 0 .. MaxRecordings
    /\ input \in 0 .. recordings
    /\ pc \in [Conversions -> {"idle", "queued", "returned", "ended"} \cup Running]
    /\ result \in [Conversions -> BOOLEAN]
    /\ error \in [Conversions -> BOOLEAN]
    /\ {cacheFile, finalUri} \subseteq Seconds \cup {NoFile}
    /\ target \in [Conversions -> Seconds \cup {NoFile}]
    /\ \A c \in Conversions : pc[c] \in {"extract", "finish"} => target[c] # NoFile
    /\ disk \in [Seconds -> File]
    /\ storageFailed \subseteq Conversions
    /\ shown \in [recording : 0 .. MaxRecordings, compressed : BOOLEAN, state : States]

Init ==
    /\ now = 1
    /\ folder \in BOOLEAN
    /\ recordings = 0
    /\ input = 0
    /\ pc = [c \in Conversions |-> "idle"]
    /\ result = [c \in Conversions |-> FALSE]
    /\ error = [c \in Conversions |-> FALSE]
    /\ cacheFile = NoFile
    /\ finalUri = NoFile
    /\ target = [c \in Conversions |-> NoFile]
    /\ disk = [s \in Seconds |-> [writers |-> {}, state |-> "absent"]]
    /\ storageFailed = {}
    /\ shown = [recording |-> 0, compressed |-> FALSE, state |-> "absent"]
    /\ crashed = FALSE

(***************************************************************************)
(* The camera returns RESULT_OK: video.mp4 is replaced and compress starts *)
(* the thread and executes the AsyncTask.                                  *)
(***************************************************************************)
Record ==
    /\ ~crashed
    /\ recordings < MaxRecordings
    /\ recordings' = recordings + 1
    /\ input' = recordings'
    /\ pc' = [pc EXCEPT ![<<recordings', "thread">>] = "retriever",
                        ![<<recordings', "task">>] = "queued"]
    /\ UNCHANGED <<now, folder, result, error, target, staticVars, diskVars, shown, crashed>>

(* AsyncTasks run one at a time, in the order of their execution.          *)
StartTask(r) ==
    /\ ~crashed
    /\ pc[<<r, "task">>] = "queued"
    /\ \A q \in 1 .. r - 1 : pc[<<q, "task">>] \in {"returned", "ended"}
    /\ pc' = [pc EXCEPT ![<<r, "task">>] = "retriever"]
    /\ UNCHANGED <<now, folder, inputVars, result, error, target, staticVars, diskVars, shown, crashed>>

-----------------------------------------------------------------------------
(***************************************************************************)
(* convertVideo, cut where the two conversions can see each other.         *)
(***************************************************************************)
At(c, step) == ~crashed /\ pc[c] = step
Goto(c, step) == pc' = [pc EXCEPT ![c] = step]
Fails(c) == error' = [error EXCEPT ![c] = TRUE]
StorageFails(c) == storageFailed' = storageFailed \cup {c}

(* An uncaught exception ends the process: what was in its memory is gone. *)
ProcessEnds ==
    /\ crashed' = TRUE
    /\ pc' = [d \in Conversions |-> "idle"]
    /\ result' = [d \in Conversions |-> FALSE]
    /\ error' = [d \in Conversions |-> FALSE]
    /\ target' = [d \in Conversions |-> NoFile]
    /\ cacheFile' = NoFile
    /\ finalUri' = NoFile
    /\ UNCHANGED <<now, folder, inputVars, diskVars, shown>>

(* setDataSource of the retriever is outside the try block.                *)
OpenRetriever(c) ==
    /\ At(c, "retriever")
    /\ input # 0
    /\ Goto(c, "name")
    /\ UNCHANGED <<now, folder, inputVars, result, error, target, staticVars, diskVars, shown, crashed>>

Crash(c) ==
    /\ At(c, "retriever")
    /\ input = 0
    /\ ProcessEnds

(* The clock matters when it is read, and some seconds may have passed.    *)
NameCacheFile(c) ==
    /\ At(c, "name")
    /\ now' \in now .. MaxSeconds
    /\ cacheFile' = now'
    /\ Goto(c, "uri")
    /\ UNCHANGED <<folder, inputVars, result, error, target, finalUri, diskVars, shown, crashed>>

TakeUri(c) ==
    /\ At(c, "uri")
    /\ finalUri' = cacheFile
    /\ Goto(c, "check")
    /\ UNCHANGED <<now, folder, inputVars, result, error, target, cacheFile, diskVars, shown, crashed>>

CheckInput(c) ==
    /\ At(c, "check")
    /\ Goto(c, IF input # 0 THEN "create" ELSE "returned")
    /\ UNCHANGED <<now, folder, inputVars, result, error, target, staticVars, diskVars, shown, crashed>>

(***************************************************************************)
(* The movie takes the static field's value of this moment.  Without a     *)
(* folder no file is opened; if the first box cannot be written the file   *)
(* is open, but convertVideo has no muxer to finish it with.               *)
(***************************************************************************)
Opened(f, c) == [writers |-> f.writers \cup {c},
                 state |-> IF f.writers = {} THEN "open" ELSE "mixed"]

CreateMovie(c) ==
    /\ At(c, "create")
    /\ folder
    /\ target' = [target EXCEPT ![c] = cacheFile]
    /\ disk' = [disk EXCEPT ![cacheFile] = Opened(@, c)]
    /\ \/ Goto(c, "extract") /\ UNCHANGED <<error, storageFailed>>
       \/ Goto(c, "delete") /\ Fails(c) /\ StorageFails(c)
    /\ UNCHANGED <<now, folder, inputVars, result, staticVars, shown, crashed>>

AfterCreateErrorFinish == "finish"
AfterCreateError == "delete"

CreateMovieFails(c) ==
    /\ At(c, "create")
    /\ ~folder
    /\ Fails(c)
    /\ Goto(c, AfterCreateError)
    /\ UNCHANGED <<now, folder, inputVars, result, target, staticVars, diskVars, shown, crashed>>

(***************************************************************************)
(* Once the extractor has opened the recording, deleting it does no harm.  *)
(* What the loop does then is this conversion's own (VideoPump): it ends,  *)
(* or an exception ends it, and finishMovie is called in either case.      *)
(***************************************************************************)
AfterPumpErrorSkipFinish == "delete"
AfterPumpError == "finish"

ExtractAndPump(c) ==
    /\ At(c, "extract")
    /\ \/ input # 0 /\ Goto(c, "finish") /\ UNCHANGED error
       \/ Goto(c, AfterPumpError) /\ Fails(c)
    /\ UNCHANGED <<now, folder, inputVars, result, target, staticVars, diskVars, shown, crashed>>

(* finishMovie may itself throw, before it closes the file.                *)
Closed(f, c) == [writers |-> f.writers \ {c},
                 state |-> IF f.state = "mixed" THEN "mixed"
                           ELSE IF error[c] THEN "partial" ELSE "whole"]

FinishMovie(c) ==
    /\ At(c, "finish")
    /\ disk' = [disk EXCEPT ![target[c]] = Closed(@, c)]
    /\ Goto(c, "delete")
    /\ UNCHANGED <<now, folder, inputVars, result, error, target, staticVars,
                   storageFailed, shown, crashed>>

FinishMovieThrows(c) ==
    /\ At(c, "finish")
    /\ StorageFails(c)
    /\ Goto(c, "delete")
    /\ UNCHANGED <<now, folder, inputVars, result, error, target, staticVars, disk, shown, crashed>>

(***************************************************************************)
(* The handlers of the try block and of finishMovie log the message of     *)
(* what they caught.  Log.e throws if there is none (a file that could not *)
(* be opened has one), and nothing catches that.                           *)
(***************************************************************************)
LogThrows(c) ==
    /\ At(c, "delete")
    /\ target[c] # NoFile /\ (error[c] \/ c \in storageFailed)
    /\ ProcessEnds

(***************************************************************************)
(* The recording is deleted and the result is true, error or not; the      *)
(* thread drops its result, and the locals are gone.                       *)
(***************************************************************************)
ReturnTrue(c) ==
    /\ result' = [result EXCEPT ![c] = c[2] = "task"]
    /\ error' = [error EXCEPT ![c] = FALSE]
    /\ target' = [target EXCEPT ![c] = NoFile]
    /\ Goto(c, "returned")

DeleteInputOnSuccess(c) ==
    /\ At(c, "delete")
    /\ input' = IF error[c] THEN input ELSE 0
    /\ ReturnTrue(c)
    /\ UNCHANGED <<now, folder, recordings, staticVars, diskVars, shown, crashed>>

DeleteInput(c) ==
    /\ At(c, "delete")
    /\ input' = 0
    /\ ReturnTrue(c)
    /\ UNCHANGED <<now, folder, recordings, staticVars, diskVars, shown, crashed>>

(***************************************************************************)
(* onPostExecute, on the main thread, which takes them in order: it takes  *)
(* finalUri, reports success if convertVideo returned true, and opens      *)
(* RecipientsActivity in any case.                                         *)
(* (deleteTempFile looks for video.mp4 in a folder of another name than    *)
(* the one it is recorded in, and deletes nothing.)                        *)
(***************************************************************************)
StateOf(f) == IF f = NoFile THEN "absent" ELSE disk[f].state
EarlierTasksEnded(r) == \A q \in 1 .. r - 1 : pc[<<q, "task">>] = "ended"

Recipients(r) == [recording |-> r, compressed |-> result[<<r, "task">>],
                  state |-> StateOf(finalUri)]

OpenRecipientsIfCompressed(r) ==
    IF result[<<r, "task">>] THEN shown' = Recipients(r) ELSE UNCHANGED shown
OpenRecipients(r) == shown' = Recipients(r)

OnPostExecute(r) ==
    LET c == <<r, "task">>
    IN  /\ At(c, "returned")
        /\ EarlierTasksEnded(r)
        /\ OpenRecipients(r)
        /\ result' = [result EXCEPT ![c] = FALSE]
        /\ Goto(c, "ended")
        /\ UNCHANGED <<now, folder, inputVars, error, target, staticVars, diskVars, crashed>>

ConvertVideo(c) ==
    \/ OpenRetriever(c) \/ Crash(c) \/ NameCacheFile(c) \/ TakeUri(c) \/ CheckInput(c)
    \/ CreateMovie(c) \/ CreateMovieFails(c) \/ ExtractAndPump(c)
    \/ FinishMovie(c) \/ FinishMovieThrows(c) \/ LogThrows(c) \/ DeleteInput(c)

AllDone ==
    /\ \A r \in Recordings : pc[<<r, "thread">>] \in {"idle", "returned"}
    /\ \A r \in Recordings : pc[<<r, "task">>] \in {"idle", "ended"}
Idle == (crashed \/ AllDone) /\ UNCHANGED vars

Next ==
    \/ Record \/ Idle
    \/ \E r \in Recordings : StartTask(r) \/ OnPostExecute(r)
    \/ \E c \in Conversions : ConvertVideo(c)

(***************************************************************************)
(* Every thread is scheduled: those of the conversions, the one that the   *)
(* AsyncTasks share, and the main thread.  The user need not record.       *)
(***************************************************************************)
Executor == \E r \in Recordings : StartTask(r) \/ ConvertVideo(<<r, "task">>)

Spec ==
    /\ Init /\ [][Next]_vars
    /\ \A r \in Recordings : WF_vars(ConvertVideo(<<r, "thread">>))
    /\ WF_vars(Executor)
    /\ WF_vars(\E r \in Recordings : OnPostExecute(r))

-----------------------------------------------------------------------------
(***************************************************************************)
(* On every path through convertVideo, thrown or not, a file that was      *)
(* opened is closed, unless it was storage that failed: a codec's failure  *)
(* leaks no file.                                                          *)
(***************************************************************************)
FilesFinished ==
    \A s \in Seconds : \A c \in disk[s].writers :
        pc[c] \in {"returned", "ended"} => c \in storageFailed

(***************************************************************************)
(* Unless an exception that nothing catches ends the process, every        *)
(* recording is answered: RecipientsActivity opens for it.                 *)
(***************************************************************************)
RecordingAnswered ==
    \A r \in Recordings : pc[<<r, "task">>] = "queued" ~> crashed \/ shown.recording = r

(* The camera's file does not outlive its conversions, failed or not,      *)
(* unless the process ends.                                                *)
RecordingRemoved == []<>(crashed \/ input = 0)

(***************************************************************************)
(* What the user is told when convertVideo returns true: "Recorded video   *)
(* has been successfully compressed!" (R.string.video_compressed).         *)
(***************************************************************************)
CompressedMeansWhole ==
    shown.compressed => shown.state = "whole"
=============================================================================
