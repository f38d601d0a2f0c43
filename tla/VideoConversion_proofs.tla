---------------------- MODULE VideoConversion_proofs ----------------------
(***************************************************************************)
(* Proofs about VideoConversion, for any number of recordings and seconds: *)
(* the types of its fields, and that no path through convertVideo leaves a *)
(* file open that storage would have let it close.                         *)
(***************************************************************************)
EXTENDS VideoConversion, TLAPS

(* A conversion that uses the static field has assigned it, or another has. *)
Named == {"uri", "check", "create", "extract", "finish"}
NamedBeforeUse == \A c \in Conversions : pc[c] \in Named => cacheFile # NoFile

(* An exception that ends the process ends every conversion.               *)
CrashEndsAll == crashed => \A c \in Conversions : pc[c] = "idle"

(* A conversion begins with its recording.                                 *)
NotRecordedIsIdle ==
    \A c \in Conversions : c[1] > recordings => pc[c] = "idle"

(* Who has a file open is about to finish that very file, was ended with   *)
(* the process, or failed to write.                                        *)
WritersFinish ==
    \A s \in Seconds : \A c \in disk[s].writers :
        \/ c \in storageFailed
        \/ crashed
        \/ pc[c] \in {"extract", "finish"} /\ target[c] = s

ConversionInv ==
    /\ TypeOK
    /\ NamedBeforeUse /\ CrashEndsAll /\ NotRecordedIsIdle /\ WritersFinish

-----------------------------------------------------------------------------
LEMMA Constants ==
    /\ MaxRecordings \in Nat \ {0} /\ MaxSeconds \in Nat \ {0}
    /\ 1 \in Seconds /\ NoFile \notin Seconds
  BY ConversionAssumption DEF Seconds, NoFile

(***************************************************************************)
(* The names of the steps of a conversion, as a set.                       *)
(***************************************************************************)
LEMMA RunningSteps ==
    Running = {"retriever", "name", "uri", "check", "create", "extract", "finish", "delete"}
  <1>1. Len(Steps) = 8
    BY DEF Steps
  <1>2. 1 .. 8 = {1, 2, 3, 4, 5, 6, 7, 8}
    OBVIOUS
  <1> QED
    BY <1>1, <1>2 DEF Running, Steps

LEMMA InitCorrect == Init => ConversionInv
  <1> SUFFICES ASSUME Init PROVE ConversionInv
    OBVIOUS
  <1>1. TypeOK
    <2>1. now \in Seconds /\ {folder, crashed} \subseteq BOOLEAN
      BY Constants DEF Init
    <2>2. recordings \in 0 .. MaxRecordings /\ input \in 0 .. recordings
      BY Constants DEF Init
    <2>3. pc \in [Conversions -> {"idle", "queued", "returned", "ended"} \cup Running]
      BY DEF Init
    <2>4. /\ result \in [Conversions -> BOOLEAN]
          /\ error \in [Conversions -> BOOLEAN]
      BY DEF Init
    <2>5. disk \in [Seconds -> File]
      BY DEF Init, File, States
    <2>6. shown \in [recording : 0 .. MaxRecordings, compressed : BOOLEAN, state : States]
      BY Constants DEF Init, States
    <2> QED
      BY <2>1, <2>2, <2>3, <2>4, <2>5, <2>6 DEF Init, TypeOK
  <1>2. NamedBeforeUse /\ CrashEndsAll /\ NotRecordedIsIdle
    BY DEF Init, NamedBeforeUse, CrashEndsAll, NotRecordedIsIdle, Named
  <1>3. WritersFinish
    BY DEF Init, WritersFinish
  <1> QED
    BY <1>1, <1>2, <1>3 DEF ConversionInv

(***************************************************************************)
(* What opening, closing and showing a file yields.                        *)
(***************************************************************************)
LEMMA OpenedType ==
    ASSUME NEW f \in File, NEW c \in Conversions
    PROVE  Opened(f, c) \in File /\ Opened(f, c).writers = f.writers \cup {c}
  BY DEF Opened, File, States

LEMMA ClosedType ==
    ASSUME NEW f \in File, NEW c \in Conversions
    PROVE  Closed(f, c) \in File /\ Closed(f, c).writers = f.writers \ {c}
  BY DEF Closed, File, States

LEMMA RecipientsType ==
    ASSUME TypeOK, NEW r \in Recordings
    PROVE  Recipients(r) \in [recording : 0 .. MaxRecordings, compressed : BOOLEAN, state : States]
  <1>1. <<r, "task">> \in Conversions /\ r \in 0 .. MaxRecordings
    BY Constants DEF Conversions, Recordings
  <1>2. result[<<r, "task">>] \in BOOLEAN
    BY <1>1 DEF TypeOK
  <1>3. StateOf(finalUri) \in States
    <2>1. CASE finalUri = NoFile
      BY <2>1 DEF StateOf, States
    <2>2. CASE finalUri \in Seconds
      BY <2>2, Constants DEF StateOf, TypeOK, File
    <2> QED
      BY <2>1, <2>2 DEF TypeOK
  <1> QED
    BY <1>1, <1>2, <1>3 DEF Recipients

(***************************************************************************)
(* One step of a conversion moves that conversion only.  It has begun, so  *)
(* its recording is made, and the process lives.                           *)
(***************************************************************************)
PcValues == {"idle", "queued", "returned", "ended"} \cup Running

LEMMA StepMoves ==
    ASSUME ConversionInv, ~crashed, UNCHANGED <<crashed, recordings>>,
           NEW c \in Conversions, pc[c] # "idle", NEW step \in PcValues, Goto(c, step)
    PROVE  /\ pc' \in [Conversions -> PcValues]
           /\ pc'[c] = step
           /\ \A d \in Conversions : d # c => pc'[d] = pc[d]
           /\ CrashEndsAll' /\ NotRecordedIsIdle'
  <1>1. pc \in [Conversions -> PcValues]
    BY DEF ConversionInv, TypeOK, PcValues
  <1>2. /\ pc' \in [Conversions -> PcValues]
        /\ pc'[c] = step
        /\ \A d \in Conversions : d # c => pc'[d] = pc[d]
    BY <1>1 DEF Goto
  <1>3. CrashEndsAll'
    BY DEF CrashEndsAll
  <1>4. NotRecordedIsIdle'
    BY <1>2 DEF ConversionInv, NotRecordedIsIdle
  <1> QED
    BY <1>2, <1>3, <1>4

(***************************************************************************)
(* A step that opens and closes no file keeps what is said of its writers: *)
(* the conversion that moves has no file open, or is still on its way to   *)
(* finish it.                                                              *)
(***************************************************************************)
LEMMA StepKeepsWriters ==
    ASSUME ConversionInv, ~crashed, UNCHANGED <<crashed, recordings, disk>>,
           storageFailed \subseteq storageFailed',
           NEW c \in Conversions, pc[c] # "idle", NEW step \in PcValues, Goto(c, step),
           \/ pc[c] \notin {"extract", "finish"}
           \/ step = "finish"
           \/ c \in storageFailed',
           \A d \in Conversions : pc[d] \in {"extract", "finish"} /\ pc'[d] = pc[d]
                                  => target'[d] = target[d],
           step = "finish" => target'[c] = target[c]
    PROVE  WritersFinish'
  <1> SUFFICES ASSUME NEW s \in Seconds, NEW d \in disk[s].writers
               PROVE  \/ d \in storageFailed'
                      \/ pc'[d] \in {"extract", "finish"} /\ target'[d] = s
    BY DEF WritersFinish
  <1>1. d \in Conversions
    BY DEF ConversionInv, TypeOK, File
  <1>2. d \in storageFailed \/ (pc[d] \in {"extract", "finish"} /\ target[d] = s)
    BY DEF ConversionInv, WritersFinish
  <1>3. CASE d \in storageFailed
    BY <1>3
  <1>4. CASE d \notin storageFailed /\ d # c
    BY <1>1, <1>2, <1>4, StepMoves
  <1>5. CASE d \notin storageFailed /\ d = c
    BY <1>1, <1>2, <1>5, StepMoves
  <1> QED
    BY <1>3, <1>4, <1>5

(***************************************************************************)
(* The steps of convertVideo, one by one.                                  *)
(***************************************************************************)
LEMMA OpenRetrieverCorrect ==
    ASSUME ConversionInv, NEW c \in Conversions, OpenRetriever(c)
    PROVE  ConversionInv'
  <1>1. "name" \in PcValues /\ Goto(c, "name") /\ ~crashed /\ pc[c] # "idle"
        /\ UNCHANGED <<crashed, recordings, disk, storageFailed, target>>
    BY RunningSteps DEF OpenRetriever, At, PcValues, diskVars, inputVars
  <1>2. /\ pc' \in [Conversions -> PcValues]
        /\ pc'[c] = "name"
        /\ \A d \in Conversions : d # c => pc'[d] = pc[d]
        /\ CrashEndsAll' /\ NotRecordedIsIdle'
    BY <1>1, StepMoves
  <1>3. TypeOK'
    BY <1>1, <1>2 DEF OpenRetriever, ConversionInv, TypeOK, PcValues, inputVars, staticVars
  <1>4. NamedBeforeUse'
    BY <1>1, <1>2 DEF OpenRetriever, staticVars, ConversionInv, NamedBeforeUse, Named
  <1>5. WritersFinish'
    BY <1>1, StepKeepsWriters DEF OpenRetriever, At
  <1> QED
    BY <1>2, <1>3, <1>4, <1>5 DEF ConversionInv

LEMMA NameCacheFileCorrect ==
    ASSUME ConversionInv, NEW c \in Conversions, NameCacheFile(c)
    PROVE  ConversionInv'
  <1>1. "uri" \in PcValues /\ Goto(c, "uri") /\ ~crashed /\ pc[c] # "idle"
        /\ UNCHANGED <<crashed, recordings, disk, storageFailed, target>>
    BY RunningSteps DEF NameCacheFile, At, PcValues, diskVars, inputVars
  <1>2. /\ pc' \in [Conversions -> PcValues]
        /\ pc'[c] = "uri"
        /\ \A d \in Conversions : d # c => pc'[d] = pc[d]
        /\ CrashEndsAll' /\ NotRecordedIsIdle'
    BY <1>1, StepMoves
  <1>3. now' \in Seconds /\ cacheFile' \in Seconds
    BY Constants DEF NameCacheFile, ConversionInv, TypeOK, Seconds
  <1>4. TypeOK'
    BY <1>1, <1>2, <1>3 DEF NameCacheFile, ConversionInv, TypeOK, PcValues, inputVars, staticVars
  <1>5. NamedBeforeUse'
    BY <1>3, Constants DEF NamedBeforeUse
  <1>6. WritersFinish'
    BY <1>1, StepKeepsWriters DEF NameCacheFile, At
  <1> QED
    BY <1>2, <1>4, <1>5, <1>6 DEF ConversionInv

LEMMA TakeUriCorrect ==
    ASSUME ConversionInv, NEW c \in Conversions, TakeUri(c)
    PROVE  ConversionInv'
  <1>1. "check" \in PcValues /\ Goto(c, "check") /\ ~crashed /\ pc[c] # "idle"
        /\ UNCHANGED <<crashed, recordings, disk, storageFailed, target>>
    BY RunningSteps DEF TakeUri, At, PcValues, diskVars, inputVars
  <1>2. /\ pc' \in [Conversions -> PcValues]
        /\ pc'[c] = "check"
        /\ \A d \in Conversions : d # c => pc'[d] = pc[d]
        /\ CrashEndsAll' /\ NotRecordedIsIdle'
    BY <1>1, StepMoves
  <1>3. TypeOK'
    BY <1>1, <1>2 DEF TakeUri, ConversionInv, TypeOK, PcValues, inputVars, staticVars
  <1>4. NamedBeforeUse'
    BY <1>1, <1>2 DEF TakeUri, At, ConversionInv, NamedBeforeUse, Named
  <1>5. WritersFinish'
    BY <1>1, StepKeepsWriters DEF TakeUri, At
  <1> QED
    BY <1>2, <1>3, <1>4, <1>5 DEF ConversionInv

LEMMA CheckInputCorrect ==
    ASSUME ConversionInv, NEW c \in Conversions, CheckInput(c)
    PROVE  ConversionInv'
  <1> DEFINE step == IF input # 0 THEN "create" ELSE "returned"
  <1>1. step \in PcValues /\ Goto(c, step) /\ ~crashed /\ pc[c] = "check"
        /\ step \in {"create", "returned"}
        /\ UNCHANGED <<crashed, recordings, disk, storageFailed, target>>
    BY RunningSteps DEF CheckInput, At, PcValues, diskVars, inputVars
  <1> HIDE DEF step
  <1>2. /\ pc' \in [Conversions -> PcValues]
        /\ pc'[c] = step
        /\ \A d \in Conversions : d # c => pc'[d] = pc[d]
        /\ CrashEndsAll' /\ NotRecordedIsIdle'
    BY <1>1, StepMoves
  <1>3. TypeOK'
    BY <1>1, <1>2 DEF CheckInput, ConversionInv, TypeOK, PcValues, inputVars, staticVars
  <1>4. NamedBeforeUse'
    BY <1>1, <1>2 DEF CheckInput, staticVars, ConversionInv, NamedBeforeUse, Named
  <1>5. WritersFinish'
    BY <1>1, StepKeepsWriters
  <1> QED
    BY <1>2, <1>3, <1>4, <1>5 DEF ConversionInv

LEMMA CreateMovieCorrect ==
    ASSUME ConversionInv, NEW c \in Conversions, CreateMovie(c)
    PROVE  ConversionInv'
  <1>1. PICK step \in {"extract", "delete"} :
            /\ Goto(c, step)
            /\ \/ step = "extract" /\ UNCHANGED <<error, storageFailed>>
               \/ step = "delete" /\ Fails(c) /\ StorageFails(c)
    <2>1. CASE Goto(c, "extract") /\ UNCHANGED <<error, storageFailed>>
      <3> WITNESS "extract" \in {"extract", "delete"}
      <3> QED
        BY <2>1
    <2>2. CASE Goto(c, "delete") /\ Fails(c) /\ StorageFails(c)
      <3> WITNESS "delete" \in {"extract", "delete"}
      <3> QED
        BY <2>2
    <2> QED
      BY <2>1, <2>2 DEF CreateMovie
  <1>2. step \in PcValues /\ ~crashed /\ pc[c] = "create"
        /\ UNCHANGED <<crashed, recordings, now, folder, input, result, cacheFile, finalUri, shown>>
        /\ target' = [target EXCEPT ![c] = cacheFile]
        /\ disk' = [disk EXCEPT ![cacheFile] = Opened(@, c)]
    BY RunningSteps DEF CreateMovie, At, PcValues, inputVars, staticVars
  <1>3. /\ pc' \in [Conversions -> PcValues]
        /\ pc'[c] = step
        /\ \A d \in Conversions : d # c => pc'[d] = pc[d]
        /\ CrashEndsAll' /\ NotRecordedIsIdle'
    BY <1>1, <1>2, StepMoves
  <1>4. cacheFile \in Seconds
    BY <1>2, Constants DEF ConversionInv, TypeOK, NamedBeforeUse, Named
  <1>5. /\ target \in [Conversions -> Seconds \cup {NoFile}] /\ disk \in [Seconds -> File]
    BY DEF ConversionInv, TypeOK
  <1>6. /\ target' \in [Conversions -> Seconds \cup {NoFile}]
        /\ target'[c] = cacheFile
        /\ \A d \in Conversions : d # c => target'[d] = target[d]
    BY <1>2, <1>4, <1>5
  <1>7. /\ disk' \in [Seconds -> File]
        /\ disk'[cacheFile].writers = disk[cacheFile].writers \cup {c}
        /\ \A s \in Seconds : s # cacheFile => disk'[s] = disk[s]
    BY <1>2, <1>4, <1>5, OpenedType
  <1>8. /\ storageFailed' \subseteq Conversions
        /\ storageFailed \subseteq storageFailed'
        /\ error' \in [Conversions -> BOOLEAN]
        /\ step = "delete" => c \in storageFailed'
    BY <1>1 DEF ConversionInv, TypeOK, Fails, StorageFails
  <1>9. TypeOK'
    <2>1. \A d \in Conversions : pc'[d] \in {"extract", "finish"} => target'[d] # NoFile
      BY <1>3, <1>4, <1>6, Constants DEF ConversionInv, TypeOK
    <2> QED
      BY <1>2, <1>3, <1>6, <1>7, <1>8, <2>1 DEF ConversionInv, TypeOK, PcValues
  <1>10. NamedBeforeUse'
    BY <1>2, <1>3, <1>4, Constants DEF NamedBeforeUse
  <1>11. WritersFinish'
    <2> SUFFICES ASSUME NEW s \in Seconds, NEW d \in disk'[s].writers
                 PROVE  \/ d \in storageFailed'
                        \/ pc'[d] \in {"extract", "finish"} /\ target'[d] = s
      BY DEF WritersFinish
    <2>1. d \in Conversions
      BY <1>7 DEF File
    <2>2. CASE d \in disk[s].writers
      <3>1. d \in storageFailed \/ (pc[d] \in {"extract", "finish"} /\ target[d] = s)
        BY <2>2, <1>2 DEF ConversionInv, WritersFinish
      <3>2. d \notin storageFailed => d # c
        BY <3>1, <1>2
      <3> QED
        BY <2>1, <3>1, <3>2, <1>3, <1>6, <1>8
    <2>3. CASE d \notin disk[s].writers
      <3>1. s = cacheFile /\ d = c
        BY <2>3, <1>4, <1>7
      <3> QED
        BY <3>1, <1>1, <1>3, <1>6, <1>8
    <2> QED
      BY <2>2, <2>3
  <1> QED
    BY <1>3, <1>9, <1>10, <1>11 DEF ConversionInv

LEMMA CreateMovieFailsCorrect ==
    ASSUME ConversionInv, NEW c \in Conversions, CreateMovieFails(c)
    PROVE  ConversionInv'
  <1>1. "delete" \in PcValues /\ Goto(c, "delete") /\ ~crashed /\ pc[c] = "create"
        /\ UNCHANGED <<crashed, recordings, disk, storageFailed, target>>
    BY RunningSteps DEF CreateMovieFails, AfterCreateError, At, PcValues, diskVars, inputVars
  <1>2. /\ pc' \in [Conversions -> PcValues]
        /\ pc'[c] = "delete"
        /\ \A d \in Conversions : d # c => pc'[d] = pc[d]
        /\ CrashEndsAll' /\ NotRecordedIsIdle'
    BY <1>1, StepMoves
  <1>3. error' \in [Conversions -> BOOLEAN]
    BY DEF CreateMovieFails, Fails, ConversionInv, TypeOK
  <1>4. TypeOK'
    BY <1>1, <1>2, <1>3 DEF CreateMovieFails, ConversionInv, TypeOK, PcValues, inputVars, staticVars
  <1>5. NamedBeforeUse'
    BY <1>1, <1>2 DEF CreateMovieFails, staticVars, ConversionInv, NamedBeforeUse, Named
  <1>6. WritersFinish'
    BY <1>1, StepKeepsWriters
  <1> QED
    BY <1>2, <1>4, <1>5, <1>6 DEF ConversionInv

LEMMA ExtractAndPumpCorrect ==
    ASSUME ConversionInv, NEW c \in Conversions, ExtractAndPump(c)
    PROVE  ConversionInv'
  <1>1. "finish" \in PcValues /\ Goto(c, "finish") /\ ~crashed /\ pc[c] = "extract"
        /\ UNCHANGED <<crashed, recordings, disk, storageFailed, target>>
    BY RunningSteps DEF ExtractAndPump, AfterPumpError, At, PcValues, diskVars, inputVars
  <1>2. /\ pc' \in [Conversions -> PcValues]
        /\ pc'[c] = "finish"
        /\ \A d \in Conversions : d # c => pc'[d] = pc[d]
        /\ CrashEndsAll' /\ NotRecordedIsIdle'
    BY <1>1, StepMoves
  <1>3. error' \in [Conversions -> BOOLEAN]
    BY DEF ExtractAndPump, Fails, ConversionInv, TypeOK
  <1>4. TypeOK'
    BY <1>1, <1>2, <1>3 DEF ExtractAndPump, ConversionInv, TypeOK, PcValues, inputVars, staticVars
  <1>5. NamedBeforeUse'
    BY <1>1, <1>2 DEF ExtractAndPump, staticVars, ConversionInv, NamedBeforeUse, Named
  <1>6. WritersFinish'
    BY <1>1, StepKeepsWriters
  <1> QED
    BY <1>2, <1>4, <1>5, <1>6 DEF ConversionInv

LEMMA FinishMovieCorrect ==
    ASSUME ConversionInv, NEW c \in Conversions, FinishMovie(c)
    PROVE  ConversionInv'
  <1>1. "delete" \in PcValues /\ Goto(c, "delete") /\ ~crashed /\ pc[c] = "finish"
        /\ UNCHANGED <<crashed, recordings, storageFailed, target>>
        /\ disk' = [disk EXCEPT ![target[c]] = Closed(@, c)]
    BY RunningSteps DEF FinishMovie, At, PcValues, inputVars
  <1>2. /\ pc' \in [Conversions -> PcValues]
        /\ pc'[c] = "delete"
        /\ \A d \in Conversions : d # c => pc'[d] = pc[d]
        /\ CrashEndsAll' /\ NotRecordedIsIdle'
    BY <1>1, StepMoves
  <1>3. target[c] \in Seconds /\ disk \in [Seconds -> File]
    BY <1>1, Constants DEF ConversionInv, TypeOK
  <1>4. /\ disk' \in [Seconds -> File]
        /\ disk'[target[c]].writers = disk[target[c]].writers \ {c}
        /\ \A s \in Seconds : s # target[c] => disk'[s] = disk[s]
    BY <1>1, <1>3, ClosedType
  <1>5. TypeOK'
    BY <1>1, <1>2, <1>4 DEF FinishMovie, ConversionInv, TypeOK, PcValues, inputVars, staticVars
  <1>6. NamedBeforeUse'
    BY <1>1, <1>2 DEF FinishMovie, staticVars, ConversionInv, NamedBeforeUse, Named
  <1>7. WritersFinish'
    <2> SUFFICES ASSUME NEW s \in Seconds, NEW d \in disk'[s].writers
                 PROVE  \/ d \in storageFailed'
                        \/ pc'[d] \in {"extract", "finish"} /\ target'[d] = s
      BY DEF WritersFinish
    <2>1. d \in Conversions
      BY <1>4 DEF File
    <2>2. d \in disk[s].writers /\ ~(s = target[c] /\ d = c)
      BY <1>4
    <2>3. d \in storageFailed \/ (pc[d] \in {"extract", "finish"} /\ target[d] = s)
      BY <2>2, <1>1 DEF ConversionInv, WritersFinish
    <2> QED
      BY <2>1, <2>2, <2>3, <1>1, <1>2
  <1> QED
    BY <1>2, <1>5, <1>6, <1>7 DEF ConversionInv

LEMMA FinishMovieThrowsCorrect ==
    ASSUME ConversionInv, NEW c \in Conversions, FinishMovieThrows(c)
    PROVE  ConversionInv'
  <1>1. "delete" \in PcValues /\ Goto(c, "delete") /\ ~crashed /\ pc[c] = "finish"
        /\ UNCHANGED <<crashed, recordings, disk, target>>
        /\ storageFailed' = storageFailed \cup {c}
    BY RunningSteps DEF FinishMovieThrows, StorageFails, At, PcValues, inputVars
  <1>2. /\ pc' \in [Conversions -> PcValues]
        /\ pc'[c] = "delete"
        /\ \A d \in Conversions : d # c => pc'[d] = pc[d]
        /\ CrashEndsAll' /\ NotRecordedIsIdle'
    BY <1>1, StepMoves
  <1>3. TypeOK'
    BY <1>1, <1>2 DEF FinishMovieThrows, ConversionInv, TypeOK, PcValues, inputVars, staticVars
  <1>4. NamedBeforeUse'
    BY <1>1, <1>2 DEF FinishMovieThrows, staticVars, ConversionInv, NamedBeforeUse, Named
  <1>5. WritersFinish'
    BY <1>1, StepKeepsWriters
  <1> QED
    BY <1>2, <1>3, <1>4, <1>5 DEF ConversionInv

LEMMA DeleteInputCorrect ==
    ASSUME ConversionInv, NEW c \in Conversions, DeleteInput(c)
    PROVE  ConversionInv'
  <1>1. "returned" \in PcValues /\ Goto(c, "returned") /\ ~crashed /\ pc[c] = "delete"
        /\ UNCHANGED <<crashed, recordings, disk, storageFailed>>
        /\ target' = [target EXCEPT ![c] = NoFile]
    BY RunningSteps DEF DeleteInput, ReturnTrue, At, PcValues, diskVars
  <1>2. /\ pc' \in [Conversions -> PcValues]
        /\ pc'[c] = "returned"
        /\ \A d \in Conversions : d # c => pc'[d] = pc[d]
        /\ CrashEndsAll' /\ NotRecordedIsIdle'
    BY <1>1, StepMoves
  <1>3. /\ target' \in [Conversions -> Seconds \cup {NoFile}]
        /\ \A d \in Conversions : d # c => target'[d] = target[d]
    BY <1>1 DEF ConversionInv, TypeOK
  <1>4. /\ result' \in [Conversions -> BOOLEAN]
        /\ error' \in [Conversions -> BOOLEAN]
    BY DEF DeleteInput, ReturnTrue, ConversionInv, TypeOK
  <1>5. TypeOK'
    <2>1. \A d \in Conversions : pc'[d] \in {"extract", "finish"} => target'[d] # NoFile
      BY <1>2, <1>3 DEF ConversionInv, TypeOK
    <2>2. recordings \in Nat /\ input' \in 0 .. recordings'
      BY <1>1, Constants DEF DeleteInput, ConversionInv, TypeOK
    <2> QED
      BY <1>1, <1>2, <1>3, <1>4, <2>1, <2>2
      DEF DeleteInput, ConversionInv, TypeOK, PcValues, staticVars
  <1>6. NamedBeforeUse'
    BY <1>2 DEF DeleteInput, staticVars, ConversionInv, NamedBeforeUse, Named
  <1>7. WritersFinish'
    BY <1>1, <1>2, <1>3, StepKeepsWriters
  <1> QED
    BY <1>2, <1>5, <1>6, <1>7 DEF ConversionInv

(* An uncaught exception ends every conversion, whatever it had open.       *)
LEMMA ProcessEndsCorrect ==
    ASSUME ConversionInv, ProcessEnds
    PROVE  ConversionInv'
  <1>1. crashed' = TRUE /\ \A d \in Conversions : pc'[d] = "idle"
    BY DEF ProcessEnds
  <1>2. /\ pc' \in [Conversions -> PcValues]
        /\ result' \in [Conversions -> BOOLEAN]
        /\ error' \in [Conversions -> BOOLEAN]
        /\ target' \in [Conversions -> Seconds \cup {NoFile}]
    BY DEF ProcessEnds, PcValues
  <1>3. TypeOK'
    <2>1. {folder, crashed}' \subseteq BOOLEAN
      BY <1>1 DEF ProcessEnds, ConversionInv, TypeOK
    <2> QED
      BY <1>1, <1>2, <2>1 DEF ProcessEnds, ConversionInv, TypeOK, PcValues, inputVars, diskVars
  <1> QED
    BY <1>1, <1>3
    DEF ConversionInv, NamedBeforeUse, Named, CrashEndsAll, NotRecordedIsIdle, WritersFinish

-----------------------------------------------------------------------------
(***************************************************************************)
(* The camera, the executor of the AsyncTasks and the main thread.         *)
(***************************************************************************)
LEMMA RecordCorrect ==
    ASSUME ConversionInv, Record
    PROVE  ConversionInv'
  <1> DEFINE r == recordings + 1
  <1>1. /\ ~crashed /\ recordings < MaxRecordings /\ recordings' = r /\ input' = r
        /\ pc' = [pc EXCEPT ![<<r, "thread">>] = "retriever", ![<<r, "task">>] = "queued"]
        /\ UNCHANGED <<now, folder, result, error, target, cacheFile, finalUri, disk,
                        storageFailed, shown, crashed>>
    BY DEF Record, staticVars, diskVars
  <1>2. recordings \in Nat /\ r \in 1 .. MaxRecordings
        /\ recordings' \in 0 .. MaxRecordings /\ input' \in 0 .. recordings'
    BY <1>1, Constants DEF ConversionInv, TypeOK
  <1>3. "retriever" \in PcValues /\ "queued" \in PcValues
    BY RunningSteps DEF PcValues
  <1>4. <<r, "thread">> \in Conversions /\ <<r, "task">> \in Conversions
    BY <1>2 DEF Conversions, Recordings
  <1> HIDE DEF r
  <1>5. pc \in [Conversions -> PcValues]
    BY DEF ConversionInv, TypeOK, PcValues
  <1>6. /\ pc' \in [Conversions -> PcValues]
        /\ pc'[<<r, "thread">>] = "retriever" /\ pc'[<<r, "task">>] = "queued"
        /\ \A d \in Conversions : d[1] # r => pc'[d] = pc[d]
    BY <1>1, <1>3, <1>4, <1>5
  <1>7. \A d \in Conversions : d[1] = r => d = <<r, "thread">> \/ d = <<r, "task">>
    BY DEF Conversions
  <1>8. \A d \in Conversions : pc'[d] = pc[d] \/ (pc[d] = "idle" /\ pc'[d] \in {"retriever", "queued"})
    BY <1>2, <1>6, <1>7 DEF ConversionInv, NotRecordedIsIdle, r
  <1>9. TypeOK'
    <2>1. \A d \in Conversions : pc'[d] \in {"extract", "finish"} => target'[d] # NoFile
      BY <1>1, <1>8 DEF ConversionInv, TypeOK
    <2>2. {folder, crashed}' \subseteq BOOLEAN
      BY <1>1 DEF ConversionInv, TypeOK
    <2> QED
      BY <1>1, <1>2, <1>6, <2>1, <2>2 DEF ConversionInv, TypeOK, PcValues
  <1>10. NamedBeforeUse' /\ CrashEndsAll' /\ WritersFinish'
    <2>1. \A s \in Seconds : \A c \in disk[s].writers : c \in Conversions
      BY DEF ConversionInv, TypeOK, File
    <2> QED
      BY <1>1, <1>8, <2>1
      DEF ConversionInv, NamedBeforeUse, Named, CrashEndsAll, WritersFinish
  <1>11. NotRecordedIsIdle'
    <2> SUFFICES ASSUME NEW d \in Conversions, d[1] > recordings' PROVE pc'[d] = "idle"
      BY DEF NotRecordedIsIdle
    <2>1. d[1] \in Nat /\ d[1] # r /\ d[1] > recordings
      BY <1>1, <1>2 DEF Conversions, Recordings, r
    <2> QED
      BY <2>1, <1>6 DEF ConversionInv, NotRecordedIsIdle
  <1> QED
    BY <1>9, <1>10, <1>11 DEF ConversionInv

LEMMA StartTaskCorrect ==
    ASSUME ConversionInv, NEW r \in Recordings, StartTask(r)
    PROVE  ConversionInv'
  <1> DEFINE c == <<r, "task">>
  <1>1. "retriever" \in PcValues /\ Goto(c, "retriever") /\ ~crashed /\ pc[c] = "queued"
        /\ c \in Conversions
        /\ UNCHANGED <<crashed, recordings, disk, storageFailed, target, input, now, folder,
                        cacheFile, finalUri, error>>
    BY RunningSteps DEF StartTask, At, Goto, PcValues, Conversions, inputVars, diskVars, staticVars
  <1> HIDE DEF c
  <1>2. /\ pc' \in [Conversions -> PcValues]
        /\ pc'[c] = "retriever"
        /\ \A d \in Conversions : d # c => pc'[d] = pc[d]
        /\ CrashEndsAll' /\ NotRecordedIsIdle'
    BY <1>1, StepMoves
  <1>3. TypeOK'
    BY <1>1, <1>2 DEF StartTask, ConversionInv, TypeOK, PcValues
  <1>4. NamedBeforeUse'
    BY <1>1, <1>2 DEF ConversionInv, NamedBeforeUse, Named
  <1>5. WritersFinish'
    BY <1>1, StepKeepsWriters
  <1> QED
    BY <1>2, <1>3, <1>4, <1>5 DEF ConversionInv

LEMMA OnPostExecuteCorrect ==
    ASSUME ConversionInv, NEW r \in Recordings, OnPostExecute(r)
    PROVE  ConversionInv'
  <1> DEFINE c == <<r, "task">>
  <1>1. "ended" \in PcValues /\ Goto(c, "ended") /\ ~crashed /\ pc[c] = "returned"
        /\ c \in Conversions
        /\ UNCHANGED <<crashed, recordings, disk, storageFailed, target, input, now, folder,
                        cacheFile, finalUri, error>>
    BY RunningSteps DEF OnPostExecute, At, Goto, PcValues, Conversions, inputVars, diskVars, staticVars
  <1>a. /\ result' = [result EXCEPT ![c] = FALSE]
        /\ shown' = Recipients(r)
    BY DEF OnPostExecute, OpenRecipients
  <1>b. result' \in [Conversions -> BOOLEAN]
    BY <1>a DEF ConversionInv, TypeOK
  <1>c. shown' \in [recording : 0 .. MaxRecordings, compressed : BOOLEAN, state : States]
    BY <1>a, RecipientsType DEF ConversionInv
  <1> HIDE DEF c
  <1>2. /\ pc' \in [Conversions -> PcValues]
        /\ pc'[c] = "ended"
        /\ \A d \in Conversions : d # c => pc'[d] = pc[d]
        /\ CrashEndsAll' /\ NotRecordedIsIdle'
    BY <1>1, StepMoves
  <1>3. TypeOK'
    BY <1>1, <1>2, <1>b, <1>c DEF ConversionInv, TypeOK, PcValues
  <1>4. NamedBeforeUse'
    BY <1>1, <1>2 DEF ConversionInv, NamedBeforeUse, Named
  <1>5. WritersFinish'
    BY <1>1, StepKeepsWriters
  <1> QED
    BY <1>2, <1>3, <1>4, <1>5 DEF ConversionInv

LEMMA StutterCorrect ==
    ASSUME ConversionInv, UNCHANGED vars
    PROVE  ConversionInv'
  BY DEF ConversionInv, TypeOK, NamedBeforeUse, CrashEndsAll, NotRecordedIsIdle, WritersFinish,
         vars, inputVars, convVars, staticVars, diskVars

-----------------------------------------------------------------------------
(***************************************************************************)
(* The invariant: types, and what is known of whoever has a file open.     *)
(***************************************************************************)
THEOREM ConversionCorrect == Spec => []ConversionInv
  <1>1. ConversionInv /\ [Next]_vars => ConversionInv'
    <2> SUFFICES ASSUME ConversionInv, [Next]_vars PROVE ConversionInv'
      OBVIOUS
    <2>1. CASE Record
      BY <2>1, RecordCorrect
    <2>2. CASE Idle \/ UNCHANGED vars
      BY <2>2, StutterCorrect DEF Idle
    <2>3. ASSUME NEW r \in Recordings, StartTask(r) \/ OnPostExecute(r)
          PROVE  ConversionInv'
      BY <2>3, StartTaskCorrect, OnPostExecuteCorrect
    <2>4. ASSUME NEW c \in Conversions, ConvertVideo(c)
          PROVE  ConversionInv'
      BY <2>4, OpenRetrieverCorrect, ProcessEndsCorrect, NameCacheFileCorrect, TakeUriCorrect,
         CheckInputCorrect, CreateMovieCorrect, CreateMovieFailsCorrect,
         ExtractAndPumpCorrect, FinishMovieCorrect, FinishMovieThrowsCorrect,
         DeleteInputCorrect
      DEF ConvertVideo, Crash, LogThrows
    <2> QED
      BY <2>1, <2>2, <2>3, <2>4 DEF Next
  <1> QED
    BY <1>1, InitCorrect, PTL DEF Spec

(***************************************************************************)
(* The static fields always name a second, or were never assigned, and a   *)
(* conversion that writes has a file.                                      *)
(***************************************************************************)
THEOREM TypeCorrect == Spec => []TypeOK
  <1>1. ConversionInv => TypeOK
    BY DEF ConversionInv
  <1> QED
    BY <1>1, ConversionCorrect, PTL

(***************************************************************************)
(* On no path through convertVideo, for any number of conversions that     *)
(* share the static fields, is a file left open unless storage failed.     *)
(***************************************************************************)
THEOREM NoFileLeaks == Spec => []FilesFinished
  <1>1. ConversionInv => FilesFinished
    <2> SUFFICES ASSUME ConversionInv, NEW s \in Seconds, NEW c \in disk[s].writers,
                        pc[c] \in {"returned", "ended"}
                 PROVE  c \in storageFailed
      BY DEF FilesFinished
    <2>1. c \in Conversions
      BY DEF ConversionInv, TypeOK, File
    <2> QED
      BY <2>1 DEF ConversionInv, WritersFinish, CrashEndsAll
  <1> QED
    BY <1>1, ConversionCorrect, PTL
=============================================================================
