------------------------- MODULE PostUpload_proofs -------------------------
(***************************************************************************)
(* Sharing a recording, for any number of screens and uploads.             *)
(***************************************************************************)
EXTENDS PostUpload, FiniteSetTheorems, SequenceTheorems, TLAPS

(***************************************************************************)
(* Why the number of posts is bounded: an upload that may still become a   *)
(* post, or is one, has used up a screen, and a screen whose button is     *)
(* enabled is not used up.  An upload gives its screen back only when it   *)
(* has failed, and then it cannot become a post any more, since nothing of *)
(* it is on the wire.                                                      *)
(***************************************************************************)
ScreenLeft == activity = "recreating" => screen < MaxScreens

PostsOnWire == {i \in 1 .. Len(wire) : wire[i].kind = "post"}

WireIsWriting == \A i \in PostsOnWire : stage[wire[i].upload] = "writing"
WireHasOnePost == \A i, j \in PostsOnWire : wire[i].upload = wire[j].upload => i = j

PostsAreWritten == \A u \in posts : stage[u] \in {"written", "ended"}

Alive == {u \in Uploads : stage[u] \in Running} \cup posts
Room ==
    /\ Cardinality(Alive) <= screen
    /\ shareAround => Cardinality(Alive) < screen

(* setLocation is sent before the post (UploadFragment, lines 190-193).    *)
PointDecided(u) == u \in points \cup refused
PointOnWire(u, i) == \E j \in 1 .. i - 1 : wire[j] = [kind |-> "point", upload |-> u]
PointComesFirst ==
    \A i \in PostsOnWire : PointDecided(wire[i].upload) \/ PointOnWire(wire[i].upload, i)

WireInv == WireIsWriting /\ WireHasOnePost /\ PostsAreWritten /\ PointComesFirst /\ PostHasPoint

UploadInv == TypeOK /\ ScreenLeft /\ WireInv /\ Room

-----------------------------------------------------------------------------
(***************************************************************************)
(* Types.  OnAttach has a screen left, because OnDetach asks for one.      *)
(***************************************************************************)
LEMMA InitTypes == Init => TypeOK /\ ScreenLeft
  <1> SUFFICES ASSUME Init PROVE TypeOK /\ ScreenLeft
    OBVIOUS
  <1>1. screen \in Screens
    BY UploadAssumption DEF Init, Screens
  <1>2. {media, dialog, shareAround, crashed} \subseteq BOOLEAN
    BY DEF Init
  <1>3. /\ stage \in [Uploads -> Running \cup {"none", "silent", "ended"}]
        /\ owner \in [Uploads -> Screens \cup {0}]
        /\ holds \in [Uploads -> BOOLEAN]
        /\ told \in [Uploads -> {"nothing", "shared", "error"}]
    BY DEF Init
  <1>4. wire \in Seq(Writes) /\ {points, posts, refused} \subseteq SUBSET Uploads
    BY DEF Init
  <1> QED
    BY <1>1, <1>2, <1>3, <1>4 DEF Init, TypeOK, ScreenLeft

LEMMA WritesOfTypes == ASSUME NEW u \in Uploads PROVE WritesOf(u) \in Seq(Writes)
  BY DEF WritesOf, Writes

LEMMA OnPostUploadedTypes ==
    ASSUME TypeOK, NEW u \in Uploads, NEW outcome \in {"shared", "error"},
           OnPostUploaded(u, outcome)
    PROVE  /\ activity' \in {"shown", "finishing", "recreating", "gone"}
           /\ activity' = "recreating" => activity = "recreating"
           /\ {dialog, shareAround, crashed}' \subseteq BOOLEAN
           /\ stage' \in [Uploads -> Running \cup {"none", "silent", "ended"}]
           /\ told' \in [Uploads -> {"nothing", "shared", "error"}]
  BY DEF OnPostUploaded, Shared, GoTo, TypeOK, viewVars

LEMMA NextTypes == TypeOK /\ ScreenLeft /\ [Next]_vars => TypeOK' /\ ScreenLeft'
  <1> SUFFICES ASSUME TypeOK, ScreenLeft, [Next]_vars PROVE TypeOK' /\ ScreenLeft'
    OBVIOUS
  <1>1. CASE SendWithoutLocation \/ Leave
    BY <1>1 DEF SendWithoutLocation, Leave, ShowProgress, Touchable, TypeOK, ScreenLeft,
                screenVars, taskVars, serverVars
  <1>2. CASE OnDetach
    BY <1>2 DEF OnDetach, TypeOK, ScreenLeft, screenVars, taskVars, serverVars
  <1>3. CASE OnAttach
    BY <1>3, UploadAssumption DEF OnAttach, TypeOK, ScreenLeft, Screens, taskVars, serverVars
  <1>4. ASSUME NEW u \in Uploads, Send(u) PROVE TypeOK' /\ ScreenLeft'
    BY <1>4 DEF Send, ShowProgress, Touchable, TypeOK, ScreenLeft, Running, screenVars, serverVars
  <1>5. ASSUME NEW u \in Uploads, DoInBackground(u) PROVE TypeOK' /\ ScreenLeft'
    BY <1>5 DEF DoInBackground, GoTo, TypeOK, ScreenLeft, Running, screenVars, viewVars, taskVars,
                serverVars
  <1>6. ASSUME NEW u \in Uploads, VideoStored(u) PROVE TypeOK' /\ ScreenLeft'
    BY <1>6 DEF VideoStored, GoTo, TypeOK, ScreenLeft, Running, screenVars, viewVars, taskVars,
                serverVars
  <1>7. ASSUME NEW u \in Uploads, ThumbStored(u) PROVE TypeOK' /\ ScreenLeft'
    <2>1. wire' \in Seq(Writes)
      BY <1>7, WritesOfTypes, ConcatProperties DEF ThumbStored, TypeOK
    <2> QED
      BY <1>7, <2>1 DEF ThumbStored, GoTo, TypeOK, ScreenLeft, Running, screenVars, viewVars,
                        taskVars, serverVars
  <1>8. ASSUME NEW u \in Uploads, StorageFails(u) \/ OnComplete(u) PROVE TypeOK' /\ ScreenLeft'
    <2>1. \E outcome \in {"shared", "error"} : OnPostUploaded(u, outcome)
      BY <1>8 DEF StorageFails, OnComplete
    <2>2. UNCHANGED <<screenVars, taskVars, wire, serverVars>>
      BY <1>8 DEF StorageFails, OnComplete
    <2> QED
      BY <2>1, <2>2, OnPostUploadedTypes DEF TypeOK, ScreenLeft, screenVars, taskVars, serverVars
  <1>9. CASE ServerWrites
    <2>1. Head(wire) \in Writes /\ wire' \in Seq(Writes)
      BY <1>9, HeadTailProperties DEF ServerWrites, TypeOK
    <2>2. Head(wire).kind = "post" => Head(wire).upload \in Uploads
      BY <2>1 DEF Writes
    <2>3. Head(wire).upload \in Uploads
      BY <2>1 DEF Writes
    <2> QED
      BY <1>9, <2>1, <2>3 DEF ServerWrites, GoTo, TypeOK, ScreenLeft, Running, screenVars,
                              viewVars, taskVars, serverVars
  <1>10. CASE UNCHANGED vars
    BY <1>10 DEF vars, TypeOK, ScreenLeft, screenVars, viewVars, taskVars, serverVars
  <1> QED
    BY <1>1, <1>2, <1>3, <1>4, <1>5, <1>6, <1>7, <1>8, <1>9, <1>10 DEF Next, UploadStep

-----------------------------------------------------------------------------
(***************************************************************************)
(* The wire.  Most steps leave it alone, and with it the uploads that have *)
(* a post there or on the server.                                          *)
(***************************************************************************)
LEMMA WireStays ==
    ASSUME TypeOK, WireInv, UNCHANGED <<wire, serverVars>>,
           \A u \in Uploads : stage[u] = "writing" => stage'[u] = "writing",
           \A u \in Uploads : stage[u] \in {"written", "ended"} => stage'[u] \in {"written", "ended"}
    PROVE  WireInv'
  <1>1. \A i \in PostsOnWire : wire[i].upload \in Uploads
    <2>1. \A i \in 1 .. Len(wire) : wire[i] \in Writes
      BY DEF TypeOK
    <2> QED
      BY <2>1 DEF PostsOnWire, Writes
  <1>2. posts \subseteq Uploads
    BY DEF TypeOK
  <1>3. PostsOnWire' = PostsOnWire
    BY DEF PostsOnWire
  <1>4. WireIsWriting' /\ WireHasOnePost'
    BY <1>1, <1>3 DEF WireInv, WireIsWriting, WireHasOnePost
  <1>5. PostsAreWritten'
    BY <1>2 DEF WireInv, PostsAreWritten, serverVars
  <1>6. PointComesFirst' /\ PostHasPoint'
    BY <1>3 DEF WireInv, PointComesFirst, PointDecided, PointOnWire, PostHasPoint, serverVars
  <1> QED
    BY <1>4, <1>5, <1>6 DEF WireInv

(* The two writes of an upload go out together, the geo-point first.       *)
LEMMA WritesGoOut ==
    ASSUME TypeOK, WireInv, NEW u \in Uploads, ThumbStored(u)
    PROVE  WireInv'
  <1> DEFINE n == Len(wire)
  <1>1. /\ wire \in Seq(Writes) /\ n \in Nat /\ WritesOf(u) \in Seq(Writes)
        /\ Len(WritesOf(u)) = 2
        /\ WritesOf(u)[1] = [kind |-> "point", upload |-> u]
        /\ WritesOf(u)[2] = [kind |-> "post", upload |-> u]
    BY WritesOfTypes DEF TypeOK, WritesOf
  <1>2. /\ Len(wire') = n + 2
        /\ \A i \in 1 .. n : wire'[i] = wire[i]
        /\ wire'[n + 1] = [kind |-> "point", upload |-> u]
        /\ wire'[n + 2] = [kind |-> "post", upload |-> u]
    <2>1. wire' = wire \o WritesOf(u)
      BY DEF ThumbStored
    <2>2. /\ Len(wire') = n + 2
          /\ \A i \in 1 .. n + 2 : wire'[i] = IF i <= n THEN wire[i] ELSE WritesOf(u)[i - n]
      <3>1. /\ Len(wire \o WritesOf(u)) = Len(wire) + Len(WritesOf(u))
            /\ \A i \in 1 .. Len(wire) + Len(WritesOf(u)) :
                   (wire \o WritesOf(u))[i] =
                       IF i <= Len(wire) THEN wire[i] ELSE WritesOf(u)[i - Len(wire)]
        <4> HIDE DEF n
        <4> QED
          BY <1>1, ConcatProperties, Zenon
      <3> QED
        BY <1>1, <2>1, <3>1, Zenon
    <2> HIDE DEF n
    <2>3. (n + 1) - n = 1 /\ (n + 2) - n = 2 /\ n + 1 \in 1 .. n + 2 /\ n + 2 \in 1 .. n + 2
      BY <1>1
    <2>4. ~(n + 1 <= n) /\ ~(n + 2 <= n) /\ \A i \in 1 .. n : i \in 1 .. n + 2 /\ i <= n
      BY <1>1
    <2>5. \A i \in 1 .. n : wire'[i] = wire[i]
      BY <2>2, <2>4, Zenon
    <2>6. wire'[n + 1] = WritesOf(u)[1] /\ wire'[n + 2] = WritesOf(u)[2]
      BY <2>2, <2>3, <2>4, Zenon
    <2> QED
      BY <1>1, <2>2, <2>5, <2>6, Zenon
  <1>3. \A i \in PostsOnWire : wire[i].upload \in Uploads /\ wire[i].upload # u
    <2>1. stage[u] = "thumb"
      BY DEF ThumbStored
    <2>2. \A i \in 1 .. n : wire[i] \in Writes
      BY <1>1
    <2> QED
      BY <2>1, <2>2 DEF PostsOnWire, WireInv, WireIsWriting, Writes
  <1> HIDE DEF n
  <1>4. PostsOnWire' = PostsOnWire \cup {n + 2}
    <2>1. PostsOnWire' = {i \in 1 .. n + 2 : wire'[i].kind = "post"}
      BY <1>2 DEF PostsOnWire
    <2>2. PostsOnWire = {i \in 1 .. n : wire[i].kind = "post"}
      BY DEF PostsOnWire, n
    <2>3. 1 .. n + 2 = (1 .. n) \cup {n + 1, n + 2}
      BY <1>1
    <2>4. wire'[n + 1].kind # "post" /\ wire'[n + 2].kind = "post"
      BY <1>2
    <2> QED
      BY <1>2, <2>1, <2>2, <2>3, <2>4
  <1>5. /\ \A i \in PostsOnWire : i \in 1 .. n /\ i # n + 2 /\ wire'[i] = wire[i]
        /\ wire'[n + 2].upload = u
    BY <1>1, <1>2 DEF PostsOnWire, n
  <1>6. WireIsWriting'
    <2>1. stage' = [stage EXCEPT ![u] = "writing"] /\ stage'[u] = "writing"
      BY DEF ThumbStored, GoTo, TypeOK
    <2> QED
      BY <1>3, <1>4, <1>5, <2>1 DEF WireInv, WireIsWriting, TypeOK
  <1>7. WireHasOnePost'
    BY <1>3, <1>4, <1>5 DEF WireInv, WireHasOnePost
  <1>8. PostsAreWritten' /\ PostHasPoint'
    BY DEF ThumbStored, GoTo, TypeOK, WireInv, PostsAreWritten, PostHasPoint, serverVars
  <1>9. PointComesFirst'
    <2>1. ASSUME NEW i \in PostsOnWire
          PROVE  (PointDecided(wire[i].upload) \/ PointOnWire(wire[i].upload, i))'
      <3>1. PointDecided(wire[i].upload) \/ PointOnWire(wire[i].upload, i)
        BY DEF WireInv, PointComesFirst
      <3>2. \A j \in 1 .. i - 1 : wire'[j] = wire[j]
        BY <1>1, <1>2, <1>5
      <3> QED
        BY <1>5, <3>1, <3>2 DEF PointDecided, PointOnWire, ThumbStored, serverVars
    <2>2. n + 1 \in 1 .. (n + 2) - 1
      BY <1>1
    <2>3. \E j \in 1 .. (n + 2) - 1 : wire'[j] = [kind |-> "point", upload |-> wire'[n + 2].upload]
      BY <1>2, <1>5, <2>2
    <2>4. ASSUME NEW i \in PostsOnWire', i = n + 2
          PROVE  (PointDecided(wire[i].upload) \/ PointOnWire(wire[i].upload, i))'
      BY <2>3, <2>4 DEF PointOnWire
    <2> QED
      BY <1>4, <2>1, <2>4 DEF PointComesFirst
  <1> QED
    BY <1>6, <1>7, <1>8, <1>9 DEF WireInv

(* The server takes the first write.  What it decides stays decided.       *)
LEMMA ServerDecides ==
    ASSUME TypeOK, WireInv, ServerWrites
    PROVE  WireInv'
  <1> DEFINE u == Head(wire).upload
  <1>1. /\ wire \in Seq(Writes) /\ wire # <<>> /\ wire' = Tail(wire)
        /\ Len(wire) \in Nat /\ Len(wire) >= 1 /\ Head(wire) = wire[1]
        /\ wire[1] \in Writes /\ u \in Uploads
    <2>1. wire \in Seq(Writes) /\ wire # <<>> /\ wire' = Tail(wire) /\ Head(wire) = wire[1]
      BY DEF ServerWrites, TypeOK
    <2>2. Len(wire) \in Nat /\ Len(wire) >= 1
      BY <2>1
    <2>3. wire[1] \in Writes
      BY <2>1, <2>2
    <2> QED
      BY <2>1, <2>2, <2>3 DEF Writes
  <1>2. ASSUME NEW i \in PostsOnWire'
        PROVE  /\ i \in Nat \ {0} /\ i + 1 \in PostsOnWire /\ i + 1 # 1
               /\ wire'[i] = wire[i + 1] /\ wire'[i].upload \in Uploads
    <2>1. i \in 1 .. Len(wire') /\ wire'[i].kind = "post"
      BY DEF PostsOnWire
    <2>2. /\ Len(wire') = Len(wire) - 1
          /\ \A j \in 1 .. Len(wire') : wire'[j] = wire[j + 1]
      BY <1>1, HeadTailProperties, Zenon
    <2>3. i \in Nat \ {0} /\ i + 1 \in 1 .. Len(wire) /\ i + 1 # 1
      BY <1>1, <2>1, <2>2
    <2>4. wire'[i] = wire[i + 1]
      BY <2>1, <2>2
    <2>5. wire[i + 1] \in Writes
      BY <1>1, <2>3
    <2> QED
      BY <2>1, <2>3, <2>4, <2>5 DEF PostsOnWire, Writes
  <1>3. Head(wire).kind = "post" => 1 \in PostsOnWire
    BY <1>1 DEF PostsOnWire
  <1>4. /\ Head(wire).kind = "post" => stage[u] = "writing"
        /\ \A i \in PostsOnWire' : Head(wire).kind = "post" => wire'[i].upload # u
    BY <1>1, <1>2, <1>3 DEF WireInv, WireIsWriting, WireHasOnePost
  <1>5. /\ Head(wire).kind = "point" => stage' = stage
        /\ \A v \in Uploads : v # u => stage'[v] = stage[v]
    BY <1>1 DEF ServerWrites, GoTo, TypeOK
  <1>6. Head(wire).kind \in {"point", "post"}
    BY <1>1 DEF Writes
  <1>7. WireIsWriting' /\ WireHasOnePost'
    <2>1. ASSUME NEW i \in PostsOnWire' PROVE stage'[wire'[i].upload] = "writing"
      <3>1. stage[wire'[i].upload] = "writing"
        BY <1>2 DEF WireInv, WireIsWriting
      <3> QED
        BY <1>2, <1>4, <1>5, <1>6, <3>1
    <2>2. ASSUME NEW i \in PostsOnWire', NEW j \in PostsOnWire', wire'[i].upload = wire'[j].upload
          PROVE  i = j
      <3>1. i + 1 = j + 1
        BY <1>2, <2>2 DEF WireInv, WireHasOnePost
      <3> QED
        BY <1>2, <3>1
    <2> QED
      BY <2>1, <2>2 DEF WireIsWriting, WireHasOnePost
  <1>8. PostsAreWritten'
    <2>1. Head(wire).kind = "post" => u \notin posts
      BY <1>4 DEF WireInv, PostsAreWritten
    <2>2. \/ posts' = posts
          \/ posts' = posts \cup {u} /\ stage'[u] = "written"
      BY <1>1 DEF ServerWrites, GoTo, TypeOK, serverVars
    <2>3. posts \subseteq Uploads
      BY DEF TypeOK
    <2> QED
      BY <1>5, <1>6, <2>1, <2>2, <2>3 DEF WireInv, PostsAreWritten
  <1>9. \A v : PointDecided(v) => PointDecided(v)'
    BY DEF ServerWrites, PointDecided, serverVars
  <1>10. PointComesFirst'
    <2> SUFFICES ASSUME NEW i \in PostsOnWire'
                 PROVE  (PointDecided(wire[i].upload) \/ PointOnWire(wire[i].upload, i))'
      BY DEF PointComesFirst
    <2>1. PointDecided(wire'[i].upload) \/ PointOnWire(wire'[i].upload, i + 1)
      BY <1>2 DEF WireInv, PointComesFirst
    <2>2. CASE PointDecided(wire'[i].upload)
      BY <1>9, <2>2 DEF PointDecided
    <2>3. CASE PointOnWire(wire'[i].upload, i + 1)
      <3>1. PICK j \in 1 .. (i + 1) - 1 : wire[j] = [kind |-> "point", upload |-> wire'[i].upload]
        BY <2>3 DEF PointOnWire
      <3>2. CASE j = 1
        <4>1. Head(wire) = [kind |-> "point", upload |-> wire'[i].upload]
          BY <1>1, <3>1, <3>2
        <4>2. Head(wire).kind = "point" /\ u = wire'[i].upload
          BY <4>1
        <4>3. points' = points \cup {u} \/ refused' = refused \cup {u}
          BY <4>2 DEF ServerWrites
        <4> QED
          BY <4>2, <4>3 DEF PointDecided
      <3>3. CASE j # 1
        <4>1. j - 1 \in 1 .. i - 1 /\ j - 1 \in 1 .. Len(wire') /\ (j - 1) + 1 = j
          BY <1>2, <3>1, <3>3 DEF PostsOnWire
        <4>2. wire'[j - 1] = wire[j]
          <5>1. \A m \in 1 .. Len(wire') : wire'[m] = wire[m + 1]
            BY <1>1, HeadTailProperties, Zenon
          <5> QED
            BY <4>1, <5>1
        <4> QED
          BY <3>1, <4>1, <4>2 DEF PointOnWire
      <3> QED
        BY <3>2, <3>3
    <2> QED
      BY <2>1, <2>2, <2>3
  <1>11. PostHasPoint'
    <2>1. Head(wire).kind = "post" => PointDecided(u)
      <3>1. \A v : ~PointOnWire(v, 1)
        BY DEF PointOnWire
      <3> QED
        BY <1>1, <1>3, <3>1 DEF WireInv, PointComesFirst
    <2>2. \/ posts' = posts
          \/ posts' = posts \cup {u} /\ Head(wire).kind = "post"
      BY DEF ServerWrites, serverVars
    <2>3. points \cup refused \subseteq points' \cup refused'
      BY DEF ServerWrites, serverVars
    <2> QED
      BY <2>1, <2>2, <2>3 DEF WireInv, PostHasPoint, PointDecided
  <1> QED
    BY <1>7, <1>8, <1>10, <1>11 DEF WireInv

LEMMA NextWire == TypeOK /\ WireInv /\ [Next]_vars => WireInv'
  <1> SUFFICES ASSUME TypeOK, WireInv, [Next]_vars PROVE WireInv'
    OBVIOUS
  <1>1. CASE SendWithoutLocation \/ Leave \/ OnDetach \/ OnAttach \/ UNCHANGED vars
    BY <1>1, WireStays DEF SendWithoutLocation, Leave, OnDetach, OnAttach, vars
  <1>2. ASSUME NEW u \in Uploads, Send(u) \/ DoInBackground(u) \/ VideoStored(u) PROVE WireInv'
    <2>1. /\ UNCHANGED <<wire, serverVars>>
          /\ stage[u] \in {"none", "queued", "video"}
          /\ \E s : stage' = [stage EXCEPT ![u] = s]
      BY <1>2 DEF Send, DoInBackground, VideoStored, GoTo, TypeOK
    <2> QED
      BY <2>1, WireStays DEF TypeOK
  <1>3. ASSUME NEW u \in Uploads, StorageFails(u) \/ OnComplete(u) PROVE WireInv'
    <2>1. /\ UNCHANGED <<wire, serverVars>>
          /\ stage[u] \in {"video", "thumb", "written", "rejected"}
          /\ stage' = stage \/ stage' = [stage EXCEPT ![u] = "ended"]
      BY <1>3 DEF StorageFails, OnComplete, OnPostUploaded, GoTo
    <2> QED
      BY <2>1, WireStays DEF TypeOK
  <1> QED
    BY <1>1, <1>2, <1>3, WritesGoOut, ServerDecides DEF Next, UploadStep

-----------------------------------------------------------------------------
(***************************************************************************)
(* How many uploads may become posts.                                      *)
(***************************************************************************)
LEMMA AliveIsFinite ==
    ASSUME TypeOK
    PROVE  IsFiniteSet(Alive) /\ Cardinality(Alive) \in Nat /\ screen \in Nat
  <1>1. IsFiniteSet(Uploads)
    BY UploadAssumption, FS_Interval DEF Uploads
  <1>2. Alive \in SUBSET Uploads
    BY DEF Alive, TypeOK
  <1> QED
    BY <1>1, <1>2, FS_Subset, FS_CardinalityType DEF TypeOK, Screens

LEMMA RoomStays ==
    ASSUME TypeOK, TypeOK', Room, Alive' \subseteq Alive, screen' = screen,
           shareAround' => shareAround
    PROVE  Room'
  <1>1. Cardinality(Alive') <= Cardinality(Alive) /\ Cardinality(Alive') \in Nat
    BY AliveIsFinite, FS_Subset, FS_CardinalityType
  <1> QED
    BY <1>1, AliveIsFinite DEF Room

(* A failed upload makes room for another, which the button then allows.   *)
LEMMA RoomAfterAnswer ==
    ASSUME TypeOK, TypeOK', PostsAreWritten, Room, NEW u \in Uploads,
           StorageFails(u) \/ OnComplete(u)
    PROVE  Room'
  <1>1. screen' = screen /\ posts' = posts
    BY DEF StorageFails, OnComplete, screenVars, serverVars
  <1>2. CASE stage' = stage
    <2>1. Alive' = Alive /\ shareAround' = shareAround
      BY <1>1, <1>2 DEF Alive, StorageFails, OnComplete, OnPostUploaded, GoTo, viewVars, TypeOK,
                        Running
    <2> QED
      BY <1>1, <2>1, RoomStays
  <1>3. CASE stage' = [stage EXCEPT ![u] = "ended"] /\ shareAround' = FALSE
    <2>1. Alive' \subseteq Alive
      BY <1>1, <1>3 DEF Alive, TypeOK, Running
    <2> QED
      BY <1>1, <1>3, <2>1, RoomStays
  <1>4. CASE /\ stage' = [stage EXCEPT ![u] = "ended"]
             /\ stage[u] \in {"video", "thumb", "rejected"}
    <2>1. u \notin posts
      BY <1>4 DEF PostsAreWritten
    <2>2. u \in Alive /\ Alive' = Alive \ {u}
      BY <1>1, <1>4, <2>1 DEF Alive, TypeOK, Running
    <2>3. Cardinality(Alive') = Cardinality(Alive) - 1
      BY <2>2, AliveIsFinite, FS_RemoveElement
    <2> QED
      BY <1>1, <2>3, AliveIsFinite DEF Room
  <1>5. \/ stage' = stage
        \/ stage' = [stage EXCEPT ![u] = "ended"] /\ shareAround' = FALSE
        \/ stage' = [stage EXCEPT ![u] = "ended"] /\ stage[u] \in {"video", "thumb", "rejected"}
    BY DEF StorageFails, OnComplete, OnPostUploaded, Shared, GoTo
  <1> QED
    BY <1>2, <1>3, <1>4, <1>5

LEMMA NextRoom ==
    ASSUME TypeOK, TypeOK', ScreenLeft, WireInv, Room, [Next]_vars
    PROVE  Room'
  <1>1. CASE SendWithoutLocation \/ Leave \/ OnDetach \/ UNCHANGED vars
    <2>1. UNCHANGED <<stage, posts, screen>> /\ (shareAround' => shareAround)
      BY <1>1 DEF SendWithoutLocation, Leave, OnDetach, ShowProgress, vars, screenVars, viewVars,
                  serverVars
    <2> QED
      BY <2>1, RoomStays DEF Alive
  <1>2. CASE OnAttach
    <2>1. Alive' = Alive /\ screen' = screen + 1
      BY <1>2 DEF OnAttach, Alive, serverVars
    <2> QED
      BY <2>1, AliveIsFinite DEF Room
  <1>3. ASSUME NEW u \in Uploads, Send(u) PROVE Room'
    <2>1. Alive' \subseteq Alive \cup {u}
      BY <1>3 DEF Send, Alive, TypeOK, Running, serverVars
    <2>2. shareAround /\ shareAround' = FALSE /\ screen' = screen
      BY <1>3 DEF Send, ShowProgress, screenVars
    <2>3. /\ IsFiniteSet(Alive \cup {u})
          /\ Cardinality(Alive \cup {u}) \in {Cardinality(Alive), Cardinality(Alive) + 1}
      BY AliveIsFinite, FS_AddElement
    <2>4. Cardinality(Alive') <= Cardinality(Alive \cup {u}) /\ Cardinality(Alive') \in Nat
      BY <2>1, <2>3, FS_Subset, FS_CardinalityType
    <2> QED
      BY <2>2, <2>3, <2>4, AliveIsFinite DEF Room
  <1>4. ASSUME NEW u \in Uploads, DoInBackground(u) \/ VideoStored(u) \/ ThumbStored(u)
        PROVE  Room'
    <2>1. UNCHANGED <<posts, screen, shareAround>> /\ stage[u] \in Running
      BY <1>4 DEF DoInBackground, VideoStored, ThumbStored, screenVars, viewVars, serverVars, Running
    <2>2. Alive' \subseteq Alive
      <3>1. \A v \in Uploads : v # u => stage'[v] = stage[v]
        BY <1>4 DEF DoInBackground, VideoStored, ThumbStored, GoTo, TypeOK
      <3> QED
        BY <2>1, <3>1 DEF Alive, TypeOK
    <2> QED
      BY <2>1, <2>2, RoomStays
  <1>5. ASSUME NEW u \in Uploads, StorageFails(u) \/ OnComplete(u) PROVE Room'
    BY <1>5, RoomAfterAnswer DEF WireInv
  <1>6. CASE ServerWrites
    <2> DEFINE u == Head(wire).upload
    <2>1. screen' = screen /\ shareAround' = shareAround
      BY <1>6 DEF ServerWrites, screenVars, viewVars
    <2>2. CASE UNCHANGED <<posts, stage>>
      BY <2>1, <2>2, RoomStays DEF Alive
    <2>3. CASE Head(wire).kind = "post" /\ posts' \subseteq posts \cup {u}
               /\ \E s : stage' = [stage EXCEPT ![u] = s]
      <3>1. 1 \in 1 .. Len(wire) /\ wire[1] = Head(wire) /\ Head(wire) \in Writes
        BY <1>6, HeadTailProperties DEF ServerWrites, TypeOK
      <3>2. u \in Uploads /\ stage[u] = "writing"
        BY <2>3, <3>1 DEF Writes, WireInv, WireIsWriting, PostsOnWire
      <3>3. \A v \in Uploads : v # u => stage'[v] = stage[v]
        BY <2>3, <3>2 DEF TypeOK
      <3>4. Alive' \subseteq Alive
        BY <2>3, <3>2, <3>3 DEF Alive, Running
      <3> QED
        BY <2>1, <3>4, RoomStays
    <2>4. \/ UNCHANGED <<posts, stage>>
          \/ /\ Head(wire).kind = "post" /\ posts' \subseteq posts \cup {u}
             /\ \E s : stage' = [stage EXCEPT ![u] = s]
      BY <1>6 DEF ServerWrites, GoTo, serverVars
    <2> QED
      BY <2>2, <2>3, <2>4
  <1> QED
    BY <1>1, <1>2, <1>3, <1>4, <1>5, <1>6 DEF Next, UploadStep

-----------------------------------------------------------------------------
LEMMA InitUpload == Init => UploadInv
  <1> SUFFICES ASSUME Init PROVE UploadInv
    OBVIOUS
  <1>1. WireInv
    BY DEF Init, WireInv, WireIsWriting, WireHasOnePost, PostsAreWritten, PointComesFirst,
           PostHasPoint, PostsOnWire
  <1>2. Room
    <2>1. Alive = {} /\ screen = 1
      BY DEF Init, Alive, Running
    <2> QED
      BY <2>1, FS_EmptySet DEF Room
  <1> QED
    BY <1>1, <1>2, InitTypes DEF UploadInv

(***************************************************************************)
(* The invariant of one shared recording, whatever the interleaving of     *)
(* taps, recreations, tasks and answers.                                   *)
(***************************************************************************)
THEOREM UploadCorrect == Spec => []UploadInv
  <1>1. UploadInv /\ [Next]_vars => UploadInv'
    BY NextTypes, NextWire, NextRoom DEF UploadInv
  <1> QED
    BY InitUpload, <1>1, PTL DEF Spec

(* The variables keep their types (RecipientsActivity, UploadFragment).    *)
THEOREM TypeCorrect == Spec => []TypeOK
  BY UploadCorrect, PTL DEF UploadInv

(***************************************************************************)
(* No post is visible before the database has decided on its geo-point     *)
(* (UploadFragment.UploadPostTask, the two writes at the end).             *)
(***************************************************************************)
THEOREM PostsHavePoints == Spec => []PostHasPoint
  BY UploadCorrect, PTL DEF UploadInv, WireInv

(***************************************************************************)
(* However often the user taps and whatever fails, a recording is posted   *)
(* at most once for each instance of the screen (RecipientsActivity.send,  *)
(* onPostUploaded).                                                        *)
(***************************************************************************)
THEOREM PostsPerScreen == Spec => []OnePostPerScreen
  <1>1. UploadInv => OnePostPerScreen
    <2> SUFFICES ASSUME UploadInv PROVE OnePostPerScreen
      OBVIOUS
    <2>1. Cardinality(posts) <= Cardinality(Alive) /\ Cardinality(posts) \in Nat
      BY AliveIsFinite, FS_Subset, FS_CardinalityType DEF UploadInv, Alive
    <2> QED
      BY <2>1, AliveIsFinite DEF UploadInv, Room, OnePostPerScreen
  <1> QED
    BY UploadCorrect, <1>1, PTL

-----------------------------------------------------------------------------
(***************************************************************************)
(* The first screen.  The dialog that the only upload showed stays until   *)
(* the activity goes, or until the upload was shared, and then the button  *)
(* stays disabled: no second upload starts while the screen is touchable.  *)
(***************************************************************************)
Sent == {u \in Uploads : stage[u] # "none"}

Covered ==
    \/ dialog
    \/ ~shareAround /\ \A u \in Sent : stage[u] = "ended"

FirstScreen ==
    screen = 1 =>
        /\ \A u, v \in Sent : u = v
        /\ activity = "shown" /\ Sent # {} => dialog
        /\ activity = "finishing" /\ Sent # {} => Covered

CrashesDetached == crashed => Detached

FirstInv == UploadInv /\ FirstScreen /\ CrashesDetached

(* Once u waits in the first screen: nothing else was sent, and whoever    *)
(* leaves has seen u end.                                                  *)
AloneOnFirst(u) ==
    /\ screen = 1 /\ ~crashed /\ Sent = {u}
    /\ \/ activity = "shown" /\ dialog
       \/ activity \in {"finishing", "gone"} /\ stage[u] = "ended" /\ ~shareAround

Safe(u) == screen > 1 \/ activity = "recreating" \/ AloneOnFirst(u)

(* A post on the wire belongs to an upload that is writing.                *)
LEMMA ServerMoves ==
    ASSUME UploadInv, ServerWrites
    PROVE  /\ UNCHANGED <<screenVars, viewVars, taskVars, told, crashed>>
           /\ Sent' = Sent
           /\ \A v \in Uploads : stage[v] = "ended" => stage'[v] = "ended"
  <1>1. UNCHANGED <<screenVars, viewVars, taskVars, told, crashed>>
    BY DEF ServerWrites
  <1> DEFINE u == Head(wire).upload
  <1>2. CASE stage' = stage
    BY <1>1, <1>2 DEF Sent
  <1>3. CASE Head(wire).kind = "post" /\ \E s \in {"written", "rejected"} : stage' = [stage EXCEPT ![u] = s]
    <2>1. 1 \in 1 .. Len(wire) /\ wire[1] = Head(wire) /\ Head(wire) \in Writes
      BY HeadTailProperties DEF ServerWrites, UploadInv, TypeOK
    <2>2. u \in Uploads /\ stage[u] = "writing"
      BY <1>3, <2>1 DEF Writes, UploadInv, WireInv, WireIsWriting, PostsOnWire
    <2>3. /\ \A v \in Uploads : v # u => stage'[v] = stage[v]
          /\ stage'[u] \in {"written", "rejected"}
      BY <1>3, <2>2 DEF UploadInv, TypeOK
    <2> QED
      BY <1>1, <2>2, <2>3 DEF Sent
  <1>4. \/ stage' = stage
        \/ Head(wire).kind = "post" /\ \E s \in {"written", "rejected"} : stage' = [stage EXCEPT ![u] = s]
    BY DEF ServerWrites, GoTo
  <1> QED
    BY <1>2, <1>3, <1>4

LEMMA NextFirst ==
    ASSUME FirstInv, [Next]_vars
    PROVE  FirstScreen' /\ CrashesDetached'
  <1>0. TypeOK /\ stage \in [Uploads -> Running \cup {"none", "silent", "ended"}]
    BY DEF FirstInv, UploadInv, TypeOK
  <1>1. CASE SendWithoutLocation \/ Leave \/ OnDetach \/ UNCHANGED vars
    <2>1. Sent' = Sent /\ screen' = screen /\ crashed' = crashed
      BY <1>1 DEF SendWithoutLocation, Leave, OnDetach, vars, Sent, screenVars
    <2>2. CrashesDetached'
      BY <1>1, <2>1 DEF FirstInv, CrashesDetached, Detached, SendWithoutLocation, Leave, OnDetach,
                        Touchable, ShowProgress, vars, viewVars
    <2>3. FirstScreen'
      <3>1. CASE SendWithoutLocation
        BY <2>1, <3>1 DEF SendWithoutLocation, ShowProgress, FirstInv, FirstScreen, Covered
      <3>2. CASE Leave
        BY <2>1, <3>2 DEF Leave, Touchable, FirstInv, FirstScreen
      <3>3. CASE OnDetach
        BY <2>1, <3>3 DEF OnDetach, FirstInv, FirstScreen
      <3>4. CASE UNCHANGED vars
        BY <2>1, <3>4 DEF vars, viewVars, FirstInv, FirstScreen, Covered
      <3> QED
        BY <1>1, <3>1, <3>2, <3>3, <3>4
    <2> QED
      BY <2>2, <2>3
  <1>2. CASE OnAttach
    <2>1. screen \in Nat \ {0} /\ screen' = screen + 1 /\ ~crashed'
      BY <1>0, <1>2 DEF OnAttach, TypeOK, Screens
    <2> QED
      BY <2>1 DEF FirstScreen, CrashesDetached
  <1>3. ASSUME NEW u \in Uploads, Send(u) PROVE FirstScreen' /\ CrashesDetached'
    <2>1. /\ screen' = screen /\ ~crashed' /\ dialog' = TRUE
          /\ activity \in {"shown", "finishing"} /\ ~dialog /\ shareAround
      BY <1>3 DEF Send, ShowProgress, Touchable, screenVars
    <2>2. Sent' = Sent \cup {u}
      BY <1>0, <1>3 DEF Send, Sent
    <2>3. screen = 1 => Sent = {}
      BY <2>1 DEF FirstInv, FirstScreen, Covered
    <2> QED
      BY <2>1, <2>2, <2>3 DEF FirstScreen, Covered, CrashesDetached
  <1>4. ASSUME NEW u \in Uploads, DoInBackground(u) \/ VideoStored(u) \/ ThumbStored(u)
        PROVE  FirstScreen' /\ CrashesDetached'
    <2>1. /\ UNCHANGED <<screen, activity, dialog, shareAround>>
          /\ stage[u] \in {"queued", "video", "thumb"}
          /\ \E s \in {"queued", "silent", "video", "thumb", "writing"} : stage' = [stage EXCEPT ![u] = s]
      BY <1>0, <1>4 DEF DoInBackground, VideoStored, ThumbStored, GoTo, screenVars, viewVars
    <2>2. Sent' = Sent /\ \A v \in Uploads : stage[v] = "ended" => stage'[v] = "ended"
      BY <1>0, <2>1 DEF Sent
    <2>3. CrashesDetached'
      BY <1>4, <2>1 DEF DoInBackground, VideoStored, ThumbStored, FirstInv, CrashesDetached, Detached
    <2>4. Covered => Covered'
      BY <2>1, <2>2 DEF Covered, Sent
    <2> QED
      BY <2>1, <2>2, <2>3, <2>4 DEF FirstInv, FirstScreen
  <1>5. ASSUME NEW u \in Uploads, StorageFails(u) \/ OnComplete(u)
        PROVE  FirstScreen' /\ CrashesDetached'
    <2>1. /\ screen' = screen /\ ~crashed /\ activity # "recreating"
          /\ stage[u] \in {"video", "thumb", "written", "rejected"}
      BY <1>5 DEF StorageFails, OnComplete, MainLooper, screenVars
    <2>2. CASE activity = "gone" /\ crashed' = TRUE /\ UNCHANGED <<viewVars, stage, told>>
      BY <2>1, <2>2 DEF FirstInv, FirstScreen, CrashesDetached, Detached, Sent, viewVars
    <2>3. CASE /\ activity # "gone" /\ crashed' = crashed
               /\ stage' = [stage EXCEPT ![u] = "ended"]
               /\ \/ activity' = "finishing" /\ shareAround' = FALSE
                  \/ UNCHANGED <<activity, dialog>>
      <3>1. Sent' = Sent /\ u \in Sent /\ stage'[u] = "ended"
        BY <1>0, <2>1, <2>3 DEF Sent
      <3>2. screen = 1 => Sent = {u}
        BY <3>1 DEF FirstInv, FirstScreen
      <3>3. screen = 1 /\ activity = "finishing" => dialog
        <4>1. ~(\A v \in Sent : stage[v] = "ended")
          BY <2>1, <3>1
        <4> QED
          BY <3>1, <4>1 DEF FirstInv, FirstScreen, Covered
      <3>4. CASE activity' = "finishing" /\ shareAround' = FALSE
        <4>1. screen = 1 => Covered'
          BY <3>1, <3>2, <3>4 DEF Covered
        <4> QED
          BY <2>1, <2>3, <3>1, <3>4, <4>1 DEF FirstInv, FirstScreen, CrashesDetached
      <3>5. CASE UNCHANGED <<activity, dialog>>
        <4>1. dialog => Covered'
          BY <3>5 DEF Covered
        <4> QED
          BY <2>1, <2>3, <3>1, <3>3, <3>5, <4>1 DEF FirstInv, FirstScreen, CrashesDetached
      <3> QED
        BY <2>3, <3>4, <3>5
    <2>4. \/ activity = "gone" /\ crashed' = TRUE /\ UNCHANGED <<viewVars, stage, told>>
          \/ /\ activity # "gone" /\ crashed' = crashed
             /\ stage' = [stage EXCEPT ![u] = "ended"]
             /\ \/ activity' = "finishing" /\ shareAround' = FALSE
                \/ UNCHANGED <<activity, dialog>>
      BY <1>5 DEF StorageFails, OnComplete, OnPostUploaded, Shared, GoTo
    <2> QED
      BY <2>2, <2>3, <2>4
  <1>6. CASE ServerWrites
    <2>1. /\ UNCHANGED <<screen, activity, dialog, shareAround, crashed>> /\ Sent' = Sent
          /\ \A v \in Uploads : stage[v] = "ended" => stage'[v] = "ended"
      BY <1>6, ServerMoves DEF FirstInv, screenVars, viewVars
    <2>2. Covered => Covered'
      BY <2>1 DEF Covered, Sent
    <2> QED
      BY <2>1, <2>2 DEF FirstInv, FirstScreen, CrashesDetached, Detached
  <1> QED
    BY <1>1, <1>2, <1>3, <1>4, <1>5, <1>6 DEF Next, UploadStep

LEMMA NextSafe ==
    ASSUME FirstInv, NEW u \in Uploads, Safe(u), [Next]_vars
    PROVE  Safe(u)'
  <1>0. /\ stage \in [Uploads -> Running \cup {"none", "silent", "ended"}]
        /\ screen \in Nat \ {0}
    BY DEF FirstInv, UploadInv, TypeOK, Screens
  <1>1. screen' = screen \/ screen' = screen + 1
    BY DEF Next, vars, SendWithoutLocation, Leave, OnDetach, OnAttach, Send, UploadStep,
           DoInBackground, VideoStored, ThumbStored, StorageFails, OnComplete, ServerWrites, screenVars
  <1>2. CASE screen > 1
    BY <1>0, <1>1, <1>2 DEF Safe
  <1>3. CASE OnAttach
    BY <1>0, <1>3 DEF OnAttach, Safe
  <1>4. CASE activity = "recreating" /\ ~OnAttach
    <2>1. activity' = activity
      BY <1>4 DEF Next, vars, SendWithoutLocation, Leave, OnDetach, Send, UploadStep, Touchable,
           DoInBackground, VideoStored, ThumbStored, StorageFails, OnComplete, ServerWrites,
           viewVars, MainLooper, ShowProgress
    <2> QED
      BY <1>4, <2>1 DEF Safe
  <1>5. CASE AloneOnFirst(u) /\ ~OnAttach
    <2>0. /\ screen = 1 /\ ~crashed /\ Sent = {u} /\ stage[u] # "none"
          /\ \/ activity = "shown" /\ dialog
             \/ activity \in {"finishing", "gone"} /\ stage[u] = "ended" /\ ~shareAround
          /\ \A v \in Uploads : v # u => stage[v] = "none"
      BY <1>5 DEF AloneOnFirst, Sent
    <2>1. CASE SendWithoutLocation \/ Leave \/ \E v \in Uploads : Send(v)
      BY <2>0, <2>1 DEF SendWithoutLocation, Leave, Send, Touchable
    <2>2. CASE OnDetach
      BY <2>0, <2>2 DEF OnDetach, Safe, AloneOnFirst, Sent, screenVars
    <2>3. ASSUME NEW v \in Uploads, DoInBackground(v) \/ VideoStored(v) \/ ThumbStored(v)
          PROVE  Safe(u)'
      <3>1. stage[v] \in {"queued", "video", "thumb"}
        BY <2>3 DEF DoInBackground, VideoStored, ThumbStored
      <3>2. v = u /\ activity = "shown" /\ dialog
        BY <2>0, <3>1
      <3>3. /\ UNCHANGED <<screen, activity, dialog, crashed>>
            /\ \E s \in {"queued", "silent", "video", "thumb", "writing"} : stage' = [stage EXCEPT ![u] = s]
        BY <2>3, <3>2 DEF DoInBackground, VideoStored, ThumbStored, GoTo, screenVars, viewVars, Detached
      <3>4. Sent' = Sent
        BY <1>0, <2>0, <3>3 DEF Sent
      <3> QED
        BY <2>0, <3>2, <3>3, <3>4 DEF Safe, AloneOnFirst
    <2>4. ASSUME NEW v \in Uploads, StorageFails(v) \/ OnComplete(v) PROVE Safe(u)'
      <3>1. stage[v] \in {"video", "thumb", "written", "rejected"} /\ screen' = screen
        BY <2>4 DEF StorageFails, OnComplete, screenVars
      <3>2. v = u /\ activity = "shown" /\ dialog
        BY <2>0, <3>1
      <3>3. /\ crashed' = crashed /\ stage' = [stage EXCEPT ![u] = "ended"]
            /\ \/ activity' = "finishing" /\ shareAround' = FALSE
               \/ UNCHANGED <<activity, dialog>>
        BY <2>4, <3>2 DEF StorageFails, OnComplete, OnPostUploaded, Shared, GoTo
      <3>4. Sent' = Sent /\ stage'[u] = "ended"
        BY <1>0, <2>0, <3>3 DEF Sent
      <3> QED
        BY <2>0, <3>1, <3>2, <3>3, <3>4 DEF Safe, AloneOnFirst
    <2>5. CASE ServerWrites
      <3>1. /\ UNCHANGED <<screen, activity, dialog, shareAround, crashed>> /\ Sent' = Sent
            /\ stage[u] = "ended" => stage'[u] = "ended"
        BY <2>5, ServerMoves DEF FirstInv, screenVars, viewVars
      <3> QED
        BY <2>0, <3>1 DEF Safe, AloneOnFirst
    <2>6. CASE UNCHANGED vars
      BY <1>5, <2>6 DEF Safe, AloneOnFirst, Sent, vars, screenVars, viewVars
    <2> QED
      BY <1>5, <2>1, <2>2, <2>3, <2>4, <2>5, <2>6 DEF Next, UploadStep
  <1> QED
    BY <1>2, <1>3, <1>4, <1>5 DEF Safe

(***************************************************************************)
(* Who shares on a first screen that stays cannot leave it while the       *)
(* upload runs, so no callback of UploadFragment finds mCallbacks null or  *)
(* the fragment detached: while that screen is neither left for another    *)
(* nor recreated, the process does not end, whatever fails.                *)
(***************************************************************************)
THEOREM WaitingScreensAreSafe == Spec => WaitingIsSafe
  <1>1. Init => FirstInv
    BY InitUpload DEF Init, FirstInv, FirstScreen, CrashesDetached, Sent
  <1>2. FirstInv /\ [Next]_vars => FirstInv'
    <2>1. UploadInv /\ [Next]_vars => UploadInv'
      BY NextTypes, NextWire, NextRoom DEF UploadInv
    <2> QED
      BY <2>1, NextFirst DEF FirstInv
  <1>3. ASSUME NEW u \in Uploads
        PROVE  Spec => [](screen = 1 /\ activity = "shown" /\ stage[u] = "queued"
                            => [](crashed => screen > 1 \/ activity = "recreating"))
    <2>1. FirstInv /\ screen = 1 /\ activity = "shown" /\ stage[u] = "queued" => Safe(u)
      <3> SUFFICES ASSUME FirstInv, screen = 1, activity = "shown", stage[u] = "queued"
                   PROVE  AloneOnFirst(u)
        BY DEF Safe
      <3>1. u \in Sent /\ Sent = {u} /\ dialog /\ ~crashed
        BY DEF FirstInv, FirstScreen, CrashesDetached, Detached, Sent
      <3> QED
        BY <3>1 DEF AloneOnFirst
    <2>2. FirstInv /\ Safe(u) /\ [Next]_vars => Safe(u)'
      BY NextSafe
    <2>3. Safe(u) => (crashed => screen > 1 \/ activity = "recreating")
      BY DEF Safe, AloneOnFirst
    <2> QED
      BY <1>1, <1>2, <2>1, <2>2, <2>3, PTL DEF Spec
  <1> QED
    BY <1>3 DEF WaitingIsSafe
=============================================================================
