# A TLA+ verification of Proxsee (package `io.wyntr.peepster`)

Proxsee is an Android application: a user records a short video, the
application transcodes it, uploads it together with a thumbnail, and publishes
it as a post with a position. Other users see the posts of the people they
follow and of their surroundings, and a home-screen widget shows the latter
from a local table. The server is Firebase (storage, realtime database,
GeoFire); the program is 71 Java files under
`app/src/main/java/io/wyntr/peepster`, abbreviated `J/` below.

The modules here model the path of a video through the application, from the
camera to the widgets of other users:

    camera -> VideoConversion -> PostUpload -> (Firebase) -> FeedsSync -> table
                 |      |                      |      |
             VideoPump  Mp4Muxer        UserPosts    LiveList
                 |                             \      /
             FrameCopy                         KeyedList

Beside that path stands the voice recorder of the native sources,
`VoiceRecorder -> OggStream`.

## 1. Inventory

| component | state it keeps | operations | interacts with | hard because | correct when |
|---|---|---|---|---|---|
| Recording and conversion: `MainActivity`, `MediaController` | `video.mp4`, static `cacheFile` and `finalUri`, the converted files | `onActivityResult`, `compress`, `convertVideo`, `onPostExecute` | camera, transcoding loop, `RecipientsActivity` | each recording is converted twice at once over shared statics and one input file | every recording is answered, the input is removed, files are closed |
| Transcoding loop: `convertVideo`, `OutputSurface` | codec queues, `inputDone`, `outputDone`, `mFrameAvailable` | feed, drain, render, await, swap, signal | `MediaExtractor`, two `MediaCodec`s, main looper, MP4 writer | four actors, bounded queues, calls that time out | every frame is copied in order or given up for a reason; the loop ends |
| MP4 writer: `MP4Builder`, `Mp4Movie`, `Track`, `Sample` | file and channel position, the open chunk, tracks | `createMovie`, `addTrack`, `writeSampleData`, `finishMovie` | the conversion thread, which still calls `finishMovie` after an exception | offsets counted twice, headers rewritten in place, rounding of times | every sample is where the tables say; boxes tile the file |
| Sharing: `RecipientsActivity`, `UploadFragment` | dialog, button, retained fragment, `mCallbacks`, weak references | `send`, `doInBackground`, five callbacks, attach and detach | storage, database, user, Android's recreation | callbacks race the activity's life | every upload is answered, once, without an exception |
| Posts around the user: `FeedsSyncAdapter`, `FeedsProvider` | `mModels`, `mModelKeys` in memory; a table on disk | `onPerformSync`, `onKeyEntered`, `onKeyExited`, `onDataChange` | GeoFire, Firebase, widget | listeners are never removed; the table survives the process, the lists do not | one row for each post, kept up to date |
| Location: `MyLocationListener`, `AppStatus` | best fix, preferences, running | `onLocationChanged`, `doStart`, `stop` | location providers, sync | first fix is not saved, `running` is never set | the saved location follows the user |
| Lists: `FirebaseRecyclerAdapter`, `FirebaseGridRecyclerAdapter`, `FriendsAdapter` | `mModels`, `mKeys`, `mModelKeys`, filter snapshots | child events, `addSingle`, `update`, `remove`, filter | Firebase, a filter thread | three collections that must agree | the key at a position is that of the model there |
| People and their feeds: `FeedsFragment`, `UserProfileActivity`, `AddFriends` | following flag, nested listeners | follow, unfollow, `loadPosts` | Firebase | read, then write; listeners outlive the following | posts of followed people are shown, and no others |
| Comments, likes, views, people: the fragments, `AddFriends`, their adapters | one list fed by three kinds of listeners | `loadLikes`, `loadComments`, `getPeople`, child events, value events | Firebase's thread and the main looper | listeners are registered later than they are asked for, and interleave; rows are found through models that another listener may have replaced | the list shows the query, in its order, each child once |
| Post adapters and view holders | listeners of each bound row | bind, like, comment | lists | rows are recycled, listeners are not removed | a row shows its own post's counts |
| Login: `LoginActivity`, `SplashActivity` | auth state, progress dialog | sign in, auth listener | Facebook, Firebase | two callbacks each start an activity | one next activity, no dialog left |
| Video screens, comments, likes, views, map, clustering, widget | little of their own | single reads and writes | Firebase, player | few steps | - |
| Voice recorder and Ogg framing: `jni/audio.c`, `jni/opus/ogg/framing.c` | the stream's segments and page number, granule positions, segment counts, the file | `startRecord`, `writeFrame`, `stopRecord`; pages in, packets out | encoder, file, player | a page leaves the stream before it is written, a write is buffered and may be partial, and closing may fail unnoticed; the recorder counts segments a second time | packets are read back whole or not at all, and no gap among them is silent |
| Models, utilities, account stub, OpenGL drawing, other native sources under `jni` | none | - | - | - | - |

The native sources under `jni` come from another application
(`Java_org_telegram_android_...`) and are nearly all vendored libraries: libyuv,
opus, sqlite, libwebp, giflib. No Java file of this one loads them. They are
195,000 lines of C, of pixel and sample arithmetic for the most part; of these
only the recorder, with the framing that it stands on, has states and failures
that a model says something about.

## 2. Plan

In the order of importance:

1. The converter, whose errors lose a user's video: `Mp4Muxer`, `VideoPump`,
   `VideoConversion`. **Done.**
2. The posts' table and the upload: `FeedsSync`, `PostUpload`. **Done.**
3. The lists of Firebase data: `KeyedList`, fed by a screen (`UserPosts`) and by
   three listeners at once (`LiveList`). **Done.**
4. The voice recorder: `OggStream`, `VoiceRecorder`. **Done.**
5. The other screens that follow people (`FeedsFragment`, `FriendsQueryAdapter`),
   location (which fix is kept, saved and used), login (two callbacks that each
   open an activity).
6. Composition of `PostUpload`, `FeedsSync` and location over one server.
7. Proofs: the layout of the file, its chunks, times and tables, the posts' table,
   the loop and what it implements, the conversions, the upload, the two kinds of
   lists, the recorder. **Done**: every property of a passing run that states no
   fairness is proved.

## 3. Modules

### Mp4Track, Mp4Muxer, Mp4Tables, MCMp4Muxer (`J/video/MP4Builder.java`, `Track.java`, `Mp4Movie.java`)

The file is a set of *extents*: which box or sample is at which offset, with
what length, and what size a box header claims. A write replaces what it
overlaps, so overwriting is visible. `out` holds the file and `MP4Builder`'s own
counters (`dataOffset`, `writedSinceLastMdat`, the open mdat box);
`writeSampleData` is a composition of its stages (`OpenMdat`, `CountSample`,
`FlushIfFull`, `AppendSample`), and an exception may end it after each
(`OpenMdatThrows`, `FlushThrows`, `AppendThrows`). `convertVideo` then still
calls `finishMovie`, so `Closed` is applied to whatever was left. `Track` turns
time stamps into ticks with Java's truncating division. `Mp4Tables` computes
stts, stsz, stsc, stco and the movie's duration with the code's loops, each a
recursive function of the number of turns; the properties read them back as a
player would.

Abstracted: bytes, sample descriptions, sync samples, creation dates, and the
remuxing of tracks with B-frames. Facts met on the way, which the properties
respect:

- A file without a sample gets the header of a 1 GB mdat box over its ftyp box
  (the initial `contentSize` is not 0): hence `HasSamples` in `BoxesTile`. A track
  without a sample gets a time table of one entry.
- `Track`'s constructor assigns its parameter (`isAudio = true`, line 141), so
  `isAudio()` is false for every track.
- After an exception among the bytes of a sample, the open chunk claims more
  than was written; only flushed chunks are safe (`FlushedSamplesKept`).
- A video sample shorter than its 4-byte prefix would misplace what follows.
  Encoders do not emit one; that is `StartCodeAssumption`.

### VideoPump and FrameCopy (`convertVideo` lines 435-612, `J/video/OutputSurface.java`)

Four actors: the conversion thread, whose `pc` names the call it makes next; the
decoder; the encoder; the main looper, which runs `onFrameAvailable`. Queues
have bounded lengths, calls may time out. The device's `sdk` selects between the
surface (18 and later) and the encoder's input buffers. `FrameCopy` is the abstract
specification: every frame has its turn once, in order, and is copied or
skipped. `CopiesFrames` states that `VideoPump` implements it, under the mapping
`Copying`: what the encoder holds (`Queue`) is announcements, then samples, then
perhaps the end of the stream, so the frames copied so far are the movie's and the
samples between `Ahead` announcements and `Behind` ends (`Encoded`), and a frame has
had its turn once it is among them or was given up (`missed`).

Whatever `awaitNewImage` throws is caught within the loop, which gives the frame up
and goes on. That is a wait that timed out (`FrameWaitTimedOut`), or an error over the
picture after its announcement has been consumed (`ImageNotTaken`: `checkGlError` and
`updateTexImage` run after the flag was taken). Nor does the loop look at the result of
`swapBuffers` (`SwapBuffersFails`). What any other call throws leaves the loop
(`PumpFails`). `late` counts the first kind, `swallowed` the other two, and
`FramesAccountedFor` says that on a surface these are all the frames that are missing.
That messages are logged is left out: an exception without a message, for which
`Log.e` itself would throw, does not come from the calls in the wait.

Observations: before Android 4.3 the encoder's buffers are queued without the
decoded picture; one late frame shifts the pictures after it by one, and a
second one that comes before the flag was taken trips the exception
`"mFrameAvailable already set, frame could be dropped"` of `onFrameAvailable` on the
main looper, which ends the process (`pc = "crashed"`); the encoder must have at
least two output buffers (`PumpAssumption`); before 4.3 the end of the stream may
fail to reach the encoder, and the loop then never ends (`EosLost`, the one
exception in `PumpEnds`).

### VideoConversion (`J/activities/MainActivity.java`, `MediaController.convertVideo`)

One action for each step of `convertVideo` that the other conversion can see:
open the input, name the file (which reads the clock: `now`, by then some seconds
later), publish its URI, check the input, create the
movie (which reads the static field *again*), extract and pump, finish, delete
the input. Two exceptions are caught by nobody and end the process, which empties
its memory (`ProcessEnds`): that of a recording which cannot be opened, outside the
`try` block (`Crash`), and that of `Log.e` in the handlers of the `try` block and of
`finishMovie` (lines 649, 658), if what they caught has no message (`LogThrows`). A recording has two conversions,
`"thread"` and `"task"`; tasks run one after another. Conversions that begin are assumed to
end: that is `PumpEnds` of `VideoPump`. `deleteTempFile` looks in
`Pictures/Wyntr-Beta` for a file recorded in `Pictures/Proxsee` and changes nothing.
`FileUtils.createApplicationFolder` has no caller, hence the nondeterministic
`folder`. A `MainActivity` that is recreated while the camera is open (it loses its
`uri` and ignores the recording) is left out.

### PostUpload (`J/activities/RecipientsActivity.java`, `J/fragments/UploadFragment.java`)

A `screen` is one instance of the activity; `OnDetach` and `OnAttach` are the
halves of a recreation, between which the main looper runs nothing else but the
background may. `stage` says how far each `UploadPostTask` is. `mCallbacks` is
null exactly when `activity` is `"recreating"` or `"gone"`. The two database
writes travel in order over `wire`, and the server may reject either.

### FeedsSync and MCFeedsSync (`J/adapters/FeedsSyncAdapter.java`, `J/data/FeedsProvider.java`)

Server state (`post`, `points`), the queries and listeners of the running
process, the lists `mModels` (as `listed` and the number of `nulls` in it) and
`mModelKeys`, and the table `rows`. All callbacks run on the main looper, so one
callback is one action, down to the provider. `seen` records what each value
listener was last called with: Firebase skips versions but never goes back.
`Restart` empties everything but the server, the saved location and the table.
A table row holds the version of the post it was made of. Left out: the text of
relative time stamps (fixed at insertion, `FeedsProvider.java:133`),
`onKeyMoved`, and the constructor's child listener, whose query has no results.

Observations: the rows of places the user has left are never removed; after a
restart a row has no model, and an update of its post is ignored, unless some
other post's null is in the list, which the update then replaces.

### KeyedList, UserPosts and MCUserPosts (`J/adapters/FirebaseGridRecyclerAdapter.java`, `J/activities/UserProfileActivity.java`)

`KeyedList` has the three collections of the adapters as one record, over any set
of model objects: `addSingle`, `update` and `remove`, through which the screens
feed it, and `Insert`, `Set` and `RemoveKey`, which the adapter's own child
listener does. Java finds a model in `mModels` by identity, so two models that
are equal must be one object; every missing snapshot is the one `null`. The hash
map is a function whose domain grows and shrinks. `UserPosts` is the screen
that feeds one: the profile of another user, with a button that follows and
unfollows. Its listeners, nested two deep, are never removed, so each call of
`loadPosts` adds a set (`reported`, `seen`) that stays. The follow state is
modelled as this client sees it: `followed` is the server's, `writes` are the
client's own that the server has not answered, which show at once and are taken
back when refused. A click first reads (`OnClick`) and later acts on what it read
(`Follow`, `Unfollow`), so two quick clicks read the same value. The author of the
posts publishes and deletes while the profile is open.

A post that was deleted gives a null snapshot, stored like any other model. The
next layout binds that row and ends the process (`LayoutCrashes`); until then the
callbacks go on, and the properties speak of that time too. What happens after
`onDestroy`, which nobody sees, is left out, as are the profile's picture and
counters.

Observations: `remove` of a key without a model takes the null of another key
out of `mModels`, and from then on a row's position gives another row's key
(`user_posts_rows`); an unfollowed user's post returns to the grid when it
changes, since its listener stays; before Marshmallow a profile of somebody
already followed opens without posts.

### LiveList (`J/adapters/FirebaseRecyclerAdapter.java`, `J/fragments/LikesFragment.java` and the like)

The list of likes is fed three times: by the adapter's child listener, by the
fragment's, and by the value listener that the latter adds for each child. What
decides how these meet is how the database SDK delivers, which the model takes
from its contract: listeners are registered by a thread of the SDK (`tasks`, done
by `Register`) some time after they were asked for; a change is applied there too
(`Change`), and its events, value events first and then one per child listener in
the order of registration, are one message of the main looper. `looper` holds the
callbacks of the messages one after the other, each message closed by
`EndOfMessage`, and `Dispatch` runs one callback. Between two callbacks of a message
the looper does nothing else, but the SDK's thread may; between two messages a
layout may bind the rows (`LayoutCrashes`). A child comes once: comments have
generated keys, and the application removes neither likes nor views nor people.
What does go is a write of this client that the server refuses (`Refuse`).

Two snapshots give two objects, hence `copy` in `Model`, and `NewModel` takes one
that is not in use. Observations: `onChildAdded` without a neighbour puts a model
in front of `mModels` and no key into `mKeys` (`InsertFirst`), so `mKeys` does not
follow the rows here; the rows of these lists do not use it. A refused comment
may leave a row without a model, which the next layout binds, or make
`onChildChanged` set a row that is not there; `AcceptedListsLive` therefore
speaks of lists in which nothing was refused.

### OggStream and VoiceRecorder (`jni/opus/ogg/framing.c`, `jni/audio.c`)

A packet is cut into segments; a segment is known by its packet, its place and
whether it is the last (a lacing value below 255). `os` is `ogg_stream_state` as the
recorder uses it, `rs` as a reader does. `writeFrame` is one call with several
writes, each of which can fail, so `pc` says how far it is: `FlushBefore` is a turn of
the loop before the packet goes in, `GiveFrame` puts it in, `FlushAfter` is a turn of
the loop after it. `WritePage` takes the page out of the stream first and then calls
`fwrite`, as the code does, and a full count says only that the page is in the buffer
of the C library (external; it holds at most `BufferPages`). `file` is what was
written and not lost, and its first `flushed` pages have left the buffer. A page may
make the buffer overflow; if that flush fails the call returns 0, and what was
buffered is lost but for whole pages at its front and perhaps a part of the next
(`LostAfter`), pages of earlier, successful calls among them. A caller (external) that
goes on after a failed call therefore leaves a hole or a torn page in the file. `StopRecord`
flushes what is still buffered; `fclose` may fail (`closeFailed`), and
`cleanupRecorder` does not look at its result, so a short recording may be lost
altogether although every call returned 1. `GapsReported` bounds that loss. The reader skips a page whose checksum is wrong (`SkipPage`) once as many
bytes follow as it should have had, and otherwise waits for ever (`Exhausted`).
`PageIn` is `ogg_stream_pagein`: unroll, note the gap, skip the rest of a packet whose
beginning is lost, take the segments, and give the page's one granule position to
its last whole packet.

Left out: encoder settings, serial numbers (one stream), the rule of four packets
to a page (each call leaves the stream empty or fails), a page torn within its
header, allocation failures, and the player, which reads through opusfile on one
thread. Observations: an empty last frame counts the segments of the frame
before it (or none), so `last_segments` may end up wrong or negative
(`EmptyFrameGiven`); no decision is taken on it afterwards. The time of the last
sample includes the samples of frames that failed to be encoded.

## 4. Runs

| run | shows | bounds, and why they are enough |
|---|---|---|
| `mp4` | layout of the file, tables, kept samples, decoding times and durations | 5 samples on at most 2 tracks; the sizes 5, 12720 and 70000 lie below, near and above the chunk limit of 32768 (three of 12720 exceed it), so chunks of one and of several samples, carries and tracks sharing a chunk occur; time steps 0, 17 and 33 round to no tick, down and up; clocks scaled by 1000 to stay within 32-bit integers |
| `pump` | frames copied in order, loop ends, pictures not too late, before and after Android 4.3 | 3 frames through queues of 1 and 2, so every queue fills and drains; any picture may be late, or be lost to an error that the loop swallows |
| `conversion` | each recording is answered and removed unless the process ends, a codec's failure leaves no file open | 2 recordings, 4 conversions, 2 seconds: names that collide and names that do not |
| `upload` | order of writes, no more posts than screens, answers | 3 screens and 4 uploads: more uploads than screens, so that the bound on posts could be exceeded |
| `feeds` | one row per post, agreement, freshness, arrival | 2 posts, one of them around both places, one sync in each of two processes. That several syncs of one process do no harm is proved (section 6) for any number of them; a run with two of them and the temporal property takes longer than is useful |
| `user_posts` | the collections agree up to their nulls; posts of a followed user arrive | 2 posts, 2 clicks and 2 calls of `loadPosts`: two listeners of each post, a refused unfollowing, two clicks that read the same value |
| `live_list` | a list is the query, in order, without doubles, whatever the interleaving | 3 children, so that there is a first, a middle and a last, and callbacks of an earlier message still waiting when another change comes (`MaxWaiting`): a registration between a change and its event, a refusal between two callbacks of one message |
| `voice` | packets are read whole, gaps are reported, only what was buffered at the end can be lost without a failed call, the two counts agree | 3 frames of 1 to 3 segments on pages of 2: packets within a page, filling one, and over two pages; a buffer of 2 pages, so that a flush that fails costs pages of earlier calls too; pages lost or torn at the start, in the middle, twice in a row and at the end, and when the file is closed |

Runs that are expected to find a violation, each a disagreement between the code
and what the repository says (`PROJECT.json`, "findings"):

- `conversion_toast`: "successfully compressed" for a file that is missing,
  partial, or written by two conversions.
- `upload_dialog`: "Uploading Post..." while nothing is uploaded, with no way to
  dismiss the dialog.
- `feeds_delete`: a deleted video stays in the table, because its geo-point stays.
- `user_posts_rows`: with three posts, of which two are deleted, a row shows one
  post and opens the comments of another; the comment in the adapter says that
  a removal removes the model "from our list and the name mapping".

`user_posts` uses symmetry between posts (safety only). `CHECK_DEADLOCK FALSE` is set
where users may simply stop: the MP4 writer after it closed its file, `PostUpload`,
`FeedsSync`, `UserPosts`, `LiveList` and a recording that was read. `VideoPump` and `VideoConversion` say with an
explicit step when they have ended, and deadlock is checked.

## 5. Fairness

- `VideoPump`: the thread is scheduled, the codecs process what they have, and
  the looper runs. Failure is never required.
- `VideoConversion`: each thread and the task executor run; the user need not
  record again.
- `PostUpload`: the background runs; a store succeeds or fails (Firebase gives up
  after ten minutes); the database answers, as it does while connected; Android
  completes a recreation. Nothing forces the user, nor the destruction of an
  activity.
- `FeedsSync`: Firebase delivers and the looper runs. Users, syncs, moves and the
  end of the process are free.

Every action property and invariant is checked without any of this.

## 6. Proofs

`Mp4Muxer_proofs` is about every size of boxes, chunks and samples, under
`SizeAssumption`, `ClockAssumption` and `StartCodeAssumption`. Type correctness is
inductive by itself. The layout is not: between two stages of `writeSampleData`
the header of a chunk already claims bytes that the channel has yet to write.
The invariant `Layout(o, pending)` therefore carries that difference: extents do
not overlap and end at or before `position`; the closed chunks tile the file up
to `mdat.offset`; `dataOffset + pending` and `position` differ by what is pending.
Each stage has a lemma that takes `Layout` to `Layout`, the actions compose
them, and `SamplesAreReadable`, `BoxesAreTiled`, `OffsetsArePositions` and
`FlushedSamplesAreKept` follow. `ChunksAreBounded` needs more
(`Chunks`): the header in the file says nothing about a chunk in use, but the bytes
counted since the last flush are at least what the chunk contains, as the carry
from one chunk to the next is never negative (`NotFull`); a chunk that the current
sample has just closed was within the limit without it (`ClosedWithin`); and since an
exception may leave a chunk open that `finishMovie` then closes, even that one has
to be `WithinLimit`.
`TimesAreNear` is about the tracks: each duration but the last is the rounded step
between two samples, whose times do not decrease (`TimesInv`); a step is rounded by
at most half a tick (`RoundingBounds`), and the sums of the rounded steps, which are
a recursive function, are followed by their least counterexample.

`DurationsAreRight` adds to `TimesInv` that a track's duration is the total of its
sample durations, in whatever order `addSample` replaced and appended them
(`InsertBeforeLastTotal`), and that its time scale is not 0. The rest is about the
loops, for tracks of any length. `LoopExists` says that the recursive function of a
loop exists and that each turn is one application of its body, `EveryTurn` that
what a turn preserves holds after the last. With these, after `k` turns of
`createStts` the entries encode the first `k` durations (`Encodes`), and reading the
runs gives them back (`SttsRight`); `gcd` divides both arguments
(`GcdDivides`), hence the movie's scale divides that of each track
(`TimescaleDivides`); and the longest track so far is no shorter than any before
(`MovieLongest`).

`TablesLocate` needs no invariant but the types: the tables are right for *any* list
of samples. `createStsc` and `createStco` decide separately where a chunk begins, the
one by looking at the next sample, the other at the last, so the proof runs them side
by side. `Chunked` says, of the first `k` samples, that there is one list of counts
which the entries of stsc describe (`Described`: an entry stands for all chunks up to
the next entry), whose chunks begin at the offsets of stco, and in which each sample
is as far from the beginning of its chunk as the sizes before it add up to
(`Placed`); `ChunkedStep` is one turn of both, and after the last turn a player that
reads the three tables finds each sample (`TrackLocated`). That a player's
group is unique, when the counts are positive, is `GroupFound`.

`FeedsSync_proofs` is about any set of posts, places, queries and any number of
restarts. That a row is unique needs no more than itself; that it is fresh
needs to know where a model in memory came from (`ModelsWereSeen`: some listener
was last called with it), hence that no listener forgets (`ListenersStay`: a key
that left a query has lost its geo-point for good), hence that only keys with a
geo-point or a former post were ever entered (`EnteredWasPublished`). `TableInv` is
their conjunction; `AddOne` and `ReplaceOne` say what the two branches of
`onDataChange` do to one key, and `IgnoredHasNoModel` why an ignored update
leaves nothing stale behind.

`VideoPump_proofs` is about recordings of any length and codecs with any number
of buffers, under `PumpAssumption`. None of the four invariants is inductive, nor is
the refinement a matter of single steps; they follow from five layers, each proved
with the help of those before it:

- `DecoderInv`: what the thread took from the decoder and what the decoder still
  holds are, in that order, the frames and then the end of the stream: `Item(k)`
  is the k-th thing the decoder was ever fed.
- `EncoderInv`: as long as no track was added the next thing out of the encoder is
  an announcement (`FormatFirst`); the end of the stream is the last thing that goes in
  and that comes out, and it goes in after the last frame (`EosLast`).
- `SurfaceInv`: the last frame that arrived is the number of waits that are over,
  less those that timed out, and one more while the flag is set. This is what
  bounds the lag of the texture. Each missed frame is either late or one over which an
  error was swallowed.
- `PicturesInv`: the lag of every picture on its way, and that each frame taken is
  missed, being drawn, or the time of a picture (`Accounted`). With `EosLast` that is
  every frame of the recording when the loop is done.
- `CopyInv`: what the encoder holds is announcements, then samples, then perhaps the
  end of the stream (`QueueOrder`), and the samples and the missed frames together
  are as many as the frames that had their turn (`TurnsCounted`).

`ImplementsFrameCopy` then needs of each action only whether it leaves the encoded
samples and the missed frames as they are (`Still`), gives up the frame whose turn it
is (`Skipped`) or encodes it (`Copied`). Announcing, encoding and draining move
things within `Queue` and are `Still`; that the loop ends (`ended`) only after the
last turn is `EosLast` again.

`VideoConversion_proofs` is about any number of recordings and seconds.
`WritersFinish` says of whoever has a file open that it is on its way to finish that
very file, failed to write, or was ended with the process; it needs to know that a
conversion that names a file has assigned the static field (`NamedBeforeUse`), that a
crash ends every conversion, and that none runs before its recording was made.

`PostUpload_proofs` is about any number of screens and uploads. The number of posts
is bounded because an upload that can still become a post has used up a screen,
and a screen whose button is enabled has not been used up (`Room`). A failed upload
gives its screen back, and then nothing of it is on the wire (`WireIsWriting`,
`WireHasOnePost`, `PostsAreWritten`), so that it cannot become a post later. That a post has its point
follows from `PointComesFirst`: on the wire, or already answered.
`WaitingScreensAreSafe` is a statement about all that follows a moment: once a user
shares on a first screen, no callback ends the process until the screen is another
or is being recreated. `FirstScreen` says that on the first screen at most one upload
was ever sent, and that its dialog is up, or it has ended with the button disabled;
from the moment on `AloneOnFirst` holds until the screen changes: who leaves, leaves
after the answer.

`UserPosts_proofs` is about any posts, any number of clicks and of calls of
`loadPosts`. The first layer, `GridInv`, is the agreement of the adapter's three
collections (`Agree`). It is not equality: a removal may take the null of another key
out of `mModels`, so rows without a model can be fewer than keys without one. What
does hold is that each model of the map has one row, each row with a model is the
map's, and the keys are those of the map. The second, `ListenInv`, says that no listener
is ahead of its post, that a row was heard of, that a row without a model is that of a
removed post, and that no row is ahead of its post either. The third is `FollowInv`:
while the user is followed, some call of `loadPosts` covers the grid (all that its
listeners were told of is in there, no older than they were told), or
`mFollowingListener` is yet to make such a call. `PostsShown` follows when every
listener has heard the latest.

`VoiceRecorder_proofs` is about pages and packets of any size, with any writes that
fail and any pages that are lost or torn. `PacketsWhole` and `GapsReported` are
statements about the far end of a pipe and say nothing about its middle, hence three
layers.

- `RecorderInv`: the stream holds at most one packet's last segments; between two
  frames nothing is buffered unless a write failed, and while something is, the last
  granule position is below that of what has been encoded, which is the condition
  under which `writeFrame` flushes before it puts the next packet in (`TimesInv`).
  `CountInv` says when the recorder's count of segments is the stream's.
- `FileInv`: every page has consecutive segments of one packet and says the truth
  about them (`PageInv`); of two pages whose numbers follow each other the second
  continues the first, and of two with a gap in their numbers it is somewhere
  later (`After`). Any front of the file has this too (`Chained`), so a failed flush
  keeps it. While no call has failed, a page completes one packet at most (`PaceInv`);
  as no more than `BufferPages` pages are buffered (`BufferedInv`), a closed file lacks
  no more packets than that, and none if it was closed without an error (`ClosedInv`).
- `ReaderInv`: the reader's stream is whole packets and gaps, and then the beginning of
  at most one packet (`Framed`, `ReadTo`); what it returned, what it holds and what
  comes next follow each other, adjacent exactly when there is no gap between them
  (`Linked`).

Whether a torn page is skipped depends on the bytes that follow it. `BytesAfter`, a
recursive function, is never opened: a torn page is either skipped or waited for, and
all that matters is that it is not taken.

`LiveList_proofs` is about any finite set of children and any number of waiting
callbacks. What the rows are between two callbacks is an accident of what has run; the
invariant `ListInv` therefore looks at the list as *each waiting callback will find it*
(`InList`: a child then has a row if it has one now or a callback before adds one, and
none before takes it away). `Heard` says of all that wait that their children are
known (`KeysKnown`), that the adapter's addition of a child comes before anything else
about it (`AddedFirst`), that a change sets a row that is there (`SetsWhatIsThere`),
that an addition finds the row of the child before and nothing between
(`AddsInPlace`), and that after the last callback the rows are the client's children
(`EndsAsChildren`) in their newest versions (`LastIsNewest`). A registration or a change
appends callbacks, for which `EndsAsChildren` is what makes the statement true; a
`Dispatch` does what the first says, and the rest of the statement is then about a
list that has it. Nothing can be said before the adapter listens, hence the three
phases of `TaskInv`. That `Children`, the increasing enumeration of a finite set,
exists is proved too.

Where a proof is an induction over numbers, it is by the least number for which
something fails (`LeastNatural` in `Mp4Muxer_proofs` and the like, from the
well-foundedness of the naturals): the induction schemes of the library take an
operator, which the provers here cannot instantiate.

Only model-checked: what is stated under fairness, which is out of the prover's reach
(the loop ends, `PumpEnds`; uploads are answered, `UploadAnswered`; recordings are
answered and removed, `RecordingAnswered`, `RecordingRemoved`; posts arrive,
`PostsArrive`); and the runs that find a violation.

## 7. Not modelled

- `FeedsFragment` nests the listeners of `UserPosts` once more; location and login
  are planned (section 2). The filter of `FirebaseRecyclerAdapter`, which changes
  the map of models on another thread, is called by no screen.
- The post adapters bind listeners to recycled rows and remove none; what goes
  wrong there is the text of a view.
- Screens that only show the result of one query, the widget, drawing, and data
  carriers have no behaviour of their own that a model would add to.
- The other native sources: third-party libraries and loops over pixels and
  samples, none of which the application loads. They are nearly all of the
  repository's lines, and no part of its design.
