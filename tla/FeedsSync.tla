----------------------------- MODULE FeedsSync -----------------------------
(***************************************************************************)
(* FeedsSyncAdapter: the copy of the posts around the user that the widget *)
(* shows, a table in SQLite behind FeedsProvider.                          *)
(*                                                                         *)
(* Every sync starts a GeoQuery around the last known location; it is      *)
(* never stopped.  Each key a query enters gets a value listener on the    *)
(* post of that key, which is never removed either.  Their callbacks run   *)
(* one at a time on the main looper, so each is one action, all the way    *)
(* into the provider.  The table outlives the process, the lists mModels   *)
(* and mModelKeys do not: the first decides whether a post is inserted,    *)
(* the second whether it is updated.                                       *)
(*                                                                         *)
(* Firebase delivers to a listener the value of the moment, in any order   *)
(* between listeners.  Nothing moves a geo-point; onKeyMoved, which does   *)
(* what onKeyEntered does, is left out.  The child listener of the         *)
(* constructor listens to a query without results and is left out.         *)
(***************************************************************************)
EXTENDS Naturals, Sequences

CONSTANTS
    Keys,           \* posts
    Places,         \* where a user can be
    Around,         \* the posts within two kilometres of a place
    Queries,        \* bound: syncs of one process
    MaxRestarts     \* bound: deaths of the process

ASSUME SyncAssumption ==
    /\ Around \in [Places -> SUBSET Keys]
    /\ Places # {}
    /\ MaxRestarts \in Nat

VARIABLES
    post,           \* server: posts/key
    published,      \* server: keys that had a post
    points,         \* server: geo-points
    location,       \* SharedPreferences: where the user is
    center,         \* the GeoQueries of this process
    entered,        \* the keys each query has reported
    seen,           \* what each value listener was last called with
    mModelKeys,     \* the model of each key, in memory
    listed,         \* the keys whose model is in mModels
    nulls,          \* the null entries of mModels
    rows,           \* the table: the versions stored for each key
    restarts

serverVars == <<post, published, points>>
listenVars == <<center, entered, seen>>
modelVars == <<mModelKeys, listed, nulls>>
vars == <<serverVars, location, listenVars, modelVars, rows, restarts>>

(***************************************************************************)
(* A post is first seen with the time its writer estimates, then with the  *)
(* server's (ServerValue.TIMESTAMP).  Null is what Firebase delivers for a *)
(* post that is not there yet or no longer.                                *)
(***************************************************************************)
Versions == 1 .. 2
Null == 0
Values == Versions \cup {Null}

NotListening == 3       \* no value listener
Unseen == 4             \* a value listener not called yet
Absent == 5             \* no entry in mModelKeys
NoPlace == "nowhere"    \* a query that was not started

TypeOK ==
    /\ post \in [Keys -> Values]
    /\ published \subseteq Keys
    /\ points \subseteq Keys
    /\ location \in Places
    /\ center \in [Queries -> Places \cup {NoPlace}]
    /\ entered \in [Queries -> SUBSET Keys]
    /\ seen \in [Queries -> [Keys -> Values \cup {NotListening, Unseen}]]
    /\ mModelKeys \in [Keys -> Values \cup {Absent}]
    /\ listed \subseteq Keys
    /\ nulls \in Nat
    /\ rows \in [Keys -> Seq(Versions)]
    /\ restarts \in 0 .. MaxRestarts

(* What a new process starts with.                                         *)
NoQueries == [q \in Queries |-> NoPlace]
NoneEntered == [q \in Queries |-> {}]
NoListeners == [q \in Queries |-> [k \in Keys |-> NotListening]]
NoModels == [k \in Keys |-> Absent]

Init ==
    /\ post = [k \in Keys |-> Null]
    /\ published = {}
    /\ points = {}
    /\ location \in Places
    /\ center = NoQueries
    /\ entered = NoneEntered
    /\ seen = NoListeners
    /\ mModelKeys = NoModels
    /\ listed = {}
    /\ nulls = 0
    /\ rows = [k \in Keys |-> <<>>]
    /\ restarts = 0

-----------------------------------------------------------------------------
(***************************************************************************)
(* The server, as UploadFragment and ProfileViewHolder write to it: a      *)
(* geo-point, then the post; deleting removes the post and leaves the      *)
(* geo-point, which only an administrator removes.                         *)
(***************************************************************************)
SetLocation(k) ==
    /\ k \notin points \cup published
    /\ points' = points \cup {k}
    /\ UNCHANGED <<post, published, location, listenVars, modelVars, rows, restarts>>

Publish(k) ==
    /\ k \in points \ published
    /\ published' = published \cup {k}
    /\ post' = [post EXCEPT ![k] = 1]
    /\ UNCHANGED <<points, location, listenVars, modelVars, rows, restarts>>

TimestampResolved(k) ==
    /\ post[k] = 1
    /\ post' = [post EXCEPT ![k] = 2]
    /\ UNCHANGED <<published, points, location, listenVars, modelVars, rows, restarts>>

DeletePost(k) ==
    /\ post[k] # Null
    /\ post' = [post EXCEPT ![k] = Null]
    /\ UNCHANGED <<published, points, location, listenVars, modelVars, rows, restarts>>

RemovePoint(k) ==
    /\ k \in points \cap published
    /\ points' = points \ {k}
    /\ UNCHANGED <<post, published, location, listenVars, modelVars, rows, restarts>>

(* MyLocationListener saves a better location.                             *)
Move ==
    /\ location' \in Places \ {location}
    /\ UNCHANGED <<serverVars, listenVars, modelVars, rows, restarts>>

-----------------------------------------------------------------------------
OnPerformSync(q) ==
    /\ center[q] = NoPlace
    /\ center' = [center EXCEPT ![q] = location]
    /\ UNCHANGED <<serverVars, location, entered, seen, modelVars, rows, restarts>>

OnKeyEntered(q, k) ==
    /\ center[q] # NoPlace
    /\ k \in (points \cap Around[center[q]]) \ entered[q]
    /\ entered' = [entered EXCEPT ![q] = @ \cup {k}]
    /\ seen' = [seen EXCEPT ![q] = [@ EXCEPT ![k] = Unseen]]
    /\ UNCHANGED <<serverVars, location, center, modelVars, rows, restarts>>

(* The provider: rows are inserted, updated and deleted by key.            *)
Insert(k, v) == rows' = [rows EXCEPT ![k] = Append(@, v)]
Update(k, v) == rows' = [rows EXCEPT ![k] = [i \in DOMAIN @ |-> v]]
Delete(k) == rows' = [rows EXCEPT ![k] = <<>>]

KnownObject(k) == mModelKeys[k] # Absent
KnownModel(k) == mModelKeys[k] \in Versions
HasObject(k) == rows[k] # <<>>

(***************************************************************************)
(* A null model is remembered like any other, and the exception it causes  *)
(* in populateData or updateData is swallowed before the provider's call.  *)
(***************************************************************************)
RememberFirst(k, v) ==
    mModelKeys' = IF KnownObject(k) THEN mModelKeys ELSE [mModelKeys EXCEPT ![k] = v]

Remember(k, v) == mModelKeys' = [mModelKeys EXCEPT ![k] = v]

AddSingle(k, v) ==
    /\ Remember(k, v)
    /\ \/ /\ v # Null
          /\ listed' = listed \cup {k}
          /\ Insert(k, v)
          /\ UNCHANGED nulls
       \/ /\ v = Null
          /\ nulls' = nulls + 1
          /\ UNCHANGED <<listed, rows>>

(***************************************************************************)
(* update looks for the old model in mModels.  For a key without a model   *)
(* it looks for null, and finds the null of any other key.                 *)
(***************************************************************************)
OldIsNull(k) == mModelKeys[k] \in {Absent, Null}
IndexIgnored(k) == TRUE
IndexPositive(k) == IF OldIsNull(k) THEN nulls > 0 ELSE k \in listed /\ listed # {k}
IndexFound(k) == IF OldIsNull(k) THEN nulls > 0 ELSE k \in listed

ReplaceModel(k, v) ==
    /\ Remember(k, v)
    /\ listed' = IF v = Null THEN listed \ {k} ELSE listed \cup {k}
    /\ nulls' = (IF OldIsNull(k) THEN nulls - 1 ELSE nulls) + (IF v = Null THEN 1 ELSE 0)

UpdateModel(k, v) ==
    \/ /\ IndexFound(k)
       /\ ReplaceModel(k, v)
       /\ IF v = Null THEN UNCHANGED rows ELSE Update(k, v)
    \/ /\ ~IndexFound(k)
       /\ UNCHANGED <<modelVars, rows>>

(* A value listener is called for every change, not for the first only.    *)
CalledOnce(q, k) == seen[q][k] = Unseen
Called(q, k) == seen[q][k] \notin {NotListening, post[k]}

OnDataChange(q, k) ==
    /\ Called(q, k)
    /\ seen' = [seen EXCEPT ![q] = [@ EXCEPT ![k] = post[k]]]
    /\ \/ ~HasObject(k) /\ AddSingle(k, post[k])
       \/ HasObject(k) /\ UpdateModel(k, post[k])
    /\ UNCHANGED <<serverVars, location, center, entered, restarts>>

(* The value listener stays.                                               *)
OnKeyExited(q, k) ==
    /\ k \in entered[q] \ points
    /\ entered' = [entered EXCEPT ![q] = @ \ {k}]
    /\ mModelKeys' = [mModelKeys EXCEPT ![k] = Absent]
    /\ listed' = listed \ {k}
    /\ nulls' = IF OldIsNull(k) /\ nulls > 0 THEN nulls - 1 ELSE nulls
    /\ Delete(k)
    /\ UNCHANGED <<serverVars, location, center, seen, restarts>>

Restart ==
    /\ restarts < MaxRestarts
    /\ restarts' = restarts + 1
    /\ center' = NoQueries
    /\ entered' = NoneEntered
    /\ seen' = NoListeners
    /\ mModelKeys' = NoModels
    /\ listed' = {}
    /\ nulls' = 0
    /\ UNCHANGED <<serverVars, location, rows>>

Server(k) ==
    SetLocation(k) \/ Publish(k) \/ TimestampResolved(k) \/ DeletePost(k) \/ RemovePoint(k)

Callback(q, k) == OnKeyEntered(q, k) \/ OnDataChange(q, k) \/ OnKeyExited(q, k)

Next ==
    \/ \E k \in Keys : Server(k)
    \/ Move
    \/ \E q \in Queries : OnPerformSync(q)
    \/ \E q \in Queries, k \in Keys : Callback(q, k)
    \/ Restart

(***************************************************************************)
(* Firebase delivers, and the main looper runs what it delivers.  Users,   *)
(* syncs and the system that kills the process are free.                   *)
(***************************************************************************)
Spec ==
    /\ Init /\ [][Next]_vars
    /\ \A q \in Queries, k \in Keys : WF_vars(Callback(q, k))

-----------------------------------------------------------------------------
(***************************************************************************)
(* However many queries and listeners report a post, before and after the  *)
(* process died, the table has one row for it.                             *)
(***************************************************************************)
RowUnique == \A k \in Keys : Len(rows[k]) <= 1

(***************************************************************************)
(* The memory and the table agree on what this process has stored: an      *)
(* update finds the model it replaces, and the row holds its data.         *)
(***************************************************************************)
ModelsMatchRows ==
    \A k \in Keys :
        mModelKeys[k] \in Versions => k \in listed /\ rows[k] = <<mModelKeys[k]>>

(***************************************************************************)
(* A row this process has stored or updated is up to date as soon as every *)
(* listener of the post was called with the latest value.  (A row found in *)
(* the table after a restart need not be, and a deleted post keeps its     *)
(* row.)                                                                   *)
(***************************************************************************)
CaughtUp(k) == \A q \in Queries : seen[q][k] \in {NotListening, post[k]}

KnownRowsFresh ==
    \A k \in Keys :
        mModelKeys[k] \in Versions /\ post[k] # Null /\ CaughtUp(k) => rows[k] = <<post[k]>>

(***************************************************************************)
(* A post around a place that was synced gets its row, even though its     *)
(* geo-point is announced before the post exists; unless it is deleted or  *)
(* the process dies first.                                                 *)
(***************************************************************************)
PostsArrive ==
    \A q \in Queries, k \in Keys :
        center[q] # NoPlace /\ k \in points /\ k \in Around[center[q]] /\ post[k] # Null
            ~> HasObject(k) \/ post[k] = Null \/ k \notin points \/ center[q] = NoPlace

(***************************************************************************)
(* What the user asked for ("Do you want to delete this video?"): a        *)
(* deleted post disappears from every table that is in touch with the      *)
(* server.                                                                 *)
(***************************************************************************)
DeletedPostsLeave ==
    \A q \in Queries, k \in Keys :
        k \in published /\ post[k] = Null /\ seen[q][k] # NotListening ~> ~HasObject(k) \/ center[q] = NoPlace
=============================================================================
