----------------------------- MODULE UserPosts -----------------------------
(***************************************************************************)
(* UserProfileActivity: the profile of another user, a button that follows *)
(* or unfollows, and a grid of the user's posts.                           *)
(*                                                                         *)
(* A click reads people/me/following/user once and then writes the         *)
(* opposite.  Following loads the posts: a child listener on the user's    *)
(* entries and, for each entry, a value listener on the post.  They are    *)
(* never removed, not even when cleanup empties the grid.  Everything the  *)
(* activity does runs on the main looper, one callback at a time, in an    *)
(* order that is fixed only within one listener.                           *)
(*                                                                         *)
(* The database is what this client sees of it: its own writes show at     *)
(* once and are taken back if the server rejects them.  What the button    *)
(* writes beside people/me/following is read by nothing and left out, and  *)
(* so is the adapter's own query, which has no results.                    *)
(***************************************************************************)
EXTENDS KeyedList, FiniteSets

CONSTANTS
    MaxClicks,      \* bound: clicks on the button
    MaxLoads        \* bound: calls of loadPosts

ASSUME BoundAssumption == {MaxClicks, MaxLoads} \subseteq Nat

Loads == 1 .. MaxLoads

VARIABLES
    post,           \* posts/key
    entries,        \* people/user/posts
    followed,       \* the server's people/me/following/user
    writes,         \* this client's writes to it that the server has not answered
    clicks,
    reads,          \* the values that answer the clicks
    announced,      \* the values mFollowingListener is yet to be called with
    marshmallow,    \* Build.VERSION.SDK_INT >= M
    loads,          \* calls of loadPosts
    reported,       \* the entries that each call's child listener has reported
    seen,           \* what each of its value listeners was last called with
    grid,           \* mGridAdapter
    pc              \* what became of the activity

serverVars == <<post, entries>>
followVars == <<followed, writes, clicks, reads, announced>>
listenVars == <<loads, reported, seen>>
screenVars == <<grid, pc>>
vars == <<serverVars, followVars, marshmallow, listenVars, screenVars>>

NotListening == 3
Unseen == 4

(* A snapshot gives a new object each time, and each is stored once here,  *)
(* so a model is its key and version.                                      *)
Model == [key : Keys, version : Versions]
ModelOfMissing(k, v) == [key |-> k, version |-> v]
ModelOf(k, v) == IF v = Null THEN NoModel ELSE [key |-> k, version |-> v]

TypeOK ==
    /\ post \in [Keys -> Values]
    /\ entries \subseteq Keys
    /\ followed \in BOOLEAN
    /\ {writes, reads, announced} \subseteq Seq(BOOLEAN)
    /\ clicks \in 0 .. MaxClicks
    /\ marshmallow \in BOOLEAN
    /\ loads \in 0 .. MaxLoads
    /\ reported \in [Loads -> SUBSET Keys]
    /\ seen \in [Loads -> [Keys -> Values \cup {NotListening, Unseen}]]
    /\ grid \in ListType(Model)
    /\ pc \in {"shown", "closed", "crashed"}

(* The profile opens on some posts; the follow state is its first event.   *)
Init ==
    /\ entries \in SUBSET Keys
    /\ post = [k \in Keys |-> IF k \in entries THEN 1 ELSE Null]
    /\ followed \in BOOLEAN
    /\ writes = <<>>
    /\ clicks = 0
    /\ reads = <<>>
    /\ announced = <<followed>>
    /\ marshmallow \in BOOLEAN
    /\ loads = 0
    /\ reported = [l \in Loads |-> {}]
    /\ seen = [l \in Loads |-> [k \in Keys |-> NotListening]]
    /\ grid = EmptyList
    /\ pc = "shown"

-----------------------------------------------------------------------------
(***************************************************************************)
(* The author.  A post and its entry are published in one write and        *)
(* removed in two; the server then sets the post's time.                   *)
(***************************************************************************)
Publish(k) ==
    /\ pc = "shown"
    /\ post[k] = Null /\ k \notin entries
    /\ \A l \in Loads : seen[l][k] = NotListening
    /\ post' = [post EXCEPT ![k] = 1]
    /\ entries' = entries \cup {k}
    /\ UNCHANGED <<followVars, marshmallow, listenVars, screenVars>>

TimestampResolved(k) ==
    /\ pc = "shown"
    /\ post[k] = 1
    /\ post' = [post EXCEPT ![k] = 2]
    /\ UNCHANGED <<entries, followVars, marshmallow, listenVars, screenVars>>

RemovePost(k) ==
    /\ pc = "shown"
    /\ post[k] # Null
    /\ post' = [post EXCEPT ![k] = Null]
    /\ UNCHANGED <<entries, followVars, marshmallow, listenVars, screenVars>>

RemoveEntry(k) ==
    /\ pc = "shown"
    /\ k \in entries /\ post[k] = Null
    /\ entries' = entries \ {k}
    /\ UNCHANGED <<post, followVars, marshmallow, listenVars, screenVars>>

-----------------------------------------------------------------------------
(***************************************************************************)
(* The follow state as this client sees it, and the listener that hears    *)
(* of each change.                                                         *)
(***************************************************************************)
View(stored, pending) == IF pending = <<>> THEN stored ELSE Last(pending)
Following == View(followed, writes)

Announce(stored, pending) ==
    announced' = IF View(stored, pending) # Following
                 THEN Append(announced, View(stored, pending)) ELSE announced

Acknowledged ==
    /\ pc = "shown"
    /\ writes # <<>>
    /\ followed' = Head(writes)
    /\ writes' = Tail(writes)
    /\ UNCHANGED <<serverVars, clicks, reads, announced, marshmallow, listenVars, screenVars>>

Rejected ==
    /\ pc = "shown"
    /\ writes # <<>>
    /\ writes' = Tail(writes)
    /\ Announce(followed, Tail(writes))
    /\ UNCHANGED <<serverVars, followed, clicks, reads, marshmallow, listenVars, screenVars>>

OnClick ==
    /\ pc = "shown"
    /\ clicks < MaxClicks
    /\ clicks' = clicks + 1
    /\ reads' = Append(reads, Following)
    /\ UNCHANGED <<serverVars, followed, writes, announced, marshmallow, listenVars, screenVars>>

(* A child listener of its own for every call.                             *)
LoadPosts == loads < MaxLoads /\ loads' = loads + 1

Write(value) ==
    /\ writes' = Append(writes, value)
    /\ Announce(followed, Append(writes, value))

Cleanup == grid' = EmptyList

(* The answer to a click: unfollow and empty the grid, or follow and load. *)
Unfollow ==
    /\ pc = "shown"
    /\ reads # <<>> /\ Head(reads)
    /\ reads' = Tail(reads)
    /\ Write(FALSE)
    /\ Cleanup
    /\ UNCHANGED <<serverVars, followed, clicks, marshmallow, listenVars, pc>>

Follow ==
    /\ pc = "shown"
    /\ reads # <<>> /\ ~Head(reads)
    /\ reads' = Tail(reads)
    /\ Write(TRUE)
    /\ LoadPosts
    /\ UNCHANGED <<serverVars, followed, clicks, marshmallow, reported, seen, screenVars>>

(* mFollowingListener: only from Marshmallow on does it load the posts.    *)
LoadsPostsOnce(value) == value /\ marshmallow /\ loads = 0
LoadsPosts(value) == value /\ marshmallow

OnFollowingChange ==
    /\ pc = "shown"
    /\ announced # <<>>
    /\ announced' = Tail(announced)
    /\ IF LoadsPosts(Head(announced)) THEN LoadPosts ELSE UNCHANGED loads
    /\ UNCHANGED <<serverVars, followed, writes, clicks, reads, marshmallow,
                   reported, seen, screenVars>>

-----------------------------------------------------------------------------
(***************************************************************************)
(* The listeners of loadPosts.                                             *)
(***************************************************************************)
OnChildAdded(l, k) ==
    /\ pc = "shown"
    /\ l <= loads /\ k \in entries \ reported[l]
    /\ reported' = [reported EXCEPT ![l] = @ \cup {k}]
    /\ seen' = [seen EXCEPT ![l][k] = Unseen]
    /\ UNCHANGED <<serverVars, followVars, marshmallow, loads, screenVars>>

OnChildRemoved(l, k) ==
    /\ pc = "shown"
    /\ k \in reported[l] \ entries
    /\ reported' = [reported EXCEPT ![l] = @ \ {k}]
    /\ grid' = RemoveKey(grid, k)
    /\ UNCHANGED <<serverVars, followVars, marshmallow, loads, seen, pc>>

OnDataChange(l, k) ==
    /\ pc = "shown"
    /\ seen[l][k] \notin {NotListening, post[k]}
    /\ seen' = [seen EXCEPT ![l][k] = post[k]]
    /\ grid' = AddOrUpdate(grid, k, ModelOf(k, post[k]))
    /\ UNCHANGED <<serverVars, followVars, marshmallow, loads, reported, pc>>

(***************************************************************************)
(* A layout binds the rows: the thumbnail and the video are the model's,   *)
(* the key is the one at the same position of mKeys.  A null model, or a   *)
(* row without a key, is an exception that ends the process.               *)
(***************************************************************************)
Rows == DOMAIN grid.mModels
Bindable ==
    /\ NoModel \notin ToSet(grid.mModels)
    /\ Len(grid.mModels) <= Len(grid.mKeys)

LayoutCrashes ==
    /\ pc = "shown"
    /\ ~Bindable
    /\ pc' = "crashed"
    /\ UNCHANGED <<serverVars, followVars, marshmallow, listenVars, grid>>

(***************************************************************************)
(* onDestroy removes mFollowingListener, and no other: what the others     *)
(* then do is not seen, and left out.                                      *)
(***************************************************************************)
OnDestroy ==
    /\ pc = "shown"
    /\ pc' = "closed"
    /\ announced' = <<>>
    /\ UNCHANGED <<serverVars, followed, writes, clicks, reads, marshmallow, listenVars, grid>>

Next ==
    \/ \E k \in Keys : Publish(k) \/ TimestampResolved(k) \/ RemovePost(k) \/ RemoveEntry(k)
    \/ Acknowledged \/ Rejected \/ OnClick \/ Unfollow \/ Follow \/ OnFollowingChange
    \/ \E l \in Loads, k \in Keys :
           OnChildAdded(l, k) \/ OnChildRemoved(l, k) \/ OnDataChange(l, k)
    \/ LayoutCrashes \/ OnDestroy

Spec == Init /\ [][Next]_vars

-----------------------------------------------------------------------------
(***************************************************************************)
(* No post has two rows, whichever of several listeners report it, no row  *)
(* lacks a key, and whatever became of the null models, every post that is *)
(* there has its newest model in the grid.                                 *)
(***************************************************************************)
Shown(k) == Exists(grid, k) /\ Get(grid, k) # NoModel
Places(x) == {i \in Rows : grid.mModels[i] = x}

CollectionsAgree ==
    /\ IsInjective(grid.mKeys)
    /\ ToSet(grid.mKeys) = {k \in Keys : Exists(grid, k)}
    /\ Len(grid.mModels) <= Len(grid.mKeys)
    /\ ToSet(grid.mModels) \ {NoModel} = {Get(grid, k) : k \in {j \in Keys : Shown(j)}}
    /\ \A k \in Keys : Shown(k) => Cardinality(Places(Get(grid, k))) = 1

(***************************************************************************)
(* Once every listener and every click has had its answer, the posts of a  *)
(* followed user are in the grid as they are now, however often the user   *)
(* was unfollowed, also when the server did not accept that.  (Before      *)
(* Marshmallow a profile that opens on a followed user loads nothing.)     *)
(***************************************************************************)
Quiet ==
    /\ reads = <<>> /\ announced = <<>> /\ writes = <<>>
    /\ \A l \in Loads : l <= loads => reported[l] = entries
    /\ \A l \in Loads, k \in Keys : seen[l][k] \in {NotListening, post[k]}

FollowedPostsShown ==
    pc = "shown" /\ Quiet /\ Following /\ marshmallow =>
        \A k \in entries :
            post[k] # Null => ModelOf(k, post[k]) \in ToSet(grid.mModels)

(***************************************************************************)
(* A row opens the video of its model with the key, hence the comments, of *)
(* the same post (GridViewHolder.setThumbnail).  remove does not preserve  *)
(* this: for a key without a model it removes the first null there is.     *)
(***************************************************************************)
RowsOpenTheirPost == Bindable => \A i \in Rows : grid.mModels[i].key = grid.mKeys[i]
=============================================================================
