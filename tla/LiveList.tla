------------------------------ MODULE LiveList ------------------------------
(***************************************************************************)
(* The lists that FirebaseRecyclerAdapter and FriendsAdapter feed from a   *)
(* query of their own: the dialogs of comments, likes and views, the       *)
(* comments beside a video and the list of people.                         *)
(*                                                                         *)
(* Two child listeners hear of each child.  The adapter's keeps the rows   *)
(* in the order of the query; the screen's gives each child a value        *)
(* listener, which adds or updates the same row, and removes the row of a  *)
(* child that goes.                                                        *)
(*                                                                         *)
(* Firebase registers listeners and applies changes on a thread of its     *)
(* own, between any two callbacks.  The events of one change are one       *)
(* message to the main looper: the value listeners of the child first,     *)
(* then the child listeners, in the order of their registration.  A new    *)
(* listener starts with what the client has (every query is kept in step   *)
(* by keepSynced).  No listener is ever removed.                           *)
(*                                                                         *)
(* A child comes once: comments have pushed keys, and likes, views and     *)
(* people are not removed by anybody.  What goes is this client's own      *)
(* write, when the server refuses it.                                      *)
(***************************************************************************)
EXTENDS KeyedList, FiniteSets

CONSTANT MaxWaiting     \* bound: what waits on the looper when a change comes

ASSUME LiveAssumption ==
    /\ Keys \subseteq Nat       \* in the order of the query
    /\ IsFiniteSet(Keys)
    /\ MaxWaiting \in Nat

VARIABLES
    child,          \* what the client has of the query
    come,           \* the children that were ever there
    tasks,          \* registrations that Firebase's thread is yet to do
    listeners,      \* the child listeners, in the order of registration
    valueListeners, \* the children with a value listener
    looper,         \* the callbacks yet to run, message by message
    list,           \* mAdapter
    pc              \* what became of the screen

dataVars == <<child, come>>
listenVars == <<tasks, listeners, valueListeners>>
vars == <<dataVars, listenVars, looper, list, pc>>

(***************************************************************************)
(* Value listeners and the adapter make an object each for one snapshot,   *)
(* and more than one of them can be in the list: `copy' tells them apart.  *)
(***************************************************************************)
Copies == 1 .. 2
Model == [key : Keys, version : Versions, copy : Copies]

Listeners == {"adapter", "screen"}
Registration == [to : Listeners, key : {NoKey}] \cup [to : {"value"}, key : Keys]

(* A message ends with EndOfMessage; a layout comes before the next one.   *)
Callback ==
    [to : Listeners \cup {"value"}, kind : {"added", "changed", "removed"}, key : Keys,
     version : Values, previous : Keys \cup {NoKey}]
EndOfMessage ==
    [to |-> "looper", kind |-> "end", key |-> NoKey, version |-> Null, previous |-> NoKey]

TypeOK ==
    /\ child \in [Keys -> Values]
    /\ come \subseteq Keys
    /\ tasks \in Seq(Registration)
    /\ listeners \in {<<>>, <<"adapter">>, <<"adapter", "screen">>}
    /\ valueListeners \subseteq Keys
    /\ looper \in Seq(Callback \cup {EndOfMessage})
    /\ list \in ListType(Model)
    /\ pc \in {"shown", "crashed"}

(* The screen has built the adapter and called loadLikes (loadComments,    *)
(* getPeople): its two registrations are on their way.                     *)
Init ==
    /\ child \in [Keys -> {Null, 2}]
    /\ come = {k \in Keys : child[k] # Null}
    /\ tasks = <<[to |-> "adapter", key |-> NoKey], [to |-> "screen", key |-> NoKey]>>
    /\ listeners = <<>>
    /\ valueListeners = {}
    /\ looper = <<>>
    /\ list = EmptyList
    /\ pc = "shown"

-----------------------------------------------------------------------------
(* The query: its children in order, and the child before each.            *)
Present(data) == {k \in Keys : data[k] # Null}
Children(data) ==
    CHOOSE s \in [1 .. Cardinality(Present(data)) -> Present(data)] :
        Range(s) = Present(data) /\ \A i, j \in DOMAIN s : i < j => s[i] < s[j]
PreviousChild(data, k) ==
    LET before == {j \in Present(data) : j < k}
    IN  IF before = {} THEN NoKey ELSE CHOOSE j \in before : \A i \in before : i <= j

Event(to, kind, data, k) ==
    [to |-> to, kind |-> kind, key |-> k, version |-> data[k],
     previous |-> PreviousChild(data, k)]

(* The events of a change of child k from `child' to `data'.               *)
ChildEvent(to, data, k) ==
    Event(to, IF child[k] = Null THEN "added" ELSE IF data[k] = Null THEN "removed" ELSE "changed",
          data, k)

EventsOf(data, k) ==
    (IF k \in valueListeners THEN <<Event("value", "changed", data, k)>> ELSE <<>>)
    \o [i \in DOMAIN listeners |-> ChildEvent(listeners[i], data, k)]

Post(events) ==
    looper' = IF events = <<>> THEN looper ELSE looper \o events \o <<EndOfMessage>>

Change(k, version) ==
    /\ pc = "shown"
    /\ Len(looper) < MaxWaiting
    /\ child' = [child EXCEPT ![k] = version]
    /\ Post(EventsOf(child', k))
    /\ UNCHANGED <<listenVars, list, pc>>

(***************************************************************************)
(* A comment is there with an estimate of its time before the server sets  *)
(* it; people and likes change when a profile does.  Only a write that the *)
(* server has not accepted can be refused.                                 *)
(***************************************************************************)
Write(k) == k \notin come /\ come' = come \cup {k} /\ Change(k, 1)
Resolve(k) == child[k] = 1 /\ Change(k, 2) /\ UNCHANGED come
Refuse(k) == child[k] = 1 /\ Change(k, Null) /\ UNCHANGED come

(* Firebase's thread registers a listener, which hears what there is.      *)
RegisterChildListener(to) ==
    /\ listeners' = Append(listeners, to)
    /\ Post([i \in DOMAIN Children(child) |-> Event(to, "added", child, Children(child)[i])])
    /\ UNCHANGED valueListeners

RegisterValueListener(k) ==
    /\ valueListeners' = valueListeners \cup {k}
    /\ Post(<<Event("value", "changed", child, k)>>)
    /\ UNCHANGED listeners

Register ==
    /\ pc = "shown"
    /\ tasks # <<>>
    /\ tasks' = Tail(tasks)
    /\ IF Head(tasks).to = "value" THEN RegisterValueListener(Head(tasks).key)
       ELSE RegisterChildListener(Head(tasks).to)
    /\ UNCHANGED <<dataVars, list, pc>>

-----------------------------------------------------------------------------
(***************************************************************************)
(* The callbacks.  They act on the list, or ask for a registration.        *)
(***************************************************************************)
Objects(l) == ToSet(l.mModels) \cup {l.mModelKeys[k] : k \in DOMAIN l.mModelKeys}
MissingModel(l, k, version) == [key |-> k, version |-> version, copy |-> 1]
NewModel(l, k, version) ==
    IF version = Null THEN NoModel
    ELSE CHOOSE model \in Model :
             model.key = k /\ model.version = version /\ model \notin Objects(l)

AdapterOnChildAdded(e) ==
    /\ e.to = "adapter" /\ e.kind = "added"
    /\ list' = Insert(list, e.key, NewModel(list, e.key, e.version), e.previous)
    /\ UNCHANGED <<tasks, pc>>

(* An exception ends the process.                                          *)
AdapterOnChildChanged(e) ==
    /\ e.to = "adapter" /\ e.kind = "changed"
    /\ list' = IF Settable(list, e.key)
               THEN Set(list, e.key, NewModel(list, e.key, e.version)) ELSE list
    /\ pc' = IF Settable(list, e.key) THEN pc ELSE "crashed"
    /\ UNCHANGED tasks

(* The adapter's own and the screen's: both remove the row of the child.   *)
OnChildRemoved(e) ==
    /\ e.to \in Listeners /\ e.kind = "removed"
    /\ list' = RemoveKey(list, e.key)
    /\ UNCHANGED <<tasks, pc>>

OnChildAdded(e) ==
    /\ e.to = "screen" /\ e.kind = "added"
    /\ tasks' = Append(tasks, [to |-> "value", key |-> e.key])
    /\ UNCHANGED <<list, pc>>

OnDataChange(e) ==
    /\ e.to = "value"
    /\ list' = AddOrUpdate(list, e.key, NewModel(list, e.key, e.version))
    /\ UNCHANGED <<tasks, pc>>

(* The screen's onChildChanged is empty.                                   *)
NothingToDo(e) ==
    /\ \/ e = EndOfMessage
       \/ e.to = "screen" /\ e.kind = "changed"
    /\ UNCHANGED <<list, tasks, pc>>

Dispatch ==
    /\ pc = "shown"
    /\ looper # <<>>
    /\ looper' = Tail(looper)
    /\ LET e == Head(looper)
       IN  \/ AdapterOnChildAdded(e) \/ AdapterOnChildChanged(e) \/ OnChildRemoved(e)
           \/ OnChildAdded(e) \/ OnDataChange(e) \/ NothingToDo(e)
    /\ UNCHANGED <<dataVars, listeners, valueListeners>>

(* A layout, between two messages: a row without a model is an exception.  *)
LayoutCrashes ==
    /\ pc = "shown"
    /\ looper # <<>> => Head(looper) = EndOfMessage
    /\ NoModel \in ToSet(list.mModels)
    /\ pc' = "crashed"
    /\ UNCHANGED <<dataVars, listenVars, looper, list>>

Next ==
    \/ \E k \in Keys : Write(k) \/ Resolve(k) \/ Refuse(k)
    \/ Register \/ Dispatch \/ LayoutCrashes

Spec == Init /\ [][Next]_vars

-----------------------------------------------------------------------------
(***************************************************************************)
(* At no moment does the list show a child twice or out of the order of    *)
(* the query, however the events of its two kinds of listeners and the     *)
(* registrations they cause interleave ("Insert into the correct           *)
(* location").                                                             *)
(***************************************************************************)
Shown == {i \in DOMAIN list.mModels : list.mModels[i] # NoModel}

RowsInOrder ==
    \A i, j \in Shown : i < j => list.mModels[i].key < list.mModels[j].key

(***************************************************************************)
(* When all has been heard, the rows are the children of the query, each   *)
(* with its newest version; at most a row without a model is left of a     *)
(* refused child.                                                          *)
(***************************************************************************)
Quiet == tasks = <<>> /\ looper = <<>>

RowsMapChildren ==
    pc = "shown" /\ Quiet =>
        /\ {list.mModels[i].key : i \in Shown} = Present(child)
        /\ \A k \in Present(child) :
               Get(list, k).version = child[k] /\ Get(list, k) \in ToSet(list.mModels)

(***************************************************************************)
(* As long as the server refuses nothing, no callback throws and no row is *)
(* without a model: the row that onChildChanged sets is always there.      *)
(***************************************************************************)
NothingRefused == come = Present(child)

AcceptedListsLive == NothingRefused => pc = "shown" /\ NoModel \notin ToSet(list.mModels)
=============================================================================
