----------------------------- MODULE KeyedList -----------------------------
(***************************************************************************)
(* What FirebaseRecyclerAdapter and FirebaseGridRecyclerAdapter keep of    *)
(* the objects they show: mModels, the rows; mKeys, from which a row takes *)
(* the key that it hands on when it is touched; mModelKeys, the models by  *)
(* key.  The screens feed them through addSingle, update and remove, the   *)
(* adapter's own query through onChildAdded, onChildChanged and            *)
(* onChildRemoved.                                                         *)
(*                                                                         *)
(* A model is found in mModels by identity: two models that are equal here *)
(* must be one object of the program.  All snapshots of what is missing    *)
(* are the one null.  Nothing is ordered by a value that could move it, so *)
(* onChildMoved is never called and left out.                              *)
(***************************************************************************)
EXTENDS Naturals, Sequences, SequencesExt

CONSTANTS Keys, NoKey

ASSUME KeyAssumption == NoKey \notin Keys

(* What the database holds: versions of a value, or nothing.               *)
Null == 0
Versions == 1 .. 2
Values == Versions \cup {Null}

NoModel == [key |-> NoKey, version |-> Null]

ListType(models) ==
    [mModels : Seq(models \cup {NoModel}), mKeys : Seq(Keys),
     mModelKeys : UNION {[known -> models \cup {NoModel}] : known \in SUBSET Keys}]

EmptyList == [mModels |-> <<>>, mKeys |-> <<>>, mModelKeys |-> [k \in {} |-> NoModel]]

Exists(list, k) == k \in DOMAIN list.mModelKeys

(* HashMap: get gives null for a null model and for none.                  *)
Get(list, k) == IF Exists(list, k) THEN list.mModelKeys[k] ELSE NoModel
Put(list, k, model) ==
    [known \in DOMAIN list.mModelKeys \cup {k} |->
        IF known = k THEN model ELSE list.mModelKeys[known]]
Forget(list, k) == Restrict(list.mModelKeys, DOMAIN list.mModelKeys \ {k})

AddSingle(list, k, model) ==
    [mModels |-> Append(list.mModels, model),
     mKeys |-> Append(list.mKeys, k),
     mModelKeys |-> Put(list, k, model)]

IndexOf(list, model) == SelectInSeq(list.mModels, LAMBDA other : other = model)

Set(list, k, model) ==
    [list EXCEPT !.mModels[IndexOf(list, Get(list, k))] = model,
                 !.mModelKeys = Put(list, k, model)]

UpdateRow(list, k, model) ==
    IF IndexOf(list, Get(list, k)) > 0
    THEN [list EXCEPT !.mModels[IndexOf(list, Get(list, k))] = model] ELSE list
Update(list, k, model) ==
    IF IndexOf(list, Get(list, k)) > 0 THEN Set(list, k, model) ELSE list

RemoveKey(list, k) ==
    [mModels |-> RemoveFirst(list.mModels, Get(list, k)),
     mKeys |-> RemoveFirst(list.mKeys, k),
     mModelKeys |-> Forget(list, k)]

(* The body of every screen's value listener.                              *)
AddAlways(list, k, model) == AddSingle(list, k, model)
AddOrUpdate(list, k, model) ==
    IF Exists(list, k) THEN Update(list, k, model) ELSE AddSingle(list, k, model)

-----------------------------------------------------------------------------
(***************************************************************************)
(* The adapter's own child listener.  The first row's key is not kept.     *)
(***************************************************************************)
InsertFirst(list, k, model) ==
    [list EXCEPT !.mModels = <<model>> \o @, !.mModelKeys = Put(list, k, model)]

InsertAfter(list, k, model, previous) ==
    [mModels |-> InsertAt(list.mModels, IndexOf(list, Get(list, previous)) + 1, model),
     mKeys |-> Append(list.mKeys, k),
     mModelKeys |-> Put(list, k, model)]

InsertLast(list, k, model, previous) == AddSingle(list, k, model)
Insert(list, k, model, previous) ==
    IF previous = NoKey THEN InsertFirst(list, k, model)
    ELSE InsertAfter(list, k, model, previous)

(* onChildChanged sets the row without asking whether there is one.        *)
Settable(list, k) == IndexOf(list, Get(list, k)) > 0
=============================================================================
