-------------------------- MODULE FeedsSync_proofs --------------------------
(***************************************************************************)
(* The table of posts, for any posts, places, queries and restarts.        *)
(***************************************************************************)
EXTENDS FeedsSync, SequenceTheorems, TLAPS

(***************************************************************************)
(* Why a model in memory is not older than what every listener has seen:   *)
(* it came from a listener, and no listener forgets what it was called     *)
(* with, because a key that left a query has lost its geo-point for good.  *)
(***************************************************************************)
EnteredWasPublished == \A q \in Queries : entered[q] \subseteq points \cup published

ListenersStay ==
    \A q \in Queries, k \in Keys :
        seen[q][k] # NotListening => k \in entered[q] \/ k \in published \ points

ModelsWereSeen ==
    \A k \in Keys :
        mModelKeys[k] \in Versions => \E q \in Queries : seen[q][k] = mModelKeys[k]

TableInv ==
    /\ TypeOK
    /\ RowUnique
    /\ ModelsMatchRows
    /\ EnteredWasPublished
    /\ ListenersStay
    /\ ModelsWereSeen

-----------------------------------------------------------------------------
(***************************************************************************)
(* What the provider's insert and update make of at most one row           *)
(* (FeedsProvider.insert, update).                                         *)
(***************************************************************************)
LEMMA AppendToNone ==
    ASSUME NEW v \in Versions
    PROVE  Append(<<>>, v) = <<v>> /\ <<v>> \in Seq(Versions) /\ Len(<<v>>) = 1
  OBVIOUS

LEMMA UpdateOne ==
    ASSUME NEW s \in Seq(Versions), NEW v \in Versions, s # <<>>, Len(s) <= 1
    PROVE  [i \in DOMAIN s |-> v] = <<v>>
  <1>1. Len(s) \in Nat /\ Len(s) # 0
    OBVIOUS
  <1>2. Len(s) = 1
    <2>1. \A n \in Nat : n # 0 /\ n <= 1 => n = 1
      OBVIOUS
    <2> QED
      BY <1>1, <2>1, Zenon
  <1>3. DOMAIN s = 1 .. 1
    BY <1>2
  <1> QED
    BY <1>3

(***************************************************************************)
(* A process starts with nothing entered, listened to or remembered        *)
(* (constructor of FeedsSyncAdapter).                                      *)
(***************************************************************************)
LEMMA InitTable == Init => TableInv
  BY SyncAssumption
  DEF Init, TableInv, TypeOK, RowUnique, ModelsMatchRows, EnteredWasPublished, ListenersStay,
      ModelsWereSeen, NoQueries, NoneEntered, NoListeners, NoModels, NotListening, Absent,
      Null, Values, Versions

(***************************************************************************)
(* The server and the user's moves do not touch the table; a new post is   *)
(* the only one whose geo-point was not yet followed by a post             *)
(* (UploadFragment, ProfileViewHolder, MyLocationListener).                *)
(***************************************************************************)
LEMMA ServerTable == ASSUME TableInv, NEW k \in Keys, Server(k) PROVE TableInv'
  <1> USE DEF TableInv, Null, Values, Versions
  <1>1. CASE SetLocation(k)
    BY <1>1
    DEF SetLocation, listenVars, modelVars, TypeOK, RowUnique, ModelsMatchRows,
        EnteredWasPublished, ListenersStay, ModelsWereSeen
  <1>2. CASE Publish(k)
    BY <1>2
    DEF Publish, listenVars, modelVars, TypeOK, RowUnique, ModelsMatchRows,
        EnteredWasPublished, ListenersStay, ModelsWereSeen
  <1>3. CASE TimestampResolved(k)
    BY <1>3
    DEF TimestampResolved, listenVars, modelVars, TypeOK, RowUnique, ModelsMatchRows,
        EnteredWasPublished, ListenersStay, ModelsWereSeen
  <1>4. CASE DeletePost(k)
    BY <1>4
    DEF DeletePost, listenVars, modelVars, TypeOK, RowUnique, ModelsMatchRows,
        EnteredWasPublished, ListenersStay, ModelsWereSeen
  <1>5. CASE RemovePoint(k)
    BY <1>5
    DEF RemovePoint, listenVars, modelVars, TypeOK, RowUnique, ModelsMatchRows,
        EnteredWasPublished, ListenersStay, ModelsWereSeen
  <1> QED
    BY <1>1, <1>2, <1>3, <1>4, <1>5 DEF Server

LEMMA MoveTable == ASSUME TableInv, Move PROVE TableInv'
  BY DEF Move, TableInv, serverVars, listenVars, modelVars, TypeOK, RowUnique, ModelsMatchRows,
         EnteredWasPublished, ListenersStay, ModelsWereSeen

(***************************************************************************)
(* A sync starts a query; the death of the process empties the memory and  *)
(* leaves the table (onPerformSync, FeedsSyncService.onCreate).            *)
(***************************************************************************)
LEMMA SyncTable == ASSUME TableInv, NEW q \in Queries, OnPerformSync(q) PROVE TableInv'
  BY DEF OnPerformSync, TableInv, serverVars, modelVars, TypeOK, RowUnique, ModelsMatchRows,
         EnteredWasPublished, ListenersStay, ModelsWereSeen

LEMMA RestartTable == ASSUME TableInv, Restart PROVE TableInv'
  BY SyncAssumption
  DEF Restart, TableInv, serverVars, TypeOK, RowUnique, ModelsMatchRows, EnteredWasPublished,
      ListenersStay, ModelsWereSeen, NoQueries, NoneEntered, NoListeners, NoModels,
      NotListening, Absent, Null, Values, Versions

(***************************************************************************)
(* A key enters with a listener that was not called; it has none of this   *)
(* query, which it never left (onKeyEntered).                              *)
(***************************************************************************)
LEMMA EnterTable ==
    ASSUME TableInv, NEW q \in Queries, NEW k \in Keys, OnKeyEntered(q, k)
    PROVE  TableInv'
  <1> USE DEF TableInv, OnKeyEntered, serverVars, modelVars
  <1>1. TypeOK'
    BY DEF TypeOK, Unseen, Values, Versions, Null
  <1>2. RowUnique' /\ ModelsMatchRows'
    BY DEF RowUnique, ModelsMatchRows
  <1>3. EnteredWasPublished' /\ ListenersStay'
    BY DEF EnteredWasPublished, ListenersStay, TypeOK
  <1>4. seen[q][k] = NotListening
    BY DEF ListenersStay
  <1>5. ModelsWereSeen'
    <2> SUFFICES ASSUME NEW key \in Keys, mModelKeys[key] \in Versions
                 PROVE  \E p \in Queries : seen'[p][key] = mModelKeys[key]
      BY DEF ModelsWereSeen
    <2>1. PICK p \in Queries : seen[p][key] = mModelKeys[key]
      BY DEF ModelsWereSeen
    <2>2. p # q \/ key # k
      BY <1>4, <2>1 DEF NotListening, Versions
    <2>3. seen'[p][key] = seen[p][key]
      BY <2>2 DEF TypeOK
    <2> QED
      BY <2>1, <2>3
  <1> QED
    BY <1>1, <1>2, <1>3, <1>5

(***************************************************************************)
(* A key leaves: its model and its row go, its listener stays (onKeyExited,*)
(* remove).                                                                *)
(***************************************************************************)
LEMMA ExitTable ==
    ASSUME TableInv, NEW q \in Queries, NEW k \in Keys, OnKeyExited(q, k)
    PROVE  TableInv'
  <1> USE DEF TableInv, OnKeyExited, Delete, serverVars
  <1>1. TypeOK'
    BY DEF TypeOK, Absent
  <1>2. RowUnique' /\ ModelsMatchRows'
    BY DEF RowUnique, ModelsMatchRows, TypeOK, Absent, Versions
  <1>3. EnteredWasPublished' /\ ListenersStay'
    BY DEF EnteredWasPublished, ListenersStay, TypeOK
  <1>4. ModelsWereSeen'
    BY DEF ModelsWereSeen, TypeOK, Absent, Versions
  <1> QED
    BY <1>1, <1>2, <1>3, <1>4

-----------------------------------------------------------------------------
(***************************************************************************)
(* What a value does to the memory and the row of its own key (addSingle,  *)
(* update).                                                                *)
(***************************************************************************)
LEMMA AddOne ==
    ASSUME TableInv, NEW k \in Keys, NEW v \in Values, ~HasObject(k), AddSingle(k, v)
    PROVE  /\ mModelKeys' = [mModelKeys EXCEPT ![k] = v]
           /\ listed' \subseteq Keys /\ nulls' \in Nat
           /\ \A key \in Keys \ {k} : key \in listed => key \in listed'
           /\ \/ v = Null /\ rows' = rows
              \/ v \in Versions /\ k \in listed' /\ rows' = [rows EXCEPT ![k] = <<v>>]
  <1> USE DEF TableInv, TypeOK, AddSingle, Remember
  <1>1. CASE v = Null
    BY <1>1
  <1>2. CASE v # Null
    <2>1. v \in Versions
      BY <1>2 DEF Values
    <2>2. rows' = [rows EXCEPT ![k] = Append(rows[k], v)]
      BY <1>2 DEF Insert
    <2>3. Append(rows[k], v) = <<v>>
      BY <2>1, AppendToNone DEF HasObject
    <2> QED
      BY <1>2, <2>1, <2>2, <2>3
  <1> QED
    BY <1>1, <1>2

LEMMA ReplaceOne ==
    ASSUME TableInv, NEW k \in Keys, NEW v \in Values, HasObject(k), IndexFound(k), UpdateModel(k, v)
    PROVE  /\ mModelKeys' = [mModelKeys EXCEPT ![k] = v]
           /\ listed' \subseteq Keys /\ nulls' \in Nat
           /\ \A key \in Keys \ {k} : key \in listed => key \in listed'
           /\ \/ v = Null /\ rows' = rows
              \/ v \in Versions /\ k \in listed' /\ rows' = [rows EXCEPT ![k] = <<v>>]
  <1> USE DEF TableInv, TypeOK
  <1>1. ReplaceModel(k, v) /\ (IF v = Null THEN UNCHANGED rows ELSE Update(k, v))
    BY DEF UpdateModel
  <1>2. mModelKeys' = [mModelKeys EXCEPT ![k] = v]
    BY <1>1 DEF ReplaceModel, Remember
  <1>3. nulls' \in Nat
    BY <1>1 DEF ReplaceModel, IndexFound
  <1>4. listed' \subseteq Keys /\ \A key \in Keys \ {k} : key \in listed => key \in listed'
    BY <1>1 DEF ReplaceModel
  <1>5. CASE v = Null
    BY <1>1, <1>2, <1>3, <1>4, <1>5
  <1>6. CASE v # Null
    <2>1. v \in Versions /\ k \in listed'
      BY <1>1, <1>6 DEF Values, ReplaceModel
    <2>2. [i \in DOMAIN rows[k] |-> v] = <<v>>
      BY <2>1, UpdateOne DEF HasObject, RowUnique
    <2>3. rows' = [rows EXCEPT ![k] = [i \in DOMAIN rows[k] |-> v]]
      BY <1>1, <1>6 DEF Update
    <2> QED
      BY <1>2, <1>3, <1>4, <2>1, <2>2, <2>3
  <1> QED
    BY <1>5, <1>6

(***************************************************************************)
(* Only a key without a model is ignored by an update: a model in memory   *)
(* is among mModels (update's "index >= 0").                               *)
(***************************************************************************)
LEMMA IgnoredHasNoModel ==
    ASSUME TableInv, NEW k \in Keys, ~IndexFound(k)
    PROVE  mModelKeys[k] \notin Versions
  BY DEF TableInv, ModelsMatchRows, IndexFound, OldIsNull, Absent, Null, Versions

LEMMA ValueTable ==
    ASSUME TableInv, NEW q \in Queries, NEW k \in Keys, OnDataChange(q, k)
    PROVE  TableInv'
  <1> DEFINE v == post[k]
  <1>1. v \in Values
    BY DEF TableInv, TypeOK
  <1>2. /\ seen[q][k] # NotListening
        /\ seen' = [seen EXCEPT ![q] = [@ EXCEPT ![k] = v]]
        /\ UNCHANGED <<post, published, points, location, center, entered, restarts>>
    BY DEF OnDataChange, Called, serverVars
  <1>3. seen' \in [Queries -> [Keys -> Values \cup {NotListening, Unseen}]]
    BY <1>1, <1>2 DEF TableInv, TypeOK
  <1>4. \A p \in Queries, key \in Keys : seen'[p][key] = IF p = q /\ key = k THEN v ELSE seen[p][key]
    BY <1>2 DEF TableInv, TypeOK
  <1>5. EnteredWasPublished' /\ ListenersStay'
    <2>1. EnteredWasPublished'
      BY <1>2 DEF TableInv, EnteredWasPublished
    <2>2. ListenersStay'
      BY <1>2, <1>4 DEF TableInv, ListenersStay
    <2> QED
      BY <2>1, <2>2
  <1>6. CASE UNCHANGED <<modelVars, rows>> /\ mModelKeys[k] \notin Versions
    <2>1. TypeOK' /\ RowUnique' /\ ModelsMatchRows'
      BY <1>2, <1>3, <1>6 DEF TableInv, TypeOK, RowUnique, ModelsMatchRows, modelVars
    <2>2. ModelsWereSeen'
      BY <1>4, <1>6 DEF TableInv, ModelsWereSeen, modelVars
    <2> QED
      BY <1>5, <2>1, <2>2 DEF TableInv
  <1>7. CASE /\ mModelKeys' = [mModelKeys EXCEPT ![k] = v]
             /\ listed' \subseteq Keys /\ nulls' \in Nat
             /\ \A key \in Keys \ {k} : key \in listed => key \in listed'
             /\ \/ v = Null /\ rows' = rows
                \/ v \in Versions /\ k \in listed' /\ rows' = [rows EXCEPT ![k] = <<v>>]
    <2>1. \A key \in Keys : mModelKeys'[key] = IF key = k THEN v ELSE mModelKeys[key]
      BY <1>7 DEF TableInv, TypeOK
    <2>2. /\ rows' \in [Keys -> Seq(Versions)]
          /\ \A key \in Keys \ {k} : rows'[key] = rows[key]
          /\ rows'[k] = <<v>> \/ (v = Null /\ rows'[k] = rows[k])
      BY <1>7, AppendToNone DEF TableInv, TypeOK
    <2>3. TypeOK'
      BY <1>1, <1>2, <1>3, <1>7, <2>2 DEF TableInv, TypeOK
    <2>4. RowUnique'
      <3>1. \A key \in Keys : Len(rows[key]) <= 1
        BY DEF TableInv, RowUnique
      <3>2. Len(rows'[k]) <= 1
        <4>1. CASE v = Null /\ rows'[k] = rows[k]
          BY <3>1, <4>1
        <4>2. CASE rows'[k] = <<v>>
          BY <4>2
        <4> QED
          BY <2>2, <4>1, <4>2
      <3> QED
        BY <2>2, <3>1, <3>2 DEF RowUnique
    <2>5. ModelsMatchRows'
      BY <1>7, <2>1, <2>2 DEF TableInv, ModelsMatchRows, Null, Versions
    <2>6. ModelsWereSeen'
      BY <1>4, <2>1 DEF TableInv, ModelsWereSeen
    <2> QED
      BY <1>5, <2>3, <2>4, <2>5, <2>6 DEF TableInv
  <1>8. CASE ~HasObject(k) /\ AddSingle(k, v)
    BY <1>1, <1>7, <1>8, AddOne
  <1>9. CASE HasObject(k) /\ UpdateModel(k, v)
    <2>1. CASE IndexFound(k)
      BY <1>1, <1>7, <1>9, <2>1, ReplaceOne
    <2>2. CASE ~IndexFound(k)
      BY <1>6, <1>9, <2>2, IgnoredHasNoModel DEF UpdateModel
    <2> QED
      BY <2>1, <2>2
  <1> QED
    BY <1>8, <1>9 DEF OnDataChange

-----------------------------------------------------------------------------
LEMMA StepTable == TableInv /\ [Next]_vars => TableInv'
  <1> SUFFICES ASSUME TableInv, [Next]_vars PROVE TableInv'
    OBVIOUS
  <1>1. CASE \E k \in Keys : Server(k)
    BY <1>1, ServerTable
  <1>2. CASE Move
    BY <1>2, MoveTable
  <1>3. CASE \E q \in Queries : OnPerformSync(q)
    BY <1>3, SyncTable
  <1>4. CASE \E q \in Queries, k \in Keys : Callback(q, k)
    BY <1>4, EnterTable, ValueTable, ExitTable DEF Callback
  <1>5. CASE Restart
    BY <1>5, RestartTable
  <1>6. CASE UNCHANGED vars
    BY <1>6
    DEF vars, serverVars, listenVars, modelVars, TableInv, TypeOK, RowUnique, ModelsMatchRows,
        EnteredWasPublished, ListenersStay, ModelsWereSeen
  <1> QED
    BY <1>1, <1>2, <1>3, <1>4, <1>5, <1>6 DEF Next

(* The invariant of the table holds in every reachable state.              *)
THEOREM TableIsInvariant == Spec => []TableInv
  BY InitTable, StepTable, PTL DEF Spec

(* The fields of FeedsSyncAdapter and the rows of the table keep their     *)
(* types; in particular update never takes away a null that is not there.  *)
THEOREM TypeCorrect == Spec => []TypeOK
  BY TableIsInvariant, PTL DEF TableInv

(* However often a post is reported, before and after the process died,    *)
(* FeedsProvider holds one row for it.                                     *)
THEOREM OneRowPerPost == Spec => []RowUnique
  BY TableIsInvariant, PTL DEF TableInv

(* The models of FeedsSyncAdapter agree with the rows of FeedsProvider.    *)
THEOREM MemoryMatchesTable == Spec => []ModelsMatchRows
  BY TableIsInvariant, PTL DEF TableInv

(* A row this process stored is up to date once every listener of its post *)
(* was called with the latest value (onDataChange).                        *)
THEOREM StoredRowsFresh == Spec => []KnownRowsFresh
  <1>1. TableInv => KnownRowsFresh
    <2> SUFFICES ASSUME TableInv, NEW k \in Keys, mModelKeys[k] \in Versions, CaughtUp(k)
                 PROVE  rows[k] = <<post[k]>>
      BY DEF KnownRowsFresh
    <2>1. PICK q \in Queries : seen[q][k] = mModelKeys[k]
      BY DEF TableInv, ModelsWereSeen
    <2>2. seen[q][k] = post[k]
      BY <2>1 DEF CaughtUp, NotListening, Versions
    <2>3. rows[k] = <<mModelKeys[k]>>
      BY DEF TableInv, ModelsMatchRows
    <2> QED
      BY <2>1, <2>2, <2>3
  <1> QED
    BY <1>1, TableIsInvariant, PTL
=============================================================================
