--------------------------- MODULE LiveList_proofs ---------------------------
(***************************************************************************)
(* Proofs about LiveList, for any set of children and any number of        *)
(* callbacks that wait on the looper.                                      *)
(*                                                                         *)
(* The invariant looks at the list as it will be when each waiting         *)
(* callback runs: which children then have a row is decided by those that  *)
(* have one now, the callbacks before it that add one, and those that take *)
(* one away.  When the last callback has run, they are the children that   *)
(* the client has.  A callback that adds a row then finds the row of the   *)
(* child before, and nothing between; a callback that sets a row finds it. *)
(***************************************************************************)
EXTENDS LiveList, FiniteSetTheorems, SequenceTheorems, TLAPS

-----------------------------------------------------------------------------
(* What a callback does to the row of its child.                           *)
Adds(e) == e.to = "adapter" /\ e.kind = "added"
Sets(e, k) == e.to \in {"adapter", "value"} /\ e.version # Null /\ e.key = k
Clears(e, k) == e # EndOfMessage /\ e.version = Null /\ e.key = k

HasModel(l, k) == k \in DOMAIN l.mModelKeys /\ l.mModelKeys[k] # NoModel

(* Child k has a row when the i-th callback of q runs on the list l.       *)
InList(l, q, k, i) ==
    /\ \/ HasModel(l, k)
       \/ \E h \in 1 .. i - 1 : Adds(q[h]) /\ q[h].key = k
    /\ \A h \in 1 .. i - 1 : ~Clears(q[h], k)

WellFormed(e) ==
    /\ e \in Callback
    /\ e.to = "value" => e.kind = "changed"
    /\ e.to \in Listeners => (e.kind = "removed" <=> e.version = Null)

KeysKnown(q, seen) ==
    \A i \in 1 .. Len(q) : q[i] # EndOfMessage => WellFormed(q[i]) /\ q[i].key \in seen

AddedFirst(q) ==
    \A i \in 1 .. Len(q) : Adds(q[i]) => \A h \in 1 .. i - 1 : q[h].key # q[i].key

SetsWhatIsThere(l, q) ==
    \A i \in 1 .. Len(q) : \A k \in Keys :
        Sets(q[i], k) /\ ~Adds(q[i]) => InList(l, q, k, i)

Between(p, j, k) == j # k /\ (j < k => p # NoKey /\ j <= p)

AddsInPlace(l, q) ==
    \A i \in 1 .. Len(q) : Adds(q[i]) =>
        /\ q[i].previous # NoKey =>
               q[i].previous < q[i].key /\ InList(l, q, q[i].previous, i)
        /\ \A j \in Keys : InList(l, q, j, i) => Between(q[i].previous, j, q[i].key)

EndsAsChildren(l, q, data) ==
    \A k \in Keys : InList(l, q, k, Len(q) + 1) <=> data[k] # Null

LastIsNewest(l, q, data) ==
    \A k \in Keys : data[k] # Null =>
        /\ \A i \in 1 .. Len(q) :
               Sets(q[i], k) /\ (\A h \in i + 1 .. Len(q) : ~Sets(q[h], k))
               => q[i].version = data[k]
        /\ (\A h \in 1 .. Len(q) : ~Sets(q[h], k)) => l.mModelKeys[k].version = data[k]

(* The list l and the callbacks q that wait, when `data' is what the client*)
(* has and `seen' the children there were.                                 *)
Heard(l, q, data, seen) ==
    /\ KeysKnown(q, seen) /\ AddedFirst(q)
    /\ SetsWhatIsThere(l, q) /\ AddsInPlace(l, q)
    /\ EndsAsChildren(l, q, data) /\ LastIsNewest(l, q, data)

QueueInv == listeners # <<>> => Heard(list, looper, child, come)

AdapterTask == [to |-> "adapter", key |-> NoKey]
ScreenTask == [to |-> "screen", key |-> NoKey]

TaskInv ==
    \/ /\ listeners = <<>> /\ tasks = <<AdapterTask, ScreenTask>>
       /\ looper = <<>> /\ list = EmptyList /\ valueListeners = {}
    \/ /\ listeners = <<"adapter">> /\ tasks = <<ScreenTask>>
       /\ \A i \in 1 .. Len(looper) : looper[i].to # "screen"
    \/ /\ listeners = <<"adapter", "screen">>
       /\ \A i \in 1 .. Len(tasks) : tasks[i] \in [to : {"value"}, key : come]

CameInv ==
    /\ Present(child) \subseteq come /\ valueListeners \subseteq come

(* Every model of the map has one row, every row with a model is the one   *)
(* that the map has for its key, and these rows are in order.              *)
Row == Model \cup {NoModel}
RowsAgree(rows, map) ==
    /\ rows \in Seq(Row)
    /\ DOMAIN map \subseteq Keys
    /\ map \in [DOMAIN map -> Row]
    /\ \A k \in DOMAIN map : map[k] # NoModel =>
           map[k].key = k /\ \E i \in 1 .. Len(rows) : rows[i] = map[k]
    /\ \A i \in 1 .. Len(rows) : rows[i] # NoModel =>
           rows[i].key \in DOMAIN map /\ map[rows[i].key] = rows[i]
    /\ \A i, j \in 1 .. Len(rows) :
           i < j /\ rows[i] # NoModel /\ rows[j] # NoModel => rows[i].key < rows[j].key

Agree(l) ==
    /\ l = [mModels |-> l.mModels, mKeys |-> l.mKeys, mModelKeys |-> l.mModelKeys]
    /\ RowsAgree(l.mModels, l.mModelKeys)
    /\ l.mKeys \in Seq(Keys)

ListInv == TypeOK /\ CameInv /\ TaskInv /\ QueueInv /\ Agree(list) /\ AcceptedListsLive

-----------------------------------------------------------------------------
(* Sequences. *)

LEMMA ElementType ==
    ASSUME NEW S, NEW s \in Seq(S), NEW i \in 1 .. Len(s) PROVE s[i] \in S
  OBVIOUS

LEMMA TailElements ==
    ASSUME NEW S, NEW s \in Seq(S), s # << >>
    PROVE  /\ Len(s) \in Nat \ {0} /\ Head(s) = s[1]
           /\ Tail(s) \in Seq(S) /\ Len(Tail(s)) = Len(s) - 1
           /\ \A i \in 1 .. Len(s) - 1 : Tail(s)[i] = s[i + 1]
           /\ Tail(s) = << >> => Len(s) = 1
<1>1. Len(s) \in Nat /\ Len(s) # 0
  OBVIOUS
<1>2. Len(Tail(s)) = Len(s) - 1 /\ Tail(s) \in Seq(S)
  OBVIOUS
<1>3. Tail(s) = << >> => Len(Tail(s)) = 0
  <2>1. Len(<< >>) = 0
    OBVIOUS
  <2> QED
    BY <2>1, Zenon
<1>4. Tail(s) = << >> => Len(s) = 1
  BY <1>1, <1>2, <1>3
<1> QED
  BY <1>1, <1>2, <1>4

(* A set of natural numbers has its minimum. *)
LEMMA MinOfNaturals ==
    ASSUME NEW T \in SUBSET Nat, T # {}
    PROVE  Min(T) \in T /\ \A j \in T : Min(T) <= j
<1>1. PICK x \in T : \A y \in T : ~(<<y, x>> \in OpToRel(<, Nat))
  BY NatLessThanWellFounded, WFMin
<1>2. \A y \in T : <<y, x>> \in OpToRel(<, Nat) <=> y < x
  BY DEF OpToRel
<1>3. \A y \in T : ~(y < x)
  BY <1>1, <1>2, Zenon
<1>4. \A y \in T : x <= y
  BY <1>3
<1> QED
  BY <1>4 DEF Min

(* The first place of an element, or 0. *)
LEMMA FirstPlace ==
    ASSUME NEW S, NEW s \in Seq(S), NEW e
    PROVE  LET n == SelectInSeq(s, LAMBDA other : other = e)
           IN  \/ n \in 1 .. Len(s) /\ s[n] = e
               \/ n = 0 /\ \A i \in 1 .. Len(s) : s[i] # e
<1> DEFINE places == {i \in 1 .. Len(s) : s[i] = e}
<1>1. SelectInSeq(s, LAMBDA other : other = e) = IF places # {} THEN Min(places) ELSE 0
  BY DEF SelectInSeq
<1>2. places # {} => Min(places) \in places
  <2>1. places \in SUBSET Nat
    OBVIOUS
  <2> QED
    BY <2>1, MinOfNaturals
<1> QED
  BY <1>1, <1>2

LEMMA RemoveAtElements ==
    ASSUME NEW S, NEW s \in Seq(S), NEW n \in 1 .. Len(s)
    PROVE  /\ RemoveAt(s, n) \in Seq(S)
           /\ Len(RemoveAt(s, n)) = Len(s) - 1
           /\ \A i \in 1 .. Len(s) - 1 : RemoveAt(s, n)[i] = IF i < n THEN s[i] ELSE s[i + 1]
<1> DEFINE front == SubSeq(s, 1, n - 1)
           back == SubSeq(s, n + 1, Len(s))
<1>1. /\ front \in Seq(S) /\ Len(front) = n - 1
      /\ \A i \in 1 .. n - 1 : front[i] = s[i]
  OBVIOUS
<1>2. /\ back \in Seq(S) /\ Len(back) = Len(s) - n
      /\ \A i \in 1 .. Len(s) - n : back[i] = s[n + i]
  OBVIOUS
<1> HIDE DEF front, back
<1>3. front \o back \in Seq(S) /\ Len(front \o back) = Len(s) - 1
  BY <1>1, <1>2
<1>4. \A i \in 1 .. Len(s) - 1 : (front \o back)[i] = IF i < n THEN s[i] ELSE s[i + 1]
  <2> SUFFICES ASSUME NEW i \in 1 .. Len(s) - 1
               PROVE  (front \o back)[i] = IF i < n THEN s[i] ELSE s[i + 1]
    OBVIOUS
  <2>1. CASE i < n
    BY <1>1, <1>2, <2>1
  <2>2. CASE ~(i < n)
    <3>1. (front \o back)[i] = back[i - (n - 1)]
      BY <1>1, <1>2, <2>2
    <3>2. i - (n - 1) \in 1 .. Len(s) - n /\ n + (i - (n - 1)) = i + 1
      BY <2>2
    <3> QED
      BY <1>2, <2>2, <3>1, <3>2
  <2> QED
    BY <2>1, <2>2
<1> QED
  BY <1>3, <1>4 DEF RemoveAt, front, back

(* Taking away the first occurrence of an element, if there is one. *)
LEMMA RemoveFirstElement ==
    ASSUME NEW S, NEW s \in Seq(S), NEW e
    PROVE  \/ \E n \in 1 .. Len(s) : s[n] = e /\ RemoveFirst(s, e) = RemoveAt(s, n)
           \/ RemoveFirst(s, e) = s /\ \A i \in 1 .. Len(s) : s[i] # e
<1> DEFINE n == SelectInSeq(s, LAMBDA other : other = e)
<1>1. \/ n \in 1 .. Len(s) /\ s[n] = e
      \/ n = 0 /\ \A i \in 1 .. Len(s) : s[i] # e
  BY FirstPlace
<1>2. RemoveFirst(s, e) = IF \E i \in 1 .. Len(s) : s[i] = e THEN RemoveAt(s, n) ELSE s
  BY DEF RemoveFirst
<1> QED
  BY <1>1, <1>2

-----------------------------------------------------------------------------
(* The rows and the models by key.                                         *)

PutIn(map, k, model) ==
    [known \in DOMAIN map \cup {k} |-> IF known = k THEN model ELSE map[known]]
ForgetIn(map, k) == [known \in DOMAIN map \ {k} |-> map[known]]

(* What a callback stores for a child: a model of it or none.              *)
ModelsFor(k) == {NoModel} \cup {model \in Model : model.key = k}

LEMMA NoModelIsNone == NoModel \notin Model /\ NoModel \in Row
  BY KeyAssumption DEF NoModel, Model, Row

LEMMA RowKeys ==
    ASSUME NEW rows, NEW map, RowsAgree(rows, map), NEW i \in 1 .. Len(rows), rows[i] # NoModel
    PROVE  rows[i].key \in Keys /\ rows[i].key \in Nat /\ map[rows[i].key] = rows[i]
  BY LiveAssumption DEF RowsAgree

(* A row without a model is added for a key that is not known.             *)
LEMMA RowsAppendNone ==
    ASSUME NEW rows, NEW map, NEW k \in Keys, RowsAgree(rows, map), k \notin DOMAIN map
    PROVE  RowsAgree(Append(rows, NoModel), PutIn(map, k, NoModel))
<1> DEFINE rows2 == Append(rows, NoModel)
           map2 == PutIn(map, k, NoModel)
<1>1. rows \in Seq(Row) /\ NoModel \in Row
  BY NoModelIsNone DEF RowsAgree
<1>2. /\ rows2 \in Seq(Row) /\ Len(rows2) = Len(rows) + 1
      /\ \A i \in 1 .. Len(rows) : rows2[i] = rows[i]
      /\ rows2[Len(rows) + 1] = NoModel
  BY <1>1
<1>3. /\ DOMAIN map2 = DOMAIN map \cup {k} /\ map2[k] = NoModel
      /\ \A j \in DOMAIN map : map2[j] = map[j]
  BY DEF PutIn
<1>4. map2 \in [DOMAIN map2 -> Row] /\ DOMAIN map2 \subseteq Keys
  BY <1>1 DEF PutIn, RowsAgree
<1> HIDE DEF rows2, map2
<1>5. \A i \in 1 .. Len(rows2) : rows2[i] # NoModel => i \in 1 .. Len(rows) /\ rows2[i] = rows[i]
  <2>1. \A i \in 1 .. Len(rows2) : i \in 1 .. Len(rows) \/ i = Len(rows) + 1
    BY <1>1, <1>2
  <2> QED
    BY <1>2, <2>1
<1>6. \A i \in 1 .. Len(rows) : i \in 1 .. Len(rows2)
  BY <1>1, <1>2
<1>7. \A j \in DOMAIN map2 : map2[j] # NoModel =>
          map2[j].key = j /\ \E i \in 1 .. Len(rows2) : rows2[i] = map2[j]
  BY <1>2, <1>3, <1>6 DEF RowsAgree
<1>8. \A i \in 1 .. Len(rows2) : rows2[i] # NoModel =>
          rows2[i].key \in DOMAIN map2 /\ map2[rows2[i].key] = rows2[i]
  BY <1>3, <1>5 DEF RowsAgree
<1>9. \A i, j \in 1 .. Len(rows2) :
          i < j /\ rows2[i] # NoModel /\ rows2[j] # NoModel => rows2[i].key < rows2[j].key
  BY <1>5 DEF RowsAgree
<1> QED
  BY <1>2, <1>4, <1>7, <1>8, <1>9 DEF RowsAgree, rows2, map2

(* Rows with models are different rows if and only if their keys differ.   *)
LEMMA OneRow ==
    ASSUME NEW rows, NEW map, RowsAgree(rows, map),
           NEW i \in 1 .. Len(rows), NEW j \in 1 .. Len(rows),
           rows[i] # NoModel, rows[j] # NoModel, rows[i].key = rows[j].key
    PROVE  i = j
<1>1. rows[i].key \in Nat
  BY RowKeys
<1>2. i < j \/ j < i \/ i = j
  <2>1. Len(rows) \in Nat
    BY DEF RowsAgree
  <2> QED
    BY <2>1
<1>3. ~(i < j)
  BY <1>1 DEF RowsAgree
<1>4. ~(j < i)
  BY <1>1 DEF RowsAgree
<1> QED
  BY <1>2, <1>3, <1>4

(* The row of a key gets another model of the key, or none.                *)
LEMMA RowsSet ==
    ASSUME NEW rows, NEW map, NEW k \in Keys, NEW model \in ModelsFor(k),
           RowsAgree(rows, map), k \in DOMAIN map, NEW n \in 1 .. Len(rows), rows[n] = map[k],
           map[k] # NoModel \/ model = NoModel
    PROVE  RowsAgree([rows EXCEPT ![n] = model], PutIn(map, k, model))
<1> DEFINE rows2 == [rows EXCEPT ![n] = model]
           map2 == PutIn(map, k, model)
<1>1. rows \in Seq(Row) /\ model \in Row /\ (model # NoModel => model.key = k)
  BY DEF RowsAgree, ModelsFor, Row
<1>2. /\ rows2 \in Seq(Row) /\ Len(rows2) = Len(rows)
      /\ \A i \in 1 .. Len(rows) : rows2[i] = IF i = n THEN model ELSE rows[i]
  BY <1>1
<1>3. /\ DOMAIN map2 = DOMAIN map /\ map2[k] = model
      /\ \A j \in DOMAIN map : j # k => map2[j] = map[j]
  BY DEF PutIn
<1>4. map2 \in [DOMAIN map2 -> Row] /\ DOMAIN map2 \subseteq Keys
  BY <1>1 DEF PutIn, RowsAgree
<1> HIDE DEF rows2, map2
<1>5. \A i \in 1 .. Len(rows) : rows[i] # NoModel /\ rows[i].key = k => i = n
  <2> SUFFICES ASSUME NEW i \in 1 .. Len(rows), rows[i] # NoModel, rows[i].key = k PROVE i = n
    OBVIOUS
  <2>1. rows[i] = map[k]
    BY DEF RowsAgree
  <2> QED
    BY <2>1, OneRow
<1>6. \A j \in DOMAIN map2 : map2[j] # NoModel =>
          map2[j].key = j /\ \E i \in 1 .. Len(rows2) : rows2[i] = map2[j]
  <2> SUFFICES ASSUME NEW j \in DOMAIN map2, map2[j] # NoModel
               PROVE  map2[j].key = j /\ \E i \in 1 .. Len(rows2) : rows2[i] = map2[j]
    OBVIOUS
  <2>1. CASE j = k
    BY <1>1, <1>2, <1>3, <2>1
  <2>2. CASE j # k
    <3>1. map[j] # NoModel /\ map[j].key = j /\ map2[j] = map[j]
      BY <1>3, <2>2 DEF RowsAgree
    <3>2. PICK i \in 1 .. Len(rows) : rows[i] = map[j]
      BY <1>3, <3>1 DEF RowsAgree
    <3>3. i # n
      BY <2>2, <3>1, <3>2 DEF RowsAgree
    <3> QED
      BY <1>2, <3>1, <3>2, <3>3
  <2> QED
    BY <2>1, <2>2
<1>7. \A i \in 1 .. Len(rows2) : rows2[i] # NoModel =>
          rows2[i].key \in DOMAIN map2 /\ map2[rows2[i].key] = rows2[i]
  <2> SUFFICES ASSUME NEW i \in 1 .. Len(rows2), rows2[i] # NoModel
               PROVE  rows2[i].key \in DOMAIN map2 /\ map2[rows2[i].key] = rows2[i]
    OBVIOUS
  <2>1. CASE i = n
    BY <1>1, <1>2, <1>3, <2>1
  <2>2. CASE i # n
    <3>1. rows2[i] = rows[i] /\ i \in 1 .. Len(rows)
      BY <1>2, <2>2
    <3>2. rows[i].key \in DOMAIN map /\ map[rows[i].key] = rows[i] /\ rows[i].key # k
      BY <1>5, <2>2, <3>1 DEF RowsAgree
    <3> QED
      BY <1>3, <3>1, <3>2
  <2> QED
    BY <2>1, <2>2
<1>8. \A i \in 1 .. Len(rows) : rows2[i] # NoModel => rows[i] # NoModel /\ rows2[i].key = rows[i].key
  <2>1. model # NoModel => rows[n] # NoModel /\ rows[n].key = model.key
    BY <1>1 DEF RowsAgree
  <2> QED
    BY <1>2, <2>1
<1>9. \A i, j \in 1 .. Len(rows2) :
          i < j /\ rows2[i] # NoModel /\ rows2[j] # NoModel => rows2[i].key < rows2[j].key
  BY <1>2, <1>8 DEF RowsAgree
<1> QED
  BY <1>2, <1>4, <1>6, <1>7, <1>9 DEF RowsAgree, rows2, map2

(* A key is forgotten together with a row of its model, or with a null row.*)
LEMMA RowsRemove ==
    ASSUME NEW rows, NEW map, NEW k, RowsAgree(rows, map),
           NEW n \in 1 .. Len(rows),
           IF k \in DOMAIN map THEN rows[n] = map[k] ELSE rows[n] = NoModel
    PROVE  RowsAgree(RemoveAt(rows, n), ForgetIn(map, k))
<1> DEFINE rows2 == RemoveAt(rows, n)
           map2 == ForgetIn(map, k)
<1>1. rows \in Seq(Row)
  BY DEF RowsAgree
<1>2. /\ rows2 \in Seq(Row) /\ Len(rows2) = Len(rows) - 1
      /\ \A i \in 1 .. Len(rows) - 1 : rows2[i] = IF i < n THEN rows[i] ELSE rows[i + 1]
  BY <1>1, RemoveAtElements
<1>3. DOMAIN map2 = DOMAIN map \ {k} /\ \A j \in DOMAIN map2 : map2[j] = map[j]
  BY DEF ForgetIn
<1>4. map2 \in [DOMAIN map2 -> Row] /\ DOMAIN map2 \subseteq Keys
  BY DEF ForgetIn, RowsAgree
<1> HIDE DEF rows2, map2
<1> DEFINE old(i) == IF i < n THEN i ELSE i + 1
<1>5. \A i \in 1 .. Len(rows2) : /\ old(i) \in 1 .. Len(rows) /\ old(i) # n
                                 /\ rows2[i] = rows[old(i)]
  BY <1>1, <1>2
<1>6. \A i \in 1 .. Len(rows) : i # n => \E j \in 1 .. Len(rows2) : old(j) = i
  <2> SUFFICES ASSUME NEW i \in 1 .. Len(rows), i # n
               PROVE  \E j \in 1 .. Len(rows2) : old(j) = i
    OBVIOUS
  <2>1. CASE i < n
    <3>1. i \in 1 .. Len(rows2) /\ old(i) = i
      BY <1>1, <1>2, <2>1
    <3> QED
      BY <3>1
  <2>2. CASE ~(i < n)
    <3>1. i - 1 \in 1 .. Len(rows2) /\ ~(i - 1 < n)
      BY <1>1, <1>2, <2>2
    <3>2. old(i - 1) = i
      BY <3>1
    <3> QED
      BY <3>1, <3>2
  <2> QED
    BY <2>1, <2>2
<1>7. \A i, j \in 1 .. Len(rows2) : i < j => old(i) < old(j)
  BY <1>1, <1>2
<1> HIDE DEF old
<1>8. \A j \in DOMAIN map2 : map2[j] # NoModel =>
          map2[j].key = j /\ \E i \in 1 .. Len(rows2) : rows2[i] = map2[j]
  <2> SUFFICES ASSUME NEW j \in DOMAIN map2, map2[j] # NoModel
               PROVE  map2[j].key = j /\ \E i \in 1 .. Len(rows2) : rows2[i] = map2[j]
    OBVIOUS
  <2>1. map2[j] = map[j] /\ j # k /\ map[j].key = j
    BY <1>3 DEF RowsAgree
  <2>2. PICK i \in 1 .. Len(rows) : rows[i] = map[j]
    BY <1>3, <2>1 DEF RowsAgree
  <2>3. i # n
    BY <2>1, <2>2 DEF RowsAgree
  <2>4. PICK m \in 1 .. Len(rows2) : old(m) = i
    BY <1>6, <2>3
  <2> QED
    BY <1>5, <2>1, <2>2, <2>4
<1>9. \A i \in 1 .. Len(rows2) : rows2[i] # NoModel =>
          rows2[i].key \in DOMAIN map2 /\ map2[rows2[i].key] = rows2[i]
  <2> SUFFICES ASSUME NEW i \in 1 .. Len(rows2), rows2[i] # NoModel
               PROVE  rows2[i].key \in DOMAIN map2 /\ map2[rows2[i].key] = rows2[i]
    OBVIOUS
  <2>1. /\ rows2[i].key \in DOMAIN map /\ map[rows2[i].key] = rows2[i]
        /\ old(i) \in 1 .. Len(rows) /\ old(i) # n /\ rows2[i] = rows[old(i)]
    BY <1>5 DEF RowsAgree
  <2>2. rows2[i].key # k
    <3>1. rows[n] # rows[old(i)]
      BY <2>1, OneRow
    <3> QED
      BY <2>1, <3>1
  <2> QED
    BY <1>3, <2>1, <2>2
<1>10. \A i, j \in 1 .. Len(rows2) :
          i < j /\ rows2[i] # NoModel /\ rows2[j] # NoModel => rows2[i].key < rows2[j].key
  BY <1>5, <1>7 DEF RowsAgree
<1> QED
  BY <1>2, <1>4, <1>8, <1>9, <1>10 DEF RowsAgree, rows2, map2

(* A key that has no model is forgotten and no row with it.                *)
LEMMA RowsForget ==
    ASSUME NEW rows, NEW map, NEW k, RowsAgree(rows, map), k \in DOMAIN map => map[k] = NoModel
    PROVE  RowsAgree(rows, ForgetIn(map, k))
<1> DEFINE map2 == ForgetIn(map, k)
<1>1. DOMAIN map2 = DOMAIN map \ {k} /\ \A j \in DOMAIN map2 : map2[j] = map[j]
  BY DEF ForgetIn
<1>2. map2 \in [DOMAIN map2 -> Row] /\ DOMAIN map2 \subseteq Keys
  BY DEF ForgetIn, RowsAgree
<1> HIDE DEF map2
<1>3. \A i \in 1 .. Len(rows) : rows[i] # NoModel =>
          rows[i].key \in DOMAIN map2 /\ map2[rows[i].key] = rows[i]
  BY <1>1 DEF RowsAgree
<1> QED
  BY <1>1, <1>2, <1>3 DEF RowsAgree, map2

(* What inserting an element does to a sequence.                           *)
Inserted(t, s, at, e) ==
    /\ Len(t) = Len(s) + 1
    /\ \A i \in 1 .. Len(s) + 1 :
           t[i] = IF i < at THEN s[i] ELSE IF i = at THEN e ELSE s[i - 1]

LEMMA ConcatOneElements ==
    ASSUME NEW S, NEW s \in Seq(S), NEW e \in S
    PROVE  /\ s \o <<e>> \in Seq(S) /\ Len(s \o <<e>>) = Len(s) + 1
           /\ \A i \in 1 .. Len(s) : (s \o <<e>>)[i] = s[i]
           /\ (s \o <<e>>)[Len(s) + 1] = e
<1>1. <<e>> \in Seq(S) /\ Len(<<e>>) = 1 /\ <<e>>[1] = e
  OBVIOUS
<1>2. s \o <<e>> \in Seq(S) /\ Len(s \o <<e>>) = Len(s) + 1
  OBVIOUS
<1>3. \A i \in 1 .. Len(s) : (s \o <<e>>)[i] = s[i]
  OBVIOUS
<1>4. (s \o <<e>>)[Len(s) + 1] = e
  OBVIOUS
<1> QED
  BY <1>1, <1>2, <1>3, <1>4

LEMMA InsertAtElements ==
    ASSUME NEW S, NEW s \in Seq(S), NEW e \in S, NEW at \in 1 .. Len(s) + 1
    PROVE  InsertAt(s, at, e) \in Seq(S) /\ Inserted(InsertAt(s, at, e), s, at, e)
<1> DEFINE front == SubSeq(s, 1, at - 1)
           back == SubSeq(s, at, Len(s))
           t == front \o <<e>> \o back
<1>0. Len(s) \in Nat
  OBVIOUS
<1>1. /\ front \in Seq(S) /\ Len(front) = at - 1
      /\ \A i \in 1 .. at - 1 : front[i] = s[i]
  OBVIOUS
<1>2. /\ back \in Seq(S) /\ Len(back) = Len(s) - at + 1
      /\ \A i \in 1 .. Len(s) - at + 1 : back[i] = s[at + i - 1]
  <2>1. CASE at = Len(s) + 1
    BY <1>0, <2>1
  <2>2. CASE at # Len(s) + 1
    BY <1>0, <2>2
  <2> QED
    BY <2>1, <2>2
<1> HIDE DEF front, back
<1> DEFINE u == front \o <<e>>
<1>3. /\ u \in Seq(S) /\ Len(u) = at
      /\ \A i \in 1 .. at : u[i] = IF i < at THEN s[i] ELSE e
  <2>1. /\ u \in Seq(S) /\ Len(u) = Len(front) + 1
        /\ \A i \in 1 .. Len(front) : u[i] = front[i]
        /\ u[Len(front) + 1] = e
    BY <1>1, ConcatOneElements
  <2> HIDE DEF u
  <2>2. Len(u) = at /\ u[at] = e
    BY <1>0, <1>1, <2>1
  <2>3. ASSUME NEW i \in 1 .. at
        PROVE  u[i] = IF i < at THEN s[i] ELSE e
    <3>1. CASE i < at
      BY <1>1, <2>1, <3>1
    <3>2. CASE i = at
      BY <2>2, <3>2
    <3> QED
      BY <1>0, <3>1, <3>2
  <2> QED
    BY <2>1, <2>2, <2>3
<1>4. t = u \o back
  OBVIOUS
<1> HIDE DEF u, t
<1>5. t \in Seq(S) /\ Len(t) = Len(s) + 1
  <2>1. u \in Seq(S) /\ back \in Seq(S)
    BY <1>2, <1>3
  <2>2. t \in Seq(S) /\ Len(t) = Len(u) + Len(back)
    BY <1>4, <2>1
  <2>3. Len(u) = at /\ Len(back) = Len(s) - at + 1
    BY <1>2, <1>3
  <2> QED
    BY <1>0, <2>2, <2>3
<1>6. ASSUME NEW i \in 1 .. Len(s) + 1
      PROVE  t[i] = IF i < at THEN s[i] ELSE IF i = at THEN e ELSE s[i - 1]
  <2>1. CASE i \in 1 .. at
    <3>1. t[i] = u[i]
      BY <1>2, <1>3, <1>4, <2>1
    <3> QED
      BY <1>3, <2>1, <3>1
  <2>2. CASE i \notin 1 .. at
    <3>1. i - at \in 1 .. Len(s) - at + 1 /\ at + (i - at) - 1 = i - 1 /\ ~(i < at) /\ i # at
      BY <1>0, <2>2
    <3>2. t[i] = back[i - at]
      BY <1>2, <1>3, <1>4, <2>2, <3>1
    <3> QED
      BY <1>2, <3>1, <3>2
  <2> QED
    BY <2>1, <2>2
<1> QED
  BY <1>5, <1>6 DEF InsertAt, Inserted, t, u, front, back

LEMMA InsertFirstElements ==
    ASSUME NEW S, NEW s \in Seq(S), NEW e \in S
    PROVE  <<e>> \o s \in Seq(S) /\ Inserted(<<e>> \o s, s, 1, e)
<1> DEFINE t == <<e>> \o s
<1>1. t \in Seq(S) /\ Len(t) = Len(s) + 1 /\ Len(s) \in Nat
  OBVIOUS
<1>2. ASSUME NEW i \in 1 .. Len(s) + 1
      PROVE  t[i] = IF i < 1 THEN s[i] ELSE IF i = 1 THEN e ELSE s[i - 1]
  BY <1>1
<1> QED
  BY <1>1, <1>2 DEF Inserted

(* A new row, behind the rows of smaller keys and before those of larger.  *)
LEMMA RowsInsert ==
    ASSUME NEW rows, NEW map, NEW k \in Keys, NEW model \in Model, model.key = k,
           RowsAgree(rows, map), k \in DOMAIN map => map[k] = NoModel,
           NEW at \in 1 .. Len(rows) + 1, NEW rows2 \in Seq(Row), Inserted(rows2, rows, at, model),
           \A i \in 1 .. Len(rows) : rows[i] # NoModel =>
               /\ i < at => rows[i].key < k
               /\ ~(i < at) => k < rows[i].key
    PROVE  RowsAgree(rows2, PutIn(map, k, model))
<1> DEFINE map2 == PutIn(map, k, model)
           new(i) == IF i < at THEN i ELSE i + 1
<1>1. rows \in Seq(Row) /\ Len(rows) \in Nat /\ model \in Row /\ model # NoModel
  BY NoModelIsNone DEF RowsAgree, Row
<1>2. /\ DOMAIN map2 = DOMAIN map \cup {k} /\ map2[k] = model
      /\ \A j \in DOMAIN map : j # k => map2[j] = map[j]
  BY DEF PutIn
<1>3. map2 \in [DOMAIN map2 -> Row] /\ DOMAIN map2 \subseteq Keys
  BY <1>1 DEF PutIn, RowsAgree
<1>4. Len(rows2) = Len(rows) + 1 /\ at \in 1 .. Len(rows2) /\ rows2[at] = model
  BY <1>1 DEF Inserted
<1>5. \A i \in 1 .. Len(rows) : new(i) \in 1 .. Len(rows2) /\ rows2[new(i)] = rows[i]
  <2> SUFFICES ASSUME NEW i \in 1 .. Len(rows)
               PROVE  new(i) \in 1 .. Len(rows2) /\ rows2[new(i)] = rows[i]
    OBVIOUS
  <2>1. CASE i < at
    BY <1>1, <1>4, <2>1 DEF Inserted
  <2>2. CASE ~(i < at)
    <3>1. i + 1 \in 1 .. Len(rows) + 1 /\ ~(i + 1 < at) /\ i + 1 # at /\ (i + 1) - 1 = i
      BY <1>1, <2>2
    <3> QED
      BY <1>4, <2>2, <3>1 DEF Inserted
  <2> QED
    BY <2>1, <2>2
<1>6. \A i \in 1 .. Len(rows2) : i # at => \E j \in 1 .. Len(rows) : new(j) = i
  <2> SUFFICES ASSUME NEW i \in 1 .. Len(rows2), i # at
               PROVE  \E j \in 1 .. Len(rows) : new(j) = i
    OBVIOUS
  <2>1. CASE i < at
    <3>1. i \in 1 .. Len(rows) /\ new(i) = i
      BY <1>1, <1>4, <2>1
    <3> QED
      BY <3>1
  <2>2. CASE ~(i < at)
    <3>1. i - 1 \in 1 .. Len(rows) /\ ~(i - 1 < at)
      BY <1>1, <1>4, <2>2
    <3>2. new(i - 1) = i
      BY <3>1
    <3> QED
      BY <3>1, <3>2
  <2> QED
    BY <2>1, <2>2
<1>7. /\ \A i, j \in 1 .. Len(rows) : new(i) < new(j) => i < j
      /\ \A i \in 1 .. Len(rows) : new(i) < at => i < at
      /\ \A i \in 1 .. Len(rows) : at < new(i) => ~(i < at)
  BY <1>1
<1> HIDE DEF new, map2
<1>8. \A j \in DOMAIN map2 : map2[j] # NoModel =>
          map2[j].key = j /\ \E i \in 1 .. Len(rows2) : rows2[i] = map2[j]
  <2> SUFFICES ASSUME NEW j \in DOMAIN map2, map2[j] # NoModel
               PROVE  map2[j].key = j /\ \E i \in 1 .. Len(rows2) : rows2[i] = map2[j]
    OBVIOUS
  <2>1. CASE j = k
    BY <1>2, <1>4, <2>1
  <2>2. CASE j # k
    <3>1. map[j] # NoModel /\ map[j].key = j /\ map2[j] = map[j] /\ j \in DOMAIN map
      BY <1>2, <2>2 DEF RowsAgree
    <3>2. PICK i \in 1 .. Len(rows) : rows[i] = map[j]
      BY <3>1 DEF RowsAgree
    <3> QED
      BY <1>5, <3>1, <3>2
  <2> QED
    BY <2>1, <2>2
<1>9. \A i \in 1 .. Len(rows) : rows[i] # NoModel =>
          rows[i].key \in Nat /\ rows[i].key \in DOMAIN map /\ map[rows[i].key] = rows[i] /\ rows[i].key # k
  <2> SUFFICES ASSUME NEW i \in 1 .. Len(rows), rows[i] # NoModel
               PROVE  /\ rows[i].key \in Nat /\ rows[i].key \in DOMAIN map
                      /\ map[rows[i].key] = rows[i] /\ rows[i].key # k
    OBVIOUS
  <2>1. rows[i].key \in Nat /\ map[rows[i].key] = rows[i]
    BY RowKeys
  <2>2. rows[i].key \in DOMAIN map
    BY DEF RowsAgree
  <2> QED
    BY <2>1, <2>2
<1>10. \A i \in 1 .. Len(rows2) : rows2[i] # NoModel =>
          rows2[i].key \in DOMAIN map2 /\ map2[rows2[i].key] = rows2[i]
  <2> SUFFICES ASSUME NEW i \in 1 .. Len(rows2), rows2[i] # NoModel
               PROVE  rows2[i].key \in DOMAIN map2 /\ map2[rows2[i].key] = rows2[i]
    OBVIOUS
  <2>1. CASE i = at
    BY <1>2, <1>4, <2>1
  <2>2. CASE i # at
    <3>1. PICK j \in 1 .. Len(rows) : new(j) = i
      BY <1>6, <2>2
    <3>2. rows2[i] = rows[j]
      BY <1>5, <3>1
    <3> QED
      BY <1>2, <1>9, <3>2
  <2> QED
    BY <2>1, <2>2
<1>11. ASSUME NEW i \in 1 .. Len(rows2), NEW j \in 1 .. Len(rows2),
              i < j, rows2[i] # NoModel, rows2[j] # NoModel
       PROVE  rows2[i].key < rows2[j].key
  <2>1. CASE i = at
    <3>1. PICK b \in 1 .. Len(rows) : new(b) = j
      BY <1>4, <1>6, <1>11, <2>1
    <3>2. rows2[j] = rows[b] /\ ~(b < at)
      BY <1>5, <1>7, <1>11, <2>1, <3>1
    <3> QED
      BY <1>4, <1>11, <2>1, <3>2
  <2>2. CASE j = at
    <3>1. PICK a \in 1 .. Len(rows) : new(a) = i
      BY <1>4, <1>6, <1>11, <2>2
    <3>2. rows2[i] = rows[a] /\ a < at
      BY <1>5, <1>7, <1>11, <2>2, <3>1
    <3> QED
      BY <1>4, <1>11, <2>2, <3>2
  <2>3. CASE i # at /\ j # at
    <3>1. PICK a \in 1 .. Len(rows) : new(a) = i
      BY <1>6, <2>3
    <3>2. PICK b \in 1 .. Len(rows) : new(b) = j
      BY <1>6, <2>3
    <3>3. rows2[i] = rows[a] /\ rows2[j] = rows[b] /\ a < b
      BY <1>5, <1>7, <1>11, <3>1, <3>2
    <3> QED
      BY <1>11, <3>3 DEF RowsAgree
  <2> QED
    BY <2>1, <2>2, <2>3
<1> QED
  BY <1>3, <1>8, <1>10, <1>11 DEF RowsAgree, map2

-----------------------------------------------------------------------------
(* The operations of the list.                                             *)

NoBlank(l) == \A i \in 1 .. Len(l.mModels) : l.mModels[i] # NoModel

LEMMA AgreeParts ==
    ASSUME NEW l, Agree(l)
    PROVE  /\ RowsAgree(l.mModels, l.mModelKeys) /\ l.mKeys \in Seq(Keys)
           /\ l.mModels \in Seq(Row) /\ Len(l.mModels) \in Nat
           /\ l = [mModels |-> l.mModels, mKeys |-> l.mKeys, mModelKeys |-> l.mModelKeys]
  BY DEF Agree, RowsAgree

LEMMA EmptyAgrees == Agree(EmptyList) /\ \A k \in Keys : ~HasModel(EmptyList, k)
<1> DEFINE map == [k \in {} |-> NoModel]
<1>1. EmptyList = [mModels |-> << >>, mKeys |-> << >>, mModelKeys |-> map]
  BY DEF EmptyList
<1>2. DOMAIN map = {} /\ map \in [{} -> Row]
  OBVIOUS
<1> HIDE DEF map
<1>3. RowsAgree(<< >>, map)
  BY <1>2 DEF RowsAgree
<1> QED
  BY <1>1, <1>2, <1>3 DEF Agree, HasModel

(* A row of a key that has a model is found.                               *)
LEMMA Place ==
    ASSUME NEW l, Agree(l), NEW k \in Keys
    PROVE  LET n == IndexOf(l, Get(l, k))
           IN  \/ n \in 1 .. Len(l.mModels) /\ l.mModels[n] = Get(l, k)
               \/ n = 0 /\ ~HasModel(l, k)
<1> DEFINE x == Get(l, k)
           rows == l.mModels
           n == SelectInSeq(rows, LAMBDA other : other = x)
<1>1. \/ n \in 1 .. Len(rows) /\ rows[n] = x
      \/ n = 0 /\ \A i \in 1 .. Len(rows) : rows[i] # x
  BY AgreeParts, FirstPlace
<1>2. HasModel(l, k) => \E i \in 1 .. Len(rows) : rows[i] = x
  BY DEF HasModel, Get, Exists, Agree, RowsAgree
<1> QED
  BY <1>1, <1>2 DEF IndexOf

LEMMA SetRuns ==
    ASSUME NEW l, Agree(l), NEW k \in Keys, NEW model \in ModelsFor(k),
           k \in DOMAIN l.mModelKeys, Settable(l, k), HasModel(l, k) \/ model = NoModel
    PROVE  /\ Agree(Set(l, k, model)) /\ Set(l, k, model).mModelKeys = PutIn(l.mModelKeys, k, model)
           /\ NoBlank(l) /\ model # NoModel => NoBlank(Set(l, k, model))
<1> DEFINE rows == l.mModels
           map == l.mModelKeys
           keys == l.mKeys
           n == IndexOf(l, Get(l, k))
           l2 == Set(l, k, model)
<1>1. Get(l, k) = map[k]
  BY DEF Get, Exists
<1>2. n \in 1 .. Len(rows) /\ rows[n] = map[k]
  <2>1. n > 0
    BY DEF Settable
  <2>2. n # 0
    BY <2>1
  <2> QED
    BY <1>1, <2>2, Place
<1>3. map[k] # NoModel \/ model = NoModel
  BY DEF HasModel
<1>4. l2 = [mModels |-> [rows EXCEPT ![n] = model], mKeys |-> keys, mModelKeys |-> PutIn(map, k, model)]
  <2>1. l2 = [l EXCEPT !.mModels[n] = model, !.mModelKeys = Put(l, k, model)]
    BY DEF Set
  <2>2. Put(l, k, model) = PutIn(map, k, model)
    BY DEF Put, PutIn
  <2>3. l = [mModels |-> rows, mKeys |-> keys, mModelKeys |-> map]
    BY AgreeParts
  <2> HIDE DEF n, rows, map, keys, l2
  <2> QED
    BY <2>1, <2>2, <2>3
<1>5. RowsAgree(rows, map) /\ rows \in Seq(Row) /\ keys \in Seq(Keys) /\ k \in DOMAIN map
  BY AgreeParts
<1> HIDE DEF n, rows, map, keys
<1>6. RowsAgree([rows EXCEPT ![n] = model], PutIn(map, k, model))
  BY <1>2, <1>3, <1>5, RowsSet
<1> HIDE DEF l2
<1>7. Agree(l2) /\ l2.mModelKeys = PutIn(map, k, model) /\ l2.mModels = [rows EXCEPT ![n] = model]
  BY <1>4, <1>5, <1>6 DEF Agree
<1>8. model # NoModel /\ (\A i \in 1 .. Len(rows) : rows[i] # NoModel)
      => \A i \in 1 .. Len([rows EXCEPT ![n] = model]) : [rows EXCEPT ![n] = model][i] # NoModel
  <2>1. /\ Len([rows EXCEPT ![n] = model]) = Len(rows)
        /\ \A i \in 1 .. Len(rows) : [rows EXCEPT ![n] = model][i] = IF i = n THEN model ELSE rows[i]
    BY <1>2, <1>5
  <2> QED
    BY <2>1
<1> QED
  BY <1>7, <1>8 DEF NoBlank, l2, rows, map

(* The value listener's way: with a row of the child there, or with none.  *)
LEMMA AddOrUpdateRuns ==
    ASSUME NEW l, Agree(l), NEW k \in Keys, NEW model \in ModelsFor(k), HasModel(l, k) \/ model = NoModel
    PROVE  LET l2 == AddOrUpdate(l, k, model)
           IN  /\ Agree(l2)
               /\ \/ l2.mModelKeys = PutIn(l.mModelKeys, k, model)
                  \/ l2 = l /\ ~HasModel(l, k) /\ model = NoModel
               /\ NoBlank(l) /\ model # NoModel => NoBlank(l2)
<1>1. CASE k \notin DOMAIN l.mModelKeys
  <2>1. model = NoModel /\ ~HasModel(l, k)
    BY <1>1 DEF HasModel
  <2> DEFINE l2 == AddSingle(l, k, NoModel)
  <2>2. /\ RowsAgree(Append(l.mModels, NoModel), PutIn(l.mModelKeys, k, NoModel))
        /\ Append(l.mKeys, k) \in Seq(Keys)
    BY <1>1, AgreeParts, RowsAppendNone
  <2>3. l2 = [mModels |-> Append(l.mModels, NoModel), mKeys |-> Append(l.mKeys, k),
              mModelKeys |-> PutIn(l.mModelKeys, k, NoModel)]
    BY DEF AddSingle, Put, PutIn
  <2> HIDE DEF l2
  <2>4. Agree(l2) /\ l2.mModelKeys = PutIn(l.mModelKeys, k, NoModel)
    BY <2>2, <2>3 DEF Agree
  <2>5. AddOrUpdate(l, k, model) = l2
    BY <1>1, <2>1 DEF AddOrUpdate, Exists, l2
  <2> QED
    BY <2>1, <2>4, <2>5
<1>2. CASE k \in DOMAIN l.mModelKeys /\ IndexOf(l, Get(l, k)) > 0
  <2>1. AddOrUpdate(l, k, model) = Set(l, k, model) /\ Settable(l, k)
    BY <1>2 DEF AddOrUpdate, Update, Exists, Settable
  <2> QED
    BY <1>2, <2>1, SetRuns
<1>3. CASE k \in DOMAIN l.mModelKeys /\ ~(IndexOf(l, Get(l, k)) > 0)
  <2>1. AddOrUpdate(l, k, model) = l
    BY <1>3 DEF AddOrUpdate, Update, Exists
  <2>2. ~HasModel(l, k)
    <3> DEFINE n == IndexOf(l, Get(l, k))
    <3>1. \/ n \in 1 .. Len(l.mModels)
          \/ n = 0 /\ ~HasModel(l, k)
      BY Place
    <3>2. ~(n > 0)
      BY <1>3
    <3> HIDE DEF n
    <3>3. Len(l.mModels) \in Nat
      BY AgreeParts
    <3> QED
      BY <3>1, <3>2, <3>3
  <2> QED
    BY <2>1, <2>2
<1> QED
  BY <1>1, <1>2, <1>3

LEMMA RemoveKeyRuns ==
    ASSUME NEW l, Agree(l), NEW k \in Keys
    PROVE  Agree(RemoveKey(l, k)) /\ RemoveKey(l, k).mModelKeys = ForgetIn(l.mModelKeys, k)
<1> DEFINE rows == l.mModels
           map == l.mModelKeys
           x == Get(l, k)
           l2 == RemoveKey(l, k)
<1>1. /\ l2.mModelKeys = ForgetIn(map, k) /\ l2.mKeys = RemoveFirst(l.mKeys, k)
      /\ l2.mModels = RemoveFirst(rows, x)
      /\ l2 = [mModels |-> l2.mModels, mKeys |-> l2.mKeys, mModelKeys |-> l2.mModelKeys]
  BY DEF RemoveKey, Forget, ForgetIn, Restrict
<1>2. x = IF k \in DOMAIN map THEN map[k] ELSE NoModel
  BY DEF Get, Exists
<1>3. RowsAgree(rows, map) /\ l.mKeys \in Seq(Keys) /\ rows \in Seq(Row)
  BY AgreeParts
<1>4. RemoveFirst(l.mKeys, k) \in Seq(Keys)
  BY <1>3, RemoveFirstElement, RemoveAtElements
<1> HIDE DEF rows, map, x, l2
<1>5. CASE \E n \in 1 .. Len(rows) : rows[n] = x /\ RemoveFirst(rows, x) = RemoveAt(rows, n)
  <2>1. PICK n \in 1 .. Len(rows) : rows[n] = x /\ RemoveFirst(rows, x) = RemoveAt(rows, n)
    BY <1>5
  <2>2. RowsAgree(RemoveAt(rows, n), ForgetIn(map, k))
    BY <1>2, <1>3, <2>1, RowsRemove
  <2>3. Agree(l2)
    BY <1>1, <1>4, <2>1, <2>2 DEF Agree
  <2> QED
    BY <1>1, <2>3 DEF l2, map
<1>6. CASE RemoveFirst(rows, x) = rows /\ \A i \in 1 .. Len(rows) : rows[i] # x
  <2>1. k \in DOMAIN map => map[k] = NoModel
    BY <1>2, <1>3, <1>6 DEF RowsAgree
  <2>2. RowsAgree(rows, ForgetIn(map, k))
    BY <1>3, <2>1, RowsForget
  <2>3. Agree(l2)
    BY <1>1, <1>4, <1>6, <2>2 DEF Agree
  <2> QED
    BY <1>1, <2>3 DEF l2, map
<1> QED
  BY <1>3, <1>5, <1>6, RemoveFirstElement

(* The adapter's way to add: behind the row of the child before.           *)
LEMMA InsertRuns ==
    ASSUME NEW l, Agree(l), NEW k \in Keys, NEW model \in Model, model.key = k,
           NEW p \in Keys \cup {NoKey}, p # NoKey => p < k /\ HasModel(l, p),
           \A j \in Keys : HasModel(l, j) => Between(p, j, k)
    PROVE  /\ Agree(Insert(l, k, model, p))
           /\ Insert(l, k, model, p).mModelKeys = PutIn(l.mModelKeys, k, model)
           /\ NoBlank(l) => NoBlank(Insert(l, k, model, p))
<1> DEFINE rows == l.mModels
           map == l.mModelKeys
           l2 == Insert(l, k, model, p)
           n == IF p = NoKey THEN 0 ELSE IndexOf(l, Get(l, p))
<1>1. RowsAgree(rows, map) /\ rows \in Seq(Row) /\ l.mKeys \in Seq(Keys) /\ Len(rows) \in Nat
  BY AgreeParts
<1>2. model \in Row /\ model # NoModel
  BY NoModelIsNone DEF Row
<1>3. n \in 0 .. Len(rows) /\ (p = NoKey => n = 0)
      /\ (p # NoKey => n \in 1 .. Len(rows) /\ rows[n] = map[p] /\ rows[n] # NoModel /\ rows[n].key = p)
  <2>1. CASE p = NoKey
    BY <1>1, <2>1
  <2>2. CASE p # NoKey
    <3>1. p \in Keys /\ HasModel(l, p)
      BY <2>2
    <3>2. n \in 1 .. Len(rows) /\ rows[n] = Get(l, p)
      BY <2>2, <3>1, Place
    <3>3. Get(l, p) = map[p] /\ map[p] # NoModel /\ map[p].key = p
      BY <1>1, <3>1 DEF Get, Exists, HasModel, RowsAgree
    <3> QED
      BY <1>1, <2>2, <3>2, <3>3
  <2> QED
    BY <2>1, <2>2
<1>4. \A i \in 1 .. Len(rows) : rows[i] # NoModel =>
          HasModel(l, rows[i].key) /\ rows[i].key \in Keys /\ rows[i].key \in Nat
  <2> SUFFICES ASSUME NEW i \in 1 .. Len(rows), rows[i] # NoModel
               PROVE  HasModel(l, rows[i].key) /\ rows[i].key \in Keys /\ rows[i].key \in Nat
    OBVIOUS
  <2>1. rows[i].key \in Keys /\ rows[i].key \in Nat /\ map[rows[i].key] = rows[i]
    BY <1>1, RowKeys
  <2>2. rows[i].key \in DOMAIN map
    BY <1>1 DEF RowsAgree
  <2> QED
    BY <2>1, <2>2 DEF HasModel
<1>5. k \in DOMAIN map => map[k] = NoModel
  BY DEF HasModel, Between
<1>6. k \in Nat /\ (p # NoKey => p \in Nat)
  BY LiveAssumption
<1> DEFINE rows2 == IF p = NoKey THEN <<model>> \o rows ELSE InsertAt(rows, n + 1, model)
<1>7. rows2 \in Seq(Row) /\ Inserted(rows2, rows, n + 1, model)
  <2>1. CASE p = NoKey
    BY <1>1, <1>2, <1>3, <2>1, InsertFirstElements
  <2>2. CASE p # NoKey
    <3>1. n + 1 \in 1 .. Len(rows) + 1
      BY <1>1, <1>3
    <3> HIDE DEF n, rows
    <3> QED
      BY <1>1, <1>2, <2>2, <3>1, InsertAtElements
  <2> QED
    BY <2>1, <2>2
<1>8. l2.mModels = rows2 /\ l2.mModelKeys = PutIn(map, k, model) /\ l2.mKeys \in Seq(Keys)
      /\ l2 = [mModels |-> l2.mModels, mKeys |-> l2.mKeys, mModelKeys |-> l2.mModelKeys]
  <2>1. CASE p = NoKey
    <3>1. l2 = [l EXCEPT !.mModels = <<model>> \o @, !.mModelKeys = Put(l, k, model)]
      BY <2>1 DEF Insert, InsertFirst
    <3>2. l = [mModels |-> rows, mKeys |-> l.mKeys, mModelKeys |-> map]
      BY AgreeParts
    <3>3. Put(l, k, model) = PutIn(map, k, model)
      BY DEF Put, PutIn
    <3>4. rows2 = <<model>> \o rows
      BY <2>1
    <3> DEFINE first == <<model>> \o rows
               keys == l.mKeys
    <3>5. l2 = [mModels |-> first, mKeys |-> keys, mModelKeys |-> PutIn(map, k, model)]
      <4>1. l2 = [l EXCEPT !.mModels = first, !.mModelKeys = PutIn(map, k, model)]
        BY <3>1, <3>3
      <4> HIDE DEF first, keys, rows, map, l2
      <4> QED
        BY <3>2, <4>1 DEF keys
    <3> HIDE DEF l2
    <3> QED
      BY <1>1, <3>4, <3>5
  <2>2. CASE p # NoKey
    <3>1. l2 = [mModels |-> rows2, mKeys |-> Append(l.mKeys, k), mModelKeys |-> PutIn(map, k, model)]
      BY <2>2 DEF Insert, InsertAfter, Put, PutIn
    <3>2. Append(l.mKeys, k) \in Seq(Keys)
      BY <1>1
    <3> HIDE DEF l2, rows2, map
    <3> QED
      BY <3>1, <3>2
  <2> QED
    BY <2>1, <2>2
<1> HIDE DEF rows, map, n, rows2, l2
<1>9. ASSUME NEW i \in 1 .. Len(rows), rows[i] # NoModel
      PROVE  (i < n + 1 => rows[i].key < k) /\ (~(i < n + 1) => k < rows[i].key)
  <2> DEFINE j == rows[i].key
  <2>1. j \in Nat /\ Between(p, j, k) /\ j \in Keys
    BY <1>4, <1>9
  <2>2. CASE i < n + 1
    <3>1. p # NoKey /\ i <= n /\ n \in 1 .. Len(rows)
      BY <1>3, <2>2
    <3>2. i = n \/ i < n
      BY <3>1
    <3>3. j <= p
      <4>1. i < n => j < rows[n].key
        BY <1>1, <1>3, <1>9, <3>1 DEF RowsAgree
      <4> QED
        BY <1>3, <1>6, <2>1, <3>1, <3>2, <4>1
    <3> QED
      BY <1>6, <2>1, <2>2, <3>1, <3>3
  <2>3. CASE ~(i < n + 1)
    <3>1. ~(j < k)
      <4>1. p # NoKey => p < j
        <5> SUFFICES ASSUME p # NoKey PROVE p < j
          OBVIOUS
        <5>1. n < i
          BY <1>3, <2>3
        <5> QED
          BY <1>1, <1>3, <1>9, <5>1 DEF RowsAgree
      <4> QED
        BY <1>6, <2>1, <4>1 DEF Between
    <3> QED
      BY <1>6, <2>1, <2>3, <3>1 DEF Between
  <2> QED
    BY <2>2, <2>3
<1>10. RowsAgree(rows2, PutIn(map, k, model))
  <2>1. n + 1 \in 1 .. Len(rows) + 1
    BY <1>1, <1>3
  <2> QED
    BY <1>1, <1>5, <1>7, <1>9, <2>1, RowsInsert
<1>11. Agree(l2)
  BY <1>8, <1>10 DEF Agree
<1>12. NoBlank(l) => NoBlank(l2)
  <2>1. ASSUME \A i \in 1 .. Len(rows) : rows[i] # NoModel, NEW i \in 1 .. Len(rows2)
        PROVE  rows2[i] # NoModel
    <3>1. /\ i \in 1 .. Len(rows) + 1
          /\ rows2[i] = IF i < n + 1 THEN rows[i] ELSE IF i = n + 1 THEN model ELSE rows[i - 1]
      BY <1>7 DEF Inserted
    <3>2. i < n + 1 => i \in 1 .. Len(rows)
      BY <1>1, <1>3, <3>1
    <3>3. ~(i < n + 1) /\ i # n + 1 => i - 1 \in 1 .. Len(rows)
      BY <1>1, <1>3, <3>1
    <3> QED
      BY <1>2, <2>1, <3>1, <3>2, <3>3
  <2> QED
    BY <1>8, <2>1 DEF NoBlank, rows
<1> QED
  BY <1>8, <1>11, <1>12 DEF l2, map

(* Two models of one child would be one too many to find a third.          *)
LEMMA NewModelOf ==
    ASSUME NEW l, Agree(l), NEW k \in Keys, NEW v \in Values
    PROVE  /\ NewModel(l, k, v) \in ModelsFor(k) /\ NewModel(l, k, v).version = v
           /\ NewModel(l, k, v) = NoModel <=> v = Null
<1>1. CASE v = Null
  BY <1>1 DEF NewModel, ModelsFor, NoModel
<1>2. CASE v # Null
  <2> DEFINE P(model) == model.key = k /\ model.version = v /\ model \notin Objects(l)
             m(c) == [key |-> k, version |-> v, copy |-> c]
  <2>1. \A c \in Copies : m(c) \in Model /\ m(c).key = k /\ m(c).version = v /\ m(c).copy = c
    BY <1>2 DEF Model, Values
  <2>2. ASSUME NEW model \in Model, model.key = k, model \in Objects(l)
        PROVE  model = l.mModelKeys[k]
    <3>1. model # NoModel
      BY NoModelIsNone
    <3>2. CASE model \in ToSet(l.mModels)
      <4>1. PICK i \in 1 .. Len(l.mModels) : l.mModels[i] = model
        BY <3>2, AgreeParts DEF ToSet
      <4> QED
        BY <2>2, <3>1, <4>1, AgreeParts, RowKeys
    <3>3. CASE \E j \in DOMAIN l.mModelKeys : model = l.mModelKeys[j]
      BY <2>2, <3>1, <3>3, AgreeParts DEF RowsAgree
    <3> QED
      BY <2>2, <3>2, <3>3 DEF Objects
  <2>3. \E c \in Copies : m(c) \notin Objects(l)
    <3> SUFFICES ASSUME \A c \in Copies : m(c) \in Objects(l) PROVE FALSE
      OBVIOUS
    <3>1. 1 \in Copies /\ 2 \in Copies
      BY DEF Copies
    <3>2. m(1) = l.mModelKeys[k] /\ m(2) = l.mModelKeys[k]
      BY <2>1, <2>2, <3>1
    <3> QED
      BY <2>1, <3>1, <3>2
  <2>4. \E model \in Model : P(model)
    BY <2>1, <2>3
  <2>5. NewModel(l, k, v) = CHOOSE model \in Model : P(model)
    BY <1>2 DEF NewModel
  <2>6. NewModel(l, k, v) \in Model /\ P(NewModel(l, k, v))
    BY <2>4, <2>5
  <2> QED
    BY <1>2, <2>6, NoModelIsNone DEF ModelsFor
<1> QED
  BY <1>1, <1>2

-----------------------------------------------------------------------------
(* The callbacks that run.                                                 *)

(* The list l2 that callback e leaves of the list l.                       *)
RunOn(l, e, l2) ==
    \A j \in Keys :
        /\ HasModel(l2, j) <=> (HasModel(l, j) \/ (Adds(e) /\ e.key = j)) /\ ~Clears(e, j)
        /\ HasModel(l2, j) =>
               l2.mModelKeys[j].version = IF Sets(e, j) THEN e.version ELSE l.mModelKeys[j].version

OnePut(l, l2, k, v) ==
    /\ HasModel(l2, k) <=> v # Null
    /\ l2.mModelKeys[k].version = v
    /\ \A j \in Keys \ {k} : /\ HasModel(l2, j) <=> HasModel(l, j)
                             /\ HasModel(l2, j) => l2.mModelKeys[j] = l.mModelKeys[j]

LEMMA PutModels ==
    ASSUME NEW l, NEW l2, NEW k \in Keys, NEW v \in Values, NEW model \in ModelsFor(k),
           model.version = v, model = NoModel <=> v = Null,
           l2.mModelKeys = PutIn(l.mModelKeys, k, model)
    PROVE  OnePut(l, l2, k, v)
<1> DEFINE map == l.mModelKeys
           map2 == l2.mModelKeys
<1>1. /\ DOMAIN map2 = DOMAIN map \cup {k} /\ map2[k] = model
      /\ \A j \in DOMAIN map : j # k => map2[j] = map[j]
  BY DEF PutIn
<1> QED
  BY <1>1 DEF HasModel, OnePut

LEMMA ForgetModels ==
    ASSUME NEW l, NEW l2, NEW k \in Keys, l2.mModelKeys = ForgetIn(l.mModelKeys, k)
    PROVE  /\ ~HasModel(l2, k)
           /\ \A j \in Keys \ {k} : /\ HasModel(l2, j) <=> HasModel(l, j)
                                    /\ HasModel(l2, j) => l2.mModelKeys[j] = l.mModelKeys[j]
<1> DEFINE map == l.mModelKeys
           map2 == l2.mModelKeys
<1>1. DOMAIN map2 = DOMAIN map \ {k} /\ \A j \in DOMAIN map2 : map2[j] = map[j]
  BY DEF ForgetIn
<1> QED
  BY <1>1 DEF HasModel

(* The first callback runs on the list as it is.                           *)
LEMMA InListNow ==
    ASSUME NEW l, NEW q, NEW k
    PROVE  InList(l, q, k, 1) <=> HasModel(l, k)
<1>1. 1 .. 1 - 1 = {}
  OBVIOUS
<1> QED
  BY <1>1 DEF InList

LEMMA AddedRuns ==
    ASSUME NEW l, Agree(l), NEW e, WellFormed(e), e.to = "adapter", e.kind = "added",
           e.previous # NoKey => e.previous < e.key /\ HasModel(l, e.previous),
           \A j \in Keys : HasModel(l, j) => Between(e.previous, j, e.key)
    PROVE  LET l2 == Insert(l, e.key, NewModel(l, e.key, e.version), e.previous)
           IN  Agree(l2) /\ RunOn(l, e, l2) /\ (NoBlank(l) => NoBlank(l2))
<1> DEFINE k == e.key
           v == e.version
           model == NewModel(l, k, v)
           l2 == Insert(l, k, model, e.previous)
<1>1. k \in Keys /\ v \in Values /\ e.previous \in Keys \cup {NoKey} /\ v # Null
  BY DEF WellFormed, Callback, Listeners
<1>2. model \in ModelsFor(k) /\ model.version = v /\ model # NoModel
  BY <1>1, NewModelOf
<1>3. model \in Model /\ model.key = k
  BY <1>2 DEF ModelsFor
<1> HIDE DEF model, l2
<1>4. Agree(l2) /\ l2.mModelKeys = PutIn(l.mModelKeys, k, model) /\ (NoBlank(l) => NoBlank(l2))
  BY <1>1, <1>3, InsertRuns DEF l2
<1>5. /\ HasModel(l2, k) /\ l2.mModelKeys[k].version = v
      /\ \A j \in Keys \ {k} : /\ HasModel(l2, j) <=> HasModel(l, j)
                               /\ HasModel(l2, j) => l2.mModelKeys[j] = l.mModelKeys[j]
  <2>1. model = NoModel <=> v = Null
    BY <1>1, <1>2
  <2>2. OnePut(l, l2, k, v)
    BY <1>1, <1>2, <1>4, <2>1, PutModels
  <2> QED
    BY <1>1, <2>2 DEF OnePut
<1>6. Adds(e) /\ \A j \in Keys : ~Clears(e, j) /\ (Sets(e, j) <=> j = k)
  BY <1>1 DEF Adds, Clears, Sets
<1>7. RunOn(l, e, l2)
  BY <1>5, <1>6 DEF RunOn
<1> QED
  BY <1>4, <1>7 DEF l2, model

LEMMA ChangedRuns ==
    ASSUME NEW l, Agree(l), NEW e, WellFormed(e), e.to = "adapter", e.kind = "changed",
           HasModel(l, e.key)
    PROVE  LET l2 == Set(l, e.key, NewModel(l, e.key, e.version))
           IN  Settable(l, e.key) /\ Agree(l2) /\ RunOn(l, e, l2) /\ (NoBlank(l) => NoBlank(l2))
<1> DEFINE k == e.key
           v == e.version
           model == NewModel(l, k, v)
           l2 == Set(l, k, model)
<1>1. k \in Keys /\ v \in Values /\ v # Null
  BY DEF WellFormed, Callback, Listeners
<1>2. model \in ModelsFor(k) /\ model.version = v /\ model # NoModel
  BY <1>1, NewModelOf
<1>3. Settable(l, k) /\ k \in DOMAIN l.mModelKeys
  <2> DEFINE n == IndexOf(l, Get(l, k))
  <2>1. n \in 1 .. Len(l.mModels)
    BY <1>1, Place
  <2> HIDE DEF n
  <2>2. n > 0
    BY <2>1
  <2> QED
    BY <2>2 DEF Settable, n, HasModel
<1> HIDE DEF model, l2
<1>4. Agree(l2) /\ l2.mModelKeys = PutIn(l.mModelKeys, k, model) /\ (NoBlank(l) => NoBlank(l2))
  BY <1>1, <1>2, <1>3, SetRuns DEF l2
<1>5. /\ HasModel(l2, k) /\ l2.mModelKeys[k].version = v
      /\ \A j \in Keys \ {k} : /\ HasModel(l2, j) <=> HasModel(l, j)
                               /\ HasModel(l2, j) => l2.mModelKeys[j] = l.mModelKeys[j]
  <2>1. model = NoModel <=> v = Null
    BY <1>1, <1>2
  <2>2. OnePut(l, l2, k, v)
    BY <1>1, <1>2, <1>4, <2>1, PutModels
  <2> QED
    BY <1>1, <2>2 DEF OnePut
<1>6. ~Adds(e) /\ \A j \in Keys : ~Clears(e, j) /\ (Sets(e, j) <=> j = k)
  BY <1>1 DEF Adds, Clears, Sets
<1>7. RunOn(l, e, l2)
  BY <1>5, <1>6 DEF RunOn
<1> QED
  BY <1>3, <1>4, <1>7 DEF l2, model

LEMMA ValueRuns ==
    ASSUME NEW l, Agree(l), NEW e, WellFormed(e), e.to = "value",
           e.version # Null => HasModel(l, e.key)
    PROVE  LET l2 == AddOrUpdate(l, e.key, NewModel(l, e.key, e.version))
           IN  Agree(l2) /\ RunOn(l, e, l2) /\ (NoBlank(l) /\ e.version # Null => NoBlank(l2))
<1> DEFINE k == e.key
           v == e.version
           model == NewModel(l, k, v)
           l2 == AddOrUpdate(l, k, model)
<1>1. k \in Keys /\ v \in Values /\ e # EndOfMessage
  BY DEF WellFormed, Callback, EndOfMessage
<1>2. model \in ModelsFor(k) /\ model.version = v /\ (model = NoModel <=> v = Null)
  BY <1>1, NewModelOf
<1> HIDE DEF model, l2
<1>3. /\ Agree(l2) /\ (NoBlank(l) /\ model # NoModel => NoBlank(l2))
      /\ \/ l2.mModelKeys = PutIn(l.mModelKeys, k, model)
         \/ l2 = l /\ ~HasModel(l, k) /\ model = NoModel
  BY <1>1, <1>2, AddOrUpdateRuns DEF l2
<1>4. ~Adds(e)
  BY DEF Adds
<1>5. CASE l2.mModelKeys = PutIn(l.mModelKeys, k, model)
  <2>1. /\ HasModel(l2, k) <=> v # Null
        /\ l2.mModelKeys[k].version = v
        /\ \A j \in Keys \ {k} : /\ HasModel(l2, j) <=> HasModel(l, j)
                                 /\ HasModel(l2, j) => l2.mModelKeys[j] = l.mModelKeys[j]
    <3>1. OnePut(l, l2, k, v)
      BY <1>1, <1>2, <1>5, PutModels
    <3> QED
      BY <3>1 DEF OnePut
  <2>2. ASSUME NEW j \in Keys
        PROVE  /\ HasModel(l2, j) <=> HasModel(l, j) /\ ~Clears(e, j)
               /\ HasModel(l2, j) =>
                      l2.mModelKeys[j].version = IF Sets(e, j) THEN v ELSE l.mModelKeys[j].version
    <3>1. CASE j = k
      BY <1>1, <2>1, <3>1 DEF HasModel, Clears, Sets
    <3>2. CASE j # k
      BY <2>1, <3>2 DEF HasModel, Clears, Sets
    <3> QED
      BY <3>1, <3>2
  <2>3. RunOn(l, e, l2)
    BY <1>4, <2>2 DEF RunOn
  <2> QED
    BY <1>2, <1>3, <2>3 DEF l2, model
<1>6. CASE l2 = l /\ ~HasModel(l, k) /\ model = NoModel
  <2>1. ~Adds(e) /\ \A j \in Keys : (Clears(e, j) => j = k) /\ ~Sets(e, j)
    BY <1>2, <1>4, <1>6 DEF Clears, Sets
  <2>2. RunOn(l, e, l)
    BY <1>6, <2>1 DEF RunOn
  <2> QED
    BY <1>2, <1>3, <1>6, <2>2 DEF l2, model
<1> QED
  BY <1>3, <1>5, <1>6

LEMMA RemovedRuns ==
    ASSUME NEW l, Agree(l), NEW e, WellFormed(e), e.to \in Listeners, e.kind = "removed"
    PROVE  Agree(RemoveKey(l, e.key)) /\ RunOn(l, e, RemoveKey(l, e.key)) /\ e.version = Null
<1> DEFINE k == e.key
           l2 == RemoveKey(l, k)
<1>1. k \in Keys /\ e.version = Null /\ e # EndOfMessage
  BY DEF WellFormed, Callback, EndOfMessage
<1>2. Agree(l2) /\ l2.mModelKeys = ForgetIn(l.mModelKeys, k)
  BY <1>1, RemoveKeyRuns
<1> HIDE DEF l2
<1>3. /\ ~HasModel(l2, k)
      /\ \A j \in Keys \ {k} : /\ HasModel(l2, j) <=> HasModel(l, j)
                               /\ HasModel(l2, j) => l2.mModelKeys[j] = l.mModelKeys[j]
  BY <1>1, <1>2, ForgetModels
<1>4. ~Adds(e) /\ \A j \in Keys : (Clears(e, j) <=> j = k) /\ ~Sets(e, j)
  BY <1>1 DEF Adds, Clears, Sets
<1>5. RunOn(l, e, l2)
  BY <1>3, <1>4 DEF RunOn
<1> QED
  BY <1>1, <1>2, <1>5 DEF l2

LEMMA OthersRun ==
    ASSUME NEW l, NEW e, \/ e = EndOfMessage
                         \/ WellFormed(e) /\ e.to = "screen" /\ e.kind # "removed"
    PROVE  RunOn(l, e, l)
<1>1. ~Adds(e) /\ \A j \in Keys : ~Clears(e, j) /\ ~Sets(e, j)
  BY DEF Adds, Clears, Sets, EndOfMessage, WellFormed, Callback, Listeners
<1> QED
  BY <1>1 DEF RunOn

-----------------------------------------------------------------------------
(* The looper when a callback has run: what the others find is the same.   *)

Behind(q2, q) ==
    /\ Len(q) \in Nat \ {0} /\ Len(q2) = Len(q) - 1
    /\ \A i \in 1 .. Len(q) - 1 : q2[i] = q[i + 1]

LEMMA BehindElements ==
    ASSUME NEW q, NEW q2, Behind(q2, q)
    PROVE  /\ \A i \in 1 .. Len(q2) : i + 1 \in 1 .. Len(q) /\ q2[i] = q[i + 1]
           /\ \A i \in 1 .. Len(q) : i # 1 => i - 1 \in 1 .. Len(q2) /\ q2[i - 1] = q[i]
<1>1. Len(q) \in Nat /\ Len(q2) = Len(q) - 1
  BY DEF Behind
<1>2. \A i \in 1 .. Len(q2) : i + 1 \in 1 .. Len(q) /\ q2[i] = q[i + 1]
  BY DEF Behind
<1>3. ASSUME NEW i \in 1 .. Len(q), i # 1
      PROVE  i - 1 \in 1 .. Len(q2) /\ q2[i - 1] = q[i]
  <2>1. i - 1 \in 1 .. Len(q2) /\ (i - 1) + 1 = i
    BY <1>1, <1>3
  <2> QED
    BY <1>2, <2>1
<1> QED
  BY <1>2, <1>3

LEMMA SameToOthers ==
    ASSUME NEW l, NEW l2, NEW q, NEW q2, Behind(q2, q), AddedFirst(q), RunOn(l, q[1], l2),
           NEW k \in Keys, NEW i \in 1 .. Len(q2) + 1
    PROVE  InList(l2, q2, k, i) <=> InList(l, q, k, i + 1)
<1>1. Len(q) \in Nat /\ Len(q2) = Len(q) - 1
  BY DEF Behind
<1>2. \A h \in 1 .. i - 1 : h + 1 \in 1 .. (i + 1) - 1 /\ q2[h] = q[h + 1]
  BY <1>1, BehindElements
<1>3. \A h \in 1 .. (i + 1) - 1 :
          h = 1 \/ (h - 1 \in 1 .. i - 1 /\ q2[h - 1] = q[h] /\ h \in 1 .. Len(q) /\ 1 \in 1 .. h - 1)
  <2> SUFFICES ASSUME NEW h \in 1 .. (i + 1) - 1, h # 1
               PROVE  /\ h - 1 \in 1 .. i - 1 /\ q2[h - 1] = q[h]
                      /\ h \in 1 .. Len(q) /\ 1 \in 1 .. h - 1
    OBVIOUS
  <2>1. h \in 1 .. Len(q) /\ h - 1 \in 1 .. i - 1 /\ 1 \in 1 .. h - 1
    BY <1>1
  <2> QED
    BY <2>1, BehindElements
<1>4. 1 \in 1 .. (i + 1) - 1
  OBVIOUS
<1> DEFINE before == 1 .. i - 1
           before2 == 1 .. (i + 1) - 1
<1>5. HasModel(l2, k) <=> (HasModel(l, k) \/ (Adds(q[1]) /\ q[1].key = k)) /\ ~Clears(q[1], k)
  BY DEF RunOn
<1>6. (\A h \in before2 : ~Clears(q[h], k))
      <=> ~Clears(q[1], k) /\ \A h \in before : ~Clears(q2[h], k)
  <2>1. ASSUME \A h \in before2 : ~Clears(q[h], k)
        PROVE  ~Clears(q[1], k) /\ \A h \in before : ~Clears(q2[h], k)
    BY <1>2, <1>4, <2>1
  <2>2. ASSUME ~Clears(q[1], k) /\ \A h \in before : ~Clears(q2[h], k), NEW h \in before2
        PROVE  ~Clears(q[h], k)
    BY <1>3, <2>2
  <2> QED
    BY <2>1, <2>2
<1>7. (\E h \in before2 : Adds(q[h]) /\ q[h].key = k)
      <=> (Adds(q[1]) /\ q[1].key = k) \/ \E h \in before : Adds(q2[h]) /\ q2[h].key = k
  <2>1. ASSUME NEW h \in before2, Adds(q[h]) /\ q[h].key = k
        PROVE  (Adds(q[1]) /\ q[1].key = k) \/ \E g \in before : Adds(q2[g]) /\ q2[g].key = k
    BY <1>3, <2>1
  <2>2. ASSUME NEW h \in before, Adds(q2[h]) /\ q2[h].key = k
        PROVE  \E g \in before2 : Adds(q[g]) /\ q[g].key = k
    BY <1>2, <2>2
  <2> QED
    BY <1>4, <2>1, <2>2
<1>8. (\E h \in before : Adds(q2[h]) /\ q2[h].key = k) => ~Clears(q[1], k)
  <2> SUFFICES ASSUME NEW h \in before, Adds(q2[h]) /\ q2[h].key = k PROVE ~Clears(q[1], k)
    OBVIOUS
  <2>1. h + 1 \in 1 .. Len(q) /\ Adds(q[h + 1]) /\ q[h + 1].key = k /\ 1 \in 1 .. (h + 1) - 1
    BY <1>1, <1>2
  <2>2. q[1].key # k
    BY <2>1 DEF AddedFirst
  <2> QED
    BY <2>2 DEF Clears
<1> HIDE DEF before, before2
<1>9. InList(l2, q2, k, i) <=>
          /\ HasModel(l2, k) \/ \E h \in before : Adds(q2[h]) /\ q2[h].key = k
          /\ \A h \in before : ~Clears(q2[h], k)
  BY DEF InList, before
<1>10. InList(l, q, k, i + 1) <=>
          /\ HasModel(l, k) \/ \E h \in before2 : Adds(q[h]) /\ q[h].key = k
          /\ \A h \in before2 : ~Clears(q[h], k)
  BY DEF InList, before2
<1> QED
  BY <1>5, <1>6, <1>7, <1>8, <1>9, <1>10, Zenon

LEMMA RunKeeps ==
    ASSUME NEW l, NEW l2, NEW q, NEW q2, NEW data, NEW seen, Heard(l, q, data, seen),
           Behind(q2, q), RunOn(l, q[1], l2)
    PROVE  Heard(l2, q2, data, seen)
<1> USE DEF Heard
<1>1. \A i \in 1 .. Len(q2) : i + 1 \in 1 .. Len(q) /\ q2[i] = q[i + 1] /\ i \in 1 .. Len(q2) + 1
  BY BehindElements DEF Behind
<1>2. \A i \in 1 .. Len(q2) : \A h \in 1 .. i - 1 :
          h + 1 \in 1 .. (i + 1) - 1 /\ q2[h] = q[h + 1]
  <2> SUFFICES ASSUME NEW i \in 1 .. Len(q2), NEW h \in 1 .. i - 1
               PROVE  h + 1 \in 1 .. (i + 1) - 1 /\ q2[h] = q[h + 1]
    OBVIOUS
  <2>1. h \in 1 .. Len(q2) /\ h + 1 \in 1 .. (i + 1) - 1
    BY DEF Behind
  <2> QED
    BY <1>1, <2>1
<1>3. KeysKnown(q2, seen)
  BY <1>1 DEF KeysKnown
<1>4. AddedFirst(q2)
  <2> SUFFICES ASSUME NEW i \in 1 .. Len(q2), Adds(q2[i]), NEW h \in 1 .. i - 1
               PROVE  q2[h].key # q2[i].key
    BY DEF AddedFirst
  <2> DEFINE m == i + 1
             g == h + 1
  <2>1. m \in 1 .. Len(q) /\ q2[i] = q[m]
    BY <1>1
  <2>2. g \in 1 .. m - 1 /\ q2[h] = q[g]
    BY <1>2
  <2> HIDE DEF m, g
  <2>3. q[g].key # q[m].key
    BY <2>1, <2>2 DEF AddedFirst
  <2> QED
    BY <2>1, <2>2, <2>3
<1>5. \A k \in Keys : \A i \in 1 .. Len(q2) + 1 : InList(l2, q2, k, i) <=> InList(l, q, k, i + 1)
  BY SameToOthers
<1>6. SetsWhatIsThere(l2, q2)
  BY <1>1, <1>5 DEF SetsWhatIsThere
<1>7. AddsInPlace(l2, q2)
  <2> SUFFICES ASSUME NEW i \in 1 .. Len(q2), Adds(q2[i])
               PROVE  /\ q2[i].previous # NoKey =>
                             q2[i].previous < q2[i].key /\ InList(l2, q2, q2[i].previous, i)
                      /\ \A j \in Keys : InList(l2, q2, j, i) => Between(q2[i].previous, j, q2[i].key)
    BY DEF AddsInPlace
  <2> DEFINE e == q[i + 1]
  <2>1. q2[i] = e /\ i + 1 \in 1 .. Len(q) /\ i \in 1 .. Len(q2) + 1
    BY <1>1
  <2>2. /\ e.previous # NoKey => e.previous < e.key /\ InList(l, q, e.previous, i + 1)
        /\ \A j \in Keys : InList(l, q, j, i + 1) => Between(e.previous, j, e.key)
    BY <2>1 DEF AddsInPlace
  <2>3. e.previous # NoKey => e.previous \in Keys
    <3>1. e # EndOfMessage
      BY <2>1 DEF Adds, EndOfMessage
    <3>2. e \in Callback
      BY <2>1, <3>1 DEF KeysKnown, WellFormed
    <3> QED
      BY <3>2 DEF Callback
  <2> HIDE DEF e
  <2> QED
    BY <1>5, <2>1, <2>2, <2>3
<1>8. EndsAsChildren(l2, q2, data)
  <2>1. Len(q2) + 1 \in 1 .. Len(q2) + 1 /\ (Len(q2) + 1) + 1 = Len(q) + 1
    BY DEF Behind
  <2> QED
    BY <1>5, <2>1 DEF EndsAsChildren
<1>9. LastIsNewest(l2, q2, data)
  <2> SUFFICES ASSUME NEW k \in Keys, data[k] # Null
               PROVE  /\ \A i \in 1 .. Len(q2) :
                            Sets(q2[i], k) /\ (\A h \in i + 1 .. Len(q2) : ~Sets(q2[h], k))
                            => q2[i].version = data[k]
                      /\ (\A h \in 1 .. Len(q2) : ~Sets(q2[h], k)) =>
                            l2.mModelKeys[k].version = data[k]
    BY DEF LastIsNewest
  <2>0. Len(q) \in Nat /\ Len(q2) = Len(q) - 1 /\ 1 \in 1 .. Len(q)
    BY DEF Behind
  <2>1. ASSUME NEW i \in 1 .. Len(q2), Sets(q2[i], k), \A h \in i + 1 .. Len(q2) : ~Sets(q2[h], k)
        PROVE  q2[i].version = data[k]
    <3>1. \A h \in (i + 1) + 1 .. Len(q) : ~Sets(q[h], k)
      <4> SUFFICES ASSUME NEW h \in (i + 1) + 1 .. Len(q) PROVE ~Sets(q[h], k)
        OBVIOUS
      <4>1. h \in 1 .. Len(q) /\ h # 1 /\ h - 1 \in i + 1 .. Len(q2)
        BY <2>0
      <4>2. q2[h - 1] = q[h]
        BY <4>1, BehindElements
      <4> QED
        BY <2>1, <4>1, <4>2
    <3> DEFINE m == i + 1
    <3>2. m \in 1 .. Len(q) /\ q2[i] = q[m] /\ Sets(q[m], k)
      BY <1>1, <2>1
    <3> HIDE DEF m
    <3>3. \A h \in m + 1 .. Len(q) : ~Sets(q[h], k)
      BY <3>1 DEF m
    <3>4. q[m].version = data[k]
      BY <3>2, <3>3 DEF LastIsNewest
    <3> QED
      BY <3>2, <3>4
  <2>2. ASSUME \A h \in 1 .. Len(q2) : ~Sets(q2[h], k)
        PROVE  l2.mModelKeys[k].version = data[k]
    <3>1. \A h \in 1 .. Len(q) : h # 1 => ~Sets(q[h], k)
      BY <2>2, BehindElements
    <3>2. \A h \in 1 .. Len(q2) : ~(Adds(q2[h]) /\ q2[h].key = k)
      <4> SUFFICES ASSUME NEW h \in 1 .. Len(q2), Adds(q2[h]), q2[h].key = k PROVE FALSE
        OBVIOUS
      <4>1. q2[h] # EndOfMessage
        BY DEF Adds, EndOfMessage
      <4>2. WellFormed(q2[h])
        BY <1>3, <4>1 DEF KeysKnown
      <4>3. Sets(q2[h], k)
        BY <4>2 DEF WellFormed, Adds, Sets, Listeners
      <4> QED
        BY <2>2, <4>3
    <3>3. HasModel(l2, k)
      <4>1. InList(l2, q2, k, Len(q2) + 1)
        BY <1>8 DEF EndsAsChildren
      <4>2. (Len(q2) + 1) - 1 = Len(q2)
        BY <2>0
      <4> QED
        BY <3>2, <4>1, <4>2 DEF InList
    <3>4. l2.mModelKeys[k].version = IF Sets(q[1], k) THEN q[1].version ELSE l.mModelKeys[k].version
      BY <3>3 DEF RunOn
    <3>5. CASE Sets(q[1], k)
      <4>1. \A h \in 1 + 1 .. Len(q) : h \in 1 .. Len(q) /\ h # 1
        BY <2>0
      <4> QED
        BY <2>0, <3>1, <3>4, <3>5, <4>1 DEF LastIsNewest
    <3>6. CASE ~Sets(q[1], k)
      BY <3>1, <3>4, <3>6 DEF LastIsNewest
    <3> QED
      BY <3>5, <3>6
  <2> QED
    BY <2>1, <2>2
<1> QED
  BY <1>3, <1>4, <1>6, <1>7, <1>8, <1>9

-----------------------------------------------------------------------------
(* The looper when a message is posted.                                    *)

Joined(q2, q, es) ==
    /\ Len(q) \in Nat /\ Len(es) \in Nat /\ Len(q2) = Len(q) + Len(es)
    /\ \A i \in 1 .. Len(q) : q2[i] = q[i]
    /\ \A r \in 1 .. Len(es) : q2[Len(q) + r] = es[r]

LEMMA JoinedElements ==
    ASSUME NEW q, NEW es, NEW q2, Joined(q2, q, es), NEW i \in 1 .. Len(q2)
    PROVE  \/ i \in 1 .. Len(q) /\ q2[i] = q[i]
           \/ i \notin 1 .. Len(q) /\ \E r \in 1 .. Len(es) : i = Len(q) + r /\ q2[i] = es[r]
<1>1. CASE i \in 1 .. Len(q)
  BY <1>1 DEF Joined
<1>2. CASE i \notin 1 .. Len(q)
  <2>1. i - Len(q) \in 1 .. Len(es) /\ i = Len(q) + (i - Len(q))
    BY <1>2 DEF Joined
  <2>2. q2[i] = es[i - Len(q)]
    BY <2>1 DEF Joined
  <2> QED
    BY <1>2, <2>1, <2>2
<1> QED
  BY <1>1, <1>2

(* Nothing changes for the callbacks that wait.                            *)
LEMMA SameWhileThere ==
    ASSUME NEW l, NEW q, NEW es, NEW q2, Joined(q2, q, es), NEW k, NEW i \in 1 .. Len(q) + 1
    PROVE  InList(l, q2, k, i) <=> InList(l, q, k, i)
<1>1. \A h \in 1 .. i - 1 : q2[h] = q[h]
  BY DEF Joined
<1> QED
  BY <1>1 DEF InList

(* The message itself finds what the last of them leaves.                  *)
LEMMA InListBehind ==
    ASSUME NEW l, NEW q, NEW es, NEW q2, Joined(q2, q, es), NEW k,
           \A r \in 1 .. Len(es) : ~(Adds(es[r]) /\ es[r].key = k), NEW r \in 1 .. Len(es) + 1
    PROVE  InList(l, q2, k, Len(q) + r) <=>
               InList(l, q, k, Len(q) + 1) /\ \A h \in 1 .. r - 1 : ~Clears(es[h], k)
<1> DEFINE N == Len(q)
           before2 == 1 .. (N + r) - 1
           before == 1 .. (N + 1) - 1
           new == 1 .. r - 1
<1>1. N \in Nat /\ Len(es) \in Nat
  BY DEF Joined
<1>2. \A h \in before : h \in before2 /\ q2[h] = q[h]
  BY <1>1 DEF Joined
<1>3. \A h \in new : N + h \in before2 /\ q2[N + h] = es[h] /\ ~(Adds(es[h]) /\ es[h].key = k)
  <2> SUFFICES ASSUME NEW h \in new
               PROVE  N + h \in before2 /\ q2[N + h] = es[h] /\ ~(Adds(es[h]) /\ es[h].key = k)
    OBVIOUS
  <2>1. h \in 1 .. Len(es) /\ N + h \in before2
    BY <1>1
  <2> QED
    BY <2>1 DEF Joined
<1>4. ASSUME NEW h \in before2
      PROVE  h \in before \/ \E g \in new : h = N + g /\ q2[h] = es[g]
  <2>1. CASE h \in before
    BY <2>1
  <2>2. CASE h \notin before
    <3>1. h - N \in new /\ h = N + (h - N)
      BY <1>1, <2>2
    <3>2. q2[h] = es[h - N]
      BY <1>3, <3>1
    <3> QED
      BY <3>1, <3>2
  <2> QED
    BY <2>1, <2>2
<1>5. InList(l, q2, k, N + r) <=>
          /\ HasModel(l, k) \/ \E h \in before2 : Adds(q2[h]) /\ q2[h].key = k
          /\ \A h \in before2 : ~Clears(q2[h], k)
  BY DEF InList
<1>6. InList(l, q, k, N + 1) <=>
          /\ HasModel(l, k) \/ \E h \in before : Adds(q[h]) /\ q[h].key = k
          /\ \A h \in before : ~Clears(q[h], k)
  BY DEF InList
<1> HIDE DEF before, before2, new, N
<1>7. (\E h \in before2 : Adds(q2[h]) /\ q2[h].key = k)
      <=> \E h \in before : Adds(q[h]) /\ q[h].key = k
  BY <1>2, <1>3, <1>4
<1>8. (\A h \in before2 : ~Clears(q2[h], k))
      <=> (\A h \in before : ~Clears(q[h], k)) /\ \A h \in new : ~Clears(es[h], k)
  BY <1>2, <1>3, <1>4
<1>9. InList(l, q2, k, N + r) <=>
          InList(l, q, k, N + 1) /\ \A h \in new : ~Clears(es[h], k)
  BY <1>5, <1>6, <1>7, <1>8, Zenon
<1> QED
  BY <1>9 DEF N, new

(* A message about children that were there: it tells what changes to      *)
(* `data2', and nothing that is not so.                                    *)
News(es, data2, seen) ==
    \A r \in 1 .. Len(es) :
        \/ es[r] = EndOfMessage
        \/ /\ WellFormed(es[r]) /\ ~Adds(es[r])
           /\ es[r].key \in seen /\ es[r].version = data2[es[r].key]

Tells(es, data, data2) ==
    \A k \in Keys : data2[k] # data[k] =>
        data[k] # Null /\ \E r \in 1 .. Len(es) : es[r].to = "adapter" /\ es[r].key = k

LEMMA WhatNewsDo ==
    ASSUME NEW es, NEW data, NEW data2, NEW seen, News(es, data2, seen), Tells(es, data, data2)
    PROVE  /\ \A r \in 1 .. Len(es) : ~Adds(es[r])
           /\ \A k \in Keys : \A r \in 1 .. Len(es) :
                  /\ Clears(es[r], k) => data2[k] = Null
                  /\ Sets(es[r], k) => data2[k] # Null /\ es[r].version = data2[k]
           /\ \A k \in Keys : data2[k] # Null => data[k] # Null
           /\ \A k \in Keys : data2[k] # data[k] =>
                  \E r \in 1 .. Len(es) : IF data2[k] = Null THEN Clears(es[r], k) ELSE Sets(es[r], k)
<1>1. ~Adds(EndOfMessage) /\ \A k : ~Sets(EndOfMessage, k) /\ ~Clears(EndOfMessage, k)
  BY DEF Adds, Sets, Clears, EndOfMessage
<1>2. \A r \in 1 .. Len(es) : ~Adds(es[r])
  BY <1>1 DEF News
<1>3. ASSUME NEW k \in Keys, NEW r \in 1 .. Len(es)
      PROVE  /\ Clears(es[r], k) => data2[k] = Null
             /\ Sets(es[r], k) => data2[k] # Null /\ es[r].version = data2[k]
  <2>1. CASE es[r] = EndOfMessage
    BY <1>1, <2>1
  <2>2. CASE es[r] # EndOfMessage
    <3>1. es[r].version = data2[es[r].key]
      BY <2>2 DEF News
    <3> QED
      BY <3>1 DEF Clears, Sets
  <2> QED
    BY <2>1, <2>2
<1>4. \A k \in Keys : data2[k] # Null => data[k] # Null
  BY DEF Tells
<1>5. ASSUME NEW k \in Keys, data2[k] # data[k]
      PROVE  \E r \in 1 .. Len(es) : IF data2[k] = Null THEN Clears(es[r], k) ELSE Sets(es[r], k)
  <2>1. PICK r \in 1 .. Len(es) : es[r].to = "adapter" /\ es[r].key = k
    BY <1>5 DEF Tells
  <2>2. es[r] # EndOfMessage
    BY <2>1 DEF EndOfMessage
  <2>3. es[r].version = data2[k]
    BY <2>1, <2>2 DEF News
  <2>4. IF data2[k] = Null THEN Clears(es[r], k) ELSE Sets(es[r], k)
    BY <2>1, <2>2, <2>3 DEF Clears, Sets
  <2> QED
    BY <2>4
<1> QED
  BY <1>2, <1>3, <1>4, <1>5

LEMMA PostKeeps ==
    ASSUME NEW l, NEW q, NEW es, NEW q2, NEW data, NEW data2, NEW seen, Heard(l, q, data, seen),
           Joined(q2, q, es), News(es, data2, seen), Tells(es, data, data2)
    PROVE  Heard(l, q2, data2, seen)
<1> USE DEF Heard
<1> DEFINE N == Len(q)
<1>0. N \in Nat /\ Len(es) \in Nat /\ Len(q2) = N + Len(es)
  BY DEF Joined
<1>1. \A i \in 1 .. Len(q2) :
          \/ i \in 1 .. N /\ q2[i] = q[i]
          \/ i \notin 1 .. N /\ \E r \in 1 .. Len(es) : i = N + r /\ q2[i] = es[r]
  BY JoinedElements
<1>2. /\ \A r \in 1 .. Len(es) : ~Adds(es[r])
      /\ \A k \in Keys : \A r \in 1 .. Len(es) :
             /\ Clears(es[r], k) => data2[k] = Null
             /\ Sets(es[r], k) => data2[k] # Null /\ es[r].version = data2[k]
      /\ \A k \in Keys : data2[k] # Null => data[k] # Null
      /\ \A k \in Keys : data2[k] # data[k] =>
             \E r \in 1 .. Len(es) : IF data2[k] = Null THEN Clears(es[r], k) ELSE Sets(es[r], k)
  BY WhatNewsDo
<1>3. \A k \in Keys : \A i \in 1 .. N + 1 : InList(l, q2, k, i) <=> InList(l, q, k, i)
  BY SameWhileThere
<1>4. \A k \in Keys : \A r \in 1 .. Len(es) + 1 :
          InList(l, q2, k, N + r) <=>
              InList(l, q, k, N + 1) /\ \A h \in 1 .. r - 1 : ~Clears(es[h], k)
  BY <1>2, InListBehind
<1>5. \A k \in Keys : InList(l, q, k, N + 1) <=> data[k] # Null
  BY DEF EndsAsChildren
<1>6. \A i \in 1 .. N : i \in 1 .. N + 1 /\ i \in 1 .. Len(q2)
  BY <1>0
<1>7. \A i \in 1 .. N : q2[i] = q[i]
  BY DEF Joined
<1>8. KeysKnown(q2, seen)
  BY <1>1 DEF KeysKnown, News
<1>9. AddedFirst(q2)
  <2> SUFFICES ASSUME NEW i \in 1 .. Len(q2), Adds(q2[i]), NEW h \in 1 .. i - 1
               PROVE  q2[h].key # q2[i].key
    BY DEF AddedFirst
  <2>1. i \in 1 .. N /\ q2[i] = q[i]
    BY <1>1, <1>2
  <2>2. h \in 1 .. N
    BY <1>0, <2>1
  <2> QED
    BY <1>7, <2>1, <2>2 DEF AddedFirst
<1>10. SetsWhatIsThere(l, q2)
  <2> SUFFICES ASSUME NEW i \in 1 .. Len(q2), NEW k \in Keys, Sets(q2[i], k), ~Adds(q2[i])
               PROVE  InList(l, q2, k, i)
    BY DEF SetsWhatIsThere
  <2>1. CASE i \in 1 .. N
    BY <1>3, <1>6, <1>7, <2>1 DEF SetsWhatIsThere
  <2>2. CASE i \notin 1 .. N
    <3>1. PICK r \in 1 .. Len(es) : i = N + r /\ q2[i] = es[r]
      BY <1>1, <2>2
    <3>2. data2[k] # Null /\ InList(l, q, k, N + 1)
      BY <1>2, <1>5, <3>1
    <3>3. r \in 1 .. Len(es) + 1 /\ \A h \in 1 .. r - 1 : h \in 1 .. Len(es)
      BY <1>0
    <3>4. \A h \in 1 .. r - 1 : ~Clears(es[h], k)
      BY <1>2, <3>2, <3>3
    <3>5. InList(l, q2, k, N + r)
      BY <1>4, <3>2, <3>3, <3>4
    <3> QED
      BY <3>1, <3>5
  <2> QED
    BY <2>1, <2>2
<1>11. AddsInPlace(l, q2)
  <2> SUFFICES ASSUME NEW i \in 1 .. Len(q2), Adds(q2[i])
               PROVE  /\ q2[i].previous # NoKey =>
                             q2[i].previous < q2[i].key /\ InList(l, q2, q2[i].previous, i)
                      /\ \A j \in Keys : InList(l, q2, j, i) => Between(q2[i].previous, j, q2[i].key)
    BY DEF AddsInPlace
  <2>1. i \in 1 .. N /\ q2[i] = q[i] /\ i \in 1 .. N + 1
    BY <1>1, <1>2, <1>6
  <2>2. q2[i].previous # NoKey => q2[i].previous \in Keys
    <3>1. q2[i] # EndOfMessage
      BY DEF Adds, EndOfMessage
    <3>2. q2[i] \in Callback
      BY <1>8, <3>1 DEF KeysKnown, WellFormed
    <3> QED
      BY <3>2 DEF Callback
  <2> QED
    BY <1>3, <2>1, <2>2 DEF AddsInPlace
<1>12. EndsAsChildren(l, q2, data2)
  <2> SUFFICES ASSUME NEW k \in Keys
               PROVE  InList(l, q2, k, Len(q2) + 1) <=> data2[k] # Null
    BY DEF EndsAsChildren
  <2>1. /\ Len(q2) + 1 = N + (Len(es) + 1) /\ Len(es) + 1 \in 1 .. Len(es) + 1
        /\ (Len(es) + 1) - 1 = Len(es)
    BY <1>0
  <2> DEFINE m == Len(es) + 1
  <2>2. InList(l, q2, k, N + m) <=>
            InList(l, q, k, N + 1) /\ \A h \in 1 .. m - 1 : ~Clears(es[h], k)
    BY <1>4, <2>1
  <2>3. InList(l, q2, k, Len(q2) + 1) <=>
            data[k] # Null /\ \A h \in 1 .. Len(es) : ~Clears(es[h], k)
    <3>1. m - 1 = Len(es) /\ Len(q2) + 1 = N + m
      BY <2>1
    <3> HIDE DEF m, N
    <3>2. InList(l, q2, k, Len(q2) + 1) <=>
            InList(l, q, k, N + 1) /\ \A h \in 1 .. Len(es) : ~Clears(es[h], k)
      BY <2>2, <3>1
    <3> QED
      BY <1>5, <3>2
  <2>4. data2[k] # Null => data[k] # Null /\ \A h \in 1 .. Len(es) : ~Clears(es[h], k)
    BY <1>2
  <2>5. data2[k] = Null /\ data[k] # Null => \E h \in 1 .. Len(es) : Clears(es[h], k)
    BY <1>2
  <2> QED
    BY <2>3, <2>4, <2>5, Zenon
<1>13. LastIsNewest(l, q2, data2)
  <2> SUFFICES ASSUME NEW k \in Keys, data2[k] # Null
               PROVE  /\ \A i \in 1 .. Len(q2) :
                            Sets(q2[i], k) /\ (\A h \in i + 1 .. Len(q2) : ~Sets(q2[h], k))
                            => q2[i].version = data2[k]
                      /\ (\A h \in 1 .. Len(q2) : ~Sets(q2[h], k)) =>
                            l.mModelKeys[k].version = data2[k]
    BY DEF LastIsNewest
  <2>1. data[k] # Null
    BY <1>2
  <2>2. data2[k] # data[k] => \E r \in 1 .. Len(es) : Sets(es[r], k)
    BY <1>2
  <2>3. \A r \in 1 .. Len(es) : N + r \in N + 1 .. Len(q2) /\ N + r \in 1 .. Len(q2) /\ q2[N + r] = es[r]
    <3> SUFFICES ASSUME NEW r \in 1 .. Len(es)
                 PROVE  N + r \in N + 1 .. Len(q2) /\ N + r \in 1 .. Len(q2) /\ q2[N + r] = es[r]
      OBVIOUS
    <3>1. N + r \in N + 1 .. Len(q2) /\ N + r \in 1 .. Len(q2)
      BY <1>0
    <3> QED
      BY <3>1 DEF Joined
  <2>4. ASSUME NEW i \in 1 .. Len(q2), Sets(q2[i], k), \A h \in i + 1 .. Len(q2) : ~Sets(q2[h], k)
        PROVE  q2[i].version = data2[k]
    <3>1. CASE i \in 1 .. N
      <4>1. \A r \in 1 .. Len(es) : N + r \in i + 1 .. Len(q2)
        BY <1>0, <3>1
      <4>2. data2[k] = data[k]
        BY <2>2, <2>3, <2>4, <4>1
      <4>3. \A h \in i + 1 .. N : h \in i + 1 .. Len(q2) /\ h \in 1 .. N
        BY <1>0, <3>1
      <4>4. \A h \in i + 1 .. N : ~Sets(q[h], k)
        BY <1>7, <2>4, <4>3
      <4>5. q[i].version = data[k]
        BY <1>7, <2>1, <2>4, <3>1, <4>4 DEF LastIsNewest
      <4> QED
        BY <1>7, <3>1, <4>2, <4>5
    <3>2. CASE i \notin 1 .. N
      <4>1. PICK r \in 1 .. Len(es) : q2[i] = es[r]
        BY <1>1, <3>2
      <4>2. es[r].version = data2[k]
        BY <1>2, <2>4, <4>1
      <4> QED
        BY <4>1, <4>2
    <3> QED
      BY <3>1, <3>2
  <2>5. ASSUME \A h \in 1 .. Len(q2) : ~Sets(q2[h], k)
        PROVE  l.mModelKeys[k].version = data2[k]
    <3>1. data2[k] = data[k]
      BY <2>2, <2>3, <2>5
    <3>2. \A h \in 1 .. N : ~Sets(q[h], k)
      BY <1>6, <1>7, <2>5
    <3> QED
      BY <2>1, <3>1, <3>2 DEF LastIsNewest
  <2> QED
    BY <2>4, <2>5
<1> QED
  BY <1>8, <1>9, <1>10, <1>11, <1>12, <1>13

(* The message of a child that was never there: first, its row is added.   *)
LEMMA AddKeeps ==
    ASSUME NEW l, NEW q, NEW a, NEW q2, NEW data, NEW data2, NEW seen, NEW k \in Keys,
           Heard(l, q, data, seen), Joined(q2, q, <<a>>), k \notin seen, data[k] = Null,
           WellFormed(a), Adds(a), a.key = k, a.version = data2[k],
           \A j \in Keys \ {k} : data2[j] = data[j],
           a.previous # NoKey => a.previous < k /\ data[a.previous] # Null,
           \A j \in Keys : data[j] # Null => Between(a.previous, j, k)
    PROVE  Heard(l, q2, data2, seen \cup {k})
<1> USE DEF Heard
<1> DEFINE N == Len(q)
           es == <<a>>
<1>0. N \in Nat /\ Len(es) = 1 /\ Len(q2) = N + 1 /\ q2[N + 1] = a
      /\ \A i \in 1 .. N : q2[i] = q[i]
  BY DEF Joined
<1>1. \A i \in 1 .. Len(q2) : i \in 1 .. N \/ i = N + 1
  BY <1>0
<1>2. a.version # Null /\ a # EndOfMessage /\ a.previous \in Keys \cup {NoKey}
  BY DEF WellFormed, Adds, Listeners, EndOfMessage, Callback
<1>3. \A i \in 1 .. N : q[i].key # k
  <2> SUFFICES ASSUME NEW i \in 1 .. N PROVE q[i].key # k
    OBVIOUS
  <2>1. CASE q[i] = EndOfMessage
    BY <2>1, KeyAssumption DEF EndOfMessage
  <2>2. CASE q[i] # EndOfMessage
    BY <2>2 DEF KeysKnown
  <2> QED
    BY <2>1, <2>2
<1>4. \A j \in Keys : \A i \in 1 .. N + 1 : InList(l, q2, j, i) <=> InList(l, q, j, i)
  BY SameWhileThere
<1>5. \A j \in Keys : InList(l, q, j, N + 1) <=> data[j] # Null
  BY DEF EndsAsChildren
<1>6. \A i \in 1 .. N : i \in 1 .. N + 1 /\ i \in 1 .. Len(q2)
  BY <1>0
<1>7. KeysKnown(q2, seen \cup {k})
  BY <1>0, <1>1 DEF KeysKnown
<1>8. AddedFirst(q2)
  <2> SUFFICES ASSUME NEW i \in 1 .. Len(q2), Adds(q2[i]), NEW h \in 1 .. i - 1
               PROVE  q2[h].key # q2[i].key
    BY DEF AddedFirst
  <2>1. h \in 1 .. N /\ q2[h] = q[h]
    BY <1>0
  <2> QED
    BY <1>0, <1>1, <1>3, <2>1 DEF AddedFirst
<1>9. SetsWhatIsThere(l, q2)
  BY <1>0, <1>1, <1>4, <1>6 DEF SetsWhatIsThere
<1>10. AddsInPlace(l, q2)
  <2> SUFFICES ASSUME NEW i \in 1 .. Len(q2), Adds(q2[i])
               PROVE  /\ q2[i].previous # NoKey =>
                             q2[i].previous < q2[i].key /\ InList(l, q2, q2[i].previous, i)
                      /\ \A j \in Keys : InList(l, q2, j, i) => Between(q2[i].previous, j, q2[i].key)
    BY DEF AddsInPlace
  <2>1. q2[i].previous # NoKey => q2[i].previous \in Keys
    <3>1. q2[i] # EndOfMessage
      BY DEF Adds, EndOfMessage
    <3>2. q2[i] \in Callback
      BY <1>7, <3>1 DEF KeysKnown, WellFormed
    <3> QED
      BY <3>2 DEF Callback
  <2>2. CASE i \in 1 .. N
    <3>1. q2[i] = q[i] /\ i \in 1 .. N + 1
      BY <1>0, <1>6, <2>2
    <3> QED
      BY <1>4, <2>1, <2>2, <3>1 DEF AddsInPlace
  <2>3. CASE i = N + 1
    <3>1. i \in 1 .. N + 1 /\ q2[i] = a
      BY <1>0, <2>3
    <3>2. \A j \in Keys : InList(l, q2, j, i) <=> data[j] # Null
      BY <1>4, <1>5, <2>3, <3>1
    <3> QED
      BY <2>1, <3>1, <3>2
  <2> QED
    BY <1>1, <2>2, <2>3
<1>11. EndsAsChildren(l, q2, data2)
  <2> SUFFICES ASSUME NEW j \in Keys
               PROVE  InList(l, q2, j, Len(q2) + 1) <=> data2[j] # Null
    BY DEF EndsAsChildren
  <2>1. Len(q2) + 1 = N + 2 /\ (N + 2) - 1 = N + 1 /\ N + 1 \in 1 .. N + 1
    BY <1>0
  <2>2. CASE j = k
    <3>1. \A h \in 1 .. N + 1 : ~Clears(q2[h], k)
      <4> SUFFICES ASSUME NEW h \in 1 .. N + 1, Clears(q2[h], k) PROVE FALSE
        OBVIOUS
      <4>1. h \in 1 .. N \/ h = N + 1
        BY <1>0
      <4>2. q2[h].key = k /\ q2[h].version = Null
        BY DEF Clears
      <4> QED
        BY <1>0, <1>2, <1>3, <4>1, <4>2
    <3>2. InList(l, q2, k, N + 2)
      BY <1>0, <2>1, <3>1 DEF InList
    <3> QED
      BY <1>2, <2>1, <2>2, <3>2
  <2>3. CASE j # k
    <3>1. \A r \in 1 .. Len(es) : ~(Adds(es[r]) /\ es[r].key = j) /\ ~Clears(es[r], j)
      <4>1. \A r \in 1 .. Len(es) : es[r] = a
        BY <1>0
      <4> QED
        BY <2>3, <4>1 DEF Clears
    <3>2. 2 \in 1 .. Len(es) + 1 /\ \A h \in 1 .. 2 - 1 : h \in 1 .. Len(es)
      BY <1>0
    <3> HIDE DEF es
    <3>3. InList(l, q2, j, N + 2) <=>
              InList(l, q, j, N + 1) /\ \A h \in 1 .. 2 - 1 : ~Clears(es[h], j)
      BY <3>1, <3>2, InListBehind DEF es
    <3>4. InList(l, q2, j, N + 2) <=> InList(l, q, j, N + 1)
      BY <3>1, <3>2, <3>3
    <3>5. data2[j] = data[j]
      BY <2>3
    <3> QED
      BY <1>5, <2>1, <3>4, <3>5
  <2> QED
    BY <2>2, <2>3
<1>12. LastIsNewest(l, q2, data2)
  <2> SUFFICES ASSUME NEW j \in Keys, data2[j] # Null
               PROVE  /\ \A i \in 1 .. Len(q2) :
                            Sets(q2[i], j) /\ (\A h \in i + 1 .. Len(q2) : ~Sets(q2[h], j))
                            => q2[i].version = data2[j]
                      /\ (\A h \in 1 .. Len(q2) : ~Sets(q2[h], j)) =>
                            l.mModelKeys[j].version = data2[j]
    BY DEF LastIsNewest
  <2>1. CASE j = k
    <3>1. \A i \in 1 .. Len(q2) : Sets(q2[i], j) => i = N + 1
      BY <1>0, <1>1, <1>3, <2>1 DEF Sets
    <3>2. N + 1 \in 1 .. Len(q2) /\ Sets(q2[N + 1], j)
      BY <1>0, <1>2, <2>1 DEF Adds, Sets
    <3> QED
      BY <1>0, <2>1, <3>1, <3>2
  <2>2. CASE j # k
    <3>1. data2[j] = data[j]
      BY <2>2
    <3>2. ~Sets(q2[N + 1], j)
      BY <1>0, <2>2 DEF Sets
    <3>3. ASSUME NEW i \in 1 .. Len(q2), Sets(q2[i], j), \A h \in i + 1 .. Len(q2) : ~Sets(q2[h], j)
          PROVE  q2[i].version = data2[j]
      <4>1. i \in 1 .. N
        BY <1>1, <3>2, <3>3
      <4>2. \A h \in i + 1 .. N : h \in i + 1 .. Len(q2) /\ h \in 1 .. N
        BY <1>0, <4>1
      <4>3. \A h \in i + 1 .. N : ~Sets(q[h], j)
        BY <1>0, <3>3, <4>2
      <4>4. q[i].version = data[j]
        BY <1>0, <3>1, <3>3, <4>1, <4>3 DEF LastIsNewest
      <4> QED
        BY <1>0, <3>1, <4>1, <4>4
    <3>4. ASSUME \A h \in 1 .. Len(q2) : ~Sets(q2[h], j)
          PROVE  l.mModelKeys[j].version = data2[j]
      <4>1. \A h \in 1 .. N : ~Sets(q[h], j)
        BY <1>0, <1>6, <3>4
      <4> QED
        BY <3>1, <4>1 DEF LastIsNewest
    <3> QED
      BY <3>3, <3>4
  <2> QED
    BY <2>1, <2>2
<1> QED
  BY <1>7, <1>8, <1>9, <1>10, <1>11, <1>12

-----------------------------------------------------------------------------
(* The query: the children in their order.                                 *)

(* A finite set of natural numbers has its maximum. *)
LEMMA MaxOfNaturals ==
    ASSUME NEW T \in SUBSET Nat, IsFiniteSet(T), T # {}
    PROVE  \E x \in T : \A j \in T : j <= x
<1> DEFINE Has(U) == \E x \in U : \A j \in U : j <= x
           Bad(n) == \E U \in SUBSET Nat : IsFiniteSet(U) /\ U # {} /\ Cardinality(U) = n /\ ~Has(U)
           bad == {n \in Nat : Bad(n)}
<1> SUFFICES ASSUME ~Has(T) PROVE FALSE
  OBVIOUS
<1>1. Cardinality(T) \in bad
  BY FS_CardinalityType
<1>2. Min(bad) \in bad /\ \A n \in bad : Min(bad) <= n
  BY <1>1, MinOfNaturals
<1> DEFINE m == Min(bad)
<1> HIDE DEF m
<1>3. m \in Nat /\ Bad(m) /\ \A n \in Nat : Bad(n) => m <= n
  BY <1>2 DEF m
<1>4. PICK U \in SUBSET Nat : IsFiniteSet(U) /\ U # {} /\ Cardinality(U) = m /\ ~Has(U)
  BY <1>3
<1>5. PICK x \in U : TRUE
  BY <1>4
<1> DEFINE V == U \ {x}
<1>6. IsFiniteSet(V) /\ Cardinality(V) = m - 1 /\ Cardinality(V) \in Nat
  BY <1>4, <1>5, FS_RemoveElement, FS_CardinalityType
<1>7. V # {} => Has(V)
  <2>1. ~Bad(m - 1)
    BY <1>3, <1>6
  <2> QED
    BY <1>6, <2>1
<1>8. CASE V = {}
  <2>1. \A j \in U : j <= x
    BY <1>8
  <2> QED
    BY <1>4, <1>5, <2>1
<1>9. CASE V # {}
  <2>1. PICK y \in V : \A j \in V : j <= y
    BY <1>7, <1>9
  <2>2. (\A j \in U : j <= x) \/ (\A j \in U : j <= y)
    BY <2>1
  <2> QED
    BY <1>4, <1>5, <2>1, <2>2
<1> QED
  BY <1>8, <1>9

InOrder(s, T) ==
    Range(s) = T /\ \A i, j \in DOMAIN s : i < j => s[i] < s[j]

LEMMA Enumerated ==
    ASSUME NEW T \in SUBSET Nat, IsFiniteSet(T)
    PROVE  \E s \in [1 .. Cardinality(T) -> T] : InOrder(s, T)
<1> DEFINE Has(U) == \E s \in [1 .. Cardinality(U) -> U] : InOrder(s, U)
           Bad(n) == \E U \in SUBSET Nat : IsFiniteSet(U) /\ Cardinality(U) = n /\ ~Has(U)
           bad == {n \in Nat : Bad(n)}
<1> SUFFICES ASSUME ~Has(T) PROVE FALSE
  OBVIOUS
<1>1. Cardinality(T) \in bad
  BY FS_CardinalityType
<1>2. Min(bad) \in bad /\ \A n \in bad : Min(bad) <= n
  BY <1>1, MinOfNaturals
<1> DEFINE m == Min(bad)
<1> HIDE DEF m
<1>3. m \in Nat /\ Bad(m) /\ \A n \in Nat : Bad(n) => m <= n
  BY <1>2 DEF m
<1>4. PICK U \in SUBSET Nat : IsFiniteSet(U) /\ Cardinality(U) = m /\ ~Has(U)
  BY <1>3
<1>5. CASE U = {}
  <2> DEFINE s == [i \in 1 .. 0 |-> 0]
  <2>1. Cardinality(U) = 0 /\ 1 .. 0 = {}
    BY <1>5, FS_EmptySet
  <2>2. s \in [1 .. Cardinality(U) -> U] /\ InOrder(s, U)
    BY <1>5, <2>1 DEF InOrder, Range
  <2> HIDE DEF s
  <2> QED
    BY <1>4, <2>2
<1>6. CASE U # {}
  <2>1. PICK x \in U : \A j \in U : j <= x
    BY <1>4, <1>6, MaxOfNaturals
  <2> DEFINE V == U \ {x}
  <2>2. IsFiniteSet(V) /\ Cardinality(V) = m - 1 /\ Cardinality(V) \in Nat
    BY <1>4, <2>1, FS_RemoveElement, FS_CardinalityType
  <2>3. Has(V)
    <3>1. ~Bad(m - 1)
      BY <1>3, <2>2
    <3> QED
      BY <2>2, <3>1
  <2>4. PICK t \in [1 .. m - 1 -> V] : InOrder(t, V)
    BY <2>2, <2>3
  <2> DEFINE s == [i \in 1 .. m |-> IF i = m THEN x ELSE t[i]]
  <2>5. m \in Nat /\ m # 0 /\ m \in 1 .. m
    BY <1>3, <2>2
  <2>6. \A i \in 1 .. m : i # m => i \in 1 .. m - 1 /\ s[i] = t[i] /\ t[i] \in U /\ t[i] # x
    BY <2>4, <2>5
  <2>7. s[m] = x /\ DOMAIN s = 1 .. m
    BY <2>5
  <2>8. s \in [1 .. m -> U]
    BY <2>1, <2>6
  <2> HIDE DEF s
  <2>9. Range(s) = U
    <3>1. \A y \in V : \E i \in 1 .. m - 1 : t[i] = y
      BY <2>4 DEF InOrder, Range
    <3>2. \A i \in 1 .. m - 1 : i \in 1 .. m /\ i # m
      BY <2>5
    <3>3. \A y \in U : \E i \in 1 .. m : s[i] = y
      BY <2>1, <2>5, <2>6, <2>7, <3>1, <3>2
    <3> QED
      BY <2>7, <2>8, <3>3 DEF Range
  <2>10. ASSUME NEW i \in 1 .. m, NEW j \in 1 .. m, i < j PROVE s[i] < s[j]
    <3>1. i # m
      BY <2>5, <2>10
    <3>2. CASE j = m
      <4>1. t[i] <= x /\ t[i] # x /\ t[i] \in Nat /\ x \in Nat
        BY <2>1, <2>6, <3>1
      <4> QED
        BY <2>6, <2>7, <3>1, <3>2, <4>1
    <3>3. CASE j # m
      <4>1. i \in DOMAIN t /\ j \in DOMAIN t
        BY <2>4, <2>6, <3>1, <3>3
      <4>2. t[i] < t[j]
        BY <2>4, <2>10, <4>1 DEF InOrder
      <4> QED
        BY <2>6, <3>1, <3>3, <4>2
    <3> QED
      BY <3>2, <3>3
  <2>11. InOrder(s, U)
    BY <2>7, <2>9, <2>10 DEF InOrder
  <2> QED
    BY <1>4, <2>8, <2>11
<1> QED
  BY <1>5, <1>6

LEMMA ChildrenInOrder ==
    ASSUME NEW data
    PROVE  /\ Children(data) \in Seq(Present(data))
           /\ \A k \in Present(data) : \E i \in 1 .. Len(Children(data)) : Children(data)[i] = k
           /\ \A i, j \in 1 .. Len(Children(data)) :
                  i < j => Children(data)[i] < Children(data)[j]
<1> DEFINE T == Present(data)
           n == Cardinality(T)
           c == Children(data)
<1>1. T \in SUBSET Keys /\ T \in SUBSET Nat
  BY LiveAssumption DEF Present
<1>2. IsFiniteSet(T)
  BY <1>1, LiveAssumption, FS_Subset
<1>3. n \in Nat
  BY <1>2, FS_CardinalityType
<1>4. \E s \in [1 .. n -> T] : InOrder(s, T)
  BY <1>1, <1>2, Enumerated
<1>5. c = CHOOSE s \in [1 .. n -> T] : InOrder(s, T)
  BY DEF Children, InOrder
<1>6. c \in [1 .. n -> T] /\ InOrder(c, T)
  BY <1>4, <1>5
<1> HIDE DEF c, T, n
<1>7. c \in Seq(T) /\ Len(c) = n /\ DOMAIN c = 1 .. n
  BY <1>3, <1>6
<1>8. \A k \in T : \E i \in 1 .. Len(c) : c[i] = k
  BY <1>6, <1>7 DEF InOrder, Range
<1> QED
  BY <1>6, <1>7, <1>8 DEF InOrder, c, T, n

LEMMA TheChildBefore ==
    ASSUME NEW data, NEW k \in Keys
    PROVE  LET p == PreviousChild(data, k)
           IN  /\ p \in Keys \cup {NoKey}
               /\ p # NoKey => p < k /\ data[p] # Null
               /\ \A j \in Keys : data[j] # Null /\ j # k => Between(p, j, k)
<1> DEFINE before == {j \in Present(data) : j < k}
           p == PreviousChild(data, k)
<1>1. before \in SUBSET Keys /\ before \in SUBSET Nat
  BY LiveAssumption DEF Present
<1>2. IsFiniteSet(before)
  BY <1>1, LiveAssumption, FS_Subset
<1>3. CASE before = {}
  <2>1. p = NoKey
    BY <1>3 DEF PreviousChild
  <2>2. \A j \in Keys : data[j] # Null => ~(j < k)
    BY <1>3 DEF Present
  <2> HIDE DEF p
  <2> QED
    BY <2>1, <2>2 DEF Between, p
<1>4. CASE before # {}
  <2>1. \E x \in before : \A j \in before : j <= x
    BY <1>1, <1>2, <1>4, MaxOfNaturals
  <2>2. p = CHOOSE x \in before : \A j \in before : j <= x
    BY <1>4 DEF PreviousChild
  <2>3. p \in before /\ \A j \in before : j <= p
    BY <2>1, <2>2
  <2> HIDE DEF p
  <2>4. p \in Keys /\ p < k /\ data[p] # Null /\ p # NoKey
    BY <2>3, KeyAssumption DEF Present
  <2>5. \A j \in Keys : data[j] # Null /\ j < k => j <= p
    BY <2>3 DEF Present
  <2> QED
    BY <2>4, <2>5 DEF Between, p
<1> QED
  BY <1>3, <1>4

Tell(e, to, kind, data, k) ==
    /\ e \in Callback /\ e # EndOfMessage
    /\ e.to = to /\ e.kind = kind /\ e.key = k /\ e.version = data[k]
    /\ e.previous = PreviousChild(data, k)

LEMMA EventParts ==
    ASSUME NEW to \in Listeners \cup {"value"}, NEW kind \in {"added", "changed", "removed"},
           NEW data \in [Keys -> Values], NEW k \in Keys
    PROVE  Tell(Event(to, kind, data, k), to, kind, data, k)
<1> DEFINE e == Event(to, kind, data, k)
           p == PreviousChild(data, k)
<1>1. p \in Keys \cup {NoKey}
  BY TheChildBefore
<1> HIDE DEF p
<1>2. e = [to |-> to, kind |-> kind, key |-> k, version |-> data[k], previous |-> p]
  BY DEF Event, p
<1> HIDE DEF e
<1>3. /\ e.to = to /\ e.kind = kind /\ e.key = k /\ e.version = data[k] /\ e.previous = p
      /\ e \in Callback
  BY <1>1, <1>2 DEF Callback
<1>4. e # EndOfMessage
  BY <1>3 DEF EndOfMessage, Listeners
<1> QED
  BY <1>3, <1>4 DEF Tell, e, p

(* The adapter's child listener hears of the children in their order.      *)
LEMMA AllAdded ==
    ASSUME NEW data \in [Keys -> Values], NEW seen, Present(data) \subseteq seen, NEW es,
           es = [i \in DOMAIN Children(data) |-> Event("adapter", "added", data, Children(data)[i])]
    PROVE  /\ es \in Seq(Callback) /\ Heard(EmptyList, es, data, seen)
           /\ \A i \in 1 .. Len(es) : es[i].to = "adapter"
<1> DEFINE c == Children(data)
           n == Len(c)
<1>1. /\ c \in Seq(Present(data)) /\ n \in Nat /\ DOMAIN c = 1 .. n
      /\ \A k \in Present(data) : \E i \in 1 .. n : c[i] = k
      /\ \A i, j \in 1 .. n : i < j => c[i] < c[j]
  <2>1. /\ c \in Seq(Present(data))
        /\ \A k \in Present(data) : \E i \in 1 .. Len(c) : c[i] = k
        /\ \A i, j \in 1 .. Len(c) : i < j => c[i] < c[j]
    BY ChildrenInOrder, Zenon
  <2> HIDE DEF c
  <2>2. Len(c) \in Nat /\ DOMAIN c = 1 .. Len(c)
    BY <2>1
  <2> QED
    BY <2>1, <2>2
<1> HIDE DEF c
<1>2. \A i \in 1 .. n : c[i] \in Present(data) /\ c[i] \in Keys /\ c[i] \in Nat /\ data[c[i]] # Null
  <2> SUFFICES ASSUME NEW i \in 1 .. n
               PROVE  c[i] \in Present(data) /\ c[i] \in Keys /\ c[i] \in Nat /\ data[c[i]] # Null
    OBVIOUS
  <2>1. c[i] \in Present(data)
    BY <1>1, ElementType
  <2> QED
    BY <2>1, LiveAssumption DEF Present
<1>3. es = [i \in 1 .. n |-> Event("adapter", "added", data, c[i])]
  BY <1>1 DEF c
<1>4. ASSUME NEW i \in 1 .. n
      PROVE  /\ es[i] \in Callback /\ es[i] # EndOfMessage
             /\ es[i].to = "adapter" /\ es[i].kind = "added" /\ es[i].key = c[i]
             /\ es[i].version = data[c[i]] /\ es[i].previous = PreviousChild(data, c[i])
  <2>1. es[i] = Event("adapter", "added", data, c[i])
    BY <1>3
  <2>2. "adapter" \in Listeners \cup {"value"}
    BY DEF Listeners
  <2> QED
    BY <1>2, <2>1, <2>2, EventParts DEF Tell
<1>5. es \in Seq(Callback) /\ Len(es) = n
  <2>1. es \in [1 .. n -> Callback]
    BY <1>3, <1>4
  <2> QED
    BY <1>1, <2>1
<1>6. \A i \in 1 .. n : /\ WellFormed(es[i]) /\ Adds(es[i])
                        /\ \A k \in Keys : ~Clears(es[i], k) /\ (Sets(es[i], k) <=> k = c[i])
  <2> SUFFICES ASSUME NEW i \in 1 .. n
               PROVE  /\ WellFormed(es[i]) /\ Adds(es[i])
                      /\ \A k \in Keys : ~Clears(es[i], k) /\ (Sets(es[i], k) <=> k = c[i])
    OBVIOUS
  <2>1. es[i].version # Null
    <3>1. data[c[i]] # Null
      BY <1>2
    <3>2. es[i].version = data[c[i]]
      BY <1>4
    <3> QED
      BY <3>1, <3>2
  <2>2. WellFormed(es[i])
    BY <1>4, <2>1 DEF WellFormed
  <2>3. Adds(es[i]) /\ \A k \in Keys : ~Clears(es[i], k) /\ (Sets(es[i], k) <=> k = c[i])
    BY <1>4, <2>1 DEF Adds, Clears, Sets
  <2> QED
    BY <2>2, <2>3
<1> HIDE DEF n
<1>7. KeysKnown(es, seen)
  BY <1>2, <1>4, <1>5, <1>6 DEF KeysKnown
<1>8. \A i \in 1 .. n : \A h \in 1 .. i - 1 : h \in 1 .. n /\ h < i
  BY <1>1
<1>9. AddedFirst(es)
  <2> SUFFICES ASSUME NEW i \in 1 .. n, NEW h \in 1 .. i - 1 PROVE es[h].key # es[i].key
    BY <1>5 DEF AddedFirst
  <2>1. c[h] < c[i] /\ h \in 1 .. n
    BY <1>1, <1>8
  <2> QED
    BY <1>2, <1>4, <2>1
<1>10. SetsWhatIsThere(EmptyList, es)
  BY <1>5, <1>6 DEF SetsWhatIsThere
<1>11. ASSUME NEW i \in 1 .. n + 1, NEW k \in Keys
       PROVE  InList(EmptyList, es, k, i) <=> \E h \in 1 .. i - 1 : c[h] = k
  <2>1. \A h \in 1 .. i - 1 : h \in 1 .. n
    BY <1>1
  <2>2. \A h \in 1 .. i - 1 : Adds(es[h]) /\ es[h].key = c[h] /\ ~Clears(es[h], k)
    BY <1>4, <1>6, <2>1
  <2>3. ~HasModel(EmptyList, k)
    BY EmptyAgrees
  <2> QED
    BY <2>2, <2>3 DEF InList
<1>12. AddsInPlace(EmptyList, es)
  <2> SUFFICES ASSUME NEW i \in 1 .. n
               PROVE  LET p == es[i].previous
                      IN  /\ p # NoKey => p < es[i].key /\ InList(EmptyList, es, p, i)
                          /\ \A j \in Keys : InList(EmptyList, es, j, i) => Between(p, j, es[i].key)
    BY <1>5 DEF AddsInPlace
  <2> DEFINE p == es[i].previous
  <2>1. /\ es[i].key = c[i] /\ c[i] \in Keys /\ p \in Keys \cup {NoKey}
        /\ p # NoKey => p < c[i] /\ data[p] # Null
        /\ \A j \in Keys : data[j] # Null /\ j # c[i] => Between(p, j, c[i])
    <3>1. es[i].key = c[i] /\ c[i] \in Keys
      BY <1>2, <1>4
    <3>2. p = PreviousChild(data, c[i])
      BY <1>4
    <3> QED
      BY <3>1, <3>2, TheChildBefore
  <2> HIDE DEF p
  <2>2. i \in 1 .. n + 1
    BY <1>1
  <2>3. ASSUME p # NoKey PROVE InList(EmptyList, es, p, i)
    <3>1. p \in Present(data) /\ p \in Keys /\ p < c[i]
      BY <2>1, <2>3 DEF Present
    <3>2. PICK h \in 1 .. n : c[h] = p
      BY <1>1, <3>1
    <3>3. ~(i < h) /\ h # i
      BY <1>1, <1>2, <3>1, <3>2
    <3>4. h \in 1 .. i - 1
      BY <1>1, <3>3
    <3> QED
      BY <1>11, <2>2, <3>1, <3>2, <3>4
  <2>4. ASSUME NEW j \in Keys, InList(EmptyList, es, j, i) PROVE Between(p, j, c[i])
    <3>1. PICK h \in 1 .. i - 1 : c[h] = j
      BY <1>11, <2>2, <2>4
    <3>2. c[h] < c[i] /\ h \in 1 .. n
      BY <1>1, <1>8
    <3>3. data[j] # Null /\ j # c[i]
      BY <1>2, <3>1, <3>2
    <3> QED
      BY <2>1, <3>3
  <2> QED
    BY <2>1, <2>3, <2>4 DEF p
<1>13. EndsAsChildren(EmptyList, es, data)
  <2> SUFFICES ASSUME NEW k \in Keys
               PROVE  InList(EmptyList, es, k, n + 1) <=> data[k] # Null
    BY <1>5 DEF EndsAsChildren
  <2>1. n + 1 \in 1 .. n + 1 /\ (n + 1) - 1 = n
    BY <1>1
  <2>2. InList(EmptyList, es, k, n + 1) <=> \E h \in 1 .. n : c[h] = k
    BY <1>11, <2>1
  <2>3. (\E h \in 1 .. n : c[h] = k) <=> k \in Present(data)
    BY <1>1, <1>2
  <2> QED
    BY <2>2, <2>3 DEF Present
<1>14. LastIsNewest(EmptyList, es, data)
  <2> SUFFICES ASSUME NEW k \in Keys, data[k] # Null
               PROVE  /\ \A i \in 1 .. n : Sets(es[i], k) => es[i].version = data[k]
                      /\ \E i \in 1 .. n : Sets(es[i], k)
    BY <1>5 DEF LastIsNewest
  <2>1. \A i \in 1 .. n : Sets(es[i], k) => es[i].version = data[k]
    BY <1>4, <1>6
  <2>2. \E i \in 1 .. n : c[i] = k
    BY <1>1 DEF Present
  <2> QED
    BY <1>6, <2>1, <2>2
<1> QED
  BY <1>4, <1>5, <1>7, <1>9, <1>10, <1>12, <1>13, <1>14 DEF Heard

-----------------------------------------------------------------------------
(* The messages.                                                           *)

Waiting == Callback \cup {EndOfMessage}
Posted(q, es) == IF es = << >> THEN q ELSE q \o es \o <<EndOfMessage>>

LEMMA Concatenated ==
    ASSUME NEW S, NEW q \in Seq(S), NEW es \in Seq(S)
    PROVE  q \o es \in Seq(S) /\ Joined(q \o es, q, es)
  BY DEF Joined

LEMMA ConcatenatedElements ==
    ASSUME NEW S, NEW q \in Seq(S), NEW es \in Seq(S), NEW i \in 1 .. Len(q \o es)
    PROVE  \/ \E h \in 1 .. Len(q) : (q \o es)[i] = q[h]
           \/ \E r \in 1 .. Len(es) : (q \o es)[i] = es[r]
<1> DEFINE all == q \o es
<1>1. Joined(all, q, es)
  BY Concatenated
<1> HIDE DEF all
<1>2. i \in 1 .. Len(all)
  BY DEF all
<1>3. (\E h \in 1 .. Len(q) : all[i] = q[h]) \/ \E r \in 1 .. Len(es) : all[i] = es[r]
  BY <1>1, <1>2, JoinedElements
<1> QED
  BY <1>3 DEF all

LEMMA SplitFirst ==
    ASSUME NEW S, NEW q \in Seq(S), NEW es \in Seq(S), es # << >>
    PROVE  /\ Joined(q \o <<es[1]>>, q, <<es[1]>>)
           /\ Joined(q \o es, q \o <<es[1]>>, Tail(es))
<1> DEFINE q2 == q \o <<es[1]>>
           N == Len(q)
<1>1. /\ Len(es) \in Nat \ {0} /\ Len(Tail(es)) = Len(es) - 1
      /\ \A i \in 1 .. Len(es) - 1 : Tail(es)[i] = es[i + 1]
  BY TailElements
<1>2. es[1] \in S
  BY <1>1
<1>3. <<es[1]>> \in Seq(S) /\ Len(<<es[1]>>) = 1
  BY <1>2
<1>4. Joined(q2, q, <<es[1]>>)
  BY <1>3, Concatenated
<1>5. /\ N \in Nat /\ Len(q \o es) = N + Len(es)
      /\ \A i \in 1 .. N : (q \o es)[i] = q[i]
      /\ \A r \in 1 .. Len(es) : (q \o es)[N + r] = es[r]
  BY Concatenated DEF Joined
<1>6. Len(q2) = N + 1 /\ q2[N + 1] = es[1] /\ \A i \in 1 .. N : q2[i] = q[i]
  BY <1>2
<1> DEFINE all == q \o es
           rest == Tail(es)
<1> HIDE DEF N, q2, all, rest
<1>7. \A i \in 1 .. Len(q2) : all[i] = q2[i]
  <2> SUFFICES ASSUME NEW i \in 1 .. Len(q2) PROVE all[i] = q2[i]
    OBVIOUS
  <2>1. i \in 1 .. N \/ i = N + 1
    BY <1>5, <1>6
  <2>2. all[N + 1] = es[1]
    BY <1>1, <1>5 DEF all
  <2> QED
    BY <1>5, <1>6, <2>1, <2>2 DEF all
<1>8. \A r \in 1 .. Len(rest) : all[Len(q2) + r] = rest[r]
  <2> SUFFICES ASSUME NEW r \in 1 .. Len(rest) PROVE all[Len(q2) + r] = rest[r]
    OBVIOUS
  <2>1. r + 1 \in 1 .. Len(es) /\ Len(q2) + r = N + (r + 1) /\ r \in 1 .. Len(es) - 1
    BY <1>1, <1>5, <1>6 DEF rest
  <2>2. all[N + (r + 1)] = es[r + 1] /\ rest[r] = es[r + 1]
    BY <1>1, <1>5, <2>1 DEF all, rest
  <2> QED
    BY <2>1, <2>2
<1>9. Len(q2) \in Nat /\ Len(rest) \in Nat /\ Len(all) = Len(q2) + Len(rest)
  BY <1>1, <1>5, <1>6 DEF all, rest
<1> QED
  BY <1>4, <1>7, <1>8, <1>9 DEF Joined, q2, all, rest

LEMMA EndKeeps ==
    ASSUME NEW l, NEW q \in Seq(Waiting), NEW data, NEW seen, Heard(l, q, data, seen)
    PROVE  /\ q \o <<EndOfMessage>> \in Seq(Waiting)
           /\ Heard(l, q \o <<EndOfMessage>>, data, seen)
<1> DEFINE es == <<EndOfMessage>>
<1>1. es \in Seq(Waiting) /\ \A r \in 1 .. Len(es) : es[r] = EndOfMessage
  BY DEF Waiting
<1> HIDE DEF es
<1>2. q \o es \in Seq(Waiting) /\ Joined(q \o es, q, es)
  BY <1>1, Concatenated
<1>3. News(es, data, seen) /\ Tells(es, data, data)
  BY <1>1 DEF News, Tells
<1>4. Heard(l, q \o es, data, seen)
  BY <1>2, <1>3, PostKeeps
<1> QED
  BY <1>2, <1>4 DEF es

(* A message of what becomes of children that were there.                  *)
LEMMA MessageKeeps ==
    ASSUME NEW l, NEW q \in Seq(Waiting), NEW es \in Seq(Callback), NEW data, NEW data2, NEW seen,
           Heard(l, q, data, seen), News(es, data2, seen), Tells(es, data, data2)
    PROVE  Posted(q, es) \in Seq(Waiting) /\ Heard(l, Posted(q, es), data2, seen)
<1>1. es \in Seq(Waiting)
  BY DEF Waiting
<1>2. CASE es = << >>
  <2>1. Joined(q, q, es)
    <3>1. Len(es) = 0 /\ Len(q) \in Nat
      BY <1>2
    <3> QED
      BY <3>1 DEF Joined
  <2>2. Heard(l, q, data2, seen)
    BY <2>1, PostKeeps
  <2> QED
    BY <1>2, <2>2 DEF Posted
<1>3. CASE es # << >>
  <2>1. q \o es \in Seq(Waiting) /\ Joined(q \o es, q, es)
    BY <1>1, Concatenated
  <2>2. Heard(l, q \o es, data2, seen)
    BY <2>1, PostKeeps
  <2>3. Posted(q, es) = (q \o es) \o <<EndOfMessage>>
    BY <1>3 DEF Posted
  <2> DEFINE q1 == q \o es
  <2> HIDE DEF q1
  <2>4. q1 \in Seq(Waiting) /\ Heard(l, q1, data2, seen)
    BY <2>1, <2>2 DEF q1
  <2> QED
    BY <2>3, <2>4, EndKeeps DEF q1
<1> QED
  BY <1>2, <1>3

(* Who hears: the callbacks that wait and those of the message.            *)
LEMMA MessageElements ==
    ASSUME NEW q \in Seq(Waiting), NEW es \in Seq(Callback), NEW i \in 1 .. Len(Posted(q, es))
    PROVE  \/ \E h \in 1 .. Len(q) : Posted(q, es)[i] = q[h]
           \/ \E r \in 1 .. Len(es) : Posted(q, es)[i] = es[r]
           \/ Posted(q, es)[i] = EndOfMessage
<1>1. es \in Seq(Waiting)
  BY DEF Waiting
<1>2. CASE es = << >>
  BY <1>2 DEF Posted
<1>3. CASE es # << >>
  <2> DEFINE q1 == q \o es
             end == <<EndOfMessage>>
  <2>1. q1 \in Seq(Waiting)
    BY <1>1, Concatenated
  <2>2. end \in Seq(Waiting) /\ \A r \in 1 .. Len(end) : end[r] = EndOfMessage
    BY DEF Waiting
  <2> HIDE DEF end, q1
  <2>3. Posted(q, es) = q1 \o end
    BY <1>3 DEF Posted, q1, end
  <2>4. \A m \in 1 .. Len(q1 \o end) :
            (\E h \in 1 .. Len(q1) : (q1 \o end)[m] = q1[h])
            \/ \E r \in 1 .. Len(end) : (q1 \o end)[m] = end[r]
    BY <2>1, <2>2, ConcatenatedElements
  <2>5. \A m \in 1 .. Len(q1) :
            (\E h \in 1 .. Len(q) : q1[m] = q[h]) \/ \E r \in 1 .. Len(es) : q1[m] = es[r]
    <3>1. \A m \in 1 .. Len(q \o es) :
              (\E h \in 1 .. Len(q) : (q \o es)[m] = q[h])
              \/ \E r \in 1 .. Len(es) : (q \o es)[m] = es[r]
      BY <1>1, ConcatenatedElements
    <3> QED
      BY <3>1, Zenon DEF q1
  <2>6. (\E h \in 1 .. Len(q1) : Posted(q, es)[i] = q1[h]) \/ \E r \in 1 .. Len(end) : Posted(q, es)[i] = end[r]
    BY <2>3, <2>4
  <2>7. CASE \E h \in 1 .. Len(q1) : Posted(q, es)[i] = q1[h]
    BY <2>5, <2>7
  <2>8. CASE \E r \in 1 .. Len(end) : Posted(q, es)[i] = end[r]
    BY <2>2, <2>8
  <2> QED
    BY <2>6, <2>7, <2>8
<1> QED
  BY <1>2, <1>3

(* The events of a change.                                                 *)
ListenersType == {<< >>, <<"adapter">>, <<"adapter", "screen">>}
ChangeKind(data2, k) ==
    IF child[k] = Null THEN "added" ELSE IF data2[k] = Null THEN "removed" ELSE "changed"

LEMMA ListenerParts ==
    ASSUME NEW s \in ListenersType
    PROVE  /\ Len(s) \in Nat /\ DOMAIN s = 1 .. Len(s)
           /\ \A i \in 1 .. Len(s) : s[i] \in Listeners /\ (s[i] = "adapter" <=> i = 1)
           /\ s # << >> => 1 \in 1 .. Len(s)
           /\ s = << >> => Len(s) = 0
           /\ s = <<"adapter">> => Len(s) = 1
<1>1. CASE s = << >>
  BY <1>1
<1>2. CASE s = <<"adapter">>
  BY <1>2 DEF Listeners
<1>3. CASE s = <<"adapter", "screen">>
  <2>1. Len(s) = 2 /\ s[1] = "adapter" /\ s[2] = "screen" /\ DOMAIN s = 1 .. 2
    BY <1>3
  <2>2. \A i \in 1 .. 2 : i = 1 \/ i = 2
    OBVIOUS
  <2>3. s # << >> /\ s # <<"adapter">>
    BY <1>3
  <2> QED
    BY <2>1, <2>2, <2>3 DEF Listeners
<1> QED
  BY <1>1, <1>2, <1>3 DEF ListenersType

LEMMA ChildEvents ==
    ASSUME listeners \in ListenersType, NEW data2 \in [Keys -> Values], NEW k \in Keys, NEW es,
           es = [i \in DOMAIN listeners |-> ChildEvent(listeners[i], data2, k)]
    PROVE  /\ es \in Seq(Callback) /\ Len(es) = Len(listeners)
           /\ \A i \in 1 .. Len(es) :
                  /\ es[i] # EndOfMessage /\ es[i].to = listeners[i] /\ es[i].key = k
                  /\ es[i].kind = ChangeKind(data2, k) /\ es[i].version = data2[k]
                  /\ es[i].previous = PreviousChild(data2, k)
<1> DEFINE n == Len(listeners)
<1>1. n \in Nat /\ DOMAIN listeners = 1 .. n /\ \A i \in 1 .. n : listeners[i] \in Listeners
  BY ListenerParts
<1> HIDE DEF n
<1>2. ASSUME NEW i \in 1 .. n
      PROVE  /\ es[i] \in Callback /\ es[i] # EndOfMessage
             /\ es[i].to = listeners[i] /\ es[i].key = k
             /\ es[i].kind = ChangeKind(data2, k) /\ es[i].version = data2[k]
             /\ es[i].previous = PreviousChild(data2, k)
  <2> DEFINE to == listeners[i]
             kind == ChangeKind(data2, k)
  <2>1. es[i] = Event(to, kind, data2, k)
    BY <1>1 DEF ChildEvent, ChangeKind
  <2>2. to \in Listeners \cup {"value"} /\ kind \in {"added", "changed", "removed"}
    BY <1>1 DEF ChangeKind
  <2> HIDE DEF to, kind
  <2>3. Tell(es[i], to, kind, data2, k)
    BY <2>1, <2>2, EventParts
  <2> QED
    BY <2>3 DEF Tell, to, kind
<1>3. es \in [1 .. n -> Callback]
  BY <1>1, <1>2
<1>4. es \in Seq(Callback) /\ Len(es) = n
  BY <1>1, <1>3
<1> QED
  BY <1>2, <1>4 DEF n

EventsSay(es, data2, k) ==
    /\ es \in Seq(Callback)
    /\ \A r \in 1 .. Len(es) :
           /\ es[r] # EndOfMessage /\ es[r].key = k /\ es[r].version = data2[k]
           /\ \/ es[r].to = "value" /\ es[r].kind = "changed"
              \/ es[r].kind = ChangeKind(data2, k)
                 /\ \E i \in 1 .. Len(listeners) : es[r].to = listeners[i]
    /\ listeners # << >> => \E r \in 1 .. Len(es) : es[r].to = "adapter"

LEMMA EventsOfParts ==
    ASSUME listeners \in ListenersType, NEW data2 \in [Keys -> Values], NEW k \in Keys
    PROVE  EventsSay(EventsOf(data2, k), data2, k)
<1> DEFINE v == Event("value", "changed", data2, k)
           es == EventsOf(data2, k)
           A == IF k \in valueListeners THEN <<v>> ELSE << >>
           B == [i \in DOMAIN listeners |-> ChildEvent(listeners[i], data2, k)]
<1>1. /\ v \in Callback /\ v # EndOfMessage /\ v.to = "value" /\ v.kind = "changed"
      /\ v.key = k /\ v.version = data2[k]
  <2>1. "value" \in Listeners \cup {"value"} /\ "changed" \in {"added", "changed", "removed"}
    OBVIOUS
  <2>2. Tell(v, "value", "changed", data2, k)
    BY <2>1, EventParts
  <2> QED
    BY <2>2 DEF Tell
<1> HIDE DEF v
<1>2. A \in Seq(Callback) /\ \A r \in 1 .. Len(A) : A[r] = v
  <2>1. <<v>> \in Seq(Callback) /\ \A r \in 1 .. Len(<<v>>) : <<v>>[r] = v
    BY <1>1
  <2>2. << >> \in Seq(Callback) /\ 1 .. Len(<< >>) = {}
    OBVIOUS
  <2> QED
    BY <2>1, <2>2
<1>3. /\ B \in Seq(Callback) /\ Len(B) = Len(listeners)
      /\ \A i \in 1 .. Len(B) :
             /\ B[i] # EndOfMessage /\ B[i].to = listeners[i] /\ B[i].key = k
             /\ B[i].kind = ChangeKind(data2, k) /\ B[i].version = data2[k]
  BY ChildEvents
<1>4. es = A \o B
  BY DEF EventsOf, v
<1> HIDE DEF A, B, es
<1>5. es \in Seq(Callback) /\ Joined(es, A, B)
  BY <1>2, <1>3, <1>4, Concatenated
<1>6. ASSUME NEW r \in 1 .. Len(es)
      PROVE  /\ es[r] # EndOfMessage /\ es[r].key = k /\ es[r].version = data2[k]
             /\ \/ es[r].to = "value" /\ es[r].kind = "changed"
                \/ es[r].kind = ChangeKind(data2, k)
                   /\ \E i \in 1 .. Len(listeners) : es[r].to = listeners[i]
  <2>1. (r \in 1 .. Len(A) /\ es[r] = A[r]) \/ (\E i \in 1 .. Len(B) : es[r] = B[i])
    BY <1>5, JoinedElements
  <2>2. CASE r \in 1 .. Len(A) /\ es[r] = A[r]
    BY <1>1, <1>2, <2>2
  <2>3. CASE \E i \in 1 .. Len(B) : es[r] = B[i]
    BY <1>3, <2>3
  <2> QED
    BY <2>1, <2>2, <2>3
<1>7. ASSUME listeners # << >> PROVE \E r \in 1 .. Len(es) : es[r].to = "adapter"
  <2>1. 1 \in 1 .. Len(B) /\ B[1].to = "adapter"
    BY <1>3, <1>7, ListenerParts
  <2>2. Len(A) + 1 \in 1 .. Len(es) /\ es[Len(A) + 1] = B[1]
    BY <1>5, <2>1 DEF Joined
  <2> QED
    BY <2>1, <2>2
<1> QED
  BY <1>5, <1>6, <1>7 DEF EventsSay, es

-----------------------------------------------------------------------------
(* The steps. *)

LEMMA AgreeType ==
    ASSUME NEW l, Agree(l) PROVE l \in ListType(Model)
<1> DEFINE rows == l.mModels
           keys == l.mKeys
           map == l.mModelKeys
<1>1. /\ l = [mModels |-> rows, mKeys |-> keys, mModelKeys |-> map]
      /\ rows \in Seq(Row) /\ keys \in Seq(Keys)
  BY AgreeParts
<1>2. map \in UNION {[known -> Row] : known \in SUBSET Keys}
  <2>1. DOMAIN map \in SUBSET Keys /\ map \in [DOMAIN map -> Row]
    BY AgreeParts DEF RowsAgree
  <2> QED
    BY <2>1
<1> HIDE DEF rows, keys, map
<1> QED
  BY <1>1, <1>2 DEF ListType, Row

LEMMA NoBlankList ==
    ASSUME NEW l, Agree(l) PROVE NoBlank(l) <=> NoModel \notin ToSet(l.mModels)
<1>1. l.mModels \in Seq(Row) /\ DOMAIN l.mModels = 1 .. Len(l.mModels)
  BY AgreeParts
<1> QED
  BY <1>1 DEF NoBlank, ToSet

LEMMA InitHolds == Init => ListInv
<1> SUFFICES ASSUME Init PROVE ListInv
  OBVIOUS
<1> USE DEF Init
<1>1. Agree(list)
  BY EmptyAgrees
<1>2. child \in [Keys -> Values] /\ come \subseteq Keys
  BY DEF Values, Versions, Null
<1>3. tasks \in Seq(Registration)
  BY DEF Registration, Listeners
<1>4. looper \in Seq(Waiting)
  OBVIOUS
<1>5. TypeOK
  BY <1>1, <1>2, <1>3, <1>4, AgreeType DEF TypeOK, Waiting
<1>6. CameInv
  BY DEF CameInv, Present
<1>7. TaskInv
  BY DEF TaskInv, AdapterTask, ScreenTask
<1>8. QueueInv
  BY DEF QueueInv
<1>9. AcceptedListsLive
  <2>1. ToSet(list.mModels) = {}
    BY DEF EmptyList, ToSet
  <2> QED
    BY <2>1 DEF AcceptedListsLive
<1> QED
  BY <1>1, <1>5, <1>6, <1>7, <1>8, <1>9 DEF ListInv

(* What becomes of a child that was there, or of one that comes, reaches   *)
(* the looper while no listener or the adapter's at least is registered.   *)
LEMMA PostedKeeps ==
    ASSUME ListInv, NEW k \in Keys, NEW version \in Values, Change(k, version), come' \subseteq Keys,
           Present(child') \subseteq come', come \subseteq come',
           listeners # << >> => looper' \in Seq(Waiting) /\ Heard(list, looper', child', come'),
           NothingRefused' => NothingRefused
    PROVE  ListInv'
<1>1. TypeOK /\ CameInv /\ TaskInv /\ QueueInv /\ Agree(list) /\ AcceptedListsLive
  BY DEF ListInv
<1>2. /\ child' = [child EXCEPT ![k] = version] /\ child' \in [Keys -> Values]
      /\ tasks' = tasks /\ listeners' = listeners /\ valueListeners' = valueListeners
      /\ list' = list /\ pc' = pc
  BY <1>1 DEF Change, listenVars, TypeOK
<1> DEFINE es == EventsOf(child', k)
<1>3. looper' = Posted(looper, es)
  BY DEF Change, Post, Posted
<1> HIDE DEF es
<1>4. listeners \in ListenersType
  BY <1>1 DEF TypeOK, ListenersType
<1>5. CASE listeners = << >>
  <2>1. /\ tasks = <<AdapterTask, ScreenTask>> /\ looper = << >> /\ list = EmptyList
        /\ valueListeners = {}
    BY <1>1, <1>5 DEF TaskInv
  <2>2. es = << >>
    <3> DEFINE B == [i \in DOMAIN listeners |-> ChildEvent(listeners[i], child', k)]
    <3>1. es = << >> \o B
      BY <2>1 DEF es, EventsOf
    <3>2. B \in Seq(Callback) /\ Len(B) = 0
      BY <1>2, <1>4, <1>5, ChildEvents, ListenerParts
    <3> HIDE DEF B
    <3> QED
      BY <3>1, <3>2
  <2>3. looper' = looper /\ looper' \in Seq(Waiting)
    BY <1>3, <2>1, <2>2 DEF Posted
  <2>4. TypeOK'
    BY <1>1, <1>2, <2>3 DEF TypeOK, Waiting
  <2>5. TaskInv' /\ QueueInv'
    BY <1>2, <1>5, <2>1, <2>3 DEF TaskInv, QueueInv
  <2>6. CameInv'
    BY <1>2, <2>1 DEF CameInv
  <2>7. AcceptedListsLive' /\ Agree(list')
    BY <1>1, <1>2 DEF AcceptedListsLive
  <2> QED
    BY <2>4, <2>5, <2>6, <2>7 DEF ListInv
<1>6. CASE listeners # << >>
  <2>1. looper' \in Seq(Waiting) /\ Heard(list, looper', child', come')
    BY <1>6
  <2>2. TypeOK'
    BY <1>1, <1>2, <2>1 DEF TypeOK, Waiting
  <2>3. CameInv'
    BY <1>1, <1>2 DEF CameInv
  <2>4. QueueInv'
    BY <1>2, <2>1 DEF QueueInv
  <2>5. TaskInv'
    <3>1. CASE listeners = <<"adapter">>
      <4>1. /\ tasks = <<ScreenTask>>
            /\ \A i \in 1 .. Len(looper) : looper[i].to # "screen"
        BY <1>1, <3>1 DEF TaskInv
      <4>2. /\ es \in Seq(Callback)
            /\ \A r \in 1 .. Len(es) :
                   es[r].to = "value" \/ \E i \in 1 .. Len(listeners) : es[r].to = listeners[i]
        <5>1. EventsSay(es, child', k)
          BY <1>2, <1>4, EventsOfParts DEF es
        <5> QED
          BY <5>1 DEF EventsSay
      <4>3. \A i \in 1 .. Len(listeners) : listeners[i] = "adapter"
        <5>1. Len(listeners) = 1 /\ listeners[1] = "adapter"
          BY <3>1
        <5> QED
          BY <5>1
      <4>4. looper \in Seq(Waiting)
        BY <1>1 DEF TypeOK, Waiting
      <4>5. \A i \in 1 .. Len(looper') :
                \/ \E h \in 1 .. Len(looper) : looper'[i] = looper[h]
                \/ \E r \in 1 .. Len(es) : looper'[i] = es[r]
                \/ looper'[i] = EndOfMessage
        <5>1. \A i \in 1 .. Len(Posted(looper, es)) :
                  \/ \E h \in 1 .. Len(looper) : Posted(looper, es)[i] = looper[h]
                  \/ \E r \in 1 .. Len(es) : Posted(looper, es)[i] = es[r]
                  \/ Posted(looper, es)[i] = EndOfMessage
          BY <4>2, <4>4, MessageElements
        <5> QED
          BY <1>3, <5>1
      <4>6. \A i \in 1 .. Len(looper') : looper'[i].to # "screen"
        <5> SUFFICES ASSUME NEW i \in 1 .. Len(looper') PROVE looper'[i].to # "screen"
          OBVIOUS
        <5>1. CASE \E h \in 1 .. Len(looper) : looper'[i] = looper[h]
          BY <4>1, <5>1
        <5>2. CASE \E r \in 1 .. Len(es) : looper'[i] = es[r]
          BY <4>2, <4>3, <5>2
        <5>3. CASE looper'[i] = EndOfMessage
          BY <5>3 DEF EndOfMessage
        <5> QED
          BY <4>5, <5>1, <5>2, <5>3
      <4> QED
        BY <1>2, <3>1, <4>1, <4>6 DEF TaskInv
    <3>2. CASE listeners # <<"adapter">>
      <4>1. /\ listeners = <<"adapter", "screen">>
            /\ \A i \in 1 .. Len(tasks) : tasks[i] \in [to : {"value"}, key : come]
        BY <1>1, <1>6, <3>2 DEF TaskInv
      <4>2. \A i \in 1 .. Len(tasks) : tasks[i] \in [to : {"value"}, key : come']
        BY <4>1
      <4> QED
        BY <1>2, <4>1, <4>2 DEF TaskInv
    <3> QED
      BY <3>1, <3>2
  <2>6. AcceptedListsLive' /\ Agree(list')
    BY <1>1, <1>2 DEF AcceptedListsLive
  <2> QED
    BY <2>2, <2>3, <2>4, <2>5, <2>6 DEF ListInv
<1> QED
  BY <1>5, <1>6

(* What the server makes of a write: a child that is there changes.        *)
LEMMA ServerKeeps ==
    ASSUME ListInv, NEW k \in Keys, NEW version \in {2, Null}, child[k] = 1,
           Change(k, version), come' = come
    PROVE  ListInv'
<1>1. TypeOK /\ CameInv /\ TaskInv /\ QueueInv /\ Agree(list) /\ AcceptedListsLive
  BY DEF ListInv
<1>2. version \in Values /\ child[k] # Null /\ k \in come
  BY <1>1 DEF Values, Versions, Null, CameInv, Present
<1>3. child' = [child EXCEPT ![k] = version] /\ child' \in [Keys -> Values]
      /\ child \in [Keys -> Values]
  BY <1>1, <1>2 DEF Change, TypeOK
<1>4. Present(child') \subseteq Present(child)
  BY <1>2, <1>3 DEF Present
<1>5. NothingRefused' => NothingRefused
  BY <1>1, <1>4 DEF NothingRefused, CameInv
<1>6. ASSUME listeners # << >>
      PROVE  looper' \in Seq(Waiting) /\ Heard(list, looper', child', come')
  <2> DEFINE data2 == child'
             es == EventsOf(data2, k)
  <2>1. looper' = Posted(looper, es)
    BY DEF Change, Post, Posted
  <2>2. listeners \in ListenersType /\ looper \in Seq(Waiting) /\ data2 \in [Keys -> Values]
    BY <1>1, <1>3 DEF TypeOK, ListenersType, Waiting
  <2>3. /\ data2[k] = version /\ \A j \in Keys \ {k} : data2[j] = child[j]
    BY <1>3
  <2> HIDE DEF data2, es
  <2>4. /\ es \in Seq(Callback)
        /\ \A r \in 1 .. Len(es) :
               /\ es[r] # EndOfMessage /\ es[r].key = k /\ es[r].version = data2[k]
               /\ \/ es[r].to = "value" /\ es[r].kind = "changed"
                  \/ es[r].kind = ChangeKind(data2, k)
                     /\ \E i \in 1 .. Len(listeners) : es[r].to = listeners[i]
        /\ \E r \in 1 .. Len(es) : es[r].to = "adapter"
    <3>1. EventsSay(es, data2, k)
      BY <2>2, EventsOfParts DEF es
    <3> QED
      BY <1>6, <3>1 DEF EventsSay
  <2>5. ChangeKind(data2, k) = IF data2[k] = Null THEN "removed" ELSE "changed"
    BY <1>2 DEF ChangeKind
  <2>6. News(es, data2, come)
    <3> SUFFICES ASSUME NEW r \in 1 .. Len(es)
                 PROVE  /\ WellFormed(es[r]) /\ ~Adds(es[r])
                        /\ es[r].key \in come /\ es[r].version = data2[es[r].key]
      BY DEF News
    <3>1. es[r] \in Callback
      BY <2>4, ElementType
    <3>2. \A i \in 1 .. Len(listeners) : listeners[i] \in Listeners
      BY <2>2, ListenerParts
    <3>3. \/ es[r].to = "value" /\ es[r].kind = "changed"
          \/ es[r].kind = ChangeKind(data2, k) /\ es[r].to \in Listeners
      BY <2>4, <3>2
    <3>4. WellFormed(es[r]) /\ ~Adds(es[r])
      <4>1. CASE es[r].to = "value" /\ es[r].kind = "changed"
        BY <3>1, <4>1 DEF WellFormed, Adds, Listeners
      <4>2. CASE es[r].kind = ChangeKind(data2, k) /\ es[r].to \in Listeners
        <5>1. es[r].to # "value" /\ es[r].kind # "added"
          BY <2>5, <4>2 DEF Listeners
        <5>2. es[r].kind = "removed" <=> es[r].version = Null
          <6>1. es[r].version = data2[k]
            BY <2>4
          <6> QED
            BY <2>5, <4>2, <6>1
        <5> QED
          BY <3>1, <5>1, <5>2 DEF WellFormed, Adds
      <4> QED
        BY <3>3, <4>1, <4>2
    <3>5. es[r].key = k /\ es[r].version = data2[k]
      BY <2>4
    <3> QED
      BY <1>2, <3>4, <3>5
  <2>7. Tells(es, child, data2)
    BY <1>2, <2>3, <2>4 DEF Tells
  <2>8. Heard(list, looper, child, come)
    BY <1>1, <1>6 DEF QueueInv
  <2>9. looper' \in Seq(Waiting) /\ Heard(list, looper', data2, come)
    BY <2>1, <2>2, <2>4, <2>6, <2>7, <2>8, MessageKeeps
  <2> QED
    BY <2>9 DEF data2
<1>7. come' \subseteq Keys /\ Present(child') \subseteq come' /\ come \subseteq come'
  BY <1>1, <1>4 DEF TypeOK, CameInv
<1> QED
  BY <1>2, <1>5, <1>6, <1>7, PostedKeeps

LEMMA WriteKeeps ==
    ASSUME ListInv, NEW k \in Keys, Write(k) PROVE ListInv'
<1>1. TypeOK /\ CameInv /\ TaskInv /\ QueueInv /\ Agree(list) /\ AcceptedListsLive
  BY DEF ListInv
<1>2. k \notin come /\ come' = come \cup {k} /\ Change(k, 1) /\ 1 \in Values
  BY DEF Write, Values, Versions
<1>3. /\ child' = [child EXCEPT ![k] = 1] /\ child' \in [Keys -> Values]
      /\ child \in [Keys -> Values]
  BY <1>1, <1>2 DEF Change, TypeOK
<1>4. child[k] = Null /\ k \notin valueListeners
  BY <1>1, <1>2 DEF CameInv, Present
<1>5. Present(child') = Present(child) \cup {k} /\ k \notin Present(child)
  BY <1>3, <1>4 DEF Present, Null
<1>6. come' \subseteq Keys /\ Present(child') \subseteq come' /\ come \subseteq come'
  BY <1>1, <1>2, <1>5 DEF TypeOK, CameInv
<1>7. NothingRefused' => NothingRefused
  BY <1>2, <1>5 DEF NothingRefused
<1>8. ASSUME listeners # << >>
      PROVE  looper' \in Seq(Waiting) /\ Heard(list, looper', child', come')
  <2> DEFINE data2 == child'
             seen2 == come'
             es == [i \in DOMAIN listeners |-> ChildEvent(listeners[i], data2, k)]
  <2>1. listeners \in ListenersType /\ looper \in Seq(Waiting) /\ data2 \in [Keys -> Values]
    BY <1>1, <1>3 DEF TypeOK, ListenersType, Waiting
  <2>2. /\ es \in Seq(Callback) /\ Len(es) = Len(listeners)
        /\ \A i \in 1 .. Len(es) :
               /\ es[i] # EndOfMessage /\ es[i].to = listeners[i] /\ es[i].key = k
               /\ es[i].kind = ChangeKind(data2, k) /\ es[i].version = data2[k]
               /\ es[i].previous = PreviousChild(data2, k)
    BY <2>1, ChildEvents
  <2>3. looper' = Posted(looper, es)
    <3>1. EventsOf(data2, k) = << >> \o es
      BY <1>4 DEF EventsOf
    <3> HIDE DEF es
    <3>2. EventsOf(data2, k) = es
      BY <2>2, <3>1
    <3> QED
      BY <1>2, <3>2 DEF Change, Post, Posted
  <2>4. data2[k] = 1 /\ \A j \in Keys \ {k} : data2[j] = child[j]
    BY <1>3
  <2>5. seen2 = come \cup {k}
    BY <1>2
  <2> HIDE DEF data2, es, seen2
  <2>6. ChangeKind(data2, k) = "added" /\ 1 # Null
    BY <1>4 DEF ChangeKind, Null
  <2>7. Len(es) \in Nat /\ 1 \in 1 .. Len(es) /\ es # << >>
    <3>1. Len(listeners) \in Nat /\ 1 \in 1 .. Len(listeners)
      BY <1>8, <2>1, ListenerParts
    <3>2. Len(es) # 0
      BY <2>2, <3>1
    <3> QED
      BY <2>2, <3>1, <3>2
  <2> DEFINE a == es[1]
             p == PreviousChild(data2, k)
  <2>8. \A i \in 1 .. Len(es) : /\ WellFormed(es[i]) /\ es[i].key = k /\ es[i].version = data2[k]
                                /\ Adds(es[i]) <=> i = 1
    <3> SUFFICES ASSUME NEW i \in 1 .. Len(es)
                 PROVE  /\ WellFormed(es[i]) /\ es[i].key = k /\ es[i].version = data2[k]
                        /\ Adds(es[i]) <=> i = 1
      OBVIOUS
    <3>1. /\ es[i].to = listeners[i] /\ es[i].key = k /\ es[i].kind = "added"
          /\ es[i].version = data2[k] /\ data2[k] # Null
      BY <2>2, <2>4, <2>6
    <3>2. listeners[i] \in Listeners /\ (listeners[i] = "adapter" <=> i = 1)
      BY <2>1, <2>2, ListenerParts
    <3>3. es[i] \in Callback
      BY <2>2, ElementType
    <3>4. es[i].to # "value"
      BY <3>1, <3>2 DEF Listeners
    <3>5. WellFormed(es[i])
      BY <3>1, <3>3, <3>4 DEF WellFormed
    <3> QED
      BY <3>1, <3>2, <3>5 DEF Adds
  <2>9. WellFormed(a) /\ Adds(a) /\ a.key = k /\ a.version = data2[k] /\ a.previous = p
    BY <2>2, <2>7, <2>8
  <2>10. /\ p # NoKey => p < k /\ child[p] # Null
         /\ \A j \in Keys : child[j] # Null => Between(p, j, k)
    <3>1. /\ p \in Keys \cup {NoKey}
          /\ p # NoKey => p < k /\ data2[p] # Null
          /\ \A j \in Keys : data2[j] # Null /\ j # k => Between(p, j, k)
      BY TheChildBefore
    <3> HIDE DEF p
    <3>2. ASSUME p # NoKey PROVE p < k /\ child[p] # Null
      <4>1. p \in Keys /\ p < k /\ k \in Nat
        BY <3>1, <3>2, LiveAssumption
      <4>2. p # k
        BY <4>1
      <4> QED
        BY <2>4, <3>1, <3>2, <4>1, <4>2
    <3>3. ASSUME NEW j \in Keys, child[j] # Null PROVE Between(p, j, k)
      BY <1>4, <2>4, <3>1, <3>3
    <3> QED
      BY <3>2, <3>3
  <2>11. es \in Seq(Waiting)
    BY <2>2 DEF Waiting
  <2>12. /\ Joined(looper \o <<a>>, looper, <<a>>)
         /\ Joined(looper \o es, looper \o <<a>>, Tail(es))
    BY <2>1, <2>7, <2>11, SplitFirst
  <2>13. Heard(list, looper, child, come)
    BY <1>1, <1>8 DEF QueueInv
  <2> DEFINE q1 == looper \o <<a>>
             q2 == looper \o es
  <2> HIDE DEF a, p, q1
  <2>14. Heard(list, q1, data2, seen2)
    <3>1. Joined(q1, looper, <<a>>)
      BY <2>12 DEF q1
    <3>2. Heard(list, q1, data2, come \cup {k})
      BY <1>2, <1>4, <2>4, <2>9, <2>10, <2>13, <3>1, AddKeeps
    <3> QED
      BY <2>5, <3>2
  <2>15. News(Tail(es), data2, seen2) /\ Tells(Tail(es), data2, data2)
    <3>1. /\ Len(Tail(es)) = Len(es) - 1
          /\ \A i \in 1 .. Len(es) - 1 : Tail(es)[i] = es[i + 1]
      BY <2>7, <2>11, TailElements
    <3>2. ASSUME NEW r \in 1 .. Len(Tail(es))
          PROVE  /\ WellFormed(Tail(es)[r]) /\ ~Adds(Tail(es)[r])
                 /\ Tail(es)[r].key \in seen2 /\ Tail(es)[r].version = data2[Tail(es)[r].key]
      <4>1. r + 1 \in 1 .. Len(es) /\ r + 1 # 1 /\ Tail(es)[r] = es[r + 1]
        BY <2>7, <3>1
      <4>2. k \in seen2
        BY <2>5
      <4> QED
        BY <2>8, <4>1, <4>2
    <3> QED
      BY <3>2 DEF News, Tells
  <2>16. q2 \in Seq(Waiting) /\ Heard(list, q2, data2, seen2)
    <3>1. Joined(q2, q1, Tail(es))
      BY <2>12 DEF q1
    <3>2. q2 \in Seq(Waiting)
      BY <2>1, <2>11, Concatenated
    <3> HIDE DEF q2
    <3> QED
      BY <2>14, <2>15, <3>1, <3>2, PostKeeps
  <2>17. looper' = q2 \o <<EndOfMessage>>
    BY <2>3, <2>7 DEF Posted
  <2> HIDE DEF q2
  <2> QED
    BY <2>16, <2>17, EndKeeps DEF data2, seen2
<1> QED
  BY <1>2, <1>6, <1>7, <1>8, PostedKeeps

(* Firebase's thread registers a listener.                                 *)
LEMMA RegisteredKeeps ==
    ASSUME ListInv, Register, tasks' \in Seq(Registration), valueListeners' \subseteq come,
           listeners' \in ListenersType, listeners' # << >>,
           looper' \in Seq(Waiting), Heard(list, looper', child, come), TaskInv'
    PROVE  ListInv'
<1>1. TypeOK /\ CameInv /\ Agree(list) /\ AcceptedListsLive
  BY DEF ListInv
<1>2. child' = child /\ come' = come /\ list' = list /\ pc' = pc
  BY DEF Register, dataVars
<1>3. TypeOK'
  BY <1>1, <1>2 DEF TypeOK, ListenersType, Waiting
<1>4. CameInv'
  BY <1>1, <1>2 DEF CameInv
<1>5. QueueInv'
  BY <1>2 DEF QueueInv
<1>6. AcceptedListsLive' /\ Agree(list')
  BY <1>1, <1>2 DEF AcceptedListsLive, NothingRefused
<1> QED
  BY <1>3, <1>4, <1>5, <1>6 DEF ListInv

LEMMA RegisterAdapterKeeps ==
    ASSUME ListInv, Register, listeners = << >> PROVE ListInv'
<1>1. TypeOK /\ CameInv /\ TaskInv
  BY DEF ListInv
<1>2. tasks = <<AdapterTask, ScreenTask>> /\ looper = << >> /\ list = EmptyList
  BY <1>1 DEF TaskInv
<1>3. Head(tasks) = AdapterTask /\ tasks' = <<ScreenTask>>
  BY <1>2 DEF Register
<1>4. Head(tasks).to = "adapter"
  BY <1>3 DEF AdapterTask
<1>5. RegisterChildListener("adapter")
  BY <1>4 DEF Register
<1>6. listeners' = <<"adapter">> /\ valueListeners' = valueListeners
  BY <1>5 DEF RegisterChildListener
<1> DEFINE es == [i \in DOMAIN Children(child) |->
                     Event("adapter", "added", child, Children(child)[i])]
<1>7. /\ es \in Seq(Callback) /\ Heard(EmptyList, es, child, come)
      /\ \A i \in 1 .. Len(es) : es[i].to = "adapter"
  <2>1. child \in [Keys -> Values] /\ Present(child) \subseteq come
    BY <1>1 DEF TypeOK, CameInv
  <2> QED
    BY <2>1, AllAdded
<1>8. looper' = Posted(<< >>, es)
  BY <1>2, <1>5 DEF RegisterChildListener, Post, Posted
<1> HIDE DEF es
<1>9. es \in Seq(Waiting) /\ << >> \in Seq(Waiting)
  BY <1>7 DEF Waiting
<1>10. looper' \in Seq(Waiting) /\ Heard(list, looper', child, come)
  <2>1. CASE es = << >>
    BY <1>2, <1>7, <1>8, <1>9, <2>1 DEF Posted
  <2>2. CASE es # << >>
    <3>1. << >> \o es = es
      BY <1>9
    <3>2. looper' = es \o <<EndOfMessage>>
      BY <1>8, <2>2, <3>1 DEF Posted
    <3> QED
      BY <1>2, <1>7, <1>9, <3>2, EndKeeps
  <2> QED
    BY <2>1, <2>2
<1>11. \A i \in 1 .. Len(looper') : looper'[i].to # "screen"
  <2>1. \A i \in 1 .. Len(Posted(<< >>, es)) :
            \/ \E h \in 1 .. Len(<< >>) : Posted(<< >>, es)[i] = << >>[h]
            \/ \E r \in 1 .. Len(es) : Posted(<< >>, es)[i] = es[r]
            \/ Posted(<< >>, es)[i] = EndOfMessage
    BY <1>7, <1>9, MessageElements
  <2>2. 1 .. Len(<< >>) = {}
    OBVIOUS
  <2> QED
    BY <1>7, <1>8, <2>1, <2>2 DEF EndOfMessage
<1>12. TaskInv'
  BY <1>3, <1>6, <1>11 DEF TaskInv, ScreenTask
<1>13. tasks' \in Seq(Registration)
  BY <1>3 DEF ScreenTask, Registration, Listeners
<1>14. /\ valueListeners' \subseteq come /\ listeners' \in ListenersType /\ listeners' # << >>
  BY <1>1, <1>6 DEF CameInv, ListenersType
<1> QED
  BY <1>10, <1>12, <1>13, <1>14, RegisteredKeeps

LEMMA RegisterScreenKeeps ==
    ASSUME ListInv, Register, listeners = <<"adapter">> PROVE ListInv'
<1>1. TypeOK /\ CameInv /\ TaskInv /\ QueueInv
  BY DEF ListInv
<1>2. tasks = <<ScreenTask>>
  BY <1>1 DEF TaskInv
<1>3. Head(tasks) = ScreenTask /\ tasks' = << >>
  BY <1>2 DEF Register
<1>4. Head(tasks).to = "screen"
  BY <1>3 DEF ScreenTask
<1>5. RegisterChildListener("screen")
  BY <1>4 DEF Register
<1>6. listeners' = <<"adapter", "screen">> /\ valueListeners' = valueListeners
  <2>1. Append(<<"adapter">>, "screen") = <<"adapter", "screen">>
    <3> DEFINE s == Append(<<"adapter">>, "screen")
               t == <<"adapter", "screen">>
    <3>1. s \in Seq(Listeners) /\ Len(s) = 2 /\ s[1] = "adapter" /\ s[2] = "screen"
      BY DEF Listeners
    <3>2. t \in Seq(Listeners) /\ Len(t) = 2 /\ t[1] = "adapter" /\ t[2] = "screen"
      BY DEF Listeners
    <3> HIDE DEF s, t
    <3>3. s = t
      BY <3>1, <3>2, SeqEqual
    <3> QED
      BY <3>3 DEF s, t
  <2> QED
    BY <1>5, <2>1 DEF RegisterChildListener
<1> DEFINE c == Children(child)
           es == [i \in DOMAIN c |-> Event("screen", "added", child, c[i])]
<1>7. looper' = Posted(looper, es)
  BY <1>5 DEF RegisterChildListener, Post, Posted
<1>8. child \in [Keys -> Values] /\ Present(child) \subseteq come /\ looper \in Seq(Waiting)
  BY <1>1 DEF TypeOK, CameInv, Waiting
<1>9. c \in Seq(Present(child)) /\ Len(c) \in Nat /\ DOMAIN c = 1 .. Len(c)
  BY ChildrenInOrder
<1> HIDE DEF c
<1>10. ASSUME NEW i \in 1 .. Len(c)
       PROVE  /\ es[i] \in Callback /\ WellFormed(es[i]) /\ ~Adds(es[i])
              /\ es[i].key \in come /\ es[i].version = child[es[i].key]
  <2>1. c[i] \in Present(child)
    BY <1>9, ElementType
  <2>2. c[i] \in Keys /\ child[c[i]] # Null /\ c[i] \in come
    BY <1>8, <2>1 DEF Present
  <2>3. "screen" \in Listeners \cup {"value"} /\ "added" \in {"added", "changed", "removed"}
    BY DEF Listeners
  <2>4. Tell(es[i], "screen", "added", child, c[i])
    BY <1>8, <1>9, <2>2, <2>3, EventParts
  <2>5. /\ es[i] \in Callback /\ es[i].to = "screen" /\ es[i].kind = "added" /\ es[i].key = c[i]
        /\ es[i].version = child[c[i]] /\ es[i].version # Null
    BY <2>2, <2>4 DEF Tell
  <2> HIDE DEF es
  <2> QED
    BY <2>2, <2>5 DEF WellFormed, Adds
<1>11. es \in Seq(Callback) /\ Len(es) = Len(c)
  <2>1. es \in [1 .. Len(c) -> Callback]
    BY <1>9, <1>10
  <2> QED
    BY <1>9, <2>1
<1>12. News(es, child, come) /\ Tells(es, child, child)
  BY <1>10, <1>11 DEF News, Tells
<1>13. Heard(list, looper, child, come)
  BY <1>1 DEF QueueInv
<1> HIDE DEF es
<1>14. looper' \in Seq(Waiting) /\ Heard(list, looper', child, come)
  BY <1>7, <1>8, <1>11, <1>12, <1>13, MessageKeeps
<1>15. TaskInv' /\ tasks' \in Seq(Registration)
  BY <1>3, <1>6 DEF TaskInv
<1>16. /\ valueListeners' \subseteq come /\ listeners' \in ListenersType /\ listeners' # << >>
  BY <1>1, <1>6 DEF CameInv, ListenersType
<1> QED
  BY <1>14, <1>15, <1>16, RegisteredKeeps

LEMMA RegisterValueKeeps ==
    ASSUME ListInv, Register, listeners = <<"adapter", "screen">> PROVE ListInv'
<1>1. TypeOK /\ CameInv /\ TaskInv /\ QueueInv
  BY DEF ListInv
<1>2. \A i \in 1 .. Len(tasks) : tasks[i] \in [to : {"value"}, key : come]
  BY <1>1 DEF TaskInv
<1>3. tasks \in Seq(Registration) /\ tasks # << >> /\ tasks' = Tail(tasks)
  BY <1>1 DEF TypeOK, Register
<1>4. /\ Len(tasks) \in Nat \ {0} /\ Head(tasks) = tasks[1]
      /\ Tail(tasks) \in Seq(Registration) /\ Len(Tail(tasks)) = Len(tasks) - 1
      /\ \A i \in 1 .. Len(tasks) - 1 : Tail(tasks)[i] = tasks[i + 1]
  BY <1>3, TailElements
<1> DEFINE k == Head(tasks).key
           es == <<Event("value", "changed", child, k)>>
<1>5. Head(tasks).to = "value" /\ k \in come
  <2>1. 1 \in 1 .. Len(tasks)
    BY <1>4
  <2>2. tasks[1] \in [to : {"value"}, key : come]
    BY <1>2, <2>1
  <2> QED
    BY <1>4, <2>2
<1>6. RegisterValueListener(k)
  BY <1>5 DEF Register
<1> HIDE DEF k
<1>7. valueListeners' = valueListeners \cup {k} /\ listeners' = listeners
  BY <1>6 DEF RegisterValueListener
<1>8. child \in [Keys -> Values] /\ k \in Keys /\ looper \in Seq(Waiting)
  BY <1>1, <1>5 DEF TypeOK, Waiting
<1>9. looper' = Posted(looper, es)
  BY <1>6 DEF RegisterValueListener, Post, Posted
<1> DEFINE v == Event("value", "changed", child, k)
<1>10. Tell(v, "value", "changed", child, k)
  <2>1. "value" \in Listeners \cup {"value"} /\ "changed" \in {"added", "changed", "removed"}
    OBVIOUS
  <2> QED
    BY <1>8, <2>1, EventParts
<1>11. es = <<v>>
  OBVIOUS
<1> HIDE DEF v, es
<1>12. v \in Callback /\ WellFormed(v) /\ ~Adds(v) /\ v.key = k /\ v.version = child[k]
  BY <1>10 DEF Tell, WellFormed, Adds, Listeners
<1>13. es \in Seq(Callback) /\ \A r \in 1 .. Len(es) : es[r] = v
  BY <1>11, <1>12
<1>14. News(es, child, come) /\ Tells(es, child, child)
  BY <1>5, <1>12, <1>13 DEF News, Tells
<1>15. Heard(list, looper, child, come)
  BY <1>1 DEF QueueInv
<1>16. looper' \in Seq(Waiting) /\ Heard(list, looper', child, come)
  BY <1>8, <1>9, <1>13, <1>14, <1>15, MessageKeeps
<1>17. \A i \in 1 .. Len(tasks') : tasks'[i] \in [to : {"value"}, key : come]
  <2> SUFFICES ASSUME NEW i \in 1 .. Len(tasks') PROVE tasks'[i] \in [to : {"value"}, key : come]
    OBVIOUS
  <2>1. i \in 1 .. Len(tasks) - 1 /\ i + 1 \in 1 .. Len(tasks)
    BY <1>3, <1>4
  <2> QED
    BY <1>2, <1>3, <1>4, <2>1
<1>18. come' = come
  BY DEF Register, dataVars
<1>19. TaskInv'
  BY <1>7, <1>17, <1>18 DEF TaskInv
<1>20. /\ valueListeners' \subseteq come /\ listeners' \in ListenersType /\ listeners' # << >>
       /\ tasks' \in Seq(Registration)
  BY <1>1, <1>3, <1>4, <1>5, <1>7 DEF CameInv, ListenersType
<1> QED
  BY <1>16, <1>19, <1>20, RegisteredKeeps

(* What the callback at the head of the looper finds.                      *)
LEMMA HeadCallback ==
    ASSUME ListInv, looper # << >>, NEW e, e = Head(looper)
    PROVE  /\ listeners # << >> /\ Heard(list, looper, child, come) /\ Agree(list)
           /\ Behind(Tail(looper), looper) /\ Tail(looper) \in Seq(Waiting)
           /\ e = looper[1] /\ 1 \in 1 .. Len(looper)
           /\ e # EndOfMessage => WellFormed(e) /\ e.key \in come /\ e.key \in Keys
           /\ Adds(e) => /\ e.previous # NoKey => e.previous < e.key /\ HasModel(list, e.previous)
                         /\ \A j \in Keys : HasModel(list, j) => Between(e.previous, j, e.key)
           /\ \A k \in Keys : Sets(e, k) /\ ~Adds(e) => HasModel(list, k)
<1>1. TypeOK /\ TaskInv /\ QueueInv /\ Agree(list)
  BY DEF ListInv
<1>2. looper \in Seq(Waiting)
  BY <1>1 DEF TypeOK, Waiting
<1>3. /\ Len(looper) \in Nat \ {0} /\ e = looper[1]
      /\ Tail(looper) \in Seq(Waiting) /\ Len(Tail(looper)) = Len(looper) - 1
      /\ \A i \in 1 .. Len(looper) - 1 : Tail(looper)[i] = looper[i + 1]
  BY <1>2, TailElements
<1>4. 1 \in 1 .. Len(looper) /\ Behind(Tail(looper), looper)
  BY <1>3 DEF Behind
<1>5. listeners # << >>
  BY <1>1 DEF TaskInv
<1>6. Heard(list, looper, child, come)
  BY <1>1, <1>5 DEF QueueInv
<1>7. \A k : InList(list, looper, k, 1) <=> HasModel(list, k)
  BY InListNow
<1>8. e # EndOfMessage => WellFormed(e) /\ e.key \in come /\ e.key \in Keys
  BY <1>3, <1>4, <1>6 DEF Heard, KeysKnown, WellFormed, Callback
<1>9. Adds(e) => /\ e.previous # NoKey => e.previous < e.key /\ HasModel(list, e.previous)
                 /\ \A j \in Keys : HasModel(list, j) => Between(e.previous, j, e.key)
  BY <1>3, <1>4, <1>6, <1>7 DEF Heard, AddsInPlace
<1>10. \A k \in Keys : Sets(e, k) /\ ~Adds(e) => HasModel(list, k)
  BY <1>3, <1>4, <1>6, <1>7 DEF Heard, SetsWhatIsThere
<1> QED
  BY <1>1, <1>3, <1>4, <1>5, <1>6, <1>8, <1>9, <1>10

(* What each callback leaves.                                              *)
Left(e) ==
    /\ Agree(list') /\ RunOn(list, e, list') /\ pc' = pc
    /\ NoBlank(list) /\ (\A k \in Keys : ~Clears(e, k)) => NoBlank(list')
    /\ \/ tasks' = tasks
       \/ e.to = "screen" /\ e # EndOfMessage /\ tasks' = Append(tasks, [to |-> "value", key |-> e.key])

LEMMA CallbackLeaves ==
    ASSUME ListInv, looper # << >>, NEW e, e = Head(looper),
           \/ AdapterOnChildAdded(e) \/ AdapterOnChildChanged(e) \/ OnChildRemoved(e)
           \/ OnChildAdded(e) \/ OnDataChange(e) \/ NothingToDo(e)
    PROVE  Left(e)
<1>1. /\ Agree(list)
      /\ e # EndOfMessage => WellFormed(e) /\ e.key \in come /\ e.key \in Keys
      /\ Adds(e) => /\ e.previous # NoKey => e.previous < e.key /\ HasModel(list, e.previous)
                    /\ \A j \in Keys : HasModel(list, j) => Between(e.previous, j, e.key)
      /\ \A k \in Keys : Sets(e, k) /\ ~Adds(e) => HasModel(list, k)
  BY HeadCallback
<1>2. e.to # "looper" => e # EndOfMessage
  BY DEF EndOfMessage
<1>3. CASE AdapterOnChildAdded(e)
  <2>1. /\ e.to = "adapter" /\ e.kind = "added" /\ Adds(e) /\ tasks' = tasks /\ pc' = pc
        /\ list' = Insert(list, e.key, NewModel(list, e.key, e.version), e.previous)
    BY <1>3 DEF AdapterOnChildAdded, Adds
  <2>2. WellFormed(e)
    BY <1>1, <1>2, <2>1
  <2>3. Agree(list') /\ RunOn(list, e, list') /\ (NoBlank(list) => NoBlank(list'))
    BY <1>1, <2>1, <2>2, AddedRuns
  <2> QED
    BY <2>1, <2>3 DEF Left
<1>4. CASE AdapterOnChildChanged(e)
  <2>1. e.to = "adapter" /\ e.kind = "changed" /\ tasks' = tasks /\ ~Adds(e)
    BY <1>4 DEF AdapterOnChildChanged, Adds
  <2>2. WellFormed(e) /\ e.key \in Keys
    BY <1>1, <1>2, <2>1
  <2>3. HasModel(list, e.key)
    <3>1. e.version # Null
      BY <2>1, <2>2 DEF WellFormed, Listeners
    <3>2. Sets(e, e.key)
      BY <2>1, <3>1 DEF Sets
    <3> QED
      BY <1>1, <2>1, <2>2, <3>2
  <2> DEFINE l2 == Set(list, e.key, NewModel(list, e.key, e.version))
  <2>4. Settable(list, e.key) /\ Agree(l2) /\ RunOn(list, e, l2) /\ (NoBlank(list) => NoBlank(l2))
    BY <1>1, <2>1, <2>2, <2>3, ChangedRuns
  <2>5. list' = l2 /\ pc' = pc
    BY <1>4, <2>4 DEF AdapterOnChildChanged
  <2> HIDE DEF l2
  <2> QED
    BY <2>1, <2>4, <2>5 DEF Left
<1>5. CASE OnChildRemoved(e)
  <2>1. /\ e.to \in Listeners /\ e.kind = "removed" /\ tasks' = tasks /\ pc' = pc
        /\ list' = RemoveKey(list, e.key)
    BY <1>5 DEF OnChildRemoved
  <2>2. WellFormed(e) /\ e.key \in Keys /\ e # EndOfMessage
    BY <1>1, <1>2, <2>1 DEF Listeners
  <2>3. Agree(list') /\ RunOn(list, e, list') /\ e.version = Null
    BY <1>1, <2>1, <2>2, RemovedRuns
  <2>4. Clears(e, e.key)
    BY <2>2, <2>3 DEF Clears
  <2> QED
    BY <2>1, <2>2, <2>3, <2>4 DEF Left
<1>6. CASE OnChildAdded(e)
  <2>1. /\ e.to = "screen" /\ e.kind = "added" /\ list' = list /\ pc' = pc
        /\ tasks' = Append(tasks, [to |-> "value", key |-> e.key])
    BY <1>6 DEF OnChildAdded
  <2>2. WellFormed(e) /\ e # EndOfMessage
    BY <1>1, <1>2, <2>1
  <2>3. RunOn(list, e, list)
    BY <2>1, <2>2, OthersRun
  <2> QED
    BY <1>1, <2>1, <2>2, <2>3 DEF Left
<1>7. CASE OnDataChange(e)
  <2>1. /\ e.to = "value" /\ tasks' = tasks /\ pc' = pc /\ ~Adds(e)
        /\ list' = AddOrUpdate(list, e.key, NewModel(list, e.key, e.version))
    BY <1>7 DEF OnDataChange, Adds
  <2>2. WellFormed(e) /\ e.key \in Keys /\ e # EndOfMessage
    BY <1>1, <1>2, <2>1
  <2>3. e.version # Null => HasModel(list, e.key)
    BY <1>1, <2>1, <2>2 DEF Sets
  <2>4. Agree(list') /\ RunOn(list, e, list') /\ (NoBlank(list) /\ e.version # Null => NoBlank(list'))
    BY <1>1, <2>1, <2>2, <2>3, ValueRuns
  <2>5. (\A k \in Keys : ~Clears(e, k)) => e.version # Null
    BY <2>2 DEF Clears
  <2> QED
    BY <2>1, <2>4, <2>5 DEF Left
<1>8. CASE NothingToDo(e)
  <2>1. /\ list' = list /\ tasks' = tasks /\ pc' = pc
        /\ e = EndOfMessage \/ (e.to = "screen" /\ e.kind = "changed")
    BY <1>8 DEF NothingToDo
  <2>2. e = EndOfMessage \/ (WellFormed(e) /\ e.to = "screen" /\ e.kind # "removed")
    BY <1>1, <2>1
  <2>3. RunOn(list, e, list)
    BY <2>2, OthersRun
  <2> QED
    BY <1>1, <2>1, <2>3 DEF Left
<1> QED
  BY <1>3, <1>4, <1>5, <1>6, <1>7, <1>8

LEMMA DispatchKeeps ==
    ASSUME ListInv, Dispatch PROVE ListInv'
<1> DEFINE e == Head(looper)
           q == looper
           q2 == Tail(looper)
<1>1. TypeOK /\ CameInv /\ TaskInv /\ QueueInv /\ Agree(list) /\ AcceptedListsLive
  BY DEF ListInv
<1>2. /\ looper # << >> /\ looper' = q2 /\ child' = child /\ come' = come
      /\ listeners' = listeners /\ valueListeners' = valueListeners
      /\ \/ AdapterOnChildAdded(e) \/ AdapterOnChildChanged(e) \/ OnChildRemoved(e)
         \/ OnChildAdded(e) \/ OnDataChange(e) \/ NothingToDo(e)
  BY DEF Dispatch, dataVars
<1>3. Left(e)
  BY <1>2, CallbackLeaves
<1>4. /\ listeners # << >> /\ Heard(list, q, child, come)
      /\ Behind(q2, q) /\ q2 \in Seq(Waiting) /\ e = q[1] /\ 1 \in 1 .. Len(q)
      /\ e # EndOfMessage => e.key \in come /\ e.key \in Keys
  BY <1>2, HeadCallback
<1> HIDE DEF e, q2
<1>5. Agree(list') /\ RunOn(list, q[1], list') /\ pc' = pc
  BY <1>3, <1>4 DEF Left
<1>6. Heard(list', q2, child, come)
  BY <1>4, <1>5, RunKeeps
<1>7. \A i \in 1 .. Len(q2) : i + 1 \in 1 .. Len(q) /\ q2[i] = q[i + 1]
  BY <1>4, BehindElements
<1>8. ASSUME tasks' = tasks PROVE TypeOK' /\ TaskInv'
  <2>1. TypeOK'
    BY <1>1, <1>2, <1>4, <1>5, <1>8, AgreeType DEF TypeOK, Waiting
  <2>2. TaskInv'
    <3>1. CASE listeners = <<"adapter">>
      <4>1. tasks = <<ScreenTask>> /\ \A i \in 1 .. Len(q) : q[i].to # "screen"
        BY <1>1, <3>1 DEF TaskInv
      <4>2. \A i \in 1 .. Len(q2) : q2[i].to # "screen"
        BY <1>7, <4>1
      <4> QED
        BY <1>2, <1>8, <3>1, <4>1, <4>2 DEF TaskInv
    <3>2. CASE listeners # <<"adapter">>
      BY <1>1, <1>2, <1>4, <1>8, <3>2 DEF TaskInv
    <3> QED
      BY <3>1, <3>2
  <2> QED
    BY <2>1, <2>2
<1>9. ASSUME e.to = "screen", e # EndOfMessage,
             tasks' = Append(tasks, [to |-> "value", key |-> e.key])
      PROVE  TypeOK' /\ TaskInv'
  <2> DEFINE task == [to |-> "value", key |-> e.key]
  <2>1. listeners = <<"adapter", "screen">>
    <3>1. listeners # <<"adapter">>
      <4> SUFFICES ASSUME listeners = <<"adapter">> PROVE FALSE
        OBVIOUS
      <4>1. \A i \in 1 .. Len(q) : q[i].to # "screen"
        BY <1>1 DEF TaskInv
      <4> QED
        BY <1>4, <1>9, <4>1
    <3> QED
      BY <1>1, <1>4, <3>1 DEF TaskInv
  <2>2. \A i \in 1 .. Len(tasks) : tasks[i] \in [to : {"value"}, key : come]
    BY <1>1, <2>1 DEF TaskInv
  <2>3. task \in [to : {"value"}, key : come] /\ task \in Registration
    BY <1>4, <1>9 DEF Registration
  <2>4. tasks \in Seq(Registration)
    BY <1>1 DEF TypeOK
  <2> HIDE DEF task
  <2>5. tasks' = Append(tasks, task)
    BY <1>9 DEF task
  <2>6. /\ Len(tasks') = Len(tasks) + 1 /\ tasks'[Len(tasks) + 1] = task
        /\ \A i \in 1 .. Len(tasks) : tasks'[i] = tasks[i]
        /\ tasks' \in Seq(Registration) /\ Len(tasks) \in Nat
    BY <2>3, <2>4, <2>5
  <2>7. \A i \in 1 .. Len(tasks') : tasks'[i] \in [to : {"value"}, key : come]
    <3> SUFFICES ASSUME NEW i \in 1 .. Len(tasks')
                 PROVE  tasks'[i] \in [to : {"value"}, key : come]
      OBVIOUS
    <3>1. i \in 1 .. Len(tasks) \/ i = Len(tasks) + 1
      BY <2>6
    <3>2. CASE i \in 1 .. Len(tasks)
      BY <2>2, <2>6, <3>2, Zenon
    <3>3. CASE i = Len(tasks) + 1
      BY <2>3, <2>6, <3>3, Zenon
    <3> QED
      BY <3>1, <3>2, <3>3
  <2>8. TypeOK'
    BY <1>1, <1>2, <1>4, <1>5, <2>6, AgreeType DEF TypeOK, Waiting
  <2>9. TaskInv'
    BY <1>2, <2>1, <2>7 DEF TaskInv
  <2> QED
    BY <2>8, <2>9
<1>10. CameInv' /\ QueueInv'
  BY <1>1, <1>2, <1>6 DEF CameInv, QueueInv
<1>11. AcceptedListsLive'
  <2> SUFFICES ASSUME NothingRefused' PROVE pc' = "shown" /\ NoModel \notin ToSet(list'.mModels)
    BY DEF AcceptedListsLive
  <2>1. NothingRefused
    BY <1>2 DEF NothingRefused
  <2>2. pc = "shown" /\ NoBlank(list)
    BY <1>1, <2>1, NoBlankList DEF AcceptedListsLive
  <2>3. ASSUME NEW k \in Keys, Clears(e, k) PROVE FALSE
    <3>1. k \in come /\ child[k] # Null
      BY <1>4, <2>1, <2>3 DEF Clears, NothingRefused, Present
    <3>2. InList(list, q, k, Len(q) + 1)
      BY <1>4, <3>1 DEF Heard, EndsAsChildren
    <3>3. 1 \in 1 .. (Len(q) + 1) - 1
      BY <1>4 DEF Behind
    <3> QED
      BY <1>4, <2>3, <3>2, <3>3 DEF InList
  <2>4. NoBlank(list')
    BY <1>3, <2>2, <2>3 DEF Left
  <2> QED
    BY <1>5, <2>2, <2>4, NoBlankList
<1>12. tasks' = tasks \/ (e.to = "screen" /\ e # EndOfMessage
                          /\ tasks' = Append(tasks, [to |-> "value", key |-> e.key]))
  BY <1>3 DEF Left
<1>13. TypeOK' /\ TaskInv'
  BY <1>8, <1>9, <1>12
<1> QED
  BY <1>5, <1>10, <1>11, <1>13 DEF ListInv

LEMMA LayoutKeeps ==
    ASSUME ListInv, LayoutCrashes PROVE ListInv'
<1>1. TypeOK /\ CameInv /\ TaskInv /\ QueueInv /\ Agree(list) /\ AcceptedListsLive
  BY DEF ListInv
<1>2. /\ child' = child /\ come' = come /\ tasks' = tasks /\ listeners' = listeners
      /\ valueListeners' = valueListeners /\ looper' = looper /\ list' = list /\ pc' = "crashed"
      /\ NoModel \in ToSet(list.mModels)
  BY DEF LayoutCrashes, dataVars, listenVars
<1>3. ~NothingRefused'
  BY <1>1, <1>2 DEF AcceptedListsLive, NothingRefused
<1>4. TypeOK' /\ CameInv' /\ TaskInv' /\ QueueInv' /\ Agree(list')
  BY <1>1, <1>2 DEF TypeOK, CameInv, TaskInv, QueueInv
<1> QED
  BY <1>3, <1>4 DEF ListInv, AcceptedListsLive

LEMMA UnchangedKeeps ==
    ASSUME ListInv, UNCHANGED vars PROVE ListInv'
  BY DEF ListInv, TypeOK, CameInv, TaskInv, QueueInv, AcceptedListsLive, NothingRefused,
         vars, dataVars, listenVars

LEMMA NextKeeps == ListInv /\ [Next]_vars => ListInv'
<1> SUFFICES ASSUME ListInv, [Next]_vars PROVE ListInv'
  OBVIOUS
<1>1. ASSUME NEW k \in Keys, Write(k) PROVE ListInv'
  BY <1>1, WriteKeeps
<1>2. ASSUME NEW k \in Keys, Resolve(k) PROVE ListInv'
  <2>1. child[k] = 1 /\ Change(k, 2) /\ come' = come /\ 2 \in {2, Null}
    BY <1>2 DEF Resolve
  <2> QED
    BY <2>1, ServerKeeps
<1>3. ASSUME NEW k \in Keys, Refuse(k) PROVE ListInv'
  <2>1. child[k] = 1 /\ Change(k, Null) /\ come' = come /\ Null \in {2, Null}
    BY <1>3 DEF Refuse
  <2> QED
    BY <2>1, ServerKeeps
<1>4. CASE Register
  <2>1. listeners \in ListenersType
    BY DEF ListInv, TypeOK, ListenersType
  <2> QED
    BY <1>4, <2>1, RegisterAdapterKeeps, RegisterScreenKeeps, RegisterValueKeeps DEF ListenersType
<1>5. CASE Dispatch
  BY <1>5, DispatchKeeps
<1>6. CASE LayoutCrashes
  BY <1>6, LayoutKeeps
<1>7. CASE UNCHANGED vars
  BY <1>7, UnchangedKeeps
<1> QED
  BY <1>1, <1>2, <1>3, <1>4, <1>5, <1>6, <1>7 DEF Next

-----------------------------------------------------------------------------
(***************************************************************************)
(* The list as each waiting callback will find it: a callback that adds a  *)
(* row finds the row of the child before and none between, one that sets a *)
(* row finds it, and after the last of them the rows are the children.     *)
(* Proved for every set of children, every order in which Firebase's       *)
(* thread registers listeners and applies changes between callbacks, and   *)
(* any number of callbacks that wait.                                      *)
(***************************************************************************)
THEOREM CallbacksFindTheirRows == Spec => []ListInv
<1>1. Init => ListInv
  BY InitHolds
<1>2. ListInv /\ [Next]_vars => ListInv'
  BY NextKeeps
<1> QED
  BY <1>1, <1>2, PTL DEF Spec

(***************************************************************************)
(* The variables stay in their sets, the list among them: FirebaseRecycler-*)
(* Adapter's three collections hold keys of children and their models.     *)
(***************************************************************************)
THEOREM TypeCorrect == Spec => []TypeOK
<1>1. ListInv => TypeOK
  BY DEF ListInv
<1> QED
  BY <1>1, CallbacksFindTheirRows, PTL

(***************************************************************************)
(* The rows are in the order of the query and no child has two, although   *)
(* the adapter's child listener and the screen's value listeners both      *)
(* write them.                                                             *)
(***************************************************************************)
THEOREM OrderKept == Spec => []RowsInOrder
<1>1. ListInv => RowsInOrder
  <2> SUFFICES ASSUME ListInv PROVE RowsInOrder
    OBVIOUS
  <2>1. RowsAgree(list.mModels, list.mModelKeys) /\ list.mModels \in Seq(Row)
    BY AgreeParts DEF ListInv
  <2>2. Shown = {i \in 1 .. Len(list.mModels) : list.mModels[i] # NoModel}
    BY <2>1 DEF Shown
  <2> QED
    BY <2>1, <2>2 DEF RowsInOrder, RowsAgree
<1> QED
  BY <1>1, CallbacksFindTheirRows, PTL

(***************************************************************************)
(* When no registration and no callback is on its way, the rows with a     *)
(* model are exactly the children of the query, each in its last version.  *)
(***************************************************************************)
THEOREM ListMapsChildren == Spec => []RowsMapChildren
<1>1. ListInv => RowsMapChildren
  <2> SUFFICES ASSUME ListInv, Quiet
               PROVE  /\ {list.mModels[i].key : i \in Shown} = Present(child)
                      /\ \A k \in Present(child) :
                             /\ Get(list, k).version = child[k]
                             /\ Get(list, k) \in ToSet(list.mModels)
    BY DEF RowsMapChildren
  <2> DEFINE rows == list.mModels
             map == list.mModelKeys
  <2>1. RowsAgree(rows, map) /\ rows \in Seq(Row) /\ DOMAIN rows = 1 .. Len(rows)
    BY AgreeParts DEF ListInv
  <2>2. tasks = << >> /\ looper = << >> /\ Len(looper) = 0 /\ 1 .. Len(looper) = {}
    BY DEF Quiet
  <2>3. listeners # << >>
    <3>1. tasks # <<AdapterTask, ScreenTask>>
      BY <2>2
    <3> QED
      BY <3>1 DEF ListInv, TaskInv
  <2>4. Heard(list, looper, child, come)
    BY <2>3 DEF ListInv, QueueInv
  <2>5. \A k \in Keys : HasModel(list, k) <=> k \in Present(child)
    <3>1. Len(looper) + 1 = 1
      BY <2>2
    <3>2. \A k \in Keys : InList(list, looper, k, 1) <=> child[k] # Null
      BY <2>4, <3>1 DEF Heard, EndsAsChildren
    <3> QED
      BY <3>2, InListNow DEF Present
  <2>6. \A k \in Present(child) : map[k].version = child[k]
    BY <2>2, <2>4 DEF Heard, LastIsNewest, Present
  <2>7. Shown = {i \in 1 .. Len(rows) : rows[i] # NoModel}
    BY <2>1 DEF Shown
  <2> HIDE DEF rows, map
  <2>8. \A i \in Shown : rows[i].key \in Present(child)
    <3> SUFFICES ASSUME NEW i \in Shown PROVE rows[i].key \in Present(child)
      OBVIOUS
    <3>1. i \in 1 .. Len(rows) /\ rows[i] # NoModel
      BY <2>7
    <3>2. rows[i].key \in Keys /\ map[rows[i].key] = rows[i] /\ rows[i].key \in DOMAIN map
      BY <2>1, <3>1, RowKeys DEF RowsAgree
    <3> QED
      BY <2>5, <3>1, <3>2 DEF HasModel, map
  <2>9. ASSUME NEW k \in Present(child)
        PROVE  /\ Get(list, k) = map[k] /\ map[k] \in ToSet(rows)
               /\ \E i \in Shown : rows[i].key = k
    <3>1. k \in DOMAIN map /\ map[k] # NoModel
      BY <2>5 DEF HasModel, map, Present
    <3>2. map[k].key = k /\ \E i \in 1 .. Len(rows) : rows[i] = map[k]
      BY <2>1, <3>1 DEF RowsAgree
    <3> QED
      BY <2>1, <2>7, <3>1, <3>2 DEF Get, Exists, map, ToSet
  <2> QED
    BY <2>6, <2>8, <2>9 DEF rows
<1> QED
  BY <1>1, CallbacksFindTheirRows, PTL

(***************************************************************************)
(* As long as the server refuses nothing, no callback throws: the row that *)
(* the adapter's onChildChanged sets is there; and no row is without a     *)
(* model, so that no layout throws.                                        *)
(***************************************************************************)
THEOREM NothingThrows == Spec => []AcceptedListsLive
<1>1. ListInv => AcceptedListsLive
  BY DEF ListInv
<1> QED
  BY <1>1, CallbacksFindTheirRows, PTL

=============================================================================
