-------------------------- MODULE UserPosts_proofs --------------------------
(***************************************************************************)
(* Proofs about UserPosts and the collections of KeyedList that it fills,  *)
(* for any posts, clicks and calls of loadPosts.  Three layers: the types  *)
(* with the agreement of the three collections; what the listeners have    *)
(* heard; and that a followed user's posts are there or on their way.      *)
(***************************************************************************)
EXTENDS UserPosts, FiniteSetTheorems, TLAPS

-----------------------------------------------------------------------------
(* Sequences. *)

LEMMA ElementType ==
    ASSUME NEW S, NEW s \in Seq(S), NEW i \in 1 .. Len(s) PROVE s[i] \in S
  OBVIOUS

LEMMA TailElements ==
    ASSUME NEW S, NEW s \in Seq(S), s # << >>
    PROVE  /\ Len(s) \in Nat \ {0} /\ Head(s) = s[1]
           /\ Tail(s) \in Seq(S) /\ Len(Tail(s)) = Len(s) - 1
           /\ \A i \in 1 .. Len(s) - 1 : Tail(s)[i] = s[i + 1]
           /\ Tail(s) = << >> => Len(s) = 1
<1>1. Len(s) \in Nat /\ Len(s) # 0
  OBVIOUS
<1>2. Len(Tail(s)) = Len(s) - 1 /\ Tail(s) \in Seq(S)
  OBVIOUS
<1>3. Tail(s) = << >> => Len(Tail(s)) = 0
  <2>1. Len(<< >>) = 0
    OBVIOUS
  <2> QED
    BY <2>1, Zenon
<1>4. Tail(s) = << >> => Len(s) = 1
  BY <1>1, <1>2, <1>3
<1> QED
  BY <1>1, <1>2, <1>4

LEMMA AppendElements ==
    ASSUME NEW S, NEW s \in Seq(S), NEW x \in S
    PROVE  /\ Append(s, x) # << >> /\ Len(Append(s, x)) = Len(s) + 1
           /\ Append(s, x)[Len(s) + 1] = x
<1>1. Len(Append(s, x)) = Len(s) + 1 /\ Len(s) + 1 # 0
  OBVIOUS
<1>2. Append(s, x) # << >>
  BY <1>1
<1> QED
  BY <1>1, <1>2

(* A set of natural numbers has its minimum. *)
LEMMA MinOfNaturals ==
    ASSUME NEW T \in SUBSET Nat, T # {}
    PROVE  Min(T) \in T /\ \A j \in T : Min(T) <= j
<1>1. PICK x \in T : \A y \in T : ~(<<y, x>> \in OpToRel(<, Nat))
  BY NatLessThanWellFounded, WFMin
<1>2. \A y \in T : <<y, x>> \in OpToRel(<, Nat) <=> y < x
  BY DEF OpToRel
<1>3. \A y \in T : ~(y < x)
  BY <1>1, <1>2, Zenon
<1>4. \A y \in T : x <= y
  BY <1>3
<1> QED
  BY <1>4 DEF Min

(* The first place of an element, or 0. *)
LEMMA FirstPlace ==
    ASSUME NEW S, NEW s \in Seq(S), NEW e
    PROVE  LET n == SelectInSeq(s, LAMBDA other : other = e)
           IN  \/ n \in 1 .. Len(s) /\ s[n] = e
               \/ n = 0 /\ \A i \in 1 .. Len(s) : s[i] # e
<1> DEFINE places == {i \in 1 .. Len(s) : s[i] = e}
<1>1. SelectInSeq(s, LAMBDA other : other = e) = IF places # {} THEN Min(places) ELSE 0
  BY DEF SelectInSeq
<1>2. places # {} => Min(places) \in places
  <2>1. places \in SUBSET Nat
    OBVIOUS
  <2> QED
    BY <2>1, MinOfNaturals
<1> QED
  BY <1>1, <1>2

LEMMA RemoveAtElements ==
    ASSUME NEW S, NEW s \in Seq(S), NEW n \in 1 .. Len(s)
    PROVE  /\ RemoveAt(s, n) \in Seq(S)
           /\ Len(RemoveAt(s, n)) = Len(s) - 1
           /\ \A i \in 1 .. Len(s) - 1 : RemoveAt(s, n)[i] = IF i < n THEN s[i] ELSE s[i + 1]
<1> DEFINE front == SubSeq(s, 1, n - 1)
           back == SubSeq(s, n + 1, Len(s))
<1>1. /\ front \in Seq(S) /\ Len(front) = n - 1
      /\ \A i \in 1 .. n - 1 : front[i] = s[i]
  OBVIOUS
<1>2. /\ back \in Seq(S) /\ Len(back) = Len(s) - n
      /\ \A i \in 1 .. Len(s) - n : back[i] = s[n + i]
  OBVIOUS
<1> HIDE DEF front, back
<1>3. front \o back \in Seq(S) /\ Len(front \o back) = Len(s) - 1
  BY <1>1, <1>2
<1>4. \A i \in 1 .. Len(s) - 1 : (front \o back)[i] = IF i < n THEN s[i] ELSE s[i + 1]
  <2> SUFFICES ASSUME NEW i \in 1 .. Len(s) - 1
               PROVE  (front \o back)[i] = IF i < n THEN s[i] ELSE s[i + 1]
    OBVIOUS
  <2>1. CASE i < n
    BY <1>1, <1>2, <2>1
  <2>2. CASE ~(i < n)
    <3>1. (front \o back)[i] = back[i - (n - 1)]
      BY <1>1, <1>2, <2>2
    <3>2. i - (n - 1) \in 1 .. Len(s) - n /\ n + (i - (n - 1)) = i + 1
      BY <2>2
    <3> QED
      BY <1>2, <2>2, <3>1, <3>2
  <2> QED
    BY <2>1, <2>2
<1> QED
  BY <1>3, <1>4 DEF RemoveAt, front, back

(* Taking away the first occurrence of an element, if there is one. *)
LEMMA RemoveFirstElement ==
    ASSUME NEW S, NEW s \in Seq(S), NEW e
    PROVE  \/ \E n \in 1 .. Len(s) : s[n] = e /\ RemoveFirst(s, e) = RemoveAt(s, n)
           \/ RemoveFirst(s, e) = s /\ \A i \in 1 .. Len(s) : s[i] # e
<1> DEFINE n == SelectInSeq(s, LAMBDA other : other = e)
<1>1. \/ n \in 1 .. Len(s) /\ s[n] = e
      \/ n = 0 /\ \A i \in 1 .. Len(s) : s[i] # e
  BY FirstPlace
<1>2. RemoveFirst(s, e) = IF \E i \in 1 .. Len(s) : s[i] = e THEN RemoveAt(s, n) ELSE s
  BY DEF RemoveFirst
<1> QED
  BY <1>1, <1>2

-----------------------------------------------------------------------------
(* The three collections of the adapter. *)

Row == Model \cup {NoModel}

(* Every model of the map has one row and every row with a model is the one *)
(* that the map has for its key.  Rows without a model may be fewer than    *)
(* the keys without one.                                                    *)
RowsAgree(rows, map) ==
    /\ rows \in Seq(Row)
    /\ DOMAIN map \subseteq Keys
    /\ map \in [DOMAIN map -> Row]
    /\ \A k \in DOMAIN map : map[k] # NoModel =>
           map[k].key = k /\ \E i \in 1 .. Len(rows) : rows[i] = map[k]
    /\ \A i \in 1 .. Len(rows) : rows[i] # NoModel =>
           rows[i].key \in DOMAIN map /\ map[rows[i].key] = rows[i]
    /\ \A i, j \in 1 .. Len(rows) : rows[i] = rows[j] /\ rows[i] # NoModel => i = j

KeysAgree(keys, map) ==
    /\ keys \in Seq(Keys)
    /\ \A i, j \in 1 .. Len(keys) : keys[i] = keys[j] => i = j
    /\ \A i \in 1 .. Len(keys) : keys[i] \in DOMAIN map
    /\ \A k \in DOMAIN map : \E i \in 1 .. Len(keys) : keys[i] = k

Agree(list) ==
    /\ list = [mModels |-> list.mModels, mKeys |-> list.mKeys, mModelKeys |-> list.mModelKeys]
    /\ RowsAgree(list.mModels, list.mModelKeys)
    /\ KeysAgree(list.mKeys, list.mModelKeys)
    /\ Len(list.mModels) <= Len(list.mKeys)

PutIn(map, k, model) ==
    [known \in DOMAIN map \cup {k} |-> IF known = k THEN model ELSE map[known]]
ForgetIn(map, k) == [known \in DOMAIN map \ {k} |-> map[known]]

(* What a value listener stores for a post: its model or none. *)
ModelsFor(k) == {NoModel} \cup {model \in Model : model.key = k}

LEMMA NoModelIsNone == NoModel \notin Model /\ NoModel \in Row
  BY KeyAssumption DEF NoModel, Model, Row

LEMMA RowsAppend ==
    ASSUME NEW rows, NEW map, NEW k \in Keys, NEW model \in ModelsFor(k),
           RowsAgree(rows, map), k \notin DOMAIN map
    PROVE  RowsAgree(Append(rows, model), PutIn(map, k, model))
<1> DEFINE rows2 == Append(rows, model)
           map2 == PutIn(map, k, model)
<1>1. rows \in Seq(Row) /\ model \in Row /\ (model # NoModel => model.key = k)
  BY DEF RowsAgree, ModelsFor, Row
<1>2. /\ rows2 \in Seq(Row) /\ Len(rows2) = Len(rows) + 1
      /\ \A i \in 1 .. Len(rows) : rows2[i] = rows[i]
      /\ rows2[Len(rows) + 1] = model
  BY <1>1
<1>3. /\ DOMAIN map2 = DOMAIN map \cup {k} /\ map2[k] = model
      /\ \A j \in DOMAIN map : map2[j] = map[j]
  BY DEF PutIn
<1>4. map2 \in [DOMAIN map2 -> Row] /\ DOMAIN map2 \subseteq Keys
  BY <1>1 DEF PutIn, RowsAgree
<1> HIDE DEF rows2, map2
<1>5. \A i \in 1 .. Len(rows2) : i \in 1 .. Len(rows) \/ i = Len(rows) + 1
  BY <1>1, <1>2
<1>6. Len(rows) + 1 \in 1 .. Len(rows2) /\ \A i \in 1 .. Len(rows) : i \in 1 .. Len(rows2)
  BY <1>1, <1>2
<1>7. \A j \in DOMAIN map2 : map2[j] # NoModel =>
          map2[j].key = j /\ \E i \in 1 .. Len(rows2) : rows2[i] = map2[j]
  <2> SUFFICES ASSUME NEW j \in DOMAIN map2, map2[j] # NoModel
               PROVE  map2[j].key = j /\ \E i \in 1 .. Len(rows2) : rows2[i] = map2[j]
    OBVIOUS
  <2>1. CASE j = k
    BY <1>1, <1>2, <1>3, <1>6, <2>1
  <2>2. CASE j \in DOMAIN map
    BY <1>2, <1>3, <1>6, <2>2 DEF RowsAgree
  <2> QED
    BY <1>3, <2>1, <2>2
<1>8. \A i \in 1 .. Len(rows2) : rows2[i] # NoModel =>
          rows2[i].key \in DOMAIN map2 /\ map2[rows2[i].key] = rows2[i]
  BY <1>1, <1>2, <1>3, <1>5 DEF RowsAgree
<1>9. \A i, j \in 1 .. Len(rows2) : rows2[i] = rows2[j] /\ rows2[i] # NoModel => i = j
  <2>1. \A i \in 1 .. Len(rows) : rows[i] # NoModel => rows[i] # model
    BY <1>1 DEF RowsAgree
  <2> QED
    BY <1>2, <1>5, <2>1 DEF RowsAgree
<1> QED
  BY <1>2, <1>4, <1>7, <1>8, <1>9 DEF RowsAgree, rows2, map2

(* The row of a key, or the row of a key that has no model, gets a model. *)
LEMMA RowsSet ==
    ASSUME NEW rows, NEW map, NEW k \in Keys, NEW model \in ModelsFor(k),
           RowsAgree(rows, map), k \in DOMAIN map, NEW n \in 1 .. Len(rows), rows[n] = map[k]
    PROVE  RowsAgree([rows EXCEPT ![n] = model], PutIn(map, k, model))
<1> DEFINE rows2 == [rows EXCEPT ![n] = model]
           map2 == PutIn(map, k, model)
<1>1. rows \in Seq(Row) /\ model \in Row /\ (model # NoModel => model.key = k)
  BY DEF RowsAgree, ModelsFor, Row
<1>2. /\ rows2 \in Seq(Row) /\ Len(rows2) = Len(rows)
      /\ \A i \in 1 .. Len(rows) : rows2[i] = IF i = n THEN model ELSE rows[i]
  BY <1>1
<1>3. /\ DOMAIN map2 = DOMAIN map /\ map2[k] = model
      /\ \A j \in DOMAIN map : j # k => map2[j] = map[j]
  BY DEF PutIn
<1>4. map2 \in [DOMAIN map2 -> Row] /\ DOMAIN map2 \subseteq Keys
  BY <1>1 DEF PutIn, RowsAgree
<1> HIDE DEF rows2, map2
<1>5. \A i \in 1 .. Len(rows) : rows[i] # NoModel /\ rows[i].key = k => i = n
  BY DEF RowsAgree
<1>6. \A j \in DOMAIN map2 : map2[j] # NoModel =>
          map2[j].key = j /\ \E i \in 1 .. Len(rows2) : rows2[i] = map2[j]
  <2> SUFFICES ASSUME NEW j \in DOMAIN map2, map2[j] # NoModel
               PROVE  map2[j].key = j /\ \E i \in 1 .. Len(rows2) : rows2[i] = map2[j]
    OBVIOUS
  <2>1. CASE j = k
    BY <1>1, <1>2, <1>3, <2>1
  <2>2. CASE j # k
    <3>1. map[j] # NoModel /\ map[j].key = j /\ map2[j] = map[j]
      BY <1>3, <2>2 DEF RowsAgree
    <3>2. PICK i \in 1 .. Len(rows) : rows[i] = map[j]
      BY <1>3, <3>1 DEF RowsAgree
    <3>3. i # n
      BY <2>2, <3>1, <3>2 DEF RowsAgree
    <3> QED
      BY <1>2, <3>1, <3>2, <3>3
  <2> QED
    BY <2>1, <2>2
<1>7. \A i \in 1 .. Len(rows2) : rows2[i] # NoModel =>
          rows2[i].key \in DOMAIN map2 /\ map2[rows2[i].key] = rows2[i]
  <2> SUFFICES ASSUME NEW i \in 1 .. Len(rows2), rows2[i] # NoModel
               PROVE  rows2[i].key \in DOMAIN map2 /\ map2[rows2[i].key] = rows2[i]
    OBVIOUS
  <2>1. CASE i = n
    BY <1>1, <1>2, <1>3, <2>1
  <2>2. CASE i # n
    <3>1. rows2[i] = rows[i] /\ i \in 1 .. Len(rows)
      BY <1>2, <2>2
    <3>2. rows[i].key \in DOMAIN map /\ map[rows[i].key] = rows[i] /\ rows[i].key # k
      BY <1>5, <2>2, <3>1 DEF RowsAgree
    <3> QED
      BY <1>3, <3>1, <3>2
  <2> QED
    BY <2>1, <2>2
<1>8. \A i, j \in 1 .. Len(rows2) : rows2[i] = rows2[j] /\ rows2[i] # NoModel => i = j
  <2>1. \A i \in 1 .. Len(rows) : i # n /\ rows[i] # NoModel => rows[i] # model
    BY <1>1, <1>5
  <2> QED
    BY <1>2, <2>1 DEF RowsAgree
<1> QED
  BY <1>2, <1>4, <1>6, <1>7, <1>8 DEF RowsAgree, rows2, map2

(* A key is forgotten together with a row of its model, or with a null row. *)
LEMMA RowsRemove ==
    ASSUME NEW rows, NEW map, NEW k, RowsAgree(rows, map),
           NEW n \in 1 .. Len(rows),
           IF k \in DOMAIN map THEN rows[n] = map[k] ELSE rows[n] = NoModel
    PROVE  RowsAgree(RemoveAt(rows, n), ForgetIn(map, k))
<1> DEFINE rows2 == RemoveAt(rows, n)
           map2 == ForgetIn(map, k)
<1>1. rows \in Seq(Row)
  BY DEF RowsAgree
<1>2. /\ rows2 \in Seq(Row) /\ Len(rows2) = Len(rows) - 1
      /\ \A i \in 1 .. Len(rows) - 1 : rows2[i] = IF i < n THEN rows[i] ELSE rows[i + 1]
  BY <1>1, RemoveAtElements
<1>3. DOMAIN map2 = DOMAIN map \ {k} /\ \A j \in DOMAIN map2 : map2[j] = map[j]
  BY DEF ForgetIn
<1>4. map2 \in [DOMAIN map2 -> Row] /\ DOMAIN map2 \subseteq Keys
  BY DEF ForgetIn, RowsAgree
<1> HIDE DEF rows2, map2
<1> DEFINE old(i) == IF i < n THEN i ELSE i + 1
<1>5. \A i \in 1 .. Len(rows2) : /\ old(i) \in 1 .. Len(rows) /\ old(i) # n
                                 /\ rows2[i] = rows[old(i)]
  BY <1>1, <1>2
<1>6. \A i \in 1 .. Len(rows) : i # n => \E j \in 1 .. Len(rows2) : old(j) = i
  <2> SUFFICES ASSUME NEW i \in 1 .. Len(rows), i # n
               PROVE  \E j \in 1 .. Len(rows2) : old(j) = i
    OBVIOUS
  <2>1. CASE i < n
    <3>1. i \in 1 .. Len(rows2) /\ old(i) = i
      BY <1>1, <1>2, <2>1
    <3> QED
      BY <3>1
  <2>2. CASE ~(i < n)
    <3>1. i - 1 \in 1 .. Len(rows2) /\ ~(i - 1 < n)
      BY <1>1, <1>2, <2>2
    <3>2. old(i - 1) = i
      BY <3>1
    <3> QED
      BY <3>1, <3>2
  <2> QED
    BY <2>1, <2>2
<1>7. \A i, j \in 1 .. Len(rows2) : old(i) = old(j) => i = j
  BY <1>1, <1>2
<1> HIDE DEF old
<1>8. \A j \in DOMAIN map2 : map2[j] # NoModel =>
          map2[j].key = j /\ \E i \in 1 .. Len(rows2) : rows2[i] = map2[j]
  <2> SUFFICES ASSUME NEW j \in DOMAIN map2, map2[j] # NoModel
               PROVE  map2[j].key = j /\ \E i \in 1 .. Len(rows2) : rows2[i] = map2[j]
    OBVIOUS
  <2>1. map2[j] = map[j] /\ j # k /\ map[j].key = j
    BY <1>3 DEF RowsAgree
  <2>2. PICK i \in 1 .. Len(rows) : rows[i] = map[j]
    BY <1>3, <2>1 DEF RowsAgree
  <2>3. i # n
    BY <2>1, <2>2 DEF RowsAgree
  <2>4. PICK m \in 1 .. Len(rows2) : old(m) = i
    BY <1>6, <2>3
  <2> QED
    BY <1>5, <2>1, <2>2, <2>4
<1>9. \A i \in 1 .. Len(rows2) : rows2[i] # NoModel =>
          rows2[i].key \in DOMAIN map2 /\ map2[rows2[i].key] = rows2[i]
  <2> SUFFICES ASSUME NEW i \in 1 .. Len(rows2), rows2[i] # NoModel
               PROVE  rows2[i].key \in DOMAIN map2 /\ map2[rows2[i].key] = rows2[i]
    OBVIOUS
  <2>1. /\ rows2[i].key \in DOMAIN map /\ map[rows2[i].key] = rows2[i]
        /\ old(i) \in 1 .. Len(rows) /\ old(i) # n /\ rows2[i] = rows[old(i)]
    BY <1>5 DEF RowsAgree
  <2>2. rows2[i].key # k
    <3>1. rows[n] # rows[old(i)]
      BY <2>1 DEF RowsAgree
    <3> QED
      BY <2>1, <3>1
  <2> QED
    BY <1>3, <2>1, <2>2
<1>10. \A i, j \in 1 .. Len(rows2) : rows2[i] = rows2[j] /\ rows2[i] # NoModel => i = j
  BY <1>5, <1>7 DEF RowsAgree
<1> QED
  BY <1>2, <1>4, <1>8, <1>9, <1>10 DEF RowsAgree, rows2, map2

(* A key that has no model is forgotten and no row with it. *)
LEMMA RowsForget ==
    ASSUME NEW rows, NEW map, NEW k, RowsAgree(rows, map), k \in DOMAIN map => map[k] = NoModel
    PROVE  RowsAgree(rows, ForgetIn(map, k))
<1> DEFINE map2 == ForgetIn(map, k)
<1>1. DOMAIN map2 = DOMAIN map \ {k} /\ \A j \in DOMAIN map2 : map2[j] = map[j]
  BY DEF ForgetIn
<1>2. map2 \in [DOMAIN map2 -> Row] /\ DOMAIN map2 \subseteq Keys
  BY DEF ForgetIn, RowsAgree
<1> HIDE DEF map2
<1>3. \A i \in 1 .. Len(rows) : rows[i] # NoModel =>
          rows[i].key \in DOMAIN map2 /\ map2[rows[i].key] = rows[i]
  BY <1>1 DEF RowsAgree
<1> QED
  BY <1>1, <1>2, <1>3 DEF RowsAgree, map2

LEMMA KeysAppend ==
    ASSUME NEW keys, NEW map, NEW k \in Keys, NEW model, KeysAgree(keys, map), k \notin DOMAIN map
    PROVE  KeysAgree(Append(keys, k), PutIn(map, k, model))
<1> DEFINE keys2 == Append(keys, k)
<1>1. /\ keys2 \in Seq(Keys) /\ Len(keys2) = Len(keys) + 1
      /\ \A i \in 1 .. Len(keys) : keys2[i] = keys[i]
      /\ keys2[Len(keys) + 1] = k
  BY DEF KeysAgree
<1>2. DOMAIN PutIn(map, k, model) = DOMAIN map \cup {k}
  BY DEF PutIn
<1> HIDE DEF keys2
<1>3. /\ Len(keys) \in Nat
      /\ \A i \in 1 .. Len(keys2) : i \in 1 .. Len(keys) \/ i = Len(keys) + 1
      /\ \A i \in 1 .. Len(keys) : i \in 1 .. Len(keys2)
      /\ Len(keys) + 1 \in 1 .. Len(keys2)
  BY <1>1 DEF KeysAgree
<1>4. \A i \in 1 .. Len(keys) : keys[i] # k
  BY DEF KeysAgree
<1>5. \A i, j \in 1 .. Len(keys2) : keys2[i] = keys2[j] => i = j
  BY <1>1, <1>3, <1>4 DEF KeysAgree
<1>6. \A j \in DOMAIN PutIn(map, k, model) : \E i \in 1 .. Len(keys2) : keys2[i] = j
  BY <1>1, <1>2, <1>3 DEF KeysAgree
<1>7. \A i \in 1 .. Len(keys2) : keys2[i] \in DOMAIN PutIn(map, k, model)
  BY <1>1, <1>2, <1>3 DEF KeysAgree
<1> QED
  BY <1>1, <1>5, <1>6, <1>7 DEF KeysAgree, keys2

LEMMA KeysRemove ==
    ASSUME NEW keys, NEW map, NEW k, KeysAgree(keys, map)
    PROVE  /\ KeysAgree(RemoveFirst(keys, k), ForgetIn(map, k))
           /\ Len(RemoveFirst(keys, k)) = IF k \in DOMAIN map THEN Len(keys) - 1 ELSE Len(keys)
<1>1. keys \in Seq(Keys)
  BY DEF KeysAgree
<1>2. DOMAIN ForgetIn(map, k) = DOMAIN map \ {k}
  BY DEF ForgetIn
<1>3. CASE RemoveFirst(keys, k) = keys /\ \A i \in 1 .. Len(keys) : keys[i] # k
  <2>1. k \notin DOMAIN map
    BY <1>3 DEF KeysAgree
  <2>2. DOMAIN ForgetIn(map, k) = DOMAIN map
    BY <1>2, <2>1
  <2> QED
    BY <1>3, <2>1, <2>2 DEF KeysAgree
<1>4. ASSUME NEW n \in 1 .. Len(keys), keys[n] = k, RemoveFirst(keys, k) = RemoveAt(keys, n)
      PROVE  /\ KeysAgree(RemoveFirst(keys, k), ForgetIn(map, k))
             /\ k \in DOMAIN map /\ Len(RemoveFirst(keys, k)) = Len(keys) - 1
  <2> DEFINE keys2 == RemoveAt(keys, n)
             old(i) == IF i < n THEN i ELSE i + 1
  <2>1. /\ keys2 \in Seq(Keys) /\ Len(keys2) = Len(keys) - 1
        /\ \A i \in 1 .. Len(keys) - 1 : keys2[i] = IF i < n THEN keys[i] ELSE keys[i + 1]
    BY <1>1, RemoveAtElements
  <2> HIDE DEF keys2
  <2>2. \A i \in 1 .. Len(keys2) : /\ old(i) \in 1 .. Len(keys) /\ old(i) # n
                                   /\ keys2[i] = keys[old(i)]
    BY <1>1, <2>1
  <2>3. \A i \in 1 .. Len(keys) : i # n => \E j \in 1 .. Len(keys2) : old(j) = i
    <3> SUFFICES ASSUME NEW i \in 1 .. Len(keys), i # n
                 PROVE  \E j \in 1 .. Len(keys2) : old(j) = i
      OBVIOUS
    <3>1. CASE i < n
      <4>1. i \in 1 .. Len(keys2) /\ old(i) = i
        BY <1>1, <2>1, <3>1
      <4> QED
        BY <4>1
    <3>2. CASE ~(i < n)
      <4>1. i - 1 \in 1 .. Len(keys2) /\ old(i - 1) = i
        BY <1>1, <2>1, <3>2
      <4> QED
        BY <4>1
    <3> QED
      BY <3>1, <3>2
  <2>4. \A i, j \in 1 .. Len(keys2) : old(i) = old(j) => i = j
    BY <1>1, <2>1
  <2> HIDE DEF old
  <2>5. \A i, j \in 1 .. Len(keys2) : keys2[i] = keys2[j] => i = j
    <3> SUFFICES ASSUME NEW i \in 1 .. Len(keys2), NEW j \in 1 .. Len(keys2),
                        keys2[i] = keys2[j]
                 PROVE  i = j
      OBVIOUS
    <3>1. keys[old(i)] = keys[old(j)] /\ old(i) \in 1 .. Len(keys) /\ old(j) \in 1 .. Len(keys)
      BY <2>2
    <3>2. old(i) = old(j)
      BY <3>1 DEF KeysAgree
    <3> QED
      BY <2>4, <3>2
  <2>6. \A i \in 1 .. Len(keys2) : keys2[i] \in DOMAIN map \ {k}
    <3> SUFFICES ASSUME NEW i \in 1 .. Len(keys2) PROVE keys2[i] \in DOMAIN map \ {k}
      OBVIOUS
    <3>1. keys2[i] = keys[old(i)] /\ old(i) \in 1 .. Len(keys) /\ old(i) # n
      BY <2>2
    <3>2. keys[old(i)] # keys[n] /\ keys[old(i)] \in DOMAIN map
      BY <3>1 DEF KeysAgree
    <3> QED
      BY <1>4, <3>1, <3>2
  <2>7. \A j \in DOMAIN map \ {k} : \E i \in 1 .. Len(keys2) : keys2[i] = j
    <3> SUFFICES ASSUME NEW j \in DOMAIN map, j # k
                 PROVE  \E i \in 1 .. Len(keys2) : keys2[i] = j
      OBVIOUS
    <3>1. PICK i \in 1 .. Len(keys) : keys[i] = j
      BY DEF KeysAgree
    <3>2. PICK m \in 1 .. Len(keys2) : old(m) = i
      BY <1>4, <2>3, <3>1
    <3> QED
      BY <2>2, <3>1, <3>2
  <2>8. KeysAgree(keys2, ForgetIn(map, k))
    BY <1>2, <2>1, <2>5, <2>6, <2>7 DEF KeysAgree
  <2> QED
    BY <1>4, <2>1, <2>8 DEF KeysAgree, keys2
<1> QED
  <2>1. \/ \E n \in 1 .. Len(keys) : keys[n] = k /\ RemoveFirst(keys, k) = RemoveAt(keys, n)
        \/ RemoveFirst(keys, k) = keys /\ \A i \in 1 .. Len(keys) : keys[i] # k
    BY <1>1, RemoveFirstElement
  <2>2. (\A i \in 1 .. Len(keys) : keys[i] # k) => k \notin DOMAIN map
    BY DEF KeysAgree
  <2> QED
    BY <1>3, <1>4, <2>1, <2>2

(* If no row is without a model and some key is, there are fewer rows than  *)
(* keys.                                                                     *)
LEMMA FewerRows ==
    ASSUME NEW rows, NEW keys, NEW map, NEW k \in DOMAIN map,
           RowsAgree(rows, map), KeysAgree(keys, map), map[k] = NoModel,
           \A i \in 1 .. Len(rows) : rows[i] # NoModel
    PROVE  Len(rows) <= Len(keys) - 1
<1> DEFINE known == DOMAIN map
           key == [i \in 1 .. Len(rows) |-> rows[i].key]
<1>1. Len(rows) \in Nat /\ Len(keys) \in Nat
  BY DEF RowsAgree, KeysAgree
<1>2. /\ IsFiniteSet(1 .. Len(rows)) /\ Cardinality(1 .. Len(rows)) = Len(rows)
      /\ IsFiniteSet(1 .. Len(keys)) /\ Cardinality(1 .. Len(keys)) = Len(keys)
  <2>1. \A n \in Nat : IsFiniteSet(1 .. n) /\ Cardinality(1 .. n) = IF 1 > n THEN 0 ELSE n - 1 + 1
    BY FS_Interval
  <2>2. \A n \in Nat : (IF 1 > n THEN 0 ELSE n - 1 + 1) = n
    OBVIOUS
  <2> QED
    BY <1>1, <2>1, <2>2
<1>3. keys \in Surjection(1 .. Len(keys), known) /\ keys \in Injection(1 .. Len(keys), known)
  <2>1. keys \in [1 .. Len(keys) -> known]
    BY DEF KeysAgree
  <2>2. \A j \in known : \E i \in 1 .. Len(keys) : keys[i] = j
    BY DEF KeysAgree
  <2>3. \A i, j \in 1 .. Len(keys) : keys[i] = keys[j] => i = j
    BY DEF KeysAgree
  <2>4. DOMAIN keys = 1 .. Len(keys)
    BY <2>1
  <2> QED
    BY <2>1, <2>2, <2>3, <2>4 DEF Surjection, Injection, IsInjective
<1>4. IsFiniteSet(known) /\ Cardinality(known) = Len(keys)
  BY <1>2, <1>3, FS_Surjection
<1>5. IsFiniteSet(known \ {k}) /\ Cardinality(known \ {k}) = Len(keys) - 1
  BY <1>4, FS_RemoveElement
<1>6. key \in Injection(1 .. Len(rows), known \ {k})
  <2>1. \A i \in 1 .. Len(rows) : key[i] \in known \ {k} /\ map[key[i]] = rows[i]
    BY DEF RowsAgree
  <2>2. \A i, j \in 1 .. Len(rows) : key[i] = key[j] => i = j
    BY <2>1 DEF RowsAgree
  <2>3. key \in [1 .. Len(rows) -> known \ {k}] /\ DOMAIN key = 1 .. Len(rows)
    BY <2>1
  <2> QED
    BY <2>2, <2>3 DEF Injection, IsInjective
<1> QED
  BY <1>2, <1>5, <1>6, FS_Injection

(* EmptyList, RemoveKey and AddOrUpdate keep the collections in agreement.   *)
LEMMA EmptyAgrees == Agree(EmptyList) /\ DOMAIN EmptyList.mModelKeys = {}
<1> DEFINE map == [k \in {} |-> NoModel]
<1>1. EmptyList = [mModels |-> << >>, mKeys |-> << >>, mModelKeys |-> map]
  BY DEF EmptyList
<1>2. DOMAIN map = {} /\ map \in [{} -> Row]
  OBVIOUS
<1> HIDE DEF map
<1>3. RowsAgree(<< >>, map)
  BY <1>2 DEF RowsAgree
<1>4. KeysAgree(<< >>, map)
  BY <1>2 DEF KeysAgree
<1> QED
  BY <1>1, <1>2, <1>3, <1>4 DEF Agree

(* What RemoveKey and AddOrUpdate do to the map. *)
LEMMA RemoveKeyMap ==
    ASSUME NEW list, NEW k
    PROVE  /\ RemoveKey(list, k).mModelKeys = ForgetIn(list.mModelKeys, k)
           /\ RemoveKey(list, k).mKeys = RemoveFirst(list.mKeys, k)
           /\ RemoveKey(list, k).mModels = RemoveFirst(list.mModels, Get(list, k))
  BY DEF RemoveKey, Forget, ForgetIn, Restrict

LEMMA RemoveKeyAgrees ==
    ASSUME NEW list, Agree(list), NEW k
    PROVE  Agree(RemoveKey(list, k))
<1> DEFINE rows == list.mModels
           keys == list.mKeys
           map == list.mModelKeys
           x == Get(list, k)
           list2 == RemoveKey(list, k)
<1>1. /\ list2.mModelKeys = ForgetIn(map, k)
      /\ list2.mKeys = RemoveFirst(keys, k)
      /\ list2.mModels = RemoveFirst(rows, x)
      /\ list2 = [mModels |-> list2.mModels, mKeys |-> list2.mKeys,
                  mModelKeys |-> list2.mModelKeys]
  BY RemoveKeyMap DEF RemoveKey
<1>2. RowsAgree(rows, map) /\ KeysAgree(keys, map) /\ Len(rows) <= Len(keys)
  BY DEF Agree
<1>3. x = IF k \in DOMAIN map THEN map[k] ELSE NoModel
  BY DEF Get, Exists
<1> HIDE DEF rows, keys, map, x, list2
<1>4. rows \in Seq(Row) /\ Len(rows) \in Nat /\ Len(keys) \in Nat
  BY <1>2 DEF RowsAgree, KeysAgree
<1>5. /\ KeysAgree(list2.mKeys, list2.mModelKeys)
      /\ Len(list2.mKeys) = IF k \in DOMAIN map THEN Len(keys) - 1 ELSE Len(keys)
  BY <1>1, <1>2, KeysRemove
<1>6. \/ \E n \in 1 .. Len(rows) : rows[n] = x /\ list2.mModels = RemoveAt(rows, n)
      \/ list2.mModels = rows /\ \A i \in 1 .. Len(rows) : rows[i] # x
  BY <1>1, <1>4, RemoveFirstElement
<1>7. ASSUME NEW n \in 1 .. Len(rows), rows[n] = x, list2.mModels = RemoveAt(rows, n)
      PROVE  RowsAgree(list2.mModels, list2.mModelKeys) /\ Len(list2.mModels) = Len(rows) - 1
  BY <1>1, <1>2, <1>3, <1>4, <1>7, RowsRemove, RemoveAtElements
<1>8. ASSUME list2.mModels = rows, \A i \in 1 .. Len(rows) : rows[i] # x
      PROVE  /\ RowsAgree(list2.mModels, list2.mModelKeys)
             /\ k \in DOMAIN map => Len(rows) <= Len(keys) - 1
  <2>1. x = NoModel
    BY <1>2, <1>3, <1>8 DEF RowsAgree
  <2>2. k \in DOMAIN map => map[k] = NoModel
    BY <1>3, <2>1
  <2>3. RowsAgree(list2.mModels, list2.mModelKeys)
    BY <1>1, <1>2, <1>8, <2>2, RowsForget
  <2>4. k \in DOMAIN map => Len(rows) <= Len(keys) - 1
    BY <1>2, <1>8, <2>1, <2>2, FewerRows
  <2> QED
    BY <2>3, <2>4
<1>9. RowsAgree(list2.mModels, list2.mModelKeys) /\ Len(list2.mModels) <= Len(list2.mKeys)
  <2>1. CASE \E n \in 1 .. Len(rows) : rows[n] = x /\ list2.mModels = RemoveAt(rows, n)
    BY <1>2, <1>4, <1>5, <1>7, <2>1
  <2>2. CASE list2.mModels = rows /\ \A i \in 1 .. Len(rows) : rows[i] # x
    BY <1>2, <1>4, <1>5, <1>8, <2>2
  <2> QED
    BY <1>6, <2>1, <2>2
<1> QED
  BY <1>1, <1>5, <1>9 DEF Agree, list2

(* AddOrUpdate stores the model, unless its key has none and no row is free  *)
(* for it; then nothing changes.                                             *)
LEMMA AddOrUpdateAgrees ==
    ASSUME NEW list, Agree(list), NEW k \in Keys, NEW model \in ModelsFor(k)
    PROVE  LET list2 == AddOrUpdate(list, k, model)
           IN  /\ Agree(list2)
               /\ \/ list2.mModelKeys = PutIn(list.mModelKeys, k, model)
                  \/ list2 = list /\ Exists(list, k) /\ Get(list, k) = NoModel
<1> DEFINE rows == list.mModels
           keys == list.mKeys
           map == list.mModelKeys
           x == Get(list, k)
           list2 == AddOrUpdate(list, k, model)
<1>1. /\ RowsAgree(rows, map) /\ KeysAgree(keys, map) /\ Len(rows) <= Len(keys)
      /\ list = [mModels |-> rows, mKeys |-> keys, mModelKeys |-> map]
  BY DEF Agree
<1>2. rows \in Seq(Row) /\ Len(rows) \in Nat /\ Len(keys) \in Nat /\ keys \in Seq(Keys)
      /\ model \in Row
  BY <1>1 DEF RowsAgree, KeysAgree, ModelsFor, Row
<1>3. CASE k \notin DOMAIN map
  <2>1. list2 = [mModels |-> Append(rows, model), mKeys |-> Append(keys, k),
                 mModelKeys |-> PutIn(map, k, model)]
    BY <1>3 DEF AddOrUpdate, Exists, AddSingle, Put, PutIn
  <2>2. RowsAgree(Append(rows, model), PutIn(map, k, model))
    BY <1>1, <1>3, RowsAppend
  <2>3. KeysAgree(Append(keys, k), PutIn(map, k, model))
    BY <1>1, <1>3, KeysAppend
  <2>4. Len(Append(rows, model)) <= Len(Append(keys, k))
    BY <1>1, <1>2
  <2> HIDE DEF rows, keys, map, list2
  <2>5. Agree(list2) /\ list2.mModelKeys = PutIn(map, k, model)
    BY <2>1, <2>2, <2>3, <2>4 DEF Agree
  <2> QED
    BY <2>5 DEF list2, map
<1>4. CASE k \in DOMAIN map
  <2> DEFINE n == SelectInSeq(rows, LAMBDA other : other = x)
  <2>1. x = map[k] /\ Exists(list, k)
    BY <1>4 DEF Get, Exists
  <2>2. \/ n \in 1 .. Len(rows) /\ rows[n] = x
        \/ n = 0 /\ \A i \in 1 .. Len(rows) : rows[i] # x
    BY <1>2, FirstPlace
  <2>3. list2 = IF n > 0
                THEN [mModels |-> [rows EXCEPT ![n] = model], mKeys |-> keys,
                      mModelKeys |-> PutIn(map, k, model)]
                ELSE list
    <3>1. n = IndexOf(list, Get(list, k))
      BY DEF IndexOf
    <3> HIDE DEF n, x
    <3>2. list2 = IF n > 0
                  THEN [list EXCEPT !.mModels[n] = model, !.mModelKeys = Put(list, k, model)]
                  ELSE list
      BY <2>1, <3>1 DEF AddOrUpdate, Update, Set
    <3>3. Put(list, k, model) = PutIn(map, k, model)
      BY DEF Put, PutIn
    <3> QED
      BY <1>1, <3>2, <3>3
  <2> HIDE DEF n, x, list2, rows, keys, map
  <2>4. CASE n = 0 /\ \A i \in 1 .. Len(rows) : rows[i] # x
    <3>1. x = NoModel
      BY <1>1, <1>4, <2>1, <2>4 DEF RowsAgree
    <3>2. list2 = list
      BY <2>3, <2>4
    <3> QED
      BY <2>1, <3>1, <3>2 DEF x, list2
  <2>5. CASE n \in 1 .. Len(rows) /\ rows[n] = x
    <3>1. /\ list2.mModels = [rows EXCEPT ![n] = model] /\ list2.mKeys = keys
          /\ list2.mModelKeys = PutIn(map, k, model)
          /\ list2 = [mModels |-> list2.mModels, mKeys |-> list2.mKeys,
                      mModelKeys |-> list2.mModelKeys]
      BY <2>3, <2>5
    <3>2. RowsAgree(list2.mModels, list2.mModelKeys)
      <4>1. rows[n] = map[k]
        BY <2>1, <2>5
      <4>2. RowsAgree([rows EXCEPT ![n] = model], PutIn(map, k, model))
        BY <1>1, <1>4, <2>5, <4>1, RowsSet
      <4> QED
        BY <3>1, <4>2
    <3>3. DOMAIN PutIn(map, k, model) = DOMAIN map
      BY <1>4 DEF PutIn
    <3>4. KeysAgree(list2.mKeys, list2.mModelKeys)
      BY <1>1, <3>1, <3>3 DEF KeysAgree
    <3>5. Len(list2.mModels) = Len(rows)
      BY <1>2, <3>1
    <3>6. Agree(list2)
      BY <1>1, <3>1, <3>2, <3>4, <3>5 DEF Agree
    <3> QED
      BY <3>1, <3>6 DEF list2, map
  <2> QED
    BY <2>2, <2>4, <2>5
<1> QED
  BY <1>3, <1>4

-----------------------------------------------------------------------------
(* Types, and the grid. *)

(* Types and collections. *)
GridInv == TypeOK /\ Agree(grid)

LEMMA AgreeType == ASSUME NEW list, Agree(list) PROVE list \in ListType(Model)
<1>1. /\ list.mModels \in Seq(Model \cup {NoModel}) /\ list.mKeys \in Seq(Keys)
      /\ DOMAIN list.mModelKeys \in SUBSET Keys
      /\ list.mModelKeys \in [DOMAIN list.mModelKeys -> Model \cup {NoModel}]
  BY DEF Agree, RowsAgree, KeysAgree, Row
<1>2. list.mModelKeys \in UNION {[known -> Model \cup {NoModel}] : known \in SUBSET Keys}
  BY <1>1
<1>3. list = [mModels |-> list.mModels, mKeys |-> list.mKeys, mModelKeys |-> list.mModelKeys]
  BY DEF Agree
<1> QED
  BY <1>1, <1>2, <1>3 DEF ListType

LEMMA ModelOfType == ASSUME NEW k \in Keys, NEW v \in Values PROVE ModelOf(k, v) \in ModelsFor(k)
  BY DEF ModelOf, ModelsFor, Model, Values, Null

LEMMA ViewType ==
    ASSUME NEW stored \in BOOLEAN, NEW pending \in Seq(BOOLEAN)
    PROVE  View(stored, pending) \in BOOLEAN
<1>1. CASE pending = << >>
  BY <1>1 DEF View
<1>2. CASE pending # << >>
  <2>1. Len(pending) \in 1 .. Len(pending)
    BY <1>2
  <2>2. pending[Len(pending)] \in BOOLEAN
    BY <2>1, ElementType
  <2> QED
    BY <1>2, <2>2 DEF View, Last
<1> QED
  BY <1>1, <1>2

LEMMA AnnounceType ==
    ASSUME announced \in Seq(BOOLEAN), NEW stored \in BOOLEAN, NEW pending \in Seq(BOOLEAN),
           Announce(stored, pending)
    PROVE  announced' \in Seq(BOOLEAN)
<1> DEFINE value == View(stored, pending)
<1>1. value \in BOOLEAN
  BY ViewType
<1> HIDE DEF value
<1>2. Append(announced, value) \in Seq(BOOLEAN)
  BY <1>1
<1>3. announced' = Append(announced, value) \/ announced' = announced
  BY DEF Announce, value
<1> QED
  BY <1>2, <1>3

LEMMA FollowTypes ==
    TypeOK => /\ writes \in Seq(BOOLEAN) /\ reads \in Seq(BOOLEAN) /\ announced \in Seq(BOOLEAN)
              /\ followed \in BOOLEAN /\ Following \in BOOLEAN
<1> SUFFICES ASSUME TypeOK
             PROVE  /\ writes \in Seq(BOOLEAN) /\ reads \in Seq(BOOLEAN)
                    /\ announced \in Seq(BOOLEAN)
                    /\ followed \in BOOLEAN /\ Following \in BOOLEAN
  OBVIOUS
<1>1. /\ writes \in Seq(BOOLEAN) /\ reads \in Seq(BOOLEAN) /\ announced \in Seq(BOOLEAN)
      /\ followed \in BOOLEAN
  BY DEF TypeOK
<1> QED
  BY <1>1, ViewType DEF Following

(* The fields that hold the follow state, by themselves. *)
FollowTypeOK ==
    /\ followed \in BOOLEAN
    /\ {writes, reads, announced} \subseteq Seq(BOOLEAN)
    /\ clicks \in 0 .. MaxClicks

(* The other fields of the activity, by themselves. *)
ListenTypeOK ==
    /\ post \in [Keys -> Values]
    /\ entries \subseteq Keys
    /\ marshmallow \in BOOLEAN
    /\ loads \in 0 .. MaxLoads
    /\ reported \in [Loads -> SUBSET Keys]
    /\ seen \in [Loads -> [Keys -> Values \cup {NotListening, Unseen}]]
    /\ pc \in {"shown", "closed", "crashed"}

LEMMA TypeParts == Agree(grid) => (TypeOK <=> FollowTypeOK /\ ListenTypeOK)
  BY AgreeType DEF TypeOK, FollowTypeOK, ListenTypeOK

LEMMA GridInit == Init => GridInv
<1> SUFFICES ASSUME Init PROVE GridInv
  OBVIOUS
<1>1. Agree(grid)
  BY EmptyAgrees DEF Init
<1>2. FollowTypeOK
  <2>1. << >> \in Seq(BOOLEAN)
    OBVIOUS
  <2>2. <<followed>> \in Seq(BOOLEAN)
    BY DEF Init
  <2>3. 0 \in 0 .. MaxClicks
    BY BoundAssumption
  <2> QED
    BY <2>1, <2>2, <2>3 DEF Init, FollowTypeOK
<1>3. ListenTypeOK
  <2>1. 0 \in 0 .. MaxLoads
    BY BoundAssumption
  <2>2. post \in [Keys -> Values]
    BY DEF Init, Values, Versions, Null
  <2>3. seen \in [Loads -> [Keys -> Values \cup {NotListening, Unseen}]]
    BY DEF Init
  <2> QED
    BY <2>1, <2>2, <2>3 DEF Init, ListenTypeOK
<1> QED
  BY <1>1, <1>2, <1>3, TypeParts DEF GridInv

LEMMA FollowTypeStep == FollowTypeOK /\ [Next]_vars => FollowTypeOK'
<1> SUFFICES ASSUME FollowTypeOK, [Next]_vars PROVE FollowTypeOK'
  OBVIOUS
<1>0. /\ writes \in Seq(BOOLEAN) /\ reads \in Seq(BOOLEAN) /\ announced \in Seq(BOOLEAN)
      /\ followed \in BOOLEAN /\ clicks \in 0 .. MaxClicks
  BY DEF FollowTypeOK
<1>a. \A s \in Seq(BOOLEAN) : s # << >> => Head(s) \in BOOLEAN /\ Tail(s) \in Seq(BOOLEAN)
  <2> SUFFICES ASSUME NEW s \in Seq(BOOLEAN), s # << >>
               PROVE  Head(s) \in BOOLEAN /\ Tail(s) \in Seq(BOOLEAN)
    OBVIOUS
  <2>1. 1 \in 1 .. Len(s) /\ Head(s) = s[1] /\ Tail(s) \in Seq(BOOLEAN)
    OBVIOUS
  <2> QED
    BY <2>1, ElementType
<1>b. \A s \in Seq(BOOLEAN), x \in BOOLEAN : Append(s, x) \in Seq(BOOLEAN)
  OBVIOUS
<1>1. CASE UNCHANGED followVars
  BY <1>0, <1>1 DEF followVars, FollowTypeOK
<1>2. CASE Acknowledged
  BY <1>0, <1>2, <1>a DEF Acknowledged, FollowTypeOK
<1>3. CASE Rejected
  <2>1. writes' \in Seq(BOOLEAN) /\ announced' \in Seq(BOOLEAN)
    BY <1>0, <1>3, <1>a, AnnounceType DEF Rejected
  <2> QED
    BY <1>0, <1>3, <2>1 DEF Rejected, FollowTypeOK
<1>4. CASE OnClick
  <2>1. Following \in BOOLEAN
    BY <1>0, ViewType DEF Following
  <2>2. reads' \in Seq(BOOLEAN)
    BY <1>0, <1>4, <1>b, <2>1 DEF OnClick
  <2>3. clicks' \in 0 .. MaxClicks
    BY <1>0, <1>4, BoundAssumption DEF OnClick
  <2> QED
    BY <1>0, <1>4, <2>2, <2>3 DEF OnClick, FollowTypeOK
<1>5. ASSUME NEW value \in BOOLEAN, Write(value)
      PROVE  writes' \in Seq(BOOLEAN) /\ announced' \in Seq(BOOLEAN)
  BY <1>0, <1>5, <1>b, AnnounceType DEF Write
<1>6. CASE Unfollow
  <2>1. writes' \in Seq(BOOLEAN) /\ announced' \in Seq(BOOLEAN) /\ reads' \in Seq(BOOLEAN)
    BY <1>0, <1>5, <1>6, <1>a DEF Unfollow
  <2> QED
    BY <1>0, <1>6, <2>1 DEF Unfollow, FollowTypeOK
<1>7. CASE Follow
  <2>1. writes' \in Seq(BOOLEAN) /\ announced' \in Seq(BOOLEAN) /\ reads' \in Seq(BOOLEAN)
    BY <1>0, <1>5, <1>7, <1>a DEF Follow
  <2> QED
    BY <1>0, <1>7, <2>1 DEF Follow, FollowTypeOK
<1>8. CASE OnFollowingChange
  <2>1. announced' \in Seq(BOOLEAN)
    BY <1>0, <1>8, <1>a DEF OnFollowingChange
  <2> QED
    BY <1>0, <1>8, <2>1 DEF OnFollowingChange, FollowTypeOK
<1>9. CASE OnDestroy
  <2>1. announced' \in Seq(BOOLEAN)
    BY <1>9 DEF OnDestroy
  <2> QED
    BY <1>0, <1>9, <2>1 DEF OnDestroy, FollowTypeOK
<1> QED
  <2>1. ASSUME NEW k \in Keys,
               Publish(k) \/ TimestampResolved(k) \/ RemovePost(k) \/ RemoveEntry(k)
        PROVE  UNCHANGED followVars
    BY <2>1 DEF Publish, TimestampResolved, RemovePost, RemoveEntry
  <2>2. ASSUME NEW l \in Loads, NEW k \in Keys,
               OnChildAdded(l, k) \/ OnChildRemoved(l, k) \/ OnDataChange(l, k)
        PROVE  UNCHANGED followVars
    BY <2>2 DEF OnChildAdded, OnChildRemoved, OnDataChange
  <2>3. LayoutCrashes => UNCHANGED followVars
    BY DEF LayoutCrashes
  <2>4. UNCHANGED vars => UNCHANGED followVars
    BY DEF vars
  <2> QED
    BY <1>1, <1>2, <1>3, <1>4, <1>6, <1>7, <1>8, <1>9, <2>1, <2>2, <2>3, <2>4 DEF Next

(* Each field that the listeners use changes only within its type; the grid  *)
(* only through EmptyList, RemoveKey and AddOrUpdate.                         *)
LEMMA GridStep == GridInv /\ [Next]_vars => GridInv'
<1> SUFFICES ASSUME GridInv, [Next]_vars PROVE GridInv'
  OBVIOUS
<1>0. FollowTypeOK /\ ListenTypeOK /\ Agree(grid) /\ FollowTypeOK'
  BY TypeParts, FollowTypeStep DEF GridInv
<1>a. 0 \in Values /\ 1 \in Values /\ 2 \in Values /\ Null \in Values
  BY DEF Values, Versions, Null
<1>b. LoadPosts => loads' \in 0 .. MaxLoads
  BY <1>0, BoundAssumption DEF LoadPosts, ListenTypeOK
<1> SUFFICES ListenTypeOK' /\ Agree(grid')
  <2>1. ListenTypeOK' /\ Agree(grid') => GridInv'
    <3>1. Agree(grid') => grid' \in ListType(Model)
      BY AgreeType
    <3> QED
      BY <1>0, <3>1 DEF GridInv, TypeOK, FollowTypeOK, ListenTypeOK
  <2> QED
    BY <2>1
<1>1. ASSUME NEW k \in Keys, Publish(k) \/ TimestampResolved(k) \/ RemovePost(k) \/ RemoveEntry(k)
      PROVE  ListenTypeOK' /\ Agree(grid')
  BY <1>0, <1>1, <1>a DEF Publish, TimestampResolved, RemovePost, RemoveEntry, ListenTypeOK,
     listenVars, screenVars
<1>2. CASE Acknowledged \/ Rejected \/ OnClick
  BY <1>0, <1>2 DEF Acknowledged, Rejected, OnClick, ListenTypeOK, serverVars, listenVars, screenVars
<1>3. CASE Unfollow
  BY <1>0, <1>3, EmptyAgrees DEF Unfollow, Cleanup, ListenTypeOK, serverVars, listenVars
<1>4. CASE Follow
  BY <1>0, <1>4, <1>b DEF Follow, ListenTypeOK, serverVars, screenVars
<1>5. CASE OnFollowingChange
  <2>1. loads' \in 0 .. MaxLoads
    BY <1>0, <1>5, <1>b DEF OnFollowingChange, ListenTypeOK
  <2> QED
    BY <1>0, <1>5, <2>1 DEF OnFollowingChange, ListenTypeOK, serverVars, screenVars
<1>6. ASSUME NEW l \in Loads, NEW k \in Keys, OnChildAdded(l, k)
      PROVE  ListenTypeOK' /\ Agree(grid')
  BY <1>0, <1>6 DEF OnChildAdded, ListenTypeOK, serverVars, screenVars
<1>7. ASSUME NEW l \in Loads, NEW k \in Keys, OnChildRemoved(l, k)
      PROVE  ListenTypeOK' /\ Agree(grid')
  BY <1>0, <1>7, RemoveKeyAgrees DEF OnChildRemoved, ListenTypeOK, serverVars
<1>8. ASSUME NEW l \in Loads, NEW k \in Keys, OnDataChange(l, k)
      PROVE  ListenTypeOK' /\ Agree(grid')
  <2>1. post[k] \in Values
    BY <1>0 DEF ListenTypeOK
  <2>2. Agree(grid')
    BY <1>0, <1>8, <2>1, ModelOfType, AddOrUpdateAgrees DEF OnDataChange
  <2> QED
    BY <1>0, <1>8, <2>1, <2>2 DEF OnDataChange, ListenTypeOK, serverVars
<1>9. CASE LayoutCrashes \/ OnDestroy
  BY <1>0, <1>9 DEF LayoutCrashes, OnDestroy, ListenTypeOK, serverVars, listenVars
<1>10. CASE UNCHANGED vars
  BY <1>0, <1>10 DEF vars, ListenTypeOK, serverVars, listenVars, screenVars
<1> QED
  BY <1>1, <1>2, <1>3, <1>4, <1>5, <1>6, <1>7, <1>8, <1>9, <1>10 DEF Next

(* Every field has its type in every reachable state; nothing but the three *)
(* operations on the grid needs more than the types to show it.             *)
THEOREM TypeCorrect == Spec => []TypeOK
<1>1. GridInv => TypeOK
  BY DEF GridInv
<1> QED
  BY <1>1, GridInit, GridStep, PTL DEF Spec

LEMMA AgreementShows == Agree(grid) => CollectionsAgree
<1> SUFFICES ASSUME Agree(grid) PROVE CollectionsAgree
  OBVIOUS
<1> DEFINE rows == grid.mModels
           keys == grid.mKeys
           map == grid.mModelKeys
<1>1. /\ RowsAgree(rows, map) /\ KeysAgree(keys, map) /\ Len(rows) <= Len(keys)
  BY DEF Agree
<1>2. \A k \in Keys : /\ Exists(grid, k) <=> k \in DOMAIN map
                      /\ Shown(k) <=> k \in DOMAIN map /\ map[k] # NoModel
                      /\ k \in DOMAIN map => Get(grid, k) = map[k]
  BY DEF Shown, Exists, Get
<1>3. \A x : Places(x) = {i \in DOMAIN rows : rows[i] = x}
  BY DEF Places, Rows
<1> HIDE DEF rows, keys, map
<1>4. DOMAIN keys = 1 .. Len(keys) /\ DOMAIN rows = 1 .. Len(rows)
  BY <1>1 DEF KeysAgree, RowsAgree
<1>5. DOMAIN map \subseteq Keys
  BY <1>1 DEF RowsAgree
<1>6. IsInjective(keys)
  BY <1>1, <1>4 DEF KeysAgree, IsInjective
<1>7. ToSet(keys) = {k \in Keys : Exists(grid, k)}
  BY <1>1, <1>2, <1>4, <1>5 DEF KeysAgree, ToSet
<1>8. ToSet(rows) \ {NoModel} = {Get(grid, k) : k \in {j \in Keys : Shown(j)}}
  <2>1. ASSUME NEW i \in 1 .. Len(rows), rows[i] # NoModel
        PROVE  \E k \in Keys : Shown(k) /\ rows[i] = Get(grid, k)
    <3>1. rows[i].key \in DOMAIN map /\ map[rows[i].key] = rows[i]
      BY <1>1, <2>1 DEF RowsAgree
    <3> QED
      BY <1>2, <1>5, <2>1, <3>1
  <2>2. ASSUME NEW k \in Keys, Shown(k)
        PROVE  Get(grid, k) # NoModel /\ \E i \in 1 .. Len(rows) : rows[i] = Get(grid, k)
    <3>1. k \in DOMAIN map /\ map[k] # NoModel /\ Get(grid, k) = map[k]
      BY <1>2, <2>2
    <3> QED
      BY <1>1, <3>1 DEF RowsAgree
  <2> QED
    BY <1>4, <2>1, <2>2 DEF ToSet
<1>9. ASSUME NEW k \in Keys, Shown(k)
      PROVE  Cardinality(Places(Get(grid, k))) = 1
  <2>1. k \in DOMAIN map /\ map[k] # NoModel /\ Get(grid, k) = map[k]
    BY <1>2, <1>9
  <2>2. PICK i \in 1 .. Len(rows) : rows[i] = map[k]
    BY <1>1, <2>1 DEF RowsAgree
  <2>3. \A j \in 1 .. Len(rows) : rows[j] = map[k] => j = i
    BY <1>1, <2>1, <2>2 DEF RowsAgree
  <2>4. Places(Get(grid, k)) = {i}
    BY <1>3, <1>4, <2>1, <2>2, <2>3
  <2> QED
    BY <2>4, FS_Singleton
<1> QED
  BY <1>1, <1>6, <1>7, <1>8, <1>9 DEF CollectionsAgree, rows, keys, map

(* Whatever the listeners of several calls of loadPosts report, in whatever  *)
(* order, and however often cleanup empties the grid: no post has two rows,  *)
(* none lacks a key, and every row with a model has the last one stored.     *)
THEOREM CollectionsKept == Spec => []CollectionsAgree
<1>1. GridInv => CollectionsAgree
  BY AgreementShows DEF GridInv
<1> QED
  BY <1>1, GridInit, GridStep, PTL DEF Spec

-----------------------------------------------------------------------------
(* The listeners: what they have heard, and what the grid has of it. *)

Heard(k) == \E l \in Loads : seen[l][k] # NotListening

ListenersAgree ==
    \A l \in Loads, k \in Keys :
        /\ k \in reported[l] => seen[l][k] # NotListening
        /\ seen[l][k] # NotListening => l <= loads
        /\ seen[l][k] \in Versions /\ post[k] # Null => seen[l][k] <= post[k]

(* A row without a model is that of a removed post, and no row is ahead of  *)
(* the post.                                                                *)
GridFollows ==
    \A k \in Keys : Exists(grid, k) =>
        /\ Heard(k)
        /\ Get(grid, k) = NoModel => post[k] = Null
        /\ Get(grid, k) # NoModel /\ post[k] # Null => Get(grid, k).version <= post[k]

ListenInv == GridInv /\ ListenersAgree /\ GridFollows

LEMMA ListenInit == Init => ListenInv
<1> SUFFICES ASSUME Init PROVE ListenInv
  OBVIOUS
<1>1. \A l \in Loads, k \in Keys : seen[l][k] = NotListening /\ k \notin reported[l]
  BY DEF Init
<1>2. NotListening \notin Versions
  BY DEF NotListening, Versions
<1>3. \A k \in Keys : ~Exists(grid, k)
  BY EmptyAgrees DEF Init, Exists
<1> QED
  BY GridInit, <1>1, <1>2, <1>3 DEF ListenInv, ListenersAgree, GridFollows

(* What a value listener's answer does to the row of its post.               *)
LEMMA AnswerStored ==
    ASSUME ListenInv, NEW l \in Loads, NEW k \in Keys, OnDataChange(l, k)
    PROVE  /\ Exists(grid', k)
           /\ Get(grid', k) = NoModel => post[k] = Null
           /\ Get(grid', k) # NoModel /\ post[k] # Null => Get(grid', k).version = post[k]
           /\ \A j \in Keys \ {k} : /\ Exists(grid', j) <=> Exists(grid, j)
                                  /\ Get(grid', j) = Get(grid, j)
<1> DEFINE model == ModelOf(k, post[k])
           map == grid.mModelKeys
           map2 == (grid').mModelKeys
<1>1. grid' = AddOrUpdate(grid, k, model)
  BY DEF OnDataChange
<1>2. post[k] \in Values
  BY DEF ListenInv, GridInv, TypeOK
<1>3. model \in ModelsFor(k)
  BY <1>2, ModelOfType
<1>4. \/ map2 = PutIn(map, k, model)
      \/ grid' = grid /\ Exists(grid, k) /\ Get(grid, k) = NoModel
  BY <1>1, <1>3, AddOrUpdateAgrees DEF ListenInv, GridInv
<1>5. CASE grid' = grid /\ Exists(grid, k) /\ Get(grid, k) = NoModel
  BY <1>5 DEF ListenInv, GridFollows
<1>6. CASE map2 = PutIn(map, k, model)
  <2>1. /\ DOMAIN map2 = DOMAIN map \cup {k} /\ map2[k] = model
        /\ \A j \in DOMAIN map : j # k => map2[j] = map[j]
    BY <1>6 DEF PutIn
  <2>2. /\ model = NoModel => post[k] = Null
        /\ post[k] # Null => model.version = post[k]
    <3>1. CASE post[k] = Null
      BY <3>1
    <3>2. CASE post[k] # Null
      <4>1. model = [key |-> k, version |-> post[k]]
        BY <3>2 DEF ModelOf
      <4>2. model.version = post[k] /\ NoModel.version = Null
        BY <4>1 DEF NoModel
      <4> QED
        BY <3>2, <4>2
    <3> QED
      BY <3>1, <3>2
  <2> HIDE DEF model
  <2> QED
    BY <2>1, <2>2 DEF Exists, Get
<1> QED
  BY <1>4, <1>5, <1>6

LEMMA ListenStep == ListenInv /\ [Next]_vars => ListenInv'
<1> SUFFICES ASSUME ListenInv, [Next]_vars PROVE ListenersAgree' /\ GridFollows'
  BY GridStep DEF ListenInv
<1>0. /\ post \in [Keys -> Values] /\ reported \in [Loads -> SUBSET Keys]
      /\ seen \in [Loads -> [Keys -> Values \cup {NotListening, Unseen}]]
      /\ Loads \subseteq Nat /\ loads \in Nat /\ Values \subseteq Nat
  BY DEF ListenInv, GridInv, TypeOK, Loads, Values, Versions, Null
<1>a. ListenersAgree /\ GridFollows
  BY DEF ListenInv
<1>b. /\ NotListening \notin Values /\ Unseen \notin Values /\ NotListening # Unseen
      /\ NotListening \notin Versions
      /\ \A v \in Versions : v \in Nat /\ 1 <= v /\ v <= 2
      /\ Null = 0 /\ \A v \in Values : v # Null <=> v \in Versions
  BY DEF Values, Versions, Null, NotListening, Unseen
<1>c. \A k \in Keys : Exists(grid, k) /\ Get(grid, k) # NoModel => Get(grid, k).version \in Versions
  <2> SUFFICES ASSUME NEW k \in Keys, Exists(grid, k), Get(grid, k) # NoModel
               PROVE  Get(grid, k).version \in Versions
    OBVIOUS
  <2>1. Get(grid, k) \in Row
    BY DEF ListenInv, GridInv, Agree, RowsAgree, Exists, Get
  <2> QED
    BY <2>1 DEF Row, Model
<1>1. ASSUME UNCHANGED <<post, reported, seen>>, loads' = loads \/ LoadPosts,
             UNCHANGED grid \/ Cleanup
      PROVE  ListenersAgree' /\ GridFollows'
  <2>1. ListenersAgree'
    <3>1. loads' \in Nat /\ loads <= loads'
      BY <1>0, <1>1 DEF LoadPosts
    <3> QED
      BY <1>0, <1>1, <1>a, <3>1 DEF ListenersAgree
  <2>2. GridFollows'
    <3>1. CASE UNCHANGED grid
      BY <1>1, <1>a, <3>1 DEF GridFollows, Heard
    <3>2. CASE Cleanup
      <4>1. \A k \in Keys : ~Exists(grid', k)
        BY <3>2, EmptyAgrees DEF Cleanup, Exists
      <4> QED
        BY <4>1 DEF GridFollows
    <3> QED
      BY <1>1, <3>1, <3>2
  <2> QED
    BY <2>1, <2>2
<1>2. ASSUME NEW k \in Keys, Publish(k)
      PROVE  ListenersAgree' /\ GridFollows'
  <2>1. /\ \A l \in Loads : seen[l][k] = NotListening
        /\ post' = [post EXCEPT ![k] = 1] /\ UNCHANGED <<loads, reported, seen, grid>>
    BY <1>2 DEF Publish, listenVars, screenVars
  <2>2. \A j \in Keys : j # k => post'[j] = post[j]
    BY <1>0, <2>1
  <2>3. ~Exists(grid, k)
    BY <1>a, <2>1 DEF GridFollows, Heard
  <2>4. ListenersAgree'
    BY <1>0, <1>a, <1>b, <2>1, <2>2 DEF ListenersAgree
  <2>5. GridFollows'
    BY <1>a, <2>1, <2>2, <2>3 DEF GridFollows, Heard
  <2> QED
    BY <2>4, <2>5
<1>3. ASSUME NEW k \in Keys, TimestampResolved(k) \/ RemovePost(k)
      PROVE  ListenersAgree' /\ GridFollows'
  <2>1. /\ post[k] # Null /\ UNCHANGED <<loads, reported, seen, grid>>
        /\ \A j \in Keys : j # k => post'[j] = post[j]
        /\ post'[k] # Null => post[k] = 1 /\ post'[k] = 2
    BY <1>0, <1>3, <1>b DEF TimestampResolved, RemovePost, listenVars, screenVars
  <2>2. ListenersAgree'
    BY <1>0, <1>a, <1>b, <2>1 DEF ListenersAgree
  <2>3. GridFollows'
    <3> SUFFICES ASSUME NEW j \in Keys, Exists(grid, j)
                 PROVE  /\ Heard(j)'
                        /\ Get(grid, j) = NoModel => post'[j] = Null
                        /\ Get(grid, j) # NoModel /\ post'[j] # Null
                              => Get(grid, j).version <= post'[j]
      BY <2>1 DEF GridFollows
    <3>1. /\ Heard(j)
          /\ Get(grid, j) = NoModel => post[j] = Null
          /\ Get(grid, j) # NoModel /\ post[j] # Null => Get(grid, j).version <= post[j]
      BY <1>a DEF GridFollows
    <3>2. Heard(j)'
      BY <2>1, <3>1 DEF Heard
    <3>3. CASE j # k
      BY <2>1, <3>1, <3>2, <3>3
    <3>4. CASE j = k
      BY <1>b, <1>c, <2>1, <3>1, <3>2, <3>4
    <3> QED
      BY <3>3, <3>4
  <2> QED
    BY <2>2, <2>3
<1>4. ASSUME NEW l \in Loads, NEW k \in Keys, OnChildAdded(l, k)
      PROVE  ListenersAgree' /\ GridFollows'
  <2>1. /\ l <= loads /\ reported' = [reported EXCEPT ![l] = @ \cup {k}]
        /\ seen' = [seen EXCEPT ![l][k] = Unseen] /\ UNCHANGED <<post, loads, grid>>
    BY <1>4 DEF OnChildAdded, serverVars, screenVars
  <2>2. \A m \in Loads, j \in Keys :
            seen'[m][j] = IF m = l /\ j = k THEN Unseen ELSE seen[m][j]
    BY <1>0, <2>1
  <2>3. \A m \in Loads, j \in Keys : j \in reported'[m] => j \in reported[m] \/ (m = l /\ j = k)
    BY <1>0, <2>1
  <2>4. Unseen \notin Versions /\ Unseen # NotListening
    BY <1>b DEF Values
  <2>5. ListenersAgree'
    BY <1>a, <2>1, <2>2, <2>3, <2>4 DEF ListenersAgree
  <2>6. \A j \in Keys : Heard(j) => Heard(j)'
    BY <2>2, <2>4 DEF Heard
  <2>7. GridFollows'
    BY <1>a, <2>1, <2>6 DEF GridFollows
  <2> QED
    BY <2>5, <2>7
<1>5. ASSUME NEW l \in Loads, NEW k \in Keys, OnChildRemoved(l, k)
      PROVE  ListenersAgree' /\ GridFollows'
  <2>1. /\ reported' = [reported EXCEPT ![l] = @ \ {k}] /\ grid' = RemoveKey(grid, k)
        /\ UNCHANGED <<post, loads, seen>>
    BY <1>5 DEF OnChildRemoved, serverVars
  <2>2. \A m \in Loads : reported'[m] \subseteq reported[m]
    BY <1>0, <2>1
  <2>3. ListenersAgree'
    BY <1>a, <2>1, <2>2 DEF ListenersAgree
  <2>4. (grid').mModelKeys = ForgetIn(grid.mModelKeys, k)
    BY <2>1, RemoveKeyMap
  <2>5. \A j \in Keys : Exists(grid', j) => Exists(grid, j) /\ Get(grid', j) = Get(grid, j)
    BY <2>4 DEF ForgetIn, Exists, Get
  <2>6. GridFollows'
    BY <1>a, <2>1, <2>5 DEF GridFollows, Heard
  <2> QED
    BY <2>3, <2>6
<1>6. ASSUME NEW l \in Loads, NEW k \in Keys, OnDataChange(l, k)
      PROVE  ListenersAgree' /\ GridFollows'
  <2>1. /\ seen[l][k] # NotListening /\ seen' = [seen EXCEPT ![l][k] = post[k]]
        /\ UNCHANGED <<post, loads, reported>>
    BY <1>6 DEF OnDataChange, serverVars
  <2>2. \A m \in Loads, j \in Keys :
            seen'[m][j] = IF m = l /\ j = k THEN post[k] ELSE seen[m][j]
    BY <1>0, <2>1
  <2>3. post[k] # NotListening /\ post[k] \in Nat
    BY <1>0, <1>b
  <2>4. ListenersAgree'
    BY <1>a, <2>1, <2>2, <2>3 DEF ListenersAgree
  <2>5. Heard(k)' /\ \A j \in Keys : Heard(j) => Heard(j)'
    BY <2>2, <2>3 DEF Heard
  <2>6. GridFollows'
    <3> SUFFICES ASSUME NEW j \in Keys, Exists(grid', j)
                 PROVE  /\ Heard(j)'
                        /\ Get(grid', j) = NoModel => post[j] = Null
                        /\ Get(grid', j) # NoModel /\ post[j] # Null
                              => Get(grid', j).version <= post[j]
      BY <2>1 DEF GridFollows
    <3>1. CASE j = k
      BY <1>6, <2>3, <2>5, <3>1, AnswerStored
    <3>2. CASE j # k
      BY <1>6, <1>a, <2>5, <3>2, AnswerStored DEF GridFollows
    <3> QED
      BY <3>1, <3>2
  <2> QED
    BY <2>4, <2>6
<1> QED
  <2>1. ASSUME NEW k \in Keys, RemoveEntry(k)
        PROVE  UNCHANGED <<post, reported, seen, loads, grid>>
    BY <2>1 DEF RemoveEntry, listenVars, screenVars
  <2>2. CASE \/ Acknowledged \/ Rejected \/ OnClick \/ Unfollow \/ Follow \/ OnFollowingChange
             \/ LayoutCrashes \/ OnDestroy \/ UNCHANGED vars
    <3>1. UNCHANGED <<post, reported, seen>>
      BY <2>2 DEF Acknowledged, Rejected, OnClick, Unfollow, Follow, OnFollowingChange,
         LayoutCrashes, OnDestroy, vars, serverVars, listenVars
    <3>2. loads' = loads \/ LoadPosts
      BY <2>2 DEF Acknowledged, Rejected, OnClick, Unfollow, Follow, OnFollowingChange,
         LayoutCrashes, OnDestroy, vars, listenVars
    <3>3. UNCHANGED grid \/ Cleanup
      BY <2>2 DEF Acknowledged, Rejected, OnClick, Unfollow, Follow, OnFollowingChange,
         LayoutCrashes, OnDestroy, vars, screenVars
    <3> QED
      BY <1>1, <3>1, <3>2, <3>3
  <2> QED
    BY <1>1, <1>2, <1>3, <1>4, <1>5, <1>6, <2>1, <2>2 DEF Next

-----------------------------------------------------------------------------
(* A followed user's posts are in the grid, or on their way. *)

(* The grid has all that the listeners of this call have been told of.       *)
Covers(l) ==
    \A k \in Keys :
        seen[l][k] \in Versions /\ k \in entries /\ post[k] # Null =>
            Shown(k) /\ seen[l][k] <= Get(grid, k).version

Announced == \E i \in 1 .. Len(announced) : announced[i]
Covered == \E l \in Loads : l <= loads /\ Covers(l)

(* While the user is followed, a call of loadPosts has what the grid lacks,  *)
(* or mFollowingListener is yet to make one.                                 *)
FollowInv == pc = "shown" /\ marshmallow /\ Following => Announced \/ Covered

FollowedInv == ListenInv /\ FollowInv

LEMMA FollowInit == Init => FollowInv
<1> SUFFICES ASSUME Init, Following PROVE Announced
  BY DEF FollowInv
<1>1. followed \in BOOLEAN /\ announced = <<followed>> /\ writes = << >>
  BY DEF Init
<1>2. followed
  BY <1>1 DEF Following, View
<1>3. 1 \in 1 .. Len(announced) /\ announced[1] = followed
  BY <1>1
<1> QED
  BY <1>2, <1>3 DEF Announced

(* A new call of loadPosts has everything to fetch.                          *)
LEMMA NewLoadCovers ==
    ASSUME ListenInv, LoadPosts, UNCHANGED <<post, entries, seen, grid>>
    PROVE  Covered'
<1>1. loads \in Nat /\ loads + 1 \in Loads /\ loads' = loads + 1
  BY BoundAssumption DEF ListenInv, GridInv, TypeOK, LoadPosts, Loads
<1>2. \A k \in Keys : seen[loads + 1][k] = NotListening
  BY <1>1 DEF ListenInv, ListenersAgree
<1>3. NotListening \notin Versions
  BY DEF NotListening, Versions
<1>4. PICK c \in Loads : c = loads + 1
  BY <1>1
<1>5. c <= loads' /\ \A k \in Keys : seen'[c][k] \notin Versions
  BY <1>1, <1>2, <1>3, <1>4
<1>6. Covers(c)'
  BY <1>5 DEF Covers
<1> QED
  BY <1>5, <1>6 DEF Covered

(* What the listeners and the author do leaves a covering call covering.     *)
LEMMA CoversKept ==
    ASSUME ListenInv, [Next]_vars, NEW c \in Loads, Covers(c),
           \/ \E k \in Keys :
                  Publish(k) \/ TimestampResolved(k) \/ RemovePost(k) \/ RemoveEntry(k)
           \/ \E l \in Loads, k \in Keys :
                  OnChildAdded(l, k) \/ OnChildRemoved(l, k) \/ OnDataChange(l, k)
           \/ UNCHANGED <<post, entries, seen, grid>>
    PROVE  Covers(c)'
<1>0. /\ post \in [Keys -> Values]
      /\ seen \in [Loads -> [Keys -> Values \cup {NotListening, Unseen}]]
  BY DEF ListenInv, GridInv, TypeOK
<1>a. ListenersAgree /\ GridFollows
  BY DEF ListenInv
<1>b. /\ NotListening \notin Versions /\ Unseen \notin Versions
      /\ \A v \in Values : v # Null <=> v \in Versions
  BY DEF Values, Versions, Null, NotListening, Unseen
<1>1. CASE UNCHANGED <<post, entries, seen, grid>>
  BY <1>1 DEF Covers, Shown
<1>2. ASSUME NEW k \in Keys, Publish(k) PROVE Covers(c)'
  <2>1. /\ seen[c][k] = NotListening /\ UNCHANGED <<seen, grid>>
        /\ \A j \in Keys : j # k => post'[j] = post[j] /\ (j \in entries' <=> j \in entries)
    BY <1>0, <1>2 DEF Publish, listenVars, screenVars
  <2> QED
    BY <1>b, <2>1 DEF Covers, Shown
<1>3. ASSUME NEW k \in Keys, TimestampResolved(k) \/ RemovePost(k) PROVE Covers(c)'
  <2>1. /\ post[k] # Null /\ UNCHANGED <<seen, grid, entries>>
        /\ \A j \in Keys : j # k => post'[j] = post[j]
    BY <1>0, <1>3 DEF TimestampResolved, RemovePost, listenVars, screenVars, Null
  <2> QED
    BY <2>1 DEF Covers, Shown
<1>4. ASSUME NEW k \in Keys, RemoveEntry(k) PROVE Covers(c)'
  <2>1. UNCHANGED <<post, seen, grid>> /\ entries' \subseteq entries
    BY <1>4 DEF RemoveEntry, listenVars, screenVars
  <2> QED
    BY <2>1 DEF Covers, Shown
<1>5. ASSUME NEW l \in Loads, NEW k \in Keys, OnChildAdded(l, k) PROVE Covers(c)'
  <2>1. /\ UNCHANGED <<post, entries, grid>>
        /\ \A j \in Keys : seen'[c][j] = Unseen \/ seen'[c][j] = seen[c][j]
    BY <1>0, <1>5 DEF OnChildAdded, serverVars, screenVars
  <2> QED
    BY <1>b, <2>1 DEF Covers, Shown
<1>6. ASSUME NEW l \in Loads, NEW k \in Keys, OnChildRemoved(l, k) PROVE Covers(c)'
  <2>1. /\ UNCHANGED <<post, entries, seen>> /\ k \notin entries /\ grid' = RemoveKey(grid, k)
    BY <1>6 DEF OnChildRemoved, serverVars
  <2>2. (grid').mModelKeys = ForgetIn(grid.mModelKeys, k)
    BY <2>1, RemoveKeyMap
  <2>3. \A j \in Keys : j # k => /\ Exists(grid', j) <=> Exists(grid, j)
                                /\ Get(grid', j) = Get(grid, j)
    BY <2>2 DEF ForgetIn, Exists, Get
  <2> QED
    BY <2>1, <2>3 DEF Covers, Shown
<1>7. ASSUME NEW l \in Loads, NEW k \in Keys, OnDataChange(l, k) PROVE Covers(c)'
  <2>1. /\ UNCHANGED <<post, entries>>
        /\ \A j \in Keys : \/ seen'[c][j] = seen[c][j]
                           \/ j = k /\ seen'[c][j] = post[k]
    BY <1>0, <1>7 DEF OnDataChange, serverVars
  <2>2. /\ Exists(grid', k)
        /\ Get(grid', k) = NoModel => post[k] = Null
        /\ Get(grid', k) # NoModel /\ post[k] # Null => Get(grid', k).version = post[k]
        /\ \A j \in Keys \ {k} : /\ Exists(grid', j) <=> Exists(grid, j)
                               /\ Get(grid', j) = Get(grid, j)
    BY <1>7, AnswerStored
  <2>3. /\ seen[c][k] \in Versions /\ post[k] # Null => seen[c][k] <= post[k]
        /\ post[k] <= post[k]
    <3>1. post[k] \in Nat
      BY <1>0 DEF Values, Versions, Null
    <3> QED
      BY <1>a, <3>1 DEF ListenersAgree
  <2> SUFFICES ASSUME NEW j \in Keys, seen'[c][j] \in Versions, j \in entries, post[j] # Null
               PROVE  /\ Exists(grid', j) /\ Get(grid', j) # NoModel
                      /\ seen'[c][j] <= Get(grid', j).version
    BY <2>1 DEF Covers, Shown
  <2>4. CASE j = k
    BY <2>1, <2>2, <2>3, <2>4
  <2>5. CASE j # k
    BY <2>1, <2>2, <2>5 DEF Covers, Shown
  <2> QED
    BY <2>4, <2>5
<1> QED
  BY <1>1, <1>2, <1>3, <1>4, <1>5, <1>6, <1>7

(* A change of the follow state that makes it true is announced.             *)
LEMMA AnnounceTells ==
    ASSUME announced \in Seq(BOOLEAN), Following \in BOOLEAN,
           NEW stored \in BOOLEAN, NEW pending \in Seq(BOOLEAN),
           Announce(stored, pending), View(stored, pending)
    PROVE  /\ ~Following => Announced'
           /\ Announced => Announced'
<1> DEFINE value == View(stored, pending)
<1>1. value \in BOOLEAN
  BY ViewType
<1>2. announced' = IF value # Following THEN Append(announced, value) ELSE announced
  BY DEF Announce
<1>3. value
  OBVIOUS
<1> HIDE DEF value
<1>4. CASE Following
  <2>1. announced' = announced
    BY <1>2, <1>3, <1>4
  <2> QED
    BY <1>4, <2>1 DEF Announced
<1>5. CASE ~Following
  <2>1. announced' = Append(announced, value)
    BY <1>2, <1>3, <1>5
  <2>2. Len(announced) + 1 \in 1 .. Len(announced') /\ announced'[Len(announced) + 1] = value
    BY <1>1, <2>1
  <2>3. Announced'
    BY <1>3, <2>2 DEF Announced
  <2> QED
    BY <2>3
<1> QED
  BY <1>4, <1>5

LEMMA FollowStep == FollowedInv /\ [Next]_vars => FollowInv'
<1> SUFFICES ASSUME FollowedInv, [Next]_vars, pc' = "shown", marshmallow', Following'
             PROVE  Announced' \/ Covered'
  BY DEF FollowInv
<1>0. /\ ListenInv /\ TypeOK /\ FollowInv
      /\ writes \in Seq(BOOLEAN) /\ reads \in Seq(BOOLEAN) /\ announced \in Seq(BOOLEAN)
      /\ followed \in BOOLEAN /\ Following \in BOOLEAN
  BY FollowTypes DEF FollowedInv, ListenInv, GridInv
<1>a. pc = "shown" /\ marshmallow
  BY DEF Next, Publish, TimestampResolved, RemovePost, RemoveEntry, Acknowledged, Rejected,
     OnClick, Unfollow, Follow, OnFollowingChange, OnChildAdded, OnChildRemoved, OnDataChange,
     LayoutCrashes, OnDestroy, vars, screenVars
<1>b. Following => Announced \/ Covered
  BY <1>0, <1>a DEF FollowInv
<1>c. ASSUME UNCHANGED loads,
             \/ \E k \in Keys :
                    Publish(k) \/ TimestampResolved(k) \/ RemovePost(k) \/ RemoveEntry(k)
             \/ \E l \in Loads, k \in Keys :
                    OnChildAdded(l, k) \/ OnChildRemoved(l, k) \/ OnDataChange(l, k)
             \/ UNCHANGED <<post, entries, seen, grid>>
      PROVE  Covered => Covered'
  BY <1>0, <1>c, CoversKept DEF Covered
<1>1. ASSUME UNCHANGED followVars, UNCHANGED loads,
             \/ \E k \in Keys :
                    Publish(k) \/ TimestampResolved(k) \/ RemovePost(k) \/ RemoveEntry(k)
             \/ \E l \in Loads, k \in Keys :
                    OnChildAdded(l, k) \/ OnChildRemoved(l, k) \/ OnDataChange(l, k)
             \/ UNCHANGED <<post, entries, seen, grid>>
      PROVE  Announced' \/ Covered'
  <2>1. Following /\ (Announced => Announced')
    BY <1>1 DEF followVars, Following, Announced
  <2> QED
    BY <1>1, <1>b, <1>c, <2>1
<1>2. CASE Acknowledged
  <2>1. /\ writes # << >> /\ followed' = Head(writes) /\ writes' = Tail(writes)
        /\ UNCHANGED <<announced, loads, post, entries, seen, grid>>
    BY <1>2 DEF Acknowledged, serverVars, listenVars, screenVars
  <2>2. Following
    <3>1. CASE Tail(writes) = << >>
      <4>1. Len(writes) = 1
        BY <1>0, <2>1, <3>1, TailElements
      <4>2. Last(writes) = Head(writes)
        BY <1>0, <2>1, <4>1 DEF Last
      <4> QED
        BY <2>1, <3>1, <4>2 DEF Following, View
    <3>2. CASE Tail(writes) # << >>
      <4>1. Len(Tail(writes)) = Len(writes) - 1 /\ Len(writes) - 1 \in 1 .. Len(writes) - 1
        BY <1>0, <2>1, <3>2
      <4>2. Tail(writes)[Len(writes) - 1] = writes[Len(writes)]
        BY <1>0, <2>1, <4>1
      <4>3. Last(Tail(writes)) = Last(writes)
        BY <4>1, <4>2 DEF Last
      <4> QED
        BY <2>1, <3>2, <4>3 DEF Following, View
    <3> QED
      BY <3>1, <3>2
  <2>3. Announced => Announced'
    BY <2>1 DEF Announced
  <2> QED
    BY <1>b, <1>c, <2>1, <2>2, <2>3
<1>3. CASE Rejected
  <2>1. /\ writes # << >> /\ writes' = Tail(writes) /\ Announce(followed, Tail(writes))
        /\ UNCHANGED <<followed, loads, post, entries, seen, grid>>
    BY <1>3 DEF Rejected, serverVars, listenVars, screenVars
  <2>2. View(followed, Tail(writes)) /\ Tail(writes) \in Seq(BOOLEAN)
    BY <1>0, <2>1 DEF Following
  <2>3. (~Following => Announced') /\ (Announced => Announced')
    BY <1>0, <2>1, <2>2, AnnounceTells
  <2> QED
    BY <1>b, <1>c, <2>1, <2>3
<1>4. CASE OnClick
  <2>1. UNCHANGED <<followed, writes, announced, loads, post, entries, seen, grid>>
    BY <1>4 DEF OnClick, serverVars, listenVars, screenVars
  <2>2. Following /\ (Announced => Announced')
    BY <2>1 DEF Following, Announced
  <2> QED
    BY <1>b, <1>c, <2>1, <2>2
<1>5. CASE Unfollow
  <2>1. Following' = View(followed, Append(writes, FALSE))
    BY <1>5 DEF Unfollow, Write, Following
  <2>2. View(followed, Append(writes, FALSE)) = FALSE
    <3>1. /\ Append(writes, FALSE) # << >>
          /\ Append(writes, FALSE)[Len(Append(writes, FALSE))] = FALSE
      <4>1. FALSE \in BOOLEAN
        OBVIOUS
      <4> QED
        BY <1>0, <4>1, AppendElements
    <3> QED
      BY <3>1 DEF View, Last
  <2> QED
    BY <2>1, <2>2
<1>6. CASE Follow
  BY <1>0, <1>6, NewLoadCovers DEF Follow, serverVars, screenVars
<1>7. CASE OnFollowingChange
  <2>1. /\ announced # << >> /\ announced' = Tail(announced)
        /\ IF LoadsPosts(Head(announced)) THEN LoadPosts ELSE UNCHANGED loads
        /\ UNCHANGED <<followed, writes, marshmallow, post, entries, seen, grid>>
    BY <1>7 DEF OnFollowingChange, serverVars, screenVars
  <2>2. CASE LoadsPosts(Head(announced))
    BY <1>0, <2>1, <2>2, NewLoadCovers
  <2>3. CASE ~LoadsPosts(Head(announced))
    <3>1. ~Head(announced)
      BY <1>a, <2>3 DEF LoadsPosts
    <3>2. Announced => Announced'
      <4> SUFFICES ASSUME NEW i \in 1 .. Len(announced), announced[i] PROVE Announced'
        BY DEF Announced
      <4>1. /\ Len(announced) \in Nat /\ Head(announced) = announced[1]
            /\ Len(Tail(announced)) = Len(announced) - 1
            /\ \A j \in 1 .. Len(announced) - 1 : Tail(announced)[j] = announced[j + 1]
        BY <1>0, <2>1, TailElements
      <4>2. i # 1
        BY <3>1, <4>1
      <4>3. i - 1 \in 1 .. Len(announced) - 1 /\ (i - 1) + 1 = i
        BY <4>1, <4>2
      <4>4. i - 1 \in 1 .. Len(announced') /\ announced'[i - 1] = announced[i]
        BY <2>1, <4>1, <4>3
      <4> QED
        BY <4>4 DEF Announced
    <3>3. Following
      BY <2>1 DEF Following
    <3> QED
      BY <1>b, <1>c, <2>1, <2>3, <3>2, <3>3
  <2> QED
    BY <2>2, <2>3
<1>8. ~LayoutCrashes /\ ~OnDestroy
  BY DEF LayoutCrashes, OnDestroy
<1>9. CASE UNCHANGED vars
  BY <1>1, <1>9 DEF vars, serverVars, listenVars, screenVars
<1> QED
  <2>1. ASSUME NEW k \in Keys,
               Publish(k) \/ TimestampResolved(k) \/ RemovePost(k) \/ RemoveEntry(k)
        PROVE  Announced' \/ Covered'
    <3>1. UNCHANGED followVars /\ UNCHANGED loads
      BY <2>1 DEF Publish, TimestampResolved, RemovePost, RemoveEntry, listenVars
    <3> QED
      BY <1>1, <2>1, <3>1
  <2>2. ASSUME NEW l \in Loads, NEW k \in Keys,
               OnChildAdded(l, k) \/ OnChildRemoved(l, k) \/ OnDataChange(l, k)
        PROVE  Announced' \/ Covered'
    <3>1. UNCHANGED followVars /\ UNCHANGED loads
      BY <2>2 DEF OnChildAdded, OnChildRemoved, OnDataChange
    <3> QED
      BY <1>1, <2>2, <3>1
  <2> QED
    BY <1>2, <1>3, <1>4, <1>5, <1>6, <1>7, <1>8, <1>9, <2>1, <2>2 DEF Next

LEMMA QuietShows == FollowedInv => FollowedPostsShown
<1> SUFFICES ASSUME FollowedInv, pc = "shown", Quiet, Following, marshmallow,
                    NEW k \in entries, post[k] # Null
             PROVE  ModelOf(k, post[k]) \in ToSet(grid.mModels)
  BY DEF FollowedPostsShown
<1>0. /\ TypeOK /\ Agree(grid) /\ ListenersAgree /\ GridFollows /\ FollowInv
  BY DEF FollowedInv, ListenInv, GridInv
<1>1. k \in Keys /\ post[k] \in Versions /\ post[k] \in Nat
  BY <1>0 DEF TypeOK, Values, Versions, Null
<1>2. ~Announced
  BY DEF Quiet, Announced
<1>3. PICK l \in Loads : l <= loads /\ Covers(l)
  BY <1>0, <1>2 DEF FollowInv, Covered
<1>4. seen[l][k] = post[k]
  <2>1. k \in reported[l]
    BY <1>3 DEF Quiet
  <2>2. seen[l][k] # NotListening
    BY <1>0, <1>1, <2>1 DEF ListenersAgree
  <2> QED
    BY <1>1, <2>2 DEF Quiet
<1>5. Shown(k) /\ post[k] <= Get(grid, k).version
  BY <1>1, <1>3, <1>4 DEF Covers
<1>6. Get(grid, k).version <= post[k]
  BY <1>0, <1>1, <1>5 DEF GridFollows, Shown
<1>7. /\ Get(grid, k) \in Model /\ Get(grid, k).key = k
      /\ \E i \in 1 .. Len(grid.mModels) : grid.mModels[i] = Get(grid, k)
  BY <1>0, <1>5 DEF Shown, Exists, Get, Agree, RowsAgree, Row
<1>8. Get(grid, k).version = post[k]
  <2>1. Get(grid, k).version \in Nat
    BY <1>7 DEF Model, Versions
  <2> QED
    BY <1>1, <1>5, <1>6, <2>1
<1>9. Get(grid, k) = ModelOf(k, post[k])
  BY <1>7, <1>8 DEF Model, ModelOf
<1>10. DOMAIN grid.mModels = 1 .. Len(grid.mModels)
  BY <1>0 DEF Agree, RowsAgree
<1> QED
  BY <1>7, <1>9, <1>10 DEF ToSet

(* Once the listeners have had their answers, the posts of a followed user   *)
(* are in the grid as they are now, however clicks, rejected writes, posts   *)
(* that come and go and answers of the listeners interleaved.                *)
THEOREM PostsShown == Spec => []FollowedPostsShown
<1>1. Init => FollowedInv
  BY ListenInit, FollowInit DEF FollowedInv
<1>2. FollowedInv /\ [Next]_vars => FollowedInv'
  BY ListenStep, FollowStep DEF FollowedInv
<1> QED
  BY <1>1, <1>2, QuietShows, PTL DEF Spec
=============================================================================
