--------------------------- MODULE MergeLoopProofs --------------------------
(***************************************************************************)
(* The loops of mergePeers and mergeRelays compute MergeByID, for lists of *)
(* any length with any ids.                                                *)
(*                                                                         *)
(* The invariant has a part per loop: what its maps hold after the first   *)
(* pos - 1 elements. In the last loop the index may also lead to elements  *)
(* that this loop has appended; no upsert gets there, because their ids    *)
(* have been seen.                                                         *)
(***************************************************************************)
EXTENDS MergeLoop, MapDeltaProofs

IDsOf(list) == [i \in DOMAIN list |-> list[i].id]

\* A name for the empty string, whose literal the SMT backend does not take.
Blank == ""

\* No blank and no repeated id among the first n.
NormalizableUpTo(ids, n) ==
  /\ \A i \in 1 .. n : TrimSpace[ids[i]] # Blank
  /\ \A i, j \in 1 .. n : TrimSpace[ids[i]] = TrimSpace[ids[j]] => i = j

\* The first n ids, trimmed.
TrimmedUpTo(ids, n) == {TrimSpace[ids[i]] : i \in 1 .. n}

\* The positions of the first n elements of a list whose ids are not in gone.
StayUpTo(list, gone, n) == {i \in 1 .. n : list[i].id \notin gone}

\* The elements that stay after the first n upserts.
ReplacedUpTo(kept, ups, n) ==
  [k \in DOMAIN kept |->
     IF IsLast(kept, k) /\ \E j \in 1 .. n : TrimSpace[ups[j].id] = kept[k].id
     THEN ups[CHOOSE j \in 1 .. n : TrimSpace[ups[j].id] = kept[k].id]
     ELSE kept[k]]

\* The positions of the first n upserts that find nothing to replace.
FreshUpTo(kept, ups, n) ==
  {i \in 1 .. n : \A j \in DOMAIN kept : kept[j].id # TrimSpace[ups[i].id]}

\* The map m is an index of list: each id of an element, and its last position.
Indexes(m, list) ==
  /\ \A i \in DOMAIN list : list[i].id \in DOMAIN m
  /\ \A id \in DOMAIN m : /\ m[id] \in DOMAIN list /\ list[m[id]].id = id
                          /\ IsLast(list, m[id])

\* The same, but for the ids of extra, which may lead anywhere.
IndexesBut(m, list, extra) ==
  /\ \A i \in DOMAIN list : list[i].id \in DOMAIN m
  /\ \A id \in DOMAIN m \ extra : /\ m[id] \in DOMAIN list /\ list[m[id]].id = id
                                  /\ IsLast(list, m[id])

Gone(ids) == TrimmedUpTo(ids, Len(ids))

TypeInv ==
  /\ current \in Seq(Elements) /\ upserts \in Seq(Elements) /\ removeIDs \in Seq(IDs)
  /\ phase \in {"remove", "keep", "upsert", "done"}
  /\ pos \in Nat \ {0}
  /\ failed \in BOOLEAN /\ (failed => phase = "done")

Removing ==
  phase = "remove" =>
    /\ pos - 1 <= Len(removeIDs)
    /\ NormalizableUpTo(removeIDs, pos - 1)
    /\ remove = TrimmedUpTo(removeIDs, pos - 1)
    /\ result = <<>> /\ index = [id \in {} |-> 0] /\ seen = {}

Removed == NormalizableIDs(removeIDs) /\ remove = Gone(removeIDs)

Keeping ==
  phase = "keep" =>
    /\ pos - 1 <= Len(current)
    /\ Removed /\ seen = {}
    /\ result = Pick(current, StayUpTo(current, Gone(removeIDs), pos - 1))
    /\ Indexes(index, result)

Upserting ==
  phase = "upsert" =>
    /\ pos - 1 <= Len(upserts)
    /\ Removed
    /\ NormalizableUpTo(IDsOf(upserts), pos - 1)
    /\ seen = TrimmedUpTo(IDsOf(upserts), pos - 1)
    /\ result = ReplacedUpTo(Kept(current, removeIDs), upserts, pos - 1)
                \o Pick(upserts, FreshUpTo(Kept(current, removeIDs), upserts, pos - 1))
    /\ IndexesBut(index, Kept(current, removeIDs), seen)

LoopInv == TypeInv /\ Removing /\ Keeping /\ Upserting /\ LoopsMergeByID

-----------------------------------------------------------------------------
(* One more id *)

\* A new id keeps the ids distinct and joins the trimmed ones.
LEMMA NextID ==
  ASSUME NEW ids, NEW n \in Nat, NormalizableUpTo(ids, n),
         TrimSpace[ids[n + 1]] # Blank, TrimSpace[ids[n + 1]] \notin TrimmedUpTo(ids, n)
  PROVE  /\ NormalizableUpTo(ids, n + 1)
         /\ TrimmedUpTo(ids, n + 1) = TrimmedUpTo(ids, n) \cup {TrimSpace[ids[n + 1]]}
<1>1. \A i \in 1 .. n + 1 : i \in 1 .. n \/ i = n + 1  OBVIOUS
<1>2. \A i \in 1 .. n : i \in 1 .. n + 1 /\ TrimSpace[ids[i]] # TrimSpace[ids[n + 1]]
  BY DEF TrimmedUpTo
<1>3. n + 1 \in 1 .. n + 1  OBVIOUS
<1>4. NormalizableUpTo(ids, n + 1)  BY <1>1, <1>2 DEF NormalizableUpTo
<1>5. TrimmedUpTo(ids, n + 1) \subseteq TrimmedUpTo(ids, n) \cup {TrimSpace[ids[n + 1]]}
  BY <1>1 DEF TrimmedUpTo
<1>6. TrimmedUpTo(ids, n) \cup {TrimSpace[ids[n + 1]]} \subseteq TrimmedUpTo(ids, n + 1)
  BY <1>2, <1>3 DEF TrimmedUpTo
<1> QED  BY <1>4, <1>5, <1>6

\* A blank or repeated id is one that normalizedIDSet refuses.
LEMMA BadID ==
  ASSUME NEW S, NEW ids \in Seq(S), NEW n \in Nat, n + 1 <= Len(ids),
         TrimSpace[ids[n + 1]] = Blank \/ TrimSpace[ids[n + 1]] \in TrimmedUpTo(ids, n)
  PROVE  ~NormalizableIDs(ids)
<1>0. /\ Len(ids) \in Nat /\ DOMAIN ids = 1 .. Len(ids)
      /\ n + 1 \in DOMAIN ids
  OBVIOUS
<1>1. CASE TrimSpace[ids[n + 1]] = Blank  BY <1>0, <1>1, Zenon DEF NormalizableIDs, Blank
<1>2. CASE TrimSpace[ids[n + 1]] \in TrimmedUpTo(ids, n)
  <2>1. PICK i \in 1 .. n : TrimSpace[ids[i]] = TrimSpace[ids[n + 1]]
    BY <1>2 DEF TrimmedUpTo
  <2>2. i \in DOMAIN ids /\ i # n + 1  BY <1>0
  <2> QED  BY <1>0, <2>1, <2>2, Zenon DEF NormalizableIDs
<1> QED  BY <1>1, <1>2

LEMMA AllIDs ==
  ASSUME NEW S, NEW ids \in Seq(S), NormalizableUpTo(ids, Len(ids))
  PROVE  NormalizableIDs(ids)
<1>1. Len(ids) \in Nat /\ DOMAIN ids = 1 .. Len(ids)  OBVIOUS
<1> QED  BY <1>1, Zenon DEF NormalizableUpTo, NormalizableIDs, Blank

LEMMA GoneIs ==
  ASSUME NEW S, NEW ids \in Seq(S)
  PROVE  Gone(ids) = {TrimSpace[id] : id \in ToSet(ids)}
BY DEF Gone, TrimmedUpTo, ToSet

-----------------------------------------------------------------------------
(* One more element that stays, or not *)

\* The positions that stay, one element further.
LEMMA NextStay ==
  ASSUME NEW S, NEW list \in Seq(S), NEW gone, NEW n \in Nat, n + 1 <= Len(list)
  PROVE  LET I == StayUpTo(list, gone, n)
             J == StayUpTo(list, gone, n + 1)
         IN  /\ list[n + 1].id \in gone => J = I
             /\ list[n + 1].id \notin gone =>
                  Pick(list, J) = Append(Pick(list, I), list[n + 1])
<1> DEFINE I == StayUpTo(list, gone, n)
           J == StayUpTo(list, gone, n + 1)
<1>1. \A i : i \in 1 .. n + 1 <=> i \in 1 .. n \/ i = n + 1  OBVIOUS
<1>2. list[n + 1].id \in gone => J = I  BY <1>1 DEF StayUpTo
<1>3. ASSUME list[n + 1].id \notin gone
      PROVE  Pick(list, J) = Append(Pick(list, I), list[n + 1])
  <2>1. J = I \cup {n + 1}  BY <1>1, <1>3 DEF StayUpTo
  <2>2. n + 1 \in Nat /\ n + 1 \in 1 .. n + 1 /\ \A i \in I : i < n + 1  BY DEF StayUpTo
  <2>3. I \in SUBSET (1 .. n + 1)  BY <1>1 DEF StayUpTo
  <2> HIDE DEF I, J
  <2> QED  BY <2>1, <2>2, <2>3, PickAppend
<1> QED  BY <1>2, <1>3

\* An element appended to a list is indexed under its id.
LEMMA IndexAppend ==
  ASSUME NEW S, NEW list \in Seq(S), NEW e \in S, NEW m, Indexes(m, list)
  PROVE  Indexes(Put(m, e.id, Len(list) + 1), Append(list, e))
<1> DEFINE new == Append(list, e)
           mm == Put(m, e.id, Len(list) + 1)
<1>1. /\ Len(list) \in Nat /\ DOMAIN list = 1 .. Len(list) /\ Len(new) = Len(list) + 1
      /\ DOMAIN new = 1 .. Len(list) + 1
      /\ new[Len(list) + 1] = e /\ \A i \in 1 .. Len(list) : new[i] = list[i]
  OBVIOUS
<1>2. /\ DOMAIN mm = DOMAIN m \cup {e.id} /\ mm[e.id] = Len(list) + 1
      /\ \A x \in DOMAIN m \ {e.id} : mm[x] = m[x]
  BY DEF Put
<1>3. \A i \in DOMAIN new : i \in DOMAIN list \/ i = Len(list) + 1  BY <1>1
<1>4. \A i \in DOMAIN new : new[i].id \in DOMAIN mm  BY <1>1, <1>2, <1>3 DEF Indexes
<1>5. ASSUME NEW x \in DOMAIN mm
      PROVE  mm[x] \in DOMAIN new /\ new[mm[x]].id = x /\ IsLast(new, mm[x])
  <2>1. CASE x = e.id  BY <1>1, <1>2, <2>1 DEF IsLast
  <2>2. CASE x # e.id
    <3>1. /\ mm[x] = m[x] /\ m[x] \in 1 .. Len(list) /\ list[m[x]].id = x
          /\ IsLast(list, m[x])
      BY <1>1, <1>2, <1>5, <2>2 DEF Indexes
    <3>2. new[m[x]] = list[m[x]]  BY <1>1, <3>1
    <3>3. ASSUME NEW j \in m[x] + 1 .. Len(list) + 1 PROVE new[j].id # x
      <4>1. CASE j = Len(list) + 1  BY <1>1, <2>2, <4>1
      <4>2. CASE j # Len(list) + 1
        <5>1. j \in m[x] + 1 .. Len(list) /\ j \in 1 .. Len(list)  BY <1>1, <3>1, <4>2
        <5> QED  BY <1>1, <3>1, <5>1 DEF IsLast
      <4> QED  BY <4>1, <4>2
    <3> QED  BY <1>1, <3>1, <3>2, <3>3 DEF IsLast
  <2> QED  BY <2>1, <2>2
<1> HIDE DEF new, mm
<1>6. Indexes(mm, new)  BY <1>4, <1>5 DEF Indexes
<1> QED  BY <1>6 DEF new, mm

-----------------------------------------------------------------------------
(* One more upsert *)

\* The list with e in place i.
WithAt(list, i, e) == [list EXCEPT ![i] = e]

\* An upsert whose id no earlier upsert has and which the element at i, the last with
\* this id, has: it takes the place of that element.
LEMMA NextReplaced ==
  ASSUME NEW S, NEW kept \in Seq(S), NEW ups \in Seq(S), NEW n \in Nat, n + 1 <= Len(ups),
         TrimSpace[ups[n + 1].id] \notin TrimmedUpTo(IDsOf(ups), n),
         NEW i \in DOMAIN kept, kept[i].id = TrimSpace[ups[n + 1].id], IsLast(kept, i)
  PROVE  /\ FreshUpTo(kept, ups, n + 1) = FreshUpTo(kept, ups, n)
         /\ ReplacedUpTo(kept, ups, n + 1)
              = WithAt(ReplacedUpTo(kept, ups, n), i, ups[n + 1])
<1> DEFINE t(j) == TrimSpace[ups[j].id]
<1>1. \A j : j \in 1 .. n + 1 <=> j \in 1 .. n \/ j = n + 1  OBVIOUS
<1>2. \A j \in 1 .. n : t(j) # t(n + 1)
  <2>1. \A j \in 1 .. n : IDsOf(ups)[j] = ups[j].id  BY DEF IDsOf
  <2> QED  BY <2>1 DEF TrimmedUpTo
<1>3. FreshUpTo(kept, ups, n + 1) = FreshUpTo(kept, ups, n)  BY <1>1 DEF FreshUpTo
<1>4. ASSUME NEW k \in DOMAIN kept
      PROVE  ReplacedUpTo(kept, ups, n + 1)[k]
               = IF k = i THEN ups[n + 1] ELSE ReplacedUpTo(kept, ups, n)[k]
  <2> HIDE DEF t
  <2>0. \A m : ReplacedUpTo(kept, ups, m)[k]
                 = IF IsLast(kept, k) /\ \E j \in 1 .. m : t(j) = kept[k].id
                   THEN ups[CHOOSE j \in 1 .. m : t(j) = kept[k].id]
                   ELSE kept[k]
    BY DEF ReplacedUpTo, t
  <2>1. CASE k = i
    <3>1. kept[i].id = t(n + 1)  BY DEF t
    <3>2. (CHOOSE j \in 1 .. n + 1 : t(j) = kept[i].id) = n + 1
      BY <1>1, <1>2, <3>1
    <3>3. \E j \in 1 .. n + 1 : t(j) = kept[i].id  BY <1>1, <3>1
    <3> QED  BY <2>0, <2>1, <3>2, <3>3
  <2>2. CASE k # i /\ kept[k].id # t(n + 1)
    <3>1. \A j : (j \in 1 .. n + 1 /\ t(j) = kept[k].id) <=> (j \in 1 .. n /\ t(j) = kept[k].id)
      BY <1>1, <2>2
    <3>2. (CHOOSE j \in 1 .. n + 1 : t(j) = kept[k].id) = (CHOOSE j \in 1 .. n : t(j) = kept[k].id)
      BY <3>1
    <3> QED  BY <2>0, <2>2, <3>1, <3>2
  <2>3. CASE k # i /\ kept[k].id = t(n + 1)
    <3>1. ~IsLast(kept, k)
      <4>1. /\ DOMAIN kept = 1 .. Len(kept) /\ Len(kept) \in Nat
            /\ kept[k].id = kept[i].id
        BY <2>3 DEF t
      <4>2. ~(k > i)  BY <4>1, <2>3 DEF IsLast
      <4>3. i \in k + 1 .. Len(kept)  BY <4>1, <4>2, <2>3
      <4> QED  BY <4>1, <4>3 DEF IsLast
    <3> QED  BY <2>0, <2>3, <3>1
  <2> QED  BY <2>1, <2>2, <2>3
<1>5. ReplacedUpTo(kept, ups, n + 1)
        = [k \in DOMAIN kept |-> ReplacedUpTo(kept, ups, n + 1)[k]]
  BY DEF ReplacedUpTo
<1>6. DOMAIN ReplacedUpTo(kept, ups, n) = DOMAIN kept  BY DEF ReplacedUpTo
<1>7. WithAt(ReplacedUpTo(kept, ups, n), i, ups[n + 1])
        = [k \in DOMAIN kept |-> IF k = i THEN ups[n + 1] ELSE ReplacedUpTo(kept, ups, n)[k]]
  BY <1>6 DEF WithAt
<1> QED  BY <1>3, <1>4, <1>5, <1>7

\* An upsert whose id no element has: it goes to the end.
LEMMA NextFresh ==
  ASSUME NEW S, NEW kept \in Seq(S), NEW ups \in Seq(S), NEW n \in Nat, n + 1 <= Len(ups),
         \A k \in DOMAIN kept : kept[k].id # TrimSpace[ups[n + 1].id]
  PROVE  /\ ReplacedUpTo(kept, ups, n + 1) = ReplacedUpTo(kept, ups, n)
         /\ Pick(ups, FreshUpTo(kept, ups, n + 1))
              = Append(Pick(ups, FreshUpTo(kept, ups, n)), ups[n + 1])
<1> DEFINE t(j) == TrimSpace[ups[j].id]
           I == FreshUpTo(kept, ups, n)
<1>1. \A j : j \in 1 .. n + 1 <=> j \in 1 .. n \/ j = n + 1  OBVIOUS
<1>2. ReplacedUpTo(kept, ups, n + 1) = ReplacedUpTo(kept, ups, n)
  <2> HIDE DEF t
  <2>1. ASSUME NEW k \in DOMAIN kept
        PROVE  ReplacedUpTo(kept, ups, n + 1)[k] = ReplacedUpTo(kept, ups, n)[k]
    <3>0. \A m : ReplacedUpTo(kept, ups, m)[k]
                   = IF IsLast(kept, k) /\ \E j \in 1 .. m : t(j) = kept[k].id
                     THEN ups[CHOOSE j \in 1 .. m : t(j) = kept[k].id]
                     ELSE kept[k]
      BY DEF ReplacedUpTo, t
    <3>1. kept[k].id # t(n + 1)  BY DEF t
    <3>2. \A j : (j \in 1 .. n + 1 /\ t(j) = kept[k].id) <=> (j \in 1 .. n /\ t(j) = kept[k].id)
      BY <1>1, <3>1
    <3>3. (CHOOSE j \in 1 .. n + 1 : t(j) = kept[k].id) = (CHOOSE j \in 1 .. n : t(j) = kept[k].id)
      BY <3>2
    <3> QED  BY <3>0, <3>2, <3>3
  <2>2. \A m : ReplacedUpTo(kept, ups, m) = [k \in DOMAIN kept |-> ReplacedUpTo(kept, ups, m)[k]]
    BY DEF ReplacedUpTo
  <2> QED  BY <2>1, <2>2
<1>3. FreshUpTo(kept, ups, n + 1) = I \cup {n + 1}  BY <1>1 DEF FreshUpTo
<1>4. n + 1 \in Nat /\ n + 1 \in 1 .. n + 1 /\ \A i \in I : i < n + 1  BY DEF FreshUpTo
<1>5. I \in SUBSET (1 .. n + 1)  BY <1>1 DEF FreshUpTo
<1>6. Pick(ups, I \cup {n + 1}) = Append(Pick(ups, I), ups[n + 1])
  <2> HIDE DEF I
  <2> QED  BY <1>4, <1>5, PickAppend
<1> QED  BY <1>2, <1>3, <1>6

\* An element replaced in the first of two lists, one behind the other.
LEMMA ReplaceAhead ==
  ASSUME NEW S, NEW a \in Seq(S), NEW b \in Seq(S), NEW e \in S, NEW i \in DOMAIN a
  PROVE  WithAt(a \o b, i, e) = WithAt(a, i, e) \o b
<1>1. [a EXCEPT ![i] = e] \in Seq(S) /\ Len([a EXCEPT ![i] = e]) = Len(a)  OBVIOUS
<1>2. [(a \o b) EXCEPT ![i] = e] \in Seq(S) /\ Len([(a \o b) EXCEPT ![i] = e]) = Len(a) + Len(b)
  OBVIOUS
<1> DEFINE l == [(a \o b) EXCEPT ![i] = e]
           r == [a EXCEPT ![i] = e] \o b
<1>3. r \in Seq(S) /\ Len(r) = Len(a) + Len(b)  BY <1>1
<1>4. ASSUME NEW k \in 1 .. Len(a) + Len(b) PROVE l[k] = r[k]
  <2>1. k \in DOMAIN (a \o b) /\ Len(a) \in Nat /\ Len(b) \in Nat  OBVIOUS
  <2>2. l[k] = IF k = i THEN e ELSE (a \o b)[k]  BY <2>1
  <2>3. CASE k \in 1 .. Len(a)
    <3>1. r[k] = [a EXCEPT ![i] = e][k] /\ (a \o b)[k] = a[k]  BY <1>1, <2>3
    <3> QED  BY <2>2, <2>3, <3>1
  <2>4. CASE k \notin 1 .. Len(a)
    <3>1. r[k] = b[k - Len(a)] /\ (a \o b)[k] = b[k - Len(a)] /\ k # i  BY <1>1, <2>1, <2>4
    <3> QED  BY <2>2, <3>1
  <2> QED  BY <2>3, <2>4
<1> HIDE DEF l, r
<1>5. l \in Seq(S) /\ Len(l) = Len(a) + Len(b)  BY <1>2 DEF l
<1>6. l = r  BY <1>3, <1>4, <1>5
<1> QED  BY <1>6 DEF l, r, WithAt

\* After the last upsert the lists are those of MergeByID.
LEMMA LastUpsert ==
  ASSUME NEW S, NEW kept \in Seq(S), NEW ups \in Seq(S),
         NormalizableUpTo(IDsOf(ups), Len(ups))
  PROVE  /\ ReplacedUpTo(kept, ups, Len(ups)) = Replaced(kept, ups)
         /\ Pick(ups, FreshUpTo(kept, ups, Len(ups))) = Fresh(kept, ups)
<1> DEFINE t(j) == TrimSpace[ups[j].id]
<1>1. Len(ups) \in Nat /\ DOMAIN ups = 1 .. Len(ups)  OBVIOUS
<1>2. \A i, j \in 1 .. Len(ups) : t(i) = t(j) => i = j
  <2>1. \A j \in 1 .. Len(ups) : IDsOf(ups)[j] = ups[j].id  BY <1>1 DEF IDsOf
  <2> QED  BY <2>1 DEF NormalizableUpTo
<1>3. ASSUME NEW k \in DOMAIN kept
      PROVE  ReplacedUpTo(kept, ups, Len(ups))[k] = Replaced(kept, ups)[k]
  <2>1. CASE \E j \in 1 .. Len(ups) : t(j) = kept[k].id
    <3>1. PICK j \in 1 .. Len(ups) : t(j) = kept[k].id  BY <2>1
    <3>2. (CHOOSE l \in 1 .. Len(ups) : t(l) = kept[k].id) = j  BY <1>2, <3>1
    <3>3. UpsertsFor(kept[k].id, ups) = {ups[j]}
      BY <1>1, <1>2, <3>1 DEF UpsertsFor, ToSet
    <3> QED  BY <2>1, <3>2, <3>3 DEF ReplacedUpTo, Replaced, Deref
  <2>2. CASE ~\E j \in 1 .. Len(ups) : t(j) = kept[k].id
    <3>1. UpsertsFor(kept[k].id, ups) = {}  BY <1>1, <2>2 DEF UpsertsFor, ToSet
    <3> QED  BY <2>2, <3>1 DEF ReplacedUpTo, Replaced
  <2> QED  BY <2>1, <2>2
<1>4. /\ ReplacedUpTo(kept, ups, Len(ups))
           = [k \in DOMAIN kept |-> ReplacedUpTo(kept, ups, Len(ups))[k]]
      /\ Replaced(kept, ups) = [k \in DOMAIN kept |-> Replaced(kept, ups)[k]]
  BY DEF ReplacedUpTo, Replaced
<1>5. FreshUpTo(kept, ups, Len(ups))
        = {i \in DOMAIN ups : \A j \in DOMAIN kept : kept[j].id # TrimSpace[ups[i].id]}
  BY <1>1 DEF FreshUpTo
<1> QED  BY <1>3, <1>4, <1>5 DEF Fresh

\* Before the first upsert there is what stays.
LEMMA NoUpsert ==
  ASSUME NEW S, NEW kept \in Seq(S), NEW ups
  PROVE  ReplacedUpTo(kept, ups, 0) \o Pick(ups, FreshUpTo(kept, ups, 0)) = kept
<1>1. \A j : j \notin 1 .. 0  OBVIOUS
<1>2. FreshUpTo(kept, ups, 0) = {}  BY <1>1 DEF FreshUpTo
<1>3. ReplacedUpTo(kept, ups, 0) = [k \in DOMAIN kept |-> kept[k]]  BY <1>1 DEF ReplacedUpTo
<1>4. ReplacedUpTo(kept, ups, 0) = kept  BY <1>3
<1>5. Pick(ups, FreshUpTo(kept, ups, 0)) = <<>>  BY <1>2, PickNone
<1>6. kept \o <<>> = kept  OBVIOUS
<1> QED  BY <1>4, <1>5, <1>6

\* The types of the lists in the last loop.
LEMMA UpsertTypes ==
  ASSUME NEW S, NEW kept \in Seq(S), NEW ups \in Seq(S), NEW n \in Nat, n <= Len(ups)
  PROVE  /\ ReplacedUpTo(kept, ups, n) \in Seq(S) /\ Pick(ups, FreshUpTo(kept, ups, n)) \in Seq(S)
         /\ DOMAIN ReplacedUpTo(kept, ups, n) = DOMAIN kept
<1>1. \A j \in 1 .. n : ups[j] \in S  OBVIOUS
<1>2. ReplacedUpTo(kept, ups, n) \in [1 .. Len(kept) -> S]  BY <1>1 DEF ReplacedUpTo
<1>3. IsPositions(FreshUpTo(kept, ups, n))  BY DEF FreshUpTo, IsPositions
<1>4. \A i \in FreshUpTo(kept, ups, n) : ups[i] \in S  BY <1>1 DEF FreshUpTo
<1> QED  BY <1>2, <1>3, <1>4, PickType

\* The elements that stay, as the positions that the second loop has passed.
LEMMA KeptIs ==
  ASSUME NEW S, NEW list \in Seq(S), NEW T, NEW ids \in Seq(T)
  PROVE  Kept(list, ids) = Pick(list, StayUpTo(list, Gone(ids), Len(list)))
<1>1. StayUpTo(list, Gone(ids), Len(list)) = {i \in DOMAIN list : list[i].id \notin Gone(ids)}
  BY DEF StayUpTo
<1> QED  BY <1>1, GoneIs DEF Kept

LEMMA StayType ==
  ASSUME NEW S, NEW list \in Seq(S), NEW gone, NEW n \in Nat, n <= Len(list)
  PROVE  Pick(list, StayUpTo(list, gone, n)) \in Seq(S)
<1>1. IsPositions(StayUpTo(list, gone, n))  BY DEF StayUpTo, IsPositions
<1>2. \A i \in StayUpTo(list, gone, n) : list[i] \in S  BY DEF StayUpTo
<1> QED  BY <1>1, <1>2, PickType

-----------------------------------------------------------------------------
(* The loops *)

\* The arguments are lists, and nothing has been done.
LEMMA InitLoopInv == Init => LoopInv
<1> SUFFICES ASSUME Init PROVE LoopInv  OBVIOUS
<1>1. \A S : BoundedSeq(S, MaxLen) \subseteq Seq(S)
  BY MergeAssumption DEF BoundedSeq, SeqOf
<1>a. current \in Seq(Elements) /\ upserts \in Seq(Elements) /\ removeIDs \in Seq(IDs)
  <2>1. /\ current \in BoundedSeq(Elements, MaxLen) /\ upserts \in BoundedSeq(Elements, MaxLen)
        /\ removeIDs \in BoundedSeq(IDs, MaxLen)
    BY DEF Init
  <2>2. BoundedSeq(Elements, MaxLen) \subseteq Seq(Elements)  BY <1>1, Zenon
  <2>3. BoundedSeq(IDs, MaxLen) \subseteq Seq(IDs)  BY <1>1, Zenon
  <2> QED  BY <2>1, <2>2, <2>3
<1>2. TypeInv
  <2>1. failed \in BOOLEAN /\ (failed => phase = "done")  BY Zenon DEF Init
  <2>2. phase = "remove" /\ pos \in Nat \ {0}  BY DEF Init
  <2> QED  BY <1>a, <2>1, <2>2 DEF TypeInv
<1>3. NormalizableUpTo(removeIDs, 0) /\ TrimmedUpTo(removeIDs, 0) = {}
  BY DEF NormalizableUpTo, TrimmedUpTo
<1>4. Len(removeIDs) \in Nat  BY <1>2 DEF TypeInv
<1> QED
  BY <1>2, <1>3, <1>4 DEF Init, LoopInv, Removing, Keeping, Upserting, LoopsMergeByID

\* One id to remove.
LEMMA RemoveKeeps == ASSUME LoopInv, RemoveID PROVE LoopInv'
<1> DEFINE id == TrimSpace[removeIDs[pos]]
<1>0. phase = "remove" /\ pos <= Len(removeIDs) /\ UNCHANGED <<current, upserts, removeIDs>>
  BY Zenon DEF RemoveID, args
<1>a. \/ (id = Blank \/ id \in remove) /\ Fail
      \/ /\ id # Blank /\ id \notin remove
         /\ remove' = remove \cup {id} /\ pos' = pos + 1
         /\ UNCHANGED <<phase, result, index, seen, failed>>
  BY Zenon DEF RemoveID, Blank
<1>b. /\ TypeInv /\ pos - 1 \in Nat /\ (pos - 1) + 1 = pos
      /\ NormalizableUpTo(removeIDs, pos - 1)
      /\ remove = TrimmedUpTo(removeIDs, pos - 1)
      /\ result = <<>> /\ index = [x \in {} |-> 0] /\ seen = {}
  BY <1>0 DEF LoopInv, Removing, TypeInv
<1>c. removeIDs \in Seq(IDs) /\ Len(removeIDs) \in Nat  BY <1>b DEF TypeInv
<1>1. CASE (id = Blank \/ id \in remove) /\ Fail
  <2>1. ~NormalizableIDs(removeIDs)  BY <1>0, <1>1, <1>b, <1>c, BadID
  <2>2. ~Mergeable(upserts, removeIDs)  BY <2>1 DEF Mergeable
  <2>3. ~Mergeable(upserts', removeIDs')  BY <1>0, <2>2
  <2> QED  BY <1>0, <1>1, <1>b, <2>3
           DEF Fail, LoopInv, TypeInv, Removing, Keeping, Upserting, LoopsMergeByID
<1>2. CASE /\ id # Blank /\ id \notin remove
           /\ remove' = remove \cup {id} /\ pos' = pos + 1
           /\ UNCHANGED <<phase, result, index, seen, failed>>
  <2>1. NormalizableUpTo(removeIDs, pos) /\ TrimmedUpTo(removeIDs, pos) = remove \cup {id}
    BY <1>2, <1>b, NextID
  <2>2. pos' - 1 = pos /\ pos' \in Nat \ {0}  BY <1>2, <1>b
  <2>3. TypeInv'  BY <1>0, <1>2, <1>b, <2>2 DEF TypeInv
  <2>4. Removing'  BY <1>0, <1>2, <1>b, <2>1, <2>2 DEF Removing
  <2> QED  BY <1>0, <1>2, <2>3, <2>4 DEF LoopInv, Keeping, Upserting, LoopsMergeByID
<1> QED  BY <1>a, <1>1, <1>2

\* The ids to remove are all read.
LEMMA RemovedKeeps == ASSUME LoopInv, LoopEnds("remove", removeIDs, "keep") PROVE LoopInv'
<1>0. /\ phase = "remove" /\ pos > Len(removeIDs) /\ phase' = "keep" /\ pos' = 1
      /\ UNCHANGED <<current, upserts, removeIDs, remove, result, index, seen, failed>>
  BY DEF LoopEnds
<1>b. /\ TypeInv /\ pos - 1 = Len(removeIDs)
      /\ NormalizableUpTo(removeIDs, pos - 1)
      /\ remove = TrimmedUpTo(removeIDs, pos - 1)
      /\ result = <<>> /\ index = [x \in {} |-> 0] /\ seen = {}
  BY <1>0 DEF LoopInv, Removing, TypeInv
<1>c. removeIDs \in Seq(IDs) /\ Len(current) \in Nat  BY <1>b DEF TypeInv
<1>1. Removed  BY <1>b, <1>c, AllIDs DEF Removed, Gone
<1>2. StayUpTo(current, Gone(removeIDs), 0) = {}  BY DEF StayUpTo
<1>3. Pick(current, StayUpTo(current, Gone(removeIDs), 0)) = <<>>  BY <1>2, PickNone
<1>4. Indexes(index, result)  BY <1>b DEF Indexes
<1>5. Keeping'  BY <1>0, <1>b, <1>c, <1>1, <1>3, <1>4 DEF Keeping, Removed
<1>6. TypeInv'  BY <1>0, <1>b DEF TypeInv
<1> QED  BY <1>0, <1>5, <1>6 DEF LoopInv, Removing, Upserting, LoopsMergeByID

\* One current element.
LEMMA KeepKeeps == ASSUME LoopInv, KeepElement PROVE LoopInv'
<1>0. /\ phase = "keep" /\ pos <= Len(current) /\ pos' = pos + 1
      /\ UNCHANGED <<current, upserts, removeIDs, phase, remove, seen, failed>>
  BY DEF KeepElement
<1> DEFINE I == StayUpTo(current, Gone(removeIDs), pos - 1)
<1>b. /\ TypeInv /\ pos - 1 \in Nat /\ (pos - 1) + 1 = pos
      /\ Removed /\ seen = {}
      /\ result = Pick(current, I) /\ Indexes(index, result)
  BY <1>0 DEF LoopInv, Keeping, TypeInv
<1>c. /\ current \in Seq(Elements) /\ Len(current) \in Nat /\ current[pos] \in Elements
      /\ remove = Gone(removeIDs)
  BY <1>0, <1>b DEF TypeInv, Removed
<1>d. result \in Seq(Elements)  BY <1>0, <1>b, <1>c, StayType
<1>1. /\ result' = Pick(current, StayUpTo(current, Gone(removeIDs), pos))
      /\ Indexes(index', result')
  <2>1. CASE current[pos].id \in remove /\ UNCHANGED <<result, index>>
    BY <1>0, <1>b, <1>c, <2>1, NextStay
  <2>2. CASE /\ current[pos].id \notin remove
             /\ index' = Put(index, current[pos].id, Len(result) + 1)
             /\ result' = Append(result, current[pos])
    <3>1. result' = Pick(current, StayUpTo(current, Gone(removeIDs), pos))
      BY <1>0, <1>b, <1>c, <2>2, NextStay
    <3>2. Indexes(index', result')  BY <1>b, <1>c, <1>d, <2>2, IndexAppend
    <3> QED  BY <3>1, <3>2
  <2> QED  BY <2>1, <2>2 DEF KeepElement
<1>2. pos' - 1 = pos /\ pos' \in Nat \ {0}  BY <1>0, <1>b
<1>3. TypeInv'  BY <1>0, <1>b, <1>2 DEF TypeInv
<1>4. Keeping'  BY <1>0, <1>b, <1>1, <1>2 DEF Keeping, Removed
<1> QED  BY <1>0, <1>3, <1>4 DEF LoopInv, Removing, Upserting, LoopsMergeByID

\* The current elements are all read.
LEMMA KeptKeeps == ASSUME LoopInv, LoopEnds("keep", current, "upsert") PROVE LoopInv'
<1>0. /\ phase = "keep" /\ pos > Len(current) /\ phase' = "upsert" /\ pos' = 1
      /\ UNCHANGED <<current, upserts, removeIDs, remove, result, index, seen, failed>>
  BY DEF LoopEnds
<1> DEFINE kept == Kept(current, removeIDs)
<1>b. /\ TypeInv /\ pos - 1 = Len(current)
      /\ Removed /\ seen = {}
      /\ result = Pick(current, StayUpTo(current, Gone(removeIDs), pos - 1))
      /\ Indexes(index, result)
  BY <1>0 DEF LoopInv, Keeping, TypeInv
<1>c. current \in Seq(Elements) /\ removeIDs \in Seq(IDs) /\ Len(upserts) \in Nat
  BY <1>b DEF TypeInv
<1>1. result = kept  BY <1>b, <1>c, KeptIs
<1>2. kept \in Seq(Elements)  BY <1>c, KeptProperties
<1>3. kept = ReplacedUpTo(kept, upserts, 0) \o Pick(upserts, FreshUpTo(kept, upserts, 0))
  BY <1>2, NoUpsert
<1>4. NormalizableUpTo(IDsOf(upserts), 0) /\ TrimmedUpTo(IDsOf(upserts), 0) = {}
  BY DEF NormalizableUpTo, TrimmedUpTo
<1>5. IndexesBut(index, kept, {})  BY <1>b, <1>1 DEF Indexes, IndexesBut
<1> HIDE DEF kept
<1>6. Upserting'
  <2>1. kept = Kept(current, removeIDs) /\ pos' - 1 = 0  BY <1>0 DEF kept
  <2> QED  BY <1>0, <1>b, <1>c, <1>1, <1>3, <1>4, <1>5, <2>1 DEF Upserting, Removed
<1>7. TypeInv'  BY <1>0, <1>b DEF TypeInv
<1> QED  BY <1>0, <1>6, <1>7 DEF LoopInv, Removing, Keeping, LoopsMergeByID

\* One upsert.
LEMMA UpsertKeeps == ASSUME LoopInv, UpsertElement PROVE LoopInv'
<1> DEFINE id == TrimSpace[upserts[pos].id]
           kept == Kept(current, removeIDs)
           a(n) == ReplacedUpTo(kept, upserts, n)
           b(n) == Pick(upserts, FreshUpTo(kept, upserts, n))
<1>0. phase = "upsert" /\ pos <= Len(upserts) /\ UNCHANGED <<current, upserts, removeIDs>>
  BY Zenon DEF UpsertElement, args
<1>a. \/ (id = Blank \/ id \in seen) /\ Fail
      \/ /\ id # Blank /\ id \notin seen
         /\ seen' = seen \cup {id}
         /\ \/ /\ id \in DOMAIN index
               /\ result' = WithAt(result, index[id], upserts[pos])
               /\ UNCHANGED index
            \/ /\ id \notin DOMAIN index
               /\ index' = Put(index, id, Len(result) + 1)
               /\ result' = Append(result, upserts[pos])
         /\ pos' = pos + 1
         /\ UNCHANGED <<phase, remove, failed>>
  BY Zenon DEF UpsertElement, Blank, WithAt
<1>n. PICK n \in Nat : n = pos - 1 /\ pos = n + 1  BY <1>0 DEF LoopInv, TypeInv
<1>b. /\ TypeInv /\ Removed
      /\ NormalizableUpTo(IDsOf(upserts), n) /\ seen = TrimmedUpTo(IDsOf(upserts), n)
      /\ result = a(n) \o b(n)
      /\ IndexesBut(index, kept, seen)
  BY <1>0, <1>n DEF LoopInv, Upserting
<1>c. /\ upserts \in Seq(Elements) /\ Len(upserts) \in Nat /\ upserts[pos] \in Elements
      /\ pos \in DOMAIN upserts /\ current \in Seq(Elements)
  BY <1>0, <1>n, <1>b DEF TypeInv
<1>d. /\ IDsOf(upserts) \in Seq({upserts[i].id : i \in DOMAIN upserts})
      /\ Len(IDsOf(upserts)) = Len(upserts) /\ IDsOf(upserts)[pos] = upserts[pos].id
  BY <1>c DEF IDsOf
<1>e. kept \in Seq(Elements)  BY <1>c, KeptProperties
<1>f. a(n) \in Seq(Elements) /\ b(n) \in Seq(Elements) /\ DOMAIN a(n) = DOMAIN kept
  <2>1. n <= Len(upserts)  BY <1>0, <1>n, <1>c
  <2> HIDE DEF kept
  <2>2. DOMAIN a(n) = DOMAIN kept  BY <2>1, <1>c, <1>e, UpsertTypes
  <2>3. a(n) \in Seq(Elements)  BY <2>1, <1>c, <1>e, UpsertTypes
  <2>4. b(n) \in Seq(Elements)  BY <2>1, <1>c, <1>e, UpsertTypes
  <2> QED  BY <2>2, <2>3, <2>4
<1>1. CASE (id = Blank \/ id \in seen) /\ Fail
  <2>1. ~NormalizableIDs(IDsOf(upserts))  BY <1>0, <1>n, <1>1, <1>b, <1>d, BadID
  <2>2. ~Mergeable(upserts, removeIDs)  BY <2>1 DEF Mergeable, IDsOf
  <2>3. ~Mergeable(upserts', removeIDs')  BY <1>0, <2>2
  <2> QED  BY <1>0, <1>1, <1>b, <2>3
           DEF Fail, LoopInv, TypeInv, Removing, Keeping, Upserting, LoopsMergeByID
<1>2. ASSUME id # Blank, id \notin seen, seen' = seen \cup {id}, pos' = pos + 1,
             UNCHANGED <<phase, remove, failed>>,
             result' = a(n + 1) \o b(n + 1), IndexesBut(index', kept, seen')
      PROVE  LoopInv'
  <2>1. NormalizableUpTo(IDsOf(upserts), n + 1) /\ TrimmedUpTo(IDsOf(upserts), n + 1) = seen \cup {id}
    
    <3>1. id = TrimSpace[IDsOf(upserts)[n + 1]]  BY <1>n, <1>d
    <3> HIDE DEF id
    <3> QED  BY <1>2, <1>b, <3>1, NextID
  <2>2. pos' - 1 = n + 1 /\ pos' \in Nat \ {0}  BY <1>2, <1>n
  <2>3. TypeInv'  BY <1>0, <1>2, <1>b, <2>2 DEF TypeInv
  <2>4. Upserting'
    <3>1. Removed'  BY <1>0, <1>2, <1>b DEF Removed
    <3>2. Kept(current', removeIDs') = kept  BY <1>0
    <3> QED  BY <1>0, <1>2, <1>n, <1>b, <2>1, <2>2, <3>1, <3>2 DEF Upserting
  <2> QED  BY <1>0, <1>2, <2>3, <2>4 DEF LoopInv, Removing, Keeping, LoopsMergeByID
<1>3. CASE /\ id # Blank /\ id \notin seen /\ seen' = seen \cup {id} /\ pos' = pos + 1
           /\ UNCHANGED <<phase, remove, failed>>
           /\ id \in DOMAIN index
           /\ result' = WithAt(result, index[id], upserts[pos])
           /\ UNCHANGED index
  <2>1. index[id] \in DOMAIN kept /\ kept[index[id]].id = id /\ IsLast(kept, index[id])
    BY <1>3, <1>b DEF IndexesBut
  <2>2. /\ FreshUpTo(kept, upserts, n + 1) = FreshUpTo(kept, upserts, n)
        /\ a(n + 1) = WithAt(a(n), index[id], upserts[pos])
    <3> HIDE DEF kept
    <3> QED  
      <4>1. /\ n + 1 <= Len(upserts) /\ id = TrimSpace[upserts[n + 1].id]
            /\ id \notin TrimmedUpTo(IDsOf(upserts), n)
        BY <1>0, <1>n, <1>3, <1>b
      <4>2. upserts[pos] = upserts[n + 1]  BY <1>n
      <4> HIDE DEF id
      <4>3. /\ FreshUpTo(kept, upserts, n + 1) = FreshUpTo(kept, upserts, n)
            /\ a(n + 1) = WithAt(a(n), index[id], upserts[n + 1])
        BY <1>c, <1>e, <2>1, <4>1, NextReplaced
      <4> QED  BY <4>2, <4>3
  <2>3. result' = a(n + 1) \o b(n + 1)
    <3> HIDE DEF a, b
    <3>1. WithAt(a(n) \o b(n), index[id], upserts[pos])
            = WithAt(a(n), index[id], upserts[pos]) \o b(n)
      BY <1>c, <1>f, <2>1, ReplaceAhead
    <3>2. b(n + 1) = b(n)  BY <2>2 DEF b
    <3> QED  BY <1>3, <1>b, <2>2, <3>1, <3>2
  <2>4. IndexesBut(index', kept, seen')  BY <1>3, <1>b DEF IndexesBut
  <2> QED  BY <1>2, <1>3, <2>3, <2>4
<1>4. CASE /\ id # Blank /\ id \notin seen /\ seen' = seen \cup {id} /\ pos' = pos + 1
           /\ UNCHANGED <<phase, remove, failed>>
           /\ id \notin DOMAIN index
           /\ index' = Put(index, id, Len(result) + 1)
           /\ result' = Append(result, upserts[pos])
  <2>1. \A k \in DOMAIN kept : kept[k].id # id  BY <1>4, <1>b DEF IndexesBut
  <2>2. a(n + 1) = a(n) /\ b(n + 1) = Append(b(n), upserts[pos])
    <3> HIDE DEF kept
    <3> QED  BY <1>0, <1>n, <1>c, <1>e, <2>1, NextFresh
  <2>3. result' = a(n + 1) \o b(n + 1)
    <3> HIDE DEF a, b
    <3>1. Append(a(n) \o b(n), upserts[pos])
            = a(n) \o Append(b(n), upserts[pos])
      <4>1. /\ a(n) \in Seq(Elements) /\ b(n) \in Seq(Elements) /\ upserts[pos] \in Elements
        BY <1>c, <1>f
      <4>2. PICK x, y, e : x = a(n) /\ y = b(n) /\ e = upserts[pos]  OBVIOUS
      <4>3. x \in Seq(Elements) /\ y \in Seq(Elements) /\ e \in Elements  BY <4>1, <4>2
      <4>4. Append(x \o y, e) = x \o Append(y, e)  BY <4>3
      <4> QED  BY <4>2, <4>4
    <3> QED  BY <1>4, <1>b, <2>2, <3>1
  <2>4. IndexesBut(index', kept, seen')
    <3> HIDE DEF kept
    <3>1. /\ DOMAIN index' = DOMAIN index \cup {id}
          /\ \A x \in DOMAIN index \ {id} : index'[x] = index[x]
      BY <1>4 DEF Put
    <3> QED  BY <1>4, <1>b, <3>1 DEF IndexesBut
  <2> QED  BY <1>2, <1>4, <2>3, <2>4
<1> QED  BY <1>a, <1>1, <1>3, <1>4

\* The upserts are all read.
LEMMA UpsertedKeeps == ASSUME LoopInv, LoopEnds("upsert", upserts, "done") PROVE LoopInv'
<1>0. /\ phase = "upsert" /\ pos > Len(upserts) /\ phase' = "done" /\ pos' = 1
      /\ UNCHANGED <<current, upserts, removeIDs, remove, result, index, seen, failed>>
  BY DEF LoopEnds
<1> DEFINE kept == Kept(current, removeIDs)
<1>a. TypeInv /\ ~failed  BY <1>0, Zenon DEF LoopInv, TypeInv
<1>b. /\ pos - 1 = Len(upserts)
      /\ Removed /\ NormalizableUpTo(IDsOf(upserts), Len(upserts))
      /\ result = ReplacedUpTo(kept, upserts, Len(upserts))
                  \o Pick(upserts, FreshUpTo(kept, upserts, Len(upserts)))
  <2>1. pos - 1 = Len(upserts)
    <3>1. pos \in Nat /\ Len(upserts) \in Nat  BY <1>a DEF TypeInv
    <3>2. pos - 1 <= Len(upserts)  BY <1>0 DEF LoopInv, Upserting
    <3> QED  BY <1>0, <3>1, <3>2
  <2> QED  BY <1>0, <2>1 DEF LoopInv, Upserting
<1>c. upserts \in Seq(Elements) /\ current \in Seq(Elements)  BY <1>a DEF TypeInv
<1>d. /\ IDsOf(upserts) \in Seq({upserts[i].id : i \in DOMAIN upserts})
      /\ Len(IDsOf(upserts)) = Len(upserts)
  BY <1>c DEF IDsOf
<1>1. kept \in Seq(Elements)  BY <1>c, KeptProperties
<1>2. NormalizableIDs(IDsOf(upserts))  BY <1>b, <1>d, AllIDs
<1>3. Mergeable(upserts, removeIDs)  BY <1>b, <1>2 DEF Mergeable, Removed, IDsOf
<1>4. result = MergeByID(current, upserts, removeIDs)
  <2>1. result = Replaced(kept, upserts) \o Fresh(kept, upserts)
    <3> HIDE DEF kept
    <3> QED  BY <1>b, <1>c, <1>1, LastUpsert
  <2> QED  BY <2>1 DEF MergeByID
<1>5. LoopsMergeByID'
  <2>1. /\ Mergeable(upserts', removeIDs') /\ ~failed'
        /\ result' = MergeByID(current', upserts', removeIDs')
    BY <1>0, <1>a, <1>3, <1>4
  <2>2. failed' \in BOOLEAN  BY <1>0, <1>a DEF TypeInv
  <2> QED  BY <2>1, <2>2, Zenon DEF LoopsMergeByID
<1>6. TypeInv'  BY <1>0, <1>a DEF TypeInv
<1> QED  BY <1>0, <1>5, <1>6 DEF LoopInv, Removing, Keeping, Upserting

\* A step that changes nothing.
LEMMA StutterLoopInv == ASSUME LoopInv, UNCHANGED lvars PROVE LoopInv'
BY DEF LoopInv, TypeInv, Removing, Removed, Keeping, Upserting, LoopsMergeByID, lvars

-----------------------------------------------------------------------------

LEMMA LoopInvariant == Spec => []LoopInv
<1>1. LoopInv /\ [Next]_lvars => LoopInv'
  BY RemoveKeeps, RemovedKeeps, KeepKeeps, KeptKeeps, UpsertKeeps, UpsertedKeeps,
     StutterLoopInv DEF Next
<1> QED  BY <1>1, InitLoopInv, PTL DEF Spec

\* mergePeers and mergeRelays compute MergeByID: for lists and removal ids of any length,
\* they refuse exactly what Mergeable excludes and return the same elements in the same
\* order.
THEOREM LoopsMerge == Spec => []LoopsMergeByID
<1>1. LoopInv => LoopsMergeByID  BY DEF LoopInv
<1> QED  BY <1>1, LoopInvariant, PTL

\* What the loops return is an update of the list: no id doubled, the upserts, and the
\* current elements that are neither removed nor upserted.
THEOREM LoopsUpdate == Spec => []MergeIsUpdate
<1>1. LoopInv => MergeIsUpdate
  <2> SUFFICES ASSUME LoopInv, phase = "done", ~failed, Plain(upserts), UniqueIDs(current)
               PROVE  LET gone == {TrimSpace[id] : id \in ToSet(removeIDs)}
                          put  == {u.id : u \in ToSet(upserts)}
                      IN  /\ UniqueIDs(result)
                          /\ ToSet(result) = ToSet(upserts)
                                             \cup {c \in ToSet(current) : c.id \notin gone \cup put}
    BY DEF MergeIsUpdate
  <2>1. Mergeable(upserts, removeIDs) /\ result = MergeByID(current, upserts, removeIDs)
    BY DEF LoopInv, LoopsMergeByID, TypeInv
  <2>2. upserts \in Seq(Elements) /\ current \in Seq(Elements)  BY DEF LoopInv, TypeInv
  <2>3. PlainIDs(upserts)  BY DEF Plain, PlainIDs
  <2>4. IsUpdate(Elements, result, current, upserts, removeIDs)
    BY <2>1, <2>2, <2>3, MergeUpdates
  <2> QED  BY <2>4 DEF IsUpdate
<1> QED  BY <1>1, LoopInvariant, PTL
=============================================================================
