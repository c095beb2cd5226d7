--------------------------- MODULE MapDeltaProofs ---------------------------
(***************************************************************************)
(* What the merge of a delta is for. On ids without surrounding space and  *)
(* a list without duplicates MergeByID is an update by id (MergeUpdates);  *)
(* the difference of two lists, merged into any arrangement of the first,  *)
(* gives an arrangement of the second (DiffMerge); copying a list of peers *)
(* changes nothing but empty lists of addresses (CopiedPeers); and the     *)
(* boundary checks see neither the arrangement nor the copying             *)
(* (SameValid).                                                            *)
(***************************************************************************)
EXTENDS MapDelta, ListProofs

\* The ids of a list carry no surrounding space.
PlainIDs(s) == \A i \in DOMAIN s : TrimSpace[s[i].id] = s[i].id

LEMMA KeptProperties ==
  ASSUME NEW E, NEW current \in Seq(E), NEW removeIDs
  PROVE  LET gone == {TrimSpace[id] : id \in ToSet(removeIDs)}
             kept == Kept(current, removeIDs)
         IN  /\ kept \in Seq(E)
             /\ ToSet(kept) = {c \in ToSet(current) : c.id \notin gone}
             /\ UniqueIDs(current) => UniqueIDs(kept)
<1> DEFINE gone == {TrimSpace[id] : id \in ToSet(removeIDs)}
           I == {i \in DOMAIN current : current[i].id \notin gone}
<1>1. IsPositions(I) /\ \A i \in I : current[i] \in E
  <2>1. Len(current) \in Nat /\ I \in SUBSET (1 .. Len(current))  OBVIOUS
  <2> QED  BY <2>1 DEF IsPositions
<1>2. Kept(current, removeIDs) = Pick(current, I)  BY DEF Kept
<1>3. {current[i] : i \in I} = {c \in ToSet(current) : c.id \notin gone}  BY DEF ToSet
<1> HIDE DEF I
<1>4. /\ Pick(current, I) \in Seq(E)
      /\ DOMAIN Pick(current, I) = 1 .. Cardinality(I)
      /\ \A k \in 1 .. Cardinality(I) : Nth(I, k) \in I /\ Pick(current, I)[k] = current[Nth(I, k)]
  BY <1>1, PickType
<1>5. ToSet(Pick(current, I)) = {current[i] : i \in I}
  <2>1. \A i \in I : \E k \in 1 .. Cardinality(I) : Nth(I, k) = i  BY <1>1, Enumeration
  <2> QED  BY <1>4, <2>1 DEF ToSet
<1>6. ASSUME UniqueIDs(current) PROVE UniqueIDs(Pick(current, I))
  <2> SUFFICES ASSUME NEW k \in 1 .. Cardinality(I), NEW l \in 1 .. Cardinality(I),
                      current[Nth(I, k)].id = current[Nth(I, l)].id
               PROVE  k = l
    BY <1>4 DEF UniqueIDs
  <2>1. Nth(I, k) \in DOMAIN current /\ Nth(I, l) \in DOMAIN current  BY <1>4 DEF I
  <2>2. Nth(I, k) = Nth(I, l)  BY <1>6, <2>1 DEF UniqueIDs
  <2>3. Rank(I, Nth(I, k)) = k /\ Rank(I, Nth(I, l)) = l  BY <1>1, Enumeration
  <2> QED  BY <2>2, <2>3
<1> QED  BY <1>2, <1>3, <1>4, <1>5, <1>6

LEMMA FreshProperties ==
  ASSUME NEW E, NEW upserts \in Seq(E), NEW kept,
         NormalizableIDs([i \in DOMAIN upserts |-> upserts[i].id])
  PROVE  LET fresh == Fresh(kept, upserts)
             known == {kept[j].id : j \in DOMAIN kept}
         IN  /\ fresh \in Seq(E)
             /\ ToSet(fresh) = {u \in ToSet(upserts) : TrimSpace[u.id] \notin known}
             /\ \A k, l \in DOMAIN fresh : TrimSpace[fresh[k].id] = TrimSpace[fresh[l].id] => k = l
<1> DEFINE known == {kept[j].id : j \in DOMAIN kept}
           I == {i \in DOMAIN upserts : \A j \in DOMAIN kept : kept[j].id # TrimSpace[upserts[i].id]}
<1>1. IsPositions(I) /\ \A i \in I : upserts[i] \in E
  <2>1. Len(upserts) \in Nat /\ I \in SUBSET (1 .. Len(upserts))  OBVIOUS
  <2> QED  BY <2>1 DEF IsPositions
<1>2. Fresh(kept, upserts) = Pick(upserts, I)  BY DEF Fresh
<1>3. {upserts[i] : i \in I} = {u \in ToSet(upserts) : TrimSpace[u.id] \notin known}  BY DEF ToSet
<1> HIDE DEF I
<1>4. /\ Pick(upserts, I) \in Seq(E)
      /\ DOMAIN Pick(upserts, I) = 1 .. Cardinality(I)
      /\ \A k \in 1 .. Cardinality(I) : Nth(I, k) \in I /\ Pick(upserts, I)[k] = upserts[Nth(I, k)]
  BY <1>1, PickType
<1>5. ToSet(Pick(upserts, I)) = {upserts[i] : i \in I}
  <2>1. \A i \in I : \E k \in 1 .. Cardinality(I) : Nth(I, k) = i  BY <1>1, Enumeration
  <2> QED  BY <1>4, <2>1 DEF ToSet
<1>6. ASSUME NEW k \in 1 .. Cardinality(I), NEW l \in 1 .. Cardinality(I),
             TrimSpace[upserts[Nth(I, k)].id] = TrimSpace[upserts[Nth(I, l)].id]
      PROVE  k = l
  <2>1. Nth(I, k) \in DOMAIN upserts /\ Nth(I, l) \in DOMAIN upserts  BY <1>4 DEF I
  <2>2. Nth(I, k) = Nth(I, l)  BY <1>6, <2>1 DEF NormalizableIDs
  <2>3. Rank(I, Nth(I, k)) = k /\ Rank(I, Nth(I, l)) = l  BY <1>1, Enumeration
  <2> QED  BY <2>2, <2>3
<1> QED  BY <1>2, <1>3, <1>4, <1>5, <1>6

\* Replacing keeps the ids, and leaves an element alone only when nothing was put in its
\* place.
LEMMA ReplacedProperties ==
  ASSUME NEW E, NEW upserts \in Seq(E), NEW kept \in Seq(E),
         NormalizableIDs([i \in DOMAIN upserts |-> upserts[i].id]),
         PlainIDs(upserts), UniqueIDs(kept)
  PROVE  LET put == {u.id : u \in ToSet(upserts)}
             new == Replaced(kept, upserts)
         IN  /\ new \in Seq(E) /\ DOMAIN new = DOMAIN kept
             /\ \A i \in DOMAIN kept : /\ new[i].id = kept[i].id
                                       /\ kept[i].id \in put => new[i] \in ToSet(upserts)
                                       /\ kept[i].id \notin put => new[i] = kept[i]
<1> DEFINE put == {u.id : u \in ToSet(upserts)}
           new == Replaced(kept, upserts)
<1>1. DOMAIN new = DOMAIN kept  BY DEF Replaced
<1>2. ASSUME NEW i \in DOMAIN kept
      PROVE  /\ new[i] \in E /\ new[i].id = kept[i].id
             /\ kept[i].id \in put => new[i] \in ToSet(upserts)
             /\ kept[i].id \notin put => new[i] = kept[i]
  <2> DEFINE U == UpsertsFor(kept[i].id, upserts)
  <2>1. IsLast(kept, i)  BY DEF UniqueIDs, IsLast
  <2>2. new[i] = IF U # {} THEN Deref(U) ELSE kept[i]  BY <2>1 DEF Replaced
  <2>3. \A u \in U : u \in E /\ u \in ToSet(upserts) /\ u.id = kept[i].id
    BY DEF UpsertsFor, PlainIDs, ToSet
  <2>4. \A u \in ToSet(upserts) : u.id = kept[i].id => u \in U
    BY DEF UpsertsFor, PlainIDs, ToSet
  <2>5. U # {} => Deref(U) \in U  BY DEF Deref
  <2>6. kept[i] \in E  OBVIOUS
  <2> HIDE DEF U, new
  <2>7. CASE U = {}
    BY <2>2, <2>4, <2>6, <2>7
  <2>8. CASE U # {}
    <3>1. new[i] \in U  BY <2>2, <2>5, <2>8
    <3>2. kept[i].id \in put  BY <2>3, <3>1
    <3> QED  BY <2>3, <3>1, <3>2
  <2> QED  BY <2>7, <2>8
<1>3. new \in Seq(E)
  <2>1. new = [i \in 1 .. Len(kept) |-> new[i]]  BY <1>1 DEF Replaced
  <2>2. Len(kept) \in Nat /\ DOMAIN kept = 1 .. Len(kept)  OBVIOUS
  <2> HIDE DEF new
  <2>3. new \in [1 .. Len(kept) -> E]  BY <1>2, <2>1, <2>2
  <2> QED  BY <2>2, <2>3
<1> QED  BY <1>1, <1>2, <1>3

\* The list is the current one without what is removed or replaced, and the upserts; no
\* two elements of it have one id.
IsUpdate(E, merged, current, upserts, removeIDs) ==
  LET gone == {TrimSpace[id] : id \in ToSet(removeIDs)}
      put  == {u.id : u \in ToSet(upserts)}
  IN  /\ merged \in Seq(E)
      /\ UniqueIDs(merged)
      /\ ToSet(merged) = ToSet(upserts)
                         \cup {c \in ToSet(current) : c.id \notin gone \cup put}

LEMMA MergeUpdates ==
  ASSUME NEW E, NEW current \in Seq(E), NEW upserts \in Seq(E), NEW removeIDs,
         Mergeable(upserts, removeIDs),
         PlainIDs(upserts), UniqueIDs(current)
  PROVE  IsUpdate(E, MergeByID(current, upserts, removeIDs), current, upserts, removeIDs)
<1> DEFINE gone == {TrimSpace[id] : id \in ToSet(removeIDs)}
           put == {u.id : u \in ToSet(upserts)}
           kept == Kept(current, removeIDs)
           new == Replaced(kept, upserts)
           fresh == Fresh(kept, upserts)
           known == {kept[j].id : j \in DOMAIN kept}
           merged == MergeByID(current, upserts, removeIDs)
<1>0. NormalizableIDs([i \in DOMAIN upserts |-> upserts[i].id])  BY DEF Mergeable
<1>1. /\ kept \in Seq(E) /\ UniqueIDs(kept)
      /\ ToSet(kept) = {c \in ToSet(current) : c.id \notin gone}
  BY KeptProperties
<1>m. merged = new \o fresh  BY DEF MergeByID
<1> HIDE DEF kept, gone
<1>2. /\ new \in Seq(E) /\ DOMAIN new = DOMAIN kept
      /\ \A i \in DOMAIN kept : /\ new[i].id = kept[i].id
                                /\ kept[i].id \in put => new[i] \in ToSet(upserts)
                                /\ kept[i].id \notin put => new[i] = kept[i]
  BY <1>0, <1>1, ReplacedProperties
<1>3. /\ fresh \in Seq(E)
      /\ ToSet(fresh) = {u \in ToSet(upserts) : TrimSpace[u.id] \notin known}
      /\ \A k, l \in DOMAIN fresh : TrimSpace[fresh[k].id] = TrimSpace[fresh[l].id] => k = l
  BY <1>0, FreshProperties
<1> HIDE DEF new, fresh, merged
<1>4. \A u \in ToSet(upserts) : TrimSpace[u.id] = u.id /\ u.id \in put
  BY DEF ToSet, PlainIDs
<1>5. ASSUME NEW u \in ToSet(upserts), NEW v \in ToSet(upserts), u.id = v.id
      PROVE  u = v
  BY <1>0, <1>5 DEF ToSet, NormalizableIDs
<1>6. \A k \in DOMAIN fresh : fresh[k] \in ToSet(upserts) /\ fresh[k].id \notin known
                              /\ TrimSpace[fresh[k].id] = fresh[k].id
  BY <1>3, <1>4 DEF ToSet
<1>7. /\ merged \in Seq(E) /\ Len(merged) = Len(new) + Len(fresh)
      /\ \A i \in 1 .. Len(merged) :
           merged[i] = IF i <= Len(new) THEN new[i] ELSE fresh[i - Len(new)]
  BY <1>m, <1>2, <1>3
<1>8. UniqueIDs(merged)
  <2> SUFFICES ASSUME NEW i \in DOMAIN merged, NEW j \in DOMAIN merged,
                      merged[i].id = merged[j].id
               PROVE  i = j
    BY DEF UniqueIDs
  <2>0. /\ Len(new) \in Nat /\ Len(fresh) \in Nat
        /\ DOMAIN new = 1 .. Len(new) /\ DOMAIN fresh = 1 .. Len(fresh)
        /\ i \in 1 .. Len(merged) /\ j \in 1 .. Len(merged)
    BY <1>2, <1>3, <1>7
  <2>1. ASSUME NEW k \in DOMAIN merged, k <= Len(new)
        PROVE  k \in DOMAIN kept /\ merged[k].id = kept[k].id /\ merged[k].id \in known
    BY <1>2, <1>7, <2>0, <2>1
  <2>2. ASSUME NEW k \in DOMAIN merged, ~(k <= Len(new))
        PROVE  /\ k - Len(new) \in DOMAIN fresh /\ merged[k] = fresh[k - Len(new)]
               /\ merged[k].id \notin known
    BY <1>6, <1>7, <2>0, <2>2
  <2>3. CASE i <= Len(new) /\ j <= Len(new)
    BY <1>1, <2>1, <2>3 DEF UniqueIDs
  <2>4. CASE ~(i <= Len(new)) /\ ~(j <= Len(new))
    <3>1. /\ i - Len(new) \in DOMAIN fresh /\ j - Len(new) \in DOMAIN fresh
          /\ fresh[i - Len(new)].id = fresh[j - Len(new)].id
      BY <2>2, <2>4
    <3>2. i - Len(new) = j - Len(new)  BY <1>3, <3>1
    <3> QED  BY <2>0, <3>2
  <2> QED  BY <2>1, <2>2, <2>3, <2>4
<1>9. ToSet(merged) = ToSet(new) \cup ToSet(fresh)
  <2>0. /\ Len(new) \in Nat /\ Len(fresh) \in Nat
        /\ DOMAIN new = 1 .. Len(new) /\ DOMAIN fresh = 1 .. Len(fresh)
        /\ DOMAIN merged = 1 .. Len(merged)
    BY <1>2, <1>3, <1>7
  <2>1. \A i \in DOMAIN new : i \in DOMAIN merged /\ merged[i] = new[i]  BY <1>7, <2>0
  <2>2. \A i \in DOMAIN fresh : i + Len(new) \in DOMAIN merged /\ merged[i + Len(new)] = fresh[i]
    BY <1>7, <2>0
  <2>3. ASSUME NEW i \in DOMAIN merged PROVE merged[i] \in ToSet(new) \cup ToSet(fresh)
    <3>1. CASE i <= Len(new)  BY <1>7, <2>0, <3>1 DEF ToSet
    <3>2. CASE ~(i <= Len(new))
      <4>1. i - Len(new) \in DOMAIN fresh /\ merged[i] = fresh[i - Len(new)]  BY <1>7, <2>0, <3>2
      <4> QED  BY <4>1 DEF ToSet
    <3> QED  BY <3>1, <3>2
  <2> QED  BY <2>1, <2>2, <2>3 DEF ToSet
<1>10. ToSet(new) = {u \in ToSet(upserts) : u.id \in known}
                   \cup {c \in ToSet(kept) : c.id \notin put}
  <2>1. ASSUME NEW i \in DOMAIN kept
        PROVE  new[i] \in {u \in ToSet(upserts) : u.id \in known}
                         \cup {c \in ToSet(kept) : c.id \notin put}
    <3>1. kept[i] \in ToSet(kept) /\ kept[i].id \in known  BY DEF ToSet
    <3> QED  BY <1>2, <3>1
  <2>2. ASSUME NEW u \in ToSet(upserts), u.id \in known
        PROVE  u \in ToSet(new)
    <3>1. PICK i \in DOMAIN kept : kept[i].id = u.id  BY <2>2
    <3>2. new[i] \in ToSet(upserts) /\ new[i].id = u.id  BY <1>2, <1>4, <3>1
    <3>3. new[i] = u  BY <1>5, <3>2
    <3> QED  BY <1>2, <3>3 DEF ToSet
  <2>3. ASSUME NEW c \in ToSet(kept), c.id \notin put
        PROVE  c \in ToSet(new)
    <3>1. PICK i \in DOMAIN kept : kept[i] = c  BY DEF ToSet
    <3> QED  BY <1>2, <2>3, <3>1 DEF ToSet
  <2>4. ToSet(new) = {new[i] : i \in DOMAIN kept}  BY <1>2 DEF ToSet
  <2> QED  BY <2>1, <2>2, <2>3, <2>4
<1>11. ToSet(merged) = ToSet(upserts) \cup {c \in ToSet(kept) : c.id \notin put}
  BY <1>3, <1>4, <1>9, <1>10
<1>12. {c \in ToSet(kept) : c.id \notin put} = {c \in ToSet(current) : c.id \notin gone \cup put}
  BY <1>1
<1> QED  BY <1>7, <1>8, <1>11, <1>12 DEF merged, gone, IsUpdate

-----------------------------------------------------------------------------
(* Lists and the bags of their elements *)

IsList(s) == s \in Seq(ToSet(s))

LEMMA ListDomain ==
  ASSUME NEW s, IsList(s)
  PROVE  Len(s) \in Nat /\ DOMAIN s = 1 .. Len(s)
BY DEF IsList

LEMMA ListOf ==
  ASSUME NEW E, NEW s \in Seq(E)
  PROVE  IsList(s)
<1>1. Len(s) \in Nat /\ DOMAIN s = 1 .. Len(s)  OBVIOUS
<1>2. \A i \in 1 .. Len(s) : s[i] \in ToSet(s)  BY <1>1 DEF ToSet
<1>3. s \in [1 .. Len(s) -> ToSet(s)]
  <2>1. s = [i \in 1 .. Len(s) |-> s[i]]  BY <1>1
  <2> QED  BY <1>2, <2>1
<1> QED  BY <1>1, <1>3 DEF IsList

LEMMA BagSet ==
  ASSUME NEW s, NEW t, ToBag(s) = ToBag(t)
  PROVE  ToSet(s) = ToSet(t)
<1>1. DOMAIN ToBag(s) = ToSet(s) /\ DOMAIN ToBag(t) = ToSet(t)  BY DEF ToBag, ToSet, Range
<1> QED  BY <1>1

\* How often an element occurs, in a list in which no id is used twice.
LEMMA UniqueCount ==
  ASSUME NEW s, IsList(s), UniqueIDs(s), NEW x \in ToSet(s)
  PROVE  ToBag(s)[x] = 1
<1>1. PICK i \in DOMAIN s : s[i] = x  BY DEF ToSet
<1>2. {j \in DOMAIN s : s[j] = x} = {i}  BY <1>1 DEF UniqueIDs
<1>3. x \in Range(s)  BY <1>1 DEF Range
<1>4. ToBag(s)[x] = Cardinality({j \in DOMAIN s : s[j] = x})  BY <1>3 DEF ToBag
<1> QED  BY <1>2, <1>4, FS_Singleton

LEMMA UniqueBag ==
  ASSUME NEW s, NEW t, IsList(s), IsList(t), UniqueIDs(s), UniqueIDs(t), ToSet(s) = ToSet(t)
  PROVE  ToBag(s) = ToBag(t)
<1>1. /\ ToBag(s) = [x \in ToSet(s) |-> ToBag(s)[x]]
      /\ ToBag(t) = [x \in ToSet(t) |-> ToBag(t)[x]]
  BY DEF ToBag, ToSet, Range
<1>2. \A x \in ToSet(s) : ToBag(s)[x] = 1 /\ ToBag(t)[x] = 1  BY UniqueCount
<1> HIDE DEF ToBag
<1> QED  BY <1>1, <1>2

\* The order of a list has no part in whether its ids are unique.
LEMMA BagUnique ==
  ASSUME NEW s, NEW t, IsList(s), IsList(t), UniqueIDs(s), ToBag(s) = ToBag(t)
  PROVE  UniqueIDs(t)
<1> SUFFICES ASSUME NEW i \in DOMAIN t, NEW j \in DOMAIN t, t[i].id = t[j].id, i # j
             PROVE  FALSE
  BY DEF UniqueIDs
<1>1. ToSet(s) = ToSet(t)  BY BagSet
<1>2. t[i] \in ToSet(s) /\ t[j] \in ToSet(s)  BY <1>1 DEF ToSet
<1>3. t[i] = t[j]  BY <1>2 DEF ToSet, UniqueIDs
<1> DEFINE x == t[i]
           at == {k \in DOMAIN t : t[k] = x}
<1>4. ToBag(t)[x] = 1  BY <1>2, UniqueCount
<1>5. ToBag(t)[x] = Cardinality(at)
  <2>1. x \in Range(t)  BY DEF Range
  <2> QED  BY <2>1 DEF ToBag
<1>6. i \in at /\ j \in at  BY <1>3
<1>7. IsFiniteSet(at)
  <2>1. at \in SUBSET (1 .. Len(t)) /\ Len(t) \in Nat  BY ListDomain
  <2> QED  BY <2>1, Positions
<1> HIDE DEF x, at
<1>8. Cardinality({i, j}) = 2
  <2>1. Cardinality({i}) = 1 /\ IsFiniteSet({i}) /\ j \notin {i}  BY FS_Singleton
  <2>2. Cardinality({i} \cup {j}) = 1 + 1  BY <2>1, FS_AddElement
  <2>3. {i} \cup {j} = {i, j}  OBVIOUS
  <2> QED  BY <2>2, <2>3
<1>9. Cardinality({i, j}) <= Cardinality(at)
  <2>1. {i, j} \in SUBSET at  BY <1>6
  <2> QED  BY <1>7, <2>1, FS_Subset
<1> QED  BY <1>4, <1>5, <1>8, <1>9

-----------------------------------------------------------------------------
(* The merge undoes the difference *)

\* The elements at some positions of a list.
LEMMA Picked ==
  ASSUME NEW s, IsList(s), NEW I \in SUBSET DOMAIN s
  PROVE  /\ IsList(Pick(s, I)) /\ IsPositions(I)
         /\ ToSet(Pick(s, I)) = {s[i] : i \in I}
         /\ \A k \in DOMAIN Pick(s, I) : Nth(I, k) \in I /\ Pick(s, I)[k] = s[Nth(I, k)]
         /\ \A k, l \in DOMAIN Pick(s, I) : Nth(I, k) = Nth(I, l) => k = l
<1>1. IsPositions(I)
  <2>1. Len(s) \in Nat /\ I \in SUBSET (1 .. Len(s))  BY ListDomain
  <2> QED  BY <2>1 DEF IsPositions
<1>2. \A i \in I : s[i] \in ToSet(s)  BY DEF ToSet
<1>3. /\ Pick(s, I) \in Seq(ToSet(s))
      /\ DOMAIN Pick(s, I) = 1 .. Cardinality(I)
      /\ \A k \in 1 .. Cardinality(I) : Nth(I, k) \in I /\ Pick(s, I)[k] = s[Nth(I, k)]
  BY <1>1, <1>2, PickType
<1>4. IsList(Pick(s, I))  BY <1>3, ListOf
<1>5. \A i \in I : \E k \in 1 .. Cardinality(I) : Nth(I, k) = i  BY <1>1, Enumeration
<1>6. ToSet(Pick(s, I)) = {s[i] : i \in I}  BY <1>3, <1>5 DEF ToSet
<1>7. \A k \in 1 .. Cardinality(I) : Rank(I, Nth(I, k)) = k  BY <1>1, Enumeration
<1> QED  BY <1>1, <1>3, <1>4, <1>6, <1>7

\* The ids of a list can be told apart after trimming, and none is blank.
UsableIDs(s) == NormalizableIDs([i \in DOMAIN s |-> s[i].id])

\* The positions of the elements of y that x lacks, and of those of x whose ids y lacks.
New(x, y) == {i \in DOMAIN y : y[i] \notin ToSet(x)}

Lost(x, y) == {i \in DOMAIN x : \A j \in DOMAIN y : y[j].id # x[i].id}

IDList(x) == [i \in DOMAIN x |-> x[i].id]

\* The difference of two lists, merged into any arrangement of the first, gives an
\* arrangement of the second. It is enough that the list at hand has no other ids than
\* the first, and the elements that both have.
LEMMA DiffMerge ==
  ASSUME NEW x, NEW y, NEW c, IsList(x), IsList(y), IsList(c),
         UniqueIDs(x), UniqueIDs(y), UniqueIDs(c),
         \A e \in ToSet(c) : \E f \in ToSet(x) : f.id = e.id,
         ToSet(x) \cap ToSet(y) \subseteq ToSet(c),
         PlainIDs(x), PlainIDs(y), UsableIDs(x), UsableIDs(y),
         NEW upserts, upserts = Pick(y, New(x, y)),
         NEW gone, gone = Pick(IDList(x), Lost(x, y))
  PROVE  /\ Mergeable(upserts, gone)
         /\ IsList(MergeByID(c, upserts, gone)) /\ UniqueIDs(MergeByID(c, upserts, gone))
         /\ ToSet(MergeByID(c, upserts, gone)) = ToSet(y)
<1>0. PICK I, J, ids : I = New(x, y) /\ J = Lost(x, y) /\ ids = IDList(x)  OBVIOUS
<1>1. /\ IsList(upserts) /\ ToSet(upserts) = {y[i] : i \in I}
      /\ \A k \in DOMAIN upserts : Nth(I, k) \in DOMAIN y /\ upserts[k] = y[Nth(I, k)]
      /\ \A k, l \in DOMAIN upserts : Nth(I, k) = Nth(I, l) => k = l
  <2>1. I \in SUBSET DOMAIN y  BY <1>0 DEF New
  <2>2. upserts = Pick(y, I)  BY <1>0
  <2>3. /\ IsList(Pick(y, I)) /\ ToSet(Pick(y, I)) = {y[i] : i \in I}
        /\ \A k \in DOMAIN Pick(y, I) : Nth(I, k) \in I /\ Pick(y, I)[k] = y[Nth(I, k)]
        /\ \A k, l \in DOMAIN Pick(y, I) : Nth(I, k) = Nth(I, l) => k = l
    BY <2>1, Picked
  <2> QED  BY <2>1, <2>2, <2>3
<1>2. IsList(ids) /\ DOMAIN ids = DOMAIN x /\ \A i \in DOMAIN x : ids[i] = x[i].id
  <2>1. Len(x) \in Nat /\ DOMAIN x = 1 .. Len(x)  BY ListDomain
  <2>2. ids \in Seq({x[i].id : i \in DOMAIN x})  BY <1>0, <2>1 DEF IDList
  <2>3. IsList(ids)  BY <2>2, ListOf
  <2> QED  BY <1>0, <2>3 DEF IDList
<1>3. /\ ToSet(gone) = {ids[i] : i \in J}
      /\ \A k \in DOMAIN gone : Nth(J, k) \in DOMAIN x /\ gone[k] = ids[Nth(J, k)]
      /\ \A k, l \in DOMAIN gone : Nth(J, k) = Nth(J, l) => k = l
  <2>1. J \in SUBSET DOMAIN ids  BY <1>0, <1>2 DEF Lost
  <2>2. gone = Pick(ids, J)  BY <1>0
  <2>3. /\ ToSet(Pick(ids, J)) = {ids[i] : i \in J}
        /\ \A k \in DOMAIN Pick(ids, J) : Nth(J, k) \in J /\ Pick(ids, J)[k] = ids[Nth(J, k)]
        /\ \A k, l \in DOMAIN Pick(ids, J) : Nth(J, k) = Nth(J, l) => k = l
    BY <1>2, <2>1, Picked
  <2> QED  BY <1>2, <2>1, <2>2, <2>3
<1>4. Mergeable(upserts, gone)
  <2>1. \A k \in DOMAIN gone : gone[k] = x[Nth(J, k)].id  BY <1>2, <1>3
  <2>2. NormalizableIDs(gone)
    <3>1. \A i \in DOMAIN x : TrimSpace[x[i].id] # ""  BY Zenon DEF UsableIDs, NormalizableIDs
    <3>2. \A i, j \in DOMAIN x : TrimSpace[x[i].id] = TrimSpace[x[j].id] => i = j
      BY DEF UniqueIDs, PlainIDs
    <3>3. \A k \in DOMAIN gone : TrimSpace[gone[k]] # ""  BY <1>3, <2>1, <3>1, Zenon
    <3>4. \A k, l \in DOMAIN gone : TrimSpace[gone[k]] = TrimSpace[gone[l]] => k = l
      BY <1>3, <2>1, <3>2
    <3> QED  BY <3>3, <3>4, Zenon DEF NormalizableIDs
  <2>3. NormalizableIDs([k \in DOMAIN upserts |-> upserts[k].id])
    <3>1. \A i \in DOMAIN y : TrimSpace[y[i].id] # ""  BY Zenon DEF UsableIDs, NormalizableIDs
    <3>2. \A i, j \in DOMAIN y : TrimSpace[y[i].id] = TrimSpace[y[j].id] => i = j
      BY DEF UniqueIDs, PlainIDs
    <3>3. \A k \in DOMAIN upserts : TrimSpace[upserts[k].id] # ""  BY <1>1, <3>1, Zenon
    <3>4. \A k, l \in DOMAIN upserts : TrimSpace[upserts[k].id] = TrimSpace[upserts[l].id] => k = l
      BY <1>1, <3>2
    <3> QED  BY <3>3, <3>4, Zenon DEF NormalizableIDs
  <2> QED  BY <2>2, <2>3 DEF Mergeable
<1>5. PlainIDs(upserts)  BY <1>1 DEF PlainIDs
<1> DEFINE put == {u.id : u \in ToSet(upserts)}
           removed == {TrimSpace[id] : id \in ToSet(gone)}
           merged == MergeByID(c, upserts, gone)
<1>6. PICK E : c \in Seq(E) /\ upserts \in Seq(E)
  <2>1. PICK C, U, F : C = ToSet(c) /\ U = ToSet(upserts) /\ F = C \cup U  OBVIOUS
  <2>2. c \in Seq(C) /\ upserts \in Seq(U)  BY <1>1, <2>1 DEF IsList
  <2>3. ASSUME NEW S, NEW s \in Seq(S), S \subseteq F PROVE s \in Seq(F)
    <3>1. Len(s) \in Nat /\ s \in [1 .. Len(s) -> S]  OBVIOUS
    <3>2. s \in [1 .. Len(s) -> F]  BY <2>3, <3>1
    <3> QED  BY <3>1, <3>2
  <2>4. C \subseteq F /\ U \subseteq F  BY <2>1
  <2> QED  BY <2>2, <2>3, <2>4
<1>7. /\ merged \in Seq(E) /\ UniqueIDs(merged)
      /\ ToSet(merged) = ToSet(upserts) \cup {e \in ToSet(c) : e.id \notin removed \cup put}
  <2>1. IsUpdate(E, MergeByID(c, upserts, gone), c, upserts, gone)
    BY <1>4, <1>5, <1>6, MergeUpdates
  <2> QED  BY <2>1 DEF IsUpdate
<1> HIDE DEF merged
<1>8. IsList(merged)  BY <1>7, ListOf
<1>9. removed = {e.id : e \in {f \in ToSet(x) : \A g \in ToSet(y) : g.id # f.id}}
  <2>1. \A i \in J : i \in DOMAIN x /\ TrimSpace[ids[i]] = x[i].id /\ x[i] \in ToSet(x)
    BY <1>0, <1>2 DEF PlainIDs, ToSet, Lost
  <2>2. \A i \in J : \A g \in ToSet(y) : g.id # x[i].id  BY <1>0 DEF ToSet, Lost
  <2>3. \A f \in ToSet(x) : (\A g \in ToSet(y) : g.id # f.id) => \E i \in J : x[i] = f
    BY <1>0 DEF ToSet, Lost
  <2>4. removed = {TrimSpace[ids[i]] : i \in J}  BY <1>3
  <2> HIDE DEF removed
  <2> QED  BY <2>1, <2>2, <2>3, <2>4
<1>10. ToSet(upserts) = {e \in ToSet(y) : e \notin ToSet(x)}
  <2>1. \A i \in I : y[i] \in ToSet(y) /\ y[i] \notin ToSet(x)  BY <1>0 DEF New, ToSet
  <2>2. \A e \in ToSet(y) : e \notin ToSet(x) => \E i \in I : y[i] = e  BY <1>0 DEF New, ToSet
  <2> QED  BY <1>1, <2>1, <2>2
<1>11. \A e, f \in ToSet(c) : e.id = f.id => e = f  BY DEF UniqueIDs, ToSet
<1>12. \A e, f \in ToSet(y) : e.id = f.id => e = f  BY DEF UniqueIDs, ToSet
<1>13. ToSet(merged) = ToSet(y)
  <2> HIDE DEF removed
  <2>1. ASSUME NEW e \in ToSet(c), e.id \notin removed, e.id \notin put PROVE e \in ToSet(y)
    <3>0. PICK f \in ToSet(x) : f.id = e.id  OBVIOUS
    <3>1. PICK g \in ToSet(y) : g.id = f.id  BY <1>9, <2>1, <3>0
    <3>2. g \in ToSet(x)  BY <1>10, <2>1, <3>0, <3>1
    <3>3. g \in ToSet(c)  BY <3>2
    <3> QED  BY <1>11, <3>0, <3>1, <3>3
  <2>2. ASSUME NEW e \in ToSet(y), e \in ToSet(x)
        PROVE  e.id \notin removed /\ e.id \notin put /\ e \in ToSet(c)
    <3>1. e.id \notin removed  BY <1>9, <2>2
    <3>2. ASSUME NEW u \in ToSet(upserts), u.id = e.id PROVE FALSE
      BY <1>10, <1>12, <2>2, <3>2
    <3> QED  BY <2>2, <3>1, <3>2
  <2> HIDE DEF put
  <2> QED  BY <1>7, <1>10, <2>1, <2>2
<1> QED  BY <1>4, <1>7, <1>8, <1>13 DEF merged

\* Merging lists gives a list, whatever their ids.
LEMMA MergeList ==
  ASSUME NEW current, NEW upserts, NEW removeIDs, IsList(current), IsList(upserts)
  PROVE  IsList(MergeByID(current, upserts, removeIDs))
<1>0. PICK kept, new, fresh : /\ kept = Kept(current, removeIDs)
                              /\ new = Replaced(kept, upserts) /\ fresh = Fresh(kept, upserts)
  OBVIOUS
<1>1. Len(kept) \in Nat /\ DOMAIN kept = 1 .. Len(kept)
  <2>1. PICK E : E = ToSet(current)  OBVIOUS
  <2>2. current \in Seq(E)  BY <2>1 DEF IsList
  <2>3. kept \in Seq(E)  BY <1>0, <2>2, KeptProperties
  <2> QED  BY <2>3
<1>2. PICK A : new \in Seq(A)
  <2>1. new = [i \in 1 .. Len(kept) |-> new[i]]  BY <1>0, <1>1 DEF Replaced
  <2>2. PICK n \in Nat : n = Len(kept)  BY <1>1
  <2>3. PICK A : A = {new[i] : i \in 1 .. n}  OBVIOUS
  <2>4. new \in [1 .. n -> A]  BY <2>1, <2>2, <2>3
  <2>5. new \in Seq(A)  BY <2>4
  <2> QED  BY <2>5
<1>3. PICK B : fresh \in Seq(B)
  <2>1. PICK I : I = {i \in DOMAIN upserts : \A j \in DOMAIN kept : kept[j].id # TrimSpace[upserts[i].id]}
    OBVIOUS
  <2>2. I \in SUBSET DOMAIN upserts /\ fresh = Pick(upserts, I)  BY <1>0, <2>1 DEF Fresh
  <2>3. IsList(fresh)  BY <2>2, Picked
  <2> QED  BY <2>3 DEF IsList
<1>4. new \o fresh \in Seq(A \cup B)  BY <1>2, <1>3
<1>5. MergeByID(current, upserts, removeIDs) = new \o fresh  BY <1>0 DEF MergeByID
<1> QED  BY <1>4, <1>5, ListOf

-----------------------------------------------------------------------------
(* Copies of lists of peers *)

Copies(peers) == {ClonePeer(p) : p \in ToSet(peers)}

LEMMA CloneTwice == ASSUME NEW p PROVE ClonePeer(ClonePeer(p)) = ClonePeer(p)
<1>1. PICK q : q = ClonePeer(p)  OBVIOUS
<1>2. /\ q.id = p.id /\ q.networkID = p.networkID /\ q.publicKey = p.publicKey
      /\ q.attrs = p.attrs /\ q.allowedIPs = {ips \in p.allowedIPs : ips # {}}
  BY <1>1 DEF ClonePeer
<1>3. {ips \in q.allowedIPs : ips # {}} = {ips \in p.allowedIPs : ips # {}}  BY <1>2
<1>4. ClonePeer(q) = ClonePeer(p)  BY <1>2, <1>3 DEF ClonePeer
<1> QED  BY <1>1, <1>4

LEMMA CopiedPeers ==
  ASSUME NEW x
  PROVE  /\ IsList(x) => IsList(ClonePeers(x))
         /\ ToSet(ClonePeers(x)) = Copies(x)
         /\ UniqueIDs(x) => UniqueIDs(ClonePeers(x))
         /\ ClonePeers(ClonePeers(x)) = ClonePeers(x)
         /\ Copies(ClonePeers(x)) = Copies(x)
<1>0. PICK y : y = ClonePeers(x)  OBVIOUS
<1>2. DOMAIN y = DOMAIN x /\ \A i \in DOMAIN x : y[i] = ClonePeer(x[i])
  BY <1>0 DEF ClonePeers
<1>3. ASSUME IsList(x) PROVE IsList(y)
  <2>1. Len(x) \in Nat /\ DOMAIN x = 1 .. Len(x)  BY <1>3, ListDomain
  <2>2. y \in Seq({ClonePeer(x[i]) : i \in DOMAIN x})  BY <1>0, <2>1 DEF ClonePeers
  <2> QED  BY <2>2, ListOf
<1>4. ToSet(y) = Copies(x)  BY <1>2 DEF ToSet, Copies
<1>5. UniqueIDs(x) => UniqueIDs(y)
  <2>1. \A i \in DOMAIN x : y[i].id = x[i].id  BY <1>2 DEF ClonePeer
  <2> QED  BY <1>2, <2>1 DEF UniqueIDs
<1>6. \A i \in DOMAIN x : ClonePeer(y[i]) = y[i]  BY <1>2, CloneTwice
<1>7. ClonePeers(y) = y
  <2>1. ClonePeers(y) = [i \in DOMAIN x |-> ClonePeer(y[i])]  BY <1>2 DEF ClonePeers
  <2>2. y = [i \in DOMAIN x |-> ClonePeer(x[i])]  BY <1>0 DEF ClonePeers
  <2> QED  BY <1>2, <1>6, <2>1, <2>2
<1>8. Copies(y) = Copies(x)
  <2>1. \A p \in ToSet(y) : ClonePeer(p) = p  BY <1>2, <1>6 DEF ToSet
  <2>2. Copies(y) = ToSet(y)  BY <2>1 DEF Copies
  <2> QED  BY <1>4, <2>2
<1> QED  BY <1>0, <1>3, <1>4, <1>5, <1>7, <1>8

\* A copy has a counterpart with the same id, network, key, addresses and attributes.
Alike(p, q) ==
  /\ p.id = q.id /\ p.networkID = q.networkID /\ p.publicKey = q.publicKey
  /\ Addresses(p) = Addresses(q) /\ p.attrs = q.attrs

LEMMA Counterpart ==
  ASSUME NEW x, NEW y, Copies(x) = Copies(y), NEW p \in ToSet(x)
  PROVE  \E q \in ToSet(y) : Alike(p, q)
<1>1. PICK q \in ToSet(y) : ClonePeer(q) = ClonePeer(p)  BY DEF Copies
<1>2. PICK r : r = ClonePeer(p)  OBVIOUS
<1>3. ASSUME NEW u, ClonePeer(u) = r
      PROVE  /\ r.id = u.id /\ r.networkID = u.networkID /\ r.publicKey = u.publicKey
             /\ r.attrs = u.attrs /\ UNION r.allowedIPs = UNION u.allowedIPs
  <2>1. /\ r.id = u.id /\ r.networkID = u.networkID /\ r.publicKey = u.publicKey
        /\ r.attrs = u.attrs /\ r.allowedIPs = {ips \in u.allowedIPs : ips # {}}
    BY <1>3 DEF ClonePeer
  <2>2. UNION r.allowedIPs = UNION u.allowedIPs
    <3>1. \A a : a \in UNION r.allowedIPs <=> a \in UNION u.allowedIPs  BY <2>1
    <3> QED  BY <3>1
  <2> QED  BY <2>1, <2>2
<1>4. Alike(p, q)  BY <1>1, <1>2, <1>3 DEF Alike, Addresses
<1> QED  BY <1>4

-----------------------------------------------------------------------------
(* The boundary checks look at sets of peers and endpoints *)

\* Two snapshots with the same content up to the order of their lists and to copying.
SameMembers(s, t) ==
  /\ s.network = t.network /\ s.node = t.node
  /\ Copies(s.peers) = Copies(t.peers)
  /\ ToSet(s.stunEndpoints) = ToSet(t.stunEndpoints)
  /\ ToSet(s.relays) = ToSet(t.relays)

LEMMA SameIdentity ==
  ASSUME NEW s, NEW t, SameMembers(s, t),
         IsList(s.peers), IsList(t.peers), UniqueIDs(s.peers), UniqueIDs(t.peers), NEW id
  PROVE  IdentityOf(s, id) = IdentityOf(t, id)
<1>1. ASSUME NEW u, IsList(u.peers), UniqueIDs(u.peers), NEW p \in ToSet(u.peers), p.id = id
      PROVE  IdentityOf(u, id) = {p.publicKey}
  <2>1. PICK i \in DOMAIN u.peers : u.peers[i] = p  BY <1>1 DEF ToSet
  <2> DEFINE named == {j \in DOMAIN u.peers : u.peers[j].id = id}
  <2>2. named = {i}  BY <1>1, <2>1 DEF UniqueIDs
  <2>3. i \in Int
    <3>1. DOMAIN u.peers = 1 .. Len(u.peers)  BY <1>1, ListDomain
    <3> QED  BY <3>1
  <2>4. Max({i}) = i  BY <2>3 DEF Max
  <2>5. IdentityOf(u, id) = IF named # {} THEN {u.peers[Max(named)].publicKey}
                            ELSE IF u.node.id = id THEN {u.node.publicKey} ELSE {}
    BY DEF IdentityOf
  <2> HIDE DEF named
  <2> QED  BY <2>1, <2>2, <2>4, <2>5
<1>2. ASSUME NEW u, \A p \in ToSet(u.peers) : p.id # id
      PROVE  IdentityOf(u, id) = IF u.node.id = id THEN {u.node.publicKey} ELSE {}
  <2>1. {j \in DOMAIN u.peers : u.peers[j].id = id} = {}  BY <1>2 DEF ToSet
  <2> QED  BY <2>1 DEF IdentityOf
<1>3. CASE \E p \in ToSet(s.peers) : p.id = id
  <2>1. PICK p \in ToSet(s.peers) : p.id = id  BY <1>3
  <2>2. PICK q \in ToSet(t.peers) : Alike(p, q)  BY Counterpart DEF SameMembers
  <2>3. q.id = id /\ q.publicKey = p.publicKey  BY <2>1, <2>2 DEF Alike
  <2>4. IdentityOf(s, id) = {p.publicKey}  BY <1>1, <2>1
  <2>5. IdentityOf(t, id) = {q.publicKey}  BY <1>1, <2>3
  <2> QED  BY <2>3, <2>4, <2>5
<1>4. CASE \A p \in ToSet(s.peers) : p.id # id
  <2>1. \A p \in ToSet(t.peers) : p.id # id
    <3>1. ASSUME NEW p \in ToSet(t.peers) PROVE p.id # id
      <4>1. PICK q \in ToSet(s.peers) : Alike(p, q)  BY Counterpart DEF SameMembers
      <4> QED  BY <1>4, <4>1 DEF Alike
    <3> QED  BY <3>1
  <2> QED  BY <1>2, <1>4, <2>1 DEF SameMembers
<1> QED  BY <1>3, <1>4

LEMMA SameBindings ==
  ASSUME NEW s, NEW t, \A id : IdentityOf(s, id) = IdentityOf(t, id), NEW bindings,
         BoundIdentities(s, bindings)
  PROVE  BoundIdentities(t, bindings)
BY Zenon DEF BoundIdentities

LEMMA SameGrants ==
  ASSUME NEW s, NEW t, SameMembers(s, t), ValidateSharePeerGrants(s)
  PROVE  ValidateSharePeerGrants(t)
<1> DEFINE grants == s.network.sharePeerGrants
<1>0. /\ s.network.id = t.network.id /\ s.node.id = t.node.id
      /\ s.network.cidr = t.network.cidr
      /\ s.node.publicKey = t.node.publicKey /\ s.node.assignedIPs = t.node.assignedIPs
      /\ t.network.sharePeerGrants = grants
  BY DEF SameMembers
<1>c. /\ \A p \in ToSet(s.peers) : \E q \in ToSet(t.peers) : Alike(p, q)
      /\ \A q \in ToSet(t.peers) : \E p \in ToSet(s.peers) : Alike(q, p)
  BY Counterpart DEF SameMembers
<1>1. \A g : IsSourceOf(s, g) <=> IsSourceOf(t, g)  BY <1>0 DEF IsSourceOf
<1>2. \A g : LocalEnd(s, g) = LocalEnd(t, g) /\ RemoteEnd(s, g) = RemoteEnd(t, g)
  BY <1>1 DEF LocalEnd, RemoteEnd
<1>3. \A end : LocalBinding(s, end) <=> LocalBinding(t, end)  BY <1>0 DEF LocalBinding
<1>4. \A end : RemoteBinding(s, end) <=> RemoteBinding(t, end)
  BY <1>0, <1>c DEF RemoteBinding, Alike
<1>5. \A local, remote : RemoteIsolated(s, local, remote) <=> RemoteIsolated(t, local, remote)
  BY <1>0, <1>c DEF RemoteIsolated, Alike
<1>6. /\ \A i \in DOMAIN grants :
           /\ ValidSharePeerGrant(grants[i])
           /\ LocalBinding(s, LocalEnd(s, grants[i]))
           /\ RemoteBinding(s, RemoteEnd(s, grants[i]))
           /\ RemoteIsolated(s, LocalEnd(s, grants[i]), RemoteEnd(s, grants[i]))
      /\ \A i, j \in DOMAIN grants : grants[i].grantID = grants[j].grantID => i = j
      /\ \A p \in ToSet(s.peers) :
           p.networkID \notin {"", s.network.id} =>
             \E i \in DOMAIN grants : RemoteEnd(s, grants[i]).nodeID = p.id
  BY Zenon DEF ValidateSharePeerGrants
<1> HIDE DEF grants
<1>7. \A i \in DOMAIN grants :
        /\ LocalBinding(t, LocalEnd(t, grants[i]))
        /\ RemoteBinding(t, RemoteEnd(t, grants[i]))
        /\ RemoteIsolated(t, LocalEnd(t, grants[i]), RemoteEnd(t, grants[i]))
  BY <1>2, <1>3, <1>4, <1>5, <1>6, Zenon
<1>8. \A p \in ToSet(t.peers) :
        p.networkID \notin {"", t.network.id} =>
          \E i \in DOMAIN grants : RemoteEnd(t, grants[i]).nodeID = p.id
  <2>1. SUFFICES ASSUME NEW p \in ToSet(t.peers), p.networkID \notin {"", t.network.id}
                 PROVE  \E i \in DOMAIN grants : RemoteEnd(t, grants[i]).nodeID = p.id
    BY Zenon
  <2>2. PICK q \in ToSet(s.peers) : p.id = q.id /\ p.networkID = q.networkID
    BY <1>c DEF Alike
  <2>3. q.networkID \notin {"", s.network.id}  BY <1>0, <2>1, <2>2, Zenon
  <2>4. PICK i \in DOMAIN grants : RemoteEnd(s, grants[i]).nodeID = p.id
    BY <1>6, <2>2, <2>3, Zenon
  <2>5. RemoteEnd(s, grants[i]) = RemoteEnd(t, grants[i])  BY <1>2, Zenon
  <2> QED  BY <2>4, <2>5, Zenon
<1> QED  BY <1>0, <1>6, <1>7, <1>8, Zenon DEF ValidateSharePeerGrants

\* A map with the members of a valid one is valid, if its relay credential is.
LEMMA SameValid ==
  ASSUME NEW s, NEW t, SameMembers(s, t), IsList(s.peers), IsList(t.peers), UniqueIDs(t.peers),
         ValidateRelayCredential(t), ValidateNetworkMapSnapshot(s)
  PROVE  ValidateNetworkMapSnapshot(t)
<1>1. /\ TrimSpace[s.network.id] # "" /\ s.network.attrs \in SafeAttrs
      /\ ValidateApplications(s.network.applications) /\ ValidateServices(s.network.services)
      /\ ValidateMapNode(s.node, TrimSpace[s.network.id])
      /\ ValidateServiceHosts(s) /\ ValidateApplicationBindings(s) /\ ValidateSharePeerGrants(s)
      /\ \A p \in ToSet(s.peers) : ValidateMapPeer(p)
      /\ UniqueIDs(s.peers) /\ ValidateEndpoints(s)
  BY Zenon DEF ValidateNetworkMapSnapshot
<1>2. \A id : IdentityOf(s, id) = IdentityOf(t, id)  BY <1>1, SameIdentity
<1>3. s.network = t.network /\ s.node = t.node  BY DEF SameMembers
<1>4. ValidateServiceHosts(t)
  BY <1>1, <1>2, <1>3, SameBindings, Zenon DEF ValidateServiceHosts
<1>5. ValidateApplicationBindings(t)
  BY <1>1, <1>2, <1>3, SameBindings, Zenon DEF ValidateApplicationBindings
<1>6. ValidateSharePeerGrants(t)  BY <1>1, SameGrants
<1>7. ValidateEndpoints(t)  BY <1>1, Zenon DEF ValidateEndpoints, SameMembers
<1>8. \A p \in ToSet(t.peers) : ValidateMapPeer(p)
  <2>1. ASSUME NEW p \in ToSet(t.peers) PROVE ValidateMapPeer(p)
    <3>1. PICK q \in ToSet(s.peers) : p.id = q.id /\ p.attrs = q.attrs
      BY Counterpart DEF SameMembers, Alike
    <3>2. ValidateMapPeer(q)  BY <1>1, Zenon
    <3> QED  BY <3>1, <3>2, Zenon DEF ValidateMapPeer
  <2> QED  BY <2>1
<1>9. /\ TrimSpace[t.network.id] # "" /\ t.network.attrs \in SafeAttrs
      /\ ValidateApplications(t.network.applications) /\ ValidateServices(t.network.services)
      /\ ValidateMapNode(t.node, TrimSpace[t.network.id])
  <2>1. PICK net, node : net = s.network /\ node = s.node  BY Zenon
  <2>2. net = t.network /\ node = t.node  BY <1>3, <2>1, Zenon
  <2>3. /\ TrimSpace[net.id] # "" /\ net.attrs \in SafeAttrs
        /\ ValidateApplications(net.applications) /\ ValidateServices(net.services)
        /\ ValidateMapNode(node, TrimSpace[net.id])
    BY <1>1, <2>1, Zenon
  <2> QED  BY <2>2, <2>3, Zenon
<1> QED  BY <1>4, <1>5, <1>6, <1>7, <1>8, <1>9, Zenon DEF ValidateNetworkMapSnapshot
=============================================================================
