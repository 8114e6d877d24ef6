--------------------------- MODULE RecoveryProofs ---------------------------
(***************************************************************************)
(* For every number of heights, messages and crashes: block store, state   *)
(* and application stay within one block of each other, the application    *)
(* commits no block twice, the handshake always finds what it needs, the   *)
(* votes of the node obey FilePV, and no vote that was signed or sent is   *)
(* forgotten by a crash.                                                   *)
(*                                                                         *)
(* None of this is inductive by itself: what a crash leaves behind depends *)
(* on how far finalizeCommit, ApplyBlock or a replay had come.  AtStep     *)
(* says for each step where the heights stand, VInv what the log has       *)
(* behind the marker of the last height.  The address book, which a node   *)
(* saves and loads as well, comes first.                                   *)
(***************************************************************************)
EXTENDS MCRecovery, FiniteSetTheorems, TLAPS

(* Leaves that need arithmetic, records or sequences name SMT. *)
USE ZenonT(60)

----------------------------------------------------------------------------
(***************************************************************************)
(* The address book of p2p/pex tells the same story in its lookup table,   *)
(* its buckets and its counts, for any ids, bucket sizes and numbers of    *)
(* buckets.  Every operation takes the book that loadFromFile makes of one *)
(* table to the book that it makes of another: Removed, Dropped, Added and *)
(* Promoted say of which.                                                  *)
(***************************************************************************)

NewOf(l) == {i \in DOMAIN l : l[i].type = PX!New}
OldOf(l) == {i \in DOMAIN l : l[i].type = PX!Old}
NewIn(l) == [n \in NewBuckets |-> {i \in NewOf(l) : n \in l[i].buckets}]
OldIn(l) == [n \in OldBuckets |-> {i \in OldOf(l) : n \in l[i].buckets}]
Parts(l, x, o, a, c) == [lookup |-> l, new |-> x, old |-> o, nNew |-> a, nOld |-> c]
Book(l) == Parts(l, NewIn(l), OldIn(l), Cardinality(NewOf(l)), Cardinality(OldOf(l)))

EntryOK(i, e) ==
  /\ e.type \in {PX!New, PX!Old} /\ e = [type |-> e.type, buckets |-> e.buckets]
  /\ e.buckets # {} /\ IsFiniteSet(e.buckets) /\ i \notin Private \union OurIds
  /\ Cardinality(e.buckets) <= (IF e.type = PX!New THEN MaxNewBucketsPerAddress ELSE 1)
LookupOK(l) ==
  /\ IsFiniteSet(DOMAIN l) /\ l = [i \in DOMAIN l |-> l[i]]
  /\ \A i \in DOMAIN l : EntryOK(i, l[i])

(* The inductive invariant. *)
BookOK(b) == \E l : LookupOK(l) /\ b = Book(l)

(* The instance of the peer exchange counts as this module does. *)
LEMMA CardSame == ASSUME NEW S PROVE PX!Cardinality(S) = Cardinality(S)
  BY SMTT(30) DEF PX!Cardinality, Cardinality

LEMMA Kinds == PX!New # PX!Old
  BY DEF PX!New, PX!Old

(* loadFromFile *)
LEMMA Loaded == ASSUME NEW l PROVE PX!LoadFromFile(l) = Book(l)
<1>1. ASSUME NEW n PROVE {i \in DOMAIN l : l[i].type = PX!New /\ n \in l[i].buckets}
                           = {i \in NewOf(l) : n \in l[i].buckets}
  BY DEF NewOf
<1>2. ASSUME NEW n PROVE {i \in DOMAIN l : l[i].type = PX!Old /\ n \in l[i].buckets}
                           = {i \in OldOf(l) : n \in l[i].buckets}
  BY DEF OldOf
<1>3. [n \in NewBuckets |-> {i \in DOMAIN l : l[i].type = PX!New /\ n \in l[i].buckets}] = NewIn(l)
  BY <1>1 DEF NewIn
<1>4. [n \in OldBuckets |-> {i \in DOMAIN l : l[i].type = PX!Old /\ n \in l[i].buckets}] = OldIn(l)
  BY <1>2 DEF OldIn
<1>. QED
  BY <1>3, <1>4, CardSame DEF PX!LoadFromFile, Book, Parts, NewOf, OldOf

LEMMA OKIsConsistent == ASSUME NEW b, BookOK(b) PROVE PX!Consistent(b)
<1>1. PICK l : LookupOK(l) /\ b = Book(l)
  BY DEF BookOK
<1>2. b.lookup = l
  BY SMTT(30), <1>1 DEF Book, Parts
<1>. QED
  BY <1>1, <1>2, Loaded, CardSame DEF LookupOK, EntryOK, PX!Consistent, PX!Known

(* removeFromAllBuckets *)
LEMMA Removed ==
  ASSUME NEW l, LookupOK(l), NEW i \in DOMAIN l
  PROVE  /\ LookupOK(PX!Without(l, i))
         /\ PX!RemoveFromAllBuckets(Book(l), i) = Book(PX!Without(l, i))
<1> DEFINE m == PX!Without(l, i)
<1>1. DOMAIN m = DOMAIN l \ {i} /\ (\A j \in DOMAIN m : m[j] = l[j]) /\ m = [j \in DOMAIN m |-> m[j]]
  BY DEF PX!Without
<1>2. IsFiniteSet(DOMAIN l) /\ IsFiniteSet(DOMAIN m)
  <2>1. IsFiniteSet(DOMAIN l)
    BY DEF LookupOK
  <2>2. IsFiniteSet(DOMAIN l \ {i})
    BY <2>1, FS_RemoveElement
  <2>. QED
    BY <1>1, <2>1, <2>2
<1>3. LookupOK(m)
  BY <1>1, <1>2 DEF LookupOK
<1>4. IsFiniteSet(NewOf(l)) /\ IsFiniteSet(OldOf(l))
  BY <1>2, FS_Subset DEF NewOf, OldOf
<1>5. l[i].type \in {PX!New, PX!Old}
  BY DEF LookupOK, EntryOK
<1>6. CASE l[i].type = PX!New
  <2>1. NewOf(m) = NewOf(l) \ {i} /\ OldOf(m) = OldOf(l) /\ i \in NewOf(l)
    <3>1. l[i].type # PX!Old
      BY <1>6, Kinds
    <3>. QED
      BY <1>1, <1>6, <3>1 DEF NewOf, OldOf
  <2>2. Cardinality(NewOf(m)) = Cardinality(NewOf(l)) - 1
    BY <1>4, <2>1, FS_RemoveElement
  <2>3. PX!RemoveFromAllBuckets(Book(l), i) =
          Parts(m, [n \in NewBuckets |-> NewIn(l)[n] \ {i}], OldIn(l),
                Cardinality(NewOf(l)) - 1, Cardinality(OldOf(l)))
    BY <1>6 DEF PX!RemoveFromAllBuckets, Book, Parts
  <2>4. NewIn(m) = [n \in NewBuckets |-> NewIn(l)[n] \ {i}]
    <3>1. ASSUME NEW n \in NewBuckets
          PROVE  {j \in NewOf(m) : n \in m[j].buckets} = {j \in NewOf(l) : n \in l[j].buckets} \ {i}
      BY <1>1, <2>1 DEF NewOf
    <3>. QED
      BY <3>1 DEF NewIn
  <2>5. OldIn(m) = OldIn(l)
    <3>1. ASSUME NEW n \in OldBuckets
          PROVE  {j \in OldOf(m) : n \in m[j].buckets} = {j \in OldOf(l) : n \in l[j].buckets}
      BY <1>1, <2>1 DEF OldOf
    <3>. QED
      BY <3>1 DEF OldIn
  <2>. QED
    BY <1>3, <2>1, <2>2, <2>3, <2>4, <2>5 DEF Book
<1>7. CASE l[i].type = PX!Old
  <2>1. OldOf(m) = OldOf(l) \ {i} /\ NewOf(m) = NewOf(l) /\ i \in OldOf(l)
    <3>1. l[i].type # PX!New
      BY <1>7, Kinds
    <3>. QED
      BY <1>1, <1>7, <3>1 DEF NewOf, OldOf
  <2>2. Cardinality(OldOf(m)) = Cardinality(OldOf(l)) - 1
    BY <1>4, <2>1, FS_RemoveElement
  <2>3. PX!RemoveFromAllBuckets(Book(l), i) =
          Parts(m, NewIn(l), [n \in OldBuckets |-> OldIn(l)[n] \ {i}],
                Cardinality(NewOf(l)), Cardinality(OldOf(l)) - 1)
    BY <1>7, Kinds DEF PX!RemoveFromAllBuckets, Book, Parts
  <2>4. OldIn(m) = [n \in OldBuckets |-> OldIn(l)[n] \ {i}]
    <3>1. ASSUME NEW n \in OldBuckets
          PROVE  {j \in OldOf(m) : n \in m[j].buckets} = {j \in OldOf(l) : n \in l[j].buckets} \ {i}
      BY <1>1, <2>1 DEF OldOf
    <3>. QED
      BY <3>1 DEF OldIn
  <2>5. NewIn(m) = NewIn(l)
    <3>1. ASSUME NEW n \in NewBuckets
          PROVE  {j \in NewOf(m) : n \in m[j].buckets} = {j \in NewOf(l) : n \in l[j].buckets}
      BY <1>1, <2>1 DEF NewOf
    <3>. QED
      BY <3>1 DEF NewIn
  <2>. QED
    BY <1>3, <2>1, <2>2, <2>3, <2>4, <2>5 DEF Book
<1>. QED
  BY <1>5, <1>6, <1>7

(* A table with one entry set. *)
LEMMA Placed ==
  ASSUME NEW l, LookupOK(l), NEW i, NEW e, EntryOK(i, e), NEW m, m = PX!With(l, i, e)
  PROVE  LookupOK(m)
<1>1. /\ DOMAIN m = DOMAIN l \union {i} /\ m[i] = e /\ m = [j \in DOMAIN m |-> m[j]]
      /\ \A j \in DOMAIN l \ {i} : m[j] = l[j]
  BY DEF PX!With
<1>2. IsFiniteSet(DOMAIN m)
  <2>1. IsFiniteSet(DOMAIN l)
    BY DEF LookupOK
  <2>2. IsFiniteSet(DOMAIN l \union {i})
    BY <2>1, FS_AddElement
  <2>. QED
    BY <1>1, <2>2
<1>3. ASSUME NEW j \in DOMAIN m PROVE EntryOK(j, m[j])
  <2>1. CASE j = i
    BY <1>1, <2>1
  <2>2. CASE j # i
    BY <1>1, <2>2 DEF LookupOK
  <2>. QED
    BY <2>1, <2>2
<1>. QED
  BY <1>1, <1>2, <1>3 DEF LookupOK

(* The tables of an address that keeps its kind, or is not in the table before. *)
LEMMA KindsKept ==
  ASSUME NEW l, LookupOK(l), NEW i, NEW e, EntryOK(i, e), NEW m, m = PX!With(l, i, e),
         i \in DOMAIN l => l[i].type = e.type
  PROVE  /\ e.type = PX!New => NewOf(m) = NewOf(l) \union {i} /\ OldOf(m) = OldOf(l) /\ OldIn(m) = OldIn(l)
         /\ e.type = PX!Old => OldOf(m) = OldOf(l) \union {i} /\ NewOf(m) = NewOf(l) /\ NewIn(m) = NewIn(l)
<1>1. DOMAIN m = DOMAIN l \union {i} /\ m[i] = e /\ \A j \in DOMAIN l \ {i} : m[j] = l[j]
  BY DEF PX!With
<1>2. CASE e.type = PX!New
  <2>1. e.type # PX!Old /\ (i \in DOMAIN l => l[i].type # PX!Old)
    BY <1>2, Kinds
  <2>2. OldOf(m) = OldOf(l) /\ i \notin OldOf(l)
    BY <1>1, <2>1 DEF OldOf
  <2>3. NewOf(m) = NewOf(l) \union {i}
    BY <1>1, <1>2 DEF NewOf
  <2>4. ASSUME NEW n \in OldBuckets
        PROVE  {j \in OldOf(m) : n \in m[j].buckets} = {j \in OldOf(l) : n \in l[j].buckets}
    BY <1>1, <2>2 DEF OldOf
  <2>5. OldIn(m) = OldIn(l)
    BY <2>4 DEF OldIn
  <2>. QED
    BY <2>1, <2>2, <2>3, <2>5
<1>3. CASE e.type = PX!Old
  <2>1. e.type # PX!New /\ (i \in DOMAIN l => l[i].type # PX!New)
    BY <1>3, Kinds
  <2>2. NewOf(m) = NewOf(l) /\ i \notin NewOf(l)
    BY <1>1, <2>1 DEF NewOf
  <2>3. OldOf(m) = OldOf(l) \union {i}
    BY <1>1, <1>3 DEF OldOf
  <2>4. ASSUME NEW n \in NewBuckets
        PROVE  {j \in NewOf(m) : n \in m[j].buckets} = {j \in NewOf(l) : n \in l[j].buckets}
    BY <1>1, <2>2 DEF NewOf
  <2>5. NewIn(m) = NewIn(l)
    BY <2>4 DEF NewIn
  <2>. QED
    BY <2>1, <2>2, <2>3, <2>5
<1>. QED
  BY <1>2, <1>3

(* removeFromBucket of an address that has another bucket: a new one. *)
LEMMA Dropped ==
  ASSUME NEW l, LookupOK(l), NEW i \in DOMAIN l, NEW n \in NewBuckets,
         l[i].type = PX!New, l[i].buckets \ {n} # {}
  PROVE  LET m == PX!With(l, i, [type |-> PX!New, buckets |-> l[i].buckets \ {n}])
         IN  LookupOK(m) /\ PX!RemoveFromBucket(Book(l), i, n) = Book(m)
<1> DEFINE e == [type |-> PX!New, buckets |-> l[i].buckets \ {n}]
           m == PX!With(l, i, e)
<1>1. EntryOK(i, l[i])
  BY DEF LookupOK
<1>2. IsFiniteSet(l[i].buckets \ {n}) /\ Cardinality(l[i].buckets \ {n}) <= MaxNewBucketsPerAddress
  <2>1. IsFiniteSet(l[i].buckets) /\ Cardinality(l[i].buckets) <= MaxNewBucketsPerAddress
    BY <1>1 DEF EntryOK
  <2>2. l[i].buckets \ {n} \subseteq l[i].buckets
    OBVIOUS
  <2>3. /\ IsFiniteSet(l[i].buckets \ {n}) /\ Cardinality(l[i].buckets \ {n}) <= Cardinality(l[i].buckets)
    BY <2>1, <2>2, FS_Subset
  <2>4. Cardinality(l[i].buckets) \in Nat /\ Cardinality(l[i].buckets \ {n}) \in Nat
    BY <2>1, <2>3, FS_CardinalityType
  <2>. QED
    BY SMTT(30), <2>1, <2>3, <2>4, BookAssumption
<1>3. e.type = PX!New /\ e.buckets = l[i].buckets \ {n}
  BY SMTT(30)
<1>4. EntryOK(i, e)
  BY <1>1, <1>2, <1>3 DEF EntryOK
<1>5. LookupOK(m) /\ m[i] = e /\ \A j \in DOMAIN l \ {i} : m[j] = l[j]
  <2>. HIDE DEF e
  <2>1. LookupOK(m)
    BY <1>4, Placed
  <2>2. m[i] = e /\ \A j \in DOMAIN l \ {i} : m[j] = l[j]
    BY DEF PX!With
  <2>. QED
    BY <2>1, <2>2
<1>6. NewOf(m) = NewOf(l) /\ OldOf(m) = OldOf(l) /\ OldIn(m) = OldIn(l) /\ i \in NewOf(l)
  <2>1. i \in NewOf(l)
    BY DEF NewOf
  <2>2. NewOf(m) = NewOf(l) \union {i} /\ OldOf(m) = OldOf(l) /\ OldIn(m) = OldIn(l)
    <3>. HIDE DEF e
    <3>. QED
      BY SMTT(30), <1>3, <1>4, KindsKept
  <2>. QED
    BY <2>1, <2>2
<1>7. NewIn(m) = [NewIn(l) EXCEPT ![n] = @ \ {i}]
  <2>1. ASSUME NEW k \in NewBuckets
        PROVE  {j \in NewOf(m) : k \in m[j].buckets} =
                 IF k = n THEN {j \in NewOf(l) : k \in l[j].buckets} \ {i}
                          ELSE {j \in NewOf(l) : k \in l[j].buckets}
    <3>1. NewOf(l) \subseteq DOMAIN l
      BY DEF NewOf
    <3>2. ASSUME NEW j \in NewOf(l), j # i PROVE m[j] = l[j]
      BY <1>5, <3>1, <3>2
    <3>3. k \in m[i].buckets <=> k \in l[i].buckets /\ k # n
      BY <1>3, <1>5
    <3>. QED
      BY <1>6, <3>2, <3>3
  <2>2. NewIn(m) = [k \in NewBuckets |-> IF k = n THEN NewIn(l)[k] \ {i} ELSE NewIn(l)[k]]
    BY <2>1 DEF NewIn
  <2>3. NewIn(l) = [k \in NewBuckets |-> NewIn(l)[k]]
    BY DEF NewIn
  <2>. QED
    BY <2>2, <2>3
<1>8. PX!RemoveFromBucket(Book(l), i, n) =
        Parts(m, [NewIn(l) EXCEPT ![n] = @ \ {i}], OldIn(l), Cardinality(NewOf(l)), Cardinality(OldOf(l)))
  BY SMTT(30) DEF PX!RemoveFromBucket, Book, Parts
<1>. QED
  BY <1>5, <1>6, <1>7, <1>8 DEF Book


(* removeFromBucket of an address in its only bucket forgets the address. *)
LEMMA Emptied ==
  ASSUME NEW l, LookupOK(l), NEW i \in DOMAIN l, NEW n, l[i].buckets \ {n} = {},
         l[i].type = PX!New => n \in NewBuckets, l[i].type = PX!Old => n \in OldBuckets
  PROVE  /\ LookupOK(PX!Without(l, i))
         /\ PX!RemoveFromBucket(Book(l), i, n) = Book(PX!Without(l, i))
<1> DEFINE m == PX!Without(l, i)
<1>1. l[i].type \in {PX!New, PX!Old}
  BY DEF LookupOK, EntryOK
<1>2. CASE l[i].type = PX!New
  <2>1. PX!RemoveFromBucket(Book(l), i, n) =
          Parts(m, [NewIn(l) EXCEPT ![n] = @ \ {i}], OldIn(l),
                Cardinality(NewOf(l)) - 1, Cardinality(OldOf(l)))
    BY <1>2 DEF PX!RemoveFromBucket, Book, Parts
  <2>2. PX!RemoveFromAllBuckets(Book(l), i) =
          Parts(m, [k \in NewBuckets |-> NewIn(l)[k] \ {i}], OldIn(l),
                Cardinality(NewOf(l)) - 1, Cardinality(OldOf(l)))
    BY <1>2 DEF PX!RemoveFromAllBuckets, Book, Parts
  <2>3. [k \in NewBuckets |-> NewIn(l)[k] \ {i}] = [NewIn(l) EXCEPT ![n] = @ \ {i}]
    <3>1. ASSUME NEW k \in NewBuckets, k # n PROVE NewIn(l)[k] \ {i} = NewIn(l)[k]
      BY <3>1 DEF NewIn
    <3>2. NewIn(l) = [k \in NewBuckets |-> NewIn(l)[k]]
      BY DEF NewIn
    <3>. HIDE DEF NewIn
    <3>. QED
      BY <3>1, <3>2
  <2>. QED
    BY <2>1, <2>2, <2>3, Removed
<1>3. CASE l[i].type = PX!Old
  <2>1. PX!RemoveFromBucket(Book(l), i, n) =
          Parts(m, NewIn(l), [OldIn(l) EXCEPT ![n] = @ \ {i}],
                Cardinality(NewOf(l)), Cardinality(OldOf(l)) - 1)
    BY <1>3, Kinds DEF PX!RemoveFromBucket, Book, Parts
  <2>2. PX!RemoveFromAllBuckets(Book(l), i) =
          Parts(m, NewIn(l), [k \in OldBuckets |-> OldIn(l)[k] \ {i}],
                Cardinality(NewOf(l)), Cardinality(OldOf(l)) - 1)
    BY <1>3, Kinds DEF PX!RemoveFromAllBuckets, Book, Parts
  <2>3. [k \in OldBuckets |-> OldIn(l)[k] \ {i}] = [OldIn(l) EXCEPT ![n] = @ \ {i}]
    <3>1. ASSUME NEW k \in OldBuckets, k # n PROVE OldIn(l)[k] \ {i} = OldIn(l)[k]
      BY <3>1 DEF OldIn
    <3>2. OldIn(l) = [k \in OldBuckets |-> OldIn(l)[k]]
      BY DEF OldIn
    <3>. QED
      BY <3>1, <3>2
  <2>. QED
    BY <2>1, <2>2, <2>3, Removed
<1>. QED
  BY <1>1, <1>2, <1>3

\* What addToNewBucket makes of book b, of an address with buckets B.
InNew(b, i, B, n) ==
  [lookup |-> PX!With(b.lookup, i, [type |-> PX!New, buckets |-> B \union {n}]),
   new |-> [b.new EXCEPT ![n] = @ \union {i}], old |-> b.old,
   nNew |-> IF B = {} THEN b.nNew + 1 ELSE b.nNew, nOld |-> b.nOld]

(* addToNewBucket, once there is room: of a new address, or a known one that has room left. *)
LEMMA Added ==
  ASSUME NEW l, LookupOK(l), NEW i, i \notin Private \union OurIds, NEW n \in NewBuckets,
         NEW B, IsFiniteSet(B), n \notin B, Cardinality(B) < MaxNewBucketsPerAddress,
         \/ i \in DOMAIN l /\ l[i].type = PX!New /\ B = l[i].buckets
         \/ i \notin DOMAIN l /\ B = {}
  PROVE  BookOK(InNew(Book(l), i, B, n))
<1> DEFINE e == [type |-> PX!New, buckets |-> B \union {n}]
           m == PX!With(l, i, e)
<1>1. IsFiniteSet(B \union {n}) /\ Cardinality(B \union {n}) <= MaxNewBucketsPerAddress
  <2>1. IsFiniteSet(B \union {n}) /\ Cardinality(B \union {n}) = Cardinality(B) + 1 /\ Cardinality(B) \in Nat
    BY FS_AddElement, FS_CardinalityType
  <2>. QED
    BY SMTT(30), <2>1, BookAssumption
<1>2. e.type = PX!New /\ e.buckets = B \union {n}
  BY SMTT(30)
<1>3. EntryOK(i, e)
  BY <1>1, <1>2 DEF EntryOK
<1>4. LookupOK(m) /\ m[i] = e /\ \A j \in DOMAIN l \ {i} : m[j] = l[j]
  <2>. HIDE DEF e
  <2>1. LookupOK(m)
    BY <1>3, Placed
  <2>2. m[i] = e /\ \A j \in DOMAIN l \ {i} : m[j] = l[j]
    BY DEF PX!With
  <2>. QED
    BY <2>1, <2>2
<1>5. NewOf(m) = NewOf(l) \union {i} /\ OldOf(m) = OldOf(l) /\ OldIn(m) = OldIn(l)
  <2>. HIDE DEF e
  <2>. QED
    BY SMTT(30), <1>2, <1>3, KindsKept
<1>6. B = {} <=> i \notin NewOf(l)
  BY DEF NewOf, LookupOK, EntryOK
<1>7. Cardinality(NewOf(m)) = IF B = {} THEN Cardinality(NewOf(l)) + 1 ELSE Cardinality(NewOf(l))
  <2>1. IsFiniteSet(NewOf(l))
    BY FS_Subset DEF NewOf, LookupOK
  <2>. QED
    BY <1>5, <1>6, <2>1, FS_AddElement
<1>8. NewIn(m) = [NewIn(l) EXCEPT ![n] = @ \union {i}]
  <2>1. ASSUME NEW k \in NewBuckets
        PROVE  {j \in NewOf(m) : k \in m[j].buckets} =
                 IF k = n THEN {j \in NewOf(l) : k \in l[j].buckets} \union {i}
                          ELSE {j \in NewOf(l) : k \in l[j].buckets}
    <3>1. NewOf(l) \subseteq DOMAIN l
      BY DEF NewOf
    <3>2. ASSUME NEW j \in NewOf(l), j # i PROVE m[j] = l[j]
      BY <1>4, <3>1, <3>2
    <3>3. k \in m[i].buckets <=> k \in B \/ k = n
      BY <1>2, <1>4
    <3>4. k \in B => i \in NewOf(l) /\ k \in l[i].buckets
      BY DEF NewOf
    <3>5. i \in NewOf(l) => (k \in B <=> k \in l[i].buckets)
      BY <3>1
    <3>. QED
      BY <1>5, <3>2, <3>3, <3>4, <3>5
  <2>2. NewIn(m) = [k \in NewBuckets |-> IF k = n THEN NewIn(l)[k] \union {i} ELSE NewIn(l)[k]]
    BY <2>1 DEF NewIn
  <2>3. NewIn(l) = [k \in NewBuckets |-> NewIn(l)[k]]
    BY DEF NewIn
  <2>. QED
    BY <2>2, <2>3
<1>9. InNew(Book(l), i, B, n) =
        Parts(m, [NewIn(l) EXCEPT ![n] = @ \union {i}], OldIn(l),
              IF B = {} THEN Cardinality(NewOf(l)) + 1 ELSE Cardinality(NewOf(l)),
              Cardinality(OldOf(l)))
  BY DEF InNew, Book, Parts
<1>. QED
  BY <1>4, <1>5, <1>7, <1>8, <1>9 DEF Book, BookOK


(* addToOldBucket, of an address that is in no bucket. *)
LEMMA Promoted ==
  ASSUME NEW l, LookupOK(l), NEW i, i \notin DOMAIN l, i \notin Private \union OurIds,
         NEW n \in OldBuckets
  PROVE  BookOK(PX!AddToOldBucket(Book(l), i, n))
<1> DEFINE e == [type |-> PX!Old, buckets |-> {n}]
           m == PX!With(l, i, e)
<1>1. e.type = PX!Old /\ e.buckets = {n}
  BY SMTT(30)
<1>2. EntryOK(i, e)
  <2>1. IsFiniteSet({n}) /\ Cardinality({n}) = 1
    BY FS_Singleton
  <2>2. e.type # PX!New
    BY <1>1, Kinds
  <2>3. Cardinality(e.buckets) <= 1
    BY SMTT(30), <1>1, <2>1
  <2>. QED
    BY <1>1, <2>1, <2>2, <2>3 DEF EntryOK
<1>3. LookupOK(m) /\ m[i] = e /\ \A j \in DOMAIN l \ {i} : m[j] = l[j]
  <2>. HIDE DEF e
  <2>1. LookupOK(m)
    BY <1>2, Placed
  <2>2. m[i] = e /\ \A j \in DOMAIN l \ {i} : m[j] = l[j]
    BY DEF PX!With
  <2>. QED
    BY <2>1, <2>2
<1>4. OldOf(m) = OldOf(l) \union {i} /\ NewOf(m) = NewOf(l) /\ NewIn(m) = NewIn(l)
  <2>. HIDE DEF e
  <2>. QED
    BY SMTT(30), <1>1, <1>2, KindsKept
<1>5. i \notin OldOf(l) /\ OldOf(l) \subseteq DOMAIN l
  BY DEF OldOf
<1>6. Cardinality(OldOf(m)) = Cardinality(OldOf(l)) + 1
  <2>1. IsFiniteSet(OldOf(l))
    BY <1>5, FS_Subset DEF LookupOK
  <2>. QED
    BY <1>4, <1>5, <2>1, FS_AddElement
<1>7. OldIn(m) = [OldIn(l) EXCEPT ![n] = @ \union {i}]
  <2>1. ASSUME NEW k \in OldBuckets
        PROVE  {j \in OldOf(m) : k \in m[j].buckets} =
                 IF k = n THEN {j \in OldOf(l) : k \in l[j].buckets} \union {i}
                          ELSE {j \in OldOf(l) : k \in l[j].buckets}
    <3>1. ASSUME NEW j \in OldOf(l) PROVE m[j] = l[j]
      BY <1>3, <1>5
    <3>2. k \in m[i].buckets <=> k = n
      BY <1>1, <1>3
    <3>. QED
      BY <1>4, <1>5, <3>1, <3>2
  <2>2. OldIn(m) = [k \in OldBuckets |-> IF k = n THEN OldIn(l)[k] \union {i} ELSE OldIn(l)[k]]
    BY <2>1 DEF OldIn
  <2>3. OldIn(l) = [k \in OldBuckets |-> OldIn(l)[k]]
    BY DEF OldIn
  <2>. QED
    BY <2>2, <2>3
<1>8. PX!AddToOldBucket(Book(l), i, n) =
        Parts(m, NewIn(l), [OldIn(l) EXCEPT ![n] = @ \union {i}],
              Cardinality(NewOf(l)), Cardinality(OldOf(l)) + 1)
  BY DEF PX!AddToOldBucket, Book, Parts
<1>. QED
  BY <1>3, <1>4, <1>6, <1>7, <1>8 DEF Book, BookOK

(* expireNew touches no address outside its bucket. *)
LEMMA Expired ==
  ASSUME NEW l, LookupOK(l), NEW n \in NewBuckets, NEW c \in PX!ExpireNew(Book(l), n),
         NEW i, i \notin NewIn(l)[n]
  PROVE  \E m : /\ LookupOK(m) /\ c = Book(m) /\ (i \in DOMAIN m <=> i \in DOMAIN l)
                /\ i \in DOMAIN l => m[i] = l[i]
<1>1. Book(l).new = NewIn(l)
  BY DEF Book, Parts
<1>2. PICK j \in NewIn(l)[n] : c = PX!RemoveFromBucket(Book(l), j, n)
  BY <1>1 DEF PX!ExpireNew
<1>3. j \in DOMAIN l /\ l[j].type = PX!New /\ n \in l[j].buckets /\ j # i
  BY DEF NewIn, NewOf
<1>4. CASE l[j].buckets \ {n} = {}
  <2> DEFINE m == PX!Without(l, j)
  <2>1. LookupOK(m) /\ c = Book(m)
    BY <1>2, <1>3, <1>4, Kinds, Emptied
  <2>2. DOMAIN m = DOMAIN l \ {j} /\ (i \in DOMAIN l => m[i] = l[i])
    BY <1>3 DEF PX!Without
  <2>. QED
    BY <1>3, <2>1, <2>2
<1>5. CASE l[j].buckets \ {n} # {}
  <2> DEFINE m == PX!With(l, j, [type |-> PX!New, buckets |-> l[j].buckets \ {n}])
  <2>1. LookupOK(m) /\ c = Book(m)
    BY <1>2, <1>3, <1>5, Dropped
  <2>2. DOMAIN m = DOMAIN l \union {j} /\ (i \in DOMAIN l => m[i] = l[i])
    BY <1>3 DEF PX!With
  <2>. QED
    BY <1>3, <2>1, <2>2
<1>. QED
  BY <1>4, <1>5


(* addToNewBucket *)
LEMMA AddsToNew ==
  ASSUME NEW l, LookupOK(l), NEW i, i \notin Private \union OurIds, NEW n \in NewBuckets, NEW ka,
         \/ i \in DOMAIN l /\ ka = l[i] /\ Cardinality(ka.buckets) # MaxNewBucketsPerAddress
         \/ i \notin DOMAIN l /\ ka = [type |-> PX!New, buckets |-> {}],
         NEW b \in PX!AddToNewBucket(Book(l), i, ka, n)
  PROVE  BookOK(b)
<1>1. Book(l).new = NewIn(l)
  BY DEF Book, Parts
<1>2. CASE ka.type = PX!Old \/ i \in NewIn(l)[n]
  <2>1. b = Book(l)
    BY <1>1, <1>2 DEF PX!AddToNewBucket
  <2>. QED
    BY <2>1 DEF BookOK
<1>3. CASE ka.type # PX!Old /\ i \notin NewIn(l)[n]
  <2> DEFINE B == ka.buckets
  <2>1. PICK c \in (IF PX!Cardinality(NewIn(l)[n]) > BucketSize THEN PX!ExpireNew(Book(l), n) ELSE {Book(l)}) :
          b = InNew(c, i, B, n)
    BY <1>1, <1>3 DEF PX!AddToNewBucket, InNew
  <2>2. PICK m : /\ LookupOK(m) /\ c = Book(m) /\ (i \in DOMAIN m <=> i \in DOMAIN l)
                 /\ i \in DOMAIN l => m[i] = l[i]
    <3>1. CASE c = Book(l)
      BY <3>1
    <3>2. CASE c \in PX!ExpireNew(Book(l), n)
      BY <1>3, <3>2, Expired
    <3>. QED
      BY <2>1, <3>1, <3>2
  <2>3. \/ i \in DOMAIN m /\ m[i].type = PX!New /\ B = m[i].buckets
        \/ i \notin DOMAIN m /\ B = {}
    <3>1. CASE i \in DOMAIN l /\ ka = l[i]
      BY <1>3, <2>2, <3>1 DEF LookupOK, EntryOK
    <3>2. CASE i \notin DOMAIN l /\ ka = [type |-> PX!New, buckets |-> {}]
      BY <2>2, <3>2
    <3>. QED
      BY <3>1, <3>2
  <2>4. IsFiniteSet(B) /\ n \notin B /\ Cardinality(B) < MaxNewBucketsPerAddress
    <3>1. CASE i \in DOMAIN l /\ ka = l[i] /\ Cardinality(B) # MaxNewBucketsPerAddress
      <4>1. EntryOK(i, ka) /\ ka.type = PX!New
        BY <1>3, <3>1 DEF LookupOK, EntryOK
      <4>2. IsFiniteSet(B) /\ Cardinality(B) <= MaxNewBucketsPerAddress
        BY <4>1 DEF EntryOK
      <4>3. n \notin B
        BY <1>3, <3>1, <4>1 DEF NewIn, NewOf
      <4>4. Cardinality(B) \in Nat
        BY <4>2, FS_CardinalityType
      <4>. QED
        BY SMTT(30), <3>1, <4>2, <4>3, <4>4, BookAssumption
    <3>2. CASE ka = [type |-> PX!New, buckets |-> {}]
      <4>1. B = {}
        BY <3>2
      <4>2. IsFiniteSet({}) /\ Cardinality({}) = 0
        BY FS_EmptySet
      <4>3. 0 < MaxNewBucketsPerAddress
        BY SMTT(30), BookAssumption
      <4>. QED
        BY <4>1, <4>2, <4>3
    <3>. QED
      BY <3>1, <3>2
  <2> HIDE DEF B
  <2>. QED
    BY <2>1, <2>2, <2>3, <2>4, Added
<1>. QED
  BY <1>2, <1>3

(* addAddress, MarkGood and RemoveAddress keep the book in order. *)
LEMMA Adds ==
  ASSUME NEW b, BookOK(b), NEW i, NEW src, NEW n \in NewBuckets, NEW c \in PX!AddAddress(b, i, src, n)
  PROVE  BookOK(c)
<1>1. PICK l : LookupOK(l) /\ b = Book(l)
  BY DEF BookOK
<1>2. b.lookup = l
  BY <1>1 DEF Book, Parts
<1>3. CASE c = b
  BY <1>3
<1>4. CASE c # b
  <2>1. i \notin Private \union OurIds
    BY <1>4 DEF PX!AddAddress
  <2>2. CASE i \in DOMAIN l
    <3>1. Cardinality(l[i].buckets) # MaxNewBucketsPerAddress /\ c \in PX!AddToNewBucket(b, i, l[i], n)
      BY <1>2, <1>4, <2>2, CardSame DEF PX!AddAddress, PX!Known
    <3>. QED
      BY <1>1, <2>1, <2>2, <3>1, AddsToNew
  <2>3. CASE i \notin DOMAIN l
    <3>1. c \in PX!AddToNewBucket(b, i, [type |-> PX!New, buckets |-> {}], n)
      BY <1>2, <1>4, <2>3 DEF PX!AddAddress, PX!Known
    <3>. QED
      BY <1>1, <2>1, <2>3, <3>1, AddsToNew
  <2>. QED
    BY <2>2, <2>3
<1>. QED
  BY <1>3, <1>4

LEMMA Removes == ASSUME NEW b, BookOK(b), NEW i PROVE BookOK(PX!RemoveAddress(b, i))
<1>1. PICK l : LookupOK(l) /\ b = Book(l)
  BY DEF BookOK
<1>2. b.lookup = l
  BY <1>1 DEF Book, Parts
<1>3. i \in DOMAIN l => BookOK(PX!RemoveFromAllBuckets(b, i))
  BY <1>1, Removed DEF BookOK
<1>. QED
  BY <1>2, <1>3 DEF PX!RemoveAddress, PX!Known


LEMMA Promotes ==
  ASSUME NEW b, BookOK(b), NEW i, NEW n \in OldBuckets, NEW c \in PX!MarkGood(b, i, n)
  PROVE  BookOK(c)
<1>1. PICK l : LookupOK(l) /\ b = Book(l)
  BY DEF BookOK
<1>2. b.lookup = l
  BY <1>1 DEF Book, Parts
<1>3. CASE i \in DOMAIN l /\ l[i].type = PX!New
  <2> DEFINE m == PX!Without(l, i)
  <2>1. LookupOK(m) /\ PX!RemoveFromAllBuckets(b, i) = Book(m)
    BY <1>1, <1>3, Removed
  <2>2. i \notin DOMAIN m /\ i \notin Private \union OurIds
    BY <1>1, <1>3 DEF PX!Without, LookupOK, EntryOK
  <2> HIDE DEF m
  <2>3. c \in PX!MoveToOld(b, i, n)
    BY <1>2, <1>3 DEF PX!MarkGood, PX!Known
  <2>4. CASE c = PX!AddToOldBucket(Book(m), i, n)
    BY <2>1, <2>2, <2>4, Promoted
  <2>5. CASE c # PX!AddToOldBucket(Book(m), i, n)
    <3>1. Book(m).old = OldIn(m)
      BY DEF Book, Parts
    <3>2. PICK o \in OldIn(m)[n] : c = PX!AddToOldBucket(PX!RemoveFromBucket(Book(m), o, n), i, n)
      BY <2>1, <2>3, <2>5, <3>1 DEF PX!MoveToOld
    <3>3. o \in DOMAIN m /\ m[o].type = PX!Old /\ n \in m[o].buckets
      BY DEF OldIn, OldOf
    <3>4. m[o].buckets \ {n} = {}
      <4>1. IsFiniteSet(m[o].buckets) /\ Cardinality(m[o].buckets) <= 1
        BY <2>1, <3>3, Kinds DEF LookupOK, EntryOK
      <4>2. Cardinality(m[o].buckets \ {n}) = Cardinality(m[o].buckets) - 1 /\ IsFiniteSet(m[o].buckets \ {n})
        BY <3>3, <4>1, FS_RemoveElement
      <4>3. Cardinality(m[o].buckets) \in Nat /\ Cardinality(m[o].buckets \ {n}) \in Nat
        BY <4>1, <4>2, FS_CardinalityType
      <4>4. Cardinality(m[o].buckets \ {n}) = 0
        BY SMTT(30), <4>1, <4>2, <4>3
      <4>. QED
        BY <4>2, <4>4, FS_EmptySet
    <3>5. LookupOK(PX!Without(m, o)) /\ PX!RemoveFromBucket(Book(m), o, n) = Book(PX!Without(m, o))
      BY <2>1, <3>3, <3>4, Kinds, Emptied
    <3>6. i \notin DOMAIN PX!Without(m, o)
      BY <2>2 DEF PX!Without
    <3>. QED
      BY <2>2, <3>2, <3>5, <3>6, Promoted
  <2>. QED
    BY <2>4, <2>5
<1>4. CASE ~(i \in DOMAIN l /\ l[i].type = PX!New)
  <2>1. c = b
    BY <1>2, <1>4 DEF PX!MarkGood, PX!Known
  <2>. QED
    BY <2>1
<1>. QED
  BY <1>3, <1>4

LEMMA BookInit == PX!Init => BookOK(book)
<1> SUFFICES ASSUME PX!Init PROVE BookOK(book)
  OBVIOUS
<1> DEFINE l == [i \in {} |-> {}]
<1>1. LookupOK(l)
  BY FS_EmptySet DEF LookupOK
<1>2. NewOf(l) = {} /\ OldOf(l) = {}
  BY DEF NewOf, OldOf
<1>3. NewIn(l) = [n \in NewBuckets |-> {}] /\ OldIn(l) = [n \in OldBuckets |-> {}]
  BY <1>2 DEF NewIn, OldIn
<1>4. PX!EmptyBook = Book(l)
  BY <1>2, <1>3, FS_EmptySet DEF PX!EmptyBook, Book, Parts
<1>. QED
  BY <1>1, <1>4 DEF PX!Init, BookOK

(* One step per action of the reactor that changes the book. *)
LEMMA BookNext == BookOK(book) /\ PX!Next => BookOK(book)'
<1> SUFFICES ASSUME BookOK(book), PX!Next PROVE BookOK(book')
  BY DEF BookOK, Book, Parts, NewIn, OldIn, NewOf, OldOf, LookupOK, EntryOK
<1>1. ASSUME NEW d \in Dialers, PX!DialPeer(d) PROVE BookOK(book')
  <2>1. book' = book \/ book' = PX!RemoveAddress(book, dialer[d].id)
    BY <1>1 DEF PX!DialPeer
  <2>. QED
    BY <2>1, Removes
<1>2. ASSUME NEW d \in Dialers, PX!TooEarly(d) \/ PX!DialSucceeds(d) PROVE BookOK(book')
  BY <1>2 DEF PX!TooEarly, PX!DialSucceeds
<1>3. ASSUME NEW d \in Dialers, PX!DialFails(d) PROVE BookOK(book')
  <2>1. book' = book \/ book' = PX!RemoveAddress(book, dialer[d].id)
    BY <1>3 DEF PX!DialFails
  <2>. QED
    BY <2>1, Removes
<1>4. CASE PX!EnsurePeers
  BY <1>4 DEF PX!EnsurePeers
<1>5. ASSUME NEW i \in BookIds, PX!InboundPeer(i) PROVE BookOK(book')
  <2>1. PICK n \in NewBuckets : book' \in PX!AddAddress(book, i, i, n)
    BY <1>5 DEF PX!InboundPeer
  <2>. QED
    BY <2>1, Adds
<1>6. ASSUME NEW p \in peers, PX!Answer(p) \/ PX!PeerGone(p) \/ PX!ReceiveRequest(p) PROVE BookOK(book')
  BY <1>6 DEF PX!Answer, PX!PeerGone, PX!ReceiveRequest
<1>7. ASSUME NEW p \in peers, PX!PeerIsGood(p) PROVE BookOK(book')
  <2>1. PICK n \in OldBuckets : book' \in PX!MarkGood(book, p, n)
    BY <1>7 DEF PX!PeerIsGood
  <2>. QED
    BY <2>1, Promotes
<1>8. ASSUME NEW m \in inbox, PX!ReceiveAddrs(m) PROVE BookOK(book')
  <2>1. book' = book \/ \E n \in NewBuckets : book' \in PX!AddAddress(book, m.id, m.from, n)
    BY <1>8 DEF PX!ReceiveAddrs
  <2>. QED
    BY <2>1, Adds
<1>9. CASE PX!Restart
  <2>1. PICK l : LookupOK(l) /\ book = Book(l)
    BY DEF BookOK
  <2>2. book.lookup = l
    BY <2>1 DEF Book, Parts
  <2>3. book' = PX!LoadFromFile(book.lookup)
    BY <1>9 DEF PX!Restart
  <2>. QED
    BY <2>1, <2>2, <2>3, Loaded
<1>. QED
  BY <1>1, <1>2, <1>3, <1>4, <1>5, <1>6, <1>7, <1>8, <1>9 DEF PX!Next

(* The address book is consistent at all times, for any ids, buckets and bucket sizes,       *)
(* whatever peers announce, dials report, the switch marks good and restarts reload.         *)
THEOREM BookKept == BothSpec => []BookConsistent
<1>1. BothInit => BookOK(book)
  BY BookInit DEF BothInit
<1>2. BookOK(book) /\ [BothNext]_<<vars, pexVars, part>> => BookOK(book)'
  <2> SUFFICES ASSUME BookOK(book), [BothNext]_<<vars, pexVars, part>> PROVE BookOK(book)'
    OBVIOUS
  <2>1. CASE PX!Next
    BY <2>1, BookNext
  <2>2. CASE book' = book
    BY <2>2 DEF BookOK, Book, Parts, NewIn, OldIn, NewOf, OldOf, LookupOK, EntryOK
  <2>. QED
    BY <2>1, <2>2 DEF BothNext, pexVars
<1>3. BookOK(book) => BookConsistent
  BY OKIsConsistent DEF BookConsistent, PX!BookConsistent
<1>. QED
  BY <1>1, <1>2, <1>3, PTL DEF BothSpec

----------------------------------------------------------------------------
(***************************************************************************)
(* The private validator never signs two messages for one height, round    *)
(* and step, for any number of crashes and any bounds.                     *)
(*                                                                         *)
(* NoDoubleSign is not inductive: a second signature for the last step is  *)
(* avoided only because the memory, and after a crash the file, is at or   *)
(* after everything given out.  PVInv adds that (FileRemembers) and how    *)
(* memory and file are related while a signature is being saved.           *)
(***************************************************************************)

\* Memory and file agree, except between the assignments of saveSigned and the write of
\* the file, when the memory is ahead.
MemoryAhead == /\ mem \in Request \cup {Empty} /\ file \in Request \cup {Empty}
               /\ signing \in BOOLEAN
               /\ signing => mem \in Request /\ (mem = file \/ Before(file, mem))
               /\ ~signing => mem = file

\* What was given out.
GivenOK == /\ given \subseteq [msg : Request, sig : Request, epoch : Nat]
           /\ epoch \in Nat
           /\ \A x \in given : x.epoch <= epoch

\* The inductive invariant.
PVInv == MemoryAhead /\ GivenOK /\ FileRemembers /\ NoDoubleSign /\ SignatureCoversMessage

\* Heights, rounds and steps are natural numbers, and no message has the zero record's height.
LEMMA HRSNatural ==
  /\ \A a \in Request : a.height \in Nat /\ a.height # 0 /\ a.round \in Nat /\ a.step \in Nat
  /\ Empty.height = 0 /\ Empty.round = 0 /\ Empty.step = 0
<1>1. SignHeights \subseteq Nat \ {0} /\ SignRounds \subseteq Nat /\ Steps \subseteq Nat
  BY SMTT(30), FilePVAssumption
<1> QED BY <1>1 DEF Request, Empty

\* Before is transitive on the records the file may hold.
LEMMA BeforeTransitive ==
  ASSUME NEW a \in Request, NEW b \in Request \cup {Empty}, NEW c \in Request,
         Before(a, b) \/ a = b, Before(b, c)
  PROVE  Before(a, c)
  BY SMTT(30), HRSNatural DEF Before

\* No record is before one of the same height, round and step.
LEMMA BeforeIrreflexive ==
  ASSUME NEW a \in Request, NEW b \in Request, SameHRS(a, b)
  PROVE  ~Before(a, b) /\ ~Before(b, a)
  BY SMTT(30), HRSNatural DEF Before, SameHRS

\* CheckHRS calls new only what is after the last signature.
LEMMA NewIsLater ==
  ASSUME NEW m \in Request, mem \in Request \cup {Empty}, CheckHRS(m) = "new"
  PROVE  Before(mem, m)
  BY SMTT(30), HRSNatural DEF CheckHRS, Before, SameHRS

\* CheckHRS calls a step the same only when a message was signed for it.
LEMMA SameIsSigned ==
  ASSUME NEW m \in Request, mem \in Request \cup {Empty}, CheckHRS(m) = "same"
  PROVE  mem \in Request /\ SameHRS(m, mem)
  BY HRSNatural DEF CheckHRS, Before, SameHRS

\* Giving out what the file records keeps the promises about what was given.
LEMMA GiveRecorded ==
  ASSUME PVInv, mem = file, mem \in Request, Give(mem, mem),
         file' = file, epoch' = epoch
  PROVE  GivenOK' /\ FileRemembers' /\ NoDoubleSign' /\ SignatureCoversMessage'
<1> DEFINE new == [msg |-> mem, sig |-> mem, epoch |-> epoch]
<1>1. given' = given \cup {new}
  BY DEF Give
<1>2. new \in [msg : Request, sig : Request, epoch : Nat]
      /\ new.msg = mem /\ new.sig = mem /\ new.epoch = epoch
  BY DEF PVInv, GivenOK
<1>3. GivenOK'
  BY SMTT(30), <1>1, <1>2 DEF PVInv, GivenOK
<1>4. FileRemembers'
  BY <1>1, <1>2 DEF PVInv, FileRemembers
<1>5. SignatureCoversMessage'
  BY <1>1, <1>2 DEF PVInv, SignatureCoversMessage
<1>6. ASSUME NEW x \in given, x.epoch = epoch, SameHRS(x.msg, mem)
      PROVE  x.msg = mem
  <2>1. x.msg \in Request
    BY DEF PVInv, GivenOK
  <2>2. Before(x.msg, file) \/ x.msg = file
    BY <1>6 DEF PVInv, FileRemembers
  <2> QED BY <1>6, <2>1, <2>2, BeforeIrreflexive
<1>7. NoDoubleSign'
  <2> SUFFICES ASSUME NEW x \in given', NEW y \in given', SameHRS(x.msg, y.msg), x.epoch = y.epoch
               PROVE  x.msg = y.msg
    BY DEF NoDoubleSign
  <2>1. CASE x \in given /\ y \in given
    BY <2>1 DEF PVInv, NoDoubleSign
  <2>2. CASE x \in given /\ y = new
    BY <2>2, <1>2, <1>6
  <2>3. CASE x = new /\ y \in given
    <3>1. SameHRS(y.msg, mem)
      BY <2>3, <1>2 DEF SameHRS
    <3> QED BY <2>3, <3>1, <1>2, <1>6
  <2>4. CASE x = new /\ y = new
    BY <2>4
  <2> QED BY <1>1, <2>1, <2>2, <2>3, <2>4
<1> QED BY <1>3, <1>4, <1>5, <1>7

\* Every step of the private validator preserves the invariant.
LEMMA PVStep == PVInv /\ [PVNext]_pvVars => PVInv'
<1> SUFFICES ASSUME PVInv, [PVNext]_pvVars PROVE PVInv'
  OBVIOUS
<1>1. ASSUME NEW m \in Request, Reuse(m) PROVE PVInv'
  <2>1. mem \in Request /\ SameHRS(m, mem)
    BY <1>1, SameIsSigned DEF Reuse, PVInv, MemoryAhead
  <2>2. [m EXCEPT !.time = mem.time] = mem
    BY <1>1, <2>1 DEF Reuse, OnlyDifferByTimestamp, SameHRS, Request
  <2>3. Give(mem, mem) /\ mem = file
    BY <1>1, <2>2 DEF Reuse, PVInv, MemoryAhead
  <2>4. MemoryAhead'
    BY <1>1 DEF Reuse, PVInv, MemoryAhead, Before
  <2> QED BY <1>1, <2>1, <2>3, <2>4, GiveRecorded DEF Reuse, PVInv
<1>2. ASSUME NEW m \in Request, SignNew(m) PROVE PVInv'
  <2>1. Before(mem, m) /\ mem = file
    BY <1>2, NewIsLater DEF SignNew, PVInv, MemoryAhead
  <2>2. MemoryAhead'
    BY <1>2, <2>1 DEF SignNew, PVInv, MemoryAhead, Before
  <2> QED BY <1>2, <2>2 DEF SignNew, PVInv, GivenOK, FileRemembers, NoDoubleSign,
                           SignatureCoversMessage, Before
<1>3. ASSUME Save PROVE PVInv'
  <2>1. Before(file, mem) /\ mem \in Request
    BY <1>3 DEF Save, PVInv, MemoryAhead
  <2>2. MemoryAhead'
    BY <1>3 DEF Save, PVInv, MemoryAhead
  <2>3. FileRemembers'
    <3> SUFFICES ASSUME NEW x \in given, x.epoch = epoch PROVE Before(x.msg, mem)
      BY <1>3 DEF Save, FileRemembers, Before
    <3>1. x.msg \in Request /\ file \in Request \cup {Empty}
      BY DEF PVInv, GivenOK, MemoryAhead
    <3>2. Before(x.msg, file) \/ x.msg = file
      BY DEF PVInv, FileRemembers
    <3> QED BY <2>1, <3>1, <3>2, BeforeTransitive
  <2> QED BY <1>3, <2>2, <2>3 DEF Save, PVInv, GivenOK, NoDoubleSign, SignatureCoversMessage
<1>4. ASSUME Return PROVE PVInv'
  <2>1. mem \in Request /\ mem = file
    BY <1>4 DEF Return, PVInv, MemoryAhead
  <2>2. MemoryAhead'
    BY <1>4 DEF Return, PVInv, MemoryAhead
  <2> QED BY <1>4, <2>1, <2>2, GiveRecorded DEF Return, PVInv
<1>5. ASSUME Reload PROVE PVInv'
  <2>1. MemoryAhead'
    BY <1>5 DEF Reload, PVInv, MemoryAhead
  <2> QED BY <1>5, <2>1 DEF Reload, PVInv, GivenOK, FileRemembers, NoDoubleSign,
                           SignatureCoversMessage, Before
<1>6. ASSUME Reset PROVE PVInv'
  <2>1. MemoryAhead'
    BY <1>6 DEF Reset, PVInv, MemoryAhead
  <2>2. \A x \in given : x.epoch # epoch'
    BY SMTT(30), <1>6 DEF Reset, PVInv, GivenOK
  <2> QED BY SMTT(30), <1>6, <2>1, <2>2 DEF Reset, PVInv, GivenOK, FileRemembers, NoDoubleSign,
                                 SignatureCoversMessage
<1>7. CASE UNCHANGED pvVars
  BY <1>7 DEF pvVars, PVInv, MemoryAhead, GivenOK, FileRemembers, NoDoubleSign,
              SignatureCoversMessage, Before
<1> QED BY <1>1, <1>2, <1>3, <1>4, <1>5, <1>6, <1>7 DEF PVNext

\* A new validator starts in the invariant.
LEMMA PVStart == PVInit => PVInv
<1> SUFFICES ASSUME PVInit PROVE PVInv
  OBVIOUS
<1>1. MemoryAhead
  BY DEF PVInit, MemoryAhead
<1>2. GivenOK
  BY DEF PVInit, GivenOK
<1>3. FileRemembers /\ NoDoubleSign /\ SignatureCoversMessage
  BY DEF PVInit, FileRemembers, NoDoubleSign, SignatureCoversMessage
<1> QED BY <1>1, <1>2, <1>3 DEF PVInv

\* Whatever crashes and retries happen, the private validator never signs two different
\* messages for one height, round and step, and every repeated signature covers the
\* message it is attached to (signVote, signProposal, saveSigned).
THEOREM SignsOnce == PVSpec => [](NoDoubleSign /\ SignatureCoversMessage /\ FileRemembers)
<1>1. PVInv => NoDoubleSign /\ SignatureCoversMessage /\ FileRemembers
  BY DEF PVInv
<1> QED BY <1>1, PVStart, PVStep, PTL DEF PVSpec

\* Only the reset command takes the recorded height, round and step back.
THEOREM FileOnlyAdvances == PVSpec => FileNeverRegresses
<1>1. PVInv /\ [PVNext]_pvVars => [file' # file => (Before(file, file') \/ epoch' # epoch)]_pvVars
  <2> SUFFICES ASSUME PVInv, PVNext, file' # file PROVE Before(file, file') \/ epoch' # epoch
    BY DEF pvVars
  <2>1. CASE Save
    BY <2>1 DEF Save, PVInv, MemoryAhead
  <2>2. CASE Reset
    BY SMTT(30), <2>2 DEF Reset, PVInv, GivenOK
  <2> QED BY <2>1, <2>2 DEF PVNext, Reuse, SignNew, Return, Reload
<1> QED BY <1>1, PVStart, PVStep, PTL DEF PVSpec, FileNeverRegresses

----------------------------------------------------------------------------
(* The stores, the application and the log *)

\* The heights when no block is being applied.
Level == height = saved + 1 /\ store = saved /\ app = saved
\* The block of this height is stored, and neither state nor application has it.
Stored == height \in Heights /\ height = saved + 1 /\ store = saved + 1 /\ app = saved
\* The application has committed it too, and its responses are saved.
Committed == height \in Heights /\ height = saved + 1 /\ store = saved + 1 /\ app = saved + 1

\* The heights at each step of finalizeCommit, ApplyBlock and the replays.
AtStep ==
  /\ pc \in {"up", "saveblock", "endheight", "apply", "responses", "commit", "save",
             "replay", "responses2", "commit2", "save2", "mock", "responses3", "save3",
             "exec", "commit4", "down", "handshake"}
  /\ pc \in {"up", "saveblock"} => Level
  /\ pc = "saveblock" => height \in Heights
  /\ pc \in {"endheight", "apply", "responses", "commit", "replay", "responses2", "commit2"} => Stored
  /\ pc \in {"commit", "commit2"} => height \in resp
  /\ pc \in {"save", "save2", "mock", "responses3", "save3"} => Committed
  /\ pc \in {"exec", "commit4"} => height = app + 1 /\ app < saved

\* The inductive invariant.
HInv ==
  /\ height \in Nat /\ store \in Nat /\ saved \in Nat /\ app \in Nat
  /\ store <= MaxHeight
  /\ HeightsInStep
  /\ app = saved + 1 => app \in resp
  /\ commits = [h \in Heights |-> IF h <= app THEN 1 ELSE 0]
  /\ AtStep

\* Steps that change no height and no step of the commit.
LEMMA HQuiet ==
  ASSUME HInv, UNCHANGED <<pc, height, store, saved, resp, app, commits>>
  PROVE  HInv'
  BY SMTT(30) DEF HInv, HeightsInStep, AtStep, Level, Stored, Committed

\* Every step of the node preserves the invariant.
LEMMA HStep == HInv /\ [Next]_vars => HInv'
<1> SUFFICES ASSUME HInv, [Next]_vars PROVE HInv'
  OBVIOUS
<1> USE RecoveryAssumption DEF Heights
<1>1. CASE ReceivePeer \/ Sign \/ ReceiveOwn \/ FlushTick \/ ResetValidator \/ UNCHANGED vars
  BY <1>1, HQuiet DEF ReceivePeer, Sign, SignAddVote, SaveSigned, SignReturns, SignAddVoteAgain,
       ReceiveOwn, FlushTick, ResetValidator, vars, durable
<1>2. CASE EnterCommit
  BY SMTT(30), <1>2 DEF EnterCommit, Idle, durable, HInv, HeightsInStep, AtStep, Level, Stored, Committed
<1>3. CASE SaveBlock
  BY SMTT(30), <1>3 DEF SaveBlock, HInv, HeightsInStep, AtStep, Level, Stored, Committed
<1>4. CASE EndHeight
  BY <1>4 DEF EndHeight, durable, HInv, HeightsInStep, AtStep, Level, Stored, Committed
<1>5. CASE Execute
  BY <1>5 DEF Execute, Modes, HInv, HeightsInStep, AtStep, Level, Stored, Committed
<1>6. CASE SaveResponses
  BY <1>6 DEF SaveResponses, HInv, HeightsInStep, AtStep, Level, Stored, Committed
<1>7. CASE AppCommit
  <2>1. height = app + 1 /\ height \in Heights /\ height <= store
    BY SMTT(30), <1>7 DEF AppCommit, HInv, HeightsInStep, AtStep, Stored
  <2>2. commits' = [h \in Heights |-> IF h <= app' THEN 1 ELSE 0]
    <3>1. commits' = [h \in Heights |-> IF h = height THEN commits[h] + 1 ELSE commits[h]]
      BY <1>7 DEF AppCommit, HInv
    <3>2. \A h \in Heights : commits[h] = IF h <= app THEN 1 ELSE 0
      BY DEF HInv
    <3>3. \A h \in Heights : (IF h = height THEN commits[h] + 1 ELSE commits[h])
                             = IF h <= height THEN 1 ELSE 0
      BY SMTT(30), <2>1, <3>2 DEF HInv
    <3> QED BY <1>7, <3>1, <3>3 DEF AppCommit
  <2>3. app' = app + 1 /\ UNCHANGED <<height, store, saved, resp>>
    BY <1>7, <2>1 DEF AppCommit
  <2>4. CASE pc = "commit4"
    <3>1. app < saved
      BY <2>4 DEF HInv, AtStep
    <3>2. pc' = "handshake"
      BY <1>7, <2>4 DEF AppCommit
    <3>3. AtStep'
      BY <3>2 DEF AtStep
    <3> QED BY SMTT(30), <3>1, <3>3, <2>2, <2>3 DEF HInv, HeightsInStep
  <2>5. CASE pc \in {"commit", "commit2"}
    <3>1. Stored /\ height \in resp
      BY <2>5 DEF HInv, AtStep
    <3>2. Committed'
      BY <3>1, <2>3 DEF Stored, Committed
    <3>3. pc' \in {"save", "save2"}
      BY <1>7, <2>5 DEF AppCommit
    <3>4. AtStep'
      BY <3>2, <3>3 DEF AtStep
    <3> QED BY <3>1, <3>4, <2>2, <2>3 DEF HInv, HeightsInStep, Stored
  <2> QED BY <1>7, <2>4, <2>5 DEF AppCommit
<1>8. CASE SaveState
  BY SMTT(30), <1>8 DEF SaveState, HInv, HeightsInStep, AtStep, Level, Stored, Committed
<1>9. CASE Restart
  BY <1>9 DEF Restart, durable, HInv, HeightsInStep, AtStep, Level, Stored, Committed
<1>10. CASE ReplayBlocks
  BY SMTT(30), <1>10 DEF ReplayBlocks, ReplayMode, durable, HInv, HeightsInStep, AtStep, Level, Stored, Committed
<1>11. CASE CatchupReplay
  <2>1. store = saved /\ app = saved
    BY SMTT(30), <1>11 DEF CatchupReplay, ReplayMode, HInv, HeightsInStep
  <2> QED BY SMTT(30), <1>11, <2>1 DEF CatchupReplay, durable, HInv, HeightsInStep, AtStep, Level, Stored, Committed
<1>12. CASE Crash
  <2>1. PICK a \in {app} \cup {b \in AppFloor..MaxHeight : b < app} :
          /\ app' = a
          /\ commits' = [h \in Heights |-> IF h > a THEN 0 ELSE commits[h]]
    BY <1>12 DEF Crash
  <2>2. a \in Nat /\ a <= app
    BY SMTT(30), <2>1 DEF HInv
  <2>3. commits' = [h \in Heights |-> IF h <= app' THEN 1 ELSE 0]
    BY SMTT(30), <2>1, <2>2 DEF HInv
  <2> QED BY SMTT(30), <1>12, <2>1, <2>2, <2>3 DEF Crash, HInv, HeightsInStep, AtStep, Level, Stored, Committed
<1> QED BY <1>1, <1>2, <1>3, <1>4, <1>5, <1>6, <1>7, <1>8, <1>9, <1>10, <1>11, <1>12
        DEF Next, Commit, Start

\* The genesis state is in the invariant.
LEMMA HStart == Init => HInv
  BY SMTT(30), RecoveryAssumption DEF Init, HInv, HeightsInStep, AtStep, Heights

\* After any crashes, block store, state and application are within one block of each
\* other, so ReplayBlocks always meets one of the cases it handles; and the application
\* commits no block twice.
THEOREM HeightsRecoverable == Spec => [](HeightsInStep /\ AppCommitsOnce)
<1>1. HInv => HeightsInStep /\ AppCommitsOnce
  BY SMTT(30) DEF HInv, AppCommitsOnce
<1> QED BY <1>1, HStart, HStep, PTL DEF Spec

\* The handshake never fails for want of saved responses: ApplyBlock saves them before the
\* application commits, so the mock application always finds them.
THEOREM HandshakeSucceeds == Spec => [](pc # "failed")
<1>1. HInv => pc # "failed"
  BY DEF HInv, AtStep
<1> QED BY <1>1, HStart, HStep, PTL DEF Spec

\* The consensus code drives the private validator only in ways FilePV describes.
LEMMA SignerSteps == [Next]_vars => [PVNext]_pvVars
<1> SUFFICES ASSUME [Next]_vars PROVE [PVNext]_pvVars
  OBVIOUS
<1>1. CASE ReceivePeer \/ ReceiveOwn \/ FlushTick \/ Restart \/ ReplayBlocks \/ UNCHANGED vars
  BY <1>1 DEF ReceivePeer, ReceiveOwn, FlushTick, Restart, ReplayBlocks, vars
<1>2. CASE Commit
  BY <1>2 DEF Commit, EnterCommit, SaveBlock, EndHeight, Execute, SaveResponses, AppCommit, SaveState
<1>3. CASE Sign
  BY <1>3 DEF Sign, SignAddVote, SaveSigned, SignReturns, SignAddVoteAgain, AskAgain, PVNext
<1>4. CASE CatchupReplay
  BY <1>4 DEF CatchupReplay, AskAgain, PVNext
<1>5. CASE Crash \/ ResetValidator
  BY <1>5 DEF Crash, ResetValidator, PVNext
<1> QED BY <1>1, <1>2, <1>3, <1>4, <1>5 DEF Next, Start

\* The node, with its crashes, its replay of the log and its requests for the same vote
\* again, never gives out two different votes for one height, round and step unless the
\* validator was reset between them.
THEOREM NodeSignsOnce == Spec => [](NoDoubleSign /\ SignatureCoversMessage /\ FileRemembers)
<1>1. Init => PVInit
  BY DEF Init
<1>2. Spec => PVSpec
  BY <1>1, SignerSteps, PTL DEF Spec, PVSpec
<1> QED BY <1>2, SignsOnce, PTL
-----------------------------------------------------------------------------
\* Entries of the log and of the queue.
Entry == [kind : {"end", "peer", "own"}, height : Nat, n : Nat, msg : Request \cup {Empty}]

NoMarker(s) == \A i \in 1..Len(s) : s[i].kind # "end"

\* Only EndHeight writes markers, and only for a stored block; transfers are applied before
\* the state is saved.
LInv ==
  /\ wal \in Seq(Entry) /\ buf \in Seq(Entry) /\ queue \in Seq(Entry)
  /\ NoMarker(buf) /\ NoMarker(queue)
  /\ MarkerMeansStored
  /\ ledger \in [Heights -> Nat]
  /\ TransfersApplied
  /\ pc \in {"responses", "commit", "save", "responses2", "commit2", "save2", "responses3", "save3"}
       => (height \in TxHeights => ledger[height] >= 1)

\* Entries are well formed.
LEMMA EntriesTyped ==
  /\ \A h \in Nat : Marker(h) \in Entry /\ Marker(h).kind = "end" /\ Marker(h).height = h
  /\ \A h \in Nat, n \in Nat : Peer(h, n) \in Entry /\ Peer(h, n).kind = "peer"
  /\ \A m \in Request : Own(m) \in Entry /\ Own(m).kind = "own"
<1>1. \A m \in Request : m.height \in Nat
  BY HRSNatural
<1> QED BY <1>1 DEF Marker, Peer, Own, Entry

\* Appending an entry that is no marker.
LEMMA AppendQuiet ==
  ASSUME NEW s \in Seq(Entry), NEW e \in Entry, e.kind # "end", NoMarker(s)
  PROVE  Append(s, e) \in Seq(Entry) /\ NoMarker(Append(s, e))
  BY SMTT(30) DEF NoMarker

\* A part of a sequence of messages without markers is one.
LEMMA SubSeqQuiet ==
  ASSUME NEW s \in Seq(Entry), NoMarker(s), NEW m \in 1..(Len(s) + 1), NEW n \in 0..Len(s)
  PROVE  SubSeq(s, m, n) \in Seq(Entry) /\ NoMarker(SubSeq(s, m, n))
<1> DEFINE t == SubSeq(s, m, n)
<1>1. \A i \in m..n : s[i] \in Entry
  BY SMTT(30)
<1>2. /\ t \in Seq(Entry)
      /\ Len(t) = IF m <= n THEN n - m + 1 ELSE 0
      /\ \A i \in 1..(n - m + 1) : t[i] = s[m + i - 1]
  BY SMTT(30), <1>1
<1> HIDE DEF t
<1>3. \A i \in 1..Len(t) : m + i - 1 \in 1..Len(s) /\ t[i] = s[m + i - 1]
  BY SMTT(30), <1>2
<1>4. NoMarker(t)
  BY <1>3 DEF NoMarker
<1> QED BY <1>2, <1>4 DEF t

\* Writing entries to the log: the markers in it stay at or below the block store.
LEMMA LogGrows ==
  ASSUME LInv, NEW s \in Seq(Entry), wal' = wal \o s, store <= store', store \in Nat, store' \in Nat,
         \A i \in 1..Len(s) : s[i].kind = "end" => s[i].height <= store'
  PROVE  wal' \in Seq(Entry) /\ MarkerMeansStored'
<1>1. wal \in Seq(Entry) /\ wal' \in Seq(Entry) /\ Len(wal') = Len(wal) + Len(s)
  BY SMTT(30) DEF LInv
<1>2. ASSUME NEW i \in 1..Len(wal'), wal'[i].kind = "end" PROVE wal'[i].height <= store'
  <2>1. CASE i <= Len(wal)
    <3>1. i \in 1..Len(wal) /\ wal'[i] = wal[i] /\ wal[i] \in Entry
      BY SMTT(30), <1>1, <2>1
    <3>2. wal[i].height \in Nat
      BY <3>1 DEF Entry
    <3> QED BY SMTT(30), <1>2, <3>1, <3>2 DEF LInv, MarkerMeansStored
  <2>2. CASE i > Len(wal)
    <3>1. i - Len(wal) \in 1..Len(s) /\ wal'[i] = s[i - Len(wal)]
      BY SMTT(30), <1>1, <2>2
    <3> QED BY <1>2, <3>1
  <2> QED BY SMTT(30), <1>1, <2>1, <2>2
<1> QED BY <1>1, <1>2 DEF MarkerMeansStored

\* The vote signed last is what is asked for again.
LEMMA AskAgainQueues ==
  ASSUME PVInv, LInv, NEW h, AskAgain(h)
  PROVE  queue' \in Seq(Entry) /\ NoMarker(queue')
<1>1. PICK m \in Request : Reuse(m) /\ queue' = Append(queue, Own([m EXCEPT !.time = mem.time]))
  BY DEF AskAgain
<1>2. mem \in Request /\ SameHRS(m, mem)
  BY <1>1, SameIsSigned DEF Reuse, PVInv, MemoryAhead
<1>3. [m EXCEPT !.time = mem.time] = mem
  BY <1>1, <1>2 DEF Reuse, OnlyDifferByTimestamp, SameHRS, Request
<1>4. queue' = Append(queue, Own(mem)) /\ Own(mem) \in Entry /\ Own(mem).kind # "end"
  BY <1>1, <1>2, <1>3, EntriesTyped
<1> QED BY <1>4, AppendQuiet DEF LInv

\* Steps that touch neither the log nor the ledger.
LEMMA LQuiet ==
  ASSUME LInv, UNCHANGED <<wal, store, saved, ledger, height>>,
         buf' \in Seq(Entry) /\ NoMarker(buf'), queue' \in Seq(Entry) /\ NoMarker(queue'),
         pc' = pc
  PROVE  LInv'
  BY DEF LInv, MarkerMeansStored, TransfersApplied

\* Every step of the node preserves LInv.
LEMMA LStep == PVInv /\ HInv /\ LInv /\ [Next]_vars => LInv'
<1> SUFFICES ASSUME PVInv, HInv, LInv, [Next]_vars PROVE LInv'
  OBVIOUS
<1>a. wal \in Seq(Entry) /\ buf \in Seq(Entry) /\ queue \in Seq(Entry) /\ NoMarker(buf) /\ NoMarker(queue)
  BY DEF LInv
<1>b. height \in Nat /\ store \in Nat /\ saved \in Nat
  BY DEF HInv
<1>c. <<>> \in Seq(Entry) /\ NoMarker(<<>>)
  BY SMTT(30) DEF NoMarker
<1>1. CASE ReceivePeer
  <2>1. PICK n \in 1..PeerMsgs : buf' = Append(buf, Peer(height, n))
    BY <1>1 DEF ReceivePeer
  <2>2. Peer(height, n) \in Entry /\ Peer(height, n).kind # "end"
    BY SMTT(30), <1>b, RecoveryAssumption, EntriesTyped
  <2>3. buf' \in Seq(Entry) /\ NoMarker(buf')
    BY <1>a, <2>1, <2>2, AppendQuiet
  <2> QED BY <1>1, <1>a, <2>3, LQuiet DEF ReceivePeer, durable
<1>d. ASSUME Flush, store' = store
      PROVE  wal' \in Seq(Entry) /\ buf' = <<>> /\ MarkerMeansStored'
  <2>1. wal' = wal \o buf /\ buf' = <<>>
    BY <1>d DEF Flush
  <2>2. \A i \in 1..Len(buf) : buf[i].kind = "end" => buf[i].height <= store'
    BY <1>a DEF NoMarker
  <2> QED BY SMTT(30), <1>a, <1>b, <1>d, <2>1, <2>2, LogGrows
<1>2. CASE SaveSigned \/ ResetValidator \/ UNCHANGED vars
  BY <1>2, <1>a, LQuiet DEF SaveSigned, ResetValidator, vars, durable
<1>14. CASE SignAddVote
  <2>1. wal' \in Seq(Entry) /\ buf' = <<>> /\ MarkerMeansStored'
    BY <1>14, <1>d DEF SignAddVote, durable
  <2> QED BY <1>14, <1>a, <1>c, <2>1 DEF SignAddVote, durable, LInv, TransfersApplied
<1>3. CASE SignReturns
  <2>1. mem \in Request
    BY <1>3 DEF SignReturns, Return, PVInv, MemoryAhead
  <2>2. queue' \in Seq(Entry) /\ NoMarker(queue')
    BY <1>3, <1>a, <2>1, EntriesTyped, AppendQuiet DEF SignReturns
  <2> QED BY <1>3, <1>a, <2>2, LQuiet DEF SignReturns, durable
<1>4. CASE SignAddVoteAgain
  <2>1. queue' \in Seq(Entry) /\ NoMarker(queue')
    BY <1>4, AskAgainQueues DEF SignAddVoteAgain
  <2>2. wal' \in Seq(Entry) /\ buf' = <<>> /\ MarkerMeansStored'
    BY <1>4, <1>d DEF SignAddVoteAgain, durable
  <2> QED BY <1>4, <1>c, <2>1, <2>2 DEF SignAddVoteAgain, durable, LInv, TransfersApplied
<1>5. CASE ReceiveOwn
  <2>1. Head(queue) \in Entry /\ Head(queue).kind # "end" /\ Tail(queue) \in Seq(Entry) /\ NoMarker(Tail(queue))
    BY SMTT(30), <1>5, <1>a DEF ReceiveOwn, NoMarker
  <2>2. Append(buf, Head(queue)) \in Seq(Entry) /\ NoMarker(Append(buf, Head(queue)))
    BY <1>a, <2>1, AppendQuiet
  <2>3. wal' \in Seq(Entry) /\ MarkerMeansStored'
    <3> DEFINE s == Append(buf, Head(queue))
    <3>1. wal' = wal \o s /\ store' = store /\ s \in Seq(Entry) /\ NoMarker(s)
      BY <1>5, <2>2 DEF ReceiveOwn, durable
    <3> HIDE DEF s
    <3>2. \A i \in 1..Len(s) : s[i].kind = "end" => s[i].height <= store'
      BY <3>1 DEF NoMarker
    <3> QED BY SMTT(30), <1>b, <3>1, <3>2, LogGrows
  <2> QED BY <1>5, <1>c, <2>1, <2>3 DEF ReceiveOwn, durable, LInv, TransfersApplied
<1>6. CASE FlushTick
  <2>1. PICK k \in 1..Len(buf) : wal' = wal \o SubSeq(buf, 1, k) /\ buf' = SubSeq(buf, k + 1, Len(buf))
    BY <1>6 DEF FlushTick
  <2>a. 1 \in 1..(Len(buf) + 1) /\ k \in 0..Len(buf) /\ k + 1 \in 1..(Len(buf) + 1) /\ Len(buf) \in 0..Len(buf)
    BY SMTT(30), <1>a
  <2>2. SubSeq(buf, 1, k) \in Seq(Entry) /\ NoMarker(SubSeq(buf, 1, k))
    BY <1>a, <2>a, SubSeqQuiet
  <2>3. buf' \in Seq(Entry) /\ NoMarker(buf')
    <3>1. SubSeq(buf, k + 1, Len(buf)) \in Seq(Entry) /\ NoMarker(SubSeq(buf, k + 1, Len(buf)))
      BY <1>a, <2>a, SubSeqQuiet
    <3> QED BY <2>1, <3>1
  <2>4. wal' \in Seq(Entry) /\ MarkerMeansStored'
    <3> DEFINE s == SubSeq(buf, 1, k)
    <3>a. store' = store
      BY <1>6 DEF FlushTick, durable
    <3>b. wal' = wal \o s /\ s \in Seq(Entry) /\ NoMarker(s)
      BY <2>1, <2>2
    <3> HIDE DEF s
    <3>2. \A i \in 1..Len(s) : s[i].kind = "end" => s[i].height <= store'
      BY <3>b DEF NoMarker
    <3>3. store <= store' /\ store \in Nat /\ store' \in Nat
      BY SMTT(30), <1>b, <3>a
    <3> QED BY <3>b, <3>2, <3>3, LogGrows
  <2> QED BY <1>6, <1>a, <2>3, <2>4 DEF FlushTick, durable, LInv, TransfersApplied
<1>7. CASE EndHeight
  <2>1. height = store /\ Marker(height) \in Entry /\ Marker(height).height = height
    BY <1>7, <1>b, EntriesTyped DEF EndHeight, HInv, AtStep, Stored
  <2>2. Append(buf, Marker(height)) \in Seq(Entry)
    BY SMTT(30), <1>a, <2>1
  <2>3. \A i \in 1..Len(Append(buf, Marker(height))) :
          Append(buf, Marker(height))[i].kind = "end" => Append(buf, Marker(height))[i].height <= store
    BY SMTT(30), <1>a, <1>b, <2>1 DEF NoMarker
  <2>4. wal' \in Seq(Entry) /\ MarkerMeansStored'
    <3> DEFINE s == Append(buf, Marker(height))
    <3>1. /\ wal' = wal \o s /\ store' = store /\ s \in Seq(Entry)
          /\ \A i \in 1..Len(s) : s[i].kind = "end" => s[i].height <= store'
      BY <1>7, <2>2, <2>3 DEF EndHeight, durable
    <3> HIDE DEF s
    <3> QED BY SMTT(30), <1>b, <3>1, LogGrows
  <2> QED BY <1>7, <1>a, <1>c, <2>4 DEF EndHeight, durable, LInv, TransfersApplied
<1>8. CASE SaveBlock
  <2>1. MarkerMeansStored'
    <3>1. store <= store' /\ store' \in Nat /\ wal' = wal
      BY SMTT(30), <1>8, <1>b DEF SaveBlock
    <3>2. ASSUME NEW i \in 1..Len(wal), wal[i].kind = "end" PROVE wal[i].height <= store'
      <4>1. wal[i] \in Entry /\ wal[i].height <= store
        BY SMTT(30), <1>a, <3>2 DEF LInv, MarkerMeansStored
      <4>2. wal[i].height \in Nat
        BY <4>1 DEF Entry
      <4> QED BY SMTT(30), <4>1, <4>2, <3>1, <1>b
    <3> QED BY <3>1, <3>2 DEF MarkerMeansStored
  <2> QED BY <1>8, <2>1 DEF SaveBlock, LInv, TransfersApplied
<1>9. CASE Execute
  <2>1. height \in Heights
    BY SMTT(30), <1>9, RecoveryAssumption DEF Execute, Modes, HInv, HeightsInStep, AtStep, Stored, Committed, Heights
  <2>2. /\ ledger' \in [Heights -> Nat]
        /\ \A h \in Heights : ledger'[h] >= ledger[h]
        /\ height \in TxHeights => ledger'[height] >= 1
    BY SMTT(30), <1>9, <2>1 DEF Execute, LInv
  <2>3. TransfersApplied'
    BY <1>9, <2>2 DEF Execute, LInv, TransfersApplied
  <2> QED BY <1>9, <2>2, <2>3 DEF Execute, LInv, MarkerMeansStored
<1>10. CASE EnterCommit \/ SaveResponses \/ AppCommit \/ Restart \/ ReplayBlocks
  BY <1>10 DEF EnterCommit, SaveResponses, AppCommit, Restart, ReplayBlocks, ReplayMode, durable,
               LInv, MarkerMeansStored, TransfersApplied
<1>11. CASE SaveState
  <2>1. height = saved + 1 /\ height \in Heights /\ (height \in TxHeights => ledger[height] >= 1)
    BY <1>11 DEF SaveState, HInv, AtStep, Committed, LInv
  <2>2. TransfersApplied'
    <3>1. saved' = saved + 1 /\ ledger' = ledger
      BY <1>11, <2>1 DEF SaveState
    <3>2. ASSUME NEW h \in Heights, h <= saved + 1, h \in TxHeights PROVE ledger[h] >= 1
      <4>1. h <= saved \/ h = height
        BY SMTT(30), <1>b, <2>1, <3>2 DEF Heights
      <4> QED BY <2>1, <3>2, <4>1 DEF LInv, TransfersApplied
    <3> QED BY <3>1, <3>2 DEF TransfersApplied
  <2>3. pc' \in {"up", "handshake"}
    BY <1>11 DEF SaveState
  <2> QED BY <1>11, <2>2, <2>3 DEF SaveState, LInv, MarkerMeansStored
<1>12. CASE CatchupReplay
  <2>1. queue' \in Seq(Entry) /\ NoMarker(queue')
    BY <1>12, <1>a, AskAgainQueues DEF CatchupReplay
  <2> QED BY <1>12, <2>1 DEF CatchupReplay, durable, LInv, MarkerMeansStored, TransfersApplied
<1>13. CASE Crash
  BY <1>13, <1>c DEF Crash, LInv, MarkerMeansStored, TransfersApplied
<1> QED BY SMTT(30), <1>1, <1>2, <1>3, <1>4, <1>5, <1>6, <1>7, <1>8, <1>9, <1>10, <1>11, <1>12, <1>13, <1>14
        DEF Next, Sign, Commit, Start

\* The genesis state, with the marker of height 0 in a new log, is in LInv.
LEMMA LStart == Init => LInv
<1> SUFFICES ASSUME Init PROVE LInv
  OBVIOUS
<1>1. Marker(0) \in Entry /\ Marker(0).height = 0
  BY EntriesTyped
<1>2. wal \in Seq(Entry) /\ MarkerMeansStored
  BY SMTT(30), <1>1 DEF Init, MarkerMeansStored
<1> QED BY SMTT(30), <1>2 DEF Init, LInv, NoMarker, TransfersApplied, Heights

\* For any crashes during commit and replay: a marker in the log implies that the block is
\* stored (finalizeCommit's comment), no transfer of an applied block is lost, store, state
\* and application stay in step and the application commits no block twice.
THEOREM DurableStateAgrees == Spec => []StoresAgree
<1>1. HInv /\ LInv => StoresAgree
  BY SMTT(30) DEF HInv, LInv, StoresAgree, AppCommitsOnce
<1>2. Init => PVInv
  BY PVStart DEF Init
<1>3. PVInv /\ [Next]_vars => PVInv'
  BY SignerSteps, PVStep
<1> QED BY <1>1, <1>2, <1>3, HStart, HStep, LStart, LStep, PTL DEF Spec
-----------------------------------------------------------------------------
(* Votes and what they were computed from, in the log *)

\* The entries of s stand in the log w behind position p.
Behind(w, p, s) == Len(s) <= Len(w) - p /\ \A i \in 1..Len(s) : w[p + i] = s[i]

\* The steps at which messages are handled, and those of finalizeCommit after the marker.
Voting == {"up", "saveblock", "endheight"}
Applying == {"apply", "responses", "commit", "save"}

\* Log and buffer hold behind position p exactly what has been handled.
HandledBehind(p) ==
  Len(handled) = Len(wal) + Len(buf) - p /\ Behind(wal \o buf, p, handled)

\* No height has two markers, and the height being voted on has none.
MarkersFresh ==
  /\ \A i, j \in 1..Len(wal) : wal[i].kind = "end" /\ wal[i] = wal[j] => i = j
  /\ pc \in Voting => \A i \in 1..Len(wal) : wal[i].kind = "end" => wal[i].height <= saved
  /\ pc \in Applying => \A i \in 1..Len(wal) : wal[i] = Marker(height) => i = Len(wal)

\* Nothing is signed, queued or sent for a height beyond the next.
VotesInTime ==
  /\ signing => mem.height <= saved + 1
  /\ \A i \in 1..Len(queue) : queue[i].height <= saved + 1
  /\ \A s \in sent : s.vote.height <= saved + 1

\* Behind the marker of the last applied height the log on disk has what the votes of this
\* height depend on; while messages are handled it has, with the buffer, all that was handled.
VotesLogged ==
  \A p \in 1..Len(wal) : wal[p] = Marker(saved) =>
    /\ \A s \in sent : s.vote.height = saved + 1 => Behind(wal, p, Append(s.after, s.vote))
    /\ Behind(wal, p, basis.after)
    /\ pc \in Voting => HandledBehind(p)

VTypes ==
  /\ handled \in Seq(Entry) /\ basis.after \in Seq(Entry)
  /\ sent \subseteq [vote : Entry, after : Seq(Entry)]
  /\ pc \notin Voting => buf = <<>>

VInv == VTypes /\ MarkersFresh /\ VotesInTime /\ VotesLogged

\* What stands in a log stays there when the log grows.
LEMMA BehindGrows ==
  ASSUME NEW w \in Seq(Entry), NEW t \in Seq(Entry), NEW s \in Seq(Entry), NEW p \in Nat,
         Behind(w, p, s)
  PROVE  Behind(w \o t, p, s)
<1>1. Len(w \o t) = Len(w) + Len(t) /\ \A i \in 1..Len(w) : (w \o t)[i] = w[i]
  BY SMTT(30)
<1>2. Len(s) \in Nat /\ Len(w) \in Nat /\ Len(t) \in Nat
  BY SMTT(30)
<1>3. ASSUME NEW i \in 1..Len(s) PROVE (w \o t)[p + i] = s[i]
  <2>1. p + i \in 1..Len(w)
    BY SMTT(30), <1>2 DEF Behind
  <2> QED BY <1>1, <2>1 DEF Behind
<1>4. Len(s) <= Len(w \o t) - p
  BY SMTT(30), <1>1, <1>2 DEF Behind
<1> QED BY <1>3, <1>4 DEF Behind

\* One entry more on both sides.
LEMMA BehindAppend ==
  ASSUME NEW w \in Seq(Entry), NEW s \in Seq(Entry), NEW e \in Entry, NEW p \in Nat,
         Behind(w, p, s), Len(s) = Len(w) - p
  PROVE  Behind(Append(w, e), p, Append(s, e)) /\ Len(Append(s, e)) = Len(Append(w, e)) - p
<1>1. /\ Len(s) \in Nat /\ Len(w) \in Nat
      /\ Len(Append(s, e)) = Len(s) + 1 /\ Len(Append(w, e)) = Len(w) + 1
  BY SMTT(30)
<1>2. ASSUME NEW i \in 1..Len(Append(s, e)) PROVE Append(w, e)[p + i] = Append(s, e)[i]
  <2>1. CASE i = Len(s) + 1
    BY SMTT(30), <1>1, <2>1
  <2>2. CASE i # Len(s) + 1
    <3>1. i \in 1..Len(s) /\ p + i \in 1..Len(w)
      BY SMTT(30), <1>1, <2>2
    <3>2. Append(s, e)[i] = s[i] /\ Append(w, e)[p + i] = w[p + i]
      BY SMTT(30), <3>1
    <3> QED BY <3>1, <3>2 DEF Behind
  <2> QED BY <2>1, <2>2
<1>3. Len(Append(s, e)) = Len(Append(w, e)) - p
  BY SMTT(30), <1>1
<1>4. Len(Append(s, e)) <= Len(Append(w, e)) - p
  BY SMTT(30), <1>1
<1> QED BY <1>2, <1>3, <1>4 DEF Behind

\* Two sequences behind one position: the shorter one is a beginning of the other.
LEMMA BehindPrefix ==
  ASSUME NEW w \in Seq(Entry), NEW s \in Seq(Entry), NEW t \in Seq(Entry), NEW p \in Nat,
         Behind(w, p, s), Behind(w, p, t), Len(s) <= Len(t)
  PROVE  IsStart(s, t)
<1>1. \A i \in 1..Len(s) : s[i] = t[i]
  <2> TAKE i \in 1..Len(s)
  <2>1. i \in 1..Len(t)
    BY SMTT(30)
  <2> QED BY <2>1 DEF Behind
<1> QED BY <1>1 DEF IsStart

\* Messages do not move or add markers.
LEMMA MarkersStay ==
  ASSUME NEW w \in Seq(Entry), NEW t \in Seq(Entry), NoMarker(t)
  PROVE  /\ \A i \in 1..Len(w) : i \in 1..Len(w \o t) /\ (w \o t)[i] = w[i]
         /\ \A i \in 1..Len(w \o t) : (w \o t)[i].kind = "end" =>
              i \in 1..Len(w) /\ (w \o t)[i] = w[i]
<1>1. /\ Len(w) \in Nat /\ Len(t) \in Nat /\ Len(w \o t) = Len(w) + Len(t)
      /\ \A i \in 1..Len(w \o t) :
           (w \o t)[i] = IF i <= Len(w) THEN w[i] ELSE t[i - Len(w)]
  BY SMTT(30)
<1>2. \A i \in 1..Len(w) : i \in 1..Len(w \o t) /\ (w \o t)[i] = w[i]
  BY SMTT(30), <1>1
<1>3. ASSUME NEW i \in 1..Len(w \o t), (w \o t)[i].kind = "end" PROVE i \in 1..Len(w)
  <2> SUFFICES ASSUME i > Len(w) PROVE FALSE
    BY SMTT(30), <1>1
  <2>1. i - Len(w) \in 1..Len(t) /\ (w \o t)[i] = t[i - Len(w)]
    BY SMTT(30), <1>1
  <2> QED BY <1>3, <2>1 DEF NoMarker
<1> QED BY <1>2, <1>3

\* Steps that write nothing to the log: the log still has what votes depend on.
LEMMA VQuiet ==
  ASSUME VInv, UNCHANGED <<wal, saved, sent, basis>>, VotesInTime',
         handled' \in Seq(Entry), pc' \notin Voting => buf' = <<>>,
         pc' \in Voting => pc \in Voting /\ UNCHANGED <<handled, buf>>,
         pc' \in Applying => pc \in Applying /\ UNCHANGED height
  PROVE  VInv'
<1>1. VTypes'
  BY DEF VInv, VTypes
<1>2. MarkersFresh'
  BY DEF VInv, MarkersFresh
<1>3. ASSUME NEW p \in 1..Len(wal'), wal'[p] = Marker(saved')
      PROVE  /\ \A s \in sent' : s.vote.height = saved' + 1 => Behind(wal', p, Append(s.after, s.vote))
             /\ Behind(wal', p, basis'.after)
             /\ pc' \in Voting => HandledBehind(p)'
  <2>1. p \in 1..Len(wal) /\ wal[p] = Marker(saved)
    BY <1>3
  <2>2. /\ \A s \in sent : s.vote.height = saved + 1 => Behind(wal, p, Append(s.after, s.vote))
        /\ Behind(wal, p, basis.after)
        /\ pc \in Voting => HandledBehind(p)
    BY <2>1 DEF VInv, VotesLogged
  <2>3. pc' \in Voting => HandledBehind(p)'
    BY <2>2 DEF HandledBehind
  <2> QED BY <2>2, <2>3
<1>4. VotesLogged'
  BY <1>3 DEF VotesLogged
<1> QED BY <1>1, <1>2, <1>4 DEF VInv

\* Messages are written to the log while votes are cast.
LEMMA MessagesWritten ==
  ASSUME LInv, VInv, NEW t \in Seq(Entry), NoMarker(t), wal' = wal \o t,
         pc \in Voting, UNCHANGED <<pc, saved>>, saved \in Nat
  PROVE  /\ MarkersFresh'
         /\ \A p \in 1..Len(wal') : wal'[p] = Marker(saved') =>
              p \in 1..Len(wal) /\ wal[p] = Marker(saved) /\ p \in Nat
<1>1. wal \in Seq(Entry)
  BY DEF LInv
<1>2. /\ \A i \in 1..Len(wal') : wal'[i].kind = "end" => i \in 1..Len(wal) /\ wal'[i] = wal[i]
  BY <1>1, MarkersStay
<1>3. /\ \A i, j \in 1..Len(wal) : wal[i].kind = "end" /\ wal[i] = wal[j] => i = j
      /\ \A i \in 1..Len(wal) : wal[i].kind = "end" => wal[i].height <= saved
  BY DEF VInv, MarkersFresh
<1>4. ASSUME NEW i \in 1..Len(wal'), NEW j \in 1..Len(wal'), wal'[i].kind = "end", wal'[i] = wal'[j]
      PROVE  i = j
  <2>1. wal'[j].kind = "end"
    BY <1>4
  <2>2. i \in 1..Len(wal) /\ wal'[i] = wal[i] /\ j \in 1..Len(wal) /\ wal'[j] = wal[j]
    BY <1>2, <1>4, <2>1
  <2> QED BY <1>3, <1>4, <2>2
<1>5. \A i \in 1..Len(wal') : wal'[i].kind = "end" => wal'[i].height <= saved'
  BY <1>2, <1>3
<1>6. pc' \notin Applying
  BY DEF Voting, Applying
<1>7. MarkersFresh'
  BY <1>4, <1>5, <1>6 DEF MarkersFresh
<1>8. Marker(saved).kind = "end"
  BY EntriesTyped
<1>9. \A p \in 1..Len(wal) : p \in Nat
  BY SMTT(30), <1>1
<1> QED BY <1>2, <1>7, <1>8, <1>9

\* What the votes of this height depend on is still in the log when messages are added.
LEMMA VotesStay ==
  ASSUME LInv, VInv, NEW t \in Seq(Entry), NEW p \in 1..Len(wal), wal[p] = Marker(saved), p \in Nat
  PROVE  /\ \A s \in sent : s.vote.height = saved + 1 => Behind(wal \o t, p, Append(s.after, s.vote))
         /\ Behind(wal \o t, p, basis.after)
<1>1. wal \in Seq(Entry) /\ basis.after \in Seq(Entry)
  BY DEF LInv, VInv, VTypes
<1>2. ASSUME NEW s \in sent, s.vote.height = saved + 1
      PROVE  Behind(wal \o t, p, Append(s.after, s.vote))
  <2>1. s.after \in Seq(Entry) /\ s.vote \in Entry
    BY DEF VInv, VTypes
  <2>2. Append(s.after, s.vote) \in Seq(Entry)
    BY SMTT(30), <2>1
  <2>3. Behind(wal, p, Append(s.after, s.vote))
    BY <1>2 DEF VInv, VotesLogged
  <2> QED BY <1>1, <2>2, <2>3, BehindGrows
<1>3. Behind(wal, p, basis.after)
  BY DEF VInv, VotesLogged
<1>4. Behind(wal \o t, p, basis.after)
  BY <1>1, <1>3, BehindGrows
<1> QED BY <1>2, <1>4

\* The buffer may be written in any portions: log and buffer together stay the same.
LEMMA SameTogether ==
  ASSUME NEW w \in Seq(Entry), NEW b \in Seq(Entry), NEW k \in 0..Len(b)
  PROVE  LET u == w \o SubSeq(b, 1, k)
             c == SubSeq(b, k + 1, Len(b))
         IN  u \o c = w \o b /\ Len(u) + Len(c) = Len(w) + Len(b)
<1> DEFINE u == w \o SubSeq(b, 1, k)
           c == SubSeq(b, k + 1, Len(b))
<1>0. Len(w) \in Nat /\ Len(b) \in Nat /\ k \in Nat
  BY SMTT(30)
<1>1. /\ SubSeq(b, 1, k) \in Seq(Entry) /\ Len(SubSeq(b, 1, k)) = k
      /\ \A i \in 1..k : SubSeq(b, 1, k)[i] = b[i]
  BY SMTT(30)
<1>2. /\ c \in Seq(Entry) /\ Len(c) = Len(b) - k
      /\ \A i \in 1..(Len(b) - k) : c[i] = b[k + i]
  BY SMTT(30)
<1>3. /\ u \in Seq(Entry) /\ Len(u) = Len(w) + k
      /\ \A i \in 1..Len(u) : u[i] = IF i <= Len(w) THEN w[i] ELSE b[i - Len(w)]
  <2> DEFINE a == SubSeq(b, 1, k)
  <2> HIDE DEF a
  <2>1. a \in Seq(Entry) /\ Len(a) = k /\ \A i \in 1..k : a[i] = b[i]
    BY <1>1 DEF a
  <2>2. u = w \o a
    BY DEF a
  <2> HIDE DEF u
  <2>3. /\ u \in Seq(Entry) /\ Len(u) = Len(w) + k
        /\ \A i \in 1..Len(u) : u[i] = IF i <= Len(w) THEN w[i] ELSE a[i - Len(w)]
    BY SMTT(30), <2>1, <2>2
  <2>4. \A i \in 1..Len(u) : ~(i <= Len(w)) => i - Len(w) \in 1..k
    BY SMTT(30), <1>0, <2>3
  <2> QED BY <2>1, <2>3, <2>4
<1> HIDE DEF u, c
<1>4. /\ Len(u \o c) = Len(w) + Len(b)
      /\ \A i \in 1..(Len(w) + Len(b)) :
           (u \o c)[i] = IF i <= Len(w) THEN w[i] ELSE b[i - Len(w)]
  <2>0. u \in Seq(Entry) /\ c \in Seq(Entry)
    BY <1>2, <1>3
  <2>1. /\ Len(u \o c) = Len(u) + Len(c)
        /\ \A i \in 1..(Len(u) + Len(c)) : (u \o c)[i] = IF i <= Len(u) THEN u[i] ELSE c[i - Len(u)]
    BY SMTT(30), <2>0
  <2>2. Len(u) + Len(c) = Len(w) + Len(b)
    BY SMTT(30), <1>0, <1>2, <1>3
  <2>3. ASSUME NEW i \in 1..(Len(w) + Len(b))
        PROVE  (u \o c)[i] = IF i <= Len(w) THEN w[i] ELSE b[i - Len(w)]
    <3>1. CASE i <= Len(u)
      <4>1. i \in 1..Len(u)
        BY SMTT(30), <1>0, <3>1, <1>3
      <4> QED BY <1>3, <2>1, <2>2, <3>1, <4>1
    <3>2. CASE ~(i <= Len(u))
      <4>1. i - Len(u) \in 1..(Len(b) - k) /\ k + (i - Len(u)) = i - Len(w) /\ ~(i <= Len(w))
        BY SMTT(30), <1>0, <1>3, <3>2
      <4> QED BY <1>2, <2>1, <2>2, <3>2, <4>1
    <3> QED BY <3>1, <3>2
  <2> QED BY <2>1, <2>2, <2>3
<1>5. /\ Len(w \o b) = Len(w) + Len(b)
      /\ \A i \in 1..(Len(w) + Len(b)) :
           (w \o b)[i] = IF i <= Len(w) THEN w[i] ELSE b[i - Len(w)]
  BY SMTT(30)
<1>6. u \o c \in Seq(Entry) /\ w \o b \in Seq(Entry)
  BY SMTT(30), <1>2, <1>3
<1>7. u \o c = w \o b
  <2> DEFINE x == u \o c
             y == w \o b
  <2>1. /\ x \in Seq(Entry) /\ y \in Seq(Entry) /\ Len(x) = Len(y)
        /\ \A i \in 1..Len(x) : x[i] = y[i]
    BY <1>4, <1>5, <1>6
  <2> HIDE DEF x, y
  <2>2. x = y
    BY SMTT(30), <2>1
  <2> QED BY <2>2 DEF x, y
<1>8. Len(u) + Len(c) = Len(w) + Len(b)
  BY SMTT(30), <1>0, <1>2, <1>3
<1> QED BY <1>7, <1>8 DEF u, c


\* A vote joins the queue.
LEMMA QueueInTime ==
  ASSUME LInv, VInv, NEW v \in Entry, v.height <= saved + 1, queue' = Append(queue, v)
  PROVE  \A i \in 1..Len(queue') : queue'[i].height <= saved + 1
<1>1. queue \in Seq(Entry)
  BY DEF LInv
<1>2. /\ Len(queue') = Len(queue) + 1 /\ queue'[Len(queue) + 1] = v
      /\ \A i \in 1..Len(queue) : queue'[i] = queue[i]
  BY SMTT(30), <1>1
<1>3. \A i \in 1..Len(queue') : i \in 1..Len(queue) \/ i = Len(queue) + 1
  BY SMTT(30), <1>1, <1>2
<1> QED BY <1>2, <1>3 DEF VInv, VotesInTime

\* The vote that is asked for again is of the height it is asked for.
LEMMA AskAgainInTime ==
  ASSUME PVInv, LInv, VInv, AskAgain(saved + 1), saved \in Nat
  PROVE  /\ \A i \in 1..Len(queue') : queue'[i].height <= saved + 1
         /\ ~signing'
<1>1. PICK m \in Request : /\ m.height = saved + 1 /\ Reuse(m)
                           /\ queue' = Append(queue, Own([m EXCEPT !.time = mem.time]))
  BY DEF AskAgain
<1>2. mem \in Request /\ SameHRS(m, mem)
  BY <1>1, SameIsSigned DEF Reuse, PVInv, MemoryAhead
<1>3. [m EXCEPT !.time = mem.time] = mem
  BY <1>1, <1>2 DEF Reuse, OnlyDifferByTimestamp, SameHRS, Request
<1>4. mem.height = saved + 1
  BY <1>1, <1>2 DEF SameHRS
<1>5. Own(mem) \in Entry /\ Own(mem).height = mem.height
  BY <1>2, EntriesTyped DEF Own
<1>6. Own(mem).height <= saved + 1
  BY SMTT(30), <1>4, <1>5
<1>7. ~signing'
  BY <1>1 DEF Reuse
<1> QED BY <1>1, <1>3, <1>5, <1>6, <1>7, QueueInTime

\* No step signs, queues or sends a vote for a height beyond the next.
LEMMA InTimeStep == PVInv /\ HInv /\ LInv /\ VInv /\ [Next]_vars => VotesInTime'
<1> SUFFICES ASSUME PVInv, HInv, LInv, VInv, [Next]_vars PROVE VotesInTime'
  OBVIOUS
<1>a. saved \in Nat /\ height \in Nat
  BY DEF HInv
<1>b. pc = "up" => height = saved + 1
  BY DEF HInv, AtStep, Level
<1>c. VotesInTime /\ queue \in Seq(Entry)
  BY DEF VInv, LInv
<1>1. CASE UNCHANGED <<mem, signing, queue, saved, sent>>
  BY <1>1, <1>c DEF VotesInTime
<1>2. CASE \/ ReceivePeer \/ FlushTick \/ EnterCommit \/ SaveBlock \/ EndHeight \/ Execute
           \/ SaveResponses \/ AppCommit \/ Restart \/ ReplayBlocks \/ UNCHANGED vars
  BY <1>1, <1>2 DEF ReceivePeer, FlushTick, EnterCommit, SaveBlock, EndHeight, Execute,
       SaveResponses, AppCommit, Restart, ReplayBlocks, vars, durable, pvVars
<1>3. CASE SaveSigned
  BY <1>1, <1>3 DEF SaveSigned, Save, durable
<1>4. CASE SignAddVote
  <2>1. mem'.height = saved + 1 /\ UNCHANGED <<queue, saved, sent>>
    BY <1>4, <1>b DEF SignAddVote, SignNew, durable
  <2>2. mem'.height <= saved + 1
    BY SMTT(30), <2>1, <1>a
  <2> QED BY <2>1, <2>2, <1>c DEF VotesInTime
<1>5. CASE SignReturns
  <2>1. /\ signing /\ mem \in Request /\ ~signing' /\ UNCHANGED <<saved, sent>>
        /\ queue' = Append(queue, Own(mem))
    BY <1>5 DEF SignReturns, Return, PVInv, MemoryAhead, durable
  <2>2. Own(mem) \in Entry /\ Own(mem).height <= saved + 1
    BY <2>1, <1>c, EntriesTyped DEF Own, VotesInTime
  <2>3. \A i \in 1..Len(queue') : queue'[i].height <= saved + 1
    BY <2>1, <2>2, QueueInTime
  <2> QED BY <2>1, <2>3, <1>c DEF VotesInTime
<1>6. CASE SignAddVoteAgain
  <2>1. AskAgain(saved + 1) /\ UNCHANGED <<saved, sent>>
    BY <1>6, <1>b DEF SignAddVoteAgain, durable
  <2> QED BY <2>1, <1>a, <1>c, AskAgainInTime DEF VotesInTime
<1>7. CASE ReceiveOwn
  <2>1. /\ queue # <<>> /\ UNCHANGED <<mem, signing, saved>> /\ queue' = Tail(queue)
        /\ sent' = sent \cup {[vote |-> Head(queue), after |-> handled]}
    BY <1>7 DEF ReceiveOwn, durable, pvVars
  <2>2. Head(queue).height <= saved + 1 /\ \A i \in 1..Len(Tail(queue)) : Tail(queue)[i].height <= saved + 1
    BY SMTT(30), <2>1, <1>c DEF VotesInTime
  <2>3. \A s \in sent' : s \in sent \/ s.vote = Head(queue)
    BY SMTT(30), <2>1
  <2>4. \A s \in sent' : s.vote.height <= saved' + 1
    BY <2>1, <2>2, <2>3, <1>c DEF VotesInTime
  <2>5. \A i \in 1..Len(queue') : queue'[i].height <= saved' + 1
    BY <2>1, <2>2
  <2> QED BY <2>1, <2>4, <2>5, <1>c DEF VotesInTime
<1>8. CASE SaveState
  <2>1. UNCHANGED <<mem, signing, queue>> /\ saved' = saved + 1 /\ sent' \subseteq sent
    BY <1>8 DEF SaveState, HInv, AtStep, Committed, pvVars
  <2>2. /\ signing => mem.height \in Nat
        /\ \A i \in 1..Len(queue) : queue[i].height \in Nat
        /\ \A s \in sent : s.vote.height \in Nat
    <3>1. signing => mem.height \in Nat
      BY HRSNatural DEF PVInv, MemoryAhead
    <3>2. \A i \in 1..Len(queue) : queue[i] \in Entry
      BY SMTT(30), <1>c
    <3>3. \A s \in sent : s.vote \in Entry
      BY DEF VInv, VTypes
    <3> QED BY <3>1, <3>2, <3>3 DEF Entry
  <2>3. \A h \in Nat : h <= saved + 1 => h <= saved' + 1
    BY SMTT(30), <1>a, <2>1
  <2> QED BY <2>1, <2>2, <2>3, <1>c DEF VotesInTime
<1>9. CASE Crash
  <2>1. ~signing' /\ Len(queue') = 0 /\ UNCHANGED <<saved, sent>>
    BY SMTT(30), <1>9 DEF Crash, Reload
  <2>2. 1..Len(queue') = {}
    BY SMTT(30), <2>1
  <2> QED BY <2>1, <2>2, <1>c DEF VotesInTime
<1>10. CASE ResetValidator
  <2>1. ~signing' /\ UNCHANGED <<saved, sent, queue>>
    BY <1>10 DEF ResetValidator, Reset, durable
  <2> QED BY <2>1, <1>c DEF VotesInTime
<1>11. CASE CatchupReplay
  <2>1. UNCHANGED <<saved, sent>> /\ (UNCHANGED <<queue, pvVars>> \/ AskAgain(saved + 1))
    BY <1>11 DEF CatchupReplay, durable
  <2>2. CASE UNCHANGED <<queue, pvVars>>
    BY <2>1, <2>2, <1>1 DEF pvVars
  <2>3. CASE AskAgain(saved + 1)
    BY <2>1, <2>3, <1>a, <1>c, AskAgainInTime DEF VotesInTime
  <2> QED BY <2>1, <2>2, <2>3
<1> QED BY <1>2, <1>3, <1>4, <1>5, <1>6, <1>7, <1>8, <1>9, <1>10, <1>11 DEF Next, Sign, Commit, Start


\* Steps at which votes are cast and the log grows by messages.
LEMMA LogKept ==
  ASSUME LInv, VInv, VTypes', NEW t \in Seq(Entry), NoMarker(t), wal' = wal \o t,
         pc = "up", UNCHANGED <<pc, saved>>, saved \in Nat, VotesInTime',
         \A p \in 1..Len(wal) : wal[p] = Marker(saved) /\ HandledBehind(p) /\ p \in Nat =>
           /\ HandledBehind(p)'
           /\ \A s \in sent' \ sent : Behind(wal', p, Append(s.after, s.vote))
           /\ basis' # basis => Behind(wal', p, basis'.after)
  PROVE  VInv'
<1>0. pc \in Voting
  BY DEF Voting
<1>1. MarkersFresh' /\ \A p \in 1..Len(wal') : wal'[p] = Marker(saved') =>
                         p \in 1..Len(wal) /\ wal[p] = Marker(saved) /\ p \in Nat
  BY <1>0, MessagesWritten
<1>2. ASSUME NEW p \in 1..Len(wal'), wal'[p] = Marker(saved')
      PROVE  /\ \A s \in sent' : s.vote.height = saved' + 1 => Behind(wal', p, Append(s.after, s.vote))
             /\ Behind(wal', p, basis'.after)
             /\ HandledBehind(p)'
  <2>1. p \in 1..Len(wal) /\ wal[p] = Marker(saved) /\ p \in Nat
    BY <1>1, <1>2
  <2>2. HandledBehind(p)
    BY <1>0, <2>1 DEF VInv, VotesLogged
  <2>3. /\ \A s \in sent : s.vote.height = saved + 1 => Behind(wal \o t, p, Append(s.after, s.vote))
        /\ Behind(wal \o t, p, basis.after)
    BY <2>1, VotesStay
  <2>4. /\ HandledBehind(p)'
        /\ \A s \in sent' \ sent : Behind(wal', p, Append(s.after, s.vote))
        /\ basis' # basis => Behind(wal', p, basis'.after)
    BY <2>1, <2>2
  <2> QED BY <2>3, <2>4
<1>3. VotesLogged'
  BY <1>2 DEF VotesLogged
<1> QED BY <1>1, <1>3 DEF VInv


\* Log and buffer together, when a message is added to the buffer.
LEMMA AppendTogether ==
  ASSUME NEW w \in Seq(Entry), NEW b \in Seq(Entry), NEW e \in Entry
  PROVE  /\ w \o Append(b, e) = Append(w \o b, e)
         /\ w \o <<>> = w
         /\ Append(b, e) \in Seq(Entry) /\ w \o b \in Seq(Entry)
         /\ Len(Append(b, e)) = Len(b) + 1 /\ Len(w \o b) = Len(w) + Len(b)
         /\ Len(w) \in Nat /\ Len(b) \in Nat
<1> DEFINE c == Append(b, e)
           x == w \o c
           y == Append(w \o b, e)
<1>1. c \in Seq(Entry) /\ Len(c) = Len(b) + 1 /\ Len(b) \in Nat /\ Len(w) \in Nat
  BY SMTT(30)
<1>2. \A i \in 1..Len(c) : c[i] = IF i <= Len(b) THEN b[i] ELSE e
  BY SMTT(30)
<1>3. w \o b \in Seq(Entry) /\ Len(w \o b) = Len(w) + Len(b)
  BY SMTT(30)
<1>4. /\ y \in Seq(Entry) /\ Len(y) = Len(w) + Len(b) + 1
      /\ \A i \in 1..Len(y) : y[i] = IF i <= Len(w) THEN w[i] ELSE IF i <= Len(w) + Len(b) THEN b[i - Len(w)] ELSE e
  BY SMTT(30)
<1> HIDE DEF c
<1>5. /\ x \in Seq(Entry) /\ Len(x) = Len(w) + Len(c)
      /\ \A i \in 1..Len(x) : x[i] = IF i <= Len(w) THEN w[i] ELSE c[i - Len(w)]
  BY SMTT(30), <1>1
<1> HIDE DEF x, y
<1>6. Len(x) = Len(y) /\ \A i \in 1..Len(x) : x[i] = y[i]
  <2>1. Len(x) = Len(y)
    BY SMTT(30), <1>1, <1>4, <1>5
  <2>2. ASSUME NEW i \in 1..Len(x) PROVE x[i] = y[i]
    <3>1. CASE i <= Len(w)
      BY <1>4, <1>5, <2>1, <3>1
    <3>2. CASE ~(i <= Len(w))
      <4>1. /\ i - Len(w) \in 1..Len(c)
            /\ i - Len(w) <= Len(b) <=> i <= Len(w) + Len(b)
        BY SMTT(30), <1>1, <1>5, <3>2
      <4> QED BY <1>2, <1>4, <1>5, <2>1, <3>2, <4>1
    <3> QED BY <3>1, <3>2
  <2> QED BY <2>1, <2>2
<1>7. x = y
  <2>1. x \in Seq(Entry) /\ y \in Seq(Entry)
    BY <1>4, <1>5
  <2> QED BY SMTT(30), <1>6, <2>1
<1>8. w \o <<>> = w
  BY SMTT(30)
<1> QED BY <1>1, <1>3, <1>7, <1>8 DEF x, y, c

\* Messages of peers, timeouts and own votes are logged and handled together.
LEMMA MessageHandled ==
  ASSUME LInv, VInv, NEW v \in Entry, NEW p \in Nat, HandledBehind(p), handled' = Append(handled, v),
         \/ wal' = wal /\ buf' = Append(buf, v)
         \/ wal' = wal \o Append(buf, v) /\ buf' = <<>>
  PROVE  HandledBehind(p)' /\ Behind(wal \o Append(buf, v), p, Append(handled, v))
<1>1. wal \in Seq(Entry) /\ buf \in Seq(Entry) /\ handled \in Seq(Entry)
  BY DEF LInv, VInv, VTypes
<1> DEFINE w == wal \o buf
<1>2. /\ wal \o Append(buf, v) = Append(w, v) /\ Append(buf, v) \in Seq(Entry) /\ w \in Seq(Entry)
      /\ Len(Append(buf, v)) = Len(buf) + 1 /\ Len(w) = Len(wal) + Len(buf)
      /\ Len(wal) \in Nat /\ Len(buf) \in Nat
  BY SMTT(30), <1>1, AppendTogether
<1>3. Behind(w, p, handled) /\ Len(handled) = Len(w) - p
  BY SMTT(30), <1>2 DEF HandledBehind
<1> HIDE DEF w
<1>4. Behind(Append(w, v), p, Append(handled, v)) /\ Len(Append(handled, v)) = Len(Append(w, v)) - p
  BY <1>1, <1>2, <1>3, BehindAppend
<1>5. Append(w, v) \in Seq(Entry) /\ Len(Append(w, v)) = Len(wal) + Len(buf) + 1
  BY SMTT(30), <1>2
<1>6. wal' \o buf' = Append(w, v) /\ Len(wal') + Len(buf') = Len(Append(w, v))
  <2>1. CASE wal' = wal /\ buf' = Append(buf, v)
    <3>1. Len(wal') + Len(buf') = Len(Append(w, v))
      BY SMTT(30), <1>2, <1>5, <2>1
    <3> QED BY <1>2, <2>1, <3>1
  <2>2. CASE wal' = wal \o Append(buf, v) /\ buf' = <<>>
    <3>1. wal' = Append(w, v) /\ wal' \o <<>> = wal'
      BY <1>1, <1>2, <1>5, <2>2, AppendTogether
    <3>2. Len(wal') + Len(buf') = Len(Append(w, v))
      BY SMTT(30), <1>2, <1>5, <2>2, <3>1
    <3> QED BY <2>2, <3>1, <3>2
  <2> QED BY <2>1, <2>2
<1>7. Len(handled') = Len(wal') + Len(buf') - p
  BY SMTT(30), <1>4, <1>6
<1>8. Behind(wal' \o buf', p, handled')
  BY <1>4, <1>6
<1> QED BY <1>2, <1>4, <1>7, <1>8 DEF HandledBehind


\* The steps of the consensus at one height: what is handled is logged, and what is signed
\* or sent is in the log on disk.
LEMMA VUp ==
  ASSUME PVInv, HInv, LInv, VInv, VotesInTime',
         ReceivePeer \/ SignAddVote \/ SignAddVoteAgain \/ ReceiveOwn \/ FlushTick
  PROVE  VInv'
<1>a. /\ wal \in Seq(Entry) /\ buf \in Seq(Entry) /\ queue \in Seq(Entry)
      /\ NoMarker(buf) /\ NoMarker(queue)
  BY DEF LInv
<1>b. height \in Nat /\ saved \in Nat
  BY DEF HInv
<1>c. <<>> \in Seq(Entry) /\ NoMarker(<<>>) /\ wal \o <<>> = wal
  BY SMTT(30), <1>a DEF NoMarker
<1>d. handled \in Seq(Entry) /\ VTypes
  BY DEF VInv, VTypes
<1>1. CASE ReceivePeer
  <2>1. PICK n \in 1..PeerMsgs : buf' = Append(buf, Peer(height, n)) /\ handled' = Append(handled, Peer(height, n))
    BY <1>1 DEF ReceivePeer
  <2>2. Peer(height, n) \in Entry
    BY SMTT(30), <1>b, RecoveryAssumption, EntriesTyped
  <2>3. wal' = wal /\ pc = "up" /\ UNCHANGED <<pc, saved, sent, basis>>
    BY <1>1 DEF ReceivePeer, Idle, durable
  <2>4. VTypes'
    <3>1. handled' \in Seq(Entry)
      BY SMTT(30), <1>d, <2>1, <2>2
    <3> QED BY <1>d, <2>3, <3>1 DEF VTypes, Voting
  <2>5. ASSUME NEW p \in Nat, HandledBehind(p) PROVE HandledBehind(p)'
    BY <2>1, <2>2, <2>3, <2>5, MessageHandled
  <2>6. wal' = wal \o <<>>
    BY <1>c, <2>3
  <2> QED BY <1>b, <1>c, <2>3, <2>4, <2>5, <2>6, LogKept
<1>2. ASSUME Flush, UNCHANGED <<handled, saved>>
      PROVE  /\ wal' = wal \o buf /\ buf' = <<>>
             /\ \A p \in Nat : HandledBehind(p) => HandledBehind(p)' /\ Behind(wal', p, handled)
  <2>1. wal' = wal \o buf /\ buf' = <<>>
    BY <1>2 DEF Flush
  <2>2. wal \o buf \in Seq(Entry) /\ Len(wal \o buf) = Len(wal) + Len(buf) /\ Len(wal) \in Nat /\ Len(buf) \in Nat
    BY SMTT(30), <1>a
  <2>3. wal' \o buf' = wal \o buf /\ Len(wal') + Len(buf') = Len(wal) + Len(buf)
    BY SMTT(30), <2>1, <2>2
  <2>4. ASSUME NEW p \in Nat, HandledBehind(p) PROVE HandledBehind(p)' /\ Behind(wal', p, handled)
    <3>1. Len(handled) = Len(wal) + Len(buf) - p /\ Behind(wal \o buf, p, handled)
      BY <2>4 DEF HandledBehind
    <3>2. Len(handled') = Len(wal') + Len(buf') - p
      BY SMTT(30), <1>2, <2>3, <3>1
    <3> QED BY <1>2, <2>1, <2>3, <3>1, <3>2 DEF HandledBehind
  <2> QED BY <2>1, <2>4
<1>3. CASE SignAddVote
  <2>0. PICK m \in Request : basis' = [msg |-> m, after |-> handled]
    BY <1>3 DEF SignAddVote
  <2>1. Flush /\ pc = "up" /\ UNCHANGED <<pc, handled, saved, sent>>
    BY <1>3 DEF SignAddVote, durable
  <2>3. basis'.after = handled
    BY SMTT(30), <2>0
  <2>2. VTypes'
    BY <1>d, <2>1, <2>3 DEF VTypes, Voting
  <2> QED BY <1>a, <1>b, <1>2, <2>1, <2>2, <2>3, LogKept
<1>4. CASE SignAddVoteAgain
  <2>1. Flush /\ pc = "up" /\ UNCHANGED <<pc, handled, saved, sent, basis>>
    BY <1>4 DEF SignAddVoteAgain, durable
  <2>2. VTypes'
    BY <1>d, <2>1 DEF VTypes, Voting
  <2> QED BY <1>a, <1>b, <1>2, <2>1, <2>2, LogKept
<1>5. CASE ReceiveOwn
  <2> DEFINE v == Head(queue)
  <2>1. /\ pc = "up" /\ UNCHANGED <<pc, saved, basis>>
        /\ wal' = wal \o Append(buf, v) /\ buf' = <<>> /\ handled' = Append(handled, v)
        /\ sent' = sent \cup {[vote |-> v, after |-> handled]}
    BY <1>5 DEF ReceiveOwn, Idle, durable
  <2>2. v \in Entry /\ v.kind # "end"
    BY SMTT(30), <1>5, <1>a DEF ReceiveOwn, NoMarker
  <2> HIDE DEF v
  <2>3. Append(buf, v) \in Seq(Entry) /\ NoMarker(Append(buf, v))
    BY <1>a, <2>2, AppendQuiet
  <2>4. VTypes'
    <3>1. handled' \in Seq(Entry)
      BY SMTT(30), <1>d, <2>1, <2>2
    <3>2. [vote |-> v, after |-> handled] \in [vote : Entry, after : Seq(Entry)]
      BY <1>d, <2>2
    <3> QED BY <1>d, <2>1, <3>1, <3>2 DEF VTypes, Voting
  <2>5. ASSUME NEW p \in Nat, HandledBehind(p)
        PROVE  HandledBehind(p)' /\ Behind(wal', p, Append(handled, v))
    BY <2>1, <2>2, <2>5, MessageHandled
  <2>6. \A s \in sent' \ sent : s.vote = v /\ s.after = handled
    BY SMTT(30), <2>1
  <2> QED BY <1>b, <2>1, <2>3, <2>4, <2>5, <2>6, LogKept
<1>6. CASE FlushTick
  <2>1. PICK k \in 1..Len(buf) : wal' = wal \o SubSeq(buf, 1, k) /\ buf' = SubSeq(buf, k + 1, Len(buf))
    BY <1>6 DEF FlushTick
  <2>2. pc = "up" /\ UNCHANGED <<pc, handled, saved, sent, basis>>
    BY <1>6 DEF FlushTick, durable
  <2>3. 1 \in 1..(Len(buf) + 1) /\ k \in 0..Len(buf)
    BY SMTT(30), <1>a
  <2>4. SubSeq(buf, 1, k) \in Seq(Entry) /\ NoMarker(SubSeq(buf, 1, k))
    BY <1>a, <2>3, SubSeqQuiet
  <2>5. wal' \o buf' = wal \o buf /\ Len(wal') + Len(buf') = Len(wal) + Len(buf)
    BY <1>a, <2>1, <2>3, SameTogether
  <2>6. ASSUME NEW p \in Nat, HandledBehind(p) PROVE HandledBehind(p)'
    <3>1. Len(handled) = Len(wal) + Len(buf) - p /\ Behind(wal \o buf, p, handled)
      BY <2>6 DEF HandledBehind
    <3>2. Len(handled') = Len(wal') + Len(buf') - p
      BY SMTT(30), <2>2, <2>5, <3>1
    <3> QED BY <2>2, <2>5, <3>1, <3>2 DEF HandledBehind
  <2>7. VTypes'
    BY <1>d, <2>2 DEF VTypes, Voting
  <2> QED BY <1>b, <2>1, <2>2, <2>4, <2>6, <2>7, LogKept
<1> QED BY <1>1, <1>3, <1>4, <1>5, <1>6


\* The marker of the height is the last entry when EndHeight has written it, and no other
\* is like it.
LEMMA VEndHeight == ASSUME HInv, LInv, VInv, VotesInTime', EndHeight PROVE VInv'
<1> DEFINE t == Append(buf, Marker(height))
<1>a. wal \in Seq(Entry) /\ buf \in Seq(Entry) /\ NoMarker(buf)
  BY DEF LInv
<1>b. height \in Nat /\ saved \in Nat /\ height = saved + 1
  BY DEF EndHeight, HInv, AtStep, Stored
<1>c. /\ pc = "endheight" /\ pc' = "apply" /\ wal' = wal \o t /\ buf' = <<>>
      /\ UNCHANGED <<height, handled, saved, sent, basis>>
  BY DEF EndHeight, durable
<1>d. /\ Marker(height) \in Entry /\ Marker(height).kind = "end" /\ Marker(height).height = height
      /\ Marker(saved) # Marker(height) /\ Marker(saved).kind = "end"
  <2>1. \A h \in Nat : Marker(h).height = h /\ Marker(h).kind = "end" /\ Marker(h) \in Entry
    BY EntriesTyped
  <2>2. saved # height
    BY SMTT(30), <1>b
  <2> QED BY <1>b, <2>1, <2>2
<1>e. /\ t \in Seq(Entry) /\ Len(t) = Len(buf) + 1 /\ t[Len(buf) + 1] = Marker(height)
      /\ \A i \in 1..Len(buf) : t[i] = buf[i]
  BY SMTT(30), <1>a, <1>d
<1> HIDE DEF t
<1>1. /\ wal' \in Seq(Entry) /\ Len(wal') = Len(wal) + Len(buf) + 1
      /\ \A i \in 1..Len(wal') : wal'[i] = IF i <= Len(wal) THEN wal[i] ELSE t[i - Len(wal)]
      /\ Len(wal) \in Nat /\ Len(buf) \in Nat
  <2>1. /\ wal \o t \in Seq(Entry) /\ Len(wal \o t) = Len(wal) + Len(t)
        /\ \A i \in 1..Len(wal \o t) : (wal \o t)[i] = IF i <= Len(wal) THEN wal[i] ELSE t[i - Len(wal)]
    BY SMTT(30), <1>a, <1>e
  <2>2. Len(wal) \in Nat /\ Len(buf) \in Nat
    BY SMTT(30), <1>a
  <2>3. Len(wal \o t) = Len(wal) + Len(buf) + 1
    BY SMTT(30), <1>e, <2>1, <2>2
  <2> QED BY <1>c, <2>1, <2>2, <2>3
<1>2. ASSUME NEW i \in 1..Len(wal'), wal'[i].kind = "end"
      PROVE  \/ i \in 1..Len(wal) /\ wal'[i] = wal[i] /\ wal'[i] # Marker(height)
             \/ i = Len(wal') /\ wal'[i] = Marker(height)
  <2>1. CASE i <= Len(wal)
    <3>1. i \in 1..Len(wal)
      BY SMTT(30), <1>1, <2>1
    <3>2. wal'[i] = wal[i]
      BY <1>1, <2>1
    <3>3. wal[i].height <= saved
      BY <1>2, <1>c, <3>1, <3>2 DEF VInv, MarkersFresh, Voting
    <3>4. wal[i] # Marker(height)
      <4> SUFFICES ASSUME wal[i] = Marker(height) PROVE FALSE
        OBVIOUS
      <4>1. height <= saved
        BY <1>d, <3>3
      <4> QED BY SMTT(30), <1>b, <4>1
    <3> QED BY <3>1, <3>2, <3>4
  <2>2. CASE ~(i <= Len(wal))
    <3>1. i - Len(wal) \in 1..Len(buf) \/ (i - Len(wal) = Len(buf) + 1 /\ i = Len(wal'))
      BY SMTT(30), <1>1, <2>2
    <3>2. wal'[i] = t[i - Len(wal)]
      BY <1>1, <2>2
    <3>3. i - Len(wal) \notin 1..Len(buf)
      BY <1>2, <1>a, <1>e, <3>2 DEF NoMarker
    <3> QED BY <1>e, <3>1, <3>2, <3>3
  <2> QED BY <2>1, <2>2
<1>3. \A i, j \in 1..Len(wal') : wal'[i].kind = "end" /\ wal'[i] = wal'[j] => i = j
  <2> SUFFICES ASSUME NEW i \in 1..Len(wal'), NEW j \in 1..Len(wal'),
                      wal'[i].kind = "end", wal'[i] = wal'[j]
               PROVE  i = j
    OBVIOUS
  <2>1. /\ \/ i \in 1..Len(wal) /\ wal'[i] = wal[i] /\ wal'[i] # Marker(height)
           \/ i = Len(wal') /\ wal'[i] = Marker(height)
        /\ \/ j \in 1..Len(wal) /\ wal'[j] = wal[j] /\ wal'[j] # Marker(height)
           \/ j = Len(wal') /\ wal'[j] = Marker(height)
    BY <1>2
  <2> QED BY <2>1 DEF VInv, MarkersFresh
<1>4. \A i \in 1..Len(wal') : wal'[i] = Marker(height) => i = Len(wal')
  BY <1>2, <1>d
<1>5. MarkersFresh'
  BY <1>3, <1>4, <1>c DEF MarkersFresh, Voting
<1>6. ASSUME NEW p \in 1..Len(wal'), wal'[p] = Marker(saved)
      PROVE  /\ \A s \in sent : s.vote.height = saved + 1 => Behind(wal', p, Append(s.after, s.vote))
             /\ Behind(wal', p, basis.after)
  <2>1. p \in 1..Len(wal) /\ wal[p] = Marker(saved)
    BY <1>2, <1>6, <1>d
  <2>2. p \in Nat
    BY SMTT(30), <2>1, <1>1
  <2> QED BY <1>c, <1>e, <2>1, <2>2, VotesStay
<1>7. VotesLogged'
  BY <1>6, <1>c DEF VotesLogged, Voting
<1>8. VTypes'
  BY <1>c DEF VInv, VTypes, Voting
<1> QED BY <1>5, <1>7, <1>8 DEF VInv

\* The next height begins behind the marker just written, with nothing handled; after a
\* replay the votes of the height are of no use any more.
LEMMA VSaveState == ASSUME HInv, LInv, VInv, VotesInTime', SaveState PROVE VInv'
<1>a. wal \in Seq(Entry) /\ Len(wal) \in Nat
  BY SMTT(30) DEF LInv
<1>b. height \in Nat /\ saved \in Nat /\ height = saved + 1 /\ store = height
  BY DEF SaveState, HInv, AtStep, Committed
<1>c. /\ wal' = wal /\ buf' = buf /\ saved' = height /\ basis' = NoBasis
      /\ pc \in {"save", "save2", "save3"}
      /\ pc = "save" => handled' = <<>> /\ pc' = "up"
      /\ pc # "save" => handled' = handled /\ pc' = "handshake"
      /\ sent' = {s \in sent : s.vote.height > height}
  BY DEF SaveState
<1>1. sent' = {}
  <2> SUFFICES ASSUME NEW s \in sent, s.vote.height > height PROVE FALSE
    BY <1>c
  <2>1. s.vote \in Entry /\ s.vote.height <= saved + 1
    BY DEF VInv, VTypes, VotesInTime
  <2>2. s.vote.height \in Nat
    BY <2>1 DEF Entry
  <2> QED BY SMTT(30), <2>1, <2>2, <1>b
<1>2. buf = <<>>
  BY <1>c DEF VInv, VTypes, Voting
<1>3. basis'.after = <<>> /\ <<>> \in Seq(Entry) /\ Len(<<>>) = 0
  BY SMTT(30), <1>c DEF NoBasis
<1>4. VTypes'
  BY <1>c, <1>1, <1>2, <1>3 DEF VInv, VTypes
<1>5. MarkersFresh'
  <2>1. \A i \in 1..Len(wal) : wal[i].kind = "end" => wal[i].height <= saved'
    BY <1>b, <1>c DEF LInv, MarkerMeansStored
  <2>2. pc' \notin Applying
    BY <1>c DEF Applying
  <2> QED BY <1>c, <2>1, <2>2 DEF VInv, MarkersFresh
<1>6. \A p \in 1..Len(wal) : Behind(wal, p, <<>>)
  BY SMTT(30), <1>a, <1>3 DEF Behind
<1>7. ASSUME NEW p \in 1..Len(wal), wal[p] = Marker(height), pc = "save" PROVE HandledBehind(p)'
  <2>1. p = Len(wal)
    BY <1>7 DEF VInv, MarkersFresh, Applying
  <2>2. Len(handled') = Len(wal') + Len(buf') - p
    BY SMTT(30), <1>a, <1>c, <1>2, <1>7, <2>1
  <2>3. wal' \o buf' = wal
    BY SMTT(30), <1>a, <1>c, <1>2
  <2> QED BY <1>6, <1>7, <1>c, <2>2, <2>3 DEF HandledBehind
<1>8. VotesLogged'
  <2>1. pc' \in Voting => pc = "save"
    BY <1>c DEF Voting
  <2> QED BY <1>1, <1>3, <1>6, <1>7, <1>c, <2>1 DEF VotesLogged
<1> QED BY <1>4, <1>5, <1>8 DEF VInv


\* catchupReplay handles again what stands in the log behind the marker of the last height.
LEMMA VCatchup == ASSUME HInv, HInv', LInv, VInv, VotesInTime', CatchupReplay PROVE VInv'
<1>a. wal \in Seq(Entry) /\ Len(wal) \in Nat
  BY SMTT(30) DEF LInv
<1>b. /\ pc = "handshake" /\ pc' = "up" /\ UNCHANGED <<wal, buf, saved, store, sent, basis>>
      /\ handled' = IF Found(Marker(saved + 1)) \/ ~Found(Marker(saved)) THEN <<>> ELSE After(saved)
  BY DEF CatchupReplay, durable
<1>c. store = saved /\ saved \in Nat
  BY <1>b DEF HInv, AtStep, Level
<1>d. buf = <<>> /\ <<>> \in Seq(Entry)
  BY SMTT(30), <1>b DEF VInv, VTypes, Voting
<1>1. \A i \in 1..Len(wal) : wal[i].kind = "end" => wal[i].height <= saved
  BY <1>c DEF LInv, MarkerMeansStored
<1>2. MarkersFresh'
  BY <1>1, <1>b DEF VInv, MarkersFresh, Applying
<1>3. ~Found(Marker(saved + 1))
  <2> SUFFICES ASSUME NEW i \in 1..Len(wal), wal[i] = Marker(saved + 1) PROVE FALSE
    BY DEF Found
  <2>1. saved + 1 \in Nat
    BY SMTT(30), <1>c
  <2>2. saved + 1 <= saved
    BY <1>1, <2>1, EntriesTyped
  <2> QED BY SMTT(30), <1>c, <2>2
<1>4. ASSUME NEW p \in 1..Len(wal), wal[p] = Marker(saved)
      PROVE  After(saved) = SubSeq(wal, p + 1, Len(wal))
  <2> DEFINE First(i) == wal[i] = Marker(saved) /\ \A j \in 1..(i - 1) : wal[j] # Marker(saved)
             at == CHOOSE i \in 1..Len(wal) : First(i)
  <2>0. Marker(saved).kind = "end"
    BY <1>c, EntriesTyped
  <2>1. ASSUME NEW i \in 1..Len(wal), wal[i] = Marker(saved) PROVE i = p
    <3>1. wal[i].kind = "end" /\ wal[i] = wal[p]
      BY <1>4, <2>0, <2>1
    <3> QED BY <3>1 DEF VInv, MarkersFresh
  <2>2. \A j \in 1..(p - 1) : j \in 1..Len(wal) /\ j # p
    BY SMTT(30), <1>a
  <2>3. First(p)
    BY <1>4, <2>1, <2>2
  <2>4. at \in 1..Len(wal) /\ First(at)
    BY <2>3
  <2>5. at = p
    BY <2>1, <2>4
  <2> QED BY <2>5 DEF After
<1>5. ASSUME NEW p \in 1..Len(wal), wal[p] = Marker(saved)
      PROVE  handled' \in Seq(Entry) /\ HandledBehind(p)'
  <2>1. handled' = SubSeq(wal, p + 1, Len(wal))
    BY <1>3, <1>4, <1>5, <1>b DEF Found
  <2> DEFINE h == SubSeq(wal, p + 1, Len(wal))
  <2>2. h \in Seq(Entry) /\ Len(h) = Len(wal) - p /\ \A i \in 1..Len(h) : h[i] = wal[p + i]
    BY SMTT(30), <1>a
  <2> HIDE DEF h
  <2>3. handled' = h
    BY <2>1 DEF h
  <2>4. Behind(wal, p, h)
    <3>1. Len(h) <= Len(wal) - p
      BY SMTT(30), <1>a, <2>2
    <3> QED BY <2>2, <3>1 DEF Behind
  <2>5. wal' \o buf' = wal
    BY SMTT(30), <1>a, <1>b, <1>d
  <2>6. Len(handled') = Len(wal') + Len(buf') - p
    <3>1. Len(<<>>) = 0
      BY SMTT(30)
    <3>2. Len(wal') + Len(buf') = Len(wal) + 0
      BY <1>b, <1>d, <3>1
    <3>3. Len(handled') = Len(wal) - p
      BY <2>2, <2>3
    <3> QED BY SMTT(30), <1>a, <3>2, <3>3
  <2> QED BY <2>2, <2>3, <2>4, <2>5, <2>6 DEF HandledBehind
<1>6. handled' \in Seq(Entry)
  BY <1>5, <1>b, <1>d DEF Found
<1>7. VTypes'
  BY <1>6, <1>b DEF VInv, VTypes, Voting
<1>8. VotesLogged'
  <2>1. \A p \in 1..Len(wal') : wal'[p] = Marker(saved') => p \in 1..Len(wal) /\ wal[p] = Marker(saved)
    BY <1>b
  <2> QED BY <2>1, <1>5, <1>b DEF VInv, VotesLogged
<1> QED BY <1>2, <1>7, <1>8 DEF VInv

\* Every step of the node preserves VInv.
LEMMA VStep == PVInv /\ HInv /\ LInv /\ VInv /\ [Next]_vars => VInv'
<1> SUFFICES ASSUME PVInv, HInv, LInv, VInv, [Next]_vars PROVE VInv'
  OBVIOUS
<1>a. VotesInTime' /\ HInv'
  BY InTimeStep, HStep
<1>b. handled \in Seq(Entry) /\ (pc \notin Voting => buf = <<>>)
  BY DEF VInv, VTypes
<1>1. CASE ReceivePeer \/ SignAddVote \/ SignAddVoteAgain \/ ReceiveOwn \/ FlushTick
  BY <1>1, <1>a, VUp
<1>2. CASE UNCHANGED <<pc, height, handled, wal, buf, saved, sent, basis>>
  BY <1>2, <1>a, <1>b, VQuiet
<1>3. CASE SaveSigned \/ SignReturns \/ ResetValidator \/ UNCHANGED vars
  BY <1>2, <1>3 DEF SaveSigned, SignReturns, ResetValidator, vars, durable
<1>4. CASE EnterCommit \/ SaveBlock
  <2>1. UNCHANGED <<handled, wal, buf, saved, sent, basis>> /\ pc' \in Voting /\ pc \in Voting /\ pc' \notin Applying
    BY <1>4 DEF EnterCommit, SaveBlock, Idle, durable, Voting, Applying
  <2> QED BY <2>1, <1>a, <1>b, VQuiet
<1>5. CASE Execute \/ SaveResponses \/ AppCommit
  <2>1. UNCHANGED <<height, handled, wal, buf, saved, sent, basis>>
    BY <1>5 DEF Execute, SaveResponses, AppCommit
  <2>2. pc' \notin Voting /\ pc \notin Voting /\ (pc' \in Applying => pc \in Applying)
    BY <1>5 DEF Execute, SaveResponses, AppCommit, Modes, Voting, Applying
  <2> QED BY <2>1, <2>2, <1>a, <1>b, VQuiet
<1>6. CASE Restart \/ ReplayBlocks
  <2>1. UNCHANGED <<handled, wal, buf, saved, sent, basis>>
    BY <1>6 DEF Restart, ReplayBlocks, durable
  <2>2. pc' \notin Voting /\ pc \notin Voting /\ pc' \notin Applying
    BY <1>6 DEF Restart, ReplayBlocks, Voting, Applying
  <2> QED BY <2>1, <2>2, <1>a, <1>b, VQuiet
<1>7. CASE Crash
  <2>1. /\ UNCHANGED <<wal, saved, sent, basis>> /\ handled' = <<>> /\ buf' = <<>>
        /\ pc' \notin Voting /\ pc' \notin Applying
    BY <1>7 DEF Crash, Voting, Applying
  <2>2. handled' \in Seq(Entry)
    BY SMTT(30), <2>1
  <2> QED BY <2>1, <2>2, <1>a, VQuiet
<1>8. CASE EndHeight
  BY <1>8, <1>a, VEndHeight
<1>9. CASE SaveState
  BY <1>9, <1>a, VSaveState
<1>10. CASE CatchupReplay
  BY <1>10, <1>a, VCatchup
<1> QED BY <1>1, <1>3, <1>4, <1>5, <1>6, <1>7, <1>8, <1>9, <1>10 DEF Next, Sign, Commit, Start

\* The genesis state is in VInv.
LEMMA VStart == Init => VInv
<1> SUFFICES ASSUME Init PROVE VInv
  OBVIOUS
<1>1. /\ Len(wal) = 1 /\ 1..Len(wal) = {1} /\ sent = {} /\ pc = "handshake" /\ ~signing
      /\ handled \in Seq(Entry) /\ buf = <<>> /\ 1..Len(queue) = {} /\ basis.after = <<>>
  BY SMTT(30) DEF Init, PVInit, NoBasis
<1>2. VTypes
  BY SMTT(30), <1>1 DEF VTypes
<1>3. MarkersFresh
  BY <1>1 DEF MarkersFresh, Voting, Applying
<1>4. VotesInTime
  BY <1>1 DEF VotesInTime
<1>5. Behind(wal, 1, basis.after)
  BY SMTT(30), <1>1 DEF Behind
<1>6. VotesLogged
  BY <1>1, <1>5 DEF VotesLogged, Voting
<1> QED BY <1>2, <1>3, <1>4, <1>6 DEF VInv

\* For any crashes: once the node is up again, every own vote that peers may have, with all
\* that was handled before it, and all that the vote signed last was computed from, has been
\* handled again (the comments on WriteSync in receiveRoutine and on FlushAndSync in
\* signVote), provided the marker of the previous height reached the log.
THEOREM NoVoteForgotten == Spec => []VotesSurvive
<1>1. HInv /\ LInv /\ VInv => VotesSurvive
  <2> SUFFICES ASSUME HInv, LInv, VInv, pc = "up", Found(Marker(height - 1))
               PROVE  /\ \A s \in sent : s.vote.height = height => IsStart(Append(s.after, s.vote), handled)
                      /\ IsStart(basis.after, handled)
    BY DEF VotesSurvive, VotesReplayed, VoteRecomputable
  <2>1. height = saved + 1 /\ saved \in Nat
    BY DEF HInv, AtStep, Level
  <2>2. height - 1 = saved
    BY SMTT(30), <2>1
  <2>3. PICK p \in 1..Len(wal) : wal[p] = Marker(saved)
    BY <2>2 DEF Found
  <2>4. /\ \A s \in sent : s.vote.height = saved + 1 => Behind(wal, p, Append(s.after, s.vote))
        /\ Behind(wal, p, basis.after) /\ HandledBehind(p)
    BY <2>3 DEF VInv, VotesLogged, Voting
  <2>5. /\ wal \in Seq(Entry) /\ buf \in Seq(Entry) /\ handled \in Seq(Entry) /\ basis.after \in Seq(Entry)
        /\ \A s \in sent : s.after \in Seq(Entry) /\ s.vote \in Entry
    BY DEF LInv, VInv, VTypes
  <2>6. p \in Nat /\ wal \o buf \in Seq(Entry)
    BY SMTT(30), <2>3, <2>5
  <2>7. ASSUME NEW a \in Seq(Entry), Behind(wal, p, a) PROVE IsStart(a, handled)
    <3>1. Behind(wal \o buf, p, a)
      BY <2>5, <2>6, <2>7, BehindGrows
    <3>2. Behind(wal \o buf, p, handled)
      BY <2>4 DEF HandledBehind
    <3>3. Len(a) <= Len(handled)
      <4>1. Len(a) <= Len(wal) - p /\ Len(handled) = Len(wal) + Len(buf) - p
        BY <2>4, <2>7 DEF Behind, HandledBehind
      <4> QED BY SMTT(30), <2>5, <2>6, <4>1
    <3> QED BY <2>5, <2>6, <3>1, <3>2, <3>3, BehindPrefix
  <2>8. \A s \in sent : Append(s.after, s.vote) \in Seq(Entry)
    BY SMTT(30), <2>5
  <2> QED BY <2>1, <2>4, <2>5, <2>7, <2>8
<1>2. Init => PVInv
  BY PVStart DEF Init
<1>3. PVInv /\ [Next]_vars => PVInv'
  BY SignerSteps, PVStep
<1> QED BY <1>1, <1>2, <1>3, HStart, HStep, LStart, LStep, VStart, VStep, PTL DEF Spec

=============================================================================
