------------------------------ MODULE AddrBook ------------------------------
(***************************************************************************)
(* The address book of the peer exchange (p2p/pex/addrbook.go): a book is  *)
(* a record, its operations functions from books to books (each holds the  *)
(* book's mutex from end to end).                                          *)
(*                                                                         *)
(* An id stands for the knownAddress it is looked up to; the bucket of an  *)
(* address, a salted hash of its network group and its source's, is a      *)
(* parameter of the operation.  Times are not modelled: any new entry may  *)
(* be bad (isBad) and any entry of a bucket may be the oldest.             *)
(***************************************************************************)
EXTENDS Integers, FiniteSets

CONSTANTS BookIds,          \* ids that addresses are announced for
          Private, OurIds,  \* privateIDs, and the ids of ourAddrs
          NewBuckets, OldBuckets,
          BucketSize,       \* newBucketSize, oldBucketSize
          MaxNewBucketsPerAddress

New == "new"
Old == "old"
EmptyBook ==
  [lookup |-> [i \in {} |-> {}],          \* addrLookup: id -> BucketType and Buckets
   new |-> [n \in NewBuckets |-> {}], old |-> [n \in OldBuckets |-> {}],
   nNew |-> 0, nOld |-> 0]

Known(b) == DOMAIN b.lookup
With(f, i, v) == [j \in DOMAIN f \union {i} |-> IF j = i THEN v ELSE f[j]]
Without(f, i) == [j \in DOMAIN f \ {i} |-> f[j]]

\* addBucketRef and removeBucketRef are the unions and differences with {n} below.
RemoveFromBucket(b, i, n) ==
  LET type == b.lookup[i].type
      left == b.lookup[i].buckets \ {n}
  IN [lookup |-> IF left = {} THEN Without(b.lookup, i)
                              ELSE With(b.lookup, i, [type |-> type, buckets |-> left]),
      new |-> IF type = New THEN [b.new EXCEPT ![n] = @ \ {i}] ELSE b.new,
      old |-> IF type = New THEN b.old ELSE [b.old EXCEPT ![n] = @ \ {i}],
      nNew |-> IF left = {} /\ type = New THEN b.nNew - 1 ELSE b.nNew,
      nOld |-> IF left = {} /\ type # New THEN b.nOld - 1 ELSE b.nOld]

\* Only the first bucket of the address is cleared.
RemoveFromAllBuckets_First(b, i) ==
  LET type == b.lookup[i].type
      n == CHOOSE n \in b.lookup[i].buckets : TRUE
  IN [lookup |-> Without(b.lookup, i),
      new |-> IF type = New THEN [b.new EXCEPT ![n] = @ \ {i}] ELSE b.new,
      old |-> IF type = New THEN b.old ELSE [b.old EXCEPT ![n] = @ \ {i}],
      nNew |-> IF type = New THEN b.nNew - 1 ELSE b.nNew,
      nOld |-> IF type = New THEN b.nOld ELSE b.nOld - 1]

RemoveFromAllBuckets(b, i) ==
  LET type == b.lookup[i].type IN
  [lookup |-> Without(b.lookup, i),
   new |-> IF type = New THEN [n \in NewBuckets |-> b.new[n] \ {i}] ELSE b.new,
   old |-> IF type = New THEN b.old ELSE [n \in OldBuckets |-> b.old[n] \ {i}],
   nNew |-> IF type = New THEN b.nNew - 1 ELSE b.nNew,
   nOld |-> IF type = New THEN b.nOld ELSE b.nOld - 1]

\* The entries expireNew may throw out: a bad one, or the oldest.
ExpireNew(b, n) == {RemoveFromBucket(b, i, n) : i \in b.new[n]}

\* The results of adding the new address ka of id i to new bucket n.
AddToNewBucket(b, i, ka, n) ==
  IF ka.type = Old \/ i \in b.new[n] THEN {b}
  ELSE {[lookup |-> With(c.lookup, i, [type |-> New, buckets |-> ka.buckets \union {n}]),
         new |-> [c.new EXCEPT ![n] = @ \union {i}], old |-> c.old,
         nNew |-> IF ka.buckets = {} THEN c.nNew + 1 ELSE c.nNew, nOld |-> c.nOld] :
        c \in IF Cardinality(b.new[n]) > BucketSize THEN ExpireNew(b, n) ELSE {b}}

\* addAddress: refused silently or with an error, or added to the bucket of addr and src; an
\* address that has a bucket already only by chance.
AddAddress(b, i, src, n) ==
  IF i \in Private \/ src \in Private \/ i \in OurIds THEN {b}
  ELSE IF i \in Known(b)
  THEN IF Cardinality(b.lookup[i].buckets) = MaxNewBucketsPerAddress THEN {b}
       ELSE {b} \union AddToNewBucket(b, i, b.lookup[i], n)
  ELSE AddToNewBucket(b, i, [type |-> New, buckets |-> {}], n)

HasRoom(b, n) == Cardinality(b.old[n]) <= BucketSize
AddToOldBucket(b, i, n) ==
  [lookup |-> With(b.lookup, i, [type |-> Old, buckets |-> {n}]),
   new |-> b.new, old |-> [b.old EXCEPT ![n] = @ \union {i}],
   nNew |-> b.nNew, nOld |-> b.nOld + 1]

\* moveToOld: when old bucket n is full its oldest entry goes; addToNewBucket does not take it,
\* for its BucketType is still old.
MoveToOld(b, i, n) ==
  LET c == RemoveFromAllBuckets(b, i) IN
  IF HasRoom(c, n) THEN {AddToOldBucket(c, i, n)}
  ELSE {AddToOldBucket(RemoveFromBucket(c, o, n), i, n) : o \in c.old[n]}

MarkGood(b, i, n) ==
  IF i \in Known(b) /\ b.lookup[i].type = New THEN MoveToOld(b, i, n) ELSE {b}

\* RemoveAddress and MarkBad.
RemoveAddress(b, i) == IF i \in Known(b) THEN RemoveFromAllBuckets(b, i) ELSE b

Size(b) == b.nNew + b.nOld

\* The addresses PickAddress may return, or none.
PickAddress(b) ==
  (IF b.nNew > 0 THEN UNION {b.new[n] : n \in NewBuckets} ELSE {})
    \union (IF b.nOld > 0 THEN UNION {b.old[n] : n \in OldBuckets} ELSE {})

\* loadFromFile: buckets and counts are rebuilt from the entries saved.
LoadFromFile(lookup) ==
  [lookup |-> lookup,
   new |-> [n \in NewBuckets |-> {i \in DOMAIN lookup : lookup[i].type = New /\ n \in lookup[i].buckets}],
   old |-> [n \in OldBuckets |-> {i \in DOMAIN lookup : lookup[i].type = Old /\ n \in lookup[i].buckets}],
   nNew |-> Cardinality({i \in DOMAIN lookup : lookup[i].type = New}),
   nOld |-> Cardinality({i \in DOMAIN lookup : lookup[i].type = Old})]

\* Lookup, buckets and counts tell the same story.
Consistent(b) ==
  /\ LoadFromFile(b.lookup) = b
  /\ \A i \in Known(b) :
       /\ b.lookup[i].buckets # {} /\ i \notin Private \union OurIds
       /\ Cardinality(b.lookup[i].buckets) <=
            (IF b.lookup[i].type = New THEN MaxNewBucketsPerAddress ELSE 1)
=============================================================================
