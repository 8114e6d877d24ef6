------------------------------- MODULE TxIndex ------------------------------
(***************************************************************************)
(* The transaction index of state/txindex/kv: how a block's results are    *)
(* written under keys, how a query is broken into key lookups, and how     *)
(* tx_search of rpc/core pages through what is found.  A key is the        *)
(* sequence of the parts between its separators; a value with a separator  *)
(* in it would be several parts.                                           *)
(***************************************************************************)
EXTENDS PubsubQuery, FiniteSets, SequencesExt

CONSTANTS TagLists,      \* the tags a transaction's result may have: sequences of <<key, parts>>
          TagsToIndex,   \* the keys that are indexed
          TxHashKey, TxHeightKey,
          MaxHeight, MaxTxs,       \* bounds: blocks, and transactions of a block
          SearchQueries,           \* the queries that are tried
          PerPages,                \* the page sizes that are tried
          DefaultPerPage, MaxPerPage

VARIABLES height,        \* of the last block indexed
          results,       \* hash -> the TxResult stored under it, [height, index, tags]
          keys           \* the other keys of the store: {<<key, hash>>}

vars == <<height, results, keys>>
Hashes == DOMAIN results

-----------------------------------------------------------------------------
(* Writing. *)

KeyForTag(tag, r) == <<tag[1]>> \o tag[2] \o <<Decimal(r.height), Decimal(r.index)>>
KeyForHeight(r) == <<TxHeightKey, Decimal(r.height), Decimal(r.height), Decimal(r.index)>>

\* The height is left to the tags of the application.
Entries_NoHeight(hash, r) ==
  {<<KeyForTag(r.tags[i], r), hash>> : i \in {j \in DOMAIN r.tags : r.tags[j][1] \in TagsToIndex}}

\* What a transaction's result is stored under.
Entries(hash, r) ==
  {<<KeyForTag(r.tags[i], r), hash>> : i \in {j \in DOMAIN r.tags : r.tags[j][1] \in TagsToIndex}}
  \cup (IF TxHeightKey \in TagsToIndex THEN {<<KeyForHeight(r), hash>>} ELSE {})

\* Hashes are given out in the order of the transactions, each of which is committed once.
Written(rs) ==
  LET n == Len(results) IN
  /\ results' = results \o rs
  /\ keys' = keys \cup UNION {Entries(n + i, rs[i]) : i \in DOMAIN rs}
  /\ height' = height + 1

Result(i, tags) == [height |-> height + 1, index |-> i - 1, tags |-> tags]

AddBatch ==
  /\ height < MaxHeight
  /\ \E n \in 0..MaxTxs : \E tags \in [1..n -> TagLists] :
       Written([i \in 1..n |-> Result(i, tags[i])])

Index ==
  /\ height < MaxHeight
  /\ \E tags \in TagLists : Written(<<Result(1, tags)>>)

-----------------------------------------------------------------------------
(* Searching.  A list of hashes is how often each occurs in it. *)

IsTagKey(key) == Len(key) = 4
ExtractValueFromKey(key) == key[2]

\* IteratePrefix with a startKey, every field of which ends with a separator.
IteratePrefix(fields) == {k \in keys : IsStrictPrefix(fields, k[1])}

Count(found) == [h \in Hashes |-> Cardinality({k \in found : k[2] = h})]
Intersect(as, bs) == [h \in Hashes |-> as[h] * bs[h]]

IsRangeOperation(op) == op \in {"<", "<=", ">", ">="}

LookForHeight(q) ==
  LET at == {i \in DOMAIN q : q[i].tag = TxHeightKey /\ q[i].op = "="}
  IN IF at = {} THEN 0 ELSE ParseInt(q[CHOOSE i \in at : \A j \in at : i <= j].operand)

\* The last operand of a lower or upper bound on a tag.
Bound(q, tag, ops) ==
  LET at == {i \in DOMAIN q : q[i].tag = tag /\ q[i].op \in ops}
  IN ParseInt(q[CHOOSE i \in at : \A j \in at : i >= j].operand)
Has(q, tag, ops) == \E i \in DOMAIN q : q[i].tag = tag /\ q[i].op \in ops

\* The bounds themselves, whether they are included or not.
InRange_Included(q, tag, v) ==
  /\ Has(q, tag, {">", ">="}) => v >= Bound(q, tag, {">", ">="})
  /\ Has(q, tag, {"<", "<="}) => v <= Bound(q, tag, {"<", "<="})

\* lookForRanges with lowerBoundValue and upperBoundValue: an inclusion, once set, stays.
InRange(q, tag, v) ==
  /\ Has(q, tag, {">", ">="}) =>
       v >= Bound(q, tag, {">", ">="}) + (IF Has(q, tag, {">="}) THEN 0 ELSE 1)
  /\ Has(q, tag, {"<", "<="}) =>
       v <= Bound(q, tag, {"<", "<="}) - (IF Has(q, tag, {"<="}) THEN 0 ELSE 1)

\* A hash is put into a map, so it is found once.
MatchRange(q, tag) ==
  [h \in Hashes |->
     IF \E k \in IteratePrefix(<<tag>>) :
          /\ k[2] = h /\ IsTagKey(k[1]) /\ ExtractValueFromKey(k[1]) \in Numbers
          /\ InRange(q, tag, ParseInt(ExtractValueFromKey(k[1])))
     THEN 1 ELSE 0]

StartKeyForCondition(c, h) == IF h > 0 THEN <<c.tag, c.operand, Decimal(h)>> ELSE <<c.tag, c.operand>>

MatchCondition(c, h) ==
  IF c.op = "=" THEN Count(IteratePrefix(StartKeyForCondition(c, h)))
  ELSE Count({k \in IteratePrefix(<<c.tag>>) :
                IsTagKey(k[1]) /\ HasPart(ExtractValueFromKey(k[1]), c.operand)})

\* The hashes of every condition or range, intersected (a range counts once, however many
\* conditions it has); a tx.hash condition decides alone.
Found(q) ==
  LET hash    == SelectSeq(q, LAMBDA c : c.tag = TxHashKey)
      list(c) == IF IsRangeOperation(c.op) THEN MatchRange(q, c.tag) ELSE MatchCondition(c, LookForHeight(q))
  IN IF hash # <<>> THEN [h \in Hashes |-> IF hash[1].operand = Decimal(h) THEN 1 ELSE 0]
     ELSE FoldLeft(Intersect, [h \in Hashes |-> 1], [i \in DOMAIN q |-> list(q[i])])

\* Search: what is found, sorted by height and index.
Search(q) ==
  LET found == Found(q)
      copies == UNION {{<<h, n>> : n \in 1..found[h]} : h \in Hashes}
      before(a, b) == \/ results[a[1]].height < results[b[1]].height
                      \/ /\ results[a[1]].height = results[b[1]].height
                         /\ results[a[1]].index < results[b[1]].index
  IN FoldLeft(LAMBDA seq, c : Append(seq, c[1]), <<>>, SetToSortSeq(copies, before))

-----------------------------------------------------------------------------
(* tx_search: a page of the results. *)

\* Go's division, which truncates.
Quotient(a, b) == IF a >= 0 THEN a \div b ELSE -((-a) \div b)

ValidatePerPage(perPage) ==
  IF perPage < 1 THEN DefaultPerPage ELSE IF perPage > MaxPerPage THEN MaxPerPage ELSE perPage

ValidatePage(page, perPage, totalCount) ==
  LET pages == Quotient(totalCount - 1, perPage) + 1
  IN IF page < 1 THEN 1 ELSE IF page > pages THEN pages ELSE page

\* Pages are counted from zero.
ValidateSkipCount_Zero(page, perPage) == page * perPage

ValidateSkipCount(page, perPage) ==
  IF (page - 1) * perPage < 0 THEN 0 ELSE (page - 1) * perPage

\* What tx_search returns of the results of Search.
TxSearch(found, page, perPage) ==
  LET per   == ValidatePerPage(perPage)
      skip  == ValidateSkipCount(ValidatePage(page, per, Len(found)), per)
  IN SubSeq(found, skip + 1, skip + (IF per < Len(found) - skip THEN per ELSE Len(found) - skip))

-----------------------------------------------------------------------------
Init == height = 0 /\ results = <<>> /\ keys = {}
Next == AddBatch \/ Index
Spec == Init /\ [][Next]_vars

-----------------------------------------------------------------------------
\* The tags of the event that PublishEventTx fired for a transaction.
EventTags(h) ==
  LET r == results[h] IN
  [k \in {r.tags[i][1] : i \in DOMAIN r.tags} \cup {TxHeightKey} |->
     IF k = TxHeightKey THEN Decimal(r.height)
     ELSE r.tags[CHOOSE i \in DOMAIN r.tags : r.tags[i][1] = k][2][1]]

(* A search finds exactly the transactions whose event a subscriber to the same query would *)
(* have been sent, each once, in the order they were committed; and whatever the page size, *)
(* the pages put together are all of them.                                                  *)
SearchExact ==
  \A q \in SearchQueries :
    \E found \in {Search(q)} :
      /\ found = SelectSeq([h \in Hashes |-> h], LAMBDA h : Matches(q, EventTags(h)))
      /\ \A per \in PerPages :
           LET pages == 1 + Quotient(Len(found) - 1, ValidatePerPage(per))
           IN FlattenSeq([p \in 1..pages |-> TxSearch(found, p, per)]) = found
=============================================================================
