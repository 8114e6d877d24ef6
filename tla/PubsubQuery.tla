---------------------------- MODULE PubsubQuery ----------------------------
(***************************************************************************)
(* The queries of libs/pubsub/query: a sequence of conditions, which the   *)
(* event bus matches against the tags of an event and the transaction      *)
(* index looks up.  Tag values are text; a number in a query is compared   *)
(* with the number a value spells.  Dates are left out: the index does not *)
(* know them.                                                              *)
(***************************************************************************)
EXTENDS Integers, Sequences, TLC

CONSTANTS Substrings,    \* <<part, whole>>: the values that contain others
          MaxNumber      \* bound: the numbers used in values

Condition(tag, op, operand) == [tag |-> tag, op |-> op, operand |-> operand]

\* "%d", and strconv.ParseInt of a value that spells a number.
Decimal(n) == ToString(n)
Numbers == {Decimal(n) : n \in 0..MaxNumber}
ParseInt(s) == CHOOSE n \in 0..MaxNumber : Decimal(n) = s

HasPart(value, part) == value = part \/ <<part, value>> \in Substrings

\* match: one condition against the tags.
Match(c, tags) ==
  /\ c.tag \in DOMAIN tags
  /\ LET value == tags[c.tag] IN
     CASE c.op = "="        -> value = c.operand
       [] c.op = "CONTAINS" -> HasPart(value, c.operand)
       [] c.op = "<="       -> ParseInt(value) <= ParseInt(c.operand)
       [] c.op = ">="       -> ParseInt(value) >= ParseInt(c.operand)
       [] c.op = "<"        -> ParseInt(value) < ParseInt(c.operand)
       [] c.op = ">"        -> ParseInt(value) > ParseInt(c.operand)

Matches(q, tags) == DOMAIN tags # {} /\ \A i \in DOMAIN q : Match(q[i], tags)
=============================================================================
