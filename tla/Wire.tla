-------------------------------- MODULE Wire --------------------------------
(***************************************************************************)
(* The wire format of the application interface: what the generated code   *)
(* of Messages does with its tables (varints, tags, fields, unknown        *)
(* fields), and the length-prefixed stream of abci/types/messages.go that  *)
(* socket clients and servers speak.  A writer puts messages on a          *)
(* connection that delivers its bytes in pieces and may end anywhere.      *)
(*                                                                         *)
(* A message is a record of its fields, "" holding XXX_unrecognized;       *)
(* pointers and oneof arms are sequences of length 0 or 1.                 *)
(***************************************************************************)
EXTENDS Messages, Integers, SequencesExt

CONSTANTS Sent,         \* message type -> the values the writer may send
          MaxMessages   \* bound: message type -> messages on one connection

VARIABLES type,         \* the type both ends read and write
          written,      \* what the writer has written
          stream,       \* bytes under way
          arrived,      \* bytes the reader has not consumed
          delivered,    \* the messages it has read
          status        \* "open" or "closed"; "failed" once the reader got io.EOF or
                        \* io.ErrUnexpectedEOF, "corrupt" after any other error

wireVars == <<type, written, stream, arrived, delivered, status>>

-----------------------------------------------------------------------------
(* Varints: seven bits a byte, least significant first, of a 64-bit two's complement. *)

RECURSIVE Groups(_, _)
Groups(v, k) ==
  IF k = 10 THEN <<v % 2>>
  ELSE IF v \in 0 .. 127 THEN <<v>>
  ELSE <<(v % 128) + 128>> \o Groups(v \div 128, k + 1)
EncodeVarint(v) == Groups(v, 1)

\* sovTypes: the bytes of a varint.
RECURSIVE SovFrom(_, _)
SovFrom(v, n) == IF n = 10 \/ v \in 0 .. 127 THEN n ELSE SovFrom(v \div 128, n + 1)
Sov(v) == SovFrom(v, 1)

\* The varint of b at i, and where it ends; next = 0 on io.ErrUnexpectedEOF and on overflow.
Varint(b, i) ==
  LET ends == {j \in i .. Len(b) : b[j] < 128}
      e    == CHOOSE j \in ends : \A k \in ends : j <= k
      n    == e - i + 1
      from[j \in i .. e] ==
        IF j = e THEN IF n = 10 THEN -(b[e] % 2) ELSE b[e]
        ELSE (from[j + 1] * 128) + (b[j] % 128)
  IN IF ends = {} THEN [value |-> 0, next |-> 0]
     ELSE IF n > 10 THEN [value |-> 0, next |-> 0]
     ELSE [value |-> from[i], next |-> e + 1]

-----------------------------------------------------------------------------
(* MarshalTo, Size and Equal, field by field; a field is declared as <<kind, type inside>>. *)

\* The occurrences of a field of value v that are written.
Occurrences(kind, v) ==
  CASE kind = "bytes" -> IF v = <<>> THEN <<>> ELSE <<v>>
    [] kind = "int"   -> IF v = 0 THEN <<>> ELSE <<v>>
    [] kind = "bool"  -> IF v THEN <<1>> ELSE <<>>
    [] kind = "val"   -> <<v>>
    [] OTHER          -> v

Delimited(b) == EncodeVarint(Len(b)) \o b

RECURSIVE Marshal(_, _)
Marshal(t, m) ==
  LET Body(d, v) == CASE d[1] \in {"int", "bool"}      -> EncodeVarint(v)
                      [] d[1] \in {"bytes", "repbytes"} -> Delimited(v)
                      [] OTHER                          -> Delimited(Marshal(d[2], v))
      Written(tag, d, os) == FlattenSeq([i \in DOMAIN os |-> tag \o Body(d, os[i])])
      Row(r) == LET d == Declares(t, r[1]) IN Written(r[2], d, Occurrences(d[1], m[r[1]]))
  IN FlattenSeq([i \in DOMAIN MarshalTo[t] |-> Row(MarshalTo[t][i])]) \o m[""]

RECURSIVE Size(_, _)
Size(t, m) ==
  LET Counted(n) == Sov(n) + n
      Body(d, v) == CASE d[1] = "bool"                  -> 0
                      [] d[1] = "int"                   -> Sov(v)
                      [] d[1] \in {"bytes", "repbytes"} -> Counted(Len(v))
                      [] OTHER                          -> Counted(Size(d[2], v))
      Total(tag, d, os) ==
        LET to[i \in 0 .. Len(os)] == IF i = 0 THEN 0 ELSE to[i - 1] + tag + Body(d, os[i])
        IN to[Len(os)]
      Row(r) == LET d == Declares(t, r[1]) IN Total(r[2], d, Occurrences(d[1], m[r[1]]))
      fields[i \in 0 .. Len(Sized[t])] ==
        IF i = 0 THEN Len(m[""]) ELSE fields[i - 1] + Row(Sized[t][i])
  IN fields[Len(Sized[t])]

\* The arm m holds as proto.Buffer writes it through XXX_OneofFuncs, and its size.
OneofEncode(t, m) ==
  {EncodeVarint(OneofMarshaler[t][f]) \o Delimited(Marshal(Declares(t, f)[2], m[f][1])) :
     f \in {g \in DOMAIN OneofMarshaler[t] : m[g] # <<>>}}
OneofSize(t, m) ==
  {LET n == Size(Declares(t, f)[2], m[f][1]) IN OneofSizer[t][f] + Sov(n) + n :
     f \in {g \in DOMAIN OneofSizer[t] : m[g] # <<>>}}

RECURSIVE Same(_, _, _)
Same(t, m, n) ==
  LET Alike(d, v, w) ==
        CASE d[1] \in {"int", "bool", "bytes", "repbytes"} -> v = w
          [] d[1] = "val" -> Same(d[2], v, w)
          [] OTHER -> Len(v) = Len(w) /\ \A i \in DOMAIN v : Same(d[2], v[i], w[i])
  IN m[""] = n[""] /\ \A f \in Equal[t] : Alike(Declares(t, f), m[f], n[f])

-----------------------------------------------------------------------------
(* Unmarshal. *)

\* skipTypes: the index after the field at i, 0 on an error.
RECURSIVE Skip(_, _), SkipGroup(_, _)
SkipValue(b, w, l) ==
  CASE w.value % 8 = 0 -> l.next
    [] w.value % 8 = 1 -> w.next + 8
    [] w.value % 8 = 2 -> IF l.next = 0 \/ l.value < 0 THEN 0 ELSE l.next + l.value
    [] w.value % 8 = 3 -> SkipGroup(b, w.next)
    [] w.value % 8 = 4 -> w.next
    [] w.value % 8 = 5 -> w.next + 4
    [] OTHER           -> 0
SkipTagged(b, w) == IF w.next = 0 THEN 0 ELSE SkipValue(b, w, Varint(b, w.next))
Skip(b, i) == SkipTagged(b, Varint(b, i))
SkipGroup(b, i) ==
  LET Rest(w, e) == IF w.next = 0 THEN 0
                    ELSE IF w.value % 8 = 4 THEN w.next
                    ELSE IF e = 0 THEN 0 ELSE SkipGroup(b, e)
  IN Rest(Varint(b, i), Skip(b, i))

Failed == [ok |-> FALSE, value |-> <<>>]

\* An unknown field is dropped instead of kept.
Unknown_Dropped(b, i, e, m) ==
  IF e = 0 \/ e > Len(b) + 1 THEN Failed ELSE [ok |-> TRUE, value |-> m, next |-> e]

\* The default case: the bytes of the field, which ends before e, go to XXX_unrecognized.
Unknown(b, i, e, m) ==
  IF e = 0 \/ e > Len(b) + 1 THEN Failed
  ELSE [ok |-> TRUE, value |-> [m EXCEPT ![""] = @ \o SubSeq(b, i, e - 1)], next |-> e]

\* A message inside: read into what is there if it is a value or a pointer that is set.
Inside(d, v) ==
  IF d[1] = "val" THEN v ELSE IF d[1] = "opt" /\ v # <<>> THEN v[1] ELSE Zero(d[2])
Put(t, m, f, kind, v) ==
  CASE kind \in {"int", "bytes", "val"} -> [m EXCEPT ![f] = v]
    [] kind = "bool"                    -> [m EXCEPT ![f] = v # 0]
    [] kind = "opt"                     -> [m EXCEPT ![f] = <<v>>]
    [] kind \in {"rep", "repbytes"}     -> [m EXCEPT ![f] = Append(@, v)]
    [] kind = "arm"                     -> [Zero(t) EXCEPT ![""] = m[""], ![f] = <<v>>]

\* Read the fields of b from i on into m: a field at a time, whose tag is w, of field f
\* declared as d, whose value or length is x.
RECURSIVE ReadFields(_, _, _, _)
ReadValue(t, b, m, f, d, x) ==
  LET end == x.next + x.value
      Field(v, next) == [ok |-> TRUE, value |-> Put(t, m, f, d[1], v), next |-> next]
      Message(r) == IF r.ok THEN Field(r.value, end) ELSE r
      body == SubSeq(b, x.next, end - 1)
  IN IF x.next = 0 THEN Failed
     ELSE IF d[1] \in {"int", "bool"} THEN Field(x.value, x.next)
     ELSE IF x.value < 0 \/ end > Len(b) + 1 THEN Failed
     ELSE IF d[1] \in {"bytes", "repbytes"} THEN Field(body, end)
     ELSE Message(ReadFields(d[2], body, 1, Inside(d, m[f])))
ReadField(t, b, i, m, w) ==
  LET cases == {c \in Unmarshal[t] : c[1] = w.value \div 8}
      Known(c) == IF c[2] # w.value % 8 THEN Failed
                  ELSE ReadValue(t, b, m, c[3], Declares(t, c[3]), Varint(b, w.next))
  IN IF w.next = 0 \/ w.value % 8 = 4 \/ w.value \div 8 <= 0 THEN Failed
     ELSE IF cases = {} THEN Unknown(b, i, Skip(b, i), m)
     ELSE Known(CHOOSE c \in cases : TRUE)
ReadFields(t, b, i, m) ==
  LET Rest(r) == IF r.ok THEN ReadFields(t, b, r.next, r.value) ELSE r
  IN IF i > Len(b) THEN [ok |-> TRUE, value |-> m]
     ELSE Rest(ReadField(t, b, i, m, Varint(b, i)))

Decode(t, b) == ReadFields(t, b, 1, Zero(t))

-----------------------------------------------------------------------------
(* WriteMessage and ReadMessage: the length is a zigzag varint. *)

\* The length as a plain varint.
EncodeByteSlice_Plain(b) == EncodeVarint(Len(b)) \o b

EncodeByteSlice(b) == EncodeVarint(2 * Len(b)) \o b

WriteMessage(m) ==
  /\ status = "open" /\ Len(written) < MaxMessages[type]
  /\ written' = Append(written, m)
  /\ stream' = stream \o EncodeByteSlice(Marshal(type, m))
  /\ UNCHANGED <<type, arrived, delivered, status>>

Deliver(n) ==
  /\ arrived' = arrived \o SubSeq(stream, 1, n)
  /\ stream' = SubSeq(stream, n + 1, Len(stream))
  /\ UNCHANGED <<type, written, delivered, status>>

Close ==
  /\ status = "open" /\ status' = "closed" /\ stream' = <<>>
  /\ UNCHANGED <<type, written, arrived, delivered>>

\* readProtoMsg: blocks in ReadVarint and in io.ReadFull while the connection is open.
ReadMessage ==
  LET l == Varint(arrived, 1)
      n == IF l.value % 2 = 0 THEN l.value \div 2 ELSE -((l.value + 1) \div 2)
      d == Decode(type, SubSeq(arrived, l.next, l.next + n - 1))
  IN /\ status \in {"open", "closed"}
     /\ IF l.next = 0 \/ (n >= 0 /\ l.next + n > Len(arrived) + 1)
        THEN status = "closed" /\ status' = "failed" /\ UNCHANGED <<arrived, delivered>>
        ELSE IF n < 0 \/ ~d.ok THEN status' = "corrupt" /\ UNCHANGED <<arrived, delivered>>
        ELSE /\ delivered' = Append(delivered, d.value)
             /\ arrived' = SubSeq(arrived, l.next + n, Len(arrived))
             /\ UNCHANGED status
     /\ UNCHANGED <<type, written, stream>>

WireInit ==
  /\ type \in DOMAIN Sent /\ written = <<>> /\ stream = <<>> /\ arrived = <<>> /\ delivered = <<>>
  /\ status = "open"

WireNext ==
  \/ \E m \in Sent[type] : WriteMessage(m)
  \/ \E n \in 1 .. Len(stream) : Deliver(n)
  \/ Close \/ ReadMessage

WireSpec == WireInit /\ [][WireNext]_wireVars

-----------------------------------------------------------------------------
(* The reader gets what the writer wrote: the messages read are, by Equal and in order, a   *)
(* prefix of those written, wherever the connection ends; a reader sees no other error than *)
(* that end; Size is the length of what MarshalTo writes; and a oneof is written, measured  *)
(* and read alike by MarshalTo, Size and Unmarshal and by the functions XXX_OneofFuncs      *)
(* registers.                                                                               *)
StreamFaithful ==
  /\ Len(delivered) <= Len(written)
  /\ \A i \in DOMAIN delivered : Same(type, written[i], delivered[i]) /\ delivered[i] = written[i]
  /\ status # "corrupt"
  /\ \A i \in DOMAIN written : Size(type, written[i]) = Len(Marshal(type, written[i]))
  /\ type \in DOMAIN OneofMarshaler =>
       /\ OneofUnmarshaler[type] = Unmarshal[type]
       /\ \A i \in DOMAIN written :
            /\ \A b \in OneofEncode(type, written[i]) : b = Marshal(type, written[i])
            /\ \A n \in OneofSize(type, written[i]) : n = Size(type, written[i])

(* A node passes on what it does not know: RequestFlush declares no field, so a message of   *)
(* any type read as one is written again byte for byte.                                     *)
UnknownFieldsKept ==
  \A i \in DOMAIN written :
    LET b == Marshal(type, written[i])
        d == Decode("RequestFlush", b)
    IN d.ok /\ Marshal("RequestFlush", d.value) = b
=============================================================================
