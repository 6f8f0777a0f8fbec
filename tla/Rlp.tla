-------------------------------- MODULE Rlp --------------------------------
(***************************************************************************)
(* The serialisation of everything the node stores, hashes and sends:      *)
(* RLPStream, which writes nested lists front to back and puts a list's    *)
(* header in when its last item is written, and RLP, which reads them.     *)
(* A byte is a digit of radix Radix; the code's radix is 256.              *)
(***************************************************************************)
EXTENDS Integers, Sequences, SequencesExt

CONSTANTS Radix,                 \* 256
          c_rlpDataImmLenStart,  \* 0x80
          c_rlpListStart,        \* 0xc0
          c_rlpMaxLengthBytes,   \* 8
          Strings,               \* the data written
          Objects,               \* the typed objects encoded: [type, value]
          Ints,                  \* the numbers written
          MaxItems,              \* items of a list written
          MaxAppends,            \* calls of the stream
          MaxReceived            \* bytes of a received item

c_rlpDataImmLenCount == c_rlpListStart - c_rlpDataImmLenStart - c_rlpMaxLengthBytes
c_rlpDataIndLenZero == c_rlpDataImmLenStart + c_rlpDataImmLenCount - 1
c_rlpListImmLenCount == Radix - c_rlpListStart - c_rlpMaxLengthBytes
c_rlpListIndLenZero == c_rlpListStart + c_rlpListImmLenCount - 1

VARIABLES stream,  \* the RLPStream: its output and its open lists
          doc,     \* what was written to it, as a tree under construction
          calls,   \* calls of the stream so far
          object,  \* the typed object encoded, if any: its type and value
          rlp,     \* the RLP read: its bytes and its list-indexing cache
          asked    \* the last index asked for

vars == <<stream, doc, calls, object, rlp, asked>>

Data(bytes) == [kind |-> "data", bytes |-> bytes, items |-> <<>>]
List(items) == [kind |-> "list", bytes |-> <<>>, items |-> items]

-----------------------------------------------------------------------------
(* Numbers as bytes *)

RECURSIVE toBigEndian(_)
toBigEndian(n) == IF n = 0 THEN <<>> ELSE Append(toBigEndian(n \div Radix), n % Radix)

bytesRequired(n) == Len(toBigEndian(n))

fromBigEndian(bytes) == FoldLeft(LAMBDA acc, b : acc * Radix + b, 0, bytes)

-----------------------------------------------------------------------------
(* Writing *)

pushCount(count, base) == <<bytesRequired(count) + base>> \o toBigEndian(count)

(* Mutant: the largest immediate length is taken one too high. *)
HeaderOneTooHigh(size) ==
  IF size <= c_rlpListImmLenCount THEN <<c_rlpListStart + size>> ELSE pushCount(size, c_rlpListIndLenZero)

(* The header of a list whose items take size bytes. *)
ListHeader(size) ==
  IF size < c_rlpListImmLenCount THEN <<c_rlpListStart + size>> ELSE pushCount(size, c_rlpListIndLenZero)

(* An item was written: the innermost open list lacks one less, and a list  *)
(* that lacks none gets its header and is an item of the next one.           *)
RECURSIVE noteAppended(_)
noteAppended(s) ==
  IF s.m_listStack = <<>> THEN s
  ELSE LET top == Last(s.m_listStack)
           size == Len(s.m_out) - top.at
       IN IF top.left > 1
          THEN [s EXCEPT !.m_listStack[Len(s.m_listStack)].left = @ - 1]
          ELSE noteAppended([m_out |-> SubSeq(s.m_out, 1, top.at) \o ListHeader(size)
                                         \o SubSeq(s.m_out, top.at + 1, Len(s.m_out)),
                             m_listStack |-> Front(s.m_listStack)])

Push(s, bytes) == noteAppended([s EXCEPT !.m_out = @ \o bytes])

Opened(s, n) ==
  IF n = 0 THEN Push(s, ListHeader(0))
  ELSE [s EXCEPT !.m_listStack = Append(@, [left |-> n, at |-> Len(s.m_out)])]

(* What append writes for data and append_int_ for a number. *)
Encoded(bytes) ==
  IF Len(bytes) = 1 /\ bytes[1] < c_rlpDataImmLenStart THEN bytes
  ELSE IF Len(bytes) < c_rlpDataImmLenCount THEN <<Len(bytes) + c_rlpDataImmLenStart>> \o bytes
  ELSE pushCount(Len(bytes), c_rlpDataIndLenZero) \o bytes

(* The tree grows with the stream: items are collected in the innermost     *)
(* list that is not full yet.                                                *)
RECURSIVE Collected(_)
Collected(d) ==
  LET top == Last(d)
      outer == Front(d)
  IN IF Len(d) > 1 /\ Len(top.items) = top.size
     THEN Collected([outer EXCEPT ![Len(outer)].items = Append(@, List(top.items))])
     ELSE d

With(item) == Collected([doc EXCEPT ![Len(doc)].items = Append(@, item)])

Init ==
  /\ stream = [m_out |-> <<>>, m_listStack |-> <<>>]
  /\ doc = <<[size |-> 1, items |-> <<>>]>>
  /\ calls = 0
  /\ object = <<>>
  /\ rlp = [m_data |-> <<>>, m_lastIndex |-> 0, m_lastEnd |-> 0, m_lastItem |-> <<>>, fresh |-> TRUE]
  /\ asked = -1

Writing == calls < MaxAppends /\ doc[1].items = <<>> /\ object = <<>> /\ rlp.m_data = <<>>

append(bytes) ==
  /\ Writing
  /\ stream' = Push(stream, Encoded(bytes))
  /\ doc' = With(Data(bytes))
  /\ calls' = calls + 1
  /\ UNCHANGED <<object, rlp, asked>>

append_int_(n) == append(toBigEndian(n))

appendList(n) ==
  /\ Writing
  /\ stream' = Opened(stream, n)
  /\ doc' = IF n = 0 THEN With(List(<<>>)) ELSE Append(doc, [size |-> n, items |-> <<>>])
  /\ calls' = calls + 1
  /\ UNCHANGED <<object, rlp, asked>>

-----------------------------------------------------------------------------
(* Reading; a set of at most one result stands for a result or a throw *)

isList(d) == d # <<>> /\ d[1] >= c_rlpListStart
isData(d) == d # <<>> /\ d[1] < c_rlpListStart
isSingleByte(d) == d # <<>> /\ d[1] < c_rlpDataImmLenStart

(* A single byte written as a string of length one is refused. *)
requireGood(d) ==
  /\ d # <<>>
  /\ d[1] = c_rlpDataImmLenStart + 1 => Len(d) > 1 /\ d[2] >= c_rlpDataImmLenStart

(* A length written in bytes of its own: no leading zero, and not so small   *)
(* that it fits into the first byte.                                         *)
IndirectLength(d, size, least) ==
  IF Len(d) <= size \/ d[2] = 0 THEN {}
  ELSE {n \in {fromBigEndian(SubSeq(d, 2, size + 1))} : n >= least}

lengthSize(d) ==
  IF isData(d) /\ d[1] > c_rlpDataIndLenZero THEN d[1] - c_rlpDataIndLenZero
  ELSE IF isList(d) /\ d[1] > c_rlpListIndLenZero THEN d[1] - c_rlpListIndLenZero
  ELSE 0

length(d) ==
  CASE d = <<>> -> {0}
    [] d # <<>> /\ ~requireGood(d) -> {}
    [] isSingleByte(d) -> {1}
    [] lengthSize(d) > 0 /\ isData(d) -> IndirectLength(d, lengthSize(d), c_rlpDataImmLenCount)
    [] lengthSize(d) > 0 /\ isList(d) -> IndirectLength(d, lengthSize(d), c_rlpListImmLenCount)
    [] isList(d) -> {d[1] - c_rlpListStart}
    [] OTHER -> {d[1] - c_rlpDataImmLenStart}

payloadOffset(d) == IF isSingleByte(d) THEN 0 ELSE 1 + lengthSize(d)

actualSize(d) ==
  CASE d = <<>> -> {0}
    [] isSingleByte(d) -> {1}
    [] OTHER -> {payloadOffset(d) + n : n \in length(d)}

(* count bytes of d from offset on, or nothing when d is too short. *)
cropped(d, offset, count) == IF offset + count <= Len(d) THEN SubSeq(d, offset + 1, offset + count) ELSE <<>>

payload(d) == {cropped(d, payloadOffset(d), n) : n \in {l \in length(d) : l <= Len(d)}}

sizeAsEncoded(d) == {n \in actualSize(d) : n <= Len(d)}

(* The encoded items of a payload; iterator and items() walk them so. *)
RECURSIVE Items(_)
Items(d) ==
  IF d = <<>> THEN {<<>>}
  ELSE UNION {{<<SubSeq(d, 1, n)>> \o rest : rest \in Items(SubSeq(d, n + 1, Len(d)))} : n \in sizeAsEncoded(d)}

(* The value of bytes that are one item, read with VeryStrict. *)
RECURSIVE Decoded(_)
DecodedItems(items) ==
  IF \E i \in DOMAIN items : Decoded(items[i]) = {} THEN {}
  ELSE {List([i \in DOMAIN items |-> CHOOSE v \in Decoded(items[i]) : TRUE])}

Decoded(d) ==
  IF d = <<>> \/ actualSize(d) # {Len(d)} THEN {}
  ELSE UNION {IF isList(d) THEN UNION {DecodedItems(items) : items \in Items(p)} ELSE {Data(p)} : p \in payload(d)}

(* RLP::operator[]: the item cached last is stepped forward to index i, or  *)
(* the cache restarts when i lies before it.                                 *)
RECURSIVE Stepped(_, _, _)
Stepped(r, p, i) ==
  IF r.m_lastIndex >= i \/ r.m_lastItem = <<>> THEN {r}
  ELSE LET rest == SubSeq(p, r.m_lastEnd + 1, Len(p))
           Following(n) == [r EXCEPT !.m_lastItem = cropped(rest, 0, n), !.m_lastEnd = @ + n, !.m_lastIndex = @ + 1]
       IN UNION {Stepped(Following(n), p, i) : n \in sizeAsEncoded(rest)}

FromStart(r, p) ==
  {[r EXCEPT !.m_lastEnd = n, !.m_lastItem = cropped(p, 0, n), !.m_lastIndex = 0, !.fresh = FALSE]
     : n \in sizeAsEncoded(p)}

Indexed(r, p, i) ==
  UNION {Stepped(s, p, i) : s \in IF r.fresh \/ i < r.m_lastIndex THEN FromStart(r, p) ELSE {r}}

-----------------------------------------------------------------------------
(* Typed objects: a type is a kind and the types it is made of, a value has  *)
(* a number, bytes or elements                                               *)

Type(kind, of) == [kind |-> kind, of |-> of]
Value(n, bytes, elements) == [n |-> n, bytes |-> bytes, elements |-> elements]

(* A negative number is a list of its absolute value. *)
AppendedSigned(s, n) ==
  IF n < 0 THEN Push(Opened(s, 1), Encoded(toBigEndian(-n))) ELSE Push(s, Encoded(toBigEndian(n)))

RECURSIVE Typed(_, _, _)
Typed(s, type, v) ==
  CASE type.kind = "int" -> AppendedSigned(s, v.n)
    [] type.kind = "bytes" -> Push(s, Encoded(v.bytes))
    [] type.kind = "optional" ->
         IF v.elements = <<>> THEN Push(s, Encoded(<<>>)) ELSE Typed(s, type.of[1], v.elements[1])
    [] type.kind = "sequence" ->
         FoldLeft(LAMBDA acc, x : Typed(acc, type.of[1], x), Opened(s, Len(v.elements)), v.elements)
    [] type.kind = "tuple" ->
         FoldLeft(LAMBDA acc, i : Typed(acc, type.of[i], v.elements[i]), Opened(s, Len(type.of)),
                  [i \in DOMAIN type.of |-> i])

ItemsOf(d) == IF isList(d) THEN UNION {Items(p) : p \in payload(d)} ELSE {<<>>}

RECURSIVE toInt(_)
toInt(d) ==
  IF ~requireGood(d) THEN {}
  ELSE IF isList(d) THEN UNION {IF items = <<>> THEN {} ELSE {-n : n \in toInt(items[1])} : items \in ItemsOf(d)}
  ELSE {fromBigEndian(p) : p \in payload(d)}

toBytes(d) == IF isData(d) THEN payload(d) ELSE {<<>>}

isEmpty(d) == d # <<>> /\ d[1] \in {c_rlpDataImmLenStart, c_rlpListStart}

RECURSIVE Target(_, _)
Elements(types, items) ==
  IF \E i \in DOMAIN items : Target(types[i], items[i]) = {} THEN {}
  ELSE {Value(0, <<>>, [i \in DOMAIN items |-> CHOOSE v \in Target(types[i], items[i]) : TRUE])}

Target(type, d) ==
  CASE type.kind = "int" -> {Value(n, <<>>, <<>>) : n \in toInt(d)}
    [] type.kind = "bytes" -> {Value(0, p, <<>>) : p \in toBytes(d)}
    [] type.kind = "optional" ->
         IF d = <<>> \/ isEmpty(d) THEN {Value(0, <<>>, <<>>)}
         ELSE {Value(0, <<>>, <<v>>) : v \in Target(type.of[1], d)}
    [] type.kind = "sequence" ->
         UNION {Elements([i \in DOMAIN items |-> type.of[1]], items) : items \in ItemsOf(d)}
    [] type.kind = "tuple" ->
         UNION {Elements(type.of, items) : items \in {x \in ItemsOf(d) : Len(x) = Len(type.of)}}

(* rlp_enc of an object into a fresh stream. *)
rlp_enc(o) ==
  /\ calls = 0 /\ object = <<>> /\ rlp.m_data = <<>>
  /\ stream' = Typed(stream, o.type, o.value)
  /\ object' = <<o>>
  /\ UNCHANGED <<doc, calls, rlp, asked>>

-----------------------------------------------------------------------------
(* The output of the stream, complete, is read as an RLP. *)
out ==
  /\ stream.m_out # <<>> /\ stream.m_listStack = <<>>
  /\ rlp.m_data = <<>>
  /\ rlp' = [rlp EXCEPT !.m_data = stream.m_out]
  /\ UNCHANGED <<stream, doc, calls, object, asked>>

(* Bytes that were received instead. *)
Receive ==
  /\ calls = 0 /\ object = <<>> /\ rlp.m_data = <<>>
  /\ \E n \in 1..MaxReceived :
       \E bytes \in [1..n -> 0..Radix - 1] : rlp' = [rlp EXCEPT !.m_data = bytes]
  /\ UNCHANGED <<stream, doc, calls, object, asked>>

Index(i) ==
  /\ calls > 0 /\ isList(rlp.m_data)
  /\ \E p \in payload(rlp.m_data) : rlp' \in Indexed(rlp, p, i)
  /\ asked' = i
  /\ UNCHANGED <<stream, doc, calls, object>>

Next ==
  \/ \E bytes \in Strings : append(bytes)
  \/ \E n \in Ints : append_int_(n)
  \/ \E n \in 0..MaxItems : appendList(n)
  \/ \E o \in Objects : rlp_enc(o)
  \/ out
  \/ \E i \in 0..MaxItems : Index(i)
  \/ Receive

Spec == Init /\ [][Next]_vars

-----------------------------------------------------------------------------
RECURSIVE Rewritten(_)
Rewritten(v) ==
  IF v.kind = "data" THEN Encoded(v.bytes)
  ELSE LET body == FlattenSeq([i \in DOMAIN v.items |-> Rewritten(v.items[i])])
       IN ListHeader(Len(body)) \o body

(* What is written to a stream, whatever the nesting of its lists, is what  *)
(* a strict reader gets back; and an item asked for by its index, in any     *)
(* order of indices, is that item, or nothing behind the last one.           *)
WrittenIsRead ==
  (calls > 0 /\ rlp.m_data # <<>>) =>
    LET written == doc[1].items[1]
    IN /\ Decoded(rlp.m_data) = {written}
       /\ asked >= 0 =>
            IF asked < Len(written.items) THEN Decoded(rlp.m_lastItem) = {written.items[asked + 1]}
                                          ELSE rlp.m_lastItem = <<>>

(* rlp_dec of what rlp_enc made of an object is that object, its signed      *)
(* numbers, absent optionals and nested sequences included.                  *)
ObjectsComeBack ==
  (object # <<>> /\ rlp.m_data # <<>>) => Target(object[1].type, rlp.m_data) = {object[1].value}

(* A value has one encoding: received bytes that the strict reader accepts  *)
(* are the ones the stream would have written for it, so that hashes of      *)
(* re-encoded objects agree.                                                 *)
EncodingIsUnique ==
  (calls = 0 /\ object = <<>> /\ rlp.m_data # <<>>) => \A v \in Decoded(rlp.m_data) : Rewritten(v) = rlp.m_data
=============================================================================
