----------------------------- MODULE JsonBinary -----------------------------
(***************************************************************************)
(* to_cbor, from_cbor, to_msgpack and from_msgpack: a value is written as  *)
(* a vector of bytes and read back, the vector may end too early, or come  *)
(* from somebody else's writer.                                            *)
(*                                                                         *)
(* A number of 64 bits is its eight bytes, the highest first; an integer   *)
(* is in two's complement, so that -1 - n is the complement of every byte. *)
(* A string is a sequence of bytes, an object a function from strings.     *)
(***************************************************************************)
EXTENDS Integers, SequencesExt

CONSTANTS
    Docs,         \* values that are written
    Vectors,      \* vectors that are read as they are
    Cuts(_),      \* where a vector of a length may end too early
    Narrow        \* vectors of a float in a narrower format, for some floats

Formats == {"cbor", "msgpack"}
Byte == 0 .. 255
Widths == {1, 2, 4, 8}

\* bound: a length above this one stands for itself and all greater ones
Huge == 16777216

VARIABLES
    format, doc,
    v,         \* the vector of bytes
    origin,    \* "writer", "peer", "cut" or "any": where it is from
    pc,        \* "write", "sent" or "read"
    answer     \* what from_cbor, from_msgpack returns or throws

vars == <<format, doc, v, origin, pc, answer>>

-----------------------------------------------------------------------------
(* Numbers in bytes.                                                        *)

Nth(n) == CHOOSE i \in 0 .. 3 : 2 ^ i = n     \* of 1, 2, 4 and 8

Number(n) == [i \in 1 .. 8 |-> IF i <= 4 THEN 0 ELSE (n \div 256 ^ (8 - i)) % 256]

\* mutation: every byte is negated
Complement_Negated(b) == [i \in 1 .. 8 |-> 256 - b[i]]

Complement(b) == [i \in 1 .. 8 |-> 255 - b[i]]

Negative(b) == b[1] >= 128

\* b, without a sign, is not above the maximum of n bytes
FitsIn(b, n) == \A i \in 1 .. 8 - n : b[i] = 0

\* mutation: < in place of <= at the end of the range of a width
Shortest_Less(b, widths) ==
    LET below(n) == FitsIn(b, n) /\ \E i \in 9 - n .. 8 : b[i] # 255 \/ n = 8
    IN  CHOOSE n \in widths : below(n) /\ \A m \in widths : m < n => ~below(m)

Shortest(b, widths) == CHOOSE n \in widths : FitsIn(b, n) /\ \A m \in widths : m < n => ~FitsIn(b, m)

\* add_to_vector
AddToVector(n, b) == SubSeq(b, 9 - n, 8)

\* the eight bytes of an unsigned, and of a signed, number of fewer
Unsigned(bytes) == [i \in 1 .. 8 - Len(bytes) |-> 0] \o bytes
Signed(bytes) == [i \in 1 .. 8 - Len(bytes) |-> IF bytes[1] >= 128 THEN 255 ELSE 0] \o bytes

Length(b) == IF ~FitsIn(b, 4) \/ b[5] # 0 THEN Huge ELSE b[6] * 65536 + b[7] * 256 + b[8]

-----------------------------------------------------------------------------
(* Values.                                                                  *)

Null == [type |-> "null"]
Boolean(x) == [type |-> "boolean", bool |-> x]
Integer(b) == [type |-> "number_integer", b |-> b]
UnsignedNumber(b) == [type |-> "number_unsigned", b |-> b]
Float(b) == [type |-> "number_float", b |-> b]
String(s) == [type |-> "string", chars |-> s]
Array(a) == [type |-> "array", items |-> a]
Object(o) == [type |-> "object", members |-> o]

\* the order of std::map<std::string, _>
Less(s, t) ==
    \/ IsStrictPrefix(s, t)
    \/ \E i \in 1 .. Len(s) :
        i <= Len(t) /\ s[i] < t[i] /\ \A k \in 1 .. i - 1 : s[k] = t[k]

Pairs(o) ==
    LET key(i) == CHOOSE k \in DOMAIN o : Cardinality({l \in DOMAIN o : Less(l, k)}) = i - 1
    IN  [i \in 1 .. Cardinality(DOMAIN o) |-> <<String(key(i)), o[key(i)]>>]

\* the sequences in seqs one behind the other
RECURSIVE Joined(_)
Joined(seqs) ==
    IF seqs = << >> THEN << >>
    ELSE IF Len(seqs) = 1 THEN seqs[1]
    ELSE LET half == Len(seqs) \div 2
         IN  Joined(SubSeq(seqs, 1, half)) \o Joined(SubSeq(seqs, half + 1, Len(seqs)))

-----------------------------------------------------------------------------
(* to_cbor_internal.                                                        *)

\* The number or the length is in the first byte, up to 0x17, or behind it.
CborHead(major, b) ==
    IF FitsIn(b, 1) /\ b[8] <= 23 THEN <<32 * major + b[8]>>
    ELSE LET n == Shortest(b, Widths) IN <<32 * major + 24 + Nth(n)>> \o AddToVector(n, b)

RECURSIVE ToCbor(_)
ToCbor(j) ==
    CASE j.type = "null" -> <<246>>
      [] j.type = "boolean" -> IF j.bool THEN <<245>> ELSE <<244>>
      [] j.type = "number_unsigned" -> CborHead(0, j.b)
      [] j.type = "number_integer" ->
            IF Negative(j.b) THEN CborHead(1, Complement(j.b)) ELSE CborHead(0, j.b)
      [] j.type = "number_float" -> <<251>> \o j.b
      [] j.type = "string" -> CborHead(3, Number(Len(j.chars))) \o j.chars
      [] j.type = "array" ->
            CborHead(4, Number(Len(j.items)))
                \o Joined([i \in 1 .. Len(j.items) |-> ToCbor(j.items[i])])
      [] j.type = "object" ->
            LET pairs == Pairs(j.members)
            IN  CborHead(5, Number(Len(pairs)))
                    \o Joined([i \in 1 .. Len(pairs) |-> ToCbor(pairs[i][1]) \o ToCbor(pairs[i][2])])

-----------------------------------------------------------------------------
(* to_msgpack_internal.                                                     *)

\* A length is in the first byte, up to a maximum, or behind it in one of the
\* widths; no_1 is the code of the width of one byte, where there is one.
MsgpackHead(short, max, no_1, widths, b) ==
    IF FitsIn(b, 1) /\ b[8] <= max THEN <<short + b[8]>>
    ELSE LET n == Shortest(b, widths) IN <<no_1 + Nth(n)>> \o AddToVector(n, b)

\* mutation: a range of the negative numbers is that of its bits
MsgpackNegative_Bits(b) ==
    IF FitsIn(Complement(b), 1) /\ b[8] >= 224 THEN <<b[8]>>
    ELSE LET n == Shortest(Complement(b), Widths) IN <<208 + Nth(n)>> \o AddToVector(n, b)

\* INT8_MIN is the complement of INT8_MAX, and so for every width.
MsgpackNegative(b) ==
    LET fits(n) == FitsIn(Complement(b), n) /\ b[9 - n] >= 128
        n == CHOOSE n \in Widths : fits(n) /\ \A m \in Widths : m < n => ~fits(m)
    IN  IF fits(1) /\ b[8] >= 224 THEN <<b[8]>> ELSE <<208 + Nth(n)>> \o AddToVector(n, b)

RECURSIVE ToMsgpack(_)
ToMsgpack(j) ==
    CASE j.type = "null" -> <<192>>
      [] j.type = "boolean" -> IF j.bool THEN <<195>> ELSE <<194>>
      [] j.type = "number_unsigned" -> MsgpackHead(0, 127, 204, Widths, j.b)
      [] j.type = "number_integer" ->
            IF Negative(j.b) THEN MsgpackNegative(j.b) ELSE MsgpackHead(0, 127, 204, Widths, j.b)
      [] j.type = "number_float" -> <<203>> \o j.b
      [] j.type = "string" -> MsgpackHead(160, 31, 217, {1, 2, 4}, Number(Len(j.chars))) \o j.chars
      [] j.type = "array" ->
            MsgpackHead(144, 15, 219, {2, 4}, Number(Len(j.items)))
                \o Joined([i \in 1 .. Len(j.items) |-> ToMsgpack(j.items[i])])
      [] j.type = "object" ->
            LET pairs == Pairs(j.members)
            IN  MsgpackHead(128, 15, 221, {2, 4}, Number(Len(pairs)))
                    \o Joined([i \in 1 .. Len(pairs) |->
                            ToMsgpack(pairs[i][1]) \o ToMsgpack(pairs[i][2])])

-----------------------------------------------------------------------------
(* Reading.  Positions count from 0; a call returns a value and the         *)
(* position behind it, or what it throws.                                   *)

Throws(error) == [error |-> error, value |-> Null, idx |-> 0]
Returns(value, idx) == [error |-> "none", value |-> value, idx |-> idx]

Ok(r) == r.error = "none"

At(idx) == v[idx + 1]

\* the n bytes from idx on, as far as they are in the vector
Bytes(idx, n) == SubSeq(v, idx + 1, IF idx + n <= Len(v) THEN idx + n ELSE Len(v))

\* get_from_vector throws unless n bytes follow the one at idx.
CanGet(idx, n) == idx + n + 1 <= Len(v)

\* mutation: the offset is not added to the length
CheckLength_NoSum(len, offset) == len <= Len(v) /\ offset <= Len(v)

\* check_length; its test of an overflow says nothing of a vector in memory.
CheckLength(len, offset) == len + offset <= Len(v)

\* A string of len bytes from offset on.
ReadChars(len, offset) ==
    IF CheckLength(len, offset) THEN Returns(String(Bytes(offset, len)), offset + len)
    ELSE Throws("out_of_range")

Zeros(n) == [i \in 1 .. n |-> 0]
Bits(m, n) == [i \in 1 .. n |-> (m \div 2 ^ (n - i)) % 2]
FromBits(bits) == FoldLeft(LAMBDA m, bit : 2 * m + bit, 0, bits)

\* a double: its sign, exponent and fraction
DoubleOf(sign, exponent, fraction) ==
    LET bits == <<sign>> \o Bits(exponent, 11) \o fraction
    IN  [i \in 1 .. 8 |-> FromBits(SubSeq(bits, 8 * i - 7, 8 * i))]

\* m times two to the power of e
Scaled(sign, m, e) ==
    IF m = 0 THEN DoubleOf(sign, 0, Zeros(52))
    ELSE LET k == CHOOSE k \in 0 .. 23 : 2 ^ k <= m /\ m < 2 ^ (k + 1)
         IN  DoubleOf(sign, k + e + 1023, Bits(m - 2 ^ k, k) \o Zeros(52 - k))

Infinity(sign) == DoubleOf(sign, 2047, Zeros(52))
NaN(sign) == DoubleOf(sign, 2047, <<1>> \o Zeros(51))

\* mutation: a number below the smallest normal one is as any other
Half_Normal(bytes) ==
    LET sign == bytes[1] \div 128
        exp == (bytes[1] \div 4) % 32
        mant == (bytes[1] % 4) * 256 + bytes[2]
    IN  CASE exp # 31 -> Scaled(sign, mant + 1024, exp - 25)
          [] exp = 31 -> IF mant = 0 THEN Infinity(sign) ELSE NaN(sign)

\* 0xf9, by ldexp
Half(bytes) ==
    LET sign == bytes[1] \div 128
        exp == (bytes[1] \div 4) % 32
        mant == (bytes[1] % 4) * 256 + bytes[2]
    IN  CASE exp = 0 -> Scaled(sign, mant, -24)
          [] exp \in 1 .. 30 -> Scaled(sign, mant + 1024, exp - 25)
          [] exp = 31 -> IF mant = 0 THEN Infinity(sign) ELSE NaN(sign)

\* External: the conversion of a float to a double; a NaN stands for every NaN.
Single(bytes) ==
    LET sign == bytes[1] \div 128
        exp == (bytes[1] % 128) * 2 + bytes[2] \div 128
        mant == (bytes[2] % 128) * 65536 + bytes[3] * 256 + bytes[4]
    IN  CASE exp = 0 -> Scaled(sign, mant, -149)
          [] exp \in 1 .. 254 -> Scaled(sign, mant + 8388608, exp - 150)
          [] exp = 255 -> IF mant = 0 THEN Infinity(sign) ELSE NaN(sign)

\* the value of the bytes of a number
NumberOf(type, bytes) ==
    CASE type = "unsigned" -> UnsignedNumber(Unsigned(bytes))
      [] type = "negative" -> Integer(Complement(Unsigned(bytes)))
      [] type = "signed" -> Integer(Signed(bytes))
      [] type = "half" -> Float(Half(bytes))
      [] type = "single" -> Float(Single(bytes))
      [] type = "double" -> Float(bytes)

\* A number of n bytes behind the first one.
ReadNumber(type, idx, n) ==
    IF CanGet(idx, n) THEN Returns(NumberOf(type, Bytes(idx + 1, n)), idx + 1 + n)
    ELSE Throws("out_of_range")

Break == 255

\* how many items: a number, or all up to a break
Counted(n) == [kind |-> "counted", n |-> n]
UntilBreak == [kind |-> "until", n |-> 0]

Ended(count, idx, read) ==
    IF count.kind = "counted" THEN read = count.n ELSE idx < Len(v) /\ At(idx) = Break

\* a loop over items that are counted passes over nothing behind them
After(count, idx) == IF count.kind = "counted" THEN idx ELSE idx + 1

\* a container, or a string of chunks, whose items come next
Begins(type, count, idx) == Returns([type |-> "begun", of |-> type, count |-> count], idx)

\* A string or container, whose length is short, in its first byte, or, unless n
\* is 0, in the n bytes behind that.
ReadSized(type, idx, short, n) ==
    IF ~CanGet(idx, n) THEN Throws("out_of_range")
    ELSE LET len == IF n = 0 THEN short ELSE Length(Unsigned(Bytes(idx + 1, n)))
         IN  IF type = "string" THEN ReadChars(len, idx + 1 + n)
             ELSE Begins(type, Counted(len), idx + 1 + n)

-----------------------------------------------------------------------------
(* from_cbor_internal.                                                      *)

FromCbor(idx) ==
    IF idx >= Len(v) THEN Throws("out_of_range")
    ELSE LET byte == At(idx)
             low == byte % 32
             n == IF low < 24 THEN 0 ELSE 2 ^ (low - 24)     \* the width that the first byte names
         IN  CASE byte \in 0 .. 23 -> Returns(NumberOf("unsigned", <<byte>>), idx + 1)
               [] byte \in 24 .. 27 -> ReadNumber("unsigned", idx, n)
               [] byte \in 32 .. 55 -> Returns(NumberOf("negative", <<low>>), idx + 1)
               [] byte \in 56 .. 59 -> ReadNumber("negative", idx, n)
               [] byte \in 96 .. 123 -> ReadSized("string", idx, low, n)
               [] byte = 127 -> Begins("string", UntilBreak, idx + 1)
               [] byte \in 128 .. 155 -> ReadSized("array", idx, low, n)
               [] byte = 159 -> Begins("array", UntilBreak, idx + 1)
               [] byte \in 160 .. 187 -> ReadSized("object", idx, low, n)
               [] byte = 191 -> Begins("object", UntilBreak, idx + 1)
               [] byte \in {244, 245} -> Returns(Boolean(byte = 245), idx + 1)
               [] byte = 246 -> Returns(Null, idx + 1)
               [] byte = 249 -> ReadNumber("half", idx, 2)
               [] byte = 250 -> ReadNumber("single", idx, 4)
               [] byte = 251 -> ReadNumber("double", idx, 8)
               [] OTHER -> Throws("invalid_argument")

-----------------------------------------------------------------------------
(* from_msgpack_internal.                                                   *)

\* the first bytes from 0xc0 to 0xdf
FromMsgpackCode(idx) ==
    LET byte == At(idx)
    IN  CASE byte = 192 -> Returns(Null, idx + 1)
          [] byte \in {194, 195} -> Returns(Boolean(byte = 195), idx + 1)
          [] byte = 202 -> ReadNumber("single", idx, 4)
          [] byte = 203 -> ReadNumber("double", idx, 8)
          [] byte \in 204 .. 207 -> ReadNumber("unsigned", idx, 2 ^ (byte - 204))
          [] byte \in 208 .. 211 -> ReadNumber("signed", idx, 2 ^ (byte - 208))
          [] byte \in 217 .. 219 -> ReadSized("string", idx, 0, 2 ^ (byte - 217))
          [] byte \in 220 .. 221 -> ReadSized("array", idx, 0, 2 ^ (byte - 219))
          [] byte \in 222 .. 223 -> ReadSized("object", idx, 0, 2 ^ (byte - 221))
          [] OTHER -> Throws("invalid_argument")

FromMsgpack(idx) ==
    IF idx >= Len(v) THEN Throws("out_of_range")
    ELSE LET byte == At(idx)
         IN  CASE byte \in 0 .. 127 -> Returns(NumberOf("unsigned", <<byte>>), idx + 1)
               [] byte \in 128 .. 143 -> ReadSized("object", idx, byte % 16, 0)
               [] byte \in 144 .. 159 -> ReadSized("array", idx, byte % 16, 0)
               [] byte \in 160 .. 191 -> ReadSized("string", idx, byte % 32, 0)
               [] byte \in 192 .. 223 -> FromMsgpackCode(idx)
               [] byte \in 224 .. 255 -> Returns(NumberOf("signed", <<byte>>), idx + 1)

-----------------------------------------------------------------------------
(* A value with all that is in it.                                          *)

RECURSIVE Read(_), ReadArray(_, _, _), ReadObject(_, _, _, _), ReadChunks(_, _)

Read(idx) ==
    LET first == IF format = "cbor" THEN FromCbor(idx) ELSE FromMsgpack(idx)
        begun == first.value
    IN  CASE begun.type # "begun" -> first
          [] begun.type = "begun" /\ begun.of = "string" -> ReadChunks(first.idx, << >>)
          [] begun.type = "begun" /\ begun.of = "array" -> ReadArray(begun.count, first.idx, << >>)
          [] begun.type = "begun" /\ begun.of = "object" -> ReadObject(begun.count, first.idx, << >>, 0)

ReadArray(count, idx, items) ==
    IF Ended(count, idx, Len(items)) THEN Returns(Array(items), After(count, idx))
    ELSE LET item == Read(idx)
         IN  IF Ok(item) THEN ReadArray(count, item.idx, Append(items, item.value)) ELSE item

\* A key is any value, converted to a string: it throws unless it is one.
\* read: how many pairs have been read, which may be more than the members.
ReadObject(count, idx, members, read) ==
    IF Ended(count, idx, read) THEN Returns(Object(members), After(count, idx))
    ELSE LET key == Read(idx)
         IN  IF ~Ok(key) THEN key
             ELSE IF key.value.type # "string" THEN Throws("domain_error")
             ELSE LET value == Read(key.idx)
                  IN  IF ~Ok(value) THEN value
                      ELSE ReadObject(count, value.idx, (key.value.chars :> value.value) @@ members, read + 1)

\* 0x7f: strings, up to a break, are put together.
ReadChunks(idx, chars) ==
    IF Ended(UntilBreak, idx, 0) THEN Returns(String(chars), idx + 1)
    ELSE LET chunk == Read(idx)
         IN  IF ~Ok(chunk) THEN chunk
             ELSE IF chunk.value.type # "string" THEN Throws("domain_error")
             ELSE ReadChunks(chunk.idx, chars \o chunk.value.chars)

-----------------------------------------------------------------------------
(* External: a peer whose writer is not this one.  It may give the head of  *)
(* a value any width that holds it, leave a length open, and write a float  *)
(* in a narrower format.                                                    *)

Heads(first, widths, b) ==
    {<<first + Nth(n)>> \o AddToVector(n, b) : n \in {w \in widths : FitsIn(b, w)}}

Prefixed(heads, body) == {head \o body : head \in heads}

\* what ToCbor, ToMsgpack writes of the value j behind its head
Body(language, j) ==
    LET write(k) == IF language = "cbor" THEN ToCbor(k) ELSE ToMsgpack(k)
    IN  CASE j.type = "array" -> Joined([i \in 1 .. Len(j.items) |-> write(j.items[i])])
          [] j.type = "object" ->
                LET pairs == Pairs(j.members)
                IN  Joined([i \in 1 .. Len(pairs) |-> write(pairs[i][1]) \o write(pairs[i][2])])

NarrowOf(j) == IF j.b \in DOMAIN Narrow THEN Narrow[j.b] ELSE {}

PeerCbor(j) ==
    CASE j.type \in {"number_unsigned", "number_integer"} ->
            IF Negative(j.b) /\ j.type = "number_integer" THEN Heads(56, Widths, Complement(j.b))
            ELSE Heads(24, Widths, j.b)
      [] j.type = "number_float" -> {w \in NarrowOf(j) : w[1] # 202}
      [] j.type = "string" ->
            Prefixed(Heads(120, Widths, Number(Len(j.chars))), j.chars)
                \cup {<<127>> \o ToCbor(String(SubSeq(j.chars, 1, k)))
                             \o ToCbor(String(SubSeq(j.chars, k + 1, Len(j.chars)))) \o <<Break>>
                        : k \in 0 .. Len(j.chars) \cap 0 .. 2}
      [] j.type = "array" ->
            Prefixed(Heads(152, Widths, Number(Len(j.items))), Body("cbor", j))
                \cup {<<159>> \o Body("cbor", j) \o <<Break>>}
      [] j.type = "object" ->
            Prefixed(Heads(184, Widths, Number(Cardinality(DOMAIN j.members))), Body("cbor", j))
                \cup {<<191>> \o Body("cbor", j) \o <<Break>>}
      [] OTHER -> {}

PeerMsgpack(j) ==
    CASE j.type = "number_unsigned" \/ (j.type = "number_integer" /\ ~Negative(j.b)) ->
            Heads(204, Widths, j.b)
      [] j.type = "number_integer" /\ Negative(j.b) ->
            {<<208 + Nth(n)>> \o AddToVector(n, j.b) :
                n \in {w \in Widths : FitsIn(Complement(j.b), w) /\ j.b[9 - w] >= 128}}
      [] j.type = "number_float" -> {w \in NarrowOf(j) : w[1] = 202}
      [] j.type = "string" ->
            Prefixed(Heads(217, {1, 2, 4}, Number(Len(j.chars))), j.chars)
      [] j.type = "array" ->
            Prefixed(Heads(219, {2, 4}, Number(Len(j.items))), Body("msgpack", j))
      [] j.type = "object" ->
            Prefixed(Heads(221, {2, 4}, Number(Cardinality(DOMAIN j.members))), Body("msgpack", j))
      [] OTHER -> {}

-----------------------------------------------------------------------------
Write ==
    /\ pc = "write"
    /\ v' = IF format = "cbor" THEN ToCbor(doc) ELSE ToMsgpack(doc)
    /\ origin' = "writer" /\ pc' = "sent"
    /\ UNCHANGED <<format, doc, answer>>

PeerWrites ==
    /\ pc = "write"
    /\ v' \in IF format = "cbor" THEN PeerCbor(doc) ELSE PeerMsgpack(doc)
    /\ origin' = "peer" /\ pc' = "sent"
    /\ UNCHANGED <<format, doc, answer>>

\* The vector ends prematurely.
Cut ==
    /\ pc = "sent" /\ origin \in {"writer", "peer"}
    /\ \E n \in Cuts(Len(v)) \cap 0 .. Len(v) - 1 : v' = SubSeq(v, 1, n)
    /\ origin' = "cut"
    /\ UNCHANGED <<format, doc, pc, answer>>

\* from_cbor, from_msgpack
ReadVector ==
    /\ pc = "sent"
    /\ answer' = Read(0)
    /\ pc' = "read"
    /\ UNCHANGED <<format, doc, v, origin>>

\* A value is written, or a vector is there.
Init ==
    /\ format \in Formats /\ answer = Returns(Null, 0)
    /\ \/ doc \in Docs /\ v = << >> /\ origin = "writer" /\ pc = "write"
       \/ doc = Null /\ v \in Vectors /\ origin = "any" /\ pc = "sent"

Next == Write \/ PeerWrites \/ Cut \/ ReadVector

Spec == Init /\ [][Next]_vars

-----------------------------------------------------------------------------
(* Properties.                                                              *)

\* The vector is made of bytes, and an answer is a value or one of three
\* exceptions.
TypeOK ==
    /\ format \in Formats
    /\ origin \in {"writer", "peer", "cut", "any"} /\ pc \in {"write", "sent", "read"}
    /\ \A i \in 1 .. Len(v) : v[i] \in Byte
    /\ answer.error \in {"none", "out_of_range", "invalid_argument", "domain_error"}

\* the same value: neither format tells an unsigned number from a signed one
RECURSIVE Same(_, _)
Same(a, b) ==
    CASE {a.type, b.type} \subseteq {"number_unsigned", "number_integer"} ->
            a.b = b.b /\ (a.type # b.type => ~Negative(a.b))
      [] a.type = "array" ->
            /\ b.type = "array" /\ Len(a.items) = Len(b.items)
            /\ \A i \in 1 .. Len(a.items) : Same(a.items[i], b.items[i])
      [] a.type = "object" ->
            /\ b.type = "object" /\ DOMAIN a.members = DOMAIN b.members
            /\ \A k \in DOMAIN a.members : Same(a.members[k], b.members[k])
      [] OTHER -> a = b

\* "the analogous deserialization": what is written is read back as the same
\* value, to the last byte, at every boundary of the widths.
RoundTrip ==
    pc = "read" /\ origin = "writer" =>
        Ok(answer) /\ Same(doc, answer.value) /\ answer.idx = Len(v)

\* Nothing depends on the width that a peer gives a length or a number, on an
\* open length, or on the format of a float that both can hold.
PeerIsUnderstood ==
    pc = "read" /\ origin = "peer" =>
        Ok(answer) /\ Same(doc, answer.value) /\ answer.idx = Len(v)

\* A vector that ends prematurely is refused as such, wherever it is cut:
\* never taken for a shorter value, never called invalid.
PrematureEnd == pc = "read" /\ origin = "cut" => answer.error = "out_of_range"

\* Whatever the bytes are, a value that is returned was made of bytes that
\* are in the vector.
InsideTheVector == pc = "read" /\ Ok(answer) => answer.idx \in 1 .. Len(v)

\* No vector of a peer is shorter than the writer's, of a value that is no
\* float: "aims to be more compact than JSON itself".
Compact ==
    pc = "sent" /\ origin = "writer" /\ doc.type # "number_float" =>
        \A w \in IF format = "cbor" THEN PeerCbor(doc) ELSE PeerMsgpack(doc) : Len(v) <= Len(w)

\* What a vector of either format says is what is read of it, from the writer,
\* in any form that a peer may choose, and never from one that is cut.
BinaryKept ==
    /\ TypeOK
    /\ RoundTrip
    /\ PeerIsUnderstood
    /\ Compact
    /\ PrematureEnd
    /\ InsideTheVector
=============================================================================
