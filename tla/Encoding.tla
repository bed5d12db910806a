------------------------------ MODULE Encoding ------------------------------
(***************************************************************************)
(* The way of an entry point's meta data: the compiler evaluates serialize *)
(* and encode_base64 (utils/fixed_string_serialization.hpp) and writes the *)
(* string out; the packager decodes it with base64.b64decode and           *)
(* decode_value (tools/packagerpy/encoding.py).                            *)
(*                                                                         *)
(* A value is <<tag, number, items>>: a number for "ui" and "ul", the      *)
(* characters of a "string", the values of an "array", the keys and values *)
(* of a "map" in turn.  Numbers are below 2^31, characters ASCII.          *)
(***************************************************************************)
EXTENDS Integers, Sequences, SequencesExt

CONSTANT Values     \* the values to be sent

VARIABLES stage, value, wire, decoded
vars == <<stage, value, wire, decoded>>

Tags == <<"ui", "ul", "string", "array", "map">>
Tag(name) == CHOOSE k \in 0 .. 4 : Tags[k + 1] = name
Nothing == <<"nothing", 0, <<>>>>

-----------------------------------------------------------------------------
(* serialize.  A char is signed: unsigned_to_signed. *)

Signed(byte) == IF byte < 128 THEN byte ELSE byte - 256
Unsigned(char) == char % 256

RECURSIVE BigEndian(_, _)
BigEndian(x, size) == IF size = 0 THEN <<>>
                     ELSE Append(BigEndian(x \div 256, size - 1), Signed(x % 256))

\* Faulty variant: the length counts the terminating 0.
LengthWithNul(v) == Len(v[3]) + 1

\* sizeof...(R) of an array, half of it for a map, L - 1 of a string.
Length(v) == IF v[1] = "map" THEN Len(v[3]) \div 2 ELSE Len(v[3])

RECURSIVE Serialize(_)
Serialize(v) ==
  <<Tag(v[1])>> \o
  CASE v[1] = "ui" -> BigEndian(v[2], 4)
    [] v[1] = "ul" -> BigEndian(v[2], 8)
    [] v[1] = "string" -> BigEndian(Length(v), 4) \o v[3]
    [] v[1] \in {"array", "map"} ->
         BigEndian(Length(v), 4) \o
         FlattenSeq([k \in DOMAIN v[3] |-> Serialize(v[3][k])])

-----------------------------------------------------------------------------
(* encode_base64: sextets as numbers, "=" as Pad.  The buffer's length counts *)
(* the input's terminating 0, so that four 0 characters are left at the end   *)
(* when the input is a multiple of three.                                     *)

Pad == 64
Nul == -1

\* Faulty variant: the last quantum is cut off without padding.
QuantumUnpadded(x, present) ==
  [k \in 1 .. 4 |-> IF k <= present + 1 /\ present > 0
                    THEN (x \div <<262144, 4096, 64, 1>>[k]) % 64 ELSE Nul]

\* The four characters of three bytes of which so many are present.
Quantum(x, present) ==
  [k \in 1 .. 4 |-> IF present = 0 THEN Nul
                    ELSE IF k > present + 1 THEN Pad
                    ELSE (x \div <<262144, 4096, 64, 1>>[k]) % 64]

EncodeBase64(input) ==
  LET Byte(i) == IF i \in DOMAIN input THEN Unsigned(input[i]) ELSE 0
      Bits(i) == Byte(i) * 65536 + Byte(i + 1) * 256 + Byte(i + 2)
      left(i) == Len(input) + 1 - i
      At(i) == Quantum(Bits(i), IF left(i) > 3 THEN 3 ELSE left(i)) IN
  FlattenSeq([q \in 1 .. (Len(input) + 3) \div 3 |-> At(3 * q - 2)])

-----------------------------------------------------------------------------
(* b64decode ignores characters outside the alphabet and fails on an          *)
(* incomplete quantum; decode_value reads the stream, short at its end.       *)

Malformed == <<-1>>

B64Decode(text) ==
  LET chars == SelectSeq(text, LAMBDA c : c # Nul)
      Bytes(q) == LET a == chars[4*q-3]  b == chars[4*q-2]
                      c == chars[4*q-1]  d == chars[4*q] IN
                  <<a * 4 + b \div 16>>
                  \o (IF c = Pad THEN <<>> ELSE <<(b % 16) * 16 + c \div 4>>)
                  \o (IF d = Pad THEN <<>> ELSE <<(c % 4) * 64 + d>>) IN
  IF Len(chars) % 4 # 0 THEN Malformed
  ELSE FlattenSeq([q \in 1 .. Len(chars) \div 4 |-> Bytes(q)])

Read(data, n) == SubSeq(data, 1, IF n < Len(data) THEN n ELSE Len(data))
Skip(data, n) == SubSeq(data, n + 1, Len(data))
Unpack(bytes) == FoldLeft(LAMBDA x, b : x * 256 + b, 0, bytes)

\* The next n values and what is left: [items, data].
RECURSIVE DecodeValues(_, _)

\* The next value and what is left: [value, data]; struct.unpack fails on a
\* short read and the last line of decode_value on an unknown tag.
DecodeValue(data) ==
  LET kind == IF data = <<>> THEN -1 ELSE data[1]
      width == IF kind = 1 THEN 8 ELSE 4
      head == Read(Skip(data, 1), width)
      rest == Skip(data, 1 + width)
      n == Unpack(head) IN
  IF kind \notin 0 .. 4 \/ Len(head) < width
  THEN [value |-> Nothing, data |-> <<>>]
  ELSE CASE kind \in {0, 1} -> [value |-> <<Tags[kind + 1], n, <<>>>>, data |-> rest]
         [] kind = 2 -> [value |-> <<"string", 0, Read(rest, n)>>,
                         data |-> Skip(rest, n)]
         [] kind \in {3, 4} ->
              LET d == DecodeValues(rest, IF kind = 4 THEN 2 * n ELSE n) IN
              [value |-> <<Tags[kind + 1], 0, d.items>>, data |-> d.data]

DecodeValues(data, n) ==
  IF n = 0 \/ data = <<>> THEN [items |-> <<>>, data |-> data]
  ELSE LET first == DecodeValue(data)
           others == DecodeValues(first.data, n - 1) IN
       [items |-> <<first.value>> \o others.items, data |-> others.data]

-----------------------------------------------------------------------------
Init == /\ stage = "value"
        /\ value \in Values
        /\ wire = <<>>
        /\ decoded = Nothing

Compile == /\ stage = "value"
           /\ stage' = "compiled"
           /\ wire' = EncodeBase64(Serialize(value))
           /\ UNCHANGED <<value, decoded>>

Package == /\ stage = "compiled"
           /\ stage' = "packaged"
           /\ decoded' = DecodeValue(B64Decode(wire)).value
           /\ UNCHANGED <<value, wire>>

Spec == Init /\ [][Compile \/ Package]_vars

\* The packager reads exactly the value the program was compiled with, whatever
\* its length leaves behind the last quantum of the base64 text.
RoundTrip == stage = "packaged" => decoded = value
=============================================================================
