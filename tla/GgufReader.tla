------------------------------ MODULE GgufReader ------------------------------
(***************************************************************************)
(* ReadMetadata of src/internal/gguf/reader.go: the header of a model      *)
(* file, read field by field.  A file is a sequence of bytes; reading at a *)
(* position gives what was read and the position behind it, or fails.      *)
(* All integers are read as unsigned; version and number of tensors are    *)
(* kept apart from the pairs, which the code puts into the same map.       *)
(***************************************************************************)
EXTENDS Integers, Sequences, FiniteSets, SequencesExt

CONSTANTS MaxString,   \* sanity limit of a string's length (1 MB)
          MaxParsed,   \* elements of an array that are kept (50)
          MaxNesting,  \* bound: values within values
          Huge         \* bound: integers are told apart up to here

ASSUME ReaderAssumption ==
    /\ MaxString \in Nat /\ MaxParsed \in Nat /\ MaxNesting \in Nat
    /\ Huge \in Nat /\ Huge > MaxString /\ Huge > 12

Magic == <<71, 71, 85, 70>>

BoolType == 7
StringType == 8
ArrayType == 9

(* Bytes of a scalar, by its type; 0 for a type that is none. *)
Width(type) ==
    CASE type \in {0, 1, 7} -> 1
      [] type \in {2, 3} -> 2
      [] type \in {4, 5, 6} -> 4
      [] type \in {10, 11, 12} -> 8
      [] OTHER -> 0

Failure == [ok |-> FALSE, value |-> 0, at |-> 0]
Got(value, at) == [ok |-> TRUE, value |-> value, at |-> at]

(* binary.Read, little-endian *)
Integer(bytes) ==
    LET from[k \in 1..(Len(bytes) + 1)] ==
            IF k > Len(bytes) THEN 0 ELSE Min({from[k + 1] * 256 + bytes[k], Huge})
    IN from[1]

ReadBytes(file, at, n) ==
    IF at + n - 1 > Len(file) THEN Failure ELSE Got(SubSeq(file, at, at + n - 1), at + n)

ReadInt(file, at, width) ==
    LET read == ReadBytes(file, at, width) IN
    IF read.ok THEN Got(Integer(read.value), read.at) ELSE Failure

ReadString(file, at) ==
    LET length == ReadInt(file, at, 8) IN
    IF ~ length.ok \/ length.value > MaxString THEN Failure
    ELSE ReadBytes(file, length.at, length.value)

(* A list is read element by element: one of them.  All are read, and the  *)
(* first MaxParsed are kept.                                               *)
ReadElement(read, element, type) ==
    LET next == element[type][read.at] IN
    IF ~ read.ok \/ ~ next.ok THEN Failure
    ELSE Got(IF Len(read.value) < MaxParsed THEN Append(read.value, next.value) ELSE read.value, next.at)

(* Mutant: reading ends with the last element that is kept. *)
ElementTurns_Kept(element, type, length, at) ==
    LET turns[k \in 0..length] ==
            IF k = 0 THEN Got(<<>>, at)
            ELSE IF k > MaxParsed THEN turns[k - 1] ELSE ReadElement(turns[k - 1], element, type)
    IN turns

(* The loop over the elements: what is read after the first k of them.     *)
(* element[type][at] is the value of that type at that position.           *)
ElementTurns(element, type, length, at) ==
    LET turns[k \in 0..length] ==
            IF k = 0 THEN Got(<<>>, at) ELSE ReadElement(turns[k - 1], element, type)
    IN turns

(* readValue, which calls itself for the elements of an array. *)
ReadValue(file, element, type, at) ==
    CASE Width(type) > 0 ->
            LET read == ReadInt(file, at, Width(type)) IN
            IF ~ read.ok THEN Failure
            ELSE Got([number |-> IF type = BoolType /\ read.value > 0 THEN 1 ELSE read.value], read.at)
      [] type = StringType ->
            LET read == ReadString(file, at) IN
            IF read.ok THEN Got([bytes |-> read.value], read.at) ELSE Failure
      [] type = ArrayType ->
            LET of == ReadInt(file, at, 4)
                length == ReadInt(file, of.at, 8)
                list == ElementTurns(element, of.value, length.value, length.at)[length.value]
            IN IF of.ok /\ length.ok /\ list.ok THEN Got([list |-> list.value], list.at) ELSE Failure
      [] OTHER -> Failure

(* What readValue gives, for values that are so deeply nested. *)
Reader(file) ==
    LET reader[depth \in 0..MaxNesting] ==
            IF depth = 0 THEN [type \in Nat |-> [at \in Nat |-> Failure]]
            ELSE [type \in Nat |-> [at \in Nat |-> ReadValue(file, reader[depth - 1], type, at)]]
    IN reader

(* A key that comes again replaces the first. *)
Put(metadata, key, value) ==
    [k \in DOMAIN metadata \union {key} |-> IF k = key THEN value ELSE metadata[k]]

(* One pair of key and value. *)
ReadPair(read, file) ==
    LET key == ReadString(file, read.at)
        type == ReadInt(file, key.at, 4)
        value == Reader(file)[MaxNesting][type.value][type.at]
    IN IF ~ read.ok \/ ~ key.ok \/ ~ type.ok \/ ~ value.ok THEN Failure
       ELSE Got(Put(read.value, key.value, value.value), value.at)

(* The loop over the pairs. *)
PairTurns(file, n, at) ==
    LET turns[k \in 0..n] ==
            IF k = 0 THEN Got([key \in {} |-> 0], at) ELSE ReadPair(turns[k - 1], file)
    IN turns

(* Counts have four bytes in version 1, eight from version 2 on. *)
Wide(version) == IF version = 1 THEN 4 ELSE 8

ReadMetadata(file) ==
    LET magic == ReadBytes(file, 1, 4)
        version == ReadInt(file, magic.at, 4)
        tensors == ReadInt(file, version.at, Wide(version.value))
        pairs == ReadInt(file, tensors.at, Wide(version.value))
        read == PairTurns(file, pairs.value, pairs.at)[pairs.value]
    IN IF /\ magic.ok /\ magic.value = Magic
          /\ version.ok /\ version.value \in {1, 2, 3}
          /\ tensors.ok /\ pairs.ok /\ read.ok
       THEN Got([version |-> version.value, tensors |-> tensors.value, pairs |-> read.value], read.at)
       ELSE Failure

------------------------------------------------------------------------------
(* What a writer puts into a file: little-endian integers, lengths of      *)
(* eight bytes.  A value is a record: type, and number, bytes, or the type *)
(* and the values of a list.                                               *)

(* What remains of n after k bytes. *)
Rest(n, width) ==
    LET rest[k \in 0..width] == IF k = 0 THEN n ELSE rest[k - 1] \div 256
    IN rest

WriteInt(n, width) == [k \in 1..width |-> Rest(n, width)[k - 1] % 256]
WriteString(bytes) == WriteInt(Len(bytes), 8) \o bytes

(* Numbers of so many bytes, and strings, that can be written and read. *)
Fits(n, width) == n < Huge /\ Rest(n, width)[width] = 0
Texts == {bytes \in Seq(0..255) : Len(bytes) <= MaxString /\ Fits(Len(bytes), 8)}

Scalars ==
    {v \in [type : {0, 1, 2, 3, 4, 5, 6, 7, 10, 11, 12}, number : Nat] :
        Fits(v.number, Width(v.type)) /\ (v.type = BoolType => v.number \in {0, 1})}
Strings == [type : {StringType}, bytes : Texts]
Lists(values) ==
    {v \in [type : {ArrayType}, of : 0..12, list : Seq(values)] :
        Fits(Len(v.list), 8) /\ \A k \in DOMAIN v.list : v.list[k].type = v.of}

(* The values that are so deeply nested. *)
Values ==
    LET values[depth \in 0..MaxNesting] ==
            IF depth = 0 THEN {} ELSE Scalars \union Strings \union Lists(values[depth - 1])
    IN values

Encode(encoded, v) ==
    CASE v.type = StringType -> WriteString(v.bytes)
      [] v.type = ArrayType ->
            WriteInt(v.of, 4) \o WriteInt(Len(v.list), 8)
            \o FlattenSeq([k \in DOMAIN v.list |-> encoded[v.list[k]]])
      [] OTHER -> WriteInt(v.number, Width(v.type))

Encoded ==
    LET encoded[depth \in 0..MaxNesting] ==
            IF depth = 0 THEN [v \in {} |-> <<>>]
            ELSE [v \in Values[depth] |-> Encode(encoded[depth - 1], v)]
    IN encoded

EncodedPair(pair) ==
    WriteString(pair.key) \o WriteInt(pair.value.type, 4) \o Encoded[MaxNesting][pair.value]

Header(version, pairs) ==
    Magic \o WriteInt(version, 4) \o WriteInt(9, Wide(version)) \o WriteInt(Len(pairs), Wide(version))
    \o FlattenSeq([k \in DOMAIN pairs |-> EncodedPair(pairs[k])])

(* What of it is to be seen: of every list its first MaxParsed values. *)
Show(shown, v) ==
    CASE v.type = StringType -> [bytes |-> v.bytes]
      [] v.type = ArrayType ->
            [list |-> [k \in 1..Min({Len(v.list), MaxParsed}) |-> shown[v.list[k]]]]
      [] OTHER -> [number |-> v.number]

Shown ==
    LET shown[depth \in 0..MaxNesting] ==
            IF depth = 0 THEN [v \in {} |-> <<>>] ELSE [v \in Values[depth] |-> Show(shown[depth - 1], v)]
    IN shown

(* What is read is this value, or nothing unless the file is whole. *)
ComesOut(read, whole, value, at) == read.ok = whole /\ (whole => read = Got(value, at))

(* A header comes out as it was written, every pair of it, whatever comes  *)
(* before in longer or nested lists, and a header that is cut off does not *)
(* come out at all.                                                        *)
ReadsBack(version, pairs, cut) ==
    LET file == Header(version, pairs)
        keys == {pairs[k].key : k \in DOMAIN pairs}
        LastWith(key) == CHOOSE k \in DOMAIN pairs :
                          pairs[k].key = key /\ \A j \in (k + 1)..Len(pairs) : pairs[j].key # key
        all == [version |-> version, tensors |-> 9,
                pairs |-> [key \in keys |-> Shown[MaxNesting][pairs[LastWith(key)].value]]]
    IN ComesOut(ReadMetadata(SubSeq(file, 1, cut)), cut = Len(file), all, cut + 1)
==============================================================================
