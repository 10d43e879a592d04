------------------------------ MODULE AbiCodec ------------------------------
(***************************************************************************)
(* The contract ABI codec of quai-abi: the derived facts of a type         *)
(* (AbiType::new), the measured head/tail encoder, the strict decoder,     *)
(* default values, indexed topics and event logs.  A word has WordLen      *)
(* bytes and a byte Base values instead of 32 and 256; the three limits    *)
(* are constants.  An address is an unsigned integer of fixed width here   *)
(* (its word is padded on the left with zeros and its text has a fixed     *)
(* length), and a hash is the bytes that were hashed.  The model's texts   *)
(* are the byte strings below Base \div 2: the others stand for what is    *)
(* not UTF-8.                                                              *)
(***************************************************************************)
EXTENDS Integers, SequencesExt

CONSTANTS WordLen, Base, MaxNodes, MaxDepth, MaxData, Schemas, MaxWords, Ints, Blobs

CodecAssumption == /\ WordLen \in Nat \ {0}
                          /\ Base \in {2 * n : n \in 1..128}
                          /\ {MaxNodes, MaxDepth, MaxData, MaxWords} \subseteq Nat

VARIABLES input, \* the call: the types, and either values or bytes
          output \* what it returned

vars == <<input, output>>

----------------------------------------------------------------------------
(* Types: [kind |-> "bool"], "int" with signed and size in bytes, "fixed"   *)
(* with size, "bytes", "string", "array" with child and n (AnyLength: dynamic),   *)
(* and "tuple" with fields.                                                 *)

AnyLength == -1
Nothing == [ok |-> FALSE]

Total(s) == FoldLeft(LAMBDA a, b : a + b, 0, s)

Repeat(ty, n) == [i \in 1..n |-> ty]

RECURSIVE Dynamic(_)
Dynamic(ty) ==
    CASE ty.kind \in {"bytes", "string"} -> TRUE
      [] ty.kind = "array" -> ty.n = AnyLength \/ Dynamic(ty.child)
      [] ty.kind = "tuple" -> \E i \in DOMAIN ty.fields : Dynamic(ty.fields[i])
      [] OTHER -> FALSE

RECURSIVE HeadSize(_)
HeadsOf(types) == Total([i \in DOMAIN types |-> HeadSize(types[i])])
HeadSize(ty) ==
    CASE Dynamic(ty) -> WordLen
      [] ty.kind = "array" -> ty.n * HeadSize(ty.child)
      [] ty.kind = "tuple" -> HeadsOf(ty.fields)
      [] OTHER -> WordLen

RECURSIVE MinimumNodes(_)
NodesOf(types) == Total([i \in DOMAIN types |-> MinimumNodes(types[i])])
MinimumNodes(ty) ==
    CASE ty.kind = "array" -> 1 + (IF ty.n = AnyLength THEN 0 ELSE ty.n * MinimumNodes(ty.child))
      [] ty.kind = "tuple" -> 1 + NodesOf(ty.fields)
      [] OTHER -> 1

RECURSIVE Depth(_)
Depth(ty) ==
    CASE ty.kind = "array" -> Depth(ty.child) + 1
      [] ty.kind = "tuple" ->
           Max({0} \cup {Depth(ty.fields[i]) + 1 : i \in DOMAIN ty.fields})
      [] OTHER -> 0

RECURSIVE Constructible(_)
Constructible(ty) ==
    /\ ty.kind = "array" => Constructible(ty.child) /\ ty.n <= MaxNodes
    /\ ty.kind = "tuple" => \A i \in DOMAIN ty.fields : Constructible(ty.fields[i])
    /\ MinimumNodes(ty) <= MaxNodes
    /\ HeadSize(ty) <= MaxData
    /\ Depth(ty) <= MaxDepth

SequenceLimit(types) == NodesOf(types) <= MaxNodes

----------------------------------------------------------------------------
(* Words.  An integer's word is its value modulo Base ^ WordLen, so the    *)
(* bytes above its own width repeat its sign.                              *)

RECURSIVE Digits(_, _)
Digits(v, n) == IF n = 0 THEN <<>> ELSE Append(Digits(v \div Base, n - 1), v % Base)

Number(bs) == FoldLeft(LAMBDA a, b : a * Base + b, 0, bs)

Zeros(n) == [i \in 1..n |-> 0]

Fits(ty, v) == IF ty.signed THEN /\ v >= -((Base ^ ty.size) \div 2)
                                 /\ v < (Base ^ ty.size) \div 2
                            ELSE v \in 0..(Base ^ ty.size - 1)

PrimitiveWord(ty, v) ==
    CASE ty.kind = "bool" -> Digits(IF v THEN 1 ELSE 0, WordLen)
      [] ty.kind = "int" -> Digits(v % (Base ^ WordLen), WordLen)
      [] ty.kind = "fixed" -> v \o Zeros(WordLen - ty.size)

\* The last word bound of a length: n rounded up to whole words.
Padded(n) == ((n + WordLen - 1) \div WordLen) * WordLen

RECURSIVE DecimalLength(_)
DecimalLength(v) == IF v < 0 THEN 1 + DecimalLength(-v)
                    ELSE IF v < 10 THEN 1 ELSE 1 + DecimalLength(v \div 10)

\* The length of the text a value is held as between the two directions.
TextLength(ty, v) ==
    CASE ty.kind = "int" -> DecimalLength(v)
      [] ty.kind \in {"bytes", "fixed"} -> 2 + 2 * Len(v)
      [] ty.kind = "string" -> Len(v)
      [] OTHER -> 0

IsText(bs) == \A i \in DOMAIN bs : bs[i] < Base \div 2

----------------------------------------------------------------------------
(* Encoding: the values are counted and measured, a buffer of exactly the  *)
(* measured size is allocated, and heads and tails are written into it.    *)

FieldTypes(ty, v) == IF ty.kind = "tuple" THEN ty.fields ELSE Repeat(ty.child, Len(v))

Compound(ty) == ty.kind \in {"array", "tuple"}

\* Nodes, text and depth of a value, as preflight_values counts them.
Both(c, d) == [nodes |-> c.nodes + d.nodes, text |-> c.text + d.text,
               depth |-> Max({c.depth, d.depth})]

RECURSIVE Counted(_, _, _)
CountedAll(types, values, depth) ==
    FoldLeftDomain(LAMBDA c, i : Both(c, Counted(types[i], values[i], depth)),
                   [nodes |-> 0, text |-> 0, depth |-> 0], values)
Counted(ty, v, depth) ==
    IF Compound(ty)
    THEN Both([nodes |-> 1, text |-> 0, depth |-> depth], CountedAll(FieldTypes(ty, v), v, depth + 1))
    ELSE [nodes |-> 1, text |-> TextLength(ty, v), depth |-> depth]

WithinLimits(c) == c.nodes <= MaxNodes /\ c.text <= MaxData /\ c.depth <= MaxDepth
Preflight(types, values) == WithinLimits(CountedAll(types, values, 0))

\* The shape of a value: what the fallible conversions of measure accept.
RECURSIVE Shaped(_, _)
ShapedAll(types, values) == /\ Len(types) = Len(values)
                            /\ \A i \in DOMAIN types : Shaped(types[i], values[i])
Shaped(ty, v) ==
    CASE ty.kind = "int" -> Fits(ty, v)
      [] ty.kind = "fixed" -> Len(v) = ty.size
      [] ty.kind = "string" -> IsText(v)
      [] ty.kind = "array" -> ty.n \in {AnyLength, Len(v)} /\ ShapedAll(Repeat(ty.child, Len(v)), v)
      [] ty.kind = "tuple" -> ShapedAll(ty.fields, v)
      [] OTHER -> TRUE

RECURSIVE Measure(_, _)
MeasureAll(types, values) ==
    HeadsOf(types) + Total([i \in DOMAIN types |->
                              IF Dynamic(types[i]) THEN Measure(types[i], values[i]) ELSE 0])
Measure(ty, v) ==
    CASE Compound(ty) -> MeasureAll(FieldTypes(ty, v), v)
                           + (IF ty.kind = "array" /\ ty.n = AnyLength THEN WordLen ELSE 0)
      [] ty.kind \in {"bytes", "string"} -> WordLen + Padded(Len(v))
      [] OTHER -> WordLen

\* The sizes of the parts are within the whole: one bound stands for all.
Validate(types, values) ==
    IF SequenceLimit(types) /\ Len(types) = Len(values) /\ ShapedAll(types, values)
         /\ Preflight(types, values) /\ MeasureAll(types, values) <= MaxData
    THEN [ok |-> TRUE, size |-> MeasureAll(types, values)]
    ELSE Nothing

\* A write outside the buffer is the panic of the slice it indexes.
Put(buffer, offset, bs) ==
    [bytes |-> [i \in DOMAIN buffer.bytes |->
                  IF i \in (offset + 1)..(offset + Len(bs)) THEN bs[i - offset] ELSE buffer.bytes[i]],
     panicked |-> buffer.panicked \/ offset + Len(bs) > Len(buffer.bytes)]

OffsetFrom(tail, base) == tail - base

\* What precedes the contents: the length word of a bytes, string or T[] value.
Sized(ty) == ty.kind \in {"bytes", "string"} \/ (ty.kind = "array" /\ ty.n = AnyLength)
ContentsAt(ty, offset) == IF Sized(ty) THEN offset + WordLen ELSE offset
PutSize(ty, v, offset, buffer) ==
    IF Sized(ty) THEN Put(buffer, offset, Digits(Len(v), WordLen)) ELSE buffer

HeadAt(types, i, base) == base + HeadsOf(SubSeq(types, 1, i - 1))

\* A static part leaves the end of the tails where it was.
AfterPart(ty, w, written) == IF Dynamic(ty) THEN written ELSE [w EXCEPT !.buffer = written.buffer]

RECURSIVE Write(_, _, _, _)
WriteAll(types, values, base, buffer) ==
    FoldLeftDomain(
        LAMBDA w, i :
          AfterPart(types[i], w,
              Write(types[i], values[i],
                    IF Dynamic(types[i]) THEN w.end ELSE HeadAt(types, i, base),
                    IF Dynamic(types[i])
                    THEN Put(w.buffer, HeadAt(types, i, base), Digits(OffsetFrom(w.end, base), WordLen))
                    ELSE w.buffer)),
        [buffer |-> buffer, end |-> base + HeadsOf(types)], values)
Write(ty, v, offset, buffer) ==
    CASE Compound(ty) ->
           WriteAll(FieldTypes(ty, v), v, ContentsAt(ty, offset), PutSize(ty, v, offset, buffer))
      [] ty.kind \in {"bytes", "string"} ->
           [buffer |-> Put(PutSize(ty, v, offset, buffer), offset + WordLen, v),
            end |-> offset + WordLen + Padded(Len(v))]
      [] OTHER -> [buffer |-> Put(buffer, offset, PrimitiveWord(ty, v)),
                   end |-> offset + WordLen]

Written(w, size) == [ok |-> w.end = size, bytes |-> w.buffer.bytes, panicked |-> w.buffer.panicked]
EncodeSized(types, values, checked) ==
    IF ~checked.ok THEN Nothing
    ELSE Written(WriteAll(types, values, 0, [bytes |-> Zeros(checked.size), panicked |-> FALSE]),
                 checked.size)
Encode(types, values) == EncodeSized(types, values, Validate(types, values))

----------------------------------------------------------------------------
(* Decoding: every offset must be the end of the previous tail, every pad  *)
(* must be what the encoder writes, and the whole input must be consumed.  *)

\* Budget::node and Budget::text on the running counts.
Spend(budget, text) == [budget EXCEPT !.nodes = @ + 1, !.text = @ + text]
Affordable(budget, depth) ==
    budget.nodes <= MaxNodes /\ budget.text <= MaxData /\ depth <= MaxDepth

HasWord(bytes, offset) == offset + WordLen <= Len(bytes)
WordAt(bytes, offset) == SubSeq(bytes, offset + 1, offset + WordLen)
SizeWord(bytes, offset) == Number(WordAt(bytes, offset))


OffsetIs(bytes, head, expected) == HasWord(bytes, head) /\ SizeWord(bytes, head) = expected

DecodePrimitive(ty, word) ==
    LET own      == SubSeq(word, WordLen - ty.size + 1, WordLen)
        negative == ty.signed /\ own[1] >= Base \div 2
        pad      == IF negative THEN Base - 1 ELSE 0
    IN  CASE ty.kind = "bool" -> [ok |-> Number(word) <= 1, value |-> Number(word) = 1]
          [] ty.kind = "int" ->
               [ok |-> \A i \in 1..(WordLen - ty.size) : word[i] = pad,
                value |-> Number(word) - (IF negative THEN Base ^ WordLen ELSE 0)]
          [] ty.kind = "fixed" ->
               [ok |-> \A i \in (ty.size + 1)..WordLen : word[i] = 0,
                value |-> SubSeq(word, 1, ty.size)]

DecodeRaw(ty, raw, end, budget, depth) ==
    LET spent == Spend(budget, TextLength(ty, raw))
    IN  IF Affordable(spent, depth) /\ (ty.kind = "string" => IsText(raw))
        THEN [ok |-> TRUE, value |-> raw, end |-> end, budget |-> spent]
        ELSE Nothing
DecodePadded(ty, bytes, start, len, budget, depth) ==
    IF /\ len <= MaxData
       /\ start + Padded(len) <= Len(bytes)
       /\ \A i \in (start + len + 1)..(start + Padded(len)) : bytes[i] = 0
    THEN DecodeRaw(ty, SubSeq(bytes, start + 1, start + len), start + Padded(len), budget, depth)
    ELSE Nothing
DecodeBytes(ty, bytes, offset, budget, depth) ==
    IF HasWord(bytes, offset)
    THEN DecodePadded(ty, bytes, offset + WordLen, SizeWord(bytes, offset), budget, depth)
    ELSE Nothing

\* The elements of an array: as many as its length word, or its type, says.
Elements(ty, bytes, offset) == IF Sized(ty) THEN SizeWord(bytes, offset) ELSE ty.n

\* The values decoded so far, and the next one: a dynamic part must begin where
\* the previous tail ended, a static one fill its head.
AfterDecoded(ty, bytes, base, head, d, part) ==
    IF /\ d.ok /\ part.ok
       /\ IF Dynamic(ty) THEN OffsetIs(bytes, head, d.end - base) ELSE part.end = head + HeadSize(ty)
    THEN [ok |-> TRUE, value |-> Append(d.value, part.value), budget |-> part.budget,
          end |-> IF Dynamic(ty) THEN part.end ELSE d.end]
    ELSE Nothing

DecodedWord(one, offset, spent, depth) ==
    IF one.ok /\ Affordable(spent, depth)
    THEN [ok |-> TRUE, value |-> one.value, end |-> offset + WordLen, budget |-> spent]
    ELSE Nothing
DecodeWord(ty, one, offset, budget, depth) ==
    DecodedWord(one, offset, Spend(budget, TextLength(ty, one.value)), depth)

RECURSIVE Decode(_, _, _, _, _)
DecodeAll(types, bytes, base, budget, depth) ==
    IF \/ base + HeadsOf(types) > Len(bytes)
       \/ NodesOf(types) > MaxNodes - budget.nodes
    THEN Nothing
    ELSE FoldLeftDomain(
           LAMBDA d, i :
             AfterDecoded(types[i], bytes, base, HeadAt(types, i, base), d,
                 Decode(types[i], bytes, IF Dynamic(types[i]) THEN d.end ELSE HeadAt(types, i, base),
                        d.budget, depth)),
           [ok |-> TRUE, value |-> <<>>, end |-> base + HeadsOf(types), budget |-> budget], types)
Decode(ty, bytes, offset, budget, depth) ==
    CASE Compound(ty) ->
           IF /\ Affordable(Spend(budget, 0), depth)
              /\ Sized(ty) => HasWord(bytes, offset)
              /\ ty.kind = "array" => Elements(ty, bytes, offset) <= MaxNodes
           THEN DecodeAll(IF ty.kind = "tuple" THEN ty.fields
                          ELSE Repeat(ty.child, Elements(ty, bytes, offset)),
                          bytes, ContentsAt(ty, offset), Spend(budget, 0), depth + 1)
           ELSE Nothing
      [] ty.kind \in {"bytes", "string"} -> DecodeBytes(ty, bytes, offset, budget, depth)
      [] OTHER ->
           IF HasWord(bytes, offset)
           THEN DecodeWord(ty, DecodePrimitive(ty, WordAt(bytes, offset)), offset, budget, depth)
           ELSE Nothing

Consumed(d, bytes) == IF d.ok /\ d.end = Len(bytes) THEN [ok |-> TRUE, values |-> d.value] ELSE Nothing
DecodeValues(types, bytes) ==
    IF SequenceLimit(types) /\ Len(bytes) <= MaxData /\ Len(bytes) % WordLen = 0
    THEN Consumed(DecodeAll(types, bytes, 0, [nodes |-> 0, text |-> 0], 0), bytes) ELSE Nothing

----------------------------------------------------------------------------
(* Default values, indexed topics and logs.                                *)

RECURSIVE DefaultValue(_)
DefaultValues(types) == [i \in DOMAIN types |-> DefaultValue(types[i])]
DefaultValue(ty) ==
    CASE ty.kind = "bool" -> FALSE
      [] ty.kind = "int" -> 0
      [] ty.kind \in {"bytes", "string"} -> <<>>
      [] ty.kind = "fixed" -> Zeros(ty.size)
      [] ty.kind = "array" -> IF ty.n = AnyLength THEN <<>> ELSE DefaultValues(Repeat(ty.child, ty.n))
      [] ty.kind = "tuple" -> DefaultValues(ty.fields)

RECURSIVE DefaultText(_)
DefaultText(ty) ==
    CASE ty.kind \in {"bool", "string"} -> 0
      [] ty.kind = "int" -> 1
      [] ty.kind = "bytes" -> 2
      [] ty.kind = "fixed" -> 2 + 2 * ty.size
      [] ty.kind = "array" -> IF ty.n \in {0, AnyLength} THEN 0 ELSE ty.n * DefaultText(ty.child)
      [] ty.kind = "tuple" -> Total([i \in DOMAIN ty.fields |-> DefaultText(ty.fields[i])])

RECURSIVE DefaultBody(_)
DefaultEntry(ty) == DefaultBody(ty) + (IF Dynamic(ty) THEN WordLen ELSE 0)
DefaultBody(ty) ==
    CASE ty.kind = "array" /\ ty.n # AnyLength -> IF ty.n = 0 THEN 0 ELSE ty.n * DefaultEntry(ty.child)
      [] ty.kind = "tuple" -> Total([i \in DOMAIN ty.fields |-> DefaultEntry(ty.fields[i])])
      [] OTHER -> WordLen

Defaults(types) ==
    LET encoded == Total([i \in DOMAIN types |-> DefaultEntry(types[i])])
    IN  IF /\ SequenceLimit(types)
           /\ Total([i \in DOMAIN types |-> DefaultText(types[i])]) <= MaxData
           /\ encoded <= MaxData
        THEN [ok |-> TRUE, values |-> DefaultValues(types), size |-> encoded]
        ELSE Nothing

\* What is hashed for an indexed value: nested byte strings are padded.
RECURSIVE Indexed(_, _, _)
Indexed(ty, v, nested) ==
    CASE ty.kind \in {"bytes", "string"} ->
           v \o (IF nested THEN Zeros(Padded(Len(v)) - Len(v)) ELSE <<>>)
      [] Compound(ty) ->
           LET types == FieldTypes(ty, v)
           IN  FlattenSeq([i \in DOMAIN types |-> Indexed(types[i], v[i], TRUE)])
      [] OTHER -> PrimitiveWord(ty, v)

\* A topic: the event's own hash, a hash of bytes, or a word.
SignatureTopic == [of |-> "signature", bytes |-> <<>>]
Hashed(ty) == Compound(ty) \/ ty.kind \in {"bytes", "string"}
Topic(ty, v) == [of |-> IF Hashed(ty) THEN "hash" ELSE "word", bytes |-> Indexed(ty, v, FALSE)]

Picked(event, which) == SelectSeq([i \in DOMAIN event.types |-> i], LAMBDA i : event.indexed[i] = which)

At(s, positions) == [k \in DOMAIN positions |-> s[positions[k]]]

LogOf(event, values, named, enc) ==
    IF enc.ok
    THEN [ok |-> TRUE, data |-> enc.bytes,
          topics |-> (IF event.anonymous THEN <<>> ELSE <<SignatureTopic>>)
                     \o [k \in DOMAIN named |-> Topic(event.types[named[k]], values[named[k]])]]
    ELSE Nothing
EncodeLog(event, values) ==
    LET data == Picked(event, FALSE)
    IN  IF Validate(event.types, values).ok
        THEN LogOf(event, values, Picked(event, TRUE), Encode(At(event.types, data), At(values, data)))
        ELSE Nothing

FirstTopic(event) == IF event.anonymous THEN 0 ELSE 1

\* A hashed argument comes back as its hash, every other one as its value.
DecodeTopic(ty, topic) ==
    IF Hashed(ty) THEN [ok |-> TRUE, values |-> <<topic>>] ELSE DecodeValues(<<ty>>, topic.bytes)

LogValues(event, data, named, decoded, read) ==
    IF decoded.ok /\ \A k \in DOMAIN read : read[k].ok
    THEN [ok |-> TRUE,
          values |-> [i \in DOMAIN event.types |->
                        IF event.indexed[i] THEN read[CHOOSE k \in DOMAIN named : named[k] = i].values[1]
                        ELSE decoded.values[CHOOSE k \in DOMAIN data : data[k] = i]]]
    ELSE Nothing
DecodeLog(event, topics, bytes) ==
    LET data  == Picked(event, FALSE)
        named == Picked(event, TRUE)
    IN  IF \/ Len(topics) # Len(named) + (IF event.anonymous THEN 0 ELSE 1)
           \/ ~event.anonymous /\ topics[1] # SignatureTopic
        THEN Nothing
        ELSE LogValues(event, data, named, DecodeValues(At(event.types, data), bytes),
                       [k \in DOMAIN named |-> DecodeTopic(event.types[named[k]], topics[FirstTopic(event) + k])])

----------------------------------------------------------------------------
(* One call on one of the inputs.  Candidates holds well-formed values and *)
(* values measure refuses: integers out of range, byte strings and arrays  *)
(* of a wrong length.                                                      *)

RECURSIVE Product(_)
Product(sets) == IF sets = <<>> THEN {<<>>}
                 ELSE {<<v>> \o rest : v \in sets[1], rest \in Product(Tail(sets))}

RECURSIVE Candidates(_)
Candidates(ty) ==
    CASE ty.kind = "bool" -> BOOLEAN
      [] ty.kind = "int" -> Ints
      [] ty.kind \in {"fixed", "bytes", "string"} -> Blobs
      [] ty.kind = "array" -> UNION {[1..n -> Candidates(ty.child)] :
                                       n \in IF ty.n = AnyLength THEN 0..2 ELSE ty.n..(ty.n + 1)}
      [] ty.kind = "tuple" -> Product([i \in DOMAIN ty.fields |-> Candidates(ty.fields[i])])

CandidateLists(types) == Product([i \in DOMAIN types |-> Candidates(types[i])])

Known == {types \in Schemas : \A i \in DOMAIN types : Constructible(types[i])}

Init ==
    /\ output = Nothing
    /\ \E types \in Known :
         \/ \E v \in CandidateLists(types) : input = [op |-> "encode", types |-> types, values |-> v]
         \/ \E n \in 0..MaxWords : \E b \in [1..(n * WordLen) -> 0..(Base - 1)] :
               input = [op |-> "decode", types |-> types, bytes |-> b]
         \/ input = [op |-> "default", types |-> types]
         \/ \E v \in CandidateLists(types), x \in [DOMAIN types -> BOOLEAN], a \in BOOLEAN :
               input = [op |-> "log", types |-> types, values |-> v, indexed |-> x, anonymous |-> a]

EncodeCall == /\ input.op = "encode"
              /\ output' = Encode(input.types, input.values)

DecodeCall == /\ input.op = "decode"
              /\ output' = DecodeValues(input.types, input.bytes)

DefaultCall == /\ input.op = "default"
               /\ output' = Defaults(input.types)

LogCall == /\ input.op = "log"
           /\ output' = EncodeLog(input, input.values)

Next == /\ EncodeCall \/ DecodeCall \/ DefaultCall \/ LogCall
        /\ UNCHANGED input

Spec == Init /\ [][Next]_vars

----------------------------------------------------------------------------
(* Reference: the head and tail concatenation of the ABI specification.    *)

RECURSIVE Reference(_, _)
ReferenceAll(types, values) ==
    LET tails == [i \in DOMAIN types |-> IF Dynamic(types[i]) THEN Reference(types[i], values[i]) ELSE <<>>]
        heads(offset) == [i \in DOMAIN types |-> IF Dynamic(types[i]) THEN Digits(offset[i], WordLen)
                                                 ELSE Reference(types[i], values[i])]
        start == Len(FlattenSeq(heads([i \in DOMAIN types |-> 0])))
    IN  FlattenSeq(heads([i \in DOMAIN types |-> start + Len(FlattenSeq(SubSeq(tails, 1, i - 1)))]))
        \o FlattenSeq(tails)
Reference(ty, v) ==
    CASE ty.kind = "tuple" -> ReferenceAll(ty.fields, v)
      [] ty.kind = "array" -> (IF ty.n = AnyLength THEN Digits(Len(v), WordLen) ELSE <<>>)
                              \o ReferenceAll(Repeat(ty.child, Len(v)), v)
      [] ty.kind \in {"bytes", "string"} -> Digits(Len(v), WordLen) \o v \o Zeros(Padded(Len(v)) - Len(v))
      [] OTHER -> PrimitiveWord(ty, v)

\* What encode writes into the buffer it measured is, byte for byte, the head
\* and tail concatenation of the ABI specification: no write leaves the
\* buffer, none is missing, and the measured size is the written one.
EncodesAsSpecified ==
    (input.op = "encode" /\ Validate(input.types, input.values).ok) =>
        Encode(input.types, input.values) =
            [ok |-> TRUE, panicked |-> FALSE, bytes |-> ReferenceAll(input.types, input.values)]

\* Whatever encode accepts, decode accepts and returns unchanged: the two
\* directions agree on signs, padding, zero-sized parts and on every limit.
RoundTrips ==
    (input.op = "encode" /\ output.ok) =>
        DecodeValues(input.types, output.bytes) = [ok |-> TRUE, values |-> input.values]

\* decode accepts nothing but canonical encodings: whatever bytes it accepts
\* are exactly what encode writes for the values it returned, so no two byte
\* strings mean the same arguments.
DecodesOnlyCanonical ==
    (input.op = "decode" /\ output.ok) =>
        Encode(input.types, output.values) = [ok |-> TRUE, panicked |-> FALSE, bytes |-> input.bytes]

\* The sizes default_values adds up before it builds anything are the sizes
\* the encoder measures afterwards: defaults are given exactly when they can
\* be encoded.
DefaultsMeasured ==
    input.op = "default" =>
        LET d == Defaults(input.types)
            v == Validate(input.types, DefaultValues(input.types))
        IN  d.ok = v.ok /\ (d.ok => d.size = v.size)

\* A log is read back argument by argument, wherever the indexed ones stand:
\* a hashed argument as its own topic and every other as its value.
LogsRoundTrip ==
    (input.op = "log" /\ output.ok) =>
        DecodeLog(input, output.topics, output.data) =
            [ok |-> TRUE,
             values |-> [i \in DOMAIN input.types |->
                           IF input.indexed[i] /\ Hashed(input.types[i])
                           THEN Topic(input.types[i], input.values[i]) ELSE input.values[i]]]

\* The special encoding hashed for an indexed argument is the ordinary one
\* wherever the argument is static.
StaticTopicsAreEncodings ==
    (input.op = "log" /\ output.ok) =>
        \A i \in DOMAIN input.types :
            ~Dynamic(input.types[i]) =>
                Indexed(input.types[i], input.values[i], FALSE)
                    = Encode(<<input.types[i]>>, <<input.values[i]>>).bytes

=============================================================================
