-------------------------------- MODULE Codec --------------------------------
(***************************************************************************)
(* zssz.go: a program that uses the library on one object of a type.       *)
(* Every call is a function of the bytes it is given and of the object, in *)
(* the state that earlier calls, failed ones too, have left it in.         *)
(*                                                                         *)
(* SizeOf, HashTreeRoot and SigningRoot change nothing: the properties     *)
(* apply them to the objects the calls produce.                            *)
(***************************************************************************)
EXTENDS BigEndian

CONSTANTS
  Types,        \* the types of the object
  Objects(_),   \* what the program may have made of the object, by type
  Inputs(_),    \* the bytes it may decode, by type
  MaxCalls,     \* bound on the number of calls
  MaxBits       \* bound on the index of a bit that the program sets

ASSUME MaxCallsAssumption == MaxCalls \in Nat
ASSUME MaxBitsAssumption  == MaxBits \in Nat

VARIABLES
  type,     \* the type of the object
  dst,      \* the object
  before,   \* the object as the last call found it (history)
  call,     \* the last call
  in,       \* the bytes it read or wrote
  ok,       \* did it succeed?
  calls     \* the number of calls made

vars == <<type, dst, before, call, in, ok, calls>>

NoCallYet ==
  /\ before = dst
  /\ call = "none"
  /\ in = <<>>
  /\ ok = TRUE
  /\ calls = 0

Init ==
  /\ type \in Types
  /\ dst \in Objects(type)
  /\ NoCallYet

Called(name, bytes, success) ==
  /\ calls' = calls + 1
  /\ call' = name
  /\ in' = bytes
  /\ ok' = success
  /\ before' = dst
  /\ UNCHANGED type

(***************************************************************************)
(* The calls.                                                              *)
(***************************************************************************)
AnyCount(r, bytes)     == TRUE   \* a mutated form
CountMatches(r, bytes) == r.i = Len(bytes)

Counted(res, bytes) == [ok |-> res.ok /\ CountMatches(res.r, bytes), v |-> res.v]

Whole(t, v, bytes, mode) ==
  IF Len(bytes) < Lens(t).min THEN [ok |-> FALSE, v |-> v]
  ELSE Counted(Handle(t, v, NewReader(bytes, mode)), bytes)

DecodeInto(t, v, bytes) == Whole(t, v, bytes, "decode")
DryChecked(t, bytes)    == Whole(t, Zero(t), bytes, "dry").ok

FuzzInto(t, v, bytes) ==
  IF Len(bytes) < Lens(t).fuzzMin THEN Fail(NewReader(bytes, "fuzz"), v)
  ELSE Handle(t, v, NewReader(bytes, "fuzz"))

Filled(name, bytes, res) == Called(name, bytes, res.ok) /\ dst' = res.v

Decode(bytes)          == Filled("Decode", bytes, DecodeInto(type, dst, bytes))
DecodeFuzzBytes(bytes) == Filled("DecodeFuzzBytes", bytes, FuzzInto(type, dst, bytes))
DryCheck(bytes)        == Called("DryCheck", bytes, DryChecked(type, bytes)) /\ UNCHANGED dst

\* Complete: the object has no nil pointer.
RECURSIVE Complete(_, _)
Complete(t, v) ==
  CASE t.kind = "ptr"       -> v # <<>> /\ Complete(t.elem, v[1])
    [] t.kind = "vector"    -> \A k \in 1..Len(v) : Complete(t.elem, v[k])
    [] t.kind = "list"      -> \A k \in 1..v.len : Complete(t.elem, v.cells[k])
    [] t.kind = "container" -> \A k \in 1..Len(v) : Complete(t.fields[k], v[k])
    [] OTHER                -> TRUE

Wrote(res) == Called("Encode", res.out, ~res.panic)

EncodeObject ==
  /\ Complete(type, dst)
  /\ Wrote(Encode(type, dst))
  /\ UNCHANGED dst

\* Set of a bitfield, for bits that it has.
Bitfield     == type.kind \in {"bitlist", "bitvector"}
BitLen(t, b) == IF t.kind = "bitvector" THEN t.bits ELSE BitlistLen(b)

SetOfBit(i, v) ==
  /\ Bitfield
  /\ i < BitLen(type, dst)
  /\ Called("Set", <<>>, TRUE)
  /\ dst' = SetBit(dst, i, v)

Next ==
  /\ calls < MaxCalls
  /\ \/ \E bytes \in Inputs(type) : Decode(bytes) \/ DryCheck(bytes) \/ DecodeFuzzBytes(bytes)
     \/ EncodeObject
     \/ \E i \in 0..(MaxBits - 1), v \in BOOLEAN : SetOfBit(i, v)

Spec == Init /\ [][Next]_vars

(***************************************************************************)
(* Properties.                                                             *)
(***************************************************************************)
\* Arrays have their length, a slice the cells it says, numbers fit their bytes.
RECURSIVE WellShaped(_, _)
WellShaped(t, v) ==
  LET all(elems) == \A k \in 1..Len(elems) : WellShaped(t.elem, elems[k])
  IN  CASE t.kind \in {"uint", "bool"} -> v \in 0..(2^(ByteBits * t.len) - 1)
        [] t.kind \in {"bytes", "bitlist"} -> v \in Seq(Byte)
        [] t.kind \in {"bytesN", "bitvector"} -> v \in [1..Lens(t).fixed -> Byte]
        [] t.kind \in {"basicVector", "vector"} -> Len(v) = t.len /\ all(v)
        [] t.kind \in {"basicList", "list"} -> v.len <= Len(v.cells) /\ all(v.cells)
        [] t.kind = "container" ->
             /\ Len(v) = Len(t.fields)
             /\ \A k \in 1..Len(v) : WellShaped(t.fields[k], v[k])
        [] t.kind = "ptr" -> Len(v) <= 1 /\ all(v)

\* The shape of the state: the object in memory has that of its type, after failed
\* calls too.
TypeOK ==
  /\ type \in Types
  /\ WellShaped(type, dst)
  /\ call \in {"none", "Decode", "DryCheck", "DecodeFuzzBytes", "Encode", "Set"}
  /\ in \in Seq(Byte)
  /\ ok \in BOOLEAN
  /\ calls \in 0..MaxCalls

\* Every list within its limit, every bit of a bitfield accounted for, every bool
\* true or false.
RECURSIVE Valid(_, _)
Valid(t, v) ==
  LET all(elems) == \A k \in 1..Len(elems) : Valid(t.elem, elems[k])
  IN  CASE t.kind = "bool"      -> v \in {0, 1}
        [] t.kind = "bytes"     -> Len(v) <= t.limit
        [] t.kind = "bitlist"   -> BitlistCheck(v, t.limit)
        [] t.kind = "bitvector" -> BitvectorCheck(v, t.bits)
        [] t.kind \in {"basicList", "list"} -> v.len <= t.limit /\ all(Elems(v))
        [] t.kind \in {"basicVector", "vector"} -> all(v)
        [] t.kind = "container" -> \A k \in 1..Len(v) : Valid(t.fields[k], v[k])
        [] t.kind = "ptr"       -> v # <<>> /\ all(v)
        [] OTHER                -> TRUE

\* The type without the limits of its byte lists.
RECURSIVE BytesUnlimited(_)
BytesUnlimited(t) ==
  CASE t.kind = "bytes" -> [t EXCEPT !.limit = 2^(ByteBits * OffsetLen)]
    [] t.kind \in {"vector", "list", "ptr"} -> [t EXCEPT !.elem = BytesUnlimited(@)]
    [] t.kind = "container" ->
         [t EXCEPT !.fields = Each(Len(@), LAMBDA k : BytesUnlimited(t.fields[k]))]
    [] OTHER -> t

Decoded == ok /\ call \in {"Decode", "DecodeFuzzBytes"}

\* SSZ is canonical: what Decode accepts is, byte for byte, what Encode makes of
\* the object it has filled.  No two inputs give the same object, and no byte of
\* the input is ignored, whatever offsets it has.
CanonicalRoundTrip ==
  ok /\ call = "Decode" => Encode(type, dst) = Written(in)

DecodesTo(res, bytes) ==
  /\ res.ok = Valid(type, dst)
  /\ res.ok => Encode(type, res.v) = Written(bytes)

\* What Encode writes without a panic, Decode reads back as the same object, if the
\* object is valid, and refuses otherwise.
EncodedDecodes ==
  ok /\ call = "Encode" => DecodesTo(DecodeInto(type, Zero(type), in), in)

\* SizeOf, on which the offsets of Encode are based, is the number of bytes Encode
\* writes, and never less than MinLen, which Decode checks before it starts.
SizeMatches ==
  Decoded =>
    /\ SizeOf(type, dst) = Len(Encode(type, dst).out)
    /\ SizeOf(type, dst) >= Lens(type).min

\* DryCheck accepts what Decode accepts, and nothing else.
DryCheckAgrees ==
  call = "DryCheck" => ok = DecodeInto(type, Zero(type), in).ok

\* But for the limits of byte lists, it does.
DryCheckAgreesButBytes ==
  LET t == BytesUnlimited(type)
  IN  call = "DryCheck" => ok = DecodeInto(t, Zero(t), in).ok

SameAs(fresh) == ok = fresh.ok /\ (ok => Encode(type, dst) = Encode(type, fresh.v))

\* What the object held before, in cells that are used again too, does not show
\* in what is decoded into it.
DestinationIrrelevant ==
  /\ call = "Decode" => SameAs(DecodeInto(type, Zero(type), in))
  /\ call = "DecodeFuzzBytes" => SameAs(FuzzInto(type, Zero(type), in))

(***************************************************************************)
(* Fuzzing mode has flaws with some types.  The bits of a bitvector are    *)
(* not masked, those of a bitlist only in a limit below the width of a     *)
(* byte, and a basic list takes the larger of two bounds; the length of a  *)
(* list is bounded by the bytes of limit elements, as if each had its      *)
(* maximum.                                                                *)
(***************************************************************************)
RECURSIVE TakesAnyBytes(_)
TakesAnyBytes(t) ==
  CASE t.kind = "bitvector" -> t.bits % ByteBits = 0
    [] t.kind = "bitlist"   -> t.limit < ByteBits \/ t.limit % ByteBits \in {0, ByteBits - 1}
    [] t.kind = "basicList" -> FALSE
    [] t.kind \in {"vector", "list", "ptr"} -> TakesAnyBytes(t.elem)
    [] t.kind = "container" -> \A k \in 1..Len(t.fields) : TakesAnyBytes(t.fields[k])
    [] OTHER -> TRUE

RECURSIVE KeepsLimits(_)
KeepsLimits(t) ==
  CASE t.kind = "list" ->
         /\ t.limit * Lens(t.elem).fuzzMax <= (t.limit + 1) * Lens(t.elem).fuzzMin
         /\ KeepsLimits(t.elem)
    [] t.kind \in {"vector", "ptr"} -> KeepsLimits(t.elem)
    [] t.kind = "container" -> \A k \in 1..Len(t.fields) : KeepsLimits(t.fields[k])
    [] OTHER -> TRUE

DecodesAgain ==
  /\ Valid(type, dst)
  /\ ~Panics(type, dst)
  /\ ~Encode(type, dst).panic
  /\ DecodeInto(type, Zero(type), Encode(type, dst).out).ok

\* An object that was decoded without an error, in fuzzing mode too, is valid: it can
\* be hashed, and is encoded to bytes that decode again.
DecodedIsValid == Decoded => DecodesAgain

\* It is, but for the lengths of lists in fuzzing mode.
DecodedIsValidButLists ==
  Decoded /\ (call = "DecodeFuzzBytes" => KeepsLimits(type)) => DecodesAgain

\* In fuzzing mode any bytes, if there are FuzzMinLen of them, are an object, but for
\* bitfields and basic lists: the budget that is kept for the parts
\* of an object still to come is always enough, however deep they are nested.
FuzzFailsOnlyOnBits ==
  call = "DecodeFuzzBytes" /\ Len(in) >= Lens(type).fuzzMin /\ TakesAnyBytes(type) => ok

\* Set changes the bit it is told to and no other, and neither the length of a bitlist
\* nor the validity of the bitfield.
SetBitSetsOne ==
  Bitfield /\ Valid(type, dst) =>
    \A i \in 0..(BitLen(type, dst) - 1), v \in BOOLEAN :
      LET b == SetBit(dst, i, v)
      IN  /\ Valid(type, b)
          /\ BitLen(type, b) = BitLen(type, dst)
          /\ \A j \in 0..(BitLen(type, dst) - 1) : GetBit(b, j) = (IF j = i THEN v ELSE GetBit(dst, j))

\* IsZeroBitlist tells whether none of a bitlist's bits is set: the bit that marks the
\* length is not one of them, in whatever byte it is.
ZeroBitlistHasNoBit ==
  type.kind = "bitlist" /\ Valid(type, dst) =>
    (IsZeroBitlist(dst) <=> \A i \in 0..(BitlistLen(dst) - 1) : ~GetBit(dst, i))

\* The helpers take a bitfield for the sequence of its bits: SetBit writes one of them,
\* IsZeroBitlist and the length do not mistake the bit that marks the length for one.
BitfieldIsItsBits == SetBitSetsOne /\ ZeroBitlistHasNoBit

\* The hash tree roots of two objects of the type are the same only if the objects
\* are, and the other way around, whatever spare capacity they have.
RootsDistinguish ==
  Decoded /\ Valid(type, dst) /\ Valid(type, before) =>
    (HashTreeRoot(type, dst) = HashTreeRoot(type, before)
       <=> Encode(type, dst).out = Encode(type, before).out)

\* The signing root is the hash tree root of all but the last field.
SigningRootSkipsLast ==
  type.kind = "container" /\ Decoded /\ Valid(type, dst) /\ Valid(type, before) =>
    (SigningRoot(type, dst) = SigningRoot(type, before)
       <=> \A k \in 1..(Len(dst) - 1) :
             HashTreeRoot(type.fields[k], dst[k]) = HashTreeRoot(type.fields[k], before[k]))

\* A machine's byte order does not show in series of basic elements: on a big-endian one
\* their roots and encodings are the same, and the same lists are decoded from the same
\* bytes, in fuzzing mode too.
BigEndianResult ==
  IF call = "Decode" THEN Counted(BigEndianList(type, before, NewReader(in, "decode")), in)
  ELSE BigEndianList(type, before, NewReader(in, "fuzz"))

EndiannessIrrelevant ==
  ~IsLittleEndian(type) =>
    /\ Decoded /\ Valid(type, dst) => BigEndianRoot(type, dst) = HashTreeRoot(type, dst)
    /\ Decoded => BigEndianEncode(type, dst) = Encode(type, dst)
    /\ type.kind = "basicList" /\ call \in {"Decode", "DecodeFuzzBytes"} =>
         LET res == BigEndianResult
         IN  res.ok = ok /\ (ok => Elems(res.v) = Elems(dst))

\* The root of a bitlist is that of its bits: the bit that marks its length is not
\* among them.
RootOfBits(t, b) ==
  MixIn(MerkleRoot(Chunks(Bits(b)), RoundUp(RoundUp(t.limit, ByteBits), ChunkLen)), BitlistLen(b))

BitlistRootOfBits ==
  type.kind = "bitlist" /\ Decoded => HashTreeRoot(type, dst) = RootOfBits(type, dst)

\* The same, of bitlists whose last chunk is not full of data.
PaddedBitlistRoot ==
  type.kind = "bitlist" /\ Decoded /\ DataLen(dst) % ChunkLen # 0 =>
    HashTreeRoot(type, dst) = RootOfBits(type, dst)
==============================================================================
