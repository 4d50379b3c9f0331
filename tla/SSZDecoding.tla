----------------------------- MODULE SSZDecoding -----------------------------
(***************************************************************************)
(* types/: Decode, in its normal and its fuzzing mode, and DryCheck.       *)
(*                                                                         *)
(* Handle(t, v, r) decodes the reader r into the object v, or dry-checks   *)
(* r: it returns whether there was no error, the reader behind what was    *)
(* read, and the object as it was left, also by an error.  DryCheck walks  *)
(* containers and series as Decode does; it has no object, and what is     *)
(* put into v then is seen by nobody.                                      *)
(*                                                                         *)
(* A reader holds the bytes of the stream from here on, its index, the     *)
(* size of its scope and its mode.  The stream holds all the bytes that    *)
(* were announced (module DecodingReader has the others).                  *)
(***************************************************************************)
EXTENDS SSZTypes

NewReader(bytes, mode) == [in |-> bytes, i |-> 0, max |-> Len(bytes), mode |-> mode]

Fail(r, v) == [ok |-> FALSE, r |-> r, v |-> v]
Done(r, v) == [ok |-> TRUE, r |-> r, v |-> v]

GetBytesSpan(r) == r.max - r.i
IsFuzzMode(r)   == r.mode = "fuzz"
IsDryCheck(r)   == r.mode = "dry"

\* Read and Skip: Then is told the bytes and the reader behind them.
Reading(r, n, v, Then(_, _)) ==
  IF n > GetBytesSpan(r) THEN Fail(r, v)
  ELSE Then(SubSeq(r.in, 1, n), [r EXCEPT !.i = @ + n, !.in = SubSeq(@, n + 1, Len(@))])

\* Scope: only fuzzing mode has to be enabled again.
Scope(r, n) == [r EXCEPT !.i = 0, !.max = n, !.mode = IF @ = "fuzz" THEN "decode" ELSE @]
EnableFuzzMode(r) == [r EXCEPT !.mode = "fuzz"]
UpdateIndexFromScoped(r, scoped) == [r EXCEPT !.i = @ + scoped.i, !.in = scoped.in]

\* A for loop over 1..n that returns at the first error.
UnlessFailed(acc, k, Step(_, _)) == IF acc.ok THEN Step(acc, k) ELSE acc

Loop(n, start, Step(_, _)) ==
  LET after[k \in 0..n] == IF k = 0 THEN start ELSE UnlessFailed(after[k - 1], k, Step)
  IN  IF n <= 0 THEN start ELSE after[n]

(***************************************************************************)
(* Basic types and byte arrays.                                            *)
(***************************************************************************)
HandleUint(t, v, r) ==
  Reading(r, t.len, v, LAMBDA b, s : Done(s, FromBytes(b)))

HandleBool(t, v, r) ==
  Reading(r, 1, v, LAMBDA b, s :
    IF b[1] <= 1 THEN Done(s, b[1])
    ELSE IF IsFuzzMode(s) THEN Done(s, b[1] % 2)
    ELSE Fail(s, v))

HandleBytesN(t, v, r) ==
  Reading(r, t.len, v, LAMBDA b, s : Done(s, b))

(***************************************************************************)
(* Bytes.  BytesAllocFn always makes a new slice.  DryCheck skips whatever *)
(* is there.                                                               *)
(***************************************************************************)
NeverTooLong(n, limit) == FALSE   \* a mutated form

TooLong(n, limit)   == n > limit
FuzzSpan(r, limit)  == Least(GetBytesSpan(r), limit)
PickLength(x, span) == IF span = 0 THEN 0 ELSE FromBytes(x) % span

FillBytes(n, v, r) == Reading(r, n, Each(n, LAMBDA k : 0), LAMBDA b, s : Done(s, b))

LimitedBytes(t, n, v, r) == IF TooLong(n, t.limit) THEN Fail(r, v) ELSE FillBytes(n, v, r)

HandleBytes(t, v, r) ==
  CASE IsDryCheck(r) -> Reading(r, GetBytesSpan(r), v, LAMBDA b, s : Done(s, v))
    [] IsFuzzMode(r) ->
         Reading(r, PrefixLen, v, LAMBDA x, s :
           LimitedBytes(t, PickLength(x, FuzzSpan(s, t.limit)), v, s))
    [] OTHER -> LimitedBytes(t, GetBytesSpan(r), v, r)

(***************************************************************************)
(* Bitlist.  Decode allocates and reads all of its scope before it looks   *)
(* at the limit.  In fuzzing mode one byte of the span is set aside for    *)
(* the delimiter (a span of 0 wraps around), and the last byte is masked   *)
(* with a shift made in a byte.                                            *)
(***************************************************************************)
BitlistFuzzLen(t, x, r) ==
  LET byteLimit == RoundUp(t.limit, ByteBits)
      span      == IF GetBytesSpan(r) = 0 THEN byteLimit
                   ELSE Least(GetBytesSpan(r) - 1, byteLimit)
  IN  PickLength(x, span) + 1

BitlistFuzzMask(t, b) ==
  LET last   == b[Len(b)]
      masked == IF t.limit + 1 >= ByteBits THEN last ELSE last % 2^(t.limit + 1)
  IN  [b EXCEPT ![Len(b)] = IF masked = 0 THEN 1 ELSE masked]

Checked(res, Check(_)) == IF res.ok /\ ~Check(res.v) THEN Fail(res.r, res.v) ELSE res

HandleBitlist(t, v, r) ==
  LET check(b) == BitlistCheck(b, t.limit)
  IN  CASE IsDryCheck(r) ->
             IF ~BitlistCheckByteLen(GetBytesSpan(r), t.limit) THEN Fail(r, v)
             ELSE Reading(r, GetBytesSpan(r), v, LAMBDA b, s :
                    IF BitlistCheckLastByte(b[Len(b)], t.limit - (Len(b) - 1) * ByteBits)
                      THEN Done(s, v) ELSE Fail(s, v))
        [] IsFuzzMode(r) ->
             Reading(r, PrefixLen, v, LAMBDA x, s :
               LET res == FillBytes(BitlistFuzzLen(t, x, s), v, s)
               IN  IF res.ok THEN Checked([res EXCEPT !.v = BitlistFuzzMask(t, @)], check)
                   ELSE res)
        [] OTHER -> Checked(FillBytes(GetBytesSpan(r), v, r), check)

HandleBitvector(t, v, r) ==
  Checked(Reading(r, RoundUp(t.bits, ByteBits), v, LAMBDA b, s : Done(s, b)),
          LAMBDA b : BitvectorCheck(b, t.bits))

(***************************************************************************)
(* MutateLenOrAllocNew: cells that have the capacity are used again.       *)
(***************************************************************************)
\* a mutated form
KeepLength(elem, slice, n) ==
  IF Len(slice.cells) < n THEN Slice(Each(n, LAMBDA k : Zero(elem))) ELSE slice

MutateLenOrAllocNew(elem, slice, n) ==
  IF Len(slice.cells) < n THEN Slice(Each(n, LAMBDA k : Zero(elem)))
  ELSE [slice EXCEPT !.len = n]

(***************************************************************************)
(* Series of basic elements are read at once, into the cells; bools are    *)
(* looked at afterwards.                                                   *)
(***************************************************************************)
\* The slice with the cells that were handled.
Refilled(slice, res) == [res EXCEPT !.v = [slice EXCEPT !.cells = res.v]]

ValidBools(b) == \A k \in 1..Len(b) : b[k] <= 1

\* LittleEndianBasicSeriesDecode, BasicSeriesDryCheck
HandleBasicSeries(elem, cells, n, limit, r) ==
  IF n > limit THEN Fail(r, cells)
  ELSE Reading(r, n, cells, LAMBDA b, s :
         LET read(x) == [k \in 1..Len(cells) |->
                           IF k <= n \div elem.len THEN ElemsOf(elem, x)[k] ELSE cells[k]]
         IN  IF elem.kind # "bool" \/ ValidBools(b) THEN Done(s, read(b))
             ELSE IF IsFuzzMode(s) THEN Done(s, read(Each(n, LAMBDA k : Least(b[k], 1))))
             ELSE Fail(s, read(b)))

HandleBasicVector(t, v, r) ==
  HandleBasicSeries(t.elem, v, t.len * t.elem.len, t.len * t.elem.len, r)

BasicListOf(t, slice, n, r) ==
  LET resized == MutateLenOrAllocNew(t.elem, slice, n \div t.elem.len)
  IN  Refilled(resized, HandleBasicSeries(t.elem, resized.cells, n, t.limit * t.elem.len, r))

\* In fuzzing mode the span is the larger of what is left and what is allowed.
LargerSpan(t, r) ==
  IF t.limit * t.elem.len > GetBytesSpan(r) THEN t.limit * t.elem.len ELSE GetBytesSpan(r)

HandleBasicList(t, v, r) ==
  IF IsFuzzMode(r)
    THEN Reading(r, PrefixLen, v, LAMBDA x, s :
           LET span == LargerSpan(t, s)
               n    == PickLength(x, span)
           IN  IF span = 0 THEN Done(s, v)
               ELSE BasicListOf(t, v, n - (n % t.elem.len), s))
    ELSE IF GetBytesSpan(r) % t.elem.len # 0 THEN Fail(r, v)
    ELSE BasicListOf(t, v, GetBytesSpan(r), r)

(***************************************************************************)
(* Element k of the objects acc.v, handled by the reader itself or in a    *)
(* scope of its own.                                                       *)
(***************************************************************************)
RECURSIVE Handle(_, _, _)

Handled(acc, k, res) == [acc EXCEPT !.ok = res.ok, !.r = res.r, !.v[k] = res.v]
FromScoped(r, res)   == [res EXCEPT !.r = IF res.ok THEN UpdateIndexFromScoped(r, @) ELSE r]

InPlace(acc, t, k)         == Handled(acc, k, Handle(t, acc.v[k], acc.r))
InScope(acc, t, k, scoped) == Handled(acc, k, FromScoped(acc.r, Handle(t, acc.v[k], scoped)))

FixedSeries(elem, v, n, r) == Loop(n, Done(r, v), LAMBDA acc, k : InPlace(acc, elem, k))

(***************************************************************************)
(* Series of variable-size elements: the table of offsets, and the         *)
(* elements between the offsets.  (Module VarSeries has the same loops for *)
(* every element handler, one step at a time.)                             *)
(***************************************************************************)
ReadTable(r, Valid(_)) ==
  Reading(r, OffsetLen, <<>>, LAMBDA b, s :
    IF ~Valid(FromBytes(b)) THEN Fail(s, <<>>)
    ELSE Loop(FromBytes(b) \div OffsetLen - 1, Done(s, <<FromBytes(b)>>),
              LAMBDA acc, k : Reading(acc.r, OffsetLen, acc.v, LAMBDA c, u :
                                Done(u, Append(acc.v, FromBytes(c))))))

ReadVarSeriesOffsets(n, r) ==
  IF n = 0 THEN Done(r, <<>>) ELSE ReadTable(r, LAMBDA o : o \div OffsetLen = n)

ValidFirstOffset(elem, limit, bytesLen, o) ==
  /\ o <= bytesLen
  /\ o % OffsetLen = 0
  /\ o \div OffsetLen <= limit
  /\ Lens(elem).fixed * (o \div OffsetLen) <= bytesLen

TableRead(table) ==
  IF table.ok /\ table.r.i # OffsetLen * (table.v[1] \div OffsetLen)
    THEN Fail(table.r, table.v) ELSE table

ReadVarSliceOffsets(t, r) ==
  IF GetBytesSpan(r) = 0 THEN Done(r, <<>>)
  ELSE IF r.i # 0 THEN Fail(r, <<>>)
  ELSE TableRead(ReadTable(r, LAMBDA o : ValidFirstOffset(t.elem, t.limit, r.max, o)))

ReadAll(r)      == r.i = r.max
WholeScope(res) == IF res.ok /\ ~ReadAll(res.r) THEN Fail(res.r, res.v) ELSE res

FromOffsets(elem, v, offsets, r) ==
  LET end(acc, k) == IF k < Len(offsets) THEN offsets[k + 1] ELSE acc.r.max
  IN  WholeScope(Loop(Len(offsets), Done(r, v), LAMBDA acc, k :
        IF \/ acc.r.i # offsets[k]
           \/ end(acc, k) < acc.r.i
           \/ end(acc, k) > acc.r.max
          THEN [acc EXCEPT !.ok = FALSE]
          ELSE InScope(acc, elem, k, Scope(acc.r, end(acc, k) - acc.r.i))))

VarElems(elem, v, table) ==
  IF table.ok THEN FromOffsets(elem, v, table.v, table.r) ELSE Fail(table.r, v)

VarSeries(t, v, r) ==
  VarElems(t.elem, v, ReadVarSeriesOffsets(t.len, r))

(***************************************************************************)
(* In fuzzing mode there are no offsets: part k of parts ts may use all    *)
(* that is left but what the parts after it need.                          *)
(***************************************************************************)
ReserveNothing(ts, k) == 0   \* a mutated form

LengthLeftOver(ts, k) == Sum(Each(Len(ts) - k, LAMBDA m : Lens(ts[k + m]).fuzzMin))

FuzzParts(ts, v, r) ==
  Loop(Len(ts), Done(r, v), LAMBDA acc, k :
    LET left == LengthLeftOver(ts, k)
    IN  IF GetBytesSpan(acc.r) < left THEN [acc EXCEPT !.ok = FALSE]
        ELSE InScope(acc, ts[k], k, EnableFuzzMode(Scope(acc.r, GetBytesSpan(acc.r) - left))))

(***************************************************************************)
(* Vectors and lists.                                                      *)
(***************************************************************************)
HandleVector(t, v, r) ==
  CASE Lens(t.elem).isFixed -> FixedSeries(t.elem, v, t.len, r)
    [] ~Lens(t.elem).isFixed /\ IsFuzzMode(r) -> FuzzParts(Each(t.len, LAMBDA k : t.elem), v, r)
    [] OTHER -> VarSeries(t, v, r)

\* The cells of a slice of n elements, filled by Fill.
Filling(t, slice, n, Fill(_)) ==
  LET resized == MutateLenOrAllocNew(t.elem, slice, n)
  IN  Refilled(resized, Fill(resized.cells))

FixedSlice(t, v, r) ==
  LET size == Lens(t.elem).fixed
      n    == IF size = 0 THEN 0 ELSE GetBytesSpan(r) \div size
  IN  IF size = 0 \/ TooLong(n, t.limit) THEN Fail(r, v)
      ELSE Filling(t, v, n, LAMBDA cells : FixedSeries(t.elem, cells, n, r))

SliceFrom(t, v, table) ==
  IF ~table.ok THEN Fail(table.r, v)
  ELSE Filling(t, v, Len(table.v), LAMBDA cells : FromOffsets(t.elem, cells, table.v, table.r))

VarSlice(t, v, r) == SliceFrom(t, v, ReadVarSliceOffsets(t, r))

FuzzSlice(t, v, r) ==
  Reading(r, PrefixLen, v, LAMBDA x, s :
    LET e    == Lens(t.elem)
        span == FuzzSpan(s, t.limit * e.fuzzMax)
        n    == IF span = 0 THEN 0 ELSE PickLength(x, span) \div e.fuzzMin
    IN  Filling(t, v, n, LAMBDA cells :
          IF e.isFixed THEN FixedSeries(t.elem, cells, n, s)
          ELSE FuzzParts(Each(n, LAMBDA k : t.elem), cells, s)))

HandleList(t, v, r) ==
  CASE IsFuzzMode(r)        -> FuzzSlice(t, v, r)
    [] Lens(t.elem).isFixed /\ ~IsFuzzMode(r) -> FixedSlice(t, v, r)
    [] OTHER                -> VarSlice(t, v, r)

(***************************************************************************)
(* Containers.  processFixedPart decodes the fixed-size fields in place    *)
(* and collects the offsets; decodeDynamicPart decodes the others, each up *)
(* to the next offset, and leaves it to its caller to notice bytes that    *)
(* the last one has not read.                                              *)
(***************************************************************************)
AddOffset(acc, res) ==
  IF res.ok THEN [acc EXCEPT !.r = res.r, !.offsets = Append(@, res.v)]
  ELSE [acc EXCEPT !.ok = FALSE]

CheckIndex(acc, i) == IF acc.ok /\ acc.r.i # i THEN [acc EXCEPT !.ok = FALSE] ELSE acc

processFixedPart(t, v, r) ==
  Loop(Len(t.fields), [ok |-> TRUE, r |-> r, v |-> v, offsets |-> <<>>], LAMBDA acc, k :
    LET f == t.fields[k]
    IN  IF Lens(f).isFixed THEN CheckIndex(InPlace(acc, f, k), acc.r.i + Lens(f).fixed)
        ELSE CheckIndex(AddOffset(acc, Reading(acc.r, OffsetLen, <<>>, LAMBDA b, s :
                                         Done(s, FromBytes(b)))),
                        acc.r.i + OffsetLen))

IsAtOffset(offset, r) == r.i = offset

decodeDynamicPart(t, fixedPart) ==
  LET offsets == fixedPart.offsets
      fields  == SelectSeq(Each(Len(t.fields), LAMBDA k : k), LAMBDA k : ~Lens(t.fields[k]).isFixed)
  IN  Loop(Len(fields), fixedPart, LAMBDA acc, m :
        LET n == (IF m < Len(fields) THEN offsets[m + 1] ELSE acc.r.max) - offsets[m]
        IN  IF n < 0 \/ ~IsAtOffset(offsets[m], acc.r) \/ n > GetBytesSpan(acc.r)
              THEN [acc EXCEPT !.ok = FALSE]
              ELSE InScope(acc, t.fields[fields[m]], fields[m], Scope(acc.r, n)))

Result(acc) == [ok |-> acc.ok, r |-> acc.r, v |-> acc.v]

\* (A loop that starts with an error does nothing.)
HandleContainer(t, v, r) ==
  IF IsFuzzMode(r) THEN FuzzParts(t.fields, v, r)
  ELSE Result(decodeDynamicPart(t, processFixedPart(t, v, r)))

\* A nil pointer is given an object to point at.
HandlePtr(t, v, r) ==
  [Handle(t.elem, IF v = <<>> THEN Zero(t.elem) ELSE v[1], r) EXCEPT !.v = <<@>>]

Handle(t, v, r) ==
  CASE t.kind = "uint"        -> HandleUint(t, v, r)
    [] t.kind = "bool"        -> HandleBool(t, v, r)
    [] t.kind = "bytes"       -> HandleBytes(t, v, r)
    [] t.kind = "bytesN"      -> HandleBytesN(t, v, r)
    [] t.kind = "bitlist"     -> HandleBitlist(t, v, r)
    [] t.kind = "bitvector"   -> HandleBitvector(t, v, r)
    [] t.kind = "basicVector" -> HandleBasicVector(t, v, r)
    [] t.kind = "basicList"   -> HandleBasicList(t, v, r)
    [] t.kind = "vector"      -> HandleVector(t, v, r)
    [] t.kind = "list"        -> HandleList(t, v, r)
    [] t.kind = "container"   -> HandleContainer(t, v, r)
    [] t.kind = "ptr"         -> HandlePtr(t, v, r)
==============================================================================
