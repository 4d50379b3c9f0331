# zssz: a verification project

[zssz](../src/README.md) is a Go library for SSZ, the serialization and hashing
format of Ethereum's consensus layer. It derives, by reflection, a structure
for a Go type, and encodes, decodes, checks and hashes objects of that type
through unsafe pointers. This directory holds TLA+ models of its code, TLC runs
that check them, and proofs checked by TLAPS. `PROJECT.json` lists the parts,
the runs, the mutated definitions that show that each property can fail, the
lines of the source each definition models, the disagreements found and the
hazards the properties are for.

## 1. The system

The library runs on its caller's goroutine and keeps no state between calls but
the caller's object and one global table. But for that table, what is hard about
it is not concurrency but long chains of dependent arithmetic on untrusted bytes:
offsets, nested scopes, lengths in bytes against limits in elements, and memory
that is used again.

| Component | State | Operations | Talks to |
|---|---|---|---|
| `zssz.go`, the API | none | Decode, DryCheck, DecodeFuzzBytes, SizeOf, Encode, HashTreeRoot, SigningRoot, Pretty | opens a scope of the announced length on a `DecodingReader`, calls the type's structure, compares the index with the length |
| `dec/`, DecodingReader | index, maximum, mode; an `io.LimitReader` with a count of its own | Read*, Skip, ReadOffset, Scope, UpdateIndexFromScoped, EnableFuzzMode | the caller's `io.Reader`; nested readers share the stream, and hand their index back by addition |
| `types/elem_*_series.go`, `basic_series.go` | local: offsets, index of the element | encode, decode, check a series, from offsets or in fuzzing mode | element callbacks, in a scope each |
| `types/ssz_*.go`, the types | lengths and limits, computed once | Decode, DryCheck, Encode, SizeOf, HashTreeRoot, lengths | one another, as declared by the Go type |
| `bitfields/` | none | GetBit, SetBit, IsZeroBitlist, checks and lengths of bitlists and bitvectors | the programs that build bitfields; the types |
| `enc/`, EncodingWriter | bytes written | Write, WriteOffset | the caller's `io.Writer`; panics on an offset over 32 bits |
| `merkle/`, `htr/` | `tmp`, one pending node per level; the global `ZeroHashes` | Merkleize, ConstructProof, GetDepth, InitZeroHashes, Combi, MixIn | leaf callbacks |
| `util/ptrutil` | slice headers of the caller's object | MutateLenOrAllocNew, AllocateSpace | the Go heap |
| `types/factory.go`, struct tags, `lists/`, BitLen and Limit methods | none | the SSZ type of a Go type: omitted, embedded and squashed fields, limits | reflection, once per type |
| `util/endianness` | a constant of the machine | the byte order of numbers in memory; reversal of chunks | basic series, roots |
| `pretty/` | none | output for a reader | |

The behaviours that are hard to test, and what makes the component correct:

* **Reader.** Two independent counts of the same bytes (the index of every
  scope, told afterwards; the count of every LimitReader, at once) must agree at
  every depth and whatever short reads the stream makes. Correct: scopes nest,
  an error of the input means that bytes are missing, acceptance means that
  exactly the announced bytes were taken, every call returns.
* **Series and containers.** Offsets are read long before they are used.
  Correct: whatever they are, elements never share bytes or leave the scope; an
  accepted input is the only encoding of its object.
* **Dry checks.** They repeat all checks of Decode in separate code. Correct:
  they give the same answer.
* **Encoding.** Offsets come from SizeOf in a first pass, bytes from Encode in
  a second. Correct: the two agree and Decode reads the result back.
* **Fuzzing mode.** No offsets; budgets are kept by subtracting minimum lengths.
  Correct: any input of enough bytes is an object, and a valid one.
* **Memory.** Slices with enough capacity are used again, errors leave an object
  half-decoded. Correct: what was there before does not show.
* **Merkleization.** Bit tricks with special cases at 0, 1 and powers of two, in
  logarithmic space. Correct: the root is that of the full balanced tree.
* **ZeroHashes.** One global table, replaced and filled again by InitZeroHashes
  while other goroutines may read it. Correct: a call that runs while nothing
  fills the table gets the right root, and one that needs no entry always does.
* **The factory.** The offset of a squashed field is the sum of the offsets on
  its way. Correct: a struct is encoded as if what is squashed into it were
  written out, and no call touches another field or one that is omitted.
* **Writers.** An io.Writer may take part of the bytes. Correct: `Written()` is
  the number it took.
* **Byte order.** On a big-endian machine series of numbers are read and written
  one by one and leaves are reversed. Correct: it does not show.

## 2. The modules

| Module | Models | How |
|---|---|---|
| `DecodingReader` | `dec/decoder.go`, and the ends of Decode and DryCheck in `zssz.go` | a state machine; one action per method; `Deliver` and `DeliverEOF` are the answers of the stream inside the loops of Read and `io.CopyN` |
| `ByteCursor` | the abstract specification of it | one cursor over absolute positions, a stack of intervals |
| `DecodingReader_proofs` | | the theorems about it |
| `VarSeries` | `types/elem_var_size_series.go`, decoding and dry-checking | a state machine; one action per iteration; the element's handler is any that reads some of its scope |
| `VarSeries_proofs` | | the theorems about it |
| `ContainerType` | what NewSSZContainer computes from the fields | a record with partial sums as functions |
| `Container` | `types/ssz_container.go`, decoding and dry-checking, and `DecodeVarSeriesFuzzMode` | a state machine; one action per field and pass; the field's handler is any that reads some of its scope, or fails |
| `OffsetEncoding` | the two passes of SSZContainer.Encode and EncodeVarSeries, `enc/encoder.go` | a state machine; one action per Write, with any answer of the `io.Writer` |
| `ContainerCodec` | the two together: any bytes are decoded, or those that were written | composes `OffsetEncoding` and `Container` |
| `Container_proofs` | | the theorems about the decoder, and about what NewSSZContainer computes |
| `ContainerCodec_proofs` | | the theorems about the encoder, and about the two together |
| `ZeroHashes` | `htr/hash_tree_root.go`: the table, init() and InitZeroHashes | a state machine; two actions per entry, since 32 bytes are not stored at once |
| `Merkleize` | `merkle/merkleize.go`, with InitZeroHashes running at any time | a state machine; one action per iteration of `merge`; composes `ZeroHashes` |
| `SharedLemmas` | | lemmas about shifts, remainders, induction and sequences put one after the other that the proofs of several parts cite |
| `Merkleize_proofs` | | the theorems about the table, the roots, the branches and what each is for |
| `SSZTypes` | the structures of `types/`, their lengths | records and functions of them |
| `StructFields` | the fields of a container: tags, squashing, pointer functions | functions from the types of a struct's fields to the container |
| `StructFields_proofs` | | the theorem about them |
| `Factory` | `types/factory.go`, limits | functions from Go types to those structures, or to a refusal; `StructFields` at every struct |
| `Bitfields` | `bitfields/` | functions; declares the width of a byte, and `SSZTypes` builds on it |
| `Leaves` | basic values and their bytes in either byte order, the chunks of a series, the leaves of a bitlist | functions; what of the codec modules needs no recursion over types |
| `Leaves_proofs` | | the theorems about `Bitfields` and `Leaves` |
| `SSZEncoding` | SizeOf, Encode, WriteOffset | functions |
| `SSZDecoding` | Decode in both modes, DryCheck, MutateLenOrAllocNew | functions from the bytes and the object to the result, the reader and the object as they are left, by an error too |
| `SSZRoot` | HashTreeRoot, SigningRoot, MixIn | functions to symbolic hashes |
| `BigEndian` | the big-endian branches of basic series and roots | functions, from the memory of a big-endian machine |
| `Codec` | `zssz.go`: any sequence of calls on one object, and SetBit by the program | a state machine, one action per call; composes the function modules above |
| `GoObject` | the object in Go memory, behind the pointer functions of its fields | `Codec` with the memory beside it |
| `MCContainerCodec`, `MCCodec`, `MCGoObject` | | types, objects and inputs for TLC |

**DecodingReader.** `idx[k]`, `max[k]` and `lim[k]` are `i`, `max` and the
LimitReader's `N` of the reader at nesting level k, `top` the innermost one. The
clients are any sequence of reads, skips and scopes, which includes all that the
decoders do. `op` and `need` are the call that is running and the bytes it still
waits for; `Deliver(v)` is one answer of the stream of v bytes, counted by all
LimitReaders on the way. `base[k]` (where a scope was opened) is history and
decides nothing. `uint64` is `0..MaxUint`, with wrap-around; `int64` is the
conversion `Int64`. `EOFWithData` allows a stream that returns io.EOF along with
its last bytes, `LongSkips` allows a skip of more bytes than an int64 counts.

**VarSeries.** `kind` chooses between a list (ReadVarSliceOffsets) and a vector
(ReadVarSeriesOffsets). The offsets are any values; `Element` is one iteration of
`decodeVarSeriesFromOffsets` or its dry-checking twin, which are the same code
but for the callback. `begins` and `ends` are history.

**Container.** `i`, `fixedI`, `offsets` and `leftOver` are the variables of
processFixedPart, decodeDynamicPart and decodeVarSizeFuzzmode; `fi` counts the
fields each loop has come past, `next` is the second loop's index into the
offsets. A container with offsets has a scope of its own and starts at its index
0; one without may start anywhere in its parent's. `begins` and `ends` are
history.

**OffsetEncoding.** A field's Encode writes as many bytes as its SizeOf says
(what `SizeMatches` shows of the types), in any number of steps, and `Write` adds
what the writer took, also with an error. `WriteOffset` panics on offsets over
32 bits (`MaxWord`). `written` and `placed` are history. In `ContainerCodec`,
`HandOver` gives the bytes that were written to a reader whose scope is exactly
their number, and the fields' handlers then read what their encoders wrote.

**Merkleize.** `h`, `j`, `i` and `tmp` are the variables of the code. A hash is
the hash function and what is hashed, a leaf its index, so that two nodes are
equal only if they are the same subtree. `Tree` is the reference, defined level
by level. The program calls InitZeroHashes from one goroutine, at most
`MaxInits` times after init(); Merkleize reads the table through the global
variable each time, ConstructProof remembers the table it copied its branch from
(`source`). A reader finds zeros in an entry not yet filled, and `Torn` in the one
that is being stored. `quiet` is history: the table has been that of the call's hash
function since the call began.

**The codec modules.** A type is a record with its kind and parameters, `Lens`
the lengths the constructors compute, `Handle(t, v, r)` what decoding or
checking does with the object `v` and the reader `r`. A slice has a length and
its cells up to the capacity, so that `MutateLenOrAllocNew` can be seen to use
cells again. Here the stream holds all the bytes that were announced (module
DecodingReader has the others), and the tree of a root is the balanced one
(module Merkleize shows that the code builds it). In `BigEndian` the memory of an
object holds the bytes of each number in reverse, and the branches of the code
work on that memory. The sizes of the format are
constants: the bits of a byte, the bytes of an offset, of a fuzzing length
prefix and of a chunk.

**Factory and GoObject.** A Go type is a term: a struct is the sequence of its
fields with their `ssz` flags, an array or slice says which of the methods BitLen
and Limit its type has. A pointer function is the path it goes, and squashing
concatenates paths. `mem` is the object as the program sees it, `dst` of `Codec` as
the library does: `Seen` and `Stored` go along the paths. Structs inside
pointers, arrays and slices omit and squash nothing.

## 3. The runs

All runs but the ones of section 4 pass.

| Run | Shows | Bounds |
|---|---|---|
| `DecodingReader.cfg` | scopes nest; the two counts agree; errors only for missing bytes; acceptance is exact; every call returns; the nested readers implement `ByteCursor` | `int64` up to 4, `uint64` up to 9, three levels, any announced length and stream |
| `DecodingReader_eof.cfg` | a skip, an oversized one too, fails only when bytes are missing, also on a stream that returns io.EOF with its data | as above |
| `VarSeries.cfg` | canonical series, elements apart, bounded room | offsets of 2 bytes with values up to 10, scopes up to 10 bytes, up to 4 elements of at least 3 bytes |
| `ContainerCodec.cfg` | fixed-size fields in place; variable-size fields apart; canonical containers; the fuzzing budget; every field written where its offset says; `Written()` after a failing writer; what is written is read back | containers of up to 3 fields of lengths 1 and 2, offsets of 2 bytes with values up to 9, scopes up to 8 bytes, sizes up to 2, a `uint32` up to 9, up to 1 byte written before |
| `Merkleize.cfg` | the root is that of the balanced tree when the table is quiet; leaves need no table; the table is filled in order; pending nodes are the complete subtrees; array bounds; branch entries whose subtree is full or empty | Merkleize and ConstructProof, all counts, limits and indices up to 9; with InitZeroHashes running, or another hash function, up to 4 |
| `Codec.cfg` | decoding is canonical; sizes; DryCheck agrees with Decode but for byte lists; fuzzing mode accepts any input, and makes valid objects; roots of bitlists; the byte order does not show | 26 types, one call, every input of up to 4 bytes; for the 12 types of the fuzzing properties also of 5 bytes of {0, 1, 2, 5, 7} |
| `Codec_again.cfg` | a call gives the same after any earlier call, also a failed one; an encoding decodes exactly if the object is valid; roots tell objects apart; the signing root; SetBit and IsZeroBitlist; squashed and omitted fields in memory | 14 Go types, 2 of them refused, two calls, every encoding of objects with 0 to 2 elements and spare capacity, and every input of up to 3 bytes of {1, 2, 7} |

Why the bounds are enough:

* The reader's arithmetic has one boundary, at the largest int64 and uint64;
  widths of 4 and 9 have it, and the proofs are for every width. Three levels
  have a scope with both a parent and a child.
* Two offsets are needed for an order, three for a middle one; values up to the
  scope's length and no multiple of the offset's size are included.
* A limit of 9 has powers of two on both sides, an even and an odd number of
  leaves at every level, and one more level than its largest power of two. A
  limit of 4 has levels below and above the one where padding starts, and each
  step of the fill falls between any two steps of the call.
* Three fields have a variable-size one before, between and after fixed-size
  ones, and three of variable size have a middle one. A word of 9 is passed by
  the offsets of three.
* In the codec runs a byte has 3 bits, an offset 1 byte, a prefix 1 byte and a
  chunk 2 bytes (4 in `Codec.cfg`, so that a chunk holds two numbers of two bytes
  for the byte orders to differ on). Then 4 or 5 bytes hold two offsets and two elements, a bitlist
  spans two bytes with its delimiter in either, a chunk is filled, half filled or
  left, an offset can be over the scope, and 8 bytes of output overflow an
  offset. The format's own sizes (8 bits, 4, 8 and 32 bytes) only move those
  cases further apart. The types nest two deep with every kind of element in
  every kind of series.

`FuzzFailsOnlyOnBits` and `DecodedIsValidButLists` say nothing of the types for
which section 4 shows that fuzzing mode has flaws, and name them: by
`TakesAnyBytes`, all but bitvectors with unused bits, bitlists with a limit that
is neither below the width of a byte nor a multiple of it, nor one less, and basic
lists; by `KeepsLimits`, all but lists whose elements differ so much in length
that the bytes of `limit` large ones hold more than `limit` small ones.

`LeavesNeedNoTable` and `quiet` in `RootCorrect` say what the library guarantees of
a racing InitZeroHashes, and no more: nothing keeps a root that needs padding and
is computed meanwhile from being wrong, and nothing says that it may not be.

`CHECK_DEADLOCK FALSE` is set where the system really stops: a decoder returns
after it has accepted or failed, and a program makes `MaxCalls` calls. The other
modules stutter at their end explicitly.

**Fairness.** `WF_vars(Stream)` in `DecodingReader`: the loop of Read and
`io.CopyN` ask the stream again as long as bytes are missing, so the next answer
is never put off by the code; that the stream answers at all, with bytes or with
an error, is the contract of `io.Reader`, which discourages returning nothing
and no error. Nothing else is assumed, and only `CallReturns` needs it.

## 4. Disagreements

Each has a run in which TLC finds the property violated by what the code does.

| Run | The code | What is said of it |
|---|---|---|
| `DecodingReader_anyreader.cfg` | `dec/decoder.go:88`: Read fails when the last bytes come along with io.EOF | `README.md:121`: Decode takes any io.Reader |
| `Merkleize_branch.cfg` | `merkle/merkleize.go:156`: a sibling subtree that is only partly there is missing from the proof | `merkle/merkleize.go:127`: ConstructProof builds a merkle-branch |
| `Codec_drycheck.cfg` | `types/ssz_bytes.go:95`: DryCheck does not know the limit of a byte list | `types/ssz_typ.go:48`, `README.md:27` |
| `Codec_fuzzlimit.cfg` | `types/ssz_list.go:120`: fuzzing mode makes lists over their limit | `README.md:27` |
| `Codec_bitlistroot.cfg` | `types/ssz_bitlist.go:151`: the delimiter is hashed when the last leaf is full | `types/ssz_bitlist.go:163` |

These have no run of their own:

* A Skip of 2^63 bytes or more (`dec/decoder.go:72`) skips nothing and succeeds,
  although the index moves on: `AcceptedExactly` fails with `LongSkips = TRUE`.
* Fuzzing mode refuses inputs that set unused bits of a bitvector or a bitlist
  (`types/ssz_bitvector.go:90`, `types/ssz_bitlist.go:115`) and some lengths of a
  basic list (`types/ssz_list_basic.go:100`), while `zssz.go:58` says that
  an error means that something is wrong with the reader; `TakesAnyBytes` names the types.
* MaxLen of a list (`types/ssz_list.go:46`) leaves out the offsets of its
  elements, so that it is not the maximum that `types/ssz_typ.go:41` calls it;
  nothing in the library decides by it.
* On a big-endian machine SSZBasicVector.Decode (`types/ssz_vector_basic.go:88`)
  passes the bytes of the array as the number of its elements and writes past it.
* The README's examples declare `Limit() uint32`; the interface of the code wants
  `uint64`. The compiler does not notice, the reflection of the factory does.
* `lists/list.go:4` says that lists without a limit can still be serialized;
  ReadListLimit refuses their type.
* The factory does not return for a Go type that contains a pointer to itself or
  a slice of itself.

## 5. The proofs

`DecodingReader_proofs` proves, for every width of an integer, nesting depth,
announced length and stream, `TypeOK`, `ScopesNest`, `LimitersAgree`,
`AcceptedExactly`, `SkipFailsOnlyIfShort`, `FailsOnlyIfShort` and the refinement
of `ByteCursor`. All of them assume `~LongSkips`, and `FailsOnlyIfShort` also
`~EOFWithData`: they are false otherwise, as section 4 says.

The properties are not inductive: they do not say where a scope starts. `IInv`
adds `Bookkeeping`: a scope starts where its parent's index stood, and as long as
nothing has failed, the innermost index is ahead of the stream by exactly the
bytes the running call waits for. From it every index is at most the length of
the stream, an int64, so that no sum in `checkedIndexUpdate` and
`UpdateIndexFromScoped` wraps around (`IndexExact`), which is the heart of
all the other steps. There is one lemma per action. The refinement needs the
invariant for the guards of `Advance` and `Open` and for `Close`, where the
cursor must stand still. `ScopesReturn` is an action property: while a scope is
open, nothing of the scopes around it changes, and when it is handed back, the
parent's index moves on by exactly the bytes that were taken, no more than the
scope's. This is the contract that the series and containers below build on,
where an element's or field's handler is one step that reads some of its scope.

`VarSeries_proofs` proves, for every size of an offset, limit, scope and
sequence of offsets, `TypeOK`, `ElementsApart`, `LengthBounded` and `Tiled`.
`IInv` adds `Phase` (where the index is in each phase) and `Chain` (every element
ended where the next offset points): the only link between an offset and the
bytes decoded for it is the comparison of the index, and the chain is what
accumulates from it.

`Container_proofs` proves, for every number and kind of fields, size of an
offset, scope, offsets and handlers, `TypeOK`, `FieldsInPlace`, `Tiled` and
`FuzzBudget`. A container's lengths are sums over its fields; a proof about sums
needs an induction unless the partial sums are part of the model, so
`ContainersAssumption` says of a container's type that its sums are sums (TLC
checks it of the containers of the run). `NewContainerAddsUp` discharges the
assumption: what `NewSSZContainer` computes from any fields meets it. The
running sums are defined by recursive functions; that a function with those values
exists is shown by giving it, and that the one chosen has them follows. `IInv` then says of each of the
three loops where in these sums it is (`InFixedPart`, `InDynamicPart`,
`InFuzzMode`): the index follows them in the fixed part, the ends of the
variable-size fields form a chain, and the bytes left are at least the rest.

`ContainerCodec_proofs` proves first, of the encoder alone, for every container, all
sizes and every behaviour of the writer, `OffsetsPointAtFields` and `WrittenTells`.
The offsets are written before anything they point at; `Spans` carries from the first pass
into the second that the offset after a field's is that field's size further on.

It then proves, for every container, all sizes of its fields and
every writer, that what was encoded is decoded from the same places and never refused
(`EncodedIsReadBack`, with `CodecTypeOK`). `CodecInv` has the invariants of both
sides and two links. `Extent` says that the lengths and offsets written so far
grow up to what has been written: each pass of the encoder adds one field to it,
so that no induction over the fields is needed afterwards. `Following` says that
the decoder's index stands where the encoder began the field it is about to
read, and that its scope is that field's size; of the decoder's bounds on
offsets it follows that none refuses what the encoder wrote.

`Merkleize_proofs` proves that Merkleize implements `ZeroHashes` (`TableOnly`: its
steps only read the table), `FilledInOrder`, and, for every height of the table,
count, limit and index, every set of hash functions and any number of calls of
InitZeroHashes at any time: `TypeOK` (no array is indexed outside its bounds, no
level is beyond the table), `PendingSubtrees`, `RootCorrect`,
`LeavesNeedNoTable` and `FullBranch`. The properties speak of the moment of a
return or of the next leaf; `MerkleInv` says of every state in between what they
need, in parts:

| Part | Says |
|---|---|
| `Arguments` | `i`, `j` and the arrays fit the arguments of the call |
| `Quietness` | as long as the call is quiet, the table is full and of its hash function, and the table that ConstructProof copies is the current one |
| `Copying` | the levels of the branch below `j` are copied from the table |
| `Pending` | for each bit of `i` that is 1, `tmp` holds the complete subtree that waits for its right sibling |
| `Merging` | during `merge`, `h` is the complete subtree of height `j` that ends with leaf `i`, and in the padding, if the call is quiet, the one that leaf `i` would be in |
| `Extending` | `tmp[j]` is the tree of height `j` over all leaves, if it needed no zero hash or the call is quiet |
| `Branching` | an entry of the branch is the sibling subtree once the last leaf of that has been merged in; so is, in a quiet call, one whose subtree has no leaves |

That `merge` keeps them rests on `Carry` (how one more leaf changes the bits of `i`),
on `NodeAbove` (a node of the tree is its children's hash) and on `ZeroSubtree` (an entry of
the table is a subtree without leaves). `DepthIsHeight` proves that the six steps of
`GetDepth`'s binary search find the height of the smallest tree of v leaves for every
v up to 2^64. It is where `LimitAssumption` comes from: the table has one entry for
each bit of a uint64 at most, and the limit is within the tree of that height.

Three theorems say what roots and branches are for, hashing being injective.
`BranchProves`: the leaf at the index and the branch hash to the root exactly when all
entries of the branch are sibling subtrees; one wrong entry is enough to fail.
`ProofsVerify` puts this together with `FullBranch` for every run of ConstructProof: if
the table is quiet and every sibling subtree is full or empty, the proof verifies, and
the partial subtrees of section 4 are what keeps the others from it. `RootsTellLeaves`:
trees of one height have the same root exactly when all of their leaves are the
same, zero chunks at the end included, which is why lists mix in their length.

No theorem here needs induction over data. What is true of every height, of a power
of two for one, is proved by induction over numbers: `SetInduction` takes the set of the
numbers a statement holds for, and the least one outside of it (`WFMin` of the
library) is a contradiction. The provers know nothing of 2^n for an n that is no
numeral; `SharedLemmas` takes it from the cardinality of the set of subsets of 1..n
(`FS_SUBSET`), whose bijections give 2^(n + 1) = 2 * 2^n.

`Leaves_proofs` proves, for bytes of any width and bitfields of any length, that
the bit arithmetic of `bitfields/` does what its callers take it for. `SetBitExact`:
SetBit changes the bit it is told to and no other. `SetBitKeepsLength`: below the
length of a bitlist, it leaves the delimiter where it is, also when it clears a bit of
the delimiter's byte. `BitlistCheckExact` and `BitvectorCheckExact`: the checks, of the
number of bytes and of the last byte only, accept exactly the bitfields they are meant to. For
bitvectors this says that no unused bit is set, for bitlists that there is a delimiter
and at most `limit` bits before it. `IsZeroBitlistExact`: the delimiter is all that
IsZeroBitlist leaves out. `BitlistsAreTheirBits`: two bitlists that pass the check and
have the same length and the same bits are the same bytes. All of them rest on two
lemmas: numbers are equal below 2^n exactly when their bits are (`SameBits`), and
BitIndex is the one shift that leaves a 1 (`BitIndexExact`).

It goes on to what is made of bits and numbers when they are encoded and hashed, for any
number of bytes in a chunk and in an element:

| Theorem | Says | For which property of the codec |
|---|---|---|
| `BytesWrittenBack`, `SeriesWrittenBack` | any bytes are the encoding of the number, or of the numbers, they are read as, which fit their type: there is one encoding | `CanonicalRoundTrip` |
| `NumberReadBack`, `SeriesReadBack` | a number, or a series of them, is read back from its bytes, modulo what fits | `EncodedDecodes` |
| `ByteOrderIrrelevant` | a big-endian machine that turns its chunks around, element by element, has the leaves of a little-endian one, whenever a chunk holds whole elements | `EndiannessIrrelevant` |
| `ChunksDistinguish`, `SeriesLeavesDistinguish`, `BitlistLeavesDistinguish` | of series of one length that differ, the leaves differ | `RootsDistinguish`, with `RootsTellLeaves` |
| `BitlistLeavesExact` | a bitlist's leaves are those of its bits alone exactly when its last chunk is padded or its delimiter has a byte of its own | `PaddedBitlistRoot` |
| `BitlistFits` | a bitlist that the check accepts has no more leaves than the tree of its limit | that Merkleize does not panic |

`BitlistLeavesExact` is sharper than the run: it says for which lengths exactly section 4's
delimiter is hashed. `BitlistLeavesDistinguish` says that even then no two bitlists of
one length share their leaves. The proofs rest on one lemma about sequences of the same
length put one after the other (`Flattened`: where each element goes), and on one
about reading a number digit by digit: what is left of x after k bytes is x divided
by 2^(ByteBits * k).

`StructFields_proofs` proves one step of the factory, from the types of a struct's fields
to its container (`FieldsApart`). The container has a field for each Go field that
is not omitted, those of a squashed container in its place, and no other; and if within
each squashed container the pointer functions lead to places that are apart and in the
order of memory, so do those of the new container: of two paths neither goes on from
where the other ends. The factory applies this step from the innermost structs outwards;
it is what `ObjectInMemory` and `SquashedInline` rest on. The proof needs what
putting sequences of any lengths together does to an order (`FlattenInOrder`).

Left to TLC:

* `CallReturns`: liveness under fairness.
* All properties of `Codec` and `GoObject` as they are stated, of whole types. The types
  nest to any depth, so that what decodes, encodes, measures and hashes them is defined by
  RECURSIVE operators. tlapm has no SMT backend for a module that reaches one, and
  a proof would be an induction over types. Proved is what each case of it
  does at one level: bitfields, basic series, leaves, containers and their offsets,
  the fields of a struct.

## 6. Not modelled

* Addresses and their arithmetic, garbage collection and slices that share cells.
  In particular the big-endian SSZBasicVector.Decode, whose writes go past the
  array.
* Go types that contain themselves, and the signatures of BitLen and Limit: a Go
  type is a finite term that has the method or has it not.
* Fields that are omitted or squashed in structs inside of pointers, arrays and
  slices: what an omitted field of a reused list element holds does not show here.
* uint64 overflow in the lengths of types with huge limits.
* Several goroutines that call InitZeroHashes at once, and hash functions that
  keep state.
* Pretty printing.

## 7. The plan

Done: the reader, series, containers in both directions, the codec with all types
and both byte orders, bitfields, merkleization with the table of zero hashes, and
the factory; proofs of every invariant that a run checks of a module that is not
recursive over types, and of what the recursive ones do at one level. Open, keeping
to a dozen runs (a new module's run takes the place of one that asks less, or is
merged with it):

1. `Memory`: slices that share cells, decoded into one after the other, and
   omitted fields of list elements.
2. Proofs: a step of `Codec`'s operators at a time, in the manner of
   `StructFields_proofs`: what `Lens` of a series or container says of the encodings of
   its parts.
