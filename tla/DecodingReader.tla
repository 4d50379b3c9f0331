--------------------------- MODULE DecodingReader ---------------------------
(***************************************************************************)
(* dec/decoder.go: the reader every SSZ decoder reads through, nested the  *)
(* way Decode and the container and series decoders nest it.               *)
(*                                                                         *)
(* Two accounts are kept of the same bytes.  A DecodingReader counts in i  *)
(* what it has handed out, relative to its own scope, and is only told     *)
(* afterwards, by UpdateIndexFromScoped, what a nested scope handed out.   *)
(* The chain of io.LimitReaders below it counts the same bytes on its own, *)
(* in every level at once, while they are taken from the stream.           *)
(*                                                                         *)
(* Level 1 is the scope Decode opens on the reader of NewDecodingReader    *)
(* (which has the whole uint64 range and is never read from); level k+1    *)
(* is nested in level k, and "top" is the one being decoded.  The clients  *)
(* (the decoders of the types) are any sequence of reads, skips and        *)
(* scopes; io.Reader, io.LimitReader and io.CopyN are external.            *)
(***************************************************************************)
EXTENDS Integers

CONSTANTS
  MaxInt,       \* the largest int64; uint64 counts to MaxUint
  Depth,        \* bound on the nesting of scopes
  EOFWithData,  \* does the stream return io.EOF along with its last bytes?
  LongSkips     \* may a decoder skip more than MaxInt bytes at once?

ASSUME MaxIntAssumption == MaxInt \in Nat \ {0}
ASSUME DepthAssumption  == Depth \in Nat \ {0}
ASSUME EOFAssumption    == EOFWithData \in BOOLEAN
ASSUME SkipAssumption   == LongSkips \in BOOLEAN

VARIABLES
  bytesLen,   \* the length the caller of Decode announced
  streamLen,  \* the number of bytes the io.Reader really holds
  at,         \* bytes taken from the stream so far
  top,        \* the innermost open scope
  idx,        \* DecodingReader.i, by level
  max,        \* DecodingReader.max, by level
  lim,        \* io.LimitedReader.N, by level
  base,       \* position in the stream where the level was opened (history)
  op,         \* the call in progress: "none", "Read" or "Skip"
  need,       \* bytes that call still waits for
  status      \* "running"; the cause of an error; or "accepted"

vars == <<bytesLen, streamLen, at, top, idx, max, lim, base, op, need, status>>

Levels   == 1..Depth
MaxUint  == 2 * MaxInt + 1
Uint     == 0..MaxUint
Wrap(x)  == x % (MaxUint + 1)
Int64(x) == IF x > MaxInt THEN x - (MaxUint + 1) ELSE x

Idle == status = "running" /\ op = "none"

Fail(cause) ==
  /\ status' = cause
  /\ UNCHANGED <<bytesLen, streamLen, at, top, idx, max, lim, base, op, need>>

Init ==
  /\ bytesLen \in Uint
  /\ streamLen \in 0..MaxInt
  /\ at = 0
  /\ top = 1
  /\ idx = [k \in Levels |-> 0]
  /\ max = [k \in Levels |-> IF k = 1 THEN bytesLen ELSE 0]
  /\ lim = [k \in Levels |-> IF k = 1 THEN Int64(bytesLen) ELSE 0]
  /\ base = [k \in Levels |-> 0]
  /\ op = "none"
  /\ need = 0
  /\ status = "running"

(***************************************************************************)
(* Mutated forms of the operators below, used to show that the properties  *)
(* can fail.                                                               *)
(***************************************************************************)
OffByOneSpan           == max[top] - idx[top] + 1
UncheckedFits(v)       == TRUE
LimitTopOnly(k)        == k = top
NeverSurvives(o, left) == FALSE
HangOnEOF              == FALSE
CloseByMax             == Wrap(idx[top - 1] + max[top])
CloseForgetting        == idx[top - 1]
CloseBySpan            == idx[top - 1] + idx[top] - max[top]

GetBytesSpan == max[top] - idx[top]

(***************************************************************************)
(* checkedIndexUpdate: the index moves before a byte is read.              *)
(***************************************************************************)
FitsScope(v) == v <= max[top]

checkedIndexUpdate(o, n) ==
  LET v == Wrap(idx[top] + n) IN
  \/ /\ ~FitsScope(v)
     /\ Fail("scope")
  \/ /\ FitsScope(v)
     /\ idx' = [idx EXCEPT ![top] = v]
     /\ op' = o
     /\ need' = n
     /\ UNCHANGED <<bytesLen, streamLen, at, top, max, lim, base, status>>

(***************************************************************************)
(* Read of n > 0 bytes (ReadByte, ReadUint16, ReadUint32, ReadUint64 and   *)
(* ReadOffset are reads of a fixed n) and Skip.  Zero bytes change nothing *)
(* in either.                                                              *)
(***************************************************************************)
Read(n) == Idle /\ checkedIndexUpdate("Read", n)
Skip(n) == Idle /\ checkedIndexUpdate("Skip", n)

(***************************************************************************)
(* A Skip of more bytes than an int64 counts.  Only SSZBytes.DryCheck asks *)
(* for one, of everything its scope has left.  io.CopyN is told a negative *)
(* number, copies nothing and reports nothing.                             *)
(***************************************************************************)
LongSkip ==
  /\ LongSkips
  /\ Idle
  /\ GetBytesSpan > MaxInt
  /\ idx' = [idx EXCEPT ![top] = max[top]]
  /\ UNCHANGED <<bytesLen, streamLen, at, top, max, lim, base, op, need, status>>

(***************************************************************************)
(* One Read of the underlying stream, through every LimitReader up to the  *)
(* top level: it returns v bytes, fewer than asked for if it likes.  (No   *)
(* bytes and no error is a stuttering step.)  An error that comes along    *)
(* with the bytes ends the loop of Read whatever it has collected; the     *)
(* io.CopyN of Skip only reports it when bytes are missing.                *)
(***************************************************************************)
Counted(k)        == k <= top
Survives(o, left) == o = "Skip" /\ left = 0

Deliver(v) ==
  /\ status = "running"
  /\ op # "none"
  /\ v <= need
  /\ v <= streamLen - at
  /\ \A k \in 1..top : v <= lim[k]
  /\ at' = at + v
  /\ lim' = [k \in Levels |-> IF Counted(k) THEN lim[k] - v ELSE lim[k]]
  /\ need' = need - v
  /\ \/ /\ op' = IF need' = 0 THEN "none" ELSE op
        /\ status' = status
     \/ /\ EOFWithData
        /\ at' = streamLen
        /\ IF Survives(op, need')
             THEN op' = "none" /\ status' = status
             ELSE op' = op     /\ status' = "io"
  /\ UNCHANGED <<bytesLen, streamLen, top, idx, max, base>>

AtEOF == at = streamLen \/ \E k \in 1..top : lim[k] <= 0

DeliverEOF ==
  /\ status = "running"
  /\ op # "none"
  /\ AtEOF
  /\ Fail("io")

(***************************************************************************)
(* Scope opens a nested reader on the next count bytes;                    *)
(* UpdateIndexFromScoped closes it once its decoder has returned.          *)
(***************************************************************************)
Scope(count) ==
  /\ Idle
  /\ top < Depth
  /\ \/ /\ GetBytesSpan < count
        /\ Fail("scope")
     \/ /\ GetBytesSpan >= count
        /\ top' = top + 1
        /\ idx' = [idx EXCEPT ![top + 1] = 0]
        /\ max' = [max EXCEPT ![top + 1] = count]
        /\ lim' = [lim EXCEPT ![top + 1] = Int64(count)]
        /\ base' = [base EXCEPT ![top + 1] = base[top] + idx[top]]
        /\ UNCHANGED <<bytesLen, streamLen, at, op, need, status>>

IndexWithScoped == Wrap(idx[top - 1] + idx[top])

UpdateIndexFromScoped ==
  /\ Idle
  /\ top > 1
  /\ top' = top - 1
  /\ idx' = [idx EXCEPT ![top - 1] = IndexWithScoped, ![top] = 0]
  /\ max' = [max EXCEPT ![top] = 0]
  /\ lim' = [lim EXCEPT ![top] = 0]
  /\ base' = [base EXCEPT ![top] = 0]
  /\ UNCHANGED <<bytesLen, streamLen, at, op, need, status>>

(***************************************************************************)
(* The end of zssz.Decode and zssz.DryCheck: the outermost decoder has     *)
(* returned nil, and the bytes it read are compared with bytesLen.         *)
(***************************************************************************)
ReadAll == idx[1] = bytesLen

Finish ==
  /\ Idle
  /\ top = 1
  /\ Fail(IF ReadAll THEN "accepted" ELSE "length")

Stream == DeliverEOF \/ \E v \in 1..MaxInt : Deliver(v)

Next ==
  \/ \E n \in 1..MaxInt : Read(n) \/ Skip(n)
  \/ LongSkip
  \/ \E count \in Uint : Scope(count)
  \/ UpdateIndexFromScoped
  \/ Finish
  \/ Stream

(***************************************************************************)
(* Read and CopyN ask again until they have what they asked for or an      *)
(* error, and the stream answers: it does not return "nothing yet" forever.*)
(***************************************************************************)
Spec == Init /\ [][Next]_vars /\ WF_vars(Stream)

(***************************************************************************)
(* Properties.                                                             *)
(***************************************************************************)

\* The shape of the reader's state.
TypeOK ==
  /\ bytesLen \in Uint
  /\ streamLen \in 0..MaxInt
  /\ at \in 0..streamLen
  /\ top \in Levels
  /\ idx \in [Levels -> Uint]
  /\ max \in [Levels -> Uint]
  /\ lim \in [Levels -> Int]
  /\ base \in [Levels -> Nat]
  /\ op \in {"none", "Read", "Skip"}
  /\ need \in 0..MaxInt
  /\ status \in {"running", "scope", "io", "length", "accepted"}

\* No decoder leaves the scope its parent gave it: every open scope lies, in
\* absolute positions, inside all the scopes around it, its index is inside
\* it, and no byte beyond the innermost one has been taken from the stream
\* (Scope's check of the parent's span, checkedIndexUpdate, and
\* UpdateIndexFromScoped together).
ScopesNest ==
  /\ \A k \in 1..top : idx[k] <= max[k]
  /\ \A j, k \in 1..top : j <= k => base[k] + max[k] <= base[j] + max[j]
  /\ at <= base[top] + max[top]

\* The two accounts agree: what is left in every io.LimitReader of the chain
\* is what its DecodingReader has left to hand out, less what the scopes
\* nested in it took, so no LimitReader ever cuts short a read that
\* checkedIndexUpdate let through.
LimitersAgree ==
  \A k \in 1..top : lim[k] = Int64(max[k]) - (at - base[k])

\* Decode and DryCheck report an error of the input only when the stream holds
\* fewer bytes than the caller announced.
FailsOnlyIfShort == status = "io" => streamLen < bytesLen

\* Even on a stream that returns io.EOF along with its last bytes, a Skip (all
\* that DryCheck does with most types) fails only when bytes are missing.
SkipFailsOnlyIfShort == status = "io" /\ op = "Skip" => streamLen < bytesLen

\* Decode and DryCheck accept only after exactly the announced bytes were taken
\* from the stream, however they were spread over nested scopes: the sum that
\* UpdateIndexFromScoped builds up is the real one.
AcceptedExactly == status = "accepted" => at = bytesLen

\* Every Read and every Skip comes back, with the bytes or with an error.
CallReturns == op # "none" ~> (op = "none" \/ status # "running")

\* The nested, relative counters implement one cursor over absolute positions.
Cursor ==
  INSTANCE ByteCursor WITH
    total   <- bytesLen,
    cursor  <- base[top] + idx[top],
    spans   <- [k \in 1..top |-> <<base[k], base[k] + max[k]>>],
    outcome <- IF status \in {"running", "accepted"} THEN status ELSE "failed"

\* Refinement: every step of the nested readers is a step of the single cursor
\* or leaves it alone (scopes are opened at the cursor and closing one,
\* UpdateIndexFromScoped, does not move it).
RefinesCursor == Cursor!Spec
=============================================================================
