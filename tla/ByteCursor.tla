----------------------------- MODULE ByteCursor -----------------------------
(***************************************************************************)
(* What a scoped byte reader promises, without counters relative to a      *)
(* scope: one cursor over the absolute positions of an object of "total"   *)
(* bytes, and a stack of nested intervals.  A nested decoder opens an      *)
(* interval at the cursor, moves the cursor inside it, and hands it back.  *)
(* Closing an interval never moves the cursor.  The object is accepted     *)
(* only with the cursor at its very end.                                   *)
(***************************************************************************)
EXTENDS Naturals, Sequences

VARIABLES
  total,    \* the length the caller announced
  cursor,   \* the absolute position of the next byte
  spans,    \* the open intervals, innermost last: <<from, to>>
  outcome   \* "running", "failed" or "accepted"

vars == <<total, cursor, spans, outcome>>

Innermost == spans[Len(spans)]

Init ==
  /\ total \in Nat
  /\ cursor = 0
  /\ spans = << <<0, total>> >>
  /\ outcome = "running"

Advance(n) ==
  /\ outcome = "running"
  /\ cursor + n <= Innermost[2]
  /\ cursor' = cursor + n
  /\ UNCHANGED <<total, spans, outcome>>

Open(n) ==
  /\ outcome = "running"
  /\ cursor + n <= Innermost[2]
  /\ spans' = Append(spans, <<cursor, cursor + n>>)
  /\ UNCHANGED <<total, cursor, outcome>>

Close ==
  /\ outcome = "running"
  /\ Len(spans) > 1
  /\ spans' = SubSeq(spans, 1, Len(spans) - 1)
  /\ UNCHANGED <<total, cursor, outcome>>

Accept ==
  /\ outcome = "running"
  /\ Len(spans) = 1
  /\ cursor = total
  /\ outcome' = "accepted"
  /\ UNCHANGED <<total, cursor, spans>>

Fail ==
  /\ outcome = "running"
  /\ outcome' = "failed"
  /\ UNCHANGED <<total, cursor, spans>>

Next ==
  \/ \E n \in 0..total : Advance(n) \/ Open(n)
  \/ Close
  \/ Accept
  \/ Fail

Spec == Init /\ [][Next]_vars
=============================================================================
