----------------------------- MODULE StructFields -----------------------------
(***************************************************************************)
(* types/ssz_container.go: the fields of the container that a Go struct    *)
(* becomes.  A field may be omitted, and a field that is a struct itself   *)
(* may be squashed: its fields take its place.                             *)
(*                                                                         *)
(* A pointer function (FieldPtrFn) is the path it goes: the positions of   *)
(* Go fields, from the outermost struct inwards.  Different fields have    *)
(* different offsets.                                                      *)
(***************************************************************************)
EXTENDS Integers, SequencesExt

\* The factory's error.
Refused      == [kind |-> "refused"]
IsRefused(t) == t.kind = "refused"

\* A field of a container, and where it is in memory.
ContainerField(ssz, at) == [ssz |-> ssz, at |-> at]

Wrap(field, k) == [field EXCEPT !.at = <<k>> \o @]

\* a mutated form of SquashFields: the last one's pointer function for all of them
SquashFieldsAtLast(ssz, k) ==
  [m \in 1..Len(ssz.fields) |-> Wrap(ContainerField(ssz.fields[m], ssz.at[Len(ssz.fields)]), k)]

\* The fields of a container in Go field k.
SquashFields(ssz, k) ==
  [m \in 1..Len(ssz.fields) |-> Wrap(ContainerField(ssz.fields[m], ssz.at[m]), k)]

\* a mutated form of ToBeSquashed
OnlyIfTagged(f)   == "squash" \in f.flags

HasOmitFlag(f)    == "omit" \in f.flags
ForceSquash(f)    == "squash" \in f.flags
ToBeSquashed(f)   == f.anonymous \/ ForceSquash(f)

\* (A field that is omitted has a type of any kind.)
getFields(f, k, ssz) ==
  CASE HasOmitFlag(f) -> <<>>
    [] ~HasOmitFlag(f) /\ ToBeSquashed(f) /\ ssz.kind = "container" -> SquashFields(ssz, k)
    [] OTHER -> <<ContainerField(ssz, <<k>>)>>

IsError(f, ssz) ==
  /\ ~HasOmitFlag(f)
  /\ IsRefused(ssz) \/ (ForceSquash(f) /\ ssz.kind # "container")

FieldsAt(fields) ==
  [kind |-> "container", fields |-> [m \in 1..Len(fields) |-> fields[m].ssz],
   at |-> [m \in 1..Len(fields) |-> fields[m].at]]

\* The container of a struct, whose fields' types the factory has made ssz of.
NewSSZContainer(fields, ssz) ==
  IF \E k \in 1..Len(fields) : IsError(fields[k], ssz[k]) THEN Refused
  ELSE FieldsAt(FlattenSeq([k \in 1..Len(fields) |-> getFields(fields[k], k, ssz[k])]))
===============================================================================
