------------------------------- MODULE GoObject -------------------------------
(***************************************************************************)
(* A program's object in Go memory, and the type that the factory makes of *)
(* its Go type: the library reads and writes the object through the        *)
(* pointer functions of the fields (module Codec, whose dst is what the    *)
(* library sees of the object).                                            *)
(*                                                                         *)
(* A Go struct is the sequence of its fields, those that are omitted among *)
(* them.  Structs inside pointers, arrays and slices omit and squash       *)
(* nothing here, so that only structs inside structs differ from what the  *)
(* library sees.                                                           *)
(***************************************************************************)
EXTENDS Codec, Factory

CONSTANTS
  GoTypes,        \* the Go types of the object
  GoObjects(_)    \* its contents, by Go type

VARIABLES
  goType,   \* the object's Go type
  mem,      \* its memory
  kept      \* what its omitted fields held at first (history)

goVars == <<vars, goType, mem, kept>>

\* What the pointer functions make of the object.
At(m, path) == FoldLeft(LAMBDA x, k : x[k], m, path)

RECURSIVE Put(_, _, _)
Put(m, path, v) == IF path = <<>> THEN v ELSE [m EXCEPT ![path[1]] = Put(@, Tail(path), v)]

IsContainer(t) == t.kind = "container"

RECURSIVE Seen(_, _)
Seen(t, m) ==
  IF IsContainer(t) THEN Each(Len(t.fields), LAMBDA k : Seen(t.fields[k], At(m, t.at[k]))) ELSE m

RECURSIVE Stored(_, _, _)
Stored(t, m, v) ==
  IF ~IsContainer(t) THEN v
  ELSE FoldLeft(LAMBDA acc, k : Put(acc, t.at[k], Stored(t.fields[k], At(acc, t.at[k]), v[k])),
                m, Each(Len(t.fields), LAMBDA k : k))

\* The contents of the fields that are omitted, in the order of the struct.
RECURSIVE Omitted(_, _)
Omitted(g, m) ==
  IF g.kind # "struct" THEN <<>>
  ELSE FlattenSeq(Each(Len(g.fields), LAMBDA k :
         IF "omit" \in g.fields[k].flags THEN <<m[k]>> ELSE Omitted(g.fields[k].typ, m[k])))

GoInit ==
  /\ goType \in GoTypes
  /\ type = SSZFactory(goType)
  /\ ~IsRefused(type)
  /\ mem \in GoObjects(goType)
  /\ kept = Omitted(goType, mem)
  /\ dst = Seen(type, mem)
  /\ NoCallYet

GoNext ==
  /\ Next
  /\ mem' = Stored(type, mem, dst')
  /\ UNCHANGED <<goType, kept>>

GoSpec == GoInit /\ [][GoNext]_goVars

(***************************************************************************)
(* Properties.                                                             *)
(***************************************************************************)
\* What a call has made of the fields is in memory, and nothing else of it has changed:
\* no field's pointer leads to another field, or to one that is omitted, however deep
\* the struct it was squashed out of.
ObjectInMemory ==
  /\ Seen(type, mem) = dst
  /\ Omitted(goType, mem) = kept

\* The fields of a struct, with those of a struct that is embedded or tagged in place of
\* it, as far as they are not omitted.
RECURSIVE Inline(_, _)
Inline(g, m) ==
  FlattenSeq(Each(Len(g.fields), LAMBDA k :
    LET f == g.fields[k]
    IN  CASE "omit" \in f.flags -> <<>>
          [] "omit" \notin f.flags /\ f.typ.kind = "struct" /\ (f.anonymous \/ "squash" \in f.flags) ->
               Inline(f.typ, m[k])
          [] OTHER -> <<[typ |-> SSZFactory(f.typ), mem |-> m[k]]>>))

InlineEncoding(fields) ==
  LET part(f) == Part(f.typ, Seen(f.typ, f.mem))
  IN  EncodeParts(ContainerLens(Each(Len(fields), LAMBDA k : Lens(fields[k].typ))).fixed,
                  Each(Len(fields), LAMBDA k : part(fields[k])))

\* A struct is encoded as if the structs squashed into it were written out: variable-size
\* fields of theirs have their offsets in its fixed part.
SquashedInline ==
  goType.kind = "struct" /\ Complete(type, dst) =>
    Encode(type, dst) = InlineEncoding(Inline(goType, mem))
===============================================================================
