--------------------------- MODULE MCContainerCodec ---------------------------
(***************************************************************************)
(* Types of containers for TLC: every sequence of up to MaxFields of three *)
(* kinds of fields.                                                        *)
(***************************************************************************)
EXTENDS ContainerCodec, SequencesExt

CONSTANT MaxFields

Fixed(len)   == [isFixed |-> TRUE, fixedLen |-> len, fuzzMinLen |-> len]
Dynamic(min) == [isFixed |-> FALSE, fixedLen |-> 0, fuzzMinLen |-> min]

SomeContainers ==
  {NewSSZContainer(fields) : fields \in BoundedSeq({Fixed(1), Dynamic(1), Dynamic(2)}, MaxFields)}
=============================================================================
