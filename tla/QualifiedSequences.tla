------------------------- MODULE QualifiedSequences -------------------------
(***************************************************************************)
(* The transfer metadata of clean-room/protocol_transfer.h and the tables  *)
(* of clean-room/qualified_sequences.c, as orders in the sense of          *)
(* PartialOrder.                                                           *)
(*                                                                         *)
(* A transfer is told apart by its direction and length, and by whether it *)
(* is "plain": bulk, successful, and on the one endpoint the device has in *)
(* that direction.  Every role of every table takes one plain transfer.    *)
(***************************************************************************)
EXTENDS Naturals, Sequences

Metadata == [direction : {"in", "out"}, length : Nat \ {0}, plain : BOOLEAN]

Transfer(direction, length) ==
  [direction |-> direction, length |-> length, plain |-> TRUE]

Out(length) == Transfer("out", length)
In(length) == Transfer("in", length)

\* A role takes one transfer; DB_PREVIOUS(i) is {i}.
Role(transfer, before) == [takes |-> {transfer}, before |-> before]

\* A table in which every role follows the one above it.
Chain(transfers) ==
  [i \in 1 .. Len(transfers) |->
     Role(transfers[i], IF i = 1 THEN {} ELSE {i - 1})]
-----------------------------------------------------------------------------
startup_first_burst ==
  <<Role(Out(16), {}), Role(Out(32), {1}), Role(Out(80), {2}),
    Role(In(39), {3}), Role(Out(48), {4}), Role(In(38), {5}),
    Role(Out(64), {6}), Role(In(38), {7}), Role(Out(64), {8}),
    \* the next two may come in either order
    Role(In(38), {9}), Role(In(549), {9}), Role(In(31), {10, 11}),
    Role(Out(176), {12}), Role(In(38), {13}), Role(In(34), {14})>>

hotplug_prefix ==
  Chain(<<In(48), Out(64), In(128), In(48), Out(64), In(112), Out(64), In(64),
          Out(64), In(64), In(48), Out(64), In(128), Out(64), In(64), In(48),
          Out(64), In(112), Out(64), In(320), In(48), Out(64), In(64),
          Out(64)>>)

hotunplug_profile_a ==
  Chain(<<In(48), Out(64), In(112), Out(112), In(64), In(48), Out(64), In(64),
          Out(64), In(112), In(48), Out(96), In(128), In(48), Out(64), In(560),
          In(48), Out(64), In(768), In(48), Out(64), In(384), In(48), Out(64),
          In(672), Out(64), In(64), Out(64), In(64)>>)

hotunplug_profile_b ==
  Chain(<<In(48), Out(64), In(112), Out(112), In(64), Out(64), In(48), In(64),
          Out(64), In(112), In(48), Out(96), In(128), In(48), Out(64), In(496),
          In(48), Out(64), In(784), In(48), Out(64), In(752), In(48), Out(64),
          In(368), Out(64), In(64), Out(64), In(64)>>)
-----------------------------------------------------------------------------
\* transfer_is_qualified(): small plain transfers, whole blocks on the way out.
IsQualified(transfer) ==
  /\ transfer.plain
  /\ transfer.length <= 1024                  \* DB_TRANSITION_MAX_SMALL_TRANSFER
  /\ transfer.direction = "out" => transfer.length % 16 = 0
=============================================================================
