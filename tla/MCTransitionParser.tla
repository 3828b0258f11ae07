------------------------- MODULE MCTransitionParser -------------------------
(* Short tables for TransitionParser: the unplug profiles part at their    *)
(* second role, as the observed ones do at their sixth.                    *)
EXTENDS TransitionParser

MCSequenceOf == [profile \in Profiles |->
  CASE profile = "hotplug-prefix" -> Chain(<<In(48), Out(64)>>)
    [] profile = "hotunplug-a"    -> Chain(<<In(48), Out(64)>>)
    [] profile = "hotunplug-b"    -> Chain(<<In(48), In(128)>>)]

MCExpectedCount == [k \in Kinds |-> 2]

\* The transfers of the tables, a qualified stranger and an unqualified one.
MCTransfers == {In(48), Out(64), In(128), In(560), Out(40)}
=============================================================================
