----------------------- MODULE MCQualifiedTransitions -----------------------
(* The observed tables, for TransitionParser.                              *)
EXTENDS TransitionParser

MCSequenceOf == [profile \in Profiles |->
  CASE profile = "hotplug-prefix" -> hotplug_prefix
    [] profile = "hotunplug-a"    -> hotunplug_profile_a
    [] profile = "hotunplug-b"    -> hotunplug_profile_b]

\* DB_TRANSITION_HOTPLUG_PREFIX_ROLE_COUNT and its neighbour.
MCExpectedCount == [k \in Kinds |-> IF k = "hotplug" THEN 24 ELSE 29]

TakenBy(order) == UNION {order[r].takes : r \in DOMAIN order}

\* Every transfer of the tables, one of the start-up burst that is none of
\* theirs, and one that is not a whole number of blocks.
MCTransfers == UNION {TakenBy(MCSequenceOf[profile]) : profile \in Profiles}
                 \cup {In(549), Out(40)}
=============================================================================
