--------------------------- MODULE UniqueTickets ---------------------------
(***************************************************************************)
(* What take_lifecycle_epoch() (clean-room/fake_transport.c) and           *)
(* take_machine_generation() (clean-room/state_machine.c) promise their    *)
(* callers: every non-zero ticket is handed out once, over all threads and *)
(* for the whole life of the process, and the answer is 0 only when every  *)
(* ticket is gone.  The parsers tell one attachment from the next by these *)
(* tickets alone.                                                          *)
(***************************************************************************)
EXTENDS Naturals

CONSTANTS Threads,      \* the threads that may ask for a ticket
          Limit         \* stands for UINT64_MAX: tickets are 1 .. Limit - 1

VARIABLES issued,       \* the tickets handed out so far
          held          \* the last answer each thread was given, 0 for none

Tickets == 1 .. (Limit - 1)

Init == /\ issued = {}
        /\ held = [t \in Threads |-> 0]

Take(t) == \E n \in Tickets \ issued :
              /\ issued' = issued \cup {n}
              /\ held' = [held EXCEPT ![t] = n]

Refuse(t) == /\ issued = Tickets
             /\ held' = [held EXCEPT ![t] = 0]
             /\ UNCHANGED issued

Next == \E t \in Threads : Take(t) \/ Refuse(t)

Spec == Init /\ [][Next]_<<issued, held>>
=============================================================================
