--------------------------- MODULE TicketCounter ---------------------------
(***************************************************************************)
(* The compare-and-swap loop that two files of the repository share word   *)
(* for word: take_lifecycle_epoch() and take_machine_generation(), each    *)
(* over its own process-wide atomic counter.                               *)
(*                                                                         *)
(* All accesses are memory_order_relaxed, so a load (also the load a       *)
(* failed compare-and-swap does) may return an old value of the counter;   *)
(* only a successful swap is bound to the newest one.  The swap is the     *)
(* weak form: it may fail although the values agree.                       *)
(***************************************************************************)
EXTENDS Naturals

CONSTANTS Threads, Limit

ASSUME LimitAssumption == Limit \in Nat \ {0}

VARIABLES counter,      \* next_lifecycle_epoch / next_machine_generation
          pc,           \* where each thread is: outside the call or in its loop
          current,      \* the local variable of the call
          held          \* the value the thread's last call returned

counterVars == <<counter, pc, current, held>>

CounterTypeOK == /\ counter \in 1 .. Limit
                 /\ pc \in [Threads -> {"outside", "loop"}]
                 /\ current \in [Threads -> 1 .. Limit]
                 /\ held \in [Threads -> 0 .. Limit]

CounterInit == /\ counter = 1
               /\ pc = [t \in Threads |-> "outside"]
               /\ current = [t \in Threads |-> 1]
               /\ held = [t \in Threads |-> 0]

\* What a relaxed load may return to a thread: any value the counter has had
\* since the one the thread read last.
Visible(t) == current[t] .. counter

Load(t) == /\ pc[t] = "outside"
           /\ \E v \in Visible(t) : current' = [current EXCEPT ![t] = v]
           /\ pc' = [pc EXCEPT ![t] = "loop"]
           /\ UNCHANGED <<counter, held>>

\* Seeded fault for ImplementsUniqueTickets: one ticket too early.
ExhaustedEarly(t) == /\ pc[t] = "loop"
                     /\ current[t] + 1 >= Limit
                     /\ held' = [held EXCEPT ![t] = 0]
                     /\ pc' = [pc EXCEPT ![t] = "outside"]
                     /\ UNCHANGED <<counter, current>>

\* The counter has reached its last value: it never wraps, the answer is 0.
ReturnExhausted(t) == /\ pc[t] = "loop"
                      /\ current[t] = Limit
                      /\ held' = [held EXCEPT ![t] = 0]
                      /\ pc' = [pc EXCEPT ![t] = "outside"]
                      /\ UNCHANGED <<counter, current>>

\* Seeded fault for HeldTicketsDiffer: a load and a store in place of the swap.
StoreWithoutComparing(t) == /\ pc[t] = "loop"
                            /\ current[t] # Limit
                            /\ counter' = current[t] + 1
                            /\ held' = [held EXCEPT ![t] = current[t]]
                            /\ pc' = [pc EXCEPT ![t] = "outside"]
                            /\ UNCHANGED current

SwapSucceeds(t) == /\ pc[t] = "loop"
                   /\ current[t] # Limit
                   /\ counter = current[t]
                   /\ counter' = current[t] + 1
                   /\ held' = [held EXCEPT ![t] = current[t]]
                   /\ pc' = [pc EXCEPT ![t] = "outside"]
                   /\ UNCHANGED current

SwapFails(t) == /\ pc[t] = "loop"
                /\ current[t] # Limit
                /\ \E v \in Visible(t) : current' = [current EXCEPT ![t] = v]
                /\ UNCHANGED <<counter, pc, held>>

CounterNext == \E t \in Threads : \/ Load(t)
                                  \/ ReturnExhausted(t)
                                  \/ SwapSucceeds(t)
                                  \/ SwapFails(t)

CounterSpec == CounterInit /\ [][CounterNext]_counterVars
-----------------------------------------------------------------------------
\* Two threads that both hold a ticket hold different ones: an object
\* stamped by one thread is never taken for an object stamped by another.
HeldTicketsDiffer ==
  \A s, t \in Threads : s # t /\ held[s] = held[t] => held[s] = 0

\* The loop implements one indivisible draw of a ticket nobody had before,
\* and refuses only when none is left (the tickets below the counter are the
\* ones handed out).
Tickets == INSTANCE UniqueTickets WITH issued <- 1 .. (counter - 1)

ImplementsUniqueTickets == Tickets!Spec
=============================================================================
