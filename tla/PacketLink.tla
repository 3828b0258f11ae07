----------------------------- MODULE PacketLink -----------------------------
(***************************************************************************)
(* What the in-memory transport of clean-room/fake_transport.c promises    *)
(* the code above it: two bounded first-in first-out channels between a    *)
(* host and a dock, cut into sessions.  Every interruption of the link     *)
(* (plugging, unplugging, opening, closing, reinitialising) starts a new   *)
(* session, whose number was never used before in the process; nothing     *)
(* queued before an unplug or a close is delivered after it.               *)
(***************************************************************************)
EXTENDS Naturals, Sequences

CONSTANTS Chunks,       \* the packets: a packet is told apart by its length
          Capacity,     \* how many packets a channel holds
          Sessions      \* every session number there is; 0 is "none left"

VARIABLES phase,        \* "unplugged", "closed" or "open"
          session,      \* the number of the current session
          spent,        \* the session numbers used so far in the process
          outbound,     \* host to dock
          inbound,      \* dock to host
          handed        \* the packet last handed over to a caller, 0 at first

vars == <<phase, session, spent, outbound, inbound, handed>>

Init == /\ phase = "closed"
        /\ session = 1
        /\ spent = {1}
        /\ outbound = <<>>
        /\ inbound = <<>>
        /\ handed = 0

NewSession == \/ \E s \in Sessions \ spent : /\ session' = s
                                             /\ spent' = spent \cup {s}
              \/ /\ spent = Sessions
                 /\ session' = 0
                 /\ UNCHANGED spent

KeepSession == UNCHANGED <<session, spent>>

EmptyBoth == outbound' = <<>> /\ inbound' = <<>>

KeepBoth == UNCHANGED <<outbound, inbound>>

Plug == /\ phase = "unplugged"
        /\ phase' = "closed"
        /\ NewSession /\ KeepBoth /\ UNCHANGED handed

Unplug == /\ phase # "unplugged"
          /\ phase' = "unplugged"
          /\ NewSession /\ EmptyBoth /\ UNCHANGED handed

Open == /\ phase = "closed"
        /\ phase' = "open"
        /\ NewSession /\ KeepBoth /\ UNCHANGED handed

Close == /\ phase = "open"
         /\ phase' = "closed"
         /\ NewSession /\ EmptyBoth /\ UNCHANGED handed

\* Closing what is not open only drops what waits in the channels.
Discard == /\ phase # "open"
           /\ EmptyBoth /\ KeepSession /\ UNCHANGED <<phase, handed>>

Reinitialize == /\ phase' = "closed"
                /\ NewSession /\ EmptyBoth /\ UNCHANGED handed

Send(c) == /\ phase = "open"
           /\ Len(outbound) < Capacity
           /\ outbound' = Append(outbound, c)
           /\ KeepSession /\ UNCHANGED <<phase, inbound, handed>>

Receive == /\ phase = "open"
           /\ inbound # <<>>
           /\ handed' = Head(inbound)
           /\ inbound' = Tail(inbound)
           /\ KeepSession /\ UNCHANGED <<phase, outbound>>

\* The dock's end works as soon as the dock is plugged in.
DockSend(c) == /\ phase # "unplugged"
               /\ Len(inbound) < Capacity
               /\ inbound' = Append(inbound, c)
               /\ KeepSession /\ UNCHANGED <<phase, outbound, handed>>

DockReceive == /\ phase # "unplugged"
               /\ outbound # <<>>
               /\ handed' = Head(outbound)
               /\ outbound' = Tail(outbound)
               /\ KeepSession /\ UNCHANGED <<phase, inbound>>

\* Another link of the process starts a session.
OtherLink == /\ \E s \in Sessions \ spent : spent' = spent \cup {s}
             /\ UNCHANGED <<phase, session, outbound, inbound, handed>>

Next == \/ Plug \/ Unplug \/ Open \/ Close \/ Discard \/ Reinitialize
        \/ Receive \/ DockReceive \/ OtherLink
        \/ \E c \in Chunks : Send(c) \/ DockSend(c)

Spec == Init /\ [][Next]_vars
=============================================================================
