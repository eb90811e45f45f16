------------------------- MODULE NotificationChannel -------------------------
(***************************************************************************)
(* What a SignalR connection promises the page that listens to it: what    *)
(* the hub sends arrives in its order and once each, gaps are due to the   *)
(* faults of the network or to a page that does not listen yet, and the    *)
(* connection ends once and is silent from then on.                        *)
(***************************************************************************)
EXTENDS Naturals, Sequences

CONSTANT Notices

VARIABLES
    pending,    \* sent by the hub and not read by the client
    listening,  \* the page has registered its handler
    heard,      \* what the handler was called with
    faults,     \* the faults of the network and of the hub
    ends        \* how often the end of the connection was announced

vars == <<pending, listening, heard, faults, ends>>

Init == pending = <<>> /\ listening = FALSE /\ heard = <<>> /\ faults = 0 /\ ends = 0

Send == /\ ends = 0 /\ \E n \in Notices : pending' = Append(pending, n)
        /\ UNCHANGED <<listening, heard, faults, ends>>

Listen == listening' = TRUE /\ UNCHANGED <<pending, heard, faults, ends>>

\* The first notices are taken, and heard if the page listens.
Take(k) ==
    /\ pending' = SubSeq(pending, k + 1, Len(pending))
    /\ heard' = IF listening THEN heard \o SubSeq(pending, 1, k) ELSE heard

Read == (\E k \in 1..Len(pending) : Take(k)) /\ UNCHANGED <<listening, faults, ends>>

Fault ==
    /\ faults' = faults + 1
    /\ \E k \in 0..Len(pending) : pending' = SubSeq(pending, k + 1, Len(pending))
    /\ UNCHANGED <<listening, heard, ends>>

End == /\ ends = 0 /\ ends' = 1 /\ pending' = <<>>
       /\ UNCHANGED <<listening, heard, faults>>

Next == Send \/ Listen \/ Read \/ Fault \/ End

Spec == Init /\ [][Next]_vars
===============================================================================
