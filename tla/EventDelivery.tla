---------------------------- MODULE EventDelivery ----------------------------
(***************************************************************************)
(* What the event bus promises of the messages of one service, over either *)
(* broker: a message is taken off the queue once, and only after its       *)
(* handlers have run, unless it has been excused.  What counts as a run    *)
(* and what excuses differs between the two buses.                         *)
(***************************************************************************)
CONSTANT Messages

VARIABLES
    sent,      \* the messages that have been published
    done,      \* the messages with a run that allows to take them off
    off,       \* the messages that have been taken off the queue
    excused    \* the messages that may be taken off without one

vars == <<sent, done, off, excused>>

Init == sent = {} /\ done = {} /\ off = {} /\ excused = {}

Send == /\ \E m \in Messages \ sent : sent' = sent \cup {m}
        /\ UNCHANGED <<done, off, excused>>

Run == /\ \E m \in sent \ done : done' = done \cup {m}
       /\ UNCHANGED <<sent, off, excused>>

Excuse == /\ excused' \in SUBSET Messages /\ excused \subseteq excused'
          /\ UNCHANGED <<sent, done, off>>

TakeOff == /\ \E m \in (sent \ off) \cap (done \cup excused) : off' = off \cup {m}
           /\ UNCHANGED <<sent, done, excused>>

Next == Send \/ Run \/ Excuse \/ TakeOff

Spec == Init /\ [][Next]_vars
==============================================================================
