-------------------------- MODULE AtLeastOnceQueue --------------------------
(***************************************************************************)
(* What the engine expects of its job queue, whatever backend carries it   *)
(* (storage/base.py: enqueue_job, dequeue_job, ack_job).  Messages are     *)
(* numbered in the order they were enqueued.  A message may be handled     *)
(* any number of times, but the queue forgets it (settles it) only after   *)
(* it was handled, or when it overflowed: a bounded queue may drop what    *)
(* Capacity newer messages have pushed out.                                *)
(***************************************************************************)
EXTENDS Naturals

CONSTANT Capacity

VARIABLES sent,     \* how many messages were enqueued: they are 1..sent
          dropped,  \* messages that overflowed
          handled,  \* messages whose handling ended at least once
          settled   \* messages the queue will never deliver again

vars == <<sent, dropped, handled, settled>>

Init == sent = 0 /\ dropped = {} /\ handled = {} /\ settled = {}

Send == /\ sent' = sent + 1
        /\ dropped \subseteq dropped'
        /\ \A m \in dropped' : m \in 1..sent' /\ m + Capacity <= sent'
        /\ UNCHANGED <<handled, settled>>

Handle(m) == /\ handled' = handled \cup {m}
             /\ UNCHANGED <<sent, dropped, settled>>

Settle == /\ settled \subseteq settled'
          /\ settled' \subseteq settled \cup handled \cup dropped
          /\ UNCHANGED <<sent, dropped, handled>>

Next == Send \/ Settle \/ \E m \in 1..sent : Handle(m)

Spec == Init /\ [][Next]_vars
=============================================================================
