------------------------------ MODULE NameQueues ------------------------------
(***************************************************************************)
(* What the beacon registry promises, without its list: for every name a   *)
(* queue of identities, all queues together holding at most Capacity.      *)
(***************************************************************************)
EXTENDS Integers, SequencesExt

CONSTANTS Names, Ids, Capacity

VARIABLES queue, reply, stopped

(* The places that are taken in all queues.                                *)
Taken(q) == UNION {{n} \X DOMAIN q[n] : n \in Names}
Total(q) == Cardinality(Taken(q))

Answer(rc, shown) == reply' = [rc |-> rc, shown |-> shown]

Init == /\ queue = [n \in Names |-> << >>]
        /\ reply = [rc |-> "OK", shown |-> {}]
        /\ stopped = FALSE

Enqueue(n, id) == /\ Total(queue) < Capacity
                  /\ queue' = [queue EXCEPT ![n] = Append(@, id)]
                  /\ Answer("OK", {})
                  /\ UNCHANGED stopped

Dequeue(n) == /\ queue[n] # << >>
              /\ queue' = [queue EXCEPT ![n] = Tail(@)]
              /\ Answer("OK", {})
              /\ UNCHANGED stopped

DequeueAll == /\ queue' = [n \in Names |-> << >>]
              /\ Answer("OK", {})
              /\ UNCHANGED stopped

Show(n) == /\ queue[n] # << >>
           /\ Answer("OK", {Head(queue[n])})
           /\ UNCHANGED <<queue, stopped>>

ShowAll == /\ Answer("OK", UNION {Range(queue[n]) : n \in Names})
           /\ UNCHANGED <<queue, stopped>>

NotFound(n) == /\ queue[n] = << >>
               /\ Answer("ENOENT", {})
               /\ UNCHANGED <<queue, stopped>>

Reject == /\ \E rc \in {"EINVAL", "ENOENT"} : Answer(rc, {})
          /\ UNCHANGED <<queue, stopped>>

(* The only way to stop is an Enqueue without room.                        *)
Overflow == /\ Total(queue) = Capacity
            /\ stopped' = TRUE
            /\ UNCHANGED <<queue, reply>>

Next == /\ ~ stopped
        /\ \/ \E n \in Names : \/ \E id \in Ids : Enqueue(n, id)
                               \/ Dequeue(n) \/ Show(n) \/ NotFound(n)
           \/ DequeueAll \/ ShowAll
           \/ Reject
           \/ Overflow

Spec == Init /\ [][Next]_<<queue, reply, stopped>>

===============================================================================
