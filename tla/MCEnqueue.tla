----------------------------- MODULE MCEnqueue -----------------------------
(* Instances of Enqueue for the model checker: the plans requests have. *)
EXTENDS Enqueue, TLC

CONSTANTS r1, r2, r3, k1, k2

Single(owner, queue, key, after) ==
    [owner |-> owner, batch |-> FALSE,
     items |-> <<[queue |-> queue, key |-> key, after |-> after, policy |-> NotSent]>>]

Batch(item1, item2) ==
    [owner |-> "alice", batch |-> TRUE, items |-> <<item1, item2>>]

Item(queue, key, policy) == [queue |-> queue, key |-> key, after |-> {}, policy |-> policy]

\* A queue of one's own making.
Configured(queue) ==
    [owner |-> "alice", batch |-> FALSE, items |-> <<>>, queue |-> queue, config |-> "tuned"]

\* Requests that race for a key, for a queue, or for both in opposite orders.
Racing ==
    {Single("alice", "email", k1, {}),
     Single("bob", "reports", k1, {}),
     Batch(Item("email", k1, NotSent), Item("reports", k2, NotSent)),
     Batch(Item("reports", k2, NotSent), Item("email", k1, NotSent)),
     Batch(Item("email", k1, NotSent), Item("email", k1, "own"))}

\* Requests that depend on a job of another.
After(r) == Single("alice", "email", NoKey, {<<r, 1>>})

PlansOf == (r1 :> Racing \cup {After(r2)})
        @@ (r2 :> Racing \cup {After(r1)})
        @@ (r3 :> {Single("alice", "email", k1, {}),
                   Batch(Item("reports", k2, NotSent), Item("email", k1, NotSent)),
                   After(r1),
                   Configured("email")})
=============================================================================
