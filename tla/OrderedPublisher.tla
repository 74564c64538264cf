-------------------------- MODULE OrderedPublisher --------------------------
(***************************************************************************)
(* What a checkpoint publisher promises, without threads or queues:        *)
(* submissions are numbered in the order they were accepted; each one ends *)
(* either published or dropped; and it is published only after every       *)
(* earlier submission was ("Publish retained directories in order",        *)
(* core/checkpoint_publisher.py:78).  So one failure or cancellation stops *)
(* everything behind it.                                                   *)
(***************************************************************************)
EXTENDS Naturals, Sequences

VARIABLE outcome    \* outcome[i]: what became of the i-th accepted submission

Outcomes == {"pending", "published", "dropped"}

Init == outcome = <<>>

Accept == outcome' = Append(outcome, "pending")

Publish(i) ==
    /\ outcome[i] = "pending"
    /\ \A j \in 1 .. i - 1 : outcome[j] = "published"
    /\ outcome' = [outcome EXCEPT ![i] = "published"]

Drop(i) ==
    /\ outcome[i] = "pending"
    /\ outcome' = [outcome EXCEPT ![i] = "dropped"]

Next ==
    \/ Accept
    \/ \E i \in DOMAIN outcome : Publish(i) \/ Drop(i)

Spec == Init /\ [][Next]_outcome
=============================================================================
