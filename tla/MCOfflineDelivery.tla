-------------------------- MODULE MCOfflineDelivery --------------------------
EXTENDS OfflineDelivery, SequencesExt

CONSTANTS r1, r2

\* One router publishes three messages, or two publish one each.
AloneOrTwo == {<<r1, r1, r1>>, <<r1, r2>>}

\* Sequences of up to four messages.
Backlogs == UNION {[1 .. n -> Messages] : n \in 0 .. 4}

\* Newest is what the loop of load_persistent_sessions leaves in the queue.
ASSUME NewestIsTheLoop ==
    \A s \in Backlogs : Newest(s) = FoldLeft(PushBounded, <<>>, s)

\* RemoveKey drops one entry and keeps the others in their order.
ASSUME RemovedInOrder ==
    \A s \in Backlogs : \A i \in DOMAIN s : Without(s, i) = RemoveAt(s, i)
=============================================================================
