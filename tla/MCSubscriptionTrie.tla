------------------------- MODULE MCSubscriptionTrie -------------------------
EXTENDS SubscriptionTrie, TLC

CONSTANTS c1, c2

\* "a#" is malformed; the empty level stands for "", "/" and "/a".
BadLevels == {"a#"}
Levels == {"a", "+", "#"}

\* Every filter of up to two levels, some with an empty level, and those of
\* three levels that mix the wildcards.
SmallFilters ==
    {<<x>> : x \in Levels} \cup {<<x, y>> : x, y \in Levels}
    \cup {<<"">>, <<"", "">>, <<"", "#">>}
    \cup {<<"a#">>, <<"a", "+", "#">>, <<"+", "a", "a">>, <<"a", "#", "a">>}

\* No filter names "$s"; as a first level it makes a topic of the kind that MQTT
\* reserves for the server.
TopicLevels == {"a", "$s", ""}

SmallTopics ==
    {<<x>> : x \in TopicLevels} \cup {<<x, y>> : x, y \in TopicLevels}
    \cup {<<x, y, z>> : x, y, z \in TopicLevels}

\* Clients differ by name only.
ClientSymmetry == Permutations(Clients)
=============================================================================
