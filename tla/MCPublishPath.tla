----------------------------- MODULE MCPublishPath -----------------------------
EXTENDS PublishPath, TLC

CONSTANTS k1, k2, api, a, adm, t1, t2, good, bad, r1, r2

MCConns == {k1, k2, api}
MCAdmin == {api}
MCClientOf == [k \in MCConns |-> IF k = api THEN adm ELSE a]
MCRequests == {r1, r2}

\* Messages are numbered; number 3 is denied by the payload filter of
\* AllTopics, 4 is too large for SmallOnly.
Msg(i) == [n |-> i, topic |-> IF i = 2 THEN t2 ELSE t1, payload |-> IF i = 3 THEN bad ELSE good,
           size |-> IF i = 4 THEN 2 ELSE 1]

Security(r) == [enabled |-> TRUE, rate |-> r, maxPayload |-> 0]
NoSecurity == [enabled |-> FALSE, rate |-> 0, maxPayload |-> 0]
SmallOnly == [enabled |-> TRUE, rate |-> 0, maxPayload |-> 1]
Forward(topics, max, ok) == [enabled |-> TRUE, topics |-> topics, maxQueue |-> max, validUrl |-> ok]
Plugin(black, words, fwd_) ==
    [enabled |-> TRUE, black |-> black, white |-> {}, filterOn |-> words # {},
     badWords |-> words, goodWords |-> {{good}}, forward |-> fwd_]

NoForward == Plugin({}, {}, [Forward({}, 0, TRUE) EXCEPT !.enabled = FALSE])
AllTopics == Plugin({}, {{bad}}, Forward({t1, t2}, 1, TRUE))
OneTopic == Plugin({{t2}}, {}, Forward({t1}, 0, TRUE))
BadUrl == Plugin({}, {}, Forward({t1}, 0, FALSE))

Reloads(g1, c1, g2, c2) == (r1 :> [of |-> g1, cfg |-> c1]) @@ (r2 :> [of |-> g2, cfg |-> c2])
NoReload == Reloads("none", None, "none", None)
Script(x, y, z) == (k1 :> x) @@ (k2 :> y) @@ (api :> z)

\* A client that publishes more than its rate on two connections; reloads of
\* the limits while it publishes; reloads of the plugin section, with another
\* filter and queue; messages that are turned away, with a forward section
\* that does not validate.
MCScenarios ==
    {[security |-> Security(1), plugin |-> NoForward, reloads |-> NoReload,
      script |-> Script(<<Msg(1), Msg(1), Msg(1)>>, <<Msg(1)>>, <<>>)],
     [security |-> Security(1), plugin |-> NoForward,
      reloads |-> Reloads("security", Security(0), "security", Security(2)),
      script |-> Script(<<Msg(1)>>, <<Msg(1)>>, <<>>)],
     [security |-> NoSecurity, plugin |-> AllTopics,
      reloads |-> Reloads("plugin", OneTopic, "plugin", AllTopics),
      script |-> Script(<<Msg(1), Msg(2)>>, <<Msg(6)>>, <<>>)],
     [security |-> SmallOnly, plugin |-> AllTopics,
      reloads |-> Reloads("plugin", BadUrl, "security", NoSecurity),
      script |-> Script(<<Msg(3), Msg(5)>>, <<Msg(4)>>, <<Msg(1)>>)]}
================================================================================
