----------------------------- MODULE MCAdmission -----------------------------
EXTENDS Admission

CONSTANTS c1, c2, c3, tcp, tls

Widths == [v4 |-> 2, v6 |-> 3]

\* Two connections of one address arrive at different listeners.
TwoListeners == [c \in Conns |-> IF c \in {c1, c3} THEN tcp ELSE tls]
TwoAddresses ==
    [c \in Conns |-> IF c = c3 THEN [fam |-> "v6", bits |-> <<0, 1, 1>>]
                     ELSE [fam |-> "v4", bits |-> <<1, 0>>]]

\* 3/1 in the short addresses of the model: a network given with host bits.
Upper == [fam |-> "v4", bits |-> <<1, 1>>, prefix |-> 1]
AnyV6 == [fam |-> "v6", bits |-> <<0, 0, 0>>, prefix |-> 0]
TooLong == [fam |-> "v4", bits |-> <<0, 0>>, prefix |-> 3]

Section(on, max, b, w) == [enabled |-> on, maxPerIp |-> max, black |-> b, white |-> w]
AllConfigs ==
    {Section(FALSE, 0, <<>>, <<>>), Section(TRUE, 0, <<AnyV6>>, <<>>),
     Section(TRUE, 1, <<>>, <<Upper, AnyV6>>), Section(TRUE, 2, <<>>, <<Upper>>),
     Section(TRUE, 0, <<TooLong>>, <<>>)}
=============================================================================
