------------------------------- MODULE IpFilter -------------------------------
(***************************************************************************)
(* The address lists of the security guard: entries such as 10.1.0.0/16    *)
(* are masked, compiled into one bitwise prefix tree per address family,   *)
(* and looked up bit by bit.  An address is its family and its bits, most  *)
(* significant first.                                                      *)
(***************************************************************************)
EXTENDS Integers, Sequences, FiniteSets, Functions

CONSTANT MaxBits  \* address length by family: 32 and 128, scaled down

Families == DOMAIN MaxBits
Bits(f) == [1..MaxBits[f] -> 0..1]
Addresses == UNION {[fam : {f}, bits : Bits(f)] : f \in Families}

ASSUME WidthsNatural == \A f \in Families : MaxBits[f] \in Nat

Single == -1  \* the prefix of an entry written without one
Entries == UNION {[fam : {f}, bits : Bits(f), prefix : -1..MaxBits[f] + 1] : f \in Families}

\* Mutant: an entry without a prefix is taken as /0.
PrefixMutant(e) == IF e.prefix = Single THEN 0 ELSE e.prefix

\* IpRule::parse: an entry without a prefix stands for one address; a prefix
\* longer than the address is an error.
Prefix(e) == IF e.prefix = Single THEN MaxBits[e.fam] ELSE e.prefix
Parses(e) == Prefix(e) <= MaxBits[e.fam]

\* apply_mask
Masked(bits, prefix) == [i \in DOMAIN bits |-> IF i <= prefix THEN bits[i] ELSE 0]

\* A BitTrie is the set of its nodes, each named by the path to it, and those
\* of them that are terminal.  The empty tree does not even have a root.
EmptyTrie == [nodes |-> {}, terminal |-> {}]

\* BitTrie::insert
Insert(t, network, prefix) ==
    [nodes |-> t.nodes \cup {SubSeq(network, 1, i) : i \in 0..prefix},
     terminal |-> t.terminal \cup {SubSeq(network, 1, prefix)}]

\* BitTrie::contains: down the bits of the address until a terminal node, the
\* root included, or a missing child.
TrieContains(t, bits) ==
    LET hit[i \in 0..Len(bits)] ==
            /\ SubSeq(bits, 1, i) \in t.nodes
            /\ \/ SubSeq(bits, 1, i) \in t.terminal
               \/ i < Len(bits) /\ hit[i + 1]
    IN  hit[0]

EmptyFilter == [tries |-> [f \in Families |-> EmptyTrie], count |-> 0]

\* IpFilter::add_rule, with the rule that parse makes of the entry.
AddRule(filter, e) ==
    [tries |-> [filter.tries EXCEPT ![e.fam] = Insert(@, Masked(e.bits, Prefix(e)), Prefix(e))],
     count |-> filter.count + 1]

\* IpFilter::new of entries that all parse: the rules are added in their order.
NewFilter(entries) ==
    LET after[n \in 0..Len(entries)] ==
            IF n = 0 THEN EmptyFilter ELSE AddRule(after[n - 1], entries[n])
    IN  after[Len(entries)]

FilterContains(filter, ip) == TrieContains(filter.tries[ip.fam], ip.bits)

\* IpAcl::check: black-listed, or not in a white-list that is not empty.
AclDenies(acl, ip) ==
    \/ FilterContains(acl.black, ip)
    \/ acl.white.count > 0 /\ ~FilterContains(acl.white, ip)

-----------------------------------------------------------------------------
\* What an entry means: the addresses of its family that agree with it in the
\* bits of its prefix, all bits when there is none.
Covers(e, ip) ==
    /\ e.fam = ip.fam
    /\ \A i \in 1..MaxBits[e.fam] : e.prefix = Single \/ i <= e.prefix => e.bits[i] = ip.bits[i]

\* The tree of two entries that parse finds exactly the addresses one of them
\* covers, whatever host bits an entry carries and whichever of two nested
\* networks comes first.
FilterExact ==
    \A e1, e2 \in {e \in Entries : Parses(e)} : \A ip \in Addresses :
        FilterContains(NewFilter(<<e1, e2>>), ip) <=> Covers(e1, ip) \/ Covers(e2, ip)
===============================================================================
