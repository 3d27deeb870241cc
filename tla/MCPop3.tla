------------------------------- MODULE MCPop3 -------------------------------
(* Pop3 for TLC: the account jan, written in two ways, and foo. *)
EXTENDS Pop3Refinement, TLC

CONSTANTS jan, JAN, foo, nobody, aJan, aFoo

MCName == {jan, JAN, foo, nobody}
MCAccountOf == [n \in MCName |-> CASE n \in {jan, JAN} -> aJan
                                   [] n = foo -> aFoo
                                   [] n = nobody -> NULL]

\* Sessions only serve as indices: exchanging them changes nothing.
Symmetry == Permutations(Session)

=============================================================================
