-------------------------- MODULE MCLocalDelivery --------------------------
(* LocalDelivery for TLC: a user, and a name that no user here has.          *)
EXTENDS LocalDelivery, TLC

CONSTANTS jan, bob, aJan, here, there

MCName == {jan, bob}
MCAccountOf == [n \in MCName |-> IF n = jan THEN aJan ELSE NULL]

MCSender == {[name |-> jan, host |-> here]}
MCRecipient == {[name |-> jan, host |-> here], [name |-> bob, host |-> there]}

Symmetry == Permutations(Session)

=============================================================================
