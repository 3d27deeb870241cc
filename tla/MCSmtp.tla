------------------------------- MODULE MCSmtp -------------------------------
(* Smtp for TLC: one user, recipients that are local by host and user, by   *)
(* host only, and by user only.                                            *)
EXTENDS Smtp, TLC

CONSTANTS jan, bob, aJan, here, there

MCName == {jan, bob}
MCAccountOf == [n \in MCName |-> IF n = jan THEN aJan ELSE NULL]

MCSender == {[name |-> jan, host |-> here]}
MCRecipient == {[name |-> jan, host |-> here], [name |-> bob, host |-> here],
                [name |-> jan, host |-> there]}

Symmetry == Permutations(Client)

=============================================================================
