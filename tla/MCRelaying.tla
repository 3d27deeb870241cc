----------------------------- MODULE MCRelaying -----------------------------
(* Relaying for TLC: a user of this server writes to himself, to an address  *)
(* here that does not exist, to another server and to a host without one.    *)
EXTENDS Relaying, TLC

CONSTANTS jan, bob, postmaster, aJan, here, there, nowhere

MCName == {jan, bob, postmaster}
MCAccountOf == [n \in MCName |-> IF n = jan THEN aJan ELSE NULL]

MCSender == {[name |-> jan, host |-> here]}
MCRecipient == {[name |-> jan, host |-> here], [name |-> bob, host |-> here],
                [name |-> bob, host |-> there], [name |-> bob, host |-> nowhere]}
MCPostmaster == [name |-> postmaster, host |-> here]

=============================================================================
