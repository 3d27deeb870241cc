------------------------- MODULE ForwardRefinement --------------------------
(***************************************************************************)
(* Forward implements Courier: sessions, replies and the tables that go    *)
(* with them amount to letters that are taken over at most once and come   *)
(* back only if they were not.                                             *)
(***************************************************************************)
EXTENDS Forward

RefusedLetters == {l \in Letter : answers[l] \cap {"transient", "permanent"} # {}}

SplitLetters == {l \in Letter : "continued" \in answers[l]}

Post == INSTANCE Courier WITH refused <- RefusedLetters, split <- SplitLetters

\* Every behaviour of the forward module is one of the abstract courier.
ImplementsCourier == Post!Spec
=============================================================================
