--------------------------- MODULE Pop3Refinement ---------------------------
(***************************************************************************)
(* Pop3 implements Maildrop: rows, ids, spelled names, numbers, markers    *)
(* and lock flags amount to mailboxes that one session at a time owns.     *)
(***************************************************************************)
EXTENDS Pop3

Datas(rows) == {r.data : r \in rows}

OwnerOf(a) ==
    IF \E s \in open : Holder(s) = a
      THEN CHOOSE s \in open : Holder(s) = a
      ELSE NULL

Box == [a \in Account |-> Datas({r \in mail : AccountOf[r.user] = a})]

Owner == [a \in Account |-> OwnerOf(a)]

\* What session s has marked.
Marked(s) == Datas({mbox[s].map[i] : i \in mbox[s].deleted})

Condemned == [a \in Account |-> UNION {Marked(s) : s \in {t \in open : Holder(t) = a}}]

Removing == {a \in Account : closing # NULL /\ Holder(closing) = a}

Drop == INSTANCE Maildrop WITH
    Mail <- 1..MaxMail, Reliable <- ~DbMayFail,
    box <- Box, owner <- Owner, condemned <- Condemned, removing <- Removing

\* Every behaviour of the POP3 sessions is one of the abstract mailboxes.
ImplementsMaildrop == Drop!Spec
=============================================================================
