------------------------------ MODULE Maildrop ------------------------------
(***************************************************************************)
(* What the server promises about the mailboxes of its accounts, without   *)
(* names, numbers, ids or lock flags: mails arrive at any time; one        *)
(* session at a time has a mailbox; it may condemn mails that are in it,   *)
(* take that back, and carry it out, after which it is done.  A crash      *)
(* ends every session and loses no mail that was not being removed.        *)
(***************************************************************************)
CONSTANTS Account, Session, Mail, NULL,
          Reliable   \* does every statement of the database succeed?

VARIABLES box,        \* the mails in each account's mailbox
          owner,      \* the session that has the mailbox, or NULL
          condemned,  \* the mails that session wants removed
          removing    \* the accounts whose condemned mails are being removed

vars == <<box, owner, condemned, removing>>

TypeOK ==
    /\ box \in [Account -> SUBSET Mail]
    /\ owner \in [Account -> Session \cup {NULL}]
    /\ condemned \in [Account -> SUBSET Mail]
    /\ removing \in SUBSET Account

Init ==
    /\ box = [a \in Account |-> {}]
    /\ owner = [a \in Account |-> NULL]
    /\ condemned = [a \in Account |-> {}]
    /\ removing = {}

Arrive(a, m) ==
    /\ \A b \in Account : m \notin box[b]
    /\ box' = [box EXCEPT ![a] = @ \cup {m}]
    /\ UNCHANGED <<owner, condemned, removing>>

Acquire(a, s) ==
    /\ owner[a] = NULL
    /\ \A b \in Account : owner[b] # s
    /\ owner' = [owner EXCEPT ![a] = s]
    /\ UNCHANGED <<box, condemned, removing>>

Condemn(a, m) ==
    /\ owner[a] # NULL /\ a \notin removing
    /\ m \in box[a]
    /\ condemned' = [condemned EXCEPT ![a] = @ \cup {m}]
    /\ UNCHANGED <<box, owner, removing>>

Reprieve(a) ==
    /\ owner[a] # NULL /\ a \notin removing
    /\ condemned' = [condemned EXCEPT ![a] = {}]
    /\ UNCHANGED <<box, owner, removing>>

Commit(a) ==
    /\ owner[a] # NULL /\ a \notin removing
    /\ removing' = removing \cup {a}
    /\ UNCHANGED <<box, owner, condemned>>

Remove(a, m) ==
    /\ a \in removing
    /\ m \in condemned[a] \cap box[a]
    /\ box' = [box EXCEPT ![a] = @ \ {m}]
    /\ UNCHANGED <<owner, condemned, removing>>

\* A session that committed leaves only when all it condemned is removed.
Release(a) ==
    /\ owner[a] # NULL
    /\ Reliable /\ a \in removing => condemned[a] \cap box[a] = {}
    /\ owner' = [owner EXCEPT ![a] = NULL]
    /\ condemned' = [condemned EXCEPT ![a] = {}]
    /\ removing' = removing \ {a}
    /\ UNCHANGED box

Crash ==
    /\ owner' = [a \in Account |-> NULL]
    /\ condemned' = [a \in Account |-> {}]
    /\ removing' = {}
    /\ UNCHANGED box

Next ==
    \/ \E a \in Account :
        \/ \E m \in Mail : Arrive(a, m) \/ Condemn(a, m) \/ Remove(a, m)
        \/ \E s \in Session : Acquire(a, s)
        \/ Reprieve(a) \/ Commit(a) \/ Release(a)
    \/ Crash

Spec == Init /\ [][Next]_vars
=============================================================================
