------------------------------- MODULE Mailbox -------------------------------
(***************************************************************************)
(* The mailbox module (mailbox.c) over its one SQLite table, and the       *)
(* per-account mailbox lock of the user list (config.c).                   *)
(*                                                                         *)
(* This module holds the state that outlives or is shared by sessions and  *)
(* the operations on it; Pop3 and Smtp say when they are called.           *)
(*                                                                         *)
(* A mail row is [id, user, data]: the INTEGER PRIMARY KEY, the user name  *)
(* exactly as the sender spelled it, and the content.  Contents are        *)
(* numbered in order of arrival, so that two mails are never confused; the *)
(* size column is a function of the content and is not kept apart.         *)
(*                                                                         *)
(* The server is the only program that writes the table.                   *)
(***************************************************************************)
EXTENDS Naturals, FiniteSets, Functions

CONSTANTS Account,    \* the entries of the user list, one per line of the CSV
          Name,       \* the spellings of user names that clients send
          AccountOf,  \* the account a spelling belongs to, NULL if none does
          NULL,       \* C's NULL: no account, no user, no session
          DbMayFail,  \* may a SQLite statement fail (its result is ignored)?
          MaxMail     \* bound: mails that ever arrive

ASSUME MailboxAssumption ==
    /\ NULL \notin Account
    /\ NULL \notin Name
    /\ AccountOf \in [Name -> Account \cup {NULL}]
    /\ DbMayFail \in BOOLEAN
    /\ MaxMail \in Nat

VARIABLES mail,      \* the table: the set of its rows
          arrived,   \* number of mails pushed so far (names the contents)
          mboxlock   \* user_mboxlock of every account

mailboxVars == <<mail, arrived, mboxlock>>

Row == [id : Nat \ {0}, user : Name, data : Nat]

-----------------------------------------------------------------------------
(* config.c: the user list.                                                *)

\* Names are compared after lower-casing, so every spelling finds the account.
config_has_user(n) == AccountOf[n] # NULL

config_user_locked(n) == mboxlock[AccountOf[n]]

config_set_user_mbox_lock(n, lock) ==
    mboxlock' = [mboxlock EXCEPT ![AccountOf[n]] = lock]

-----------------------------------------------------------------------------
(* mailbox.c.                                                              *)

\* Mutant of NextIds: the id is taken from the number of rows.
NextIdsByCount == {Cardinality(mail) + 1}

\* SQLite gives a row without an id the successor of the largest id in the
\* table, 1 in an empty table; an id comes back once the last row is deleted.
NextIds ==
    {id \in 1..MaxMail : /\ \A r \in mail : r.id < id
                         /\ id = 1 \/ \E r \in mail : r.id = id - 1}

\* The INSERT's result is not looked at: the mail may be lost.
mbox_push_mail(n) ==
    /\ arrived < MaxMail
    /\ arrived' = arrived + 1
    /\ \/ \E id \in NextIds :
            mail' = mail \cup {[id |-> id, user |-> n, data |-> arrived + 1]}
       \/ DbMayFail /\ UNCHANGED mail
    /\ UNCHANGED mboxlock

\* Mutant of RowsOf: the WHERE clause is missing.
RowsOfAnyone(n) == mail

\* WHERE user = ? compares the spelling, byte by byte.
RowsOf(n) == {r \in mail : r.user = n}

\* Mutant of Mailboxes: one mail less than there are.
MailboxesShort(rows) ==
    LET n == IF rows = {} THEN 0 ELSE Cardinality(rows) - 1
    IN  {[count |-> n, map |-> f, deleted |-> {}] : f \in Injection(1..n, rows)}

\* A mailbox object: the number of mails, the mail each number stands for
\* (id, and through the content the size, as they were when it was opened)
\* and the numbers with a delete marker.  The SELECT has no ORDER BY: any
\* numbering is possible.  A failing count leaves an empty mailbox.
Mailboxes(rows) ==
    {[count |-> Cardinality(rows), map |-> f, deleted |-> {}] :
        f \in Bijection(1..Cardinality(rows), rows)}

mbox_init(n) ==
    UNION {Mailboxes(rows) :
        rows \in {RowsOf(n)} \cup (IF DbMayFail THEN {{}} ELSE {})}

NoMailbox == [count |-> 0, map |-> <<>>, deleted |-> {}]

\* Mutant of Listed: numbers from 0.
ListedFromZero(mb, i) == i <= mb.count /\ 0 <= i /\ i \notin mb.deleted

\* The check LIST, UIDL, RETR and DELE make before they touch mail number i.
Listed(mb, i) == /\ i <= mb.count
                 /\ 0 < i
                 /\ i \notin mb.deleted

mbox_mark_deleted(mb, i) == [mb EXCEPT !.deleted = @ \cup {i}]

mbox_reset(mb) == [mb EXCEPT !.deleted = {}]

mbox_mail_uid(mb, i) == mb.map[i].id

\* The rows "DELETE FROM mail WHERE id = ?" leaves; a failure is not noticed.
DeleteOutcomes(id) ==
    {{r \in mail : r.id # id}} \cup (IF DbMayFail THEN {mail} ELSE {})

=============================================================================
