--------------------------- MODULE LocalDelivery ---------------------------
(***************************************************************************)
(* The way of a mail inside the server: taken by an SMTP session, stored   *)
(* in the table, shown and removed by a POP3 session.  Smtp and Pop3 share *)
(* the table and the one thread; no SMTP handler runs while a QUIT deletes *)
(* mails, and a restart ends the sessions of both.                         *)
(***************************************************************************)
EXTENDS Pop3, Sequences

CONSTANTS Client, Host, MyHost, Sender, Recipient, Line, MaxLines  \* see Smtp

VARIABLES session, typed, fresh, last,  \* see Smtp
          acked,    \* history: the mails for which SMTP clients got a 250
          removed   \* history: the marked mails that are gone, and for whom

Smtp == INSTANCE Smtp

ASSUME LocalDeliveryAssumption ==
    /\ Sender \subseteq Smtp!Address
    /\ Recipient \subseteq Smtp!Address

smtpOnly == <<session, typed, fresh, last>>
serverVars == <<vars, smtpOnly, acked, removed>>

ServerInit ==
    /\ Init
    /\ Smtp!Init
    /\ acked = {}
    /\ removed = {}

\* The final dot of a mail for a local recipient, and its 250.
smtp_takes(c) ==
    /\ closing = NULL
    /\ Smtp!smtp_deliver_local(c)
    /\ acked' = acked \cup {[data |-> arrived', name |-> session[c].to.name]}
    /\ UNCHANGED <<pop3Vars, crashes, removed>>

\* Every other line of an SMTP client.
smtp_line ==
    /\ closing = NULL
    /\ Smtp!Next
    /\ UNCHANGED <<mail, arrived, mboxlock, pop3Vars, crashes, acked, removed>>

\* A line of a POP3 client, or one statement of its QUIT.
pop3_line ==
    /\ Next
    /\ arrived' = arrived /\ crashes' = crashes
    /\ removed' = IF closing = NULL THEN removed ELSE
         removed \cup
         {[data |-> r.data, account |-> Holder(closing)] :
            r \in {mbox[closing].map[i] : i \in mbox[closing].deleted} \ mail'}
    /\ UNCHANGED <<smtpOnly, acked>>

\* The process dies and is started again: main, and all sessions are new.
main ==
    /\ Restart
    /\ session' = [c \in Client |-> Smtp!NoSession]
    /\ typed' = [c \in Client |-> <<>>]
    /\ fresh' = [c \in Client |-> TRUE]
    /\ UNCHANGED <<last, acked, removed>>

ServerNext == \/ \E c \in Client : smtp_takes(c)
              \/ smtp_line
              \/ pop3_line
              \/ main

ServerSpec == ServerInit /\ [][ServerNext]_serverVars

-----------------------------------------------------------------------------
\* What Pop3 assumes of deliveries is what SMTP sessions do: together they are
\* a behaviour of Pop3, so that all that holds there holds here.
ImplementsPop3 == Spec

\* A mail that was acknowledged is in the table, under its content and the
\* name of its recipient, until a session of that recipient's account has it
\* marked and ends with QUIT; not even a restart in the middle of one loses it.  (If no
\* SQLite statement fails.)
NothingLost ==
    \A a \in acked :
        \/ \E r \in mail : r.data = a.data /\ r.user = a.name
        \/ \E q \in removed : q.data = a.data /\ q.account = AccountOf[a.name]

\* Whoever logs in is shown every mail that was acknowledged to its sender for
\* the name he logs in with, and that was not deleted since.
NextLoginShows ==
    [][\A s \in open' \ open : \A a \in acked :
          \/ a.name # user[s]
          \/ \E q \in removed : q.data = a.data
          \/ \E i \in 1..mbox'[s].count : mbox'[s].map[i].data = a.data]_serverVars

=============================================================================
