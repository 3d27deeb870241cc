----------------------------- MODULE Pop3Client -----------------------------
(***************************************************************************)
(* Pop3 together with what clients remember.  A client that leaves its     *)
(* mails on the server knows the ones it already has by the unique ids of  *)
(* the UIDL command.                                                       *)
(***************************************************************************)
EXTENDS Pop3

VARIABLE seen   \* history: which unique id stood for which mail, per account

\* UIDL without argument lists the mails that are not marked.
pop3_uidl_mailbox(s) ==
    /\ Ready(s, "START")
    /\ s \in open
    /\ seen' = seen \cup {<<Holder(s), mbox_mail_uid(mbox[s], i),
                            mbox[s].map[i].data>> :
                              i \in {j \in 1..mbox[s].count : Listed(mbox[s], j)}}
    /\ UNCHANGED vars

ClientInit == Init /\ seen = {}

ClientNext == \/ Next /\ UNCHANGED seen
              \/ \E s \in Session : pop3_uidl_mailbox(s)

ClientSpec == ClientInit /\ [][ClientNext]_<<vars, seen>>

-----------------------------------------------------------------------------
\* A unique id once shown to a client never stands for another mail of the
\* same account later (mailbox.c:251, usage_doc.tex: a number that grows by
\* one with every new mail).
UidNeverReused ==
    \A p, q \in seen : p[1] = q[1] /\ p[2] = q[2] => p[3] = q[3]

\* Whoever logs in finds every mail that was accepted for his account,
\* however sender and client spell the name (config.c: names are searched
\* case insensitively).
LoginShowsAll ==
    [][\A s \in open' \ open :
          \A r \in mail : AccountOf[r.user] = AccountOf[user[s]] =>
              \E i \in 1..mbox'[s].count : mbox'[s].map[i] = r]_vars

=============================================================================
