----------------------------- MODULE SmtpProofs -----------------------------
(***************************************************************************)
(* What the SMTP sessions guarantee for every number of clients, every     *)
(* user list and every sequence of lines.                                  *)
(***************************************************************************)
EXTENDS Smtp, TLAPS

\* How the flag rcpt_local and the body relate to the envelope of a session.
\* Before the first mail of a fresh session is taken the flag is right.
Consistent(c) ==
    /\ State(c) \in {"RCPT", "DATA"} =>
           session[c].authenticated \/ session[c].rcpt_local
    /\ State(c) \in {"FROM", "RCPT", "DATA"} => session[c].from # NULL
    /\ State(c) \in {"RCPT", "DATA"} => session[c].to # NULL
    /\ fresh[c] =>
           IF State(c) \in {"RCPT", "DATA"}
             THEN session[c].rcpt_local <=> Local(session[c].to)
             ELSE ~session[c].rcpt_local
    /\ fresh[c] => session[c].data = IF State(c) = "DATA" THEN typed[c] ELSE <<>>

\* The types without the table of mails, which the sessions only add to.
SessionTypes ==
    /\ session \in [Client -> SmtpSession]
    /\ typed \in [Client -> Seq(Line)]
    /\ fresh \in [Client -> BOOLEAN]
    /\ last \in Mail \cup {NULL}

IInv ==
    /\ SessionTypes
    /\ \A c \in Client : Consistent(c)
    /\ NoOpenRelay
    /\ FirstMailFaithful

LEMMA InitIInv == Init => IInv
<1> SUFFICES ASSUME Init PROVE IInv
  OBVIOUS
<1>1. NoSession \in SmtpSession
  BY DEF NoSession, SmtpSession, SessionStates
<1>2. \A c \in Client : Consistent(c)
  BY DEF Init, Consistent, State, NoSession
<1>3. SessionTypes
  BY <1>1 DEF Init, SessionTypes
<1>4. QED
  BY <1>2, <1>3 DEF Init, IInv, NoOpenRelay, FirstMailFaithful

\* A handler that only changes the session of c leaves the others consistent.
LEMMA OtherClients ==
    ASSUME IInv, NEW c \in Client, NEW new \in SmtpSession,
           session' = [session EXCEPT ![c] = new],
           \A d \in Client \ {c} : typed'[d] = typed[d] /\ fresh'[d] = fresh[d],
           Consistent(c)'
    PROVE  /\ \A d \in Client : Consistent(d)'
           /\ session' \in [Client -> SmtpSession]
<1>1. session' \in [Client -> SmtpSession]
  BY DEF IInv, SessionTypes
<1>2. ASSUME NEW d \in Client \ {c} PROVE Consistent(d)'
  <2>1. session'[d] = session[d] /\ typed'[d] = typed[d] /\ fresh'[d] = fresh[d]
    BY DEF IInv, SessionTypes
  <2>2. Consistent(d)
    BY DEF IInv
  <2>3. QED
    BY <2>1, <2>2 DEF Consistent, State
<1>3. QED
  BY <1>1, <1>2

\* The same for the handlers that do not end a mail.
LEMMA SessionOnly ==
    ASSUME IInv, NEW c \in Client, NEW new \in SmtpSession, Becomes(c, new),
           Consistent(c)'
    PROVE  IInv'
<1>1. \A d \in Client : Consistent(d)'
  BY OtherClients DEF Becomes
<1>2. SessionTypes'
  BY OtherClients DEF Becomes, IInv, SessionTypes
<1>3. QED
  BY <1>1, <1>2 DEF Becomes, IInv, NoOpenRelay, FirstMailFaithful

\* The end of a mail, in the table or not.
LEMMA HandledIInv ==
    ASSUME IInv, NEW c \in Client, State(c) = "DATA",
           NEW route \in {"mailbox", "forward", "refused"},
           session[c].rcpt_local <=> route = "mailbox",
           Handled(c, route)
    PROVE  IInv'
<1> DEFINE new == [session[c] EXCEPT !.state = "HELO"]
<1>1. session[c] \in SmtpSession /\ Consistent(c)
  BY DEF IInv, SessionTypes
<1>2. new \in SmtpSession /\ session' = [session EXCEPT ![c] = new]
  BY <1>1 DEF Handled, SmtpSession, SessionStates, IInv, SessionTypes
<1>3. ~fresh'[c] /\ session'[c] = new
  BY <1>2 DEF Handled, IInv, SessionTypes
<1>4. Consistent(c)'
  BY <1>1, <1>2, <1>3 DEF Consistent, State, SmtpSession
<1>5. \A d \in Client \ {c} : typed'[d] = typed[d] /\ fresh'[d] = fresh[d]
  BY DEF Handled, IInv, SessionTypes
<1>6. /\ \A d \in Client : Consistent(d)'
      /\ session' \in [Client -> SmtpSession]
  BY <1>2, <1>4, <1>5, OtherClients
<1>7. last' = Entry(c, route)
  BY DEF Handled
<1>8. session[c].to \in Address
  BY <1>1 DEF Consistent, SmtpSession
<1>9. last' \in Mail
  BY <1>1, <1>7, <1>8 DEF Entry, Mail, SmtpSession, IInv, SessionTypes
<1>10. SessionTypes'
  BY <1>6, <1>9 DEF SessionTypes, Handled, IInv
<1>11. NoOpenRelay'
  BY <1>1, <1>7 DEF NoOpenRelay, Entry, Consistent
<1>12. FirstMailFaithful'
  BY <1>1, <1>7 DEF FirstMailFaithful, Entry, Consistent
<1>13. QED
  BY <1>6, <1>10, <1>11, <1>12 DEF IInv

LEMMA NextIInv == IInv /\ [Next]_smtpVars => IInv'
<1> SUFFICES ASSUME IInv, [Next]_smtpVars PROVE IInv'
  OBVIOUS
<1>0. \A c \in Client : session[c] \in SmtpSession /\ Consistent(c)
  BY DEF IInv, SessionTypes
<1> USE DEF State, SmtpSession, SessionStates
<1>1. ASSUME NEW c \in Client, smtp_create_session(c) PROVE IInv'
  <2> DEFINE new == [session[c] EXCEPT !.state = "NEW"]
  <2>1. new \in SmtpSession /\ Becomes(c, new)
    BY <1>0, <1>1 DEF smtp_create_session, Goes
  <2>2. Consistent(c)'
    BY <1>0, <1>1, <2>1
       DEF smtp_create_session, Becomes, Consistent, IInv, SessionTypes
  <2>3. QED
    BY <2>1, <2>2, SessionOnly
<1>2. ASSUME NEW c \in Client, smtp_helo(c) PROVE IInv'
  <2> DEFINE new == [session[c] EXCEPT !.state = "HELO"]
  <2>1. new \in SmtpSession /\ Becomes(c, new)
    BY <1>0, <1>2 DEF smtp_helo, Goes
  <2>2. Consistent(c)'
    BY <1>0, <1>2, <2>1 DEF smtp_helo, Becomes, Consistent, IInv, SessionTypes
  <2>3. QED
    BY <2>1, <2>2, SessionOnly
<1>3. ASSUME NEW c \in Client, smtp_ehlo(c) PROVE IInv'
  <2> DEFINE new == [session[c] EXCEPT !.state = "EHLO", !.type = "ESMTP"]
  <2>1. new \in SmtpSession /\ Becomes(c, new)
    BY <1>0, <1>3 DEF smtp_ehlo
  <2>2. Consistent(c)'
    BY <1>0, <1>3, <2>1 DEF smtp_ehlo, Becomes, Consistent, IInv, SessionTypes
  <2>3. QED
    BY <2>1, <2>2, SessionOnly
<1>4. ASSUME NEW c \in Client, smtp_auth(c) PROVE IInv'
  <2> DEFINE new == [session[c] EXCEPT !.state = "AUTH"]
  <2>1. new \in SmtpSession /\ Becomes(c, new)
    BY <1>0, <1>4 DEF smtp_auth, Goes
  <2>2. Consistent(c)'
    BY <1>0, <1>4, <2>1 DEF smtp_auth, Becomes, Consistent, IInv, SessionTypes
  <2>3. QED
    BY <2>1, <2>2, SessionOnly
<1>5. ASSUME NEW c \in Client, smtp_auth_ok(c) PROVE IInv'
  <2> DEFINE new == [session[c] EXCEPT !.state = "HELO", !.authenticated = TRUE]
  <2>1. new \in SmtpSession /\ Becomes(c, new)
    BY <1>0, <1>5 DEF smtp_auth_ok
  <2>2. Consistent(c)'
    BY <1>0, <1>5, <2>1
       DEF smtp_auth_ok, Becomes, Consistent, IInv, SessionTypes
  <2>3. QED
    BY <2>1, <2>2, SessionOnly
<1>6. ASSUME NEW c \in Client, smtp_auth_failed(c) PROVE IInv'
  <2> DEFINE new == [session[c] EXCEPT !.state = "EHLO"]
  <2>1. new \in SmtpSession /\ Becomes(c, new)
    BY <1>0, <1>6 DEF smtp_auth_failed, Goes
  <2>2. Consistent(c)'
    BY <1>0, <1>6, <2>1
       DEF smtp_auth_failed, Becomes, Consistent, IInv, SessionTypes
  <2>3. QED
    BY <2>1, <2>2, SessionOnly
<1>7. ASSUME NEW c \in Client, NEW addr \in Sender, smtp_mail_from(c, addr)
      PROVE IInv'
  <2> DEFINE new == [session[c] EXCEPT !.state = "FROM", !.from = addr]
  <2>1. addr \in Address /\ addr # NULL
    BY SmtpAssumption
  <2>2. new \in SmtpSession /\ Becomes(c, new)
    BY <1>0, <1>7, <2>1 DEF smtp_mail_from
  <2>3. Consistent(c)'
    BY <1>0, <1>7, <2>1, <2>2
       DEF smtp_mail_from, Becomes, Consistent, IInv, SessionTypes
  <2>4. QED
    BY <2>2, <2>3, SessionOnly
<1>8. ASSUME NEW c \in Client, NEW addr \in Recipient, smtp_rcpt_to(c, addr)
      PROVE IInv'
  <2> DEFINE local == session[c].rcpt_local \/ Local(addr)
             taken == session[c].authenticated \/ local
             new == [session[c] EXCEPT !.to = addr, !.rcpt_local = local,
                                       !.state = IF taken THEN "RCPT" ELSE @]
  <2>1. addr \in Address /\ addr # NULL
    BY SmtpAssumption
  <2>2. local \in BOOLEAN
    BY <1>0 DEF Local, config_has_user
  <2>3. new \in SmtpSession /\ Becomes(c, new)
    BY <1>0, <1>8, <2>1, <2>2 DEF smtp_rcpt_to
  <2>4. /\ session'[c].state = IF taken THEN "RCPT" ELSE "FROM"
        /\ session'[c].to = addr
        /\ session'[c].rcpt_local = local
        /\ session'[c].authenticated = session[c].authenticated
        /\ session'[c].from = session[c].from
        /\ session'[c].data = session[c].data
        /\ UNCHANGED <<typed, fresh>>
    BY <1>0, <1>8, <2>3 DEF smtp_rcpt_to, Becomes, IInv, SessionTypes
  <2>5. Consistent(c)'
    <3> HIDE DEF new
    <3>1. fresh[c] => /\ ~session[c].rcpt_local
                      /\ session[c].data = <<>>
      BY <1>0, <1>8 DEF smtp_rcpt_to, Consistent
    <3>2. session[c].from # NULL
      BY <1>0, <1>8 DEF smtp_rcpt_to, Consistent
    <3>3. fresh[c] => (local <=> Local(addr))
      BY <3>1
    <3>4. CASE taken
      BY <2>1, <2>4, <3>1, <3>2, <3>3, <3>4 DEF Consistent
    <3>5. CASE ~taken
      BY <2>1, <2>4, <3>1, <3>2, <3>3, <3>5 DEF Consistent
    <3>6. QED
      BY <3>4, <3>5
  <2>6. QED
    BY <2>3, <2>5, SessionOnly
<1>9. ASSUME NEW c \in Client, smtp_other_line(c) PROVE IInv'
  <2> DEFINE new == IF State(c) = "HELO" THEN [session[c] EXCEPT !.from = NULL]
                                         ELSE [session[c] EXCEPT !.to = NULL]
  <2>1. new \in SmtpSession /\ Becomes(c, new)
    BY <1>0, <1>9 DEF smtp_other_line
  <2>2. session'[c] = new /\ UNCHANGED <<typed, fresh>>
    BY <2>1 DEF Becomes, IInv, SessionTypes
  <2>3. Consistent(c)'
    BY <1>0, <1>9, <2>1, <2>2 DEF smtp_other_line, Consistent
  <2>4. QED
    BY <2>1, <2>3, SessionOnly
<1>10. ASSUME NEW c \in Client, smtp_data(c) PROVE IInv'
  <2> DEFINE new == [session[c] EXCEPT !.state = "DATA"]
  <2>1. new \in SmtpSession /\ session' = [session EXCEPT ![c] = new]
    BY <1>0, <1>10 DEF smtp_data, IInv, SessionTypes
  <2>2. /\ session'[c] = new /\ fresh'[c] = fresh[c] /\ typed'[c] = <<>>
        /\ \A d \in Client \ {c} : typed'[d] = typed[d] /\ fresh'[d] = fresh[d]
    BY <1>10, <2>1 DEF smtp_data, IInv, SessionTypes
  <2>3. Consistent(c)'
    BY <1>0, <1>10, <2>1, <2>2 DEF smtp_data, Consistent
  <2>4. \A d \in Client : Consistent(d)'
    BY <2>1, <2>2, <2>3, OtherClients
  <2>5. SessionTypes'
    BY <1>10, <2>1 DEF smtp_data, SessionTypes, IInv
  <2>6. QED
    BY <1>10, <2>4, <2>5 DEF smtp_data, IInv, NoOpenRelay, FirstMailFaithful
<1>11. ASSUME NEW c \in Client, NEW l \in Line, smtp_process_body_data(c, l)
       PROVE IInv'
  <2> DEFINE new == [session[c] EXCEPT !.data = Append(@, l)]
  <2>0. Append(session[c].data, l) \in Seq(Line)
    BY <1>0, <1>11
  <2>1. new \in SmtpSession /\ session' = [session EXCEPT ![c] = new]
    BY <1>0, <1>11, <2>0 DEF smtp_process_body_data, IInv, SessionTypes
  <2>2. /\ session'[c] = new /\ fresh'[c] = fresh[c]
        /\ typed'[c] = Append(typed[c], l)
        /\ \A d \in Client \ {c} : typed'[d] = typed[d] /\ fresh'[d] = fresh[d]
    BY <1>11, <2>1 DEF smtp_process_body_data, IInv, SessionTypes
  <2>3. Consistent(c)'
    BY <1>0, <1>11, <2>1, <2>2 DEF smtp_process_body_data, Consistent
  <2>4. \A d \in Client : Consistent(d)'
    BY <2>1, <2>2, <2>3, OtherClients
  <2>5. SessionTypes'
    BY <1>11, <2>1 DEF smtp_process_body_data, SessionTypes, IInv
  <2>6. QED
    BY <1>11, <2>4, <2>5
       DEF smtp_process_body_data, IInv, NoOpenRelay, FirstMailFaithful
<1>12. ASSUME NEW c \in Client, smtp_deliver_local(c) PROVE IInv'
  BY <1>12, HandledIInv DEF smtp_deliver_local
<1>13. ASSUME NEW c \in Client, smtp_forward(c) PROVE IInv'
  BY <1>13, HandledIInv DEF smtp_forward
<1>14. ASSUME NEW c \in Client, smtp_reset_session(c) PROVE IInv'
  <2> DEFINE new == [session[c] EXCEPT !.state = "HELO", !.rcpt_local = FALSE,
                                       !.from = NULL, !.to = NULL,
                                       !.data = <<>>]
  <2>1. new \in SmtpSession /\ session' = [session EXCEPT ![c] = new]
    <3>1. <<>> \in Seq(Line)
      OBVIOUS
    <3>2. new \in SmtpSession
      BY <1>0, <3>1
    <3>3. session' = [session EXCEPT ![c] = new]
      BY <1>14 DEF smtp_reset_session, IInv, SessionTypes
    <3>4. QED
      BY <3>2, <3>3
  <2>2. /\ session'[c] = new
        /\ \A d \in Client \ {c} : typed'[d] = typed[d] /\ fresh'[d] = fresh[d]
    BY <1>14, <2>1 DEF smtp_reset_session, IInv, SessionTypes
  <2>3. /\ new.state = "HELO" /\ new.rcpt_local = FALSE /\ new.data = <<>>
    BY <1>0
  <2> HIDE DEF new
  <2>4. Consistent(c)'
    BY <2>2, <2>3 DEF Consistent
  <2>5. \A d \in Client : Consistent(d)'
    BY <2>1, <2>2, <2>4, OtherClients
  <2>6. SessionTypes'
    BY <1>14, <2>1 DEF smtp_reset_session, SessionTypes, IInv
  <2>7. QED
    BY <1>14, <2>5, <2>6
       DEF smtp_reset_session, IInv, NoOpenRelay, FirstMailFaithful
<1>15. ASSUME NEW c \in Client, smtp_destroy_session(c) PROVE IInv'
  <2>1. NoSession \in SmtpSession /\ session' = [session EXCEPT ![c] = NoSession]
    BY <1>15 DEF smtp_destroy_session, NoSession
  <2>2. /\ session'[c] = NoSession
        /\ \A d \in Client \ {c} : typed'[d] = typed[d] /\ fresh'[d] = fresh[d]
    BY <1>15, <2>1 DEF smtp_destroy_session, IInv, SessionTypes
  <2>3. Consistent(c)'
    BY <2>2 DEF Consistent, NoSession
  <2>4. \A d \in Client : Consistent(d)'
    BY <2>1, <2>2, <2>3, OtherClients
  <2>5. SessionTypes'
    BY <1>15, <2>1 DEF smtp_destroy_session, SessionTypes, IInv
  <2>6. QED
    BY <1>15, <2>4, <2>5
       DEF smtp_destroy_session, IInv, NoOpenRelay, FirstMailFaithful
<1>16. CASE UNCHANGED smtpVars
  BY <1>16 DEF smtpVars, IInv, SessionTypes, Consistent, NoOpenRelay,
               FirstMailFaithful, Local
<1>17. QED
  BY <1>1, <1>2, <1>3, <1>4, <1>5, <1>6, <1>7, <1>8, <1>9, <1>10, <1>11,
     <1>12, <1>13, <1>14, <1>15, <1>16 DEF Next

LEMMA Inductive == Spec => []IInv
<1>1. QED
  BY InitIInv, NextIInv, PTL DEF Spec

\* Only mails of sessions that sent the credentials of a user reach the
\* forward module.
THEOREM ServerIsNoOpenRelay == Spec => []NoOpenRelay
<1>1. IInv => NoOpenRelay
  BY DEF IInv
<1>2. QED
  BY <1>1, Inductive, PTL

\* The handlers never work with a missing sender or recipient.
THEOREM EnvelopeAlwaysComplete == Spec => []EnvelopeComplete
<1>1. IInv => EnvelopeComplete
  BY DEF IInv, Consistent, EnvelopeComplete
<1>2. QED
  BY <1>1, Inductive, PTL

\* The first mail of a session, and the first after each RSET, is taken as
\* it was sent and goes where its recipient says.
THEOREM FirstMailIsFaithful == Spec => []FirstMailFaithful
<1>1. IInv => FirstMailFaithful
  BY DEF IInv
<1>2. QED
  BY <1>1, Inductive, PTL
-----------------------------------------------------------------------------
(* The table.                                                              *)

TableTypes ==
    /\ mail \subseteq Row
    /\ arrived \in Nat
    /\ mboxlock \in [Account -> BOOLEAN]

LEMMA TableStep == IInv /\ TableTypes /\ [Next]_smtpVars => TableTypes'
<1> SUFFICES ASSUME IInv, TableTypes, [Next]_smtpVars PROVE TableTypes'
  OBVIOUS
<1>1. ASSUME NEW c \in Client, smtp_deliver_local(c) PROVE TableTypes'
  <2>1. session[c].to.name \in Name
    BY <1>1 DEF smtp_deliver_local, IInv, SessionTypes, Consistent, SmtpSession,
                Address, State
  <2>2. CASE UNCHANGED mail
    BY <1>1, <2>2 DEF TableTypes, smtp_deliver_local, mbox_push_mail
  <2>3. CASE \E id \in NextIds :
               mail' = mail \cup {[id |-> id, user |-> session[c].to.name,
                                   data |-> arrived + 1]}
    <3>1. NextIds \subseteq Nat \ {0}
      BY SmtpAssumption, MailboxAssumption DEF NextIds
    <3>2. arrived' \in Nat /\ mboxlock' = mboxlock
      BY <1>1 DEF TableTypes, smtp_deliver_local, mbox_push_mail
    <3>3. mail' \subseteq Row
      BY <2>1, <2>3, <3>1 DEF TableTypes, Row
    <3>4. QED
      BY <3>2, <3>3 DEF TableTypes
  <2>4. QED
    BY <1>1, <2>2, <2>3 DEF smtp_deliver_local, mbox_push_mail
<1>2. CASE UNCHANGED <<mail, arrived, mboxlock>>
  BY <1>2 DEF TableTypes
<1>3. QED
  BY <1>1, <1>2
     DEF Next, Becomes, Goes, smtp_create_session, smtp_helo, smtp_ehlo,
         smtp_auth, smtp_auth_ok, smtp_auth_failed, smtp_mail_from,
         smtp_rcpt_to, smtp_other_line, smtp_data, smtp_process_body_data,
         smtp_forward, smtp_reset_session, smtp_destroy_session, smtpVars

\* Every variable keeps its type: what is put into the table is a row for a
\* name, and what is handed over has a recipient.
THEOREM SmtpTypeCorrect == Spec => []TypeOK
<1>1. Init => TableTypes
  BY DEF Init, TableTypes
<1>2. IInv /\ TableTypes => TypeOK
  BY DEF IInv, SessionTypes, TableTypes, TypeOK
<1>3. QED
  BY <1>1, <1>2, TableStep, Inductive, PTL DEF Spec

=============================================================================
