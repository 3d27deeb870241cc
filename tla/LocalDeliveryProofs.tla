------------------------ MODULE LocalDeliveryProofs ------------------------
(***************************************************************************)
(* The server of SMTP and POP3 sessions implements Pop3, for every number  *)
(* of sessions, names, accounts, mails and restarts; so what Pop3Proofs    *)
(* shows holds for the two together.  From that: no acknowledged mail is   *)
(* lost, if no SQLite statement fails.                                     *)
(***************************************************************************)
EXTENDS LocalDelivery, Pop3Proofs

-----------------------------------------------------------------------------
(* The recipient of a mail.                                                *)

\* A session that waits for DATA or for the body has a recipient, and every
\* recipient is an address.
Addressed ==
    /\ session \in [Client -> Smtp!SmtpSession]
    /\ \A c \in Client :
         session[c].state \in {"RCPT", "DATA"} => session[c].to \in Smtp!Address

LEMMA NoSessionType == Smtp!NoSession \in Smtp!SmtpSession
  BY DEF Smtp!NoSession, Smtp!SmtpSession, Smtp!SessionStates

\* A handler changes the session of its client only.
LEMMA OneSession ==
    ASSUME Addressed, NEW c \in Client, NEW new \in Smtp!SmtpSession,
           session' = [session EXCEPT ![c] = new],
           new.state \in {"RCPT", "DATA"} => new.to \in Smtp!Address
    PROVE  Addressed'
  BY DEF Addressed

\* Steps of Smtp keep it.
LEMMA SmtpStep == Addressed /\ Smtp!Next => Addressed'
<1> SUFFICES ASSUME Addressed, Smtp!Next PROVE Addressed'
  OBVIOUS
<1>0. \A c \in Client :
        /\ session[c] \in Smtp!SmtpSession
        /\ session[c].state \in {"RCPT", "DATA"} => session[c].to \in Smtp!Address
  BY DEF Addressed
<1> USE DEF Smtp!State, Smtp!SmtpSession, Smtp!SessionStates, Smtp!Becomes, Smtp!Goes
<1>1. ASSUME NEW c \in Client, NEW st \in Smtp!SessionStates,
             st \in {"RCPT", "DATA"} => session[c].state \in {"RCPT", "DATA"},
             session' = [session EXCEPT ![c] = [session[c] EXCEPT !.state = st]]
      PROVE  Addressed'
  <2> DEFINE new == [session[c] EXCEPT !.state = st]
  <2>1. new \in Smtp!SmtpSession /\ new.state = st /\ new.to = session[c].to
    BY <1>0
  <2>2. new.state \in {"RCPT", "DATA"} => new.to \in Smtp!Address
    BY <1>0, <1>1, <2>1
  <2>3. QED
    BY <1>1, <2>1, <2>2, OneSession
<1>2. ASSUME NEW c \in Client, Smtp!smtp_create_session(c) PROVE Addressed'
  BY <1>1, <1>2 DEF Smtp!smtp_create_session
<1>3. ASSUME NEW c \in Client, Smtp!smtp_helo(c) PROVE Addressed'
  BY <1>1, <1>3 DEF Smtp!smtp_helo
<1>4. ASSUME NEW c \in Client, Smtp!smtp_ehlo(c) PROVE Addressed'
  <2> DEFINE new == [session[c] EXCEPT !.state = "EHLO", !.type = "ESMTP"]
  <2>1. new \in Smtp!SmtpSession /\ new.state = "EHLO"
    BY <1>0
  <2>2. QED
    BY <1>4, <2>1, OneSession DEF Smtp!smtp_ehlo
<1>5. ASSUME NEW c \in Client, Smtp!smtp_auth(c) PROVE Addressed'
  BY <1>1, <1>5 DEF Smtp!smtp_auth
<1>6. ASSUME NEW c \in Client, Smtp!smtp_auth_ok(c) PROVE Addressed'
  <2> DEFINE new == [session[c] EXCEPT !.state = "HELO", !.authenticated = TRUE]
  <2>1. new \in Smtp!SmtpSession /\ new.state = "HELO"
    BY <1>0
  <2>2. QED
    BY <1>6, <2>1, OneSession DEF Smtp!smtp_auth_ok
<1>7. ASSUME NEW c \in Client, Smtp!smtp_auth_failed(c) PROVE Addressed'
  BY <1>1, <1>7 DEF Smtp!smtp_auth_failed
<1>8. ASSUME NEW c \in Client, NEW addr \in Sender, Smtp!smtp_mail_from(c, addr)
      PROVE Addressed'
  <2> DEFINE new == [session[c] EXCEPT !.state = "FROM", !.from = addr]
  <2>1. new \in Smtp!SmtpSession /\ new.state = "FROM"
    BY <1>0, LocalDeliveryAssumption
  <2>2. QED
    BY <1>8, <2>1, OneSession DEF Smtp!smtp_mail_from
<1>9. ASSUME NEW c \in Client, NEW addr \in Recipient, Smtp!smtp_rcpt_to(c, addr)
      PROVE Addressed'
  <2> DEFINE local == session[c].rcpt_local \/ Smtp!Local(addr)
             taken == session[c].authenticated \/ local
             new == [session[c] EXCEPT !.to = addr, !.rcpt_local = local,
                                       !.state = IF taken THEN "RCPT" ELSE @]
  <2>1. addr \in Smtp!Address
    BY LocalDeliveryAssumption
  <2>2. local \in BOOLEAN
    BY <1>0 DEF Smtp!Local, Smtp!config_has_user
  <2>3. new \in Smtp!SmtpSession /\ new.to = addr
    BY <1>0, <2>1, <2>2
  <2>4. session' = [session EXCEPT ![c] = new]
    BY <1>9 DEF Smtp!smtp_rcpt_to
  <2> HIDE DEF new
  <2>5. QED
    BY <2>1, <2>3, <2>4, OneSession
<1>10. ASSUME NEW c \in Client, Smtp!smtp_other_line(c) PROVE Addressed'
  <2> DEFINE new == IF session[c].state = "HELO"
                      THEN [session[c] EXCEPT !.from = NULL]
                      ELSE [session[c] EXCEPT !.to = NULL]
  <2>1. new \in Smtp!SmtpSession /\ new.state \in {"HELO", "FROM"}
    BY <1>0, <1>10 DEF Smtp!smtp_other_line
  <2>2. session' = [session EXCEPT ![c] = new]
    BY <1>10 DEF Smtp!smtp_other_line
  <2> HIDE DEF new
  <2>3. QED
    BY <2>1, <2>2, OneSession
<1>11. ASSUME NEW c \in Client, Smtp!smtp_data(c) PROVE Addressed'
  <2>1. session' = [session EXCEPT ![c] = [session[c] EXCEPT !.state = "DATA"]]
    BY <1>0, <1>11 DEF Smtp!smtp_data, Addressed
  <2>2. QED
    BY <1>1, <1>11, <2>1 DEF Smtp!smtp_data
<1>12. ASSUME NEW c \in Client, NEW l \in Line, Smtp!smtp_process_body_data(c, l)
       PROVE Addressed'
  <2> DEFINE new == [session[c] EXCEPT !.data = Append(@, l)]
  <2>1. Append(session[c].data, l) \in Seq(Line)
    BY <1>0
  <2>2. new \in Smtp!SmtpSession /\ new.to = session[c].to /\ new.state = "DATA"
    BY <1>0, <1>12, <2>1 DEF Smtp!smtp_process_body_data
  <2>3. session[c].state = "DATA"
    BY <1>12 DEF Smtp!smtp_process_body_data
  <2>4. session' = [session EXCEPT ![c] = new]
    BY <1>0, <1>12 DEF Smtp!smtp_process_body_data, Addressed
  <2> HIDE DEF new
  <2>5. QED
    BY <1>0, <2>2, <2>3, <2>4, OneSession
<1>13. ASSUME NEW c \in Client, Smtp!State(c) = "DATA",
              NEW route, Smtp!Handled(c, route)
       PROVE Addressed'
  <2>1. session' = [session EXCEPT ![c] = [session[c] EXCEPT !.state = "HELO"]]
    BY <1>0, <1>13 DEF Smtp!Handled, Addressed
  <2>2. QED
    BY <1>1, <2>1
<1>14. ASSUME NEW c \in Client, Smtp!smtp_deliver_local(c) PROVE Addressed'
  BY <1>13, <1>14 DEF Smtp!smtp_deliver_local
<1>15. ASSUME NEW c \in Client, Smtp!smtp_forward(c) PROVE Addressed'
  BY <1>13, <1>15 DEF Smtp!smtp_forward
<1>16. ASSUME NEW c \in Client, Smtp!smtp_reset_session(c) PROVE Addressed'
  <2> DEFINE new == [session[c] EXCEPT !.state = "HELO", !.rcpt_local = FALSE,
                                       !.from = NULL, !.to = NULL, !.data = <<>>]
  <2>1. <<>> \in Seq(Line)
    OBVIOUS
  <2>2. new \in Smtp!SmtpSession /\ new.state = "HELO"
    BY <1>0, <2>1
  <2>3. session' = [session EXCEPT ![c] = new]
    BY <1>0, <1>16 DEF Smtp!smtp_reset_session, Addressed
  <2> HIDE DEF new
  <2>4. QED
    BY <2>2, <2>3, OneSession
<1>17. ASSUME NEW c \in Client, Smtp!smtp_destroy_session(c) PROVE Addressed'
  <2>1. Smtp!NoSession.state = "NONE"
    BY DEF Smtp!NoSession
  <2>2. session' = [session EXCEPT ![c] = Smtp!NoSession]
    BY <1>17 DEF Smtp!smtp_destroy_session
  <2>3. QED
    BY <2>1, <2>2, NoSessionType, OneSession
<1>18. QED
  BY <1>2, <1>3, <1>4, <1>5, <1>6, <1>7, <1>8, <1>9, <1>10, <1>11, <1>12, <1>14,
     <1>15, <1>16, <1>17 DEF Smtp!Next


LEMMA ServerInitAddressed == ServerInit => Addressed
  BY NoSessionType DEF ServerInit, Smtp!Init, Addressed, Smtp!NoSession

LEMMA ServerStepAddressed == Addressed /\ [ServerNext]_serverVars => Addressed'
<1> SUFFICES ASSUME Addressed, [ServerNext]_serverVars PROVE Addressed'
  OBVIOUS
<1>1. ASSUME NEW c \in Client, smtp_takes(c) PROVE Addressed'
  BY <1>1, SmtpStep DEF smtp_takes, Smtp!Next
<1>2. CASE smtp_line
  BY <1>2, SmtpStep DEF smtp_line
<1>3. CASE pop3_line
  BY <1>3 DEF pop3_line, smtpOnly, Addressed
<1>4. CASE main
  BY <1>4, NoSessionType DEF main, Addressed, Smtp!NoSession
<1>5. CASE UNCHANGED serverVars
  BY <1>5 DEF serverVars, smtpOnly, Addressed
<1>6. QED
  BY <1>1, <1>2, <1>3, <1>4, <1>5 DEF ServerNext

-----------------------------------------------------------------------------
(* The refinement.                                                         *)

\* What a final dot does to the table is a delivery of Pop3, to the name the
\* recipient's address has.
LEMMA TakesDelivers ==
    ASSUME Addressed, NEW c \in Client, smtp_takes(c)
    PROVE  session[c].to.name \in Name /\ Deliver(session[c].to.name)
<1>1. session[c].to \in Smtp!Address
  BY DEF Addressed, smtp_takes, Smtp!smtp_deliver_local, Smtp!State
<1>2. session[c].to.name \in Name
  BY <1>1 DEF Smtp!Address
<1>3. mbox_push_mail(session[c].to.name)
  BY DEF smtp_takes, Smtp!smtp_deliver_local, Smtp!mbox_push_mail,
         mbox_push_mail, Smtp!NextIds, NextIds
<1>4. Deliver(session[c].to.name)
  BY <1>3 DEF smtp_takes, Deliver, pop3Vars
<1>5. QED
  BY <1>2, <1>4

LEMMA ServerStep == Addressed /\ [ServerNext]_serverVars => [Next]_vars
<1> SUFFICES ASSUME Addressed, [ServerNext]_serverVars PROVE [Next]_vars
  OBVIOUS
<1>1. ASSUME NEW c \in Client, smtp_takes(c) PROVE Next
  BY <1>1, TakesDelivers DEF Next
<1>2. CASE smtp_line
  BY <1>2 DEF smtp_line, pop3Vars, vars
<1>3. CASE pop3_line
  BY <1>3 DEF pop3_line
<1>4. CASE main
  BY <1>4 DEF main, Next
<1>5. CASE UNCHANGED serverVars
  BY <1>5 DEF serverVars, vars
<1>6. QED
  BY <1>1, <1>2, <1>3, <1>4, <1>5 DEF ServerNext

\* SMTP and POP3 sessions together are a behaviour of Pop3: what it assumes of
\* arriving mails is what SMTP sessions do, for every number of both.
THEOREM ServerImplementsPop3 == ServerSpec => ImplementsPop3
<1>1. ServerInit => Init
  BY DEF ServerInit
<1>2. QED
  BY <1>1, ServerInitAddressed, ServerStepAddressed, ServerStep, PTL
     DEF ServerSpec, ImplementsPop3, Spec


LEMMA ServerIsAddressed == ServerSpec => []Addressed
<1>1. QED
  BY ServerInitAddressed, ServerStepAddressed, PTL DEF ServerSpec

-----------------------------------------------------------------------------
(* Acknowledged mails.                                                     *)

\* The formula inside OnlyMarkedLeaves.
Allowed ==
    \A r \in mail \ mail' :
        /\ closing # NULL
        /\ Holder(closing) = AccountOf[r.user]
        /\ mboxlock[Holder(closing)]
        /\ \E i \in mbox[closing].deleted : mbox[closing].map[i] = r

\* What holds of the server's steps because it implements Pop3.
LEMMA ServerFacts == ServerSpec => []IInv /\ [][Allowed]_vars
<1>1. Spec => OnlyMarkedLeaves
  BY OnlyMarkedMailLeaves
<1>2. OnlyMarkedLeaves <=> [][Allowed]_vars
  BY DEF OnlyMarkedLeaves, Allowed
<1>3. QED
  BY <1>1, <1>2, Inductive, ServerImplementsPop3, PTL DEF ImplementsPop3

\* The mail that a final dot hands over is stored.
LEMMA TakesStores ==
    ASSUME Addressed, ~DbMayFail, NEW c \in Client, smtp_takes(c)
    PROVE  /\ mail \subseteq mail'
           /\ \E r \in mail' : r.data = arrived' /\ r.user = session[c].to.name
<1>1. mbox_push_mail(session[c].to.name)
  BY TakesDelivers DEF Deliver
<1>2. PICK id \in NextIds :
        mail' = mail \cup {[id |-> id, user |-> session[c].to.name,
                            data |-> arrived + 1]}
  BY <1>1 DEF mbox_push_mail
<1>3. arrived' = arrived + 1
  BY <1>1 DEF mbox_push_mail
<1> DEFINE row == [id |-> id, user |-> session[c].to.name, data |-> arrived + 1]
<1>4. row.data = arrived' /\ row.user = session[c].to.name
  BY <1>3
<1> HIDE DEF row
<1>5. mail' = mail \cup {row}
  BY <1>2 DEF row
<1>6. QED
  BY <1>4, <1>5

LEMMA NothingLostStep ==
    ASSUME ~DbMayFail
    PROVE  NothingLost /\ Addressed /\ [ServerNext]_serverVars /\ [Allowed]_vars
                => NothingLost'
<1> SUFFICES ASSUME NothingLost, Addressed, [ServerNext]_serverVars, [Allowed]_vars
             PROVE  NothingLost'
  OBVIOUS
<1>1. ASSUME NEW c \in Client, smtp_takes(c) PROVE NothingLost'
  <2>1. removed' = removed
        /\ acked' = acked \cup {[data |-> arrived', name |-> session[c].to.name]}
    BY <1>1 DEF smtp_takes
  <2>2. QED
    BY <1>1, <2>1, TakesStores DEF NothingLost
<1>2. CASE pop3_line
  <2>1. acked' = acked /\ removed \subseteq removed'
    BY <1>2 DEF pop3_line, smtpOnly
  <2> SUFFICES ASSUME NEW a \in acked,
                      NEW r \in mail \ mail', r.data = a.data, r.user = a.name
               PROVE  \E q \in removed' :
                        q.data = a.data /\ q.account = AccountOf[a.name]
    BY <2>1 DEF NothingLost
  <2>2. Allowed
    BY DEF vars
  <2>3. closing # NULL /\ Holder(closing) = AccountOf[a.name]
    BY <2>2 DEF Allowed
  <2>4. r \in {mbox[closing].map[i] : i \in mbox[closing].deleted} \ mail'
    BY <2>2 DEF Allowed
  <2>5. [data |-> r.data, account |-> Holder(closing)] \in removed'
    BY <1>2, <2>3, <2>4 DEF pop3_line
  <2>6. QED
    BY <2>3, <2>5
<1>3. CASE smtp_line \/ main \/ UNCHANGED serverVars
  <2>1. mail' = mail /\ acked' = acked /\ removed' = removed
    BY <1>3 DEF smtp_line, main, Restart, serverVars, vars
  <2>2. QED
    BY <2>1 DEF NothingLost
<1>4. QED
  BY <1>1, <1>2, <1>3 DEF ServerNext

\* A mail for which the sender got 250 stays in the table until a session of
\* its recipient has it marked and ends with QUIT, whatever other sessions do
\* and whenever the process dies; if no SQLite statement fails.
THEOREM NoMailIsLost ==
    ASSUME ~DbMayFail
    PROVE  ServerSpec => []NothingLost
<1>1. ServerInit => NothingLost
  BY DEF ServerInit, NothingLost
<1>2. QED
  BY <1>1, NothingLostStep, ServerFacts, ServerIsAddressed, PTL DEF ServerSpec

\* A login opens a mailbox with every row of the name it was made with.
LEMMA LoginShowsRows ==
    ASSUME TypeOK, ~DbMayFail, NEW s \in Session, pop3_check_passwd(s),
           NEW r \in mail, r.user = user[s]
    PROVE  \E i \in 1..mbox'[s].count : mbox'[s].map[i] = r
<1>1. PICK mb \in mbox_init(user[s]) : mbox' = [mbox EXCEPT ![s] = mb]
  BY DEF pop3_check_passwd
<1>2. mbox'[s] = mb
  BY <1>1 DEF TypeOK
<1>3. mb \in Mailboxes(RowsOf(user[s]))
  BY <1>1 DEF mbox_init
<1>4. PICK f \in Bijection(1..Cardinality(RowsOf(user[s])), RowsOf(user[s])) :
        mb = [count |-> Cardinality(RowsOf(user[s])), map |-> f, deleted |-> {}]
  BY <1>3 DEF Mailboxes
<1>5. r \in RowsOf(user[s])
  BY DEF RowsOf
<1>6. \E i \in 1..Cardinality(RowsOf(user[s])) : f[i] = r
  BY <1>4, <1>5 DEF Bijection, Surjection
<1>7. QED
  BY <1>2, <1>4, <1>6

\* The formula inside NextLoginShows.
Shown ==
    \A s \in open' \ open : \A a \in acked :
        \/ a.name # user[s]
        \/ \E q \in removed : q.data = a.data
        \/ \E i \in 1..mbox'[s].count : mbox'[s].map[i].data = a.data

LEMMA LoginStep ==
    ASSUME ~DbMayFail
    PROVE  IInv /\ NothingLost /\ Addressed /\ [ServerNext]_serverVars
                => [Shown]_serverVars
<1> SUFFICES ASSUME IInv, NothingLost, Addressed, ServerNext,
                    NEW s \in open' \ open, NEW a \in acked, a.name = user[s],
                    ~ \E q \in removed : q.data = a.data
             PROVE  \E i \in 1..mbox'[s].count : mbox'[s].map[i].data = a.data
  BY DEF Shown
<1>1. PICK r \in mail : r.data = a.data /\ r.user = user[s]
  BY DEF NothingLost
<1>2. Next
  BY ServerStep DEF vars
<1>3. \E t \in Session : pop3_check_passwd(t)
  BY <1>2 DEF Next, pop3_create_session, pop3_check_user,
       pop3_check_passwd_locked, pop3_dele_mailbox, pop3_rset_mailbox,
       pop3_quit_auth, pop3_quit_session, pop3_destroy_session, Gone,
       mbox_close_step, pop3_quit_done, Deliver, Restart
<1>4. s \in Session /\ pop3_check_passwd(s)
  BY <1>3 DEF pop3_check_passwd
<1>5. QED
  BY <1>1, <1>4, LoginShowsRows DEF IInv

\* Whoever logs in is shown every mail that was acknowledged for the name he
\* logs in with and not deleted since; if no SQLite statement fails.
THEOREM LoginsShowMails ==
    ASSUME ~DbMayFail
    PROVE  ServerSpec => NextLoginShows
<1>1. NextLoginShows <=> [][Shown]_serverVars
  BY DEF NextLoginShows, Shown
<1>2. QED
  BY <1>1, LoginStep, NoMailIsLost, ServerFacts, ServerIsAddressed, PTL
     DEF ServerSpec

=============================================================================
