--------------------------- MODULE RelayingProofs ---------------------------
(***************************************************************************)
(* Who can make the server write to other servers, for every number of     *)
(* connections, mails, users and hosts, and whatever servers answer.       *)
(***************************************************************************)
EXTENDS Relaying, TLAPS

Client == Visitor \cup Conn

-----------------------------------------------------------------------------
(* The SMTP sessions of others.                                            *)

\* A session that got a recipient accepted is a user's, or the mail stays here.
Entitled(r) ==
    /\ r \in Smtp!SmtpSession
    /\ r.state \in {"RCPT", "DATA"} => r.authenticated \/ r.rcpt_local

Visitors ==
    /\ session = [c \in Client |-> session[c]]
    /\ \A v \in Visitor : Entitled(session[v])

LEMMA NoSessionEntitled == Entitled(Smtp!NoSession)
  BY DEF Entitled, Smtp!NoSession, Smtp!SmtpSession, Smtp!SessionStates

LEMMA OneSession ==
    ASSUME Visitors, NEW c \in Client, NEW new,
           session' = [session EXCEPT ![c] = new],
           c \in Visitor => Entitled(new)
    PROVE  Visitors'
  BY DEF Visitors

\* A client that is not a visitor leaves the visitors' sessions alone.
LEMMA OwnEnd ==
    ASSUME Visitors, NEW c \in Conn, NEW new,
           session' = [session EXCEPT ![c] = new]
    PROVE  Visitors'
  BY OneSession, RelayingAssumption DEF Client

\* An SMTP session is created, changed or ended for one client only.
LEMMA SmtpStep == Visitors /\ Smtp!Next => Visitors'
<1> SUFFICES ASSUME Visitors, NEW c \in Client,
       \/ Smtp!smtp_create_session(c)
       \/ Smtp!smtp_helo(c)
       \/ Smtp!smtp_ehlo(c)
       \/ Smtp!smtp_auth(c)
       \/ Smtp!smtp_auth_ok(c)
       \/ Smtp!smtp_auth_failed(c)
       \/ \E addr \in Sender : Smtp!smtp_mail_from(c, addr)
       \/ \E addr \in Recipient : Smtp!smtp_rcpt_to(c, addr)
       \/ Smtp!smtp_other_line(c)
       \/ Smtp!smtp_data(c)
       \/ \E l \in BodyLine : Smtp!smtp_process_body_data(c, l)
       \/ Smtp!smtp_deliver_local(c)
       \/ Smtp!smtp_forward(c)
       \/ Smtp!smtp_reset_session(c)
       \/ Smtp!smtp_destroy_session(c)
     PROVE Visitors'
  BY DEF Smtp!Next, Client
<1> DEFINE old == session[c]
<1>0. c \in Visitor => /\ old \in Smtp!SmtpSession
                       /\ old.state \in {"RCPT", "DATA"} =>
                             old.authenticated \/ old.rcpt_local
  BY DEF Visitors, Entitled
<1> USE DEF Smtp!State, Smtp!SmtpSession, Smtp!SessionStates, Smtp!Becomes,
            Smtp!Goes, Entitled
<1>1. ASSUME NEW st \in Smtp!SessionStates,
             st \in {"RCPT", "DATA"} => old.state \in {"RCPT", "DATA"},
             session' = [session EXCEPT ![c] = [old EXCEPT !.state = st]]
      PROVE  Visitors'
  <2>1. c \in Visitor => Entitled([old EXCEPT !.state = st])
    BY <1>0, <1>1
  <2>2. QED
    BY <1>1, <2>1, OneSession
<1>2. CASE Smtp!smtp_create_session(c)
  BY <1>1, <1>2 DEF Smtp!smtp_create_session
<1>3. CASE Smtp!smtp_helo(c)
  BY <1>1, <1>3 DEF Smtp!smtp_helo
<1>4. CASE Smtp!smtp_ehlo(c)
  <2> DEFINE new == [old EXCEPT !.state = "EHLO", !.type = "ESMTP"]
  <2>1. c \in Visitor => Entitled(new)
    BY <1>0
  <2>2. QED
    BY <1>4, <2>1, OneSession DEF Smtp!smtp_ehlo
<1>5. CASE Smtp!smtp_auth(c)
  BY <1>1, <1>5 DEF Smtp!smtp_auth
<1>6. CASE Smtp!smtp_auth_ok(c)
  <2> DEFINE new == [old EXCEPT !.state = "HELO", !.authenticated = TRUE]
  <2>1. c \in Visitor => Entitled(new)
    BY <1>0
  <2>2. QED
    BY <1>6, <2>1, OneSession DEF Smtp!smtp_auth_ok
<1>7. CASE Smtp!smtp_auth_failed(c)
  BY <1>1, <1>7 DEF Smtp!smtp_auth_failed
<1>8. ASSUME NEW addr \in Sender, Smtp!smtp_mail_from(c, addr) PROVE Visitors'
  <2> DEFINE new == [old EXCEPT !.state = "FROM", !.from = addr]
  <2>1. c \in Visitor => Entitled(new)
    BY <1>0, RelayingAssumption
  <2>2. QED
    BY <1>8, <2>1, OneSession DEF Smtp!smtp_mail_from
<1>9. ASSUME NEW addr \in Recipient, Smtp!smtp_rcpt_to(c, addr) PROVE Visitors'
  <2> DEFINE local == old.rcpt_local \/ Smtp!Local(addr)
             accepted == old.authenticated \/ local
             new == [old EXCEPT !.to = addr, !.rcpt_local = local,
                                !.state = IF accepted THEN "RCPT" ELSE @]
  <2>1. addr \in Smtp!Address
    BY RelayingAssumption
  <2>2. old.state = "FROM"
    BY <1>9 DEF Smtp!smtp_rcpt_to
  <2>3. c \in Visitor => local \in BOOLEAN
    BY <1>0 DEF Smtp!Local, Smtp!config_has_user
  <2>4. c \in Visitor =>
          /\ new \in Smtp!SmtpSession
          /\ new.state = IF accepted THEN "RCPT" ELSE "FROM"
          /\ new.authenticated = old.authenticated
          /\ new.rcpt_local = local
    BY <1>0, <2>1, <2>2, <2>3
  <2>5. session' = [session EXCEPT ![c] = new]
    BY <1>9 DEF Smtp!smtp_rcpt_to
  <2> HIDE DEF new
  <2>6. c \in Visitor => Entitled(new)
    BY <2>4
  <2>7. QED
    BY <2>5, <2>6, OneSession
<1>10. CASE Smtp!smtp_other_line(c)
  <2> DEFINE new == IF old.state = "HELO" THEN [old EXCEPT !.from = NULL]
                                          ELSE [old EXCEPT !.to = NULL]
  <2>1. c \in Visitor => Entitled(new)
    BY <1>0, <1>10 DEF Smtp!smtp_other_line
  <2>2. session' = [session EXCEPT ![c] = new]
    BY <1>10 DEF Smtp!smtp_other_line
  <2> HIDE DEF new
  <2>3. QED
    BY <2>1, <2>2, OneSession
<1>11. CASE Smtp!smtp_data(c)
  <2>1. session' = [session EXCEPT ![c] = [old EXCEPT !.state = "DATA"]]
    BY <1>11 DEF Smtp!smtp_data, Visitors
  <2>2. QED
    BY <1>1, <1>11, <2>1 DEF Smtp!smtp_data
<1>12. ASSUME NEW l \in BodyLine, Smtp!smtp_process_body_data(c, l)
       PROVE Visitors'
  <2> DEFINE new == [old EXCEPT !.data = Append(@, l)]
  <2>1. c \in Visitor => Append(old.data, l) \in Seq(BodyLine)
    BY <1>0
  <2>2. c \in Visitor => Entitled(new)
    BY <1>0, <2>1
  <2>3. session' = [session EXCEPT ![c] = new]
    BY <1>12 DEF Smtp!smtp_process_body_data, Visitors
  <2> HIDE DEF new
  <2>4. QED
    BY <2>2, <2>3, OneSession
<1>13. ASSUME NEW route, Smtp!Handled(c, route) PROVE Visitors'
  <2>1. session' = [session EXCEPT ![c] = [old EXCEPT !.state = "HELO"]]
    BY <1>13 DEF Smtp!Handled, Visitors
  <2>2. QED
    BY <1>1, <2>1
<1>14. CASE Smtp!smtp_deliver_local(c)
  BY <1>13, <1>14 DEF Smtp!smtp_deliver_local
<1>15. CASE Smtp!smtp_forward(c)
  BY <1>13, <1>15 DEF Smtp!smtp_forward
<1>16. CASE Smtp!smtp_reset_session(c)
  <2> DEFINE new == [old EXCEPT !.state = "HELO", !.rcpt_local = FALSE,
                                !.from = NULL, !.to = NULL, !.data = <<>>]
  <2>1. <<>> \in Seq(BodyLine)
    OBVIOUS
  <2>2. c \in Visitor => new \in Smtp!SmtpSession /\ new.state = "HELO"
    BY <1>0, <2>1
  <2>3. session' = [session EXCEPT ![c] = new]
    BY <1>16 DEF Smtp!smtp_reset_session, Visitors
  <2> HIDE DEF new
  <2>4. c \in Visitor => Entitled(new)
    BY <2>2
  <2>5. QED
    BY <2>3, <2>4, OneSession
<1>17. CASE Smtp!smtp_destroy_session(c)
  <2>1. session' = [session EXCEPT ![c] = Smtp!NoSession]
    BY <1>17 DEF Smtp!smtp_destroy_session
  <2>2. QED
    BY <2>1, NoSessionEntitled, OneSession
<1>18. QED
  BY <1>2, <1>3, <1>4, <1>5, <1>6, <1>7, <1>8, <1>9, <1>10, <1>11, <1>12, <1>14,
     <1>15, <1>16, <1>17


\* The server's own connections are served without touching those sessions.
LEMMA LoopStep ==
    ASSUME Visitors, NEW c \in Conn,
           loop_accepted(c) \/ loop_served(c) \/ loop_ended(c)
    PROVE  Visitors'
<1> USE DEF Smtp!State, Smtp!Becomes, Smtp!Goes
<1>1. CASE Smtp!smtp_create_session(c)
  BY <1>1, OwnEnd DEF Smtp!smtp_create_session
<1>2. CASE Smtp!smtp_helo(c)
  BY <1>2, OwnEnd DEF Smtp!smtp_helo
<1>3. ASSUME NEW addr, Smtp!smtp_mail_from(c, addr) PROVE Visitors'
  BY <1>3, OwnEnd DEF Smtp!smtp_mail_from
<1>4. ASSUME NEW addr, Smtp!smtp_rcpt_to(c, addr) PROVE Visitors'
  BY <1>4, OwnEnd DEF Smtp!smtp_rcpt_to
<1>5. CASE Smtp!smtp_data(c)
  <2>1. session' = [session EXCEPT ![c] = [session[c] EXCEPT !.state = "DATA"]]
    BY <1>5 DEF Smtp!smtp_data, Visitors
  <2>2. QED
    BY <2>1, OwnEnd
<1>6. CASE Smtp!smtp_destroy_session(c)
  BY <1>6, OwnEnd DEF Smtp!smtp_destroy_session
<1>7. QED
  BY <1>1, <1>2, <1>3, <1>4, <1>5, <1>6 DEF loop_accepted, loop_served, loop_ended

-----------------------------------------------------------------------------
(* The letters.                                                            *)

\* A letter on an active connection is one that was handed over.
Letters ==
    /\ fwd \in [Conn -> Forward!Session]
    /\ fate \in [Forward!Letter -> Forward!Fates]
    /\ \A c \in Forward!Active : fate[fwd[c].letter] # "none"

LEMMA SessionFacts ==
    /\ \A s \in Forward!Session :
         s # Forward!NoFwd => /\ s \in [state : Forward!States, letter : Forward!Letter]
                              /\ s.state \in Forward!States
                              /\ s.letter \in Forward!Letter
    /\ \A l \in Forward!Letter :
         /\ Forward!Opened(l) \in [state : Forward!States, letter : Forward!Letter]
         /\ Forward!Opened(l).letter = l
         /\ l.mail \in Message
         /\ Forward!Report(l) \in Forward!Letter
         /\ Forward!Report(l).mail = l.mail
  BY DEF Forward!Session, Forward!NoFwd, Forward!Opened, Forward!States,
         Forward!Letter, Forward!Report

\* One letter gets on the way, or one ends; the mails are those known before.
OfKnownMails ==
    \A l \in Forward!Letter : fate'[l] # "none" =>
        \E k \in Forward!Letter : fate[k] # "none" /\ l.mail = k.mail

\* Whatever the forward module does with a line, or the end of a connection,
\* it does for a mail it has: the error mail is about that mail.
LEMMA ForwardStep ==
    ASSUME Letters, NEW c \in Conn,
           Forward!fwd_process_input(c) \/ Forward!conn_eof(c)
    PROVE  Letters' /\ OfKnownMails
<1> DEFINE l == fwd[c].letter
           report == Forward!Report(l)
<1>1. /\ c \in Forward!Active
      /\ fwd[c] \in [state : Forward!States, letter : Forward!Letter]
      /\ fwd[c].state \in Forward!States
      /\ l \in Forward!Letter /\ fate[l] # "none"
  <2>1. c \in Forward!Active
    BY DEF Forward!fwd_process_input, Forward!conn_eof, Forward!fwd_accepted,
           Forward!fwd_write_failed, Forward!fwd_retry, Forward!fwd_nop,
           Forward!fwd_failed, Forward!fwd_quit, Forward!Reads
  <2>2. QED
    BY <2>1, SessionFacts DEF Letters, Forward!Active
<1> HIDE DEF l, report
\* The session goes on in another state.
<1>2. ASSUME NEW st \in Forward!States,
             fwd' = [fwd EXCEPT ![c] = [fwd[c] EXCEPT !.state = st]],
             NEW f \in Forward!Fates \ {"none"}, fate' = [fate EXCEPT ![l] = f]
      PROVE  Letters' /\ OfKnownMails
  <2> DEFINE new == [fwd[c] EXCEPT !.state = st]
  <2>1. new \in Forward!Session /\ new.letter = l
    BY <1>1 DEF Forward!Session, l
  <2> HIDE DEF new
  <2>2. /\ fwd' \in [Conn -> Forward!Session]
        /\ \A d \in Conn : fwd'[d] = IF d = c THEN new ELSE fwd[d]
    BY <1>2, <2>1 DEF Letters, new
  <2>3. /\ fate' \in [Forward!Letter -> Forward!Fates]
        /\ \A k \in Forward!Letter : fate'[k] = IF k = l THEN f ELSE fate[k]
    BY <1>1, <1>2 DEF Letters
  <2>4. \A d \in Forward!Active' : fate'[fwd'[d].letter] # "none"
    <3> SUFFICES ASSUME NEW d \in Forward!Active' PROVE fate'[fwd'[d].letter] # "none"
      OBVIOUS
    <3>1. CASE d = c
      BY <1>1, <2>1, <2>2, <2>3, <3>1
    <3>2. CASE d # c
      <4>1. d \in Forward!Active /\ fwd'[d] = fwd[d]
        BY <2>2, <3>2 DEF Forward!Active
      <4>2. fwd[d].letter \in Forward!Letter /\ fate[fwd[d].letter] # "none"
        BY <4>1, SessionFacts DEF Letters, Forward!Active
      <4>3. QED
        BY <2>3, <4>1, <4>2
    <3>3. QED
      BY <3>1, <3>2
  <2>5. OfKnownMails
    BY <1>1, <2>3 DEF OfKnownMails
  <2>6. QED
    BY <2>2, <2>3, <2>4, <2>5 DEF Letters
\* The session ends.
<1>3. ASSUME fwd' = [fwd EXCEPT ![c] = Forward!NoFwd],
             fate' \in [Forward!Letter -> Forward!Fates],
             \A k \in Forward!Letter : fate[k] # "none" => fate'[k] # "none",
             OfKnownMails
      PROVE  Letters' /\ OfKnownMails
  <2>1. /\ fwd' \in [Conn -> Forward!Session]
        /\ \A d \in Conn : fwd'[d] = IF d = c THEN Forward!NoFwd ELSE fwd[d]
    BY <1>3 DEF Letters, Forward!Session
  <2>2. \A d \in Forward!Active' : d \in Forward!Active /\ fwd'[d] = fwd[d]
    BY <2>1 DEF Forward!Active
  <2>3. \A d \in Forward!Active' : fate'[fwd'[d].letter] # "none"
    BY <1>3, <2>2, SessionFacts DEF Letters, Forward!Active
  <2>4. QED
    BY <1>3, <2>1, <2>3 DEF Letters
<1>4. ASSUME fwd' = [fwd EXCEPT ![c] = Forward!NoFwd],
             NEW f \in Forward!Fates \ {"none"}, fate' = [fate EXCEPT ![l] = f]
      PROVE  Letters' /\ OfKnownMails
  <2>1. /\ fate' \in [Forward!Letter -> Forward!Fates]
        /\ \A k \in Forward!Letter : fate'[k] = IF k = l THEN f ELSE fate[k]
    BY <1>1, <1>4 DEF Letters
  <2>2. OfKnownMails
    BY <1>1, <2>1 DEF OfKnownMails
  <2>3. QED
    BY <1>3, <1>4, <2>1, <2>2
<1>5. fate[l] \in Forward!Fates \ {"none"} /\ fate = [fate EXCEPT ![l] = fate[l]]
  BY <1>1 DEF Letters
<1>6. CASE Forward!conn_eof(c)
  <2>1. fwd' = [fwd EXCEPT ![c] = Forward!NoFwd]
    BY <1>6 DEF Forward!conn_eof, Forward!Freed
  <2>2. fate' = [fate EXCEPT ![l] = IF fate[l] = "queued" THEN "lost" ELSE fate[l]]
    BY <1>6 DEF Forward!conn_eof, l
  <2>3. (IF fate[l] = "queued" THEN "lost" ELSE fate[l]) \in Forward!Fates \ {"none"}
    BY <1>5 DEF Forward!Fates
  <2>4. QED
    BY <1>4, <2>1, <2>2, <2>3
<1>7. CASE Forward!fwd_accepted(c)
  <2>1. fwd[c].state # "QUIT"
    BY <1>7 DEF Forward!fwd_accepted
  <2>2. Forward!Following[fwd[c].state] \in Forward!States
    BY <1>1, <2>1 DEF Forward!Following, Forward!States
  <2>3. fwd' = [fwd EXCEPT ![c] = [fwd[c] EXCEPT
                              !.state = Forward!Following[fwd[c].state]]]
    BY <1>1, <1>7 DEF Forward!fwd_accepted, Letters
  <2>4. fate' = [fate EXCEPT ![l] = IF fwd[c].state = "SEND" THEN "done" ELSE fate[l]]
    BY <1>7 DEF Forward!fwd_accepted, l
  <2>5. (IF fwd[c].state = "SEND" THEN "done" ELSE fate[l]) \in Forward!Fates \ {"none"}
    BY <1>5 DEF Forward!Fates
  <2>6. QED
    BY <1>2, <2>2, <2>3, <2>4, <2>5
<1>8. CASE Forward!fwd_write_failed(c)
  <2>1. fwd' = [fwd EXCEPT ![c] = Forward!NoFwd]
    BY <1>8 DEF Forward!fwd_write_failed, Forward!Freed
  <2>2. fate' = [fate EXCEPT ![l] = IF fwd[c].state = "SEND" THEN "done" ELSE "lost"]
    BY <1>8 DEF Forward!fwd_write_failed, l
  <2>3. (IF fwd[c].state = "SEND" THEN "done" ELSE "lost") \in Forward!Fates \ {"none"}
    BY DEF Forward!Fates
  <2>4. QED
    BY <1>4, <2>1, <2>2, <2>3
<1>9. CASE Forward!fwd_retry(c)
  <2>1. fwd[c].state \notin {"NEW", "QUIT"}
    BY <1>9 DEF Forward!fwd_retry, Forward!Result
  <2>2. Forward!Previous[fwd[c].state] \in Forward!States
    BY <1>1, <2>1 DEF Forward!Previous, Forward!States
  <2>3. fwd' = [fwd EXCEPT ![c] = [fwd[c] EXCEPT
                              !.state = Forward!Previous[fwd[c].state]]]
    BY <1>1, <1>9 DEF Forward!fwd_retry, Letters
  <2>4. fate' = [fate EXCEPT ![l] = fate[l]]
    BY <1>5, <1>9 DEF Forward!fwd_retry
  <2>5. QED
    BY <1>2, <1>5, <2>2, <2>3, <2>4
<1>10. CASE Forward!fwd_nop(c)
  <2>1. fwd' = fwd /\ fate' = fate
    BY <1>10 DEF Forward!fwd_nop
  <2>2. QED
    BY <2>1 DEF Letters, OfKnownMails, Forward!Active
<1>11. CASE Forward!fwd_quit(c)
  <2>1. fwd' = [fwd EXCEPT ![c] = Forward!NoFwd]
    BY <1>11 DEF Forward!fwd_quit, Forward!Freed
  <2>2. fate' = [fate EXCEPT ![l] = fate[l]]
    BY <1>5, <1>11 DEF Forward!fwd_quit
  <2>3. QED
    BY <1>4, <1>5, <2>1, <2>2
<1>12. ASSUME NEW f \in {"queued", "unconnected"},
              fate' = [fate EXCEPT ![l] = "failed", ![report] = f]
       PROVE  /\ fate' \in [Forward!Letter -> Forward!Fates]
              /\ \A k \in Forward!Letter : fate[k] # "none" => fate'[k] # "none"
              /\ fate'[report] # "none"
              /\ OfKnownMails
  <2>1. report \in Forward!Letter /\ report.mail = l.mail
    BY <1>1, SessionFacts DEF report
  <2>2. /\ fate' \in [Forward!Letter -> Forward!Fates]
        /\ \A k \in Forward!Letter :
             fate'[k] = IF k = report THEN f ELSE IF k = l THEN "failed" ELSE fate[k]
    BY <1>1, <1>12, <2>1 DEF Letters, Forward!Fates
  <2>3. QED
    BY <1>1, <2>1, <2>2 DEF OfKnownMails
<1>13. CASE Forward!fwd_failed(c)
  <2>1. CASE /\ fwd' = [fwd EXCEPT ![c] = Forward!NoFwd]
             /\ fate' = [fate EXCEPT ![l] = "failed", ![report] = "unconnected"]
    BY <1>3, <1>12, <2>1
  <2>2. CASE /\ fwd' = [fwd EXCEPT ![c] = Forward!NoFwd]
             /\ fate' = [fate EXCEPT ![l] = "failed"]
    BY <1>4, <2>2 DEF Forward!Fates
  <2>3. ASSUME NEW d \in Forward!Unused,
               fwd' = [fwd EXCEPT ![c] = Forward!NoFwd, ![d] = Forward!Opened(report)],
               fate' = [fate EXCEPT ![l] = "failed", ![report] = "queued"]
        PROVE  Letters' /\ OfKnownMails
    <3>1. /\ d \in Conn /\ d # c
          /\ Forward!Opened(report) \in Forward!Session
          /\ Forward!Opened(report).letter = report
      BY <1>1, SessionFacts DEF Forward!Unused, Forward!Active, Forward!Session, report
    <3>2. /\ fwd' \in [Conn -> Forward!Session]
          /\ \A e \in Conn : fwd'[e] = IF e = d THEN Forward!Opened(report)
                                       ELSE IF e = c THEN Forward!NoFwd ELSE fwd[e]
      BY <2>3, <3>1 DEF Letters, Forward!Session
    <3>3. /\ fate' \in [Forward!Letter -> Forward!Fates]
          /\ \A k \in Forward!Letter : fate[k] # "none" => fate'[k] # "none"
          /\ fate'[report] # "none"
          /\ OfKnownMails
      BY <1>12, <2>3
    <3>4. \A e \in Forward!Active' : fate'[fwd'[e].letter] # "none"
      <4> SUFFICES ASSUME NEW e \in Forward!Active'
                   PROVE  fate'[fwd'[e].letter] # "none"
        OBVIOUS
      <4>1. CASE e = d
        BY <3>1, <3>2, <3>3, <4>1
      <4>2. CASE e # d
        <5>1. e \in Forward!Active /\ fwd'[e] = fwd[e]
          BY <3>2, <4>2 DEF Forward!Active
        <5>2. QED
          BY <3>3, <5>1, SessionFacts DEF Letters, Forward!Active
      <4>3. QED
        BY <4>1, <4>2
    <3>5. QED
      BY <3>2, <3>3, <3>4 DEF Letters
  <2>4. QED
    BY <1>13, <2>1, <2>2, <2>3 DEF Forward!fwd_failed, l, report
<1>14. QED
  BY <1>6, <1>7, <1>8, <1>9, <1>10, <1>11, <1>13 DEF Forward!fwd_process_input


\* A mail handed over gets a letter of its own.
LEMMA QueueStep ==
    ASSUME Letters, NEW l \in Forward!Letter, Forward!fwd_queue(l)
    PROVE  /\ Letters'
           /\ \A k \in Forward!Letter : k # l => fate'[k] = fate[k]
<1>1. ASSUME NEW d \in Forward!Unused,
             fwd' = [fwd EXCEPT ![d] = Forward!Opened(l)],
             fate' = [fate EXCEPT ![l] = "queued"]
      PROVE  Letters' /\ \A k \in Forward!Letter : k # l => fate'[k] = fate[k]
  <2>1. /\ fate' \in [Forward!Letter -> Forward!Fates]
        /\ \A k \in Forward!Letter : fate'[k] = IF k = l THEN "queued" ELSE fate[k]
    BY <1>1 DEF Letters, Forward!Fates
  <2>2. /\ d \in Conn
        /\ Forward!Opened(l) \in Forward!Session
        /\ Forward!Opened(l).letter = l
    BY <1>1, SessionFacts DEF Forward!Unused, Forward!Session
  <2>3. /\ fwd' \in [Conn -> Forward!Session]
        /\ \A e \in Conn : fwd'[e] = IF e = d THEN Forward!Opened(l) ELSE fwd[e]
    BY <1>1, <2>2 DEF Letters
  <2>4. \A e \in Forward!Active' : fate'[fwd'[e].letter] # "none"
    <3> SUFFICES ASSUME NEW e \in Forward!Active' PROVE fate'[fwd'[e].letter] # "none"
      OBVIOUS
    <3>1. CASE e = d
      BY <2>1, <2>2, <2>3, <3>1
    <3>2. CASE e # d
      <4>1. e \in Forward!Active /\ fwd'[e] = fwd[e]
        BY <2>3, <3>2 DEF Forward!Active
      <4>2. QED
        BY <2>1, <4>1, SessionFacts DEF Letters, Forward!Active
    <3>3. QED
      BY <3>1, <3>2
  <2>5. QED
    BY <2>1, <2>3, <2>4 DEF Letters
<1>2. ASSUME fwd' = fwd, fate' = [fate EXCEPT ![l] = "unconnected"]
      PROVE  Letters' /\ \A k \in Forward!Letter : k # l => fate'[k] = fate[k]
  <2>1. /\ fate' \in [Forward!Letter -> Forward!Fates]
        /\ \A k \in Forward!Letter :
             fate'[k] = IF k = l THEN "unconnected" ELSE fate[k]
    BY <1>2 DEF Letters, Forward!Fates
  <2>2. \A e \in Forward!Active' : fate'[fwd'[e].letter] # "none"
    BY <1>2, <2>1, SessionFacts DEF Letters, Forward!Active
  <2>3. QED
    BY <1>2, <2>1, <2>2 DEF Letters
<1>3. QED
  BY <1>1, <1>2 DEF Forward!fwd_queue

-----------------------------------------------------------------------------
(* The theorem.                                                            *)

UsersInv == Visitors /\ Letters /\ LettersAreUsers

LEMMA InitUsersInv == Init => UsersInv
<1> SUFFICES ASSUME Init PROVE UsersInv
  OBVIOUS
<1>1. Visitors
  BY NoSessionEntitled DEF Init, Smtp!Init, Visitors, Client
<1>2. Letters /\ LettersAreUsers
  BY DEF Init, Forward!Init, Letters, LettersAreUsers, Forward!Session,
         Forward!Fates, Forward!Active
<1>3. QED
  BY <1>1, <1>2 DEF UsersInv

LEMMA NextUsersInv == UsersInv /\ [Next]_vars => UsersInv'
<1> SUFFICES ASSUME UsersInv, [Next]_vars PROVE UsersInv'
  OBVIOUS
<1> USE DEF UsersInv
<1>1. ASSUME fwd' = fwd, fate' = fate, authorized' = authorized, Visitors'
      PROVE  UsersInv'
  BY <1>1 DEF Letters, LettersAreUsers, Forward!Active
<1>2. ASSUME NEW c \in Visitor, smtp_forward(c) PROVE UsersInv'
  <2>1. Visitors'
    BY <1>2, SmtpStep DEF smtp_forward, Smtp!Next
  <2>2. session[c].authenticated
    BY <1>2 DEF Visitors, Entitled, smtp_forward, Smtp!smtp_forward, Smtp!State,
                Smtp!SmtpSession
  <2>3. PICK m \in Message :
          /\ Forward!fwd_queue([mail |-> m, failable |-> TRUE])
          /\ authorized' = authorized \cup {m}
    BY <1>2, <2>2 DEF smtp_forward
  <2> DEFINE l == [mail |-> m, failable |-> TRUE]
  <2>4. l \in Forward!Letter /\ l.mail = m
    BY DEF Forward!Letter
  <2> HIDE DEF l
  <2>5. Letters' /\ \A k \in Forward!Letter : k # l => fate'[k] = fate[k]
    BY <2>3, <2>4, QueueStep DEF l
  <2>6. LettersAreUsers'
    BY <2>3, <2>4, <2>5 DEF LettersAreUsers
  <2>7. QED
    BY <2>1, <2>5, <2>6
<1>3. CASE smtp_line
  BY <1>1, <1>3, SmtpStep DEF smtp_line, forwardVars
<1>4. ASSUME NEW c \in Conn, fwd_line(c) PROVE UsersInv'
  <2>1. Letters' /\ OfKnownMails
    BY <1>4, ForwardStep DEF fwd_line
  <2>2. Visitors' /\ authorized' = authorized
    BY <1>4 DEF fwd_line, smtpOnly, Visitors
  <2>3. LettersAreUsers'
    BY <2>1, <2>2 DEF LettersAreUsers, OfKnownMails
  <2>4. QED
    BY <2>1, <2>2, <2>3
<1>5. ASSUME NEW c \in Conn, peer_step(c) PROVE UsersInv'
  <2>1. fwd' = fwd /\ fate' = fate
    BY <1>5 DEF peer_step, Forward!peer_serves, Forward!peer_greets,
         Forward!peer_accepts, Forward!peer_refuses, Forward!peer_quits,
         Forward!peer_eof
  <2>2. Visitors' /\ authorized' = authorized
    BY <1>5 DEF peer_step, smtpOnly, Visitors
  <2>3. QED
    BY <1>1, <2>1, <2>2
<1>6. ASSUME NEW c \in Conn, loop_accepted(c) \/ loop_served(c) \/ loop_ended(c)
      PROVE  UsersInv'
  <2>1. fwd' = fwd /\ fate' = fate /\ authorized' = authorized
    BY <1>6 DEF loop_accepted, loop_served, loop_ended, Answers, Forward!peer_eof
  <2>2. QED
    BY <1>1, <1>6, <2>1, LoopStep
<1>7. CASE UNCHANGED vars
  BY <1>1, <1>7 DEF vars, forwardVars, smtpOnly, Visitors
<1>8. QED
  BY <1>2, <1>3, <1>4, <1>5, <1>6, <1>7 DEF Next

\* Every mail and error mail the server sends out goes back to a session that
\* gave the credentials of a user; no other client, and no other server, can
\* make it write to one, nor to itself.
THEOREM OnlyUsersSend == Spec => []LettersAreUsers
<1>1. UsersInv => LettersAreUsers
  BY DEF UsersInv
<1>2. QED
  BY <1>1, InitUsersInv, NextUsersInv, PTL DEF Spec

=============================================================================
