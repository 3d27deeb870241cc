-------------------------------- MODULE Smtp --------------------------------
(***************************************************************************)
(* The SMTP and ESMTP sessions of the server (smtp.c): from the greeting   *)
(* to the mail that is put into a mailbox or handed to the forward module. *)
(*                                                                         *)
(* A step is the handling of one line of one client by smtp_process_input. *)
(* Replies are left out; a reply that cannot be written ends the session,  *)
(* which is the step smtp_destroy_session after the handler's own step.    *)
(* Addresses are the ones smtp_check_mail accepts; a line with another one *)
(* is a line that does not fit.                                            *)
(***************************************************************************)
EXTENDS Mailbox, Sequences

CONSTANTS Client,     \* the SMTP connections the server can hold at a time
          Host,       \* host parts of mail addresses
          MyHost,     \* config_get_hostname()
          Sender,     \* the addresses used in MAIL FROM
          Recipient,  \* the addresses used in RCPT TO
          Line,       \* contents of body lines other than the final dot
          MaxLines    \* bound: body lines a session holds at a time

Address == [name : Name, host : Host]

ASSUME SmtpAssumption ==
    /\ NULL \notin Client
    /\ NULL \notin Address
    /\ MyHost \in Host
    /\ Sender \subseteq Address
    /\ Recipient \subseteq Address
    /\ MaxLines \in Nat

VARIABLES session,  \* smtp_session of every client
          typed,    \* history: the body lines the client sent since DATA
          fresh,    \* history: nothing was sent since connecting or RSET
          last      \* history: the mail that was taken last, and what became of it

smtpVars == <<mail, arrived, mboxlock, session, typed, fresh, last>>

\* A mail in the history.
Mail == [to : Address, authenticated : BOOLEAN, fresh : BOOLEAN,
         asSent : BOOLEAN, route : {"mailbox", "forward", "refused"}]

SessionStates ==
    {"NONE", "NEW", "HELO", "EHLO", "FROM", "RCPT", "DATA", "AUTH"}

SmtpSession == [state : SessionStates, type : {"SMTP", "ESMTP"},
                authenticated : BOOLEAN, rcpt_local : BOOLEAN,
                from : Address \cup {NULL}, to : Address \cup {NULL},
                data : Seq(Line)]

NoSession == [state |-> "NONE", type |-> "SMTP", authenticated |-> FALSE,
              rcpt_local |-> FALSE, from |-> NULL, to |-> NULL, data |-> <<>>]

State(c) == session[c].state

Init ==
    /\ mail = {}
    /\ arrived = 0
    /\ mboxlock = [a \in Account |-> FALSE]
    /\ session = [c \in Client |-> NoSession]
    /\ typed = [c \in Client |-> <<>>]
    /\ fresh = [c \in Client |-> TRUE]
    /\ last = NULL

\* Most handlers touch nothing but the session of their client.
Becomes(c, new) ==
    /\ session' = [session EXCEPT ![c] = new]
    /\ UNCHANGED <<mail, arrived, mboxlock, typed, fresh, last>>

Goes(c, st) == Becomes(c, [session[c] EXCEPT !.state = st])

-----------------------------------------------------------------------------
(* Addresses.                                                              *)

\* Is the recipient one of our users?  The host is compared byte by byte, the
\* user is searched in the user list.
Local(addr) == addr.host = MyHost /\ config_has_user(addr.name)

-----------------------------------------------------------------------------
(* The beginning of a session.                                             *)

smtp_create_session(c) ==
    /\ State(c) = "NONE"
    /\ Goes(c, "NEW")

smtp_helo(c) ==
    /\ State(c) = "NEW"
    /\ Goes(c, "HELO")

smtp_ehlo(c) ==
    /\ State(c) = "NEW"
    /\ Becomes(c, [session[c] EXCEPT !.state = "EHLO", !.type = "ESMTP"])

\* AUTH PLAIN on a line of its own: the credentials come with the next line.
smtp_auth(c) ==
    /\ State(c) = "EHLO"
    /\ Goes(c, "AUTH")

\* smtp_process_auth_line with the credentials of a user: in the line after
\* AUTH PLAIN or, as Thunderbird sends them, in the same line.
smtp_auth_ok(c) ==
    /\ State(c) \in {"AUTH", "EHLO"}
    /\ \E n \in Name : config_has_user(n)
    /\ Becomes(c, [session[c] EXCEPT !.state = "HELO", !.authenticated = TRUE])

\* Mutant of smtp_auth_failed: the session is ended, the connection is not.
AuthFailedQuits(c) ==
    /\ State(c) = "AUTH"
    /\ Goes(c, "QUIT")

\* Any other line in state AUTH, RSET and QUIT included, is a failed attempt.
smtp_auth_failed(c) ==
    /\ State(c) = "AUTH"
    /\ Goes(c, "EHLO")

-----------------------------------------------------------------------------
(* The envelope.                                                           *)

smtp_mail_from(c, addr) ==
    /\ State(c) = "HELO"
    /\ Becomes(c, [session[c] EXCEPT !.state = "FROM", !.from = addr])

\* Mutant of smtp_rcpt_to: the type of the session is taken for its login.
RcptByType(c, addr) ==
    /\ State(c) = "FROM"
    /\ LET local == session[c].rcpt_local \/ Local(addr)
           taken == session[c].type = "ESMTP" \/ local
       IN  Becomes(c, [session[c] EXCEPT !.to = addr,
                                         !.rcpt_local = local,
                                         !.state = IF taken THEN "RCPT" ELSE @])

\* The flag is set for a local recipient, and it is not cleared for another.
\* A recipient that is refused is kept all the same.
smtp_rcpt_to(c, addr) ==
    /\ State(c) = "FROM"
    /\ LET local == session[c].rcpt_local \/ Local(addr)
           taken == session[c].authenticated \/ local
       IN  Becomes(c, [session[c] EXCEPT !.to = addr,
                                         !.rcpt_local = local,
                                         !.state = IF taken THEN "RCPT" ELSE @])

\* Mutant of smtp_other_line: the recipient is also passed while DATA is due.
OtherLineClobbers(c) ==
    /\ State(c) \in {"HELO", "FROM", "RCPT"}
    /\ Becomes(c, IF State(c) = "HELO" THEN [session[c] EXCEPT !.from = NULL]
                                       ELSE [session[c] EXCEPT !.to = NULL])

\* A line that is neither the expected command with a good argument nor RSET
\* nor QUIT.  smtp_check_input clears the field it was to fill at once.
smtp_other_line(c) ==
    /\ State(c) \in {"HELO", "FROM"}
    /\ Becomes(c, IF State(c) = "HELO" THEN [session[c] EXCEPT !.from = NULL]
                                       ELSE [session[c] EXCEPT !.to = NULL])

smtp_data(c) ==
    /\ State(c) = "RCPT"
    /\ session' = [session EXCEPT ![c].state = "DATA"]
    /\ typed' = [typed EXCEPT ![c] = <<>>]
    /\ UNCHANGED <<mail, arrived, mboxlock, fresh, last>>

-----------------------------------------------------------------------------
(* The body.                                                               *)

smtp_process_body_data(c, l) ==
    /\ State(c) = "DATA"
    /\ Len(session[c].data) < MaxLines
    /\ session' = [session EXCEPT ![c].data = Append(@, l)]
    /\ typed' = [typed EXCEPT ![c] = Append(@, l)]
    /\ UNCHANGED <<mail, arrived, mboxlock, fresh, last>>

\* How the mail of c is entered in the history: asSent says that its body has
\* the lines sent for it and no other.
Entry(c, route) ==
    [to |-> session[c].to, authenticated |-> session[c].authenticated,
     fresh |-> fresh[c], asSent |-> session[c].data = typed[c],
     route |-> route]

\* The tail of smtp_process_input after a mail: the state, and nothing else,
\* is set for the next mail.
Handled(c, route) ==
    /\ session' = [session EXCEPT ![c].state = "HELO"]
    /\ fresh' = [fresh EXCEPT ![c] = FALSE]
    /\ typed' = [typed EXCEPT ![c] = <<>>]
    /\ last' = Entry(c, route)

\* Mutant of smtp_deliver_local: the mailbox is locked for the delivery.
DeliverLocks(c) ==
    /\ State(c) = "DATA"
    /\ session[c].rcpt_local
    /\ config_has_user(session[c].to.name)
    /\ config_set_user_mbox_lock(session[c].to.name, TRUE)
    /\ arrived < MaxMail
    /\ arrived' = arrived + 1
    /\ \E id \in NextIds :
        mail' = mail \cup {[id |-> id, user |-> session[c].to.name, data |-> arrived']}
    /\ Handled(c, "mailbox")

\* The final dot, recipient local: the part before the @ names the mailbox.
smtp_deliver_local(c) ==
    /\ State(c) = "DATA"
    /\ session[c].rcpt_local
    /\ mbox_push_mail(session[c].to.name)
    /\ Handled(c, "mailbox")

\* The final dot, recipient not local: fwd_queue takes the mail, or cannot
\* connect.  The client is told 250 in both cases.
smtp_forward(c) ==
    /\ State(c) = "DATA"
    /\ ~session[c].rcpt_local
    /\ \E route \in {"forward", "refused"} : Handled(c, route)
    /\ UNCHANGED <<mail, arrived, mboxlock>>

-----------------------------------------------------------------------------
(* Endings.                                                                *)

\* Mutant of smtp_reset_session: the body lines are kept.
ResetKeepsBody(c) ==
    /\ State(c) \in {"NEW", "EHLO", "HELO", "FROM", "RCPT"}
    /\ session' = [session EXCEPT ![c] =
                     [@ EXCEPT !.state = "HELO", !.rcpt_local = FALSE,
                               !.from = NULL, !.to = NULL]]
    /\ fresh' = [fresh EXCEPT ![c] = TRUE]
    /\ UNCHANGED <<mail, arrived, mboxlock, typed, last>>

\* RSET where commands are read: smtp_reset_session, which always leaves the
\* state HELO, whatever the session had not done yet.
smtp_reset_session(c) ==
    /\ State(c) \in {"NEW", "EHLO", "HELO", "FROM", "RCPT"}
    /\ session' = [session EXCEPT ![c] =
                     [@ EXCEPT !.state = "HELO", !.rcpt_local = FALSE,
                               !.from = NULL, !.to = NULL, !.data = <<>>]]
    /\ fresh' = [fresh EXCEPT ![c] = TRUE]
    /\ UNCHANGED <<mail, arrived, mboxlock, typed, last>>

\* QUIT, the end of the connection, or a reply that could not be written.
smtp_destroy_session(c) ==
    /\ State(c) # "NONE"
    /\ session' = [session EXCEPT ![c] = NoSession]
    /\ fresh' = [fresh EXCEPT ![c] = TRUE]
    /\ typed' = [typed EXCEPT ![c] = <<>>]
    /\ UNCHANGED <<mail, arrived, mboxlock, last>>

Next ==
    \E c \in Client :
        \/ smtp_create_session(c)
        \/ smtp_helo(c)
        \/ smtp_ehlo(c)
        \/ smtp_auth(c)
        \/ smtp_auth_ok(c)
        \/ smtp_auth_failed(c)
        \/ \E addr \in Sender : smtp_mail_from(c, addr)
        \/ \E addr \in Recipient : smtp_rcpt_to(c, addr)
        \/ smtp_other_line(c)
        \/ smtp_data(c)
        \/ \E l \in Line : smtp_process_body_data(c, l)
        \/ smtp_deliver_local(c)
        \/ smtp_forward(c)
        \/ smtp_reset_session(c)
        \/ smtp_destroy_session(c)

Spec == Init /\ [][Next]_smtpVars

-----------------------------------------------------------------------------
(* Properties that hold.                                                   *)

TypeOK ==
    /\ mail \subseteq Row
    /\ arrived \in Nat
    /\ mboxlock \in [Account -> BOOLEAN]
    /\ session \in [Client -> SmtpSession]
    /\ typed \in [Client -> Seq(Line)]
    /\ fresh \in [Client -> BOOLEAN]
    /\ last \in Mail \cup {NULL}

\* The envelope is complete when it is used: refused, repeated and garbled
\* commands in between never leave the body handler without a recipient, whose
\* address it takes apart unchecked.
EnvelopeComplete ==
    \A c \in Client :
        /\ State(c) \in {"FROM", "RCPT", "DATA"} => session[c].from # NULL
        /\ State(c) \in {"RCPT", "DATA"} => session[c].to # NULL

\* No open relay: the forward module only ever gets mails of sessions that
\* have sent the credentials of a user, whatever came in between.
NoOpenRelay ==
    last # NULL /\ last.route \in {"forward", "refused"} => last.authenticated

\* The first mail after connecting or RSET is taken as the client sent it: all
\* its lines and no other, into the mailbox just if the recipient is local.
FirstMailFaithful ==
    last # NULL /\ last.fresh =>
        /\ last.asSent
        /\ last.route = "mailbox" <=> Local(last.to)

-----------------------------------------------------------------------------
(* What the comments and the documentation say, and the code does not do.  *)

\* smtp.c:101 and 119: an ESMTP session that waits for MAIL FROM or is further
\* has been authorized.
EsmtpAuthorized ==
    \A c \in Client :
        session[c].type = "ESMTP" /\ State(c) \in {"HELO", "FROM", "RCPT", "DATA"}
            => session[c].authenticated

\* usage_doc.tex, SMTP: a mail that is not for a local user is given to the
\* forward module.  (Not: into the mailbox of a name that may not exist.)
RemoteIsForwarded ==
    last # NULL /\ ~Local(last.to) => last.route # "mailbox"

\* smtp.c:415 and usage_doc.tex, SMTP: after a mail was sent the session is
\* cleaned.  (Then every mail consists of the lines sent for it.)
BodyAsSent == last # NULL => last.asSent

=============================================================================
