------------------------------ MODULE Relaying ------------------------------
(***************************************************************************)
(* A mail that is not for a local user: taken by an SMTP session, handed   *)
(* to the forward module, and the error mail it may come back as.          *)
(*                                                                         *)
(* An error mail is forwarded like any other, to the server found for the  *)
(* host of its recipient.  For MyHost that is this very server, and so it  *)
(* is for a host that has no address and no MX entry: fwd_send_host then   *)
(* gives NULL, for which getaddrinfo gives the loopback address.  The SMTP *)
(* module then answers the forward module of the same process; the forward *)
(* connection is also a client of Smtp, under the same name.               *)
(* No relay host is configured; the server listens on all addresses.       *)
(*                                                                         *)
(* Left out: crashes and servers that hang up, which Forward has.          *)
(***************************************************************************)
EXTENDS Naturals, Sequences

CONSTANTS Account, Name, AccountOf, NULL, DbMayFail, MaxMail,  \* see Mailbox
          Host, MyHost, Sender, Recipient, BodyLine, MaxLines, \* see Smtp
          Nowhere,        \* the hosts no server is found for
          Visitor,        \* the SMTP connections of others
          Postmaster,     \* the address error mails come from
          Conn, Message, Continuation  \* see Forward

VARIABLES mail, arrived, mboxlock,                      \* see Mailbox
          session, typed, fresh, last,                  \* see Smtp
          fwd, sent, lines, peer, fate, taken, answers, \* see Forward
          envelope,   \* fwd_from and fwd_to of every mail handed over
          authorized  \* history: the mails that authorized sessions sent

Smtp == INSTANCE Smtp WITH Client <- Visitor \cup Conn, Line <- BodyLine
Forward == INSTANCE Forward

ASSUME RelayingAssumption ==
    /\ Visitor \cap Conn = {}
    /\ Sender \subseteq Smtp!Address
    /\ Recipient \subseteq Smtp!Address

mailboxVars == <<mail, arrived, mboxlock>>
smtpOnly == <<session, typed, fresh, last>>
forwardVars == <<fwd, sent, lines, peer, fate, taken, answers>>
vars == <<mailboxVars, smtpOnly, forwardVars, envelope, authorized>>

From(l) == IF l.failable THEN envelope[l.mail].from ELSE Postmaster
To(l) == IF l.failable THEN envelope[l.mail].to ELSE envelope[l.mail].from

\* Is it this server that a connection for l leads to?
ToItself(l) == To(l).host \in Nowhere \cup {MyHost}

\* Is the other end of c this server?
Loop(c) == peer[c] # Forward!NoPeer /\ ToItself(peer[c].letter)

Init ==
    /\ Smtp!Init
    /\ Forward!Init
    /\ envelope = [m \in Message |-> NULL]
    /\ authorized = {}

-----------------------------------------------------------------------------
\* The final dot of a mail that is not for a local user.  The client gets 250
\* whether fwd_queue found a server or not.
smtp_forward(c) ==
    /\ Smtp!smtp_forward(c)
    /\ \E m \in Message :
        /\ envelope[m] = NULL
        /\ Forward!fwd_queue([mail |-> m, failable |-> TRUE])
        /\ envelope' = [envelope EXCEPT ![m] =
                            [from |-> session[c].from, to |-> session[c].to]]
        /\ last'.route =
             IF fate'[[mail |-> m, failable |-> TRUE]] = "queued"
               THEN "forward" ELSE "refused"
        /\ authorized' = IF session[c].authenticated
                           THEN authorized \cup {m} ELSE authorized

\* Every other line of a visitor.
smtp_line ==
    /\ Smtp!Next
    /\ \A c \in Visitor : ~Smtp!smtp_forward(c)
    /\ \A c \in Conn : session'[c] = session[c]
    /\ UNCHANGED <<forwardVars, envelope, authorized>>

\* The forward module handles a line, or the end, of a connection.
fwd_line(c) ==
    /\ Forward!fwd_process_input(c) \/ Forward!conn_eof(c)
    /\ UNCHANGED <<mailboxVars, smtpOnly, envelope, authorized>>

\* Another server.
peer_step(c) ==
    /\ ~Loop(c)
    /\ Forward!peer_serves(c) \/ Forward!peer_eof(c)
    /\ UNCHANGED <<mailboxVars, smtpOnly, envelope, authorized>>

-----------------------------------------------------------------------------
(* This server at the other end of its own connection.                     *)

Reply(code) == <<[code |-> code, kind |-> "last"]>>

\* The first line of this refusal has a hyphen after the code, and spaces.
RelayDenied == <<[code |-> 554, kind |-> "spaces"]>> \o Reply(554)

\* The lines smtp_write_client_msg writes.
Answers(c, reply) ==
    /\ lines' = IF c \in Forward!Active THEN [lines EXCEPT ![c] = @ \o reply]
                                        ELSE lines
    /\ answers' = [answers EXCEPT ![peer[c].letter] =
                      @ \cup Forward!Said(Head(reply).code, reply)]
    /\ UNCHANGED <<fwd, fate, taken, envelope, authorized>>

\* conn_accept_normal_client, and the greeting.
loop_accepted(c) ==
    /\ Loop(c) /\ peer[c].stage = "GREET"
    /\ Smtp!smtp_create_session(c)
    /\ Answers(c, Reply(220))
    /\ peer' = [peer EXCEPT ![c].stage = "HELO"]
    /\ UNCHANGED sent

\* The next command on c.  DATA is answered with 250, where other servers say
\* 354; so no body follows, and no QUIT.
loop_served(c) ==
    /\ Loop(c) /\ peer[c].stage # "GREET" /\ sent[c] # <<>>
    /\ sent' = [sent EXCEPT ![c] = Tail(@)]
    /\ \/ /\ Head(sent[c]) = "HELO"
          /\ Smtp!smtp_helo(c)
          /\ Answers(c, Reply(250))
       \/ /\ Head(sent[c]) = "MAIL"
          /\ Smtp!smtp_mail_from(c, From(peer[c].letter))
          /\ Answers(c, Reply(250))
       \/ /\ Head(sent[c]) = "RCPT"
          /\ Smtp!smtp_rcpt_to(c, To(peer[c].letter))
          /\ Answers(c, IF session'[c].state = "RCPT" THEN Reply(250) ELSE RelayDenied)
       \/ /\ Head(sent[c]) = "DATA"
          /\ Smtp!smtp_data(c)
          /\ Answers(c, Reply(250))
    /\ UNCHANGED peer

\* conn_read_normal finds the end of the connection.
loop_ended(c) ==
    /\ Loop(c)
    /\ Forward!peer_eof(c)
    /\ Smtp!smtp_destroy_session(c)
    /\ UNCHANGED <<envelope, authorized>>

Next ==
    \/ \E c \in Visitor : smtp_forward(c)
    \/ smtp_line
    \/ \E c \in Conn : \/ fwd_line(c) \/ peer_step(c)
                       \/ loop_accepted(c) \/ loop_served(c) \/ loop_ended(c)

Spec == Init /\ [][Next]_vars

\* The select loop serves the server's own connections, at both ends.
FairSpec ==
    /\ Spec
    /\ \A c \in Conn : /\ WF_vars(fwd_line(c))
                       /\ WF_vars(loop_accepted(c) \/ loop_served(c))

-----------------------------------------------------------------------------
\* Every letter that the server sends out, error mails included, goes back to a
\* mail of a session that gave the credentials of a user: no other client can
\* make this server write to another one, nor to itself.
LettersAreUsers ==
    \A l \in Forward!Letter : fate[l] # "none" => l.mail \in authorized

\* A mail the server sends to itself comes to an end: the one thread that is
\* both ends of the connection does not wait for itself.
SelfMailEnds ==
    \A l \in Forward!Letter :
        envelope[l.mail] # NULL /\ ToItself(l) /\ fate[l] = "queued"
            ~> fate[l] # "queued"

=============================================================================
