-------------------------------- MODULE Pop3 --------------------------------
(***************************************************************************)
(* The POP3 sessions of the server (pop3.c) over the mailboxes.            *)
(*                                                                         *)
(* The process has one thread: a handler works off one line of one client  *)
(* and returns to the select() loop before any other handler runs.  The    *)
(* one handler that is not atomic is QUIT: it deletes the marked mails one *)
(* statement at a time, each committed on its own, and the process can die *)
(* between two of them.  While it runs (closing # NULL) nothing else does. *)
(*                                                                         *)
(* Commands that change nothing (STAT, LIST, RETR, NOOP, a refused         *)
(* command, a wrong password) are stuttering steps.                        *)
(***************************************************************************)
EXTENDS Mailbox

CONSTANTS Session,   \* the POP3 connections the server can hold at a time
          MaxCrash   \* bound: times the process dies and is started again

ASSUME Pop3Assumption ==
    /\ NULL \notin Session
    /\ MaxCrash \in Nat

VARIABLES state,    \* session_state; "NONE" when there is no session
          user,     \* session_user: the name as the client spelled it
          open,     \* the sessions whose session_mailbox is not NULL
          mbox,     \* session_mailbox of the sessions in open
          closing,  \* the session whose QUIT runs mbox_close, or NULL
          cursor,   \* the loop index of that mbox_close
          crashes   \* number of restarts so far

pop3Vars == <<state, user, open, mbox, closing, cursor>>
vars == <<mail, arrived, mboxlock, state, user, open, mbox, closing, cursor,
          crashes>>

States == {"NONE", "AUTH", "START"}

\* Which account the session works for.
Holder(s) == AccountOf[user[s]]

-----------------------------------------------------------------------------
Init ==
    /\ mail = {}
    /\ arrived = 0
    /\ mboxlock = [a \in Account |-> FALSE]
    /\ state = [s \in Session |-> "NONE"]
    /\ user = [s \in Session |-> NULL]
    /\ open = {}
    /\ mbox = [s \in Session |-> NoMailbox]
    /\ closing = NULL
    /\ cursor = 0
    /\ crashes = 0

\* The select loop may call the handler of s.
Ready(s, st) == closing = NULL /\ state[s] = st

-----------------------------------------------------------------------------
\* A client is accepted.
pop3_create_session(s) ==
    /\ Ready(s, "NONE")
    /\ state' = [state EXCEPT ![s] = "AUTH"]
    /\ UNCHANGED <<mail, arrived, mboxlock, user, open, mbox, closing, cursor,
                   crashes>>

\* USER; may be repeated, the last known name counts.
pop3_check_user(s, n) ==
    /\ Ready(s, "AUTH")
    /\ config_has_user(n)
    /\ user' = [user EXCEPT ![s] = n]
    /\ UNCHANGED <<mail, arrived, mboxlock, state, open, mbox, closing, cursor,
                   crashes>>

\* PASS with the right password: lock and open the mailbox.
pop3_check_passwd(s) ==
    /\ Ready(s, "AUTH")
    /\ user[s] # NULL
    /\ ~config_user_locked(user[s])
    /\ \E mb \in mbox_init(user[s]) : mbox' = [mbox EXCEPT ![s] = mb]
    /\ open' = open \cup {s}
    /\ config_set_user_mbox_lock(user[s], TRUE)
    /\ state' = [state EXCEPT ![s] = "START"]
    /\ UNCHANGED <<mail, arrived, user, closing, cursor, crashes>>

\* What pop3_destroy_session and the removal from the socket list leave.
Gone(s) ==
    /\ state' = [state EXCEPT ![s] = "NONE"]
    /\ user' = [user EXCEPT ![s] = NULL]
    /\ mbox' = [mbox EXCEPT ![s] = NoMailbox]
    /\ open' = open \ {s}

\* PASS while another session holds the lock: the connection is closed, the
\* mailbox of this session is NULL and the lock stays with its holder.
pop3_check_passwd_locked(s) ==
    /\ Ready(s, "AUTH")
    /\ user[s] # NULL
    /\ config_user_locked(user[s])
    /\ Gone(s)
    /\ UNCHANGED <<mail, arrived, mboxlock, closing, cursor, crashes>>

pop3_dele_mailbox(s, i) ==
    /\ Ready(s, "START")
    /\ s \in open
    /\ Listed(mbox[s], i)
    /\ mbox' = [mbox EXCEPT ![s] = mbox_mark_deleted(@, i)]
    /\ UNCHANGED <<mail, arrived, mboxlock, state, user, open, closing, cursor,
                   crashes>>

pop3_rset_mailbox(s) ==
    /\ Ready(s, "START")
    /\ s \in open
    /\ mbox' = [mbox EXCEPT ![s] = mbox_reset(@)]
    /\ UNCHANGED <<mail, arrived, mboxlock, state, user, open, closing, cursor,
                   crashes>>

-----------------------------------------------------------------------------
\* QUIT outside the transaction state: nothing to close.
pop3_quit_auth(s) ==
    /\ Ready(s, "AUTH")
    /\ Gone(s)
    /\ UNCHANGED <<mail, arrived, mboxlock, closing, cursor, crashes>>

\* QUIT in the transaction state enters mbox_close(mailbox, 1) ...
pop3_quit_session(s) ==
    /\ Ready(s, "START")
    /\ s \in open
    /\ closing' = s
    /\ cursor' = 1
    /\ UNCHANGED <<mail, arrived, mboxlock, state, user, open, mbox, crashes>>

\* Mutant of mbox_close_step: the number of the mail is taken for its id.
CloseStepByNumber ==
    /\ closing # NULL
    /\ cursor <= mbox[closing].count
    /\ IF cursor \in mbox[closing].deleted
         THEN mail' \in DeleteOutcomes(cursor)
         ELSE UNCHANGED mail
    /\ cursor' = cursor + 1
    /\ UNCHANGED <<arrived, mboxlock, state, user, open, mbox, closing, crashes>>

\* Mutant of mbox_close_step: the delete marker is not looked at.
CloseStepUnmarked ==
    /\ closing # NULL
    /\ cursor <= mbox[closing].count
    /\ mail' \in DeleteOutcomes(mbox[closing].map[cursor].id)
    /\ cursor' = cursor + 1
    /\ UNCHANGED <<arrived, mboxlock, state, user, open, mbox, closing, crashes>>

\* ... whose loop deletes the row of a marked mail and skips the others ...
mbox_close_step ==
    /\ closing # NULL
    /\ cursor <= mbox[closing].count
    /\ IF cursor \in mbox[closing].deleted
         THEN mail' \in DeleteOutcomes(mbox[closing].map[cursor].id)
         ELSE UNCHANGED mail
    /\ cursor' = cursor + 1
    /\ UNCHANGED <<arrived, mboxlock, state, user, open, mbox, closing, crashes>>

\* Mutant of pop3_quit_done: the lock is not released.
QuitDoneLocked ==
    /\ closing # NULL
    /\ cursor > mbox[closing].count
    /\ Gone(closing)
    /\ closing' = NULL
    /\ cursor' = 0
    /\ UNCHANGED <<mail, arrived, mboxlock, crashes>>

\* Mutant of pop3_quit_done: the loop ends one mail early.
QuitDoneEarly ==
    /\ closing # NULL
    /\ cursor >= mbox[closing].count
    /\ config_set_user_mbox_lock(user[closing], FALSE)
    /\ Gone(closing)
    /\ closing' = NULL
    /\ cursor' = 0
    /\ UNCHANGED <<mail, arrived, crashes>>

\* ... then the lock is released and the connection module drops the session.
pop3_quit_done ==
    /\ closing # NULL
    /\ cursor > mbox[closing].count
    /\ config_set_user_mbox_lock(user[closing], FALSE)
    /\ Gone(closing)
    /\ closing' = NULL
    /\ cursor' = 0
    /\ UNCHANGED <<mail, arrived, crashes>>

\* Mutant of pop3_destroy_session: unlocks without having a mailbox.
DestroyUnlocksAlways(s) ==
    /\ closing = NULL
    /\ state[s] # "NONE"
    /\ IF user[s] # NULL
         THEN config_set_user_mbox_lock(user[s], FALSE)
         ELSE UNCHANGED mboxlock
    /\ Gone(s)
    /\ UNCHANGED <<mail, arrived, closing, cursor, crashes>>

\* Mutant of pop3_destroy_session: closes the mailbox as QUIT does.
DestroyCommits(s) ==
    /\ closing = NULL
    /\ state[s] # "NONE"
    /\ IF s \in open
         THEN /\ config_set_user_mbox_lock(user[s], FALSE)
              /\ mail' = mail \ {mbox[s].map[i] : i \in mbox[s].deleted}
         ELSE UNCHANGED <<mboxlock, mail>>
    /\ Gone(s)
    /\ UNCHANGED <<arrived, closing, cursor, crashes>>

\* The connection ends without QUIT: the markers are forgotten.
pop3_destroy_session(s) ==
    /\ closing = NULL
    /\ state[s] # "NONE"
    /\ IF s \in open
         THEN config_set_user_mbox_lock(user[s], FALSE)
         ELSE UNCHANGED mboxlock
    /\ Gone(s)
    /\ UNCHANGED <<mail, arrived, closing, cursor, crashes>>

-----------------------------------------------------------------------------
\* The SMTP side stores a mail, at any time between two handlers; a lock does
\* not keep mails out, and the name need not be one of a user (a recipient that
\* is not local is stored when the one before it was local).
Deliver(n) ==
    /\ closing = NULL
    /\ mbox_push_mail(n)
    /\ UNCHANGED <<state, user, open, mbox, closing, cursor, crashes>>

\* The process is killed, or exits in its signal handler, which can interrupt
\* mbox_close: only the table survives.
Restart ==
    /\ crashes < MaxCrash
    /\ crashes' = crashes + 1
    /\ mboxlock' = [a \in Account |-> FALSE]
    /\ state' = [s \in Session |-> "NONE"]
    /\ user' = [s \in Session |-> NULL]
    /\ open' = {}
    /\ mbox' = [s \in Session |-> NoMailbox]
    /\ closing' = NULL
    /\ cursor' = 0
    /\ UNCHANGED <<mail, arrived>>

-----------------------------------------------------------------------------
Next ==
    \/ \E s \in Session :
        \/ pop3_create_session(s)
        \/ \E n \in Name : pop3_check_user(s, n)
        \/ pop3_check_passwd(s)
        \/ pop3_check_passwd_locked(s)
        \/ \E i \in 0..MaxMail + 1 : pop3_dele_mailbox(s, i)
        \/ pop3_rset_mailbox(s)
        \/ pop3_quit_auth(s)
        \/ pop3_quit_session(s)
        \/ pop3_destroy_session(s)
    \/ mbox_close_step
    \/ pop3_quit_done
    \/ \E n \in Name : Deliver(n)
    \/ Restart

Spec == Init /\ [][Next]_vars

\* A handler that has started runs to its end unless the process dies.
FairSpec == Spec /\ WF_vars(mbox_close_step) /\ WF_vars(pop3_quit_done)

-----------------------------------------------------------------------------
(* Properties.                                                             *)

\* A mailbox object as mbox_init builds it and the commands keep it: mails
\* are numbered 1..count without gap or repetition, markers are on numbers.
MailboxOK(mb) ==
    /\ mb.count \in Nat
    /\ mb.map \in Injection(1..mb.count, Row)
    /\ mb.deleted \subseteq 1..mb.count
    /\ mb = [count |-> mb.count, map |-> mb.map, deleted |-> mb.deleted]

\* The type of every variable, and where the code relies on more than that:
\* a transaction session has a mailbox and a known user name.
TypeOK ==
    /\ mail \subseteq Row
    /\ IsFiniteSet(mail)
    /\ arrived \in Nat
    /\ mboxlock \in [Account -> BOOLEAN]
    /\ state \in [Session -> States]
    /\ user \in [Session -> Name \cup {NULL}]
    /\ \A s \in Session : user[s] # NULL => config_has_user(user[s])
    /\ open = {s \in Session : state[s] = "START"}
    /\ \A s \in open : user[s] # NULL
    /\ DOMAIN mbox = Session
    /\ \A s \in Session : MailboxOK(mbox[s])
    /\ closing \in open \cup {NULL}
    /\ cursor \in Nat
    /\ crashes \in Nat

\* At most one mailbox object per account is open, however the two clients
\* spelled the name: usage_doc says a second one makes the program fail.
LockExclusive ==
    \A s, t \in open : Holder(s) = Holder(t) => s = t

\* An account is locked exactly while a session has its mailbox open: no
\* ending of a session leaks the lock or frees the lock of another session.
LockHeld ==
    \A a \in Account : mboxlock[a] <=> \E s \in open : Holder(s) = a

\* No two mails of the table share an id.
IdUnique ==
    \A q, r \in mail : q.id = r.id => q = r

\* What an open mailbox knows of its mails stays true while it is open: row
\* and content are still what mbox_init saw, although deliveries, deletions
\* by other sessions and reuse of ids go on.  RETR copies mail_size bytes of
\* the blob it finds under mail_id and does not check that it finds one.
SnapshotCurrent ==
    \A s \in open : \A i \in 1..mbox[s].count :
        \/ mbox[s].map[i] \in mail
        \/ closing = s /\ i < cursor /\ i \in mbox[s].deleted

\* An open mailbox shows only mails of the account that logged in.
SnapshotOwn ==
    \A s \in open : \A i \in 1..mbox[s].count :
        AccountOf[mbox[s].map[i].user] = Holder(s)

\* A mail leaves the table only while the session that holds the lock of its
\* account executes QUIT, and only if that session has this very mail marked.
\* Mails that arrived meanwhile, end of file and restarts never remove one.
OnlyMarkedLeaves ==
    [][\A r \in mail \ mail' :
          /\ closing # NULL
          /\ Holder(closing) = AccountOf[r.user]
          /\ mboxlock[Holder(closing)]
          /\ \E i \in mbox[closing].deleted : mbox[closing].map[i] = r]_vars

\* A mail that is marked when QUIT begins is gone in the end, unless the
\* process died first (only checked where statements do not fail).
Committing(d) ==
    /\ closing # NULL
    /\ \E i \in mbox[closing].deleted : mbox[closing].map[i].data = d

InTable(d) == \E r \in mail : r.data = d

QuitCommits ==
    \A d \in 1..MaxMail : \A k \in 0..MaxCrash :
        (Committing(d) /\ crashes = k) ~> (~InTable(d) \/ crashes > k)

=============================================================================
