----------------------------- MODULE Pop3Proofs -----------------------------
(***************************************************************************)
(* What Pop3 guarantees for every user list, every number of sessions,     *)
(* mails and restarts, and whether or not statements of the database fail. *)
(*                                                                         *)
(* The invariants that the runs check are, taken together, inductive.      *)
(***************************************************************************)
EXTENDS Pop3, FiniteSetTheorems, TLAPS

-----------------------------------------------------------------------------
(* Mailbox objects.                                                        *)

LEMMA NoMailboxOK == MailboxOK(NoMailbox)
<1>1. 1..0 = {}
  OBVIOUS
<1>2. NoMailbox.map \in [1..0 -> Row] /\ DOMAIN NoMailbox.map = 1..0
  BY <1>1 DEF NoMailbox
<1>3. QED
  BY <1>1, <1>2 DEF MailboxOK, NoMailbox, Injection, IsInjective

\* mbox_init numbers rows of the user it is called for, each one once.
LEMMA InitMailbox ==
    ASSUME NEW n \in Name, NEW mb \in mbox_init(n),
           mail \subseteq Row, IsFiniteSet(mail)
    PROVE  /\ MailboxOK(mb)
           /\ mb.deleted = {}
           /\ \A i \in 1..mb.count : mb.map[i] \in mail /\ mb.map[i].user = n
<1>1. PICK rows : /\ rows \in {RowsOf(n)} \cup (IF DbMayFail THEN {{}} ELSE {})
                  /\ mb \in Mailboxes(rows)
  BY DEF mbox_init
<1>2. rows \subseteq RowsOf(n) /\ rows \subseteq mail /\ rows \subseteq Row
  BY <1>1 DEF RowsOf
<1>3. IsFiniteSet(rows)
  BY <1>2, FS_Subset
<1>4. Cardinality(rows) \in Nat
  BY <1>3, FS_CardinalityType
<1>5. PICK f \in Bijection(1..Cardinality(rows), rows) :
          mb = [count |-> Cardinality(rows), map |-> f, deleted |-> {}]
  BY <1>1 DEF Mailboxes
<1>6. f \in [1..Cardinality(rows) -> rows] /\ IsInjective(f)
  BY <1>5 DEF Bijection, Injection
<1>7. f \in Injection(1..Cardinality(rows), Row)
  BY <1>2, <1>6 DEF Injection
<1>8. MailboxOK(mb)
  BY <1>4, <1>5, <1>7 DEF MailboxOK
<1>9. QED
  BY <1>2, <1>5, <1>6, <1>8 DEF RowsOf

LEMMA MarkMailbox ==
    ASSUME NEW mb, MailboxOK(mb), NEW i \in Int, Listed(mb, i)
    PROVE  /\ MailboxOK(mbox_mark_deleted(mb, i))
           /\ mbox_mark_deleted(mb, i).count = mb.count
           /\ mbox_mark_deleted(mb, i).map = mb.map
<1>1. PICK c, f, d : mb = [count |-> c, map |-> f, deleted |-> d]
  BY DEF MailboxOK
<1>2. mbox_mark_deleted(mb, i)
        = [count |-> c, map |-> f, deleted |-> d \cup {i}]
  BY <1>1 DEF mbox_mark_deleted
<1>3. i \in 1..c
  BY <1>1 DEF MailboxOK, Listed
<1>4. QED
  BY <1>1, <1>2, <1>3 DEF MailboxOK

LEMMA ResetMailbox ==
    ASSUME NEW mb, MailboxOK(mb)
    PROVE  /\ MailboxOK(mbox_reset(mb))
           /\ mbox_reset(mb).count = mb.count
           /\ mbox_reset(mb).map = mb.map
<1>1. PICK c, f, d : mb = [count |-> c, map |-> f, deleted |-> d]
  BY DEF MailboxOK
<1>2. mbox_reset(mb) = [count |-> c, map |-> f, deleted |-> {}]
  BY <1>1 DEF mbox_reset
<1>3. QED
  BY <1>1, <1>2 DEF MailboxOK

\* A pushed mail gets an id that no mail of the table has.
LEMMA PushMail ==
    ASSUME NEW n \in Name, mbox_push_mail(n), TypeOK, MaxMail \in Nat
    PROVE  /\ mail \subseteq mail'
           /\ mail' \subseteq Row
           /\ IsFiniteSet(mail')
           /\ arrived' \in Nat
           /\ IdUnique => IdUnique'
<1>1. arrived' \in Nat /\ arrived + 1 \in Nat
  BY DEF mbox_push_mail, TypeOK
<1>2. CASE UNCHANGED mail
  BY <1>1, <1>2 DEF TypeOK, IdUnique
<1>3. CASE \E id \in NextIds :
             mail' = mail \cup {[id |-> id, user |-> n, data |-> arrived + 1]}
  <2>1. PICK id \in NextIds :
             mail' = mail \cup {[id |-> id, user |-> n, data |-> arrived + 1]}
    BY <1>3
  <2>2. id \in Nat \ {0} /\ \A r \in mail : r.id < id
    BY DEF NextIds
  <2>3. [id |-> id, user |-> n, data |-> arrived + 1] \in Row
    BY <1>1, <2>2 DEF Row
  <2>4. IsFiniteSet(mail')
    BY <2>1, FS_AddElement DEF TypeOK
  <2>5. \A r \in mail : r.id # id
    BY <2>2 DEF TypeOK, Row
  <2>6. IdUnique => IdUnique'
    BY <2>1, <2>5 DEF IdUnique
  <2>7. QED
    BY <1>1, <2>1, <2>3, <2>4, <2>6 DEF TypeOK
<1>4. QED
  BY <1>2, <1>3 DEF mbox_push_mail

-----------------------------------------------------------------------------
(* Types.                                                                  *)

LEMMA InitTypeOK == Init => TypeOK
<1> SUFFICES ASSUME Init PROVE TypeOK
  OBVIOUS
<1>1. mail \subseteq Row /\ IsFiniteSet(mail)
  BY FS_EmptySet DEF Init
<1>2. \A s \in Session : user[s] = NULL /\ state[s] = "NONE"
  BY DEF Init
<1>3. \A s \in Session : MailboxOK(mbox[s])
  BY NoMailboxOK DEF Init
<1>4. QED
  BY <1>1, <1>2, <1>3 DEF Init, TypeOK, States

\* What a session that ends leaves of the types, whatever else the step does.
LEMMA GoneTypes ==
    ASSUME NEW s \in Session, TypeOK, Gone(s)
    PROVE  /\ state' \in [Session -> States]
           /\ user' \in [Session -> Name \cup {NULL}]
           /\ \A t \in Session : user'[t] # NULL => config_has_user(user'[t])
           /\ open' = {t \in Session : state'[t] = "START"}
           /\ \A t \in open' : user'[t] # NULL
           /\ DOMAIN mbox' = Session
           /\ \A t \in Session : MailboxOK(mbox'[t])
<1>1. \A t \in Session : MailboxOK(mbox'[t])
  BY NoMailboxOK DEF TypeOK, Gone
<1>2. QED
  BY <1>1 DEF TypeOK, Gone, States, config_has_user

LEMMA TypeStep == TypeOK /\ [Next]_vars => TypeOK'
<1> SUFFICES ASSUME TypeOK, [Next]_vars PROVE TypeOK'
  OBVIOUS
<1>1. ASSUME NEW s \in Session, pop3_create_session(s) PROVE TypeOK'
  BY <1>1 DEF TypeOK, pop3_create_session, Ready, States, config_has_user
<1>2. ASSUME NEW s \in Session, NEW n \in Name, pop3_check_user(s, n)
      PROVE TypeOK'
  BY <1>2, MailboxAssumption
     DEF TypeOK, pop3_check_user, Ready, States, config_has_user
<1>3. ASSUME NEW s \in Session, pop3_check_passwd(s) PROVE TypeOK'
  <2>1. user[s] \in Name /\ state[s] = "AUTH"
    BY <1>3 DEF pop3_check_passwd, Ready, TypeOK
  <2>2. PICK mb \in mbox_init(user[s]) : mbox' = [mbox EXCEPT ![s] = mb]
    BY <1>3 DEF pop3_check_passwd
  <2>3. MailboxOK(mb)
    BY <2>1, InitMailbox DEF TypeOK
  <2>4. DOMAIN mbox' = Session /\ \A t \in Session : MailboxOK(mbox'[t])
    BY <2>2, <2>3 DEF TypeOK
  <2>5. mboxlock' \in [Account -> BOOLEAN]
    BY <1>3 DEF pop3_check_passwd, config_set_user_mbox_lock, TypeOK
  <2>6. /\ state' \in [Session -> States]
        /\ open' = {t \in Session : state'[t] = "START"}
    BY <1>3 DEF pop3_check_passwd, TypeOK, States
  <2>7. \A t \in open' : user'[t] # NULL
    BY <1>3 DEF pop3_check_passwd, TypeOK
  <2>8. closing' \in open' \cup {NULL}
    BY <1>3 DEF pop3_check_passwd, Ready, TypeOK
  <2>9. QED
    BY <1>3, <2>4, <2>5, <2>6, <2>7, <2>8
       DEF pop3_check_passwd, TypeOK, config_has_user
<1>4. ASSUME NEW s \in Session, pop3_check_passwd_locked(s) PROVE TypeOK'
  BY <1>4, GoneTypes DEF TypeOK, pop3_check_passwd_locked, Ready
<1>5. ASSUME NEW s \in Session, NEW i \in 0..MaxMail + 1,
             pop3_dele_mailbox(s, i)
      PROVE TypeOK'
  <2>1. MailboxOK(mbox_mark_deleted(mbox[s], i))
    BY <1>5, MarkMailbox, MailboxAssumption DEF pop3_dele_mailbox, TypeOK
  <2>2. DOMAIN mbox' = Session /\ \A t \in Session : MailboxOK(mbox'[t])
    BY <1>5, <2>1 DEF pop3_dele_mailbox, TypeOK
  <2>3. QED
    BY <1>5, <2>2 DEF pop3_dele_mailbox, TypeOK, config_has_user
<1>6. ASSUME NEW s \in Session, pop3_rset_mailbox(s) PROVE TypeOK'
  <2>1. MailboxOK(mbox_reset(mbox[s]))
    BY ResetMailbox DEF TypeOK
  <2>2. DOMAIN mbox' = Session /\ \A t \in Session : MailboxOK(mbox'[t])
    BY <1>6, <2>1 DEF pop3_rset_mailbox, TypeOK
  <2>3. QED
    BY <1>6, <2>2 DEF pop3_rset_mailbox, TypeOK, config_has_user
<1>7. ASSUME NEW s \in Session, pop3_quit_auth(s) PROVE TypeOK'
  BY <1>7, GoneTypes DEF TypeOK, pop3_quit_auth, Ready
<1>8. ASSUME NEW s \in Session, pop3_quit_session(s) PROVE TypeOK'
  BY <1>8 DEF TypeOK, pop3_quit_session, config_has_user
<1>9. ASSUME NEW s \in Session, pop3_destroy_session(s) PROVE TypeOK'
  <2>1. mboxlock' \in [Account -> BOOLEAN]
    BY <1>9 DEF pop3_destroy_session, config_set_user_mbox_lock, TypeOK
  <2>2. Gone(s)
    BY <1>9 DEF pop3_destroy_session
  <2>3. QED
    BY <1>9, <2>1, <2>2, GoneTypes DEF TypeOK, pop3_destroy_session
<1>10. ASSUME mbox_close_step PROVE TypeOK'
  <2>1. mail' \subseteq mail
    BY <1>10 DEF mbox_close_step, DeleteOutcomes
  <2>2. mail' \subseteq Row /\ IsFiniteSet(mail')
    BY <2>1, FS_Subset DEF TypeOK
  <2>3. QED
    BY <1>10, <2>2 DEF TypeOK, mbox_close_step, config_has_user
<1>11. ASSUME pop3_quit_done PROVE TypeOK'
  <2>1. closing \in Session
    BY <1>11 DEF pop3_quit_done, TypeOK
  <2>2. mboxlock' \in [Account -> BOOLEAN]
    BY <1>11 DEF pop3_quit_done, config_set_user_mbox_lock, TypeOK
  <2>3. Gone(closing)
    BY <1>11 DEF pop3_quit_done
  <2>4. QED
    BY <1>11, <2>1, <2>2, <2>3, GoneTypes DEF TypeOK, pop3_quit_done
<1>12. ASSUME NEW n \in Name, Deliver(n) PROVE TypeOK'
  <2>1. mail' \subseteq Row /\ IsFiniteSet(mail') /\ arrived' \in Nat
    BY <1>12, PushMail, MailboxAssumption DEF Deliver
  <2>2. QED
    BY <1>12, <2>1 DEF TypeOK, Deliver, mbox_push_mail, config_has_user
<1>13. ASSUME Restart PROVE TypeOK'
  <2>1. \A s \in Session : MailboxOK(mbox'[s])
    BY <1>13, NoMailboxOK DEF Restart
  <2>2. QED
    BY <1>13, <2>1 DEF TypeOK, Restart, States, config_has_user
<1>14. CASE UNCHANGED vars
  BY <1>14 DEF TypeOK, vars, config_has_user
<1>15. QED
  BY <1>1, <1>2, <1>3, <1>4, <1>5, <1>6, <1>7, <1>8, <1>9, <1>10, <1>11,
     <1>12, <1>13, <1>14 DEF Next

\* Every variable keeps its type: in particular a session in the transaction
\* state always has a mailbox and a user that exists.
THEOREM TypeCorrect == Spec => []TypeOK
<1>1. QED
  BY InitTypeOK, TypeStep, PTL DEF Spec
-----------------------------------------------------------------------------
(* The lock.                                                               *)

LockInv == LockExclusive /\ LockHeld

\* A session that has no mailbox ends: nobody else notices.
LEMMA LockGoneClosed ==
    ASSUME TypeOK, LockInv, NEW s \in Session, s \notin open, Gone(s),
           UNCHANGED mboxlock
    PROVE  LockInv'
<1>1. open' = open /\ \A t \in open : user'[t] = user[t]
  BY DEF TypeOK, Gone
<1>2. QED
  BY <1>1 DEF LockInv, LockExclusive, LockHeld, Holder

\* A session that has a mailbox ends and frees the lock: it was its own.
LEMMA LockGoneOpen ==
    ASSUME TypeOK, LockInv, NEW s \in open, Gone(s),
           config_set_user_mbox_lock(user[s], FALSE)
    PROVE  LockInv'
<1>1. /\ open' = open \ {s} /\ s \in Session
      /\ \A t \in open' : user'[t] = user[t] /\ Holder(t)' = Holder(t)
  BY DEF TypeOK, Gone, Holder
<1>2. mboxlock' = [mboxlock EXCEPT ![Holder(s)] = FALSE]
  BY DEF config_set_user_mbox_lock, Holder
<1>3. LockExclusive'
  BY <1>1 DEF LockInv, LockExclusive
<1>4. ASSUME NEW a \in Account
      PROVE  mboxlock'[a] <=> \E t \in open' : Holder(t)' = a
  <2>1. CASE a = Holder(s)
    <3>1. ~mboxlock'[a]
      BY <1>2, <2>1 DEF TypeOK
    <3>2. \A t \in open' : Holder(t)' # a
      BY <1>1, <2>1 DEF LockInv, LockExclusive
    <3>3. QED
      BY <3>1, <3>2
  <2>2. CASE a # Holder(s)
    <3>1. mboxlock'[a] = mboxlock[a]
      BY <1>2, <2>2 DEF TypeOK
    <3>2. (\E t \in open' : Holder(t)' = a) <=> (\E t \in open : Holder(t) = a)
      BY <1>1, <2>2
    <3>3. QED
      BY <3>1, <3>2 DEF LockInv, LockHeld
  <2>3. QED
    BY <2>1, <2>2
<1>5. QED
  BY <1>3, <1>4 DEF LockInv, LockHeld

\* A step that touches neither lock, open mailboxes nor their users.
LEMMA LockFrame ==
    ASSUME LockInv, UNCHANGED <<mboxlock, open>>,
           \A t \in open : user'[t] = user[t]
    PROVE  LockInv'
BY DEF LockInv, LockExclusive, LockHeld, Holder

LEMMA LockStep == TypeOK /\ LockInv /\ [Next]_vars => LockInv'
<1> SUFFICES ASSUME TypeOK, LockInv, [Next]_vars PROVE LockInv'
  OBVIOUS
<1>1. ASSUME NEW s \in Session, pop3_create_session(s) PROVE LockInv'
  BY <1>1, LockFrame DEF pop3_create_session
<1>2. ASSUME NEW s \in Session, NEW n \in Name, pop3_check_user(s, n)
      PROVE LockInv'
  <2>1. s \notin open
    BY <1>2 DEF pop3_check_user, Ready, TypeOK
  <2>2. QED
    BY <1>2, <2>1, LockFrame DEF pop3_check_user, TypeOK
<1>3. ASSUME NEW s \in Session, pop3_check_passwd(s) PROVE LockInv'
  <2>1. /\ open' = open \cup {s} /\ s \notin open
        /\ \A t \in Session : Holder(t)' = Holder(t)
        /\ mboxlock' = [mboxlock EXCEPT ![Holder(s)] = TRUE]
        /\ ~mboxlock[Holder(s)]
    BY <1>3 DEF pop3_check_passwd, Ready, TypeOK, Holder,
                config_set_user_mbox_lock, config_user_locked
  <2>2. Holder(s) \in Account
    BY <1>3, MailboxAssumption
       DEF pop3_check_passwd, TypeOK, Holder, config_has_user
  <2>3. \A t \in open : Holder(t) # Holder(s)
    BY <2>1, <2>2 DEF LockInv, LockHeld
  <2>4. LockExclusive'
    BY <2>1, <2>3 DEF LockInv, LockExclusive, TypeOK
  <2>5. LockHeld'
    BY <2>1 DEF LockInv, LockHeld, TypeOK
  <2>6. QED
    BY <2>4, <2>5 DEF LockInv
<1>4. ASSUME NEW s \in Session, pop3_check_passwd_locked(s) PROVE LockInv'
  <2>1. s \notin open
    BY <1>4 DEF pop3_check_passwd_locked, Ready, TypeOK
  <2>2. QED
    BY <1>4, <2>1, LockGoneClosed DEF pop3_check_passwd_locked
<1>5. ASSUME NEW s \in Session, NEW i \in 0..MaxMail + 1,
             pop3_dele_mailbox(s, i)
      PROVE LockInv'
  BY <1>5, LockFrame DEF pop3_dele_mailbox
<1>6. ASSUME NEW s \in Session, pop3_rset_mailbox(s) PROVE LockInv'
  BY <1>6, LockFrame DEF pop3_rset_mailbox
<1>7. ASSUME NEW s \in Session, pop3_quit_auth(s) PROVE LockInv'
  <2>1. s \notin open
    BY <1>7 DEF pop3_quit_auth, Ready, TypeOK
  <2>2. QED
    BY <1>7, <2>1, LockGoneClosed DEF pop3_quit_auth
<1>8. ASSUME NEW s \in Session, pop3_quit_session(s) PROVE LockInv'
  BY <1>8, LockFrame DEF pop3_quit_session
<1>9. ASSUME NEW s \in Session, pop3_destroy_session(s) PROVE LockInv'
  BY <1>9, LockGoneOpen, LockGoneClosed DEF pop3_destroy_session
<1>10. ASSUME mbox_close_step PROVE LockInv'
  BY <1>10, LockFrame DEF mbox_close_step
<1>11. ASSUME pop3_quit_done PROVE LockInv'
  <2>1. closing \in open
    BY <1>11 DEF pop3_quit_done, TypeOK
  <2>2. QED
    BY <1>11, <2>1, LockGoneOpen DEF pop3_quit_done
<1>12. ASSUME NEW n \in Name, Deliver(n) PROVE LockInv'
  BY <1>12, LockFrame DEF Deliver, mbox_push_mail
<1>13. ASSUME Restart PROVE LockInv'
  BY <1>13 DEF Restart, LockInv, LockExclusive, LockHeld
<1>14. CASE UNCHANGED vars
  BY <1>14, LockFrame DEF vars
<1>15. QED
  BY <1>1, <1>2, <1>3, <1>4, <1>5, <1>6, <1>7, <1>8, <1>9, <1>10, <1>11,
     <1>12, <1>13, <1>14 DEF Next

LEMMA LockAlways == Spec => [](TypeOK /\ LockInv)
<1>1. Init => LockInv
  BY DEF Init, LockInv, LockExclusive, LockHeld
<1>2. QED
  BY <1>1, InitTypeOK, TypeStep, LockStep, PTL DEF Spec

\* Two mailbox objects of one account are never open at the same time, also
\* when the two clients spell the name differently.
THEOREM MailboxExclusion == Spec => []LockExclusive
<1>1. LockInv => LockExclusive
  BY DEF LockInv
<1>2. QED
  BY <1>1, LockAlways, PTL

\* The lock of an account is set exactly while a session has its mailbox
\* open: no way to end a session leaks a lock or frees that of another.
THEOREM LockFollowsHolder == Spec => []LockHeld
<1>1. LockInv => LockHeld
  BY DEF LockInv
<1>2. QED
  BY <1>1, LockAlways, PTL

-----------------------------------------------------------------------------
(* The snapshot an open mailbox holds of the table.                        *)

SnapshotInv == IdUnique /\ SnapshotCurrent /\ SnapshotOwn

IInv == TypeOK /\ LockInv /\ SnapshotInv

\* A step that leaves the table, the mailboxes that stay open and the loop of
\* QUIT alone, or only adds mails under fresh ids.
LEMMA SnapshotFrame ==
    ASSUME TypeOK, SnapshotInv, mail \subseteq mail', IdUnique',
           open' \subseteq open, UNCHANGED closing \/ closing = NULL,
           UNCHANGED cursor \/ closing = NULL,
           \A t \in open' : /\ user'[t] = user[t]
                            /\ mbox'[t].count = mbox[t].count
                            /\ mbox'[t].map = mbox[t].map
                            /\ mbox'[t].deleted = mbox[t].deleted \/ closing = NULL
    PROVE  SnapshotInv'
<1>1. open \subseteq Session /\ NULL \notin open
  BY Pop3Assumption DEF TypeOK
<1>2. SnapshotCurrent'
  BY <1>1 DEF SnapshotInv, SnapshotCurrent
<1>3. SnapshotOwn'
  BY DEF SnapshotInv, SnapshotOwn, Holder
<1>4. QED
  BY <1>2, <1>3 DEF SnapshotInv

\* A session ends while no mailbox is being closed.
LEMMA SnapshotGone ==
    ASSUME TypeOK, SnapshotInv, NEW s \in Session, Gone(s), UNCHANGED mail,
           closing = NULL
    PROVE  SnapshotInv'
<1>1. IdUnique'
  BY DEF SnapshotInv, IdUnique
<1>2. open' \subseteq open
  BY DEF Gone
<1>3. \A t \in open' : user'[t] = user[t] /\ mbox'[t] = mbox[t]
  BY DEF Gone, TypeOK
<1>4. QED
  BY <1>1, <1>2, <1>3, SnapshotFrame

\* The mail at the cursor of QUIT is still in the table, so the DELETE by id
\* hits that row and no other.
LEMMA DeleteHitsMarked ==
    ASSUME IInv, mbox_close_step, cursor \in mbox[closing].deleted
    PROVE  /\ mbox[closing].map[cursor] \in mail
           /\ \/ mail' = mail \ {mbox[closing].map[cursor]}
              \/ mail' = mail
<1>1. closing \in open /\ closing \in Session
  BY DEF mbox_close_step, IInv, TypeOK
<1>2. cursor \in 1..mbox[closing].count
  BY <1>1 DEF IInv, TypeOK, MailboxOK
<1>3. mbox[closing].map[cursor] \in mail
  BY <1>1, <1>2 DEF IInv, SnapshotInv, SnapshotCurrent
<1>4. CASE mail' = mail
  BY <1>3, <1>4
<1>5. CASE mail' = {r \in mail : r.id # mbox[closing].map[cursor].id}
  BY <1>3, <1>5 DEF IInv, SnapshotInv, IdUnique
<1>6. QED
  BY <1>4, <1>5 DEF mbox_close_step, DeleteOutcomes

LEMMA SnapshotStep == IInv /\ [Next]_vars => SnapshotInv'
<1> SUFFICES ASSUME IInv, [Next]_vars PROVE SnapshotInv'
  OBVIOUS
<1>0. TypeOK /\ LockInv /\ SnapshotInv
  BY DEF IInv
<1>1. ASSUME NEW s \in Session, pop3_create_session(s) PROVE SnapshotInv'
  BY <1>0, <1>1, SnapshotFrame DEF pop3_create_session, SnapshotInv, IdUnique
<1>2. ASSUME NEW s \in Session, NEW n \in Name, pop3_check_user(s, n)
      PROVE SnapshotInv'
  <2>1. s \notin open
    BY <1>0, <1>2 DEF pop3_check_user, Ready, TypeOK
  <2>2. \A t \in open : user'[t] = user[t]
    BY <1>0, <1>2, <2>1 DEF pop3_check_user, TypeOK
  <2>3. QED
    BY <1>0, <1>2, <2>2, SnapshotFrame
       DEF pop3_check_user, SnapshotInv, IdUnique
<1>3. ASSUME NEW s \in Session, pop3_check_passwd(s) PROVE SnapshotInv'
  <2>1. user[s] \in Name /\ s \notin open /\ closing = NULL /\ closing' = NULL
    BY <1>0, <1>3 DEF pop3_check_passwd, Ready, TypeOK
  <2>2. PICK mb \in mbox_init(user[s]) : mbox' = [mbox EXCEPT ![s] = mb]
    BY <1>3 DEF pop3_check_passwd
  <2>3. \A i \in 1..mb.count : mb.map[i] \in mail /\ mb.map[i].user = user[s]
    BY <1>0, <2>1, InitMailbox DEF TypeOK
  <2>4. /\ open' = open \cup {s} /\ mail' = mail /\ user' = user
        /\ mbox'[s] = mb
        /\ \A t \in open : mbox'[t] = mbox[t]
    BY <1>0, <1>3, <2>1, <2>2 DEF pop3_check_passwd, TypeOK
  <2>5. SnapshotCurrent'
    <3> SUFFICES ASSUME NEW t \in open', NEW i \in 1..mbox'[t].count
                 PROVE  mbox'[t].map[i] \in mail'
      BY DEF SnapshotCurrent
    <3>1. CASE t = s
      BY <2>3, <2>4, <3>1
    <3>2. CASE t # s
      <4>1. NULL # t /\ t \in open
        BY <1>0, <2>4, <3>2, Pop3Assumption DEF TypeOK
      <4>2. QED
        BY <1>0, <2>1, <2>4, <4>1 DEF SnapshotInv, SnapshotCurrent
    <3>3. QED
      BY <3>1, <3>2
  <2>6. SnapshotOwn'
    <3> SUFFICES ASSUME NEW t \in open', NEW i \in 1..mbox'[t].count
                 PROVE  AccountOf[mbox'[t].map[i].user] = Holder(t)'
      BY DEF SnapshotOwn
    <3>1. CASE t = s
      BY <2>3, <2>4, <3>1 DEF Holder
    <3>2. CASE t # s
      BY <1>0, <2>4, <3>2 DEF SnapshotInv, SnapshotOwn, Holder
    <3>3. QED
      BY <3>1, <3>2
  <2>7. QED
    BY <1>0, <2>4, <2>5, <2>6 DEF SnapshotInv, IdUnique
<1>4. ASSUME NEW s \in Session, pop3_check_passwd_locked(s) PROVE SnapshotInv'
  BY <1>0, <1>4, SnapshotGone DEF pop3_check_passwd_locked, Ready
<1>5. ASSUME NEW s \in Session, NEW i \in 0..MaxMail + 1,
             pop3_dele_mailbox(s, i)
      PROVE SnapshotInv'
  <2>1. /\ MailboxOK(mbox[s]) /\ i \in Int
        /\ mbox' = [mbox EXCEPT ![s] = mbox_mark_deleted(mbox[s], i)]
    BY <1>0, <1>5, MailboxAssumption DEF pop3_dele_mailbox, TypeOK
  <2>2. \A t \in open : /\ mbox'[t].count = mbox[t].count
                        /\ mbox'[t].map = mbox[t].map
    BY <1>0, <1>5, <2>1, MarkMailbox DEF pop3_dele_mailbox, TypeOK
  <2>3. QED
    BY <1>0, <1>5, <2>2, SnapshotFrame
       DEF pop3_dele_mailbox, Ready, SnapshotInv, IdUnique
<1>6. ASSUME NEW s \in Session, pop3_rset_mailbox(s) PROVE SnapshotInv'
  <2>1. MailboxOK(mbox[s]) /\ mbox' = [mbox EXCEPT ![s] = mbox_reset(mbox[s])]
    BY <1>0, <1>6 DEF pop3_rset_mailbox, TypeOK
  <2>2. \A t \in open : /\ mbox'[t].count = mbox[t].count
                        /\ mbox'[t].map = mbox[t].map
    BY <1>0, <2>1, ResetMailbox DEF TypeOK
  <2>3. QED
    BY <1>0, <1>6, <2>2, SnapshotFrame
       DEF pop3_rset_mailbox, Ready, SnapshotInv, IdUnique
<1>7. ASSUME NEW s \in Session, pop3_quit_auth(s) PROVE SnapshotInv'
  BY <1>0, <1>7, SnapshotGone DEF pop3_quit_auth, Ready
<1>8. ASSUME NEW s \in Session, pop3_quit_session(s) PROVE SnapshotInv'
  BY <1>0, <1>8, SnapshotFrame
     DEF pop3_quit_session, Ready, SnapshotInv, IdUnique
<1>9. ASSUME NEW s \in Session, pop3_destroy_session(s) PROVE SnapshotInv'
  BY <1>0, <1>9, SnapshotGone DEF pop3_destroy_session
<1>10. ASSUME mbox_close_step PROVE SnapshotInv'
  <2>1. /\ closing \in open /\ closing \in Session /\ cursor \in Nat
        /\ cursor' = cursor + 1
        /\ UNCHANGED <<open, mbox, user, closing>>
    BY <1>0, <1>10 DEF mbox_close_step, TypeOK
  <2>2. CASE cursor \notin mbox[closing].deleted
    <3>1. mail' = mail
      BY <1>10, <2>2 DEF mbox_close_step
    <3>2. \A i \in Nat : i < cursor => i < cursor'
      BY <2>1
    <3>3. \A t \in open : \A i \in 1..mbox[t].count : i \in Nat
      BY <1>0, <2>1 DEF TypeOK, MailboxOK
    <3>4. SnapshotCurrent'
      BY <1>0, <2>1, <3>1, <3>2, <3>3 DEF SnapshotInv, SnapshotCurrent
    <3>5. QED
      BY <1>0, <2>1, <3>1, <3>4
         DEF SnapshotInv, SnapshotOwn, IdUnique, Holder
  <2>3. CASE cursor \in mbox[closing].deleted
    <3> DEFINE row == mbox[closing].map[cursor]
    <3>1. row \in mail /\ (mail' = mail \ {row} \/ mail' = mail)
      BY <1>10, <2>3, DeleteHitsMarked
    <3>2. /\ MailboxOK(mbox[closing])
          /\ cursor \in 1..mbox[closing].count
          /\ IsInjective(mbox[closing].map)
          /\ DOMAIN mbox[closing].map = 1..mbox[closing].count
      BY <1>0, <2>1, <2>3 DEF TypeOK, MailboxOK, Injection
    <3>3. AccountOf[row.user] = Holder(closing)
      BY <1>0, <2>1, <3>2 DEF SnapshotInv, SnapshotOwn
    <3>4. ASSUME NEW t \in open, NEW i \in 1..mbox[t].count,
                 mbox[t].map[i] = row
          PROVE  t = closing /\ i = cursor
      <4>1. Holder(t) = Holder(closing)
        BY <1>0, <3>3, <3>4 DEF SnapshotInv, SnapshotOwn
      <4>2. t = closing
        BY <1>0, <2>1, <4>1 DEF LockInv, LockExclusive
      <4>3. QED
        BY <3>2, <3>4, <4>2 DEF IsInjective
    <3>5. SnapshotCurrent'
      <4> SUFFICES ASSUME NEW t \in open, NEW i \in 1..mbox[t].count
                   PROVE  \/ mbox[t].map[i] \in mail'
                          \/ closing = t /\ i < cursor + 1 /\ i \in mbox[t].deleted
        BY <2>1 DEF SnapshotCurrent
      <4>1. CASE t = closing /\ i = cursor
        BY <2>1, <2>3, <4>1
      <4>2. CASE ~(t = closing /\ i = cursor)
        <5>1. mbox[t].map[i] # row
          BY <3>4, <4>2
        <5>2. \/ mbox[t].map[i] \in mail
              \/ closing = t /\ i < cursor /\ i \in mbox[t].deleted
          BY <1>0 DEF SnapshotInv, SnapshotCurrent
        <5>3. i \in Int
          BY <1>0, <2>1 DEF TypeOK, MailboxOK
        <5>4. QED
          BY <2>1, <3>1, <5>1, <5>2, <5>3
      <4>3. QED
        BY <4>1, <4>2
    <3>6. IdUnique'
      BY <1>0, <3>1 DEF SnapshotInv, IdUnique
    <3>7. SnapshotOwn'
      BY <1>0, <2>1 DEF SnapshotInv, SnapshotOwn, Holder
    <3>8. QED
      BY <3>5, <3>6, <3>7 DEF SnapshotInv
  <2>4. QED
    BY <2>2, <2>3
<1>11. ASSUME pop3_quit_done PROVE SnapshotInv'
  <2>1. /\ open' = open \ {closing} /\ closing' = NULL /\ mail' = mail
        /\ \A t \in open' : user'[t] = user[t] /\ mbox'[t] = mbox[t]
    BY <1>0, <1>11 DEF pop3_quit_done, Gone, TypeOK
  <2>2. SnapshotCurrent'
    BY <1>0, <2>1 DEF SnapshotInv, SnapshotCurrent
  <2>3. SnapshotOwn'
    BY <1>0, <2>1 DEF SnapshotInv, SnapshotOwn, Holder
  <2>4. QED
    BY <1>0, <2>1, <2>2, <2>3 DEF SnapshotInv, IdUnique
<1>12. ASSUME NEW n \in Name, Deliver(n) PROVE SnapshotInv'
  <2>1. mail \subseteq mail' /\ IdUnique'
    BY <1>0, <1>12, PushMail, MailboxAssumption DEF Deliver, SnapshotInv
  <2>2. QED
    BY <1>0, <1>12, <2>1, SnapshotFrame DEF Deliver, mbox_push_mail
<1>13. ASSUME Restart PROVE SnapshotInv'
  BY <1>0, <1>13
     DEF Restart, SnapshotInv, SnapshotCurrent, SnapshotOwn, IdUnique
<1>14. CASE UNCHANGED vars
  BY <1>0, <1>14, SnapshotFrame DEF vars, SnapshotInv, IdUnique
<1>15. QED
  BY <1>1, <1>2, <1>3, <1>4, <1>5, <1>6, <1>7, <1>8, <1>9, <1>10, <1>11,
     <1>12, <1>13, <1>14 DEF Next

LEMMA Inductive == Spec => []IInv
<1>1. Init => IInv
  <2>1. Init => LockInv
    BY DEF Init, LockInv, LockExclusive, LockHeld
  <2>2. Init => SnapshotInv
    BY DEF Init, SnapshotInv, IdUnique, SnapshotCurrent, SnapshotOwn
  <2>3. QED
    BY <2>1, <2>2, InitTypeOK DEF IInv
<1>2. IInv /\ [Next]_vars => IInv'
  BY TypeStep, LockStep, SnapshotStep DEF IInv
<1>3. QED
  BY <1>1, <1>2, PTL DEF Spec

\* The primary key: two mails never share an id.
THEOREM IdsAreUnique == Spec => []IdUnique
<1>1. IInv => IdUnique
  BY DEF IInv, SnapshotInv
<1>2. QED
  BY <1>1, Inductive, PTL

\* RETR always finds the row it looks for, with the content whose size the
\* mailbox remembers: ids come back, but never under an open mailbox.
THEOREM SnapshotsStayCurrent == Spec => []SnapshotCurrent
<1>1. IInv => SnapshotCurrent
  BY DEF IInv, SnapshotInv
<1>2. QED
  BY <1>1, Inductive, PTL

\* No session ever gets to see a mail of another account.
THEOREM SnapshotsAreOwn == Spec => []SnapshotOwn
<1>1. IInv => SnapshotOwn
  BY DEF IInv, SnapshotInv
<1>2. QED
  BY <1>1, Inductive, PTL

\* A mail leaves the table only by the QUIT of the session that holds the
\* lock of its account and has marked this very mail.
THEOREM OnlyMarkedMailLeaves == Spec => OnlyMarkedLeaves
<1> DEFINE Allowed ==
      \A r \in mail \ mail' :
          /\ closing # NULL
          /\ Holder(closing) = AccountOf[r.user]
          /\ mboxlock[Holder(closing)]
          /\ \E i \in mbox[closing].deleted : mbox[closing].map[i] = r
<1>1. IInv /\ [Next]_vars => [Allowed]_vars
  <2> SUFFICES ASSUME IInv, Next PROVE Allowed
    OBVIOUS
  <2>1. CASE mail \subseteq mail'
    BY <2>1
  <2>2. CASE mbox_close_step
    <3> SUFFICES ASSUME NEW r \in mail \ mail' PROVE
                   /\ closing # NULL
                   /\ Holder(closing) = AccountOf[r.user]
                   /\ mboxlock[Holder(closing)]
                   /\ \E i \in mbox[closing].deleted : mbox[closing].map[i] = r
      OBVIOUS
    <3>1. cursor \in mbox[closing].deleted
      BY <2>2 DEF mbox_close_step
    <3>2. r = mbox[closing].map[cursor]
      BY <2>2, <3>1, DeleteHitsMarked
    <3>3. closing \in open /\ closing \in Session /\ closing # NULL
      BY <2>2 DEF mbox_close_step, IInv, TypeOK
    <3>4. cursor \in 1..mbox[closing].count
      BY <3>1, <3>3 DEF IInv, TypeOK, MailboxOK
    <3>5. Holder(closing) = AccountOf[r.user]
      BY <3>2, <3>3, <3>4 DEF IInv, SnapshotInv, SnapshotOwn
    <3>6. Holder(closing) \in Account
      BY <3>3, MailboxAssumption DEF IInv, TypeOK, Holder, config_has_user
    <3>7. mboxlock[Holder(closing)]
      BY <3>3, <3>6 DEF IInv, LockInv, LockHeld
    <3>8. QED
      BY <3>1, <3>2, <3>3, <3>5, <3>7
  <2>3. CASE \E n \in Name : Deliver(n)
    <3>1. mail \subseteq mail'
      BY <2>3, PushMail, MailboxAssumption DEF Deliver, IInv
    <3>2. QED
      BY <3>1
  <2>4. QED
    BY <2>1, <2>2, <2>3
       DEF Next, pop3_create_session, pop3_check_user, pop3_check_passwd,
           pop3_check_passwd_locked, pop3_dele_mailbox, pop3_rset_mailbox,
           pop3_quit_auth, pop3_quit_session, pop3_destroy_session,
           pop3_quit_done, Restart
<1>2. QED
  BY <1>1, Inductive, PTL DEF Spec, OnlyMarkedLeaves

=============================================================================
