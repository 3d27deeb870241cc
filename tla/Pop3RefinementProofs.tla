------------------------ MODULE Pop3RefinementProofs ------------------------
(***************************************************************************)
(* Pop3 implements Maildrop, for every user list and every number of       *)
(* sessions, mails and restarts, and whether or not statements fail.       *)
(***************************************************************************)
EXTENDS Pop3Refinement, Pop3Proofs

-----------------------------------------------------------------------------
(* What the mapping needs beside the invariants of Pop3.                   *)

\* Contents are numbered, and no two mails have the same; not even one that an
\* open mailbox remembers and one that arrived since.
Numbered ==
    /\ arrived \in 0..MaxMail
    /\ \A r \in mail : r.data \in 1..arrived
    /\ \A q, r \in mail : q.data = r.data => q = r

Remembered ==
    \A s \in open : \A i \in 1..mbox[s].count :
        /\ mbox[s].map[i].data \in 1..arrived
        /\ \A r \in mail : r.data = mbox[s].map[i].data => r = mbox[s].map[i]

\* The mails a QUIT is through with are gone, if statements do not fail.
Done ==
    closing # NULL /\ ~DbMayFail =>
        \A i \in mbox[closing].deleted : i < cursor => mbox[closing].map[i] \notin mail

MapInv == Numbered /\ Remembered /\ Done

LEMMA InitMapInv == Init => MapInv
  BY MailboxAssumption DEF Init, MapInv, Numbered, Remembered, Done

LEMMA NextNumbered == IInv /\ Numbered /\ [Next]_vars => Numbered'
<1> SUFFICES ASSUME IInv, Numbered, [Next]_vars PROVE Numbered'
  OBVIOUS
<1>1. ASSUME NEW n \in Name, Deliver(n) PROVE Numbered'
  <2>1. arrived < MaxMail /\ arrived' = arrived + 1
    BY <1>1 DEF Deliver, mbox_push_mail
  <2>2. arrived' \in 0..MaxMail /\ \A r \in mail : r.data \in 1..arrived' /\ r.data # arrived'
    BY <2>1, MailboxAssumption DEF Numbered
  <2>3. CASE mail' = mail
    BY <2>2, <2>3 DEF Numbered
  <2>4. ASSUME NEW id \in NextIds,
               mail' = mail \cup {[id |-> id, user |-> n, data |-> arrived + 1]}
        PROVE  Numbered'
    <3> DEFINE row == [id |-> id, user |-> n, data |-> arrived + 1]
    <3>1. row.data = arrived'
      BY <2>1
    <3>2. mail' = mail \cup {row}
      BY <2>4
    <3>3. arrived' \in 1..arrived'
      BY <2>1 DEF Numbered
    <3> HIDE DEF row
    <3>4. QED
      BY <2>2, <3>1, <3>2, <3>3 DEF Numbered
  <2>5. QED
    BY <1>1, <2>3, <2>4 DEF Deliver, mbox_push_mail
<1>2. CASE mail' \subseteq mail /\ arrived' = arrived
  BY <1>2 DEF Numbered
<1>3. CASE mbox_close_step
  <2>1. mail' \subseteq mail
    BY <1>3, DeleteHitsMarked DEF mbox_close_step
  <2>2. QED
    BY <1>2, <1>3, <2>1 DEF mbox_close_step
<1>4. QED
  BY <1>1, <1>2, <1>3
     DEF Next, pop3_create_session, pop3_check_user, pop3_check_passwd,
         pop3_check_passwd_locked, pop3_dele_mailbox, pop3_rset_mailbox,
         pop3_quit_auth, pop3_quit_session, pop3_destroy_session,
         pop3_quit_done, Restart, vars

LEMMA NextRemembered ==
    IInv /\ Numbered /\ Remembered /\ [Next]_vars => Remembered'
<1> SUFFICES ASSUME IInv, Numbered, Remembered, [Next]_vars PROVE Remembered'
  OBVIOUS
<1>1. ASSUME NEW n \in Name, Deliver(n) PROVE Remembered'
  <2>1. arrived' = arrived + 1 /\ open' = open /\ mbox' = mbox
    BY <1>1 DEF Deliver, mbox_push_mail
  <2>2. arrived \in Nat
    BY MailboxAssumption DEF Numbered
  <2>3. \A r \in mail' : r \in mail \/ r.data = arrived + 1
    BY <1>1 DEF Deliver, mbox_push_mail
  <2>4. QED
    BY <2>1, <2>2, <2>3 DEF Remembered
<1>2. ASSUME mail' \subseteq mail, arrived' = arrived, open' \subseteq open,
             \A t \in open' : /\ mbox'[t].count = mbox[t].count
                              /\ mbox'[t].map = mbox[t].map
      PROVE  Remembered'
  BY <1>2 DEF Remembered
<1>3. CASE mbox_close_step
  <2>1. mail' \subseteq mail
    BY <1>3, DeleteHitsMarked DEF mbox_close_step
  <2>2. QED
    BY <1>2, <1>3, <2>1 DEF mbox_close_step
<1>4. ASSUME NEW s \in Session, pop3_check_passwd(s) PROVE Remembered'
  <2>1. PICK mb \in mbox_init(user[s]) : mbox' = [mbox EXCEPT ![s] = mb]
    BY <1>4 DEF pop3_check_passwd
  <2>2. user[s] \in Name /\ mail \subseteq Row /\ IsFiniteSet(mail)
    BY <1>4 DEF pop3_check_passwd, IInv, TypeOK
  <2>3. \A i \in 1..mb.count : mb.map[i] \in mail
    BY <2>2, InitMailbox
  <2>4. /\ mbox'[s] = mb /\ open' = open \cup {s} /\ mail' = mail
        /\ arrived' = arrived /\ \A t \in open \ {s} : mbox'[t] = mbox[t]
    BY <1>4, <2>1 DEF pop3_check_passwd, IInv, TypeOK
  <2> SUFFICES ASSUME NEW t \in open', NEW i \in 1..mbox'[t].count
               PROVE  /\ mbox'[t].map[i].data \in 1..arrived'
                      /\ \A r \in mail' : r.data = mbox'[t].map[i].data
                                            => r = mbox'[t].map[i]
    BY DEF Remembered
  <2>5. CASE t = s
    BY <2>3, <2>4, <2>5 DEF Numbered
  <2>6. CASE t # s
    BY <2>4, <2>6 DEF Remembered
  <2>7. QED
    BY <2>5, <2>6
<1>5. ASSUME NEW s \in Session, UNCHANGED <<mail, arrived>>,
             Gone(s)
      PROVE  Remembered'
  BY <1>2, <1>5 DEF Gone, IInv, TypeOK
<1>6. ASSUME NEW s \in Session, UNCHANGED <<mail, arrived, open>>,
             NEW mb, mb.count = mbox[s].count, mb.map = mbox[s].map,
             mbox' = [mbox EXCEPT ![s] = mb]
      PROVE  Remembered'
  BY <1>2, <1>6 DEF IInv, TypeOK
<1>7. ASSUME NEW s \in Session, NEW i \in 0..MaxMail + 1, pop3_dele_mailbox(s, i)
      PROVE  Remembered'
  <2>1. MailboxOK(mbox[s]) /\ i \in Int
    BY <1>7, MailboxAssumption DEF IInv, TypeOK
  <2>2. QED
    BY <1>6, <1>7, <2>1, MarkMailbox DEF pop3_dele_mailbox
<1>8. ASSUME NEW s \in Session, pop3_rset_mailbox(s) PROVE Remembered'
  <2>1. MailboxOK(mbox[s])
    BY <1>8 DEF IInv, TypeOK
  <2>2. QED
    BY <1>6, <1>8, <2>1, ResetMailbox DEF pop3_rset_mailbox
<1>9. CASE pop3_quit_done
  <2>1. closing \in Session
    BY <1>9 DEF pop3_quit_done, IInv, TypeOK
  <2>2. QED
    BY <1>5, <1>9, <2>1 DEF pop3_quit_done
<1>10. CASE Restart
  BY <1>10 DEF Restart, Remembered
<1>11. CASE UNCHANGED <<mail, arrived, open, mbox>>
  BY <1>2, <1>11
<1>12. QED
  BY <1>1, <1>3, <1>4, <1>5, <1>7, <1>8, <1>9, <1>10, <1>11
     DEF Next, pop3_create_session, pop3_check_user, pop3_check_passwd_locked,
         pop3_quit_auth, pop3_quit_session, pop3_destroy_session, vars

LEMMA NextDone == IInv /\ Done /\ [Next]_vars => Done'
<1> SUFFICES ASSUME IInv, Done, [Next]_vars, closing' # NULL, ~DbMayFail,
                    NEW i \in mbox'[closing'].deleted, i < cursor'
             PROVE  mbox'[closing'].map[i] \notin mail'
  BY DEF Done
<1>1. CASE mbox_close_step
  <2>1. closing' = closing /\ mbox' = mbox /\ closing \in open /\ closing # NULL
    BY <1>1 DEF mbox_close_step, IInv, TypeOK
  <2>2. i \in 1..mbox[closing].count /\ cursor \in Nat
    BY <2>1 DEF IInv, TypeOK, MailboxOK
  <2>3. mail' \subseteq mail
    BY <1>1, DeleteHitsMarked DEF mbox_close_step
  <2>4. CASE i < cursor
    BY <2>1, <2>3, <2>4 DEF Done
  <2>5. CASE i = cursor
    <3>1. mail' = {r \in mail : r.id # mbox[closing].map[cursor].id}
      BY <1>1, <2>1, <2>5 DEF mbox_close_step, DeleteOutcomes
    <3>2. QED
      BY <2>1, <2>5, <3>1
  <2>6. QED
    BY <1>1, <2>2, <2>4, <2>5 DEF mbox_close_step
<1>2. ASSUME NEW s \in Session, pop3_quit_session(s) PROVE FALSE
  <2>1. cursor' = 1 /\ mbox' = mbox /\ closing' = s /\ s \in open
    BY <1>2 DEF pop3_quit_session
  <2>2. i \in 1..mbox[s].count
    BY <2>1 DEF IInv, TypeOK, MailboxOK
  <2>3. QED
    BY <2>1, <2>2
<1>3. CASE UNCHANGED vars
  BY <1>3 DEF vars, Done
<1>4. QED
  BY <1>1, <1>2, <1>3
     DEF Next, Ready, pop3_create_session, pop3_check_user, pop3_check_passwd,
         pop3_check_passwd_locked, pop3_dele_mailbox, pop3_rset_mailbox,
         pop3_quit_auth, pop3_destroy_session, pop3_quit_done, Deliver, Restart

LEMMA MapAlways == Spec => [](IInv /\ MapInv)
<1>1. IInv /\ MapInv /\ [Next]_vars => MapInv'
  BY NextNumbered, NextRemembered, NextDone DEF MapInv
<1>2. QED
  BY <1>1, InitMapInv, Inductive, PTL DEF Spec

-----------------------------------------------------------------------------
(* What the mapping amounts to, given the invariants.                      *)

\* The account of an open mailbox is owned by its session, and what is
\* condemned there is what that session marked ...
HeldAccounts ==
    \A s \in open :
        /\ s \in Session /\ s # NULL
        /\ user[s] \in Name
        /\ Holder(s) \in Account
        /\ Owner[Holder(s)] = s
        /\ Condemned[Holder(s)] = Marked(s)

\* ... the other accounts are nobody's.
FreeAccounts ==
    \A a \in Account : (\A s \in open : Holder(s) # a) =>
        Owner[a] = NULL /\ Condemned[a] = {}

LEMMA Mapped == IInv => HeldAccounts /\ FreeAccounts
<1> SUFFICES ASSUME IInv PROVE HeldAccounts /\ FreeAccounts
  OBVIOUS
<1>1. ASSUME NEW s \in open
      PROVE  /\ s \in Session /\ s # NULL
             /\ user[s] \in Name /\ Holder(s) \in Account
             /\ Owner[Holder(s)] = s
             /\ Condemned[Holder(s)] = Marked(s)
  <2>1. s \in Session /\ user[s] \in Name /\ config_has_user(user[s])
    BY DEF IInv, TypeOK
  <2>2. Holder(s) \in Account /\ s # NULL
    BY <2>1, MailboxAssumption, Pop3Assumption DEF Holder, config_has_user
  <2>3. \A t \in open : Holder(t) = Holder(s) => t = s
    BY DEF IInv, LockInv, LockExclusive
  <2>4. OwnerOf(Holder(s)) = s
    BY <2>3 DEF OwnerOf
  <2>5. {t \in open : Holder(t) = Holder(s)} = {s}
    BY <2>3
  <2>6. Condemned[Holder(s)] = UNION {Marked(t) : t \in {s}}
    BY <2>2, <2>5 DEF Condemned
  <2>7. UNION {Marked(t) : t \in {s}} = Marked(s)
    OBVIOUS
  <2>8. QED
    BY <2>1, <2>2, <2>4, <2>6, <2>7 DEF Owner
<1>2. ASSUME NEW a \in Account, \A s \in open : Holder(s) # a
      PROVE  Owner[a] = NULL /\ Condemned[a] = {}
  BY <1>2 DEF Owner, OwnerOf, Condemned
<1>3. QED
  BY <1>1, <1>2 DEF HeldAccounts, FreeAccounts

LEMMA MappedNext == IInv' => HeldAccounts' /\ FreeAccounts'
  BY Mapped, PTL

\* An account whose session stays the same, with the same markers.
LEMMA SameAccount ==
    ASSUME IInv, IInv', NEW a \in Account,
           \A t \in open : Holder(t) = a =>
               /\ t \in open' /\ user'[t] = user[t]
               /\ mbox'[t].map = mbox[t].map
               /\ mbox'[t].deleted = mbox[t].deleted,
           \A t \in open' : Holder(t)' = a => t \in open /\ user'[t] = user[t]
    PROVE  Owner'[a] = Owner[a] /\ Condemned'[a] = Condemned[a]
<1>1. CASE \E t \in open : Holder(t) = a
  <2>1. PICK t \in open : Holder(t) = a
    BY <1>1
  <2>2. t \in open' /\ Holder(t)' = a
    BY <2>1 DEF Holder
  <2>3. Marked(t)' = Marked(t)
    BY <2>1 DEF Marked, Datas
  <2>4. Owner[a] = t /\ Condemned[a] = Marked(t)
    BY <2>1, Mapped DEF HeldAccounts
  <2>5. Owner'[a] = t /\ Condemned'[a] = Marked(t)'
    BY <2>2, MappedNext DEF HeldAccounts
  <2>6. QED
    BY <2>3, <2>4, <2>5
<1>2. CASE \A t \in open : Holder(t) # a
  <2>1. \A t \in open' : Holder(t)' # a
    BY <1>2 DEF Holder
  <2>2. QED
    BY <1>2, <2>1, Mapped, MappedNext DEF FreeAccounts
<1>3. QED
  BY <1>1, <1>2

LEMMA SameBox == UNCHANGED mail => UNCHANGED Box
  BY DEF Box, Datas

LEMMA SameRemoving ==
    ASSUME TypeOK, UNCHANGED closing,
           closing # NULL => user'[closing] = user[closing]
    PROVE  UNCHANGED Removing
  BY DEF Removing, Holder

\* Sessions without a mailbox come, go and take names: nothing happens.
LEMMA SameMaildrop ==
    ASSUME IInv, IInv', UNCHANGED <<mail, open, closing>>,
           \A t \in open : user'[t] = user[t] /\ mbox'[t] = mbox[t]
    PROVE  UNCHANGED Drop!vars
<1>1. \A a \in Account : Owner'[a] = Owner[a] /\ Condemned'[a] = Condemned[a]
  BY SameAccount
<1>2. UNCHANGED <<Owner, Condemned>>
  BY <1>1 DEF Owner, Condemned
<1>3. closing # NULL => closing \in open
  BY DEF IInv, TypeOK
<1>4. UNCHANGED Removing
  BY <1>3, SameRemoving DEF IInv
<1>5. QED
  BY <1>2, <1>4, SameBox DEF Drop!vars

-----------------------------------------------------------------------------
(* Every step of the sessions is a step of the mailboxes or a stutter.     *)

LEMMA StepLogin ==
    ASSUME IInv, IInv', NEW s \in Session, pop3_check_passwd(s)
    PROVE  Drop!Acquire(Holder(s), s)
<1> DEFINE a == Holder(s)
<1>1. /\ s \notin open /\ open' = open \cup {s} /\ user' = user
      /\ closing = NULL /\ closing' = NULL /\ mail' = mail
  BY DEF pop3_check_passwd, Ready, IInv, TypeOK
<1>2. a \in Account
  BY MailboxAssumption DEF pop3_check_passwd, IInv, TypeOK, Holder, config_has_user
<1>3. \A t \in open : Holder(t) # a
  BY <1>2 DEF pop3_check_passwd, config_user_locked, Holder, IInv, LockInv, LockHeld
<1>4. Owner[a] = NULL /\ Condemned[a] = {}
  BY <1>2, <1>3, Mapped DEF FreeAccounts
<1>5. \A b \in Account : Owner[b] # s
  <2>1. s # NULL
    BY Pop3Assumption
  <2>2. \A b \in Account : (\A t \in open : Holder(t) # b) \/ Owner[b] \in open
    BY Mapped DEF HeldAccounts
  <2>3. QED
    BY <1>1, <2>1, <2>2, Mapped DEF FreeAccounts
<1>6. s \in open' /\ Holder(s)' = a
  BY <1>1 DEF Holder
<1>7. Owner'[a] = s /\ Condemned'[a] = Marked(s)'
  BY <1>6, MappedNext DEF HeldAccounts
<1>8. Marked(s)' = {}
  <2>1. PICK mb \in mbox_init(user[s]) : mbox' = [mbox EXCEPT ![s] = mb]
    BY DEF pop3_check_passwd
  <2>2. mbox'[s] = mb /\ user[s] \in Name /\ mail \subseteq Row /\ IsFiniteSet(mail)
    BY <2>1 DEF pop3_check_passwd, IInv, TypeOK
  <2>3. mbox'[s].deleted = {}
    BY <2>2, InitMailbox
  <2>4. QED
    BY <2>3 DEF Marked, Datas
<1>9. \A b \in Account \ {a} : Owner'[b] = Owner[b] /\ Condemned'[b] = Condemned[b]
  <2> SUFFICES ASSUME NEW b \in Account, b # a
               PROVE  Owner'[b] = Owner[b] /\ Condemned'[b] = Condemned[b]
    OBVIOUS
  <2>1. \A t \in open : mbox'[t] = mbox[t]
    BY <1>1 DEF pop3_check_passwd, IInv, TypeOK
  <2>2. \A t \in open' : Holder(t)' = b => t \in open
    BY <1>1, <1>6
  <2>3. QED
    BY <1>1, <2>1, <2>2, SameAccount
<1>10. Owner' = [Owner EXCEPT ![a] = s]
  BY <1>2, <1>7, <1>9 DEF Owner
<1>11. Condemned' = Condemned
  BY <1>4, <1>7, <1>8, <1>9 DEF Condemned
<1>12. Removing' = Removing
  BY <1>1 DEF Removing
<1>13. QED
  BY <1>1, <1>4, <1>5, <1>10, <1>11, <1>12, SameBox DEF Drop!Acquire

\* Only the markers of one session change.
LEMMA Remarked ==
    ASSUME IInv, IInv', NEW s \in open, UNCHANGED <<mail, open, user, closing>>,
           \A t \in open \ {s} : mbox'[t] = mbox[t]
    PROVE  /\ Condemned' = [Condemned EXCEPT ![Holder(s)] = Marked(s)']
           /\ UNCHANGED <<Box, Owner, Removing>>
<1> DEFINE a == Holder(s)
<1>1. a \in Account /\ Owner[a] = s
  BY Mapped DEF HeldAccounts
<1>2. Holder(s)' = a
  BY DEF Holder
<1>3. Owner'[a] = s /\ Condemned'[a] = Marked(s)'
  BY <1>2, MappedNext DEF HeldAccounts
<1>4. \A b \in Account \ {a} : Owner'[b] = Owner[b] /\ Condemned'[b] = Condemned[b]
  BY SameAccount
<1>5. Owner' = Owner
  BY <1>1, <1>3, <1>4 DEF Owner
<1>6. Condemned' = [Condemned EXCEPT ![a] = Marked(s)']
  BY <1>1, <1>3, <1>4 DEF Condemned
<1>7. QED
  BY <1>5, <1>6, SameBox, SameRemoving DEF IInv

LEMMA MarkOne ==
    ASSUME NEW mb, MailboxOK(mb), NEW i
    PROVE  mbox_mark_deleted(mb, i).deleted = mb.deleted \cup {i}
<1>1. PICK c, f, d : mb = [count |-> c, map |-> f, deleted |-> d]
  BY DEF MailboxOK
<1>2. mbox_mark_deleted(mb, i)
        = [count |-> c, map |-> f, deleted |-> d \cup {i}]
  BY <1>1 DEF mbox_mark_deleted
<1>3. QED
  BY <1>1, <1>2

LEMMA StepDele ==
    ASSUME IInv, IInv', MapInv, NEW s \in Session, NEW i \in 0..MaxMail + 1,
           pop3_dele_mailbox(s, i)
    PROVE  \E m \in 1..MaxMail : Drop!Condemn(Holder(s), m)
<1> DEFINE a == Holder(s)
           m == mbox[s].map[i].data
<1>1. /\ s \in open /\ closing = NULL /\ Listed(mbox[s], i)
      /\ UNCHANGED <<mail, open, user, closing>>
      /\ \A t \in open \ {s} : mbox'[t] = mbox[t]
      /\ mbox'[s] = mbox_mark_deleted(mbox[s], i)
  BY DEF pop3_dele_mailbox, Ready, IInv, TypeOK
<1>2. i \in 1..mbox[s].count
  BY <1>1, MailboxAssumption DEF Listed, IInv, TypeOK, MailboxOK
<1>3. mbox[s].map[i] \in mail /\ AccountOf[mbox[s].map[i].user] = a
  BY <1>1, <1>2, Pop3Assumption DEF IInv, SnapshotInv, SnapshotCurrent, SnapshotOwn, TypeOK
<1>4. m \in 1..MaxMail
  BY <1>3, MailboxAssumption DEF MapInv, Numbered
<1>5. a \in Account /\ Owner[a] = s /\ s # NULL /\ Condemned[a] = Marked(s)
  BY <1>1, Mapped DEF HeldAccounts
<1>6. m \in Box[a]
  BY <1>3, <1>5 DEF Box, Datas
<1>7. a \notin Removing
  BY <1>1 DEF Removing
<1>8. Marked(s)' = Marked(s) \cup {m}
  <2> DEFINE f == mbox[s].map
             d == mbox[s].deleted
  <2>1. MailboxOK(mbox[s])
    BY DEF IInv, TypeOK
  <2>2. mbox'[s].map = f /\ mbox'[s].deleted = d \cup {i}
    BY <1>1, <2>1, MarkMailbox, MarkOne
  <2>3. Marked(s)' = {r.data : r \in {f[k] : k \in d \cup {i}}}
    BY <2>2 DEF Marked, Datas
  <2>4. Marked(s) = {r.data : r \in {f[k] : k \in d}} /\ m = f[i].data
    BY DEF Marked, Datas
  <2>5. {f[k] : k \in d \cup {i}} = {f[k] : k \in d} \cup {f[i]}
    OBVIOUS
  <2> HIDE DEF f, d, m
  <2>6. QED
    BY <2>3, <2>4, <2>5
<1>9. Condemned' = [Condemned EXCEPT ![a] = @ \cup {m}]
  BY <1>1, <1>5, <1>8, Remarked
<1>10. UNCHANGED <<Box, Owner, Removing>>
  BY <1>1, Remarked
<1>11. Drop!Condemn(a, m)
  BY <1>5, <1>6, <1>7, <1>9, <1>10 DEF Drop!Condemn
<1>12. QED
  BY <1>4, <1>11

LEMMA StepRset ==
    ASSUME IInv, IInv', NEW s \in Session, pop3_rset_mailbox(s)
    PROVE  Drop!Reprieve(Holder(s))
<1> DEFINE a == Holder(s)
<1>1. /\ s \in open /\ closing = NULL
      /\ UNCHANGED <<mail, open, user, closing>>
      /\ \A t \in open \ {s} : mbox'[t] = mbox[t]
      /\ mbox'[s] = mbox_reset(mbox[s])
  BY DEF pop3_rset_mailbox, Ready, IInv, TypeOK
<1>2. a \in Account /\ Owner[a] = s /\ s # NULL
  BY <1>1, Mapped DEF HeldAccounts
<1>3. Marked(s)' = {}
  <2>1. PICK c, f, d : mbox[s] = [count |-> c, map |-> f, deleted |-> d]
    BY DEF IInv, TypeOK, MailboxOK
  <2>2. mbox'[s] = [count |-> c, map |-> f, deleted |-> {}]
    BY <1>1, <2>1 DEF mbox_reset
  <2>3. mbox'[s].deleted = {}
    BY <2>2
  <2>4. QED
    BY <2>3 DEF Marked, Datas
<1>4. a \notin Removing
  BY <1>1 DEF Removing
<1>5. QED
  BY <1>1, <1>2, <1>3, <1>4, Remarked DEF Drop!Reprieve

\* QUIT in the transaction state.
LEMMA StepQuit ==
    ASSUME IInv, IInv', NEW s \in Session, pop3_quit_session(s)
    PROVE  Drop!Commit(Holder(s))
<1> DEFINE a == Holder(s)
<1>1. /\ s \in open /\ closing = NULL /\ closing' = s
      /\ UNCHANGED <<mail, open, user, mbox>>
  BY DEF pop3_quit_session, Ready
<1>2. a \in Account /\ Owner[a] = s /\ s # NULL
  BY <1>1, Mapped DEF HeldAccounts
<1>3. Removing = {} /\ Removing' = {a}
  BY <1>1, <1>2 DEF Removing, Holder
<1>4. UNCHANGED <<Owner, Condemned>>
  <2>1. \A b \in Account : Owner'[b] = Owner[b] /\ Condemned'[b] = Condemned[b]
    BY <1>1, SameAccount
  <2>2. QED
    BY <2>1 DEF Owner, Condemned
<1>5. QED
  BY <1>1, <1>2, <1>3, <1>4, SameBox DEF Drop!Commit

\* The loop of mbox_close removes a condemned mail, or passes over one.
LEMMA StepClose ==
    ASSUME IInv, IInv', MapInv, mbox_close_step
    PROVE  \/ \E a \in Account : \E m \in 1..MaxMail : Drop!Remove(a, m)
           \/ UNCHANGED Drop!vars
<1>1. /\ closing # NULL /\ closing \in open
      /\ UNCHANGED <<user, open, mbox, closing>>
  BY DEF mbox_close_step, IInv, TypeOK
<1>2. UNCHANGED <<Owner, Condemned, Removing>>
  <2>1. \A b \in Account : Owner'[b] = Owner[b] /\ Condemned'[b] = Condemned[b]
    BY <1>1, SameAccount
  <2>2. UNCHANGED <<Owner, Condemned>>
    BY <2>1 DEF Owner, Condemned
  <2>3. QED
    BY <1>1, <2>2, SameRemoving DEF IInv
<1>3. CASE mail' = mail
  BY <1>2, <1>3, SameBox DEF Drop!vars
<1>4. CASE cursor \in mbox[closing].deleted /\ mail' # mail
  <2> DEFINE row == mbox[closing].map[cursor]
             a == Holder(closing)
  <2>1. row \in mail /\ mail' = mail \ {row}
    BY <1>4, DeleteHitsMarked
  <2>2. cursor \in 1..mbox[closing].count
    BY <1>1, <1>4 DEF IInv, TypeOK, MailboxOK
  <2>3. a \in Account /\ AccountOf[row.user] = a /\ Condemned[a] = Marked(closing)
    BY <1>1, <2>2, Mapped DEF HeldAccounts, IInv, SnapshotInv, SnapshotOwn
  <2>4. row.data \in 1..MaxMail /\ \A r \in mail : r.data = row.data => r = row
    BY <2>1, MailboxAssumption DEF MapInv, Numbered
  <2>5. row.data \in Condemned[a]
    BY <1>4, <2>3 DEF Marked, Datas
  <2>6. a \in Removing
    BY <1>1, <2>3 DEF Removing
  <2> HIDE DEF row
  <2>7. row.data \in Box[a]
    BY <2>1, <2>3 DEF Box, Datas
  <2>8. Box'[a] = Box[a] \ {row.data}
    BY <2>1, <2>3, <2>4 DEF Box, Datas
  <2>9. \A b \in Account \ {a} : Box'[b] = Box[b]
    BY <2>1, <2>3 DEF Box, Datas
  <2>10. Box' = [Box EXCEPT ![a] = @ \ {row.data}]
    BY <2>3, <2>8, <2>9 DEF Box
  <2>11. Drop!Remove(a, row.data)
    BY <1>2, <2>5, <2>6, <2>7, <2>10 DEF Drop!Remove
  <2>12. QED
    BY <2>3, <2>4, <2>11
<1>5. QED
  BY <1>3, <1>4 DEF mbox_close_step

\* A session that had a mailbox is gone.
LEMMA StepLeave ==
    ASSUME IInv, IInv', NEW s \in open, Gone(s), UNCHANGED mail, closing' = NULL,
           closing \in {NULL, s},
           closing = s /\ ~DbMayFail
             => \A i \in mbox[s].deleted : \A r \in mail :
                    r.data # mbox[s].map[i].data
    PROVE  Drop!Release(Holder(s))
<1> DEFINE a == Holder(s)
<1>1. /\ a \in Account /\ Owner[a] = s /\ s # NULL /\ Condemned[a] = Marked(s)
      /\ s \in Session
  BY Mapped DEF HeldAccounts
<1>2. /\ open' = open \ {s}
      /\ \A t \in open' : user'[t] = user[t] /\ mbox'[t] = mbox[t]
  BY DEF Gone, IInv, TypeOK
<1>3. \A t \in open' : Holder(t)' # a
  BY <1>2 DEF Holder, IInv, LockInv, LockExclusive
<1>4. Owner'[a] = NULL /\ Condemned'[a] = {}
  BY <1>1, <1>3, MappedNext DEF FreeAccounts
<1>5. \A b \in Account \ {a} : Owner'[b] = Owner[b] /\ Condemned'[b] = Condemned[b]
  <2> SUFFICES ASSUME NEW b \in Account, b # a
               PROVE  Owner'[b] = Owner[b] /\ Condemned'[b] = Condemned[b]
    OBVIOUS
  <2>1. \A t \in open : Holder(t) = b => t \in open'
    BY <1>2
  <2>2. QED
    BY <1>2, <2>1, SameAccount
<1>6. Owner' = [Owner EXCEPT ![a] = NULL]
  BY <1>1, <1>4, <1>5 DEF Owner
<1>7. Condemned' = [Condemned EXCEPT ![a] = {}]
  BY <1>1, <1>4, <1>5 DEF Condemned
<1>8. Removing' = Removing \ {a}
  BY DEF Removing
<1>9. ~DbMayFail /\ a \in Removing => Condemned[a] \cap Box[a] = {}
  <2> SUFFICES ASSUME ~DbMayFail, a \in Removing PROVE Marked(s) \cap Box[a] = {}
    BY <1>1
  <2>1. closing = s
    BY DEF Removing
  <2>2. \A d \in Marked(s) : \A r \in mail : r.data # d
    BY <2>1 DEF Marked, Datas
  <2>3. QED
    BY <1>1, <2>2 DEF Box, Datas
<1>10. QED
  BY <1>1, <1>6, <1>7, <1>8, <1>9, SameBox DEF Drop!Release

LEMMA StepQuitDone ==
    ASSUME IInv, IInv', MapInv, pop3_quit_done
    PROVE  \E a \in Account : Drop!Release(a)
<1> DEFINE s == closing
<1>1. s \in open /\ Holder(s) \in Account /\ s # NULL
  BY Mapped DEF pop3_quit_done, IInv, TypeOK, HeldAccounts
<1>2. ASSUME ~DbMayFail, NEW i \in mbox[s].deleted, NEW r \in mail
      PROVE  r.data # mbox[s].map[i].data
  <2>1. i \in 1..mbox[s].count /\ mbox[s].count \in Nat /\ cursor \in Nat
    BY <1>1 DEF IInv, TypeOK, MailboxOK
  <2>2. i < cursor
    BY <2>1 DEF pop3_quit_done
  <2>3. mbox[s].map[i] \notin mail
    BY <1>1, <1>2, <2>2 DEF MapInv, Done
  <2>4. QED
    BY <1>1, <2>1, <2>3 DEF MapInv, Remembered
<1>3. Gone(s) /\ UNCHANGED mail /\ closing' = NULL
  BY DEF pop3_quit_done
<1>4. Drop!Release(Holder(s))
  BY <1>1, <1>2, <1>3, StepLeave
<1>5. QED
  BY <1>1, <1>4

LEMMA StepDestroy ==
    ASSUME IInv, IInv', NEW s \in Session, pop3_destroy_session(s)
    PROVE  (\E a \in Account : Drop!Release(a)) \/ UNCHANGED Drop!vars
<1>1. Gone(s) /\ UNCHANGED mail /\ closing = NULL /\ closing' = NULL
  BY DEF pop3_destroy_session
<1>2. CASE s \in open
  <2>1. Holder(s) \in Account /\ s # NULL
    BY <1>2, Mapped DEF HeldAccounts
  <2>2. Drop!Release(Holder(s))
    BY <1>1, <1>2, <2>1, StepLeave
  <2>3. QED
    BY <2>1, <2>2
<1>3. CASE s \notin open
  <2>1. open' = open /\ \A t \in open : user'[t] = user[t] /\ mbox'[t] = mbox[t]
    BY <1>1, <1>3 DEF Gone, IInv, TypeOK
  <2>2. QED
    BY <1>1, <2>1, SameMaildrop
<1>4. QED
  BY <1>2, <1>3

\* A mail arrives under a name of an account; one under a name of nobody, or
\* one whose INSERT fails, is in nobody's mailbox.
LEMMA StepDeliver ==
    ASSUME IInv, IInv', MapInv, NEW n \in Name, Deliver(n)
    PROVE  \/ \E a \in Account : \E m \in 1..MaxMail : Drop!Arrive(a, m)
           \/ UNCHANGED Drop!vars
<1>1. UNCHANGED <<user, open, mbox, closing>>
  BY DEF Deliver
<1>2. UNCHANGED <<Owner, Condemned, Removing>>
  <2>1. \A b \in Account : Owner'[b] = Owner[b] /\ Condemned'[b] = Condemned[b]
    BY <1>1, SameAccount
  <2>2. UNCHANGED <<Owner, Condemned>>
    BY <2>1 DEF Owner, Condemned
  <2>3. QED
    BY <1>1, <2>2, SameRemoving DEF IInv
<1>3. CASE mail' = mail
  BY <1>2, <1>3, SameBox DEF Drop!vars
<1>4. ASSUME NEW id \in NextIds,
             mail' = mail \cup {[id |-> id, user |-> n, data |-> arrived + 1]}
      PROVE  \/ \E a \in Account : \E m \in 1..MaxMail : Drop!Arrive(a, m)
             \/ UNCHANGED Drop!vars
  <2> DEFINE row == [id |-> id, user |-> n, data |-> arrived + 1]
             a == AccountOf[n]
             m == arrived + 1
  <2>1. mail' = mail \cup {row} /\ row.user = n /\ row.data = m
    BY <1>4
  <2>2. m \in 1..MaxMail /\ \A r \in mail : r.data # m
    BY MailboxAssumption DEF Deliver, mbox_push_mail, MapInv, Numbered
  <2> HIDE DEF row, m
  <2>3. \A b \in Account \ {a} : Box'[b] = Box[b]
    BY <2>1 DEF Box, Datas
  <2>4. CASE a = NULL
    <3>1. Box' = Box
      BY <2>3, <2>4, MailboxAssumption DEF Box
    <3>2. QED
      BY <1>2, <3>1 DEF Drop!vars
  <2>5. CASE a # NULL
    <3>1. a \in Account
      BY <2>5, MailboxAssumption
    <3>2. Box'[a] = Box[a] \cup {m}
      BY <2>1, <3>1 DEF Box, Datas
    <3>3. Box' = [Box EXCEPT ![a] = @ \cup {m}]
      BY <2>3, <3>1, <3>2 DEF Box
    <3>4. \A b \in Account : m \notin Box[b]
      BY <2>2 DEF Box, Datas
    <3>5. Drop!Arrive(a, m)
      BY <1>2, <3>3, <3>4 DEF Drop!Arrive
    <3>6. QED
      BY <2>2, <3>1, <3>5
  <2>6. QED
    BY <2>4, <2>5
<1>5. QED
  BY <1>3, <1>4 DEF Deliver, mbox_push_mail

LEMMA StepRestart == ASSUME Restart PROVE Drop!Crash
<1>1. open' = {} /\ closing' = NULL /\ mail' = mail
  BY DEF Restart
<1>2. Owner' = [a \in Account |-> NULL]
  BY <1>1 DEF Owner, OwnerOf
<1>3. Condemned' = [a \in Account |-> {}]
  BY <1>1 DEF Condemned
<1>4. Removing' = {}
  BY <1>1 DEF Removing
<1>5. QED
  BY <1>1, <1>2, <1>3, <1>4, SameBox DEF Drop!Crash

\* A step that touches neither the table nor a session with a mailbox.
LEMMA StepAside ==
    ASSUME IInv, IInv', NEW s \in Session,
           \/ pop3_create_session(s)
           \/ \E n \in Name : pop3_check_user(s, n)
           \/ pop3_check_passwd_locked(s)
           \/ pop3_quit_auth(s)
    PROVE  UNCHANGED Drop!vars
<1>1. /\ UNCHANGED <<mail, open, closing>>
      /\ \A t \in open : user'[t] = user[t] /\ mbox'[t] = mbox[t]
  BY DEF pop3_create_session, pop3_check_user, pop3_check_passwd_locked,
         pop3_quit_auth, Gone, Ready, IInv, TypeOK
<1>2. QED
  BY <1>1, SameMaildrop

LEMMA StepMapped == IInv /\ IInv' /\ MapInv /\ [Next]_vars => [Drop!Next]_Drop!vars
<1> SUFFICES ASSUME IInv, IInv', MapInv, [Next]_vars PROVE [Drop!Next]_Drop!vars
  OBVIOUS
<1>1. ASSUME NEW s \in Session, pop3_check_passwd(s) PROVE Drop!Next
  <2>1. s \in open' /\ Holder(s)' = Holder(s)
    BY <1>1 DEF pop3_check_passwd, Holder
  <2>2. Holder(s) \in Account
    BY <2>1, MappedNext DEF HeldAccounts
  <2>3. QED
    BY <1>1, <2>2, StepLogin DEF Drop!Next
<1>2. \A s \in open : Holder(s) \in Account
  BY Mapped DEF HeldAccounts
<1>3. ASSUME NEW s \in Session, NEW i \in 0..MaxMail + 1, pop3_dele_mailbox(s, i)
      PROVE  Drop!Next
  BY <1>2, <1>3, StepDele DEF pop3_dele_mailbox, Drop!Next
<1>4. ASSUME NEW s \in Session, pop3_rset_mailbox(s) PROVE Drop!Next
  BY <1>2, <1>4, StepRset DEF pop3_rset_mailbox, Drop!Next
<1>5. ASSUME NEW s \in Session, pop3_quit_session(s) PROVE Drop!Next
  BY <1>2, <1>5, StepQuit DEF pop3_quit_session, Drop!Next
<1>6. CASE mbox_close_step
  BY <1>6, StepClose DEF Drop!Next
<1>7. CASE pop3_quit_done
  BY <1>7, StepQuitDone DEF Drop!Next
<1>8. ASSUME NEW s \in Session, pop3_destroy_session(s)
      PROVE  [Drop!Next]_Drop!vars
  BY <1>8, StepDestroy DEF Drop!Next
<1>9. ASSUME NEW n \in Name, Deliver(n) PROVE [Drop!Next]_Drop!vars
  BY <1>9, StepDeliver DEF Drop!Next
<1>10. CASE Restart
  BY <1>10, StepRestart DEF Drop!Next
<1>11. CASE UNCHANGED vars
  BY <1>11, SameMaildrop DEF vars
<1>12. QED
  BY <1>1, <1>3, <1>4, <1>5, <1>6, <1>7, <1>8, <1>9, <1>10, <1>11, StepAside
     DEF Next

LEMMA InitMapped == Init => Drop!Init
<1> SUFFICES ASSUME Init PROVE Drop!Init
  OBVIOUS
<1>1. mail = {} /\ open = {} /\ closing = NULL
  BY DEF Init
<1>2. Box = [a \in Account |-> {}]
  BY <1>1 DEF Box, Datas
<1>3. Owner = [a \in Account |-> NULL]
  BY <1>1 DEF Owner, OwnerOf
<1>4. Condemned = [a \in Account |-> {}] /\ Removing = {}
  BY <1>1 DEF Condemned, Removing
<1>5. QED
  BY <1>2, <1>3, <1>4 DEF Drop!Init

\* What pop3.c, mailbox.c and the locks of config.c do together is what
\* mailboxes do that one session at a time owns: whoever logs in, arrives,
\* quits or dies in whatever order, no mail leaves that its owner had not
\* condemned and committed, and a commit that ends has removed all of them.
THEOREM Pop3ImplementsMaildrop == Spec => ImplementsMaildrop
<1>1. Spec => [][Drop!Next]_Drop!vars
  BY StepMapped, MapAlways, PTL DEF Spec
<1>2. Spec => Drop!Init
  BY InitMapped DEF Spec
<1>3. QED
  BY <1>1, <1>2, PTL DEF ImplementsMaildrop, Drop!Spec

=============================================================================
