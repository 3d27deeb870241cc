---------------------------- MODULE ForwardProofs ----------------------------
(***************************************************************************)
(* What the forward module guarantees for every number of connections and  *)
(* mails, whatever servers answer, split or leave out.                     *)
(***************************************************************************)
EXTENDS Forward, SequenceTheorems, TLAPS

-----------------------------------------------------------------------------
(* Types.                                                                  *)

LEMMA SessionFacts ==
    /\ NoFwd.state = "FREE"
    /\ \A s \in Session :
         s # NoFwd <=> s \in [state : States, letter : Letter]
    /\ \A s \in Session :
         s # NoFwd => s.state \in States /\ s.letter \in Letter
    /\ \A p \in PeerSession :
         p # NoPeer => /\ p \in [stage : Stages, letter : Letter]
                       /\ p.stage \in Stages /\ p.letter \in Letter
    /\ \A l \in Letter : Opened(l) \in [state : States, letter : Letter]
    /\ \A l \in Letter : Greets(l) \in [stage : Stages, letter : Letter]
  BY DEF Session, PeerSession, NoFwd, NoPeer, Opened, Greets, States, Stages

\* The error mail about a letter is a letter, and not the letter of a mail.
LEMMA ReportIsLetter ==
    ASSUME NEW l \in Letter
    PROVE  /\ Report(l) \in Letter
           /\ l.mail \in Message
           /\ l.failable => l = [mail |-> l.mail, failable |-> TRUE]
           /\ ~l.failable => l = Report(l)
  BY DEF Letter, Report

LEMMA RepliesAreLines ==
    ASSUME NEW code \in Nat, NEW reply \in Replies(code)
    PROVE  reply \in Seq(Line)
<1>1. [code |-> code, kind |-> "last"] \in Line
  BY DEF Line
<1>2. \A k \in Continuation : [code |-> code, kind |-> k] \in Line
  BY ForwardAssumption DEF Line
<1>3. CASE reply = <<[code |-> code, kind |-> "last"]>>
  BY <1>1, <1>3
<1>4. CASE \E k \in Continuation :
             reply = <<[code |-> code, kind |-> k], [code |-> code, kind |-> "last"]>>
  BY <1>1, <1>2, <1>4
<1>5. QED
  BY <1>3, <1>4 DEF Replies

LEMMA InitTypeOK == Init => TypeOK
  BY DEF Init, TypeOK, Session, PeerSession, Fates

LEMMA FreedType ==
    ASSUME TypeOK, NEW c \in Conn, Freed(c)
    PROVE  fwd' \in [Conn -> Session] /\ lines' \in [Conn -> Seq(Line)]
  BY DEF TypeOK, Freed, Session

LEMMA ConsumedType ==
    ASSUME TypeOK, NEW c \in Conn, Reads(c), Consumed(c)
    PROVE  lines' \in [Conn -> Seq(Line)]
<1>1. lines[c] \in Seq(Line) /\ lines[c] # <<>>
  BY DEF TypeOK, Reads
<1>2. Tail(lines[c]) \in Seq(Line)
  BY <1>1
<1>3. QED
  BY <1>2 DEF TypeOK, Consumed

Commands == {"HELO", "MAIL", "RCPT", "DATA", "BODY", "QUIT"}

\* A reply of a server keeps the types.
LEMMA RepliedType ==
    ASSUME TypeOK, NEW c \in Conn, NEW code \in Nat, Replied(c, code),
           fwd' = fwd, fate' = fate,
           peer' \in [Conn -> PeerSession],
           sent' \in [Conn -> Seq(Commands)],
           taken' \in [Letter -> Nat]
    PROVE  TypeOK'
<1>1. PICK reply \in Replies(code) :
        /\ lines' = IF c \in Active THEN [lines EXCEPT ![c] = @ \o reply] ELSE lines
        /\ answers' = [answers EXCEPT ![peer[c].letter] = @ \cup Said(code, reply)]
  BY DEF Replied
<1>2. reply \in Seq(Line)
  BY RepliesAreLines
<1>3. lines[c] \o reply \in Seq(Line)
  BY <1>2 DEF TypeOK
<1>4. lines' \in [Conn -> Seq(Line)]
  BY <1>1, <1>3 DEF TypeOK
<1>5. Said(code, reply) \subseteq {"transient", "permanent", "continued"}
  BY DEF Said
<1>6. answers' \in [Letter -> SUBSET {"transient", "permanent", "continued"}]
  BY <1>1, <1>5 DEF TypeOK
<1>7. QED
  BY <1>4, <1>6 DEF TypeOK, Commands

LEMMA NextTypeOK == TypeOK /\ [Next]_vars => TypeOK'
<1> SUFFICES ASSUME TypeOK, [Next]_vars PROVE TypeOK'
  OBVIOUS
<1>1. ASSUME NEW l \in Letter, fwd_queue(l) PROVE TypeOK'
  <2>1. Opened(l) \in Session /\ Greets(l) \in PeerSession
    BY SessionFacts DEF Session, PeerSession
  <2>2. fwd' \in [Conn -> Session] /\ peer' \in [Conn -> PeerSession]
    <3>1. CASE \E d \in Unused : /\ fwd' = [fwd EXCEPT ![d] = Opened(l)]
                               /\ peer' = [peer EXCEPT ![d] = Greets(l)]
      BY <2>1, <3>1 DEF TypeOK, Unused
    <3>2. CASE UNCHANGED <<fwd, peer>>
      BY <3>2 DEF TypeOK
    <3>3. QED
      BY <1>1, <3>1, <3>2 DEF fwd_queue
  <2>3. fate' \in [Letter -> Fates]
    BY <1>1 DEF fwd_queue, TypeOK, Fates
  <2>4. QED
    BY <1>1, <2>2, <2>3 DEF fwd_queue, TypeOK
<1>2. ASSUME NEW c \in Conn, fwd_accepted(c) PROVE TypeOK'
  <2>1. fwd[c] \in [state : States, letter : Letter]
    BY <1>2, SessionFacts DEF TypeOK, fwd_accepted, Reads, Active
  <2>2. fwd[c].state # "QUIT" /\ fwd[c].state \in States
    BY <1>2, <2>1 DEF TypeOK, fwd_accepted
  <2>3. Following[fwd[c].state] \in States
    BY <2>2 DEF Following, States
  <2>4. Command[fwd[c].state] \in {"HELO", "MAIL", "RCPT", "DATA", "BODY", "QUIT"}
    BY <2>2 DEF Command, States
  <2>5. fwd' \in [Conn -> Session]
    BY <1>2, <2>1, <2>3 DEF TypeOK, fwd_accepted, Session
  <2>6. sent' \in [Conn -> Seq({"HELO", "MAIL", "RCPT", "DATA", "BODY", "QUIT"})]
    BY <1>2, <2>4 DEF TypeOK, fwd_accepted
  <2>7. lines' \in [Conn -> Seq(Line)]
    BY <1>2, ConsumedType DEF TypeOK, fwd_accepted
  <2>8. fate' \in [Letter -> Fates]
    BY <1>2 DEF TypeOK, fwd_accepted, Fates
  <2>9. QED
    BY <1>2, <2>5, <2>6, <2>7, <2>8 DEF TypeOK, fwd_accepted
<1>3. ASSUME NEW c \in Conn, fwd_write_failed(c) PROVE TypeOK'
  BY <1>3, FreedType DEF TypeOK, fwd_write_failed, Fates
<1>4. ASSUME NEW c \in Conn, fwd_retry(c) PROVE TypeOK'
  <2>1. fwd[c] \in [state : States, letter : Letter]
    BY <1>4, SessionFacts DEF TypeOK, fwd_retry, Reads, Active
  <2>2. fwd[c].state # "QUIT" /\ fwd[c].state # "NEW" /\ fwd[c].state \in States
    BY <1>4, <2>1 DEF TypeOK, fwd_retry, Result
  <2>3. Previous[fwd[c].state] \in States
    BY <2>2 DEF Previous, States
  <2>4. fwd' \in [Conn -> Session]
    BY <1>4, <2>1, <2>3 DEF TypeOK, fwd_retry, Session
  <2>5. QED
    BY <1>4, <2>4, ConsumedType DEF TypeOK, fwd_retry
<1>5. ASSUME NEW c \in Conn, fwd_nop(c) PROVE TypeOK'
  BY <1>5, ConsumedType DEF TypeOK, fwd_nop
<1>6. ASSUME NEW c \in Conn, fwd_failed(c) PROVE TypeOK'
  <2>1. fwd[c].letter \in Letter
    BY <1>6, SessionFacts DEF TypeOK, fwd_failed, Reads, Active
  <2> DEFINE report == Report(fwd[c].letter)
  <2>2. report \in Letter
    BY <2>1, ReportIsLetter
  <2>3. lines' \in [Conn -> Seq(Line)]
    BY <1>6 DEF TypeOK, fwd_failed
  <2>4. Opened(report) \in Session /\ Greets(report) \in PeerSession
    BY <2>2, SessionFacts DEF Session, PeerSession
  <2>5. fwd' \in [Conn -> Session] /\ peer' \in [Conn -> PeerSession]
    <3>1. CASE \E d \in Unused :
                 /\ fwd' = [fwd EXCEPT ![c] = NoFwd, ![d] = Opened(report)]
                 /\ peer' = [peer EXCEPT ![d] = Greets(report)]
      BY <2>4, <3>1 DEF TypeOK, Session
    <3>2. CASE fwd' = [fwd EXCEPT ![c] = NoFwd] /\ UNCHANGED peer
      BY <3>2 DEF TypeOK, Session
    <3>3. QED
      BY <1>6, <3>1, <3>2 DEF fwd_failed
  <2>6. fate' \in [Letter -> Fates]
    BY <1>6, <2>1, <2>2 DEF TypeOK, fwd_failed, Fates
  <2>7. QED
    BY <1>6, <2>3, <2>5, <2>6 DEF TypeOK, fwd_failed
<1>7. ASSUME NEW c \in Conn, fwd_quit(c) PROVE TypeOK'
  BY <1>7, FreedType DEF TypeOK, fwd_quit
<1>8. ASSUME NEW c \in Conn, conn_eof(c) PROVE TypeOK'
  BY <1>8, FreedType DEF TypeOK, conn_eof, Fates
<1>9. ASSUME NEW c \in Conn, peer_greets(c) PROVE TypeOK'
  <2>1. PICK code \in {220, 421, 554} :
          /\ Replied(c, code)
          /\ peer' = [peer EXCEPT ![c].stage = IF code = 220 THEN "HELO" ELSE "CLOSED"]
    BY <1>9 DEF peer_greets
  <2>2. code \in Nat /\ peer[c] # NoPeer
    BY <1>9 DEF peer_greets
  <2>3. peer' \in [Conn -> PeerSession]
    BY <2>1, <2>2, SessionFacts DEF TypeOK, PeerSession, Stages
  <2>4. fwd' = fwd /\ fate' = fate /\ sent' = sent /\ taken' = taken
    BY <1>9 DEF peer_greets
  <2>5. sent' \in [Conn -> Seq(Commands)] /\ taken' \in [Letter -> Nat]
    BY <2>4 DEF TypeOK, Commands
  <2>6. Replied(c, code)
    BY <2>1
  <2>7. QED
    BY <2>2, <2>3, <2>4, <2>5, <2>6, RepliedType
<1>10. ASSUME NEW c \in Conn, peer_accepts(c) PROVE TypeOK'
  <2>1. peer[c].stage \in Stages /\ sent[c] \in Seq(Commands) /\ sent[c] # <<>>
    BY <1>10, SessionFacts DEF TypeOK, peer_accepts, Commands
  <2>2. peer[c].stage \in {"HELO", "MAIL", "RCPT", "DATA", "BODY"}
    BY <1>10, <2>1 DEF peer_accepts, Stages, Commands
  <2>3. Success[peer[c].stage] \in Nat /\ AfterSuccess[peer[c].stage] \in Stages
    BY <2>2 DEF Success, AfterSuccess, Stages
  <2>4. peer' \in [Conn -> PeerSession]
    BY <1>10, <2>3, SessionFacts DEF TypeOK, peer_accepts, PeerSession
  <2>5. sent' \in [Conn -> Seq(Commands)]
    BY <1>10, <2>1 DEF TypeOK, peer_accepts, Commands
  <2>5a. taken' \in [Letter -> Nat]
    <3>1. \A n \in Nat : (IF peer[c].stage = "BODY" THEN n + 1 ELSE n) \in Nat
      OBVIOUS
    <3>2. QED
      BY <1>10, <3>1 DEF TypeOK, peer_accepts
  <2>6. fwd' = fwd /\ fate' = fate /\ Replied(c, Success[peer[c].stage])
    BY <1>10 DEF peer_accepts
  <2>7. QED
    BY <2>3, <2>4, <2>5, <2>5a, <2>6, RepliedType
<1>11. ASSUME NEW c \in Conn, peer_refuses(c) PROVE TypeOK'
  <2>1. PICK code \in {450, 550, 503} : Replied(c, code)
    BY <1>11 DEF peer_refuses
  <2>2. peer[c].stage \in Stages
    BY <1>11, SessionFacts DEF TypeOK, peer_refuses
  <2>3. (IF peer[c].stage = "BODY" THEN "MAIL" ELSE peer[c].stage) \in Stages
    BY <2>2 DEF Stages
  <2>4. peer' \in [Conn -> PeerSession]
    BY <1>11, <2>3, SessionFacts DEF TypeOK, peer_refuses, PeerSession
  <2>5. sent' \in [Conn -> Seq(Commands)] /\ taken' \in [Letter -> Nat]
    BY <1>11 DEF TypeOK, peer_refuses, Commands
  <2>6. fwd' = fwd /\ fate' = fate
    BY <1>11 DEF peer_refuses
  <2>7. QED
    BY <2>1, <2>4, <2>5, <2>6, RepliedType
<1>12. ASSUME NEW c \in Conn, peer_quits(c) PROVE TypeOK'
  <2>1. peer' \in [Conn -> PeerSession]
    BY <1>12, SessionFacts DEF TypeOK, peer_quits, PeerSession, Stages
  <2>2. sent' \in [Conn -> Seq(Commands)] /\ taken' \in [Letter -> Nat]
    BY <1>12 DEF TypeOK, peer_quits, Commands
  <2>3. Replied(c, 221) /\ fwd' = fwd /\ fate' = fate
    BY <1>12 DEF peer_quits
  <2>4. QED
    BY <2>1, <2>2, <2>3, RepliedType
<1>13. ASSUME NEW c \in Conn, peer_hangs_up(c) PROVE TypeOK'
  <2>1. peer' \in [Conn -> PeerSession]
    BY <1>13, SessionFacts DEF TypeOK, peer_hangs_up, PeerSession, Stages
  <2>2. /\ sent' \in [Conn -> Seq(Commands)] /\ taken' \in [Letter -> Nat]
        /\ fwd' = fwd /\ fate' = fate
    BY <1>13 DEF TypeOK, peer_hangs_up, Commands
  <2>3. CASE Replied(c, 421)
    BY <2>1, <2>2, <2>3, RepliedType
  <2>4. ASSUME NEW n \in 0..Len(lines[c]),
               lines' = [lines EXCEPT ![c] = SubSeq(@, 1, n)], UNCHANGED answers
        PROVE  TypeOK'
    <3>1. SubSeq(lines[c], 1, n) \in Seq(Line)
      BY DEF TypeOK
    <3>2. lines' \in [Conn -> Seq(Line)]
      BY <2>4, <3>1 DEF TypeOK
    <3>3. QED
      BY <2>1, <2>2, <2>4, <3>2 DEF TypeOK, Commands
  <2>5. QED
    BY <1>13, <2>3, <2>4 DEF peer_hangs_up
<1>14. ASSUME NEW c \in Conn, peer_eof(c) PROVE TypeOK'
  BY <1>14 DEF TypeOK, peer_eof, PeerSession
<1>15. CASE Crash
  BY <1>15 DEF TypeOK, Crash, Session, Fates
<1>16. CASE UNCHANGED vars
  BY <1>16 DEF TypeOK, vars
<1>17. \A m \in Message : [mail |-> m, failable |-> TRUE] \in Letter
  BY DEF Letter
<1>18. QED
  BY <1>1, <1>2, <1>3, <1>4, <1>5, <1>6, <1>7, <1>8, <1>9, <1>10, <1>11, <1>12,
     <1>13, <1>14, <1>15, <1>16, <1>17 DEF Next, fwd_process_input, peer_serves

\* Every variable keeps its type: the tables of replies, commands and states
\* are never looked up where they have no entry.
THEOREM ForwardTypeCorrect == Spec => []TypeOK
  BY InitTypeOK, NextTypeOK, PTL DEF Spec


-----------------------------------------------------------------------------
(* Books: which connection works on which letter.  It holds whatever the   *)
(* servers say, for it follows from the two tables of connections and the  *)
(* fates alone.                                                            *)

\* An active session has its server, which has the same letter, and the fate
\* of the letter follows from the state of the session.
Owned ==
    \A c \in Active :
        /\ peer[c] # NoPeer
        /\ peer[c].letter = fwd[c].letter
        /\ fate[fwd[c].letter] = IF fwd[c].state = "QUIT" THEN "done" ELSE "queued"

\* No letter is on two connections, not even on one that has ended here.
Apart ==
    \A c, d \in Conn :
        peer[c] # NoPeer /\ peer[d] # NoPeer /\ c # d =>
            peer[c].letter # peer[d].letter

\* A letter that was not queued yet is on no connection.
Known == \A c \in Conn : peer[c] # NoPeer => fate[peer[c].letter] # "none"

Books == Owned /\ Apart /\ Known /\ ReportsAreDue

LEMMA InitBooks == Init => Books
  BY DEF Init, Books, Owned, Apart, Known, ReportsAreDue, Active, Letter

\* Two letters of the same mail are the mail and its error mail.
LEMMA ReportsAreDueHere ==
    TypeOK => (ReportsAreDue <=>
        \A l \in Letter : l.failable =>
            (fate[Report(l)] # "none" <=> fate[l] = "failed"))
<1>1. \A m \in Message : /\ [mail |-> m, failable |-> TRUE] \in Letter
                         /\ [mail |-> m, failable |-> TRUE].failable
                         /\ Report([mail |-> m, failable |-> TRUE]) =
                                [mail |-> m, failable |-> FALSE]
  BY DEF Letter, Report
<1>2. \A l \in Letter : l.failable =>
        /\ l.mail \in Message
        /\ l = [mail |-> l.mail, failable |-> TRUE]
        /\ Report(l) = [mail |-> l.mail, failable |-> FALSE]
  BY ReportIsLetter DEF Report
<1>3. QED
  BY <1>1, <1>2 DEF ReportsAreDue

\* What servers do, and the end of a session after QUIT, opens no connection.
LEMMA PeersKeepBooks ==
    ASSUME TypeOK, Books, fate' = fate,
           \A c \in Conn : fwd'[c] # NoFwd => fwd'[c] = fwd[c],
           \A c \in Conn : peer'[c] # NoPeer =>
                peer[c] # NoPeer /\ peer'[c].letter = peer[c].letter,
           \A c \in Conn : peer[c] # NoPeer /\ fwd'[c] # NoFwd => peer'[c] # NoPeer
    PROVE  Books'
<1>1. Owned'
  BY DEF Books, Owned, Active
<1>2. Apart'
  BY DEF Books, Apart
<1>3. Known'
  BY DEF Books, Known
<1>4. ReportsAreDue'
  BY DEF Books, ReportsAreDue
<1>5. QED
  BY <1>1, <1>2, <1>3, <1>4 DEF Books

\* A session that ends with the fate f of its letter, no report being due.
LEMMA EndKeepsBooks ==
    ASSUME TypeOK, Books, NEW c \in Active, NEW f \in Fates \ {"none", "failed"},
           fwd' = [fwd EXCEPT ![c] = NoFwd], peer' = peer,
           fate' = [fate EXCEPT ![fwd[c].letter] = f]
    PROVE  Books'
<1>1. fwd[c].letter \in Letter /\ fate[fwd[c].letter] \in {"done", "queued"}
  BY SessionFacts DEF TypeOK, Active, Books, Owned
<1>2. ASSUME NEW d \in Active, d # c
      PROVE  fwd[d].letter # fwd[c].letter
  BY <1>2 DEF Books, Owned, Apart, Active
<1>3. Owned'
  <2> SUFFICES ASSUME NEW d \in Active'
               PROVE  Owned!(d)'
    BY DEF Owned
  <2>1. d # c /\ d \in Active /\ fwd'[d] = fwd[d]
    BY DEF Active, TypeOK
  <2>2. fwd[d].letter \in Letter /\ fate'[fwd[d].letter] = fate[fwd[d].letter]
    BY <1>1, <1>2, <2>1, SessionFacts DEF TypeOK, Active
  <2>3. QED
    BY <2>1, <2>2 DEF Books, Owned
<1>4. Apart'
  BY DEF Books, Apart
<1>5. Known'
  BY <1>1 DEF Books, Known, TypeOK, PeerSession, NoPeer
<1>6. ReportsAreDue'
  <2>1. \A l \in Letter : /\ fate'[l] = "none" <=> fate[l] = "none"
                          /\ fate'[l] = "failed" <=> fate[l] = "failed"
    BY <1>1 DEF TypeOK
  <2>2. \A m \in Message, b \in BOOLEAN : [mail |-> m, failable |-> b] \in Letter
    BY DEF Letter
  <2>3. QED
    BY <2>1, <2>2 DEF Books, ReportsAreDue
<1>7. QED
  BY <1>3, <1>4, <1>5, <1>6 DEF Books

\* A session that goes on to another state.
LEMMA StateKeepsBooks ==
    ASSUME TypeOK, Books, NEW c \in Active, NEW st \in States,
           fwd[c].state # "QUIT",
           fwd' = [fwd EXCEPT ![c].state = st], peer' = peer,
           fate' = [fate EXCEPT ![fwd[c].letter] = IF st = "QUIT" THEN "done" ELSE @]
    PROVE  Books'
<1>1. fwd[c].letter \in Letter /\ fate[fwd[c].letter] = "queued"
  BY SessionFacts DEF TypeOK, Active, Books, Owned
<1>2. ASSUME NEW d \in Active, d # c
      PROVE  fwd[d].letter # fwd[c].letter
  BY <1>2 DEF Books, Owned, Apart, Active
<1>3. fwd[c] \in [state : States, letter : Letter]
  BY SessionFacts DEF TypeOK, Active
<1>3a. fwd'[c].letter = fwd[c].letter /\ fwd'[c].state = st
  BY <1>3 DEF TypeOK, Active
<1>4. Owned'
  <2> SUFFICES ASSUME NEW d \in Active'
               PROVE  Owned!(d)'
    BY DEF Owned
  <2>1. CASE d = c
    BY <2>1, <1>1, <1>3a DEF Books, Owned, TypeOK
  <2>2. CASE d # c
    <3>1. d \in Active /\ fwd'[d] = fwd[d]
      BY <2>2 DEF Active, TypeOK
    <3>2. fwd[d].letter \in Letter /\ fate'[fwd[d].letter] = fate[fwd[d].letter]
      BY <1>1, <1>2, <2>2, <3>1, SessionFacts DEF TypeOK, Active
    <3>3. QED
      BY <3>1, <3>2 DEF Books, Owned
  <2>3. QED
    BY <2>1, <2>2
<1>5. Apart'
  BY DEF Books, Apart
<1>6. Known'
  BY <1>1 DEF Books, Known, TypeOK, PeerSession, NoPeer
<1>7. ReportsAreDue'
  <2>1. \A l \in Letter : /\ fate'[l] = "none" <=> fate[l] = "none"
                          /\ fate'[l] = "failed" <=> fate[l] = "failed"
    BY <1>1 DEF TypeOK
  <2>2. \A m \in Message, b \in BOOLEAN : [mail |-> m, failable |-> b] \in Letter
    BY DEF Letter
  <2>3. QED
    BY <2>1, <2>2 DEF Books, ReportsAreDue
<1>8. QED
  BY <1>4, <1>5, <1>6, <1>7 DEF Books

\* A new connection for a letter that was not queued yet.
LEMMA OpeningIsApart ==
    ASSUME TypeOK, Books, NEW d \in Unused, NEW l \in Letter, fate[l] = "none",
           peer' = [peer EXCEPT ![d] = Greets(l)]
    PROVE  Apart'
<1>1. Greets(l).letter = l
  BY DEF Greets
<1>2. peer'[d] = Greets(l) /\ \A e \in Conn : e # d => peer'[e] = peer[e]
  BY DEF TypeOK, Unused
<1>3. \A e \in Conn : peer[e] # NoPeer => peer[e].letter # l
  BY DEF Books, Known
<1>4. QED
  BY <1>1, <1>2, <1>3 DEF Books, Apart

LEMMA QueueKeepsBooks ==
    ASSUME TypeOK, Books, NEW l \in Letter, l.failable, fwd_queue(l)
    PROVE  Books'
<1>1. fate[l] = "none" /\ fate[Report(l)] = "none" /\ Report(l) \in Letter
  BY ReportsAreDueHere, ReportIsLetter DEF fwd_queue, Books, TypeOK, Fates
<1>2. ASSUME fate' = [fate EXCEPT ![l] = "queued"] \/ fate' = [fate EXCEPT ![l] = "unconnected"]
      PROVE  ReportsAreDue'
  <2>1. \A k \in Letter : k # l => fate'[k] = fate[k]
    BY <1>2 DEF TypeOK
  <2>2. fate'[l] # "failed" /\ fate[l] # "failed"
    BY <1>1, <1>2 DEF TypeOK
  <2>3. \A m \in Message : [mail |-> m, failable |-> FALSE] # l
    OBVIOUS
  <2>4. \A m \in Message, b \in BOOLEAN : [mail |-> m, failable |-> b] \in Letter
    BY DEF Letter
  <2>5. QED
    BY <2>1, <2>2, <2>3, <2>4 DEF Books, ReportsAreDue
<1>3. ASSUME NEW k \in Letter, fate[k] # "none"
      PROVE  fate'[k] = fate[k]
  BY <1>1, <1>3 DEF fwd_queue, TypeOK
<1>4. ASSUME NEW d \in Unused,
             fwd' = [fwd EXCEPT ![d] = Opened(l)],
             peer' = [peer EXCEPT ![d] = Greets(l)],
             fate' = [fate EXCEPT ![l] = "queued"]
      PROVE  Books'
  <2>1. Apart'
    BY <1>1, <1>4, OpeningIsApart
  <2>2. /\ fwd'[d] = Opened(l) /\ peer'[d] = Greets(l) /\ fate'[l] = "queued"
        /\ \A e \in Conn : e # d => fwd'[e] = fwd[e] /\ peer'[e] = peer[e]
        /\ Greets(l) # NoPeer /\ Greets(l).letter = l
        /\ Opened(l).letter = l /\ Opened(l).state = "NEW"
    BY <1>4 DEF TypeOK, Unused, Greets, Opened, NoPeer
  <2>3. Owned'
    <3> SUFFICES ASSUME NEW e \in Active'
                 PROVE  Owned!(e)'
      BY DEF Owned
    <3>1. CASE e = d
      BY <2>2, <3>1
    <3>2. CASE e # d
      <4>1. e \in Active /\ fwd[e].letter \in Letter
        BY <2>2, <3>2, SessionFacts DEF Active, TypeOK
      <4>2. fate[fwd[e].letter] # "none"
        BY <4>1 DEF Books, Owned
      <4>3. fate'[fwd[e].letter] = fate[fwd[e].letter]
        BY <1>3, <4>1, <4>2
      <4>4. fwd'[e] = fwd[e] /\ peer'[e] = peer[e]
        BY <2>2, <3>2, <4>1 DEF Active
      <4>5. QED
        BY <4>1, <4>3, <4>4 DEF Books, Owned
    <3>3. QED
      BY <3>1, <3>2
  <2>4. Known'
    <3> SUFFICES ASSUME NEW e \in Conn, peer'[e] # NoPeer
                 PROVE  fate'[peer'[e].letter] # "none"
      BY DEF Known
    <3>1. CASE e = d
      BY <2>2, <3>1
    <3>2. CASE e # d
      BY <1>3, <2>2, <3>2, SessionFacts DEF Books, Known, TypeOK
    <3>3. QED
      BY <3>1, <3>2
  <2>5. QED
    BY <1>2, <1>4, <2>1, <2>3, <2>4 DEF Books
<1>5. ASSUME fate' = [fate EXCEPT ![l] = "unconnected"], UNCHANGED <<fwd, peer>>
      PROVE  Books'
  <2>1. Owned'
    <3> SUFFICES ASSUME NEW e \in Active
                 PROVE  Owned!(e)'
      BY <1>5 DEF Owned, Active
    <3>1. fwd[e].letter \in Letter /\ fate[fwd[e].letter] # "none"
      BY SessionFacts DEF Active, TypeOK, Books, Owned
    <3>2. QED
      BY <1>3, <1>5, <3>1 DEF Books, Owned
  <2>2. Known'
    BY <1>3, <1>5, SessionFacts DEF Books, Known, TypeOK
  <2>3. Apart'
    BY <1>5 DEF Books, Apart
  <2>4. QED
    BY <1>2, <1>5, <2>1, <2>2, <2>3 DEF Books
<1>6. QED
  BY <1>4, <1>5 DEF fwd_queue

LEMMA FailureKeepsBooks ==
    ASSUME TypeOK, Books, NEW c \in Conn, fwd_failed(c)
    PROVE  Books'
<1> DEFINE l == fwd[c].letter
           report == Report(l)
<1>1. /\ c \in Active /\ fwd[c].state # "QUIT" /\ l \in Letter
      /\ fate[l] = "queued" /\ report \in Letter
  BY SessionFacts, ReportIsLetter DEF fwd_failed, Reads, Active, TypeOK, Books, Owned
<1>2. l.failable => fate[report] = "none" /\ report # l
  BY <1>1, ReportsAreDueHere DEF Books, TypeOK, Fates
<1>3. ~l.failable => report = l
  BY <1>1, ReportIsLetter
<1> HIDE DEF l, report
<1>4. ASSUME NEW k \in Letter, fate[k] # "none", k # l
      PROVE  fate'[k] = fate[k]
  BY <1>1, <1>2, <1>4 DEF fwd_failed, TypeOK, l, report
<1>5. fate'[l] = "failed"
  BY <1>1, <1>2 DEF fwd_failed, TypeOK, l, report
<1>6. l.failable => fate'[report] # "none"
  BY <1>1, <1>2 DEF fwd_failed, TypeOK, l, report
<1>7. ReportsAreDue'
  <2> SUFFICES ASSUME NEW m \in Message
               PROVE  ReportsAreDue!(m)'
    BY DEF ReportsAreDue
  <2> DEFINE o == [mail |-> m, failable |-> TRUE]
             r == [mail |-> m, failable |-> FALSE]
  <2>1. o \in Letter /\ r \in Letter /\ r # o /\ Report(o) = r
    BY DEF Letter, Report
  <2>2. fate[r] # "none" <=> fate[o] = "failed"
    BY DEF Books, ReportsAreDue
  <2>3. CASE o = l
    BY <1>5, <1>6, <2>1, <2>3 DEF report
  <2>4. CASE r = l
    <3>1. ~l.failable
      BY <2>4
    <3>2. fate' = [fate EXCEPT ![l] = "failed"]
      BY <3>1 DEF fwd_failed, l
    <3>3. fate'[o] = fate[o]
      BY <2>1, <2>4, <3>2 DEF TypeOK
    <3>4. fate[r] # "none"
      BY <1>1, <2>4
    <3>5. QED
      BY <1>5, <2>2, <2>4, <3>3, <3>4
  <2>5. CASE o # l /\ r # l
    <3>1. report # r /\ report # o
      BY <1>1, <2>5, ReportIsLetter DEF Report, report, l
    <3>2. fate'[r] = fate[r] /\ fate'[o] = fate[o]
      BY <2>1, <2>5, <3>1 DEF fwd_failed, TypeOK, l, report
    <3>3. QED
      BY <2>2, <3>2
  <2>6. QED
    BY <2>3, <2>4, <2>5
<1>8. ASSUME NEW e \in Active, e # c
      PROVE  fwd[e].letter \in Letter /\ fate'[fwd[e].letter] = fate[fwd[e].letter]
  <2>1. fwd[e].letter # l
    BY <1>1, <1>8 DEF Books, Owned, Apart, Active, l
  <2>2. fwd[e].letter \in Letter /\ fate[fwd[e].letter] # "none"
    BY SessionFacts DEF TypeOK, Active, Books, Owned
  <2>3. QED
    BY <1>4, <2>1, <2>2
<1>9. ASSUME NEW e \in Conn, peer[e] # NoPeer
      PROVE  fate'[peer[e].letter] # "none"
  <2>1. peer[e].letter \in Letter /\ fate[peer[e].letter] # "none"
    BY <1>9, SessionFacts DEF TypeOK, Books, Known
  <2>2. QED
    BY <1>4, <1>5, <2>1
<1>10. ASSUME NEW d \in Unused, l.failable,
              fwd' = [fwd EXCEPT ![c] = NoFwd, ![d] = Opened(report)],
              peer' = [peer EXCEPT ![d] = Greets(report)],
              fate' = [fate EXCEPT ![l] = "failed", ![report] = "queued"]
       PROVE  Books'
  <2>1. Apart'
    BY <1>1, <1>2, <1>10, OpeningIsApart
  <2>2. d # c
    BY <1>1 DEF Unused, Active
  <2>3. /\ fwd'[d] = Opened(report) /\ peer'[d] = Greets(report)
        /\ fwd'[c] = NoFwd
        /\ \A e \in Conn \ {c, d} : fwd'[e] = fwd[e]
        /\ \A e \in Conn : e # d => peer'[e] = peer[e]
    BY <1>10, <2>2 DEF TypeOK, Unused
  <2>4. /\ Greets(report) # NoPeer /\ Greets(report).letter = report
        /\ Opened(report).letter = report /\ Opened(report).state = "NEW"
    BY DEF Greets, Opened, NoPeer
  <2>5. fate'[report] = "queued"
    BY <1>1, <1>2, <1>10 DEF TypeOK
  <2>6. Owned'
    <3> SUFFICES ASSUME NEW e \in Active'
                 PROVE  Owned!(e)'
      BY DEF Owned
    <3>1. CASE e = d
      BY <2>3, <2>4, <2>5, <3>1
    <3>2. CASE e # d
      <4>1. e # c /\ e \in Active /\ fwd'[e] = fwd[e] /\ peer'[e] = peer[e]
        BY <2>3, <3>2 DEF Active
      <4>2. fate'[fwd[e].letter] = fate[fwd[e].letter]
        BY <1>8, <4>1
      <4>3. QED
        BY <4>1, <4>2 DEF Books, Owned
    <3>3. QED
      BY <3>1, <3>2
  <2>7. Known'
    <3> SUFFICES ASSUME NEW e \in Conn, peer'[e] # NoPeer
                 PROVE  fate'[peer'[e].letter] # "none"
      BY DEF Known
    <3>1. CASE e = d
      BY <2>3, <2>4, <2>5, <3>1
    <3>2. CASE e # d
      <4>1. peer'[e] = peer[e] /\ peer[e] # NoPeer
        BY <2>3, <3>2
      <4>2. fate'[peer[e].letter] # "none"
        BY <1>9, <4>1
      <4>3. QED
        BY <4>1, <4>2
    <3>3. QED
      BY <3>1, <3>2
  <2>8. QED
    BY <1>7, <2>1, <2>6, <2>7 DEF Books
<1>11. ASSUME fwd' = [fwd EXCEPT ![c] = NoFwd], UNCHANGED peer
       PROVE  Books'
  <2>1. Owned'
    <3> SUFFICES ASSUME NEW e \in Active'
                 PROVE  Owned!(e)'
      BY DEF Owned
    <3>1. e # c /\ e \in Active /\ fwd'[e] = fwd[e] /\ peer'[e] = peer[e]
      BY <1>11 DEF Active, TypeOK
    <3>2. fate'[fwd[e].letter] = fate[fwd[e].letter]
      BY <1>8, <3>1
    <3>3. QED
      BY <3>1, <3>2 DEF Books, Owned
  <2>2. Known'
    BY <1>9, <1>11 DEF Known
  <2>3. Apart'
    BY <1>11 DEF Books, Apart
  <2>4. QED
    BY <1>7, <2>1, <2>2, <2>3 DEF Books
<1>12. QED
  BY <1>10, <1>11 DEF fwd_failed, l, report

LEMMA StageKeepsBooks ==
    ASSUME TypeOK, Books, NEW c \in Conn, NEW st,
           peer[c] \in [stage : Stages, letter : Letter],
           peer' = [peer EXCEPT ![c].stage = st], fwd' = fwd, fate' = fate
    PROVE  Books'
<1>1. [peer[c] EXCEPT !.stage = st].letter = peer[c].letter
  OBVIOUS
<1>2. peer[c] # NoPeer /\ [peer[c] EXCEPT !.stage = st] # NoPeer
  BY DEF NoPeer
<1>3. \A d \in Conn : /\ peer'[d] # NoPeer <=> peer[d] # NoPeer
                      /\ peer[d] # NoPeer => peer'[d].letter = peer[d].letter
  BY <1>1, <1>2 DEF TypeOK
<1>4. QED
  BY <1>3, PeersKeepBooks

LEMMA NextBooks == TypeOK /\ Books /\ [Next]_vars => Books'
<1> SUFFICES ASSUME TypeOK, Books, [Next]_vars PROVE Books'
  OBVIOUS
<1>1. ASSUME NEW m \in Message, fwd_queue([mail |-> m, failable |-> TRUE])
      PROVE  Books'
  <2>1. [mail |-> m, failable |-> TRUE] \in Letter
    BY DEF Letter
  <2>2. QED
    BY <1>1, <2>1, QueueKeepsBooks
<1>2. ASSUME NEW c \in Conn, fwd_accepted(c) PROVE Books'
  <2>1. c \in Active /\ fwd[c].state \in States \ {"QUIT"}
    BY <1>2, SessionFacts DEF fwd_accepted, Reads, Active, TypeOK
  <2> DEFINE st == Following[fwd[c].state]
  <2>2. st \in States /\ (st = "QUIT" <=> fwd[c].state = "SEND")
    BY <2>1 DEF Following, States
  <2>3. /\ fwd' = [fwd EXCEPT ![c].state = st] /\ peer' = peer
        /\ fate' = [fate EXCEPT ![fwd[c].letter] = IF st = "QUIT" THEN "done" ELSE @]
    BY <1>2, <2>2 DEF fwd_accepted
  <2> HIDE DEF st
  <2>4. QED
    BY <2>1, <2>2, <2>3, StateKeepsBooks
<1>3. ASSUME NEW c \in Conn, fwd_write_failed(c) PROVE Books'
  <2>1. c \in Active
    BY <1>3 DEF fwd_write_failed, Reads
  <2>2. CASE fwd[c].state = "SEND"
    <3>1. fate' = [fate EXCEPT ![fwd[c].letter] = "done"]
      BY <1>3, <2>2 DEF fwd_write_failed
    <3>2. QED
      BY <1>3, <2>1, <3>1, EndKeepsBooks DEF fwd_write_failed, Freed, Fates
  <2>3. CASE fwd[c].state # "SEND"
    <3>1. fate' = [fate EXCEPT ![fwd[c].letter] = "lost"]
      BY <1>3, <2>3 DEF fwd_write_failed
    <3>2. QED
      BY <1>3, <2>1, <3>1, EndKeepsBooks DEF fwd_write_failed, Freed, Fates
  <2>4. QED
    BY <2>2, <2>3
<1>4. ASSUME NEW c \in Conn, fwd_retry(c) PROVE Books'
  <2>1. c \in Active /\ fwd[c].state \in States \ {"NEW", "QUIT"}
    BY <1>4, SessionFacts DEF fwd_retry, Reads, Active, TypeOK, Result
  <2> DEFINE st == Previous[fwd[c].state]
  <2>2. st \in States /\ st # "QUIT"
    BY <2>1 DEF Previous, States
  <2>3. fate' = [fate EXCEPT ![fwd[c].letter] = IF st = "QUIT" THEN "done" ELSE @]
    BY <1>4, <2>2 DEF fwd_retry, TypeOK
  <2>4. fwd' = [fwd EXCEPT ![c].state = st] /\ peer' = peer
    BY <1>4 DEF fwd_retry
  <2> HIDE DEF st
  <2>5. QED
    BY <2>1, <2>2, <2>3, <2>4, StateKeepsBooks
<1>5. ASSUME NEW c \in Conn, fwd_nop(c) PROVE Books'
  BY <1>5, PeersKeepBooks DEF fwd_nop
<1>6. ASSUME NEW c \in Conn, fwd_failed(c) PROVE Books'
  BY <1>6, FailureKeepsBooks
<1>7. ASSUME NEW c \in Conn, fwd_quit(c) PROVE Books'
  BY <1>7, PeersKeepBooks DEF fwd_quit, Freed, TypeOK
<1>8. ASSUME NEW c \in Conn, conn_eof(c) PROVE Books'
  <2>1. c \in Active
    BY <1>8 DEF conn_eof
  <2>2. fate[fwd[c].letter] \in {"done", "queued"}
    BY <2>1 DEF Books, Owned
  <2> DEFINE f == IF fate[fwd[c].letter] = "queued" THEN "lost" ELSE fate[fwd[c].letter]
  <2>3. f \in Fates \ {"none", "failed"}
    BY <2>2 DEF Fates
  <2>4. fwd' = [fwd EXCEPT ![c] = NoFwd] /\ peer' = peer
    BY <1>8 DEF conn_eof, Freed
  <2>5. fate' = [fate EXCEPT ![fwd[c].letter] = f]
    BY <1>8 DEF conn_eof
  <2> HIDE DEF f
  <2>6. QED
    BY <2>1, <2>3, <2>4, <2>5, EndKeepsBooks
<1>9. ASSUME NEW c \in Conn, peer_serves(c) \/ peer_hangs_up(c) PROVE Books'
  <2>1. /\ fwd' = fwd /\ fate' = fate /\ peer[c] # NoPeer
        /\ peer[c] \in [stage : Stages, letter : Letter]
    BY <1>9, SessionFacts DEF TypeOK, peer_serves, peer_greets, peer_accepts,
       peer_refuses, peer_quits, peer_hangs_up
  <2>2. CASE peer_greets(c)
    <3>1. \/ peer' = [peer EXCEPT ![c].stage = "HELO"]
          \/ peer' = [peer EXCEPT ![c].stage = "CLOSED"]
      <4>1. PICK code \in {220, 421, 554} :
              /\ Replied(c, code)
              /\ peer' = [peer EXCEPT ![c].stage = IF code = 220 THEN "HELO" ELSE "CLOSED"]
        BY <2>2 DEF peer_greets
      <4>2. QED
        BY <4>1
    <3>2. CASE peer' = [peer EXCEPT ![c].stage = "HELO"]
      BY <2>1, <3>2, StageKeepsBooks
    <3>3. CASE peer' = [peer EXCEPT ![c].stage = "CLOSED"]
      BY <2>1, <3>3, StageKeepsBooks
    <3>4. QED
      BY <3>1, <3>2, <3>3
  <2>3. CASE peer_accepts(c)
    BY <2>1, <2>3, StageKeepsBooks DEF peer_accepts
  <2>4. CASE peer_refuses(c)
    <3> DEFINE st == IF peer[c].stage = "BODY" THEN "MAIL" ELSE peer[c].stage
    <3>1. peer' = [peer EXCEPT ![c].stage = st]
      BY <2>4 DEF peer_refuses
    <3> HIDE DEF st
    <3>2. QED
      BY <2>1, <3>1, StageKeepsBooks
  <2>5. CASE peer_quits(c) \/ peer_hangs_up(c)
    <3>1. peer' = [peer EXCEPT ![c].stage = "CLOSED"]
      BY <2>5 DEF peer_quits, peer_hangs_up
    <3>2. QED
      BY <2>1, <3>1, StageKeepsBooks
  <2>6. QED
    BY <1>9, <2>2, <2>3, <2>4, <2>5 DEF peer_serves
<1>10. ASSUME NEW c \in Conn, peer_eof(c) PROVE Books'
  BY <1>10, PeersKeepBooks DEF peer_eof, TypeOK, Active
<1>11. CASE Crash
  <2>1. Owned' /\ Apart'
    BY <1>11 DEF Crash, Owned, Active, Books, Apart
  <2>2. \A l \in Letter : /\ fate'[l] = "none" <=> fate[l] = "none"
                          /\ fate'[l] = "failed" <=> fate[l] = "failed"
    BY <1>11 DEF Crash, TypeOK
  <2>3. Known'
    BY <1>11, <2>2, SessionFacts DEF Crash, Books, Known, TypeOK
  <2>4. \A m \in Message, b \in BOOLEAN : [mail |-> m, failable |-> b] \in Letter
    BY DEF Letter
  <2>5. ReportsAreDue'
    BY <2>2, <2>4 DEF Books, ReportsAreDue
  <2>6. QED
    BY <2>1, <2>3, <2>5 DEF Books
<1>12. CASE UNCHANGED vars
  BY <1>12, PeersKeepBooks DEF vars
<1>13. QED
  BY <1>1, <1>2, <1>3, <1>4, <1>5, <1>6, <1>7, <1>8, <1>9, <1>10, <1>11, <1>12
     DEF Next, fwd_process_input

LEMMA BooksAreKept == Spec => [](TypeOK /\ Books)
<1>1. Init => TypeOK /\ Books
  BY InitTypeOK, InitBooks
<1>2. TypeOK /\ Books /\ [Next]_vars => TypeOK' /\ Books'
  BY NextTypeOK, NextBooks
<1>3. QED
  BY <1>1, <1>2, PTL DEF Spec

\* An error mail is about a mail that was given up, and there is none about an
\* error mail, whatever servers answer, split or leave out.
THEOREM ReportsAreJustified == Spec => []ReportsAreDue
<1>1. Books => ReportsAreDue
  BY DEF Books
<1>2. QED
  BY <1>1, BooksAreKept, PTL

-----------------------------------------------------------------------------
(* Once: with replies of any number of lines the module may run ahead of   *)
(* the other server.  What it cannot outrun is the 354: it is the answer   *)
(* to DATA alone, and what a server says to anything but the body after it *)
(* ends the session.                                                       *)

\* The line that makes the module write the body, if it waits for it.
GoAhead(line) == line.code = 354 /\ line.kind # "one_word"

\* Behind the i-th line of s the next one with a number is no acceptance of a
\* body.
Spoiled(s, i) ==
    \E j \in i + 1..Len(s) :
        /\ s[j].code \in {354, 503} /\ s[j].kind # "one_word"
        /\ \A k \in i + 1..j - 1 : s[k].code = 503 /\ s[k].kind = "one_word"

\* There is nothing behind the i-th line that acceptances begin with.
Barren(s, i) == \A j \in i + 1..Len(s) : s[j].code \notin {250, 354}

Early == {"NEW", "HELO", "MAIL", "RCPT", "DATA"}

Rank == [NEW |-> 0, HELO |-> 1, MAIL |-> 2, RCPT |-> 3, DATA |-> 4, SEND |-> 5]

Times(c) == taken[peer[c].letter]

\* The body was not written.  A 354 is the last line and the server waits for
\* the body, or it is followed by what will end the session, or by the end.
Before(c) ==
    /\ fwd[c].state \in Early
    /\ Times(c) = 0
    /\ \A i \in 1..Len(sent[c]) : sent[c][i] \notin {"BODY", "QUIT"}
    /\ \A i \in 1..Len(lines[c]) : GoAhead(lines[c][i]) =>
        \/ Spoiled(lines[c], i)
        \/ peer[c].stage = "CLOSED" /\ Barren(lines[c], i)
        \/ peer[c].stage = "BODY" /\ i = Len(lines[c])

\* It was written; the next reply with a number will end the session.
Doomed(c) == fwd[c].state = "SEND" /\ Spoiled(lines[c], 0)

\* It was written, and no reply is under way.
Offered(c) ==
    /\ fwd[c].state = "SEND"
    /\ peer[c].stage = "BODY"
    /\ lines[c] = <<>>
    /\ sent[c] # <<>> /\ sent[c][Len(sent[c])] = "BODY"

\* The server took the mail over and says so.
TookOver(c) ==
    /\ fwd[c].state = "SEND"
    /\ peer[c].stage = "MAIL"
    /\ sent[c] = <<>>
    /\ Times(c) = 1
    /\ \A i \in 1..Len(lines[c]) : lines[c][i].code = 250

\* The server refused the body.  At most two lines say so, too few to lead the
\* module back to where it would write anything.
Declined(c) ==
    /\ fwd[c].state \in {"RCPT", "DATA", "SEND"}
    /\ peer[c].stage = "MAIL"
    /\ sent[c] = <<>>
    /\ Rank[fwd[c].state] >= 3 + Len(lines[c])
    /\ Times(c) = 0
    /\ \A i \in 1..Len(lines[c]) : lines[c][i].code \in {450, 550}

\* The server is gone, and so is every 354.
HungUp(c) ==
    /\ peer[c].stage = "CLOSED"
    /\ fwd[c].state \in Early \cup {"SEND"}
    /\ \A i \in 1..Len(lines[c]) : lines[c][i].code # 354
    /\ fwd[c].state = "SEND" /\ Times(c) = 0 => Barren(lines[c], 0)

Through(c) == fwd[c].state = "QUIT" /\ Times(c) = 1

Phase(c) == \/ Before(c) \/ Doomed(c) \/ Offered(c) \/ TookOver(c)
            \/ Declined(c) \/ HungUp(c) \/ Through(c)

\* Whoever is at this end: nothing is sent after the body or a QUIT, and a body
\* that is under way was not taken over yet.
Wire(c) ==
    /\ c \notin Active => lines[c] = <<>>
    /\ peer[c] = NoPeer => sent[c] = <<>>
    /\ \A i \in 1..Len(sent[c]) :
        /\ sent[c][i] \in {"BODY", "QUIT"} => i = Len(sent[c])
        /\ sent[c][i] = "BODY" => Times(c) = 0

Tally(l) ==
    /\ taken[l] \in {0, 1}
    /\ fate[l] = "none" => taken[l] = 0
    /\ fate[l] = "done" => taken[l] = 1

Once ==
    /\ \A c \in Active : Phase(c)
    /\ \A c \in Conn : Wire(c)
    /\ \A l \in Letter : Tally(l)

LEMMA InitOnce == Init => Once
  BY DEF Init, Once, Active, Wire, Tally, NoPeer

-----------------------------------------------------------------------------
(* Lines.                                                                  *)

\* A reply: one or two lines with the number, the last one as it should be.
ReplyOf(r, code) ==
    /\ r \in Seq(Line)
    /\ Len(r) \in 1..2
    /\ \A i \in 1..Len(r) : r[i].code = code
    /\ r[Len(r)].kind = "last"

LEMMA ReplyShape ==
    ASSUME NEW code \in Nat, NEW r \in Replies(code)
    PROVE  ReplyOf(r, code)
<1>1. r \in Seq(Line)
  BY RepliesAreLines
<1>2. CASE r = <<[code |-> code, kind |-> "last"]>>
  BY <1>1, <1>2 DEF ReplyOf
<1>3. ASSUME NEW k \in Continuation,
             r = <<[code |-> code, kind |-> k], [code |-> code, kind |-> "last"]>>
      PROVE  ReplyOf(r, code)
  <2>1. Len(r) = 2 /\ r[1].code = code /\ r[2].code = code /\ r[2].kind = "last"
    BY <1>3
  <2>2. QED
    BY <1>1, <2>1 DEF ReplyOf
<1>4. QED
  BY <1>2, <1>3 DEF Replies

\* What a reply of c's server does to the lines and the history.
LEMMA RepliedShape ==
    ASSUME TypeOK, NEW c \in Conn, NEW code \in Nat, Replied(c, code)
    PROVE  \E r \in Seq(Line) :
             /\ ReplyOf(r, code)
             /\ c \in Active => lines'[c] = lines[c] \o r
             /\ c \notin Active => lines'[c] = lines[c]
             /\ \A d \in Conn \ {c} : lines'[d] = lines[d]
             /\ answers' = [answers EXCEPT ![peer[c].letter] = @ \cup Said(code, r)]
<1>1. PICK r \in Replies(code) :
        /\ lines' = IF c \in Active THEN [lines EXCEPT ![c] = @ \o r] ELSE lines
        /\ answers' = [answers EXCEPT ![peer[c].letter] = @ \cup Said(code, r)]
  BY DEF Replied
<1>2. ReplyOf(r, code) /\ r \in Seq(Line)
  BY ReplyShape, RepliesAreLines
<1>3. QED
  BY <1>1, <1>2 DEF TypeOK

LEMMA TailLines ==
    ASSUME NEW s \in Seq(Line), s # <<>>
    PROVE  /\ Len(s) \in Nat /\ Len(s) > 0 /\ Len(Tail(s)) = Len(s) - 1
           /\ Head(s) = s[1] /\ s[1] \in Line
           /\ \A i \in 1..Len(Tail(s)) : Tail(s)[i] = s[i + 1]
           /\ \A i \in 1..Len(s) : Spoiled(s, i) => Spoiled(Tail(s), i - 1)
           /\ \A i \in 1..Len(s) : Barren(s, i) => Barren(Tail(s), i - 1)
<1>1. /\ Len(s) \in Nat /\ Len(s) > 0 /\ Len(Tail(s)) = Len(s) - 1
      /\ Head(s) = s[1] /\ s[1] \in Line
      /\ \A i \in 1..Len(Tail(s)) : Tail(s)[i] = s[i + 1]
  OBVIOUS
<1>2. ASSUME NEW i \in 1..Len(s), Spoiled(s, i)
      PROVE  Spoiled(Tail(s), i - 1)
  <2>1. PICK j \in i + 1..Len(s) :
          /\ s[j].code \in {354, 503} /\ s[j].kind # "one_word"
          /\ \A k \in i + 1..j - 1 : s[k].code = 503 /\ s[k].kind = "one_word"
    BY <1>2 DEF Spoiled
  <2>2. j - 1 \in i - 1 + 1..Len(Tail(s)) /\ Tail(s)[j - 1] = s[j]
    BY <1>1
  <2>3. ASSUME NEW k \in i - 1 + 1..j - 1 - 1
        PROVE  Tail(s)[k].code = 503 /\ Tail(s)[k].kind = "one_word"
    <3>1. k + 1 \in i + 1..j - 1 /\ k \in 1..Len(Tail(s))
      BY <1>1
    <3>2. Tail(s)[k] = s[k + 1]
      BY <1>1, <3>1
    <3>3. QED
      BY <2>1, <3>1, <3>2
  <2>4. QED
    BY <2>1, <2>2, <2>3 DEF Spoiled
<1>3. ASSUME NEW i \in 1..Len(s), Barren(s, i)
      PROVE  Barren(Tail(s), i - 1)
  <2>1. SUFFICES ASSUME NEW j \in i - 1 + 1..Len(Tail(s))
                 PROVE  Tail(s)[j].code \notin {250, 354}
    BY DEF Barren
  <2>2. j + 1 \in i + 1..Len(s) /\ j \in 1..Len(Tail(s))
    BY <1>1
  <2>3. QED
    BY <1>1, <1>3, <2>2 DEF Barren
<1>4. QED
  BY <1>1, <1>2, <1>3

LEMMA AppendedLines ==
    ASSUME NEW s \in Seq(Line), NEW r \in Seq(Line)
    PROVE  /\ s \o r \in Seq(Line) /\ Len(s \o r) = Len(s) + Len(r)
           /\ \A i \in 1..Len(s) : (s \o r)[i] = s[i]
           /\ \A i \in 1..Len(r) : (s \o r)[Len(s) + i] = r[i]
           /\ \A i \in Len(s) + 1..Len(s \o r) :
                i - Len(s) \in 1..Len(r) /\ (s \o r)[i] = r[i - Len(s)]
           /\ \A i \in 0..Len(s) : Spoiled(s, i) => Spoiled(s \o r, i)
<1>1. /\ s \o r \in Seq(Line) /\ Len(s \o r) = Len(s) + Len(r)
      /\ Len(s) \in Nat /\ Len(r) \in Nat
      /\ \A i \in 1..Len(s) : (s \o r)[i] = s[i]
      /\ \A i \in Len(s) + 1..Len(s \o r) : (s \o r)[i] = r[i - Len(s)]
  OBVIOUS
<1>2. ASSUME NEW i \in 0..Len(s), Spoiled(s, i)
      PROVE  Spoiled(s \o r, i)
  <2>1. PICK j \in i + 1..Len(s) :
          /\ s[j].code \in {354, 503} /\ s[j].kind # "one_word"
          /\ \A k \in i + 1..j - 1 : s[k].code = 503 /\ s[k].kind = "one_word"
    BY <1>2 DEF Spoiled
  <2>2. j \in i + 1..Len(s \o r) /\ (s \o r)[j] = s[j]
    BY <1>1
  <2>3. \A k \in i + 1..j - 1 : (s \o r)[k] = s[k]
    BY <1>1
  <2>4. QED
    BY <2>1, <2>2, <2>3 DEF Spoiled
<1>3. \A i \in 1..Len(r) : Len(s) + i \in Len(s) + 1..Len(s \o r)
                           /\ Len(s) + i - Len(s) = i
  BY <1>1
<1>4. \A i \in Len(s) + 1..Len(s \o r) : i - Len(s) \in 1..Len(r)
  BY <1>1
<1>5. QED
  BY <1>1, <1>2, <1>3, <1>4

\* A 503 behind anything spoils it; so does the second line of a 354.
LEMMA SpoiledByReply ==
    ASSUME NEW s \in Seq(Line), NEW code \in Nat, NEW r \in Seq(Line),
           ReplyOf(r, code)
    PROVE  /\ code = 503 => Spoiled(s \o r, Len(s))
           /\ \A i \in Len(s) + 1..Len(s \o r) - 1 : code = 354 => Spoiled(s \o r, i)
<1>1. /\ Len(s) \in Nat /\ Len(r) \in {1, 2} /\ Len(s \o r) = Len(s) + Len(r)
      /\ \A i \in 1..Len(r) : (s \o r)[Len(s) + i] = r[i] /\ r[i].code = code
      /\ r[Len(r)].kind = "last"
  BY AppendedLines DEF ReplyOf
<1> DEFINE t == s \o r
           n == Len(s)
<1> HIDE DEF t
<1>2. /\ n \in Nat /\ Len(t) = n + Len(r)
      /\ \A i \in 1..Len(r) : t[n + i].code = code
      /\ t[n + Len(r)].kind = "last"
  BY <1>1 DEF t
<1>3. ASSUME code = 503
      PROVE  Spoiled(t, n)
  <2>1. CASE Len(r) = 1
    <3>1. n + 1 \in n + 1..Len(t) /\ t[n + 1].code = 503 /\ t[n + 1].kind = "last"
      BY <1>2, <1>3, <2>1
    <3>2. \A k \in n + 1..n + 1 - 1 : FALSE
      BY <1>2
    <3>3. QED
      BY <3>1, <3>2 DEF Spoiled
  <2>2. CASE Len(r) = 2 /\ t[n + 1].kind = "one_word"
    <3>1. /\ n + 2 \in n + 1..Len(t) /\ t[n + 2].code = 503 /\ t[n + 2].kind = "last"
          /\ t[n + 1].code = 503
      BY <1>2, <1>3, <2>2
    <3>2. \A k \in n + 1..n + 2 - 1 : k = n + 1
      BY <1>2
    <3>3. QED
      BY <2>2, <3>1, <3>2 DEF Spoiled
  <2>3. CASE Len(r) = 2 /\ t[n + 1].kind # "one_word"
    <3>1. n + 1 \in n + 1..Len(t) /\ t[n + 1].code = 503
      BY <1>2, <1>3, <2>3
    <3>2. \A k \in n + 1..n + 1 - 1 : FALSE
      BY <1>2
    <3>3. QED
      BY <2>3, <3>1, <3>2 DEF Spoiled
  <2>4. QED
    BY <1>1, <2>1, <2>2, <2>3
<1>4. ASSUME NEW i \in n + 1..Len(t) - 1, code = 354
      PROVE  Spoiled(t, i)
  <2>1. Len(r) = 2 /\ i = n + 1
    <3>1. i \in n + 1..n + Len(r) - 1
      BY <1>2
    <3>2. \A m \in {1, 2} : i \in n + 1..n + m - 1 => m = 2 /\ i = n + 1
      BY <1>2
    <3>3. QED
      BY <1>1, <3>1, <3>2
  <2>2. i + 1 \in i + 1..Len(t) /\ t[i + 1].code = 354 /\ t[i + 1].kind = "last"
    <3>1. i + 1 = n + 2
      BY <1>2, <2>1
    <3>2. QED
      BY <1>2, <1>4, <2>1, <3>1
  <2>3. \A k \in i + 1..i + 1 - 1 : FALSE
    BY <1>2, <2>1
  <2>4. QED
    BY <2>2, <2>3 DEF Spoiled
<1>5. QED
  BY <1>3, <1>4 DEF t

LEMMA CutLines ==
    ASSUME NEW s \in Seq(Line), NEW n \in 0..Len(s)
    PROVE  /\ SubSeq(s, 1, n) \in Seq(Line) /\ Len(SubSeq(s, 1, n)) = n
           /\ \A i \in 1..n : SubSeq(s, 1, n)[i] = s[i]
           /\ \A i \in 0..n : Spoiled(s, i) =>
                Spoiled(SubSeq(s, 1, n), i) \/ Barren(SubSeq(s, 1, n), i)
           /\ \A i \in 0..n : Barren(s, i) => Barren(SubSeq(s, 1, n), i)
<1> DEFINE t == SubSeq(s, 1, n)
<1>1. /\ t \in Seq(Line) /\ Len(t) = n /\ Len(s) \in Nat /\ n \in Nat /\ n <= Len(s)
      /\ \A i \in 1..n : t[i] = s[i]
  OBVIOUS
<1> HIDE DEF t
<1>2. ASSUME NEW i \in 0..n, Spoiled(s, i)
      PROVE  Spoiled(t, i) \/ Barren(t, i)
  <2>1. PICK j \in i + 1..Len(s) :
          /\ s[j].code \in {354, 503} /\ s[j].kind # "one_word"
          /\ \A k \in i + 1..j - 1 : s[k].code = 503 /\ s[k].kind = "one_word"
    BY <1>2 DEF Spoiled
  <2>2. CASE j <= n
    <3>1. j \in i + 1..Len(t) /\ t[j] = s[j] /\ \A k \in i + 1..j - 1 : t[k] = s[k]
      BY <1>1, <2>2
    <3>2. QED
      BY <2>1, <3>1 DEF Spoiled
  <2>3. CASE j > n
    <3>1. \A k \in i + 1..Len(t) : k \in i + 1..j - 1 /\ t[k] = s[k]
      BY <1>1, <2>3
    <3>2. QED
      BY <2>1, <3>1 DEF Barren
  <2>4. QED
    BY <1>1, <2>2, <2>3
<1>3. \A i \in 0..n : Barren(s, i) => Barren(t, i)
  BY <1>1 DEF Barren
<1>4. QED
  BY <1>1, <1>2, <1>3 DEF t

-----------------------------------------------------------------------------
(* The frame of a step.                                                    *)

LEMMA OnceFacts ==
    ASSUME TypeOK, Books, Once, NEW c \in Conn, peer[c] # NoPeer
    PROVE  /\ peer[c] \in [stage : Stages, letter : Letter]
           /\ peer[c].letter \in Letter /\ peer[c].stage \in Stages
           /\ fate[peer[c].letter] # "none"
           /\ Wire(c) /\ Tally(peer[c].letter)
           /\ lines[c] \in Seq(Line) /\ sent[c] \in Seq(Commands)
<1>1. /\ peer[c] \in [stage : Stages, letter : Letter]
      /\ peer[c].letter \in Letter /\ peer[c].stage \in Stages
  BY SessionFacts DEF TypeOK
<1>2. fate[peer[c].letter] # "none"
  BY DEF Books, Known
<1>3. Wire(c) /\ Tally(peer[c].letter)
  BY <1>1 DEF Once
<1>4. lines[c] \in Seq(Line) /\ sent[c] \in Seq(Commands)
  BY DEF TypeOK, Commands
<1>5. QED
  BY <1>1, <1>2, <1>3, <1>4

LEMMA SessionOnceFacts ==
    ASSUME TypeOK, Books, Once, NEW c \in Active
    PROVE  /\ c \in Conn /\ peer[c] # NoPeer
           /\ fwd[c] \in [state : States, letter : Letter]
           /\ fwd[c].state \in States /\ fwd[c].letter \in Letter
           /\ peer[c].letter = fwd[c].letter
           /\ Phase(c)
<1>1. c \in Conn /\ peer[c] # NoPeer /\ peer[c].letter = fwd[c].letter
  BY DEF Active, Books, Owned
<1>2. /\ fwd[c] \in [state : States, letter : Letter]
      /\ fwd[c].state \in States /\ fwd[c].letter \in Letter
  BY <1>1, SessionFacts DEF TypeOK, Active
<1>3. QED
  BY <1>1, <1>2 DEF Once

\* A step is looked at on the connections C and for the letters K it is about.
LEMMA OnceFrame ==
    ASSUME TypeOK, Books, Once, NEW C \in SUBSET Conn, NEW K \in SUBSET Letter,
           \A d \in Conn \ C : /\ fwd'[d] = fwd[d] /\ peer'[d] = peer[d]
                               /\ sent'[d] = sent[d] /\ lines'[d] = lines[d]
                               /\ peer[d] # NoPeer => peer[d].letter \notin K,
           \A l \in Letter \ K : fate'[l] = fate[l] /\ taken'[l] = taken[l],
           \A c \in C : c \in Active' => Phase(c)',
           \A c \in C : Wire(c)',
           \A l \in K : Tally(l)'
    PROVE  Once'
<1>1. ASSUME NEW c \in Conn \ C, peer[c] # NoPeer
      PROVE  Times(c)' = Times(c)
  <2>1. peer[c].letter \in Letter \ K
    BY <1>1, OnceFacts
  <2>2. QED
    BY <2>1 DEF Times
<1>2. ASSUME NEW c \in Active', c \notin C
      PROVE  Phase(c)'
  <2>1. /\ c \in Conn \ C /\ c \in Active /\ fwd'[c] = fwd[c] /\ peer'[c] = peer[c]
        /\ sent'[c] = sent[c] /\ lines'[c] = lines[c]
    BY <1>2 DEF Active
  <2>2. Phase(c) /\ Times(c)' = Times(c)
    BY <1>1, <2>1, SessionOnceFacts
  <2>3. Before(c) => Before(c)'
    BY <2>1, <2>2 DEF Before
  <2>4. /\ Doomed(c) => Doomed(c)'
        /\ Offered(c) => Offered(c)'
        /\ Through(c) => Through(c)'
    BY <2>1, <2>2 DEF Doomed, Offered, Through
  <2>5. /\ TookOver(c) => TookOver(c)'
        /\ HungUp(c) => HungUp(c)'
    BY <2>1, <2>2 DEF TookOver, HungUp
  <2>6. Declined(c) => Declined(c)'
    BY <2>1, <2>2 DEF Declined
  <2>7. QED
    BY <2>2, <2>3, <2>4, <2>5, <2>6 DEF Phase
<1>3. ASSUME NEW c \in Conn, c \notin C
      PROVE  Wire(c)'
  <2>1. /\ fwd'[c] = fwd[c] /\ peer'[c] = peer[c]
        /\ sent'[c] = sent[c] /\ lines'[c] = lines[c]
    BY <1>3
  <2>2. Wire(c)
    BY DEF Once
  <2>3. CASE peer[c] = NoPeer
    BY <2>1, <2>2, <2>3 DEF Wire, Active
  <2>4. CASE peer[c] # NoPeer
    BY <1>1, <1>3, <2>1, <2>2, <2>4 DEF Wire, Active
  <2>5. QED
    BY <2>3, <2>4
<1>4. ASSUME NEW l \in Letter, l \notin K
      PROVE  Tally(l)'
  BY <1>4 DEF Once, Tally
<1>5. QED
  BY <1>2, <1>3, <1>4 DEF Once, Active

\* A step about one connection and its letter.
LEMMA OnceOnConnection ==
    ASSUME TypeOK, Books, Once, NEW c \in Conn, NEW k \in Letter,
           peer[c] # NoPeer, peer[c].letter = k,
           \A d \in Conn \ {c} : /\ fwd'[d] = fwd[d] /\ peer'[d] = peer[d]
                                 /\ sent'[d] = sent[d] /\ lines'[d] = lines[d],
           \A l \in Letter \ {k} : fate'[l] = fate[l] /\ taken'[l] = taken[l],
           c \in Active' => Phase(c)', Wire(c)', Tally(k)'
    PROVE  Once'
<1>2. PICK C \in SUBSET Conn, K \in SUBSET Letter : C = {c} /\ K = {k}
  OBVIOUS
<1>3. \A d \in Conn \ C : /\ fwd'[d] = fwd[d] /\ peer'[d] = peer[d]
                          /\ sent'[d] = sent[d] /\ lines'[d] = lines[d]
                          /\ peer[d] # NoPeer => peer[d].letter \notin K
  BY <1>2 DEF Books, Apart
<1>4. \A l \in Letter \ K : fate'[l] = fate[l] /\ taken'[l] = taken[l]
  BY <1>2
<1>5. /\ \A d \in C : d \in Active' => Phase(d)'
      /\ \A d \in C : Wire(d)'
      /\ \A l \in K : Tally(l)'
  BY <1>2
<1>6. QED
  BY <1>3, <1>4, <1>5, OnceFrame

-----------------------------------------------------------------------------
(* What the module does.                                                   *)

\* How a line is taken, in terms of its number.
LEMMA ReplyIsTaken ==
    ASSUME TypeOK, NEW c \in Active, lines[c] # <<>>, fwd[c].state \in States
    PROVE  LET line == lines[c][1]
               st == fwd[c].state
           IN  /\ Result(c) \in {"R_OK", "R_RETRY", "R_NOP", "R_FAIL"}
               /\ st # "NEW" /\ Result(c) = "R_OK" =>
                    line.kind # "one_word" /\ line.code = Expected[st]
               /\ Result(c) = "R_RETRY" =>
                    /\ st # "NEW" /\ line.kind # "one_word"
                    /\ line.code \in 400..499
               /\ Result(c) = "R_NOP" =>
                    st # "NEW" /\ (line.kind = "one_word" \/ line.code = 0)
<1> DEFINE line == lines[c][1]
           status == extract_status(line)
           e == Expected[fwd[c].state]
<1>1. lines[c] \in Seq(Line) /\ Head(lines[c]) = line /\ line \in Line
  <2>1. lines[c] \in Seq(Line)
    BY DEF TypeOK, Active
  <2>2. QED
    BY <2>1, TailLines
<1>2. e \in {220, 250, 354, 221}
  BY DEF Expected, States
<1>3. /\ status = IF line.kind = "one_word" THEN 0 ELSE line.code
      /\ status \in Nat /\ status = extract_status(line)
  BY <1>1 DEF extract_status, Line
<1> HIDE DEF status, e, line
<1>4. check_cmd_reply(line, e) =
        IF status = 0 THEN "R_NOP"
        ELSE IF status = e THEN "R_OK"
        ELSE IF status \in 400..499 THEN "R_RETRY" ELSE "R_FAIL"
  <2>1. status = 0 => ~(status = e) /\ ~(status \in 400..499)
    BY <1>2
  <2>2. status = e => ~(status \in 400..499)
    BY <1>2
  <2>3. QED
    BY <1>3, <2>1, <2>2, Zenon DEF check_cmd_reply
<1>5. Result(c) =
        IF fwd[c].state # "NEW" THEN check_cmd_reply(line, e)
        ELSE IF check_cmd_reply(line, e) \in {"R_OK", "R_NOP"} THEN "R_OK" ELSE "R_FAIL"
  BY <1>1 DEF Result, e
<1>6. /\ Result(c) \in {"R_OK", "R_RETRY", "R_NOP", "R_FAIL"}
      /\ fwd[c].state # "NEW" /\ Result(c) = "R_OK" =>
           line.kind # "one_word" /\ line.code = e
      /\ Result(c) = "R_RETRY" =>
           /\ fwd[c].state # "NEW" /\ line.kind # "one_word"
           /\ line.code \in 400..499
      /\ Result(c) = "R_NOP" =>
           fwd[c].state # "NEW" /\ (line.kind = "one_word" \/ line.code = 0)
  BY <1>2, <1>3, <1>4, <1>5
<1>7. QED
  BY <1>6 DEF line, e

\* A 250 that is taken for the answer to the body is that answer.
LEMMA BelievedIsTaken ==
    ASSUME TypeOK, Books, Once, NEW c \in Active, lines[c] # <<>>,
           fwd[c].state = "SEND", Result(c) = "R_OK"
    PROVE  Times(c) = 1 /\ (TookOver(c) \/ HungUp(c))
<1>1. /\ Phase(c) /\ Times(c) \in {0, 1} /\ lines[c] \in Seq(Line)
  BY SessionOnceFacts, OnceFacts DEF Tally, Times
<1>2. lines[c][1].code = 250 /\ lines[c][1].kind # "one_word" /\ 1 \in 1..Len(lines[c])
  <2>1. Expected["SEND"] = 250 /\ "SEND" \in States
    BY DEF Expected, States
  <2>2. QED
    BY <1>1, <2>1, ReplyIsTaken, TailLines
<1>3. ~Before(c) /\ ~Offered(c) /\ ~Through(c) /\ ~Declined(c)
  BY <1>2 DEF Before, Early, Offered, Through, Declined
<1>4. ~Spoiled(lines[c], 0)
  <2> SUFFICES ASSUME Spoiled(lines[c], 0) PROVE FALSE
    OBVIOUS
  <2>1. PICK j \in 0 + 1..Len(lines[c]) :
          /\ lines[c][j].code \in {354, 503} /\ lines[c][j].kind # "one_word"
          /\ \A k \in 0 + 1..j - 1 : lines[c][k].code = 503 /\ lines[c][k].kind = "one_word"
    BY DEF Spoiled
  <2>2. j # 1
    BY <1>2, <2>1
  <2>3. 1 \in 0 + 1..j - 1
    BY <2>2
  <2>4. QED
    BY <1>2, <2>1, <2>3
<1>5. HungUp(c) => Times(c) = 1
  <2>1. ~Barren(lines[c], 0)
    BY <1>2 DEF Barren
  <2>2. QED
    BY <1>1, <2>1 DEF HungUp
<1>6. QED
  BY <1>1, <1>3, <1>4, <1>5 DEF Phase, Doomed, TookOver

\* The lines of c without the first one, as the phases see them.
LEMMA ConsumedFacts ==
    ASSUME TypeOK, NEW c \in Active, lines[c] # <<>>, Consumed(c)
    PROVE  /\ lines'[c] = Tail(lines[c]) /\ lines[c] \in Seq(Line)
           /\ \A d \in Conn \ {c} : lines'[d] = lines[d]
           /\ Len(lines[c]) \in Nat /\ Len(lines'[c]) = Len(lines[c]) - 1
           /\ 1 \in 1..Len(lines[c])
           /\ Len(lines[c]) = 1 => lines'[c] = <<>>
           /\ \A i \in 1..Len(lines'[c]) :
                i + 1 \in 1..Len(lines[c]) /\ lines'[c][i] = lines[c][i + 1]
           /\ \A i \in 1..Len(lines'[c]) :
                /\ Spoiled(lines[c], i + 1) => Spoiled(lines'[c], i)
                /\ Barren(lines[c], i + 1) => Barren(lines'[c], i)
           /\ Spoiled(lines[c], 1) => Spoiled(lines'[c], 0)
           /\ Barren(lines[c], 1) => Barren(lines'[c], 0)
<1>1. c \in Conn /\ lines[c] \in Seq(Line)
  BY DEF Active, TypeOK
<1>2. lines'[c] = Tail(lines[c]) /\ \A d \in Conn \ {c} : lines'[d] = lines[d]
  BY <1>1 DEF Consumed, TypeOK
<1>3. /\ Len(lines[c]) \in Nat /\ Len(lines[c]) > 0 /\ Len(lines'[c]) = Len(lines[c]) - 1
      /\ \A i \in 1..Len(lines'[c]) : lines'[c][i] = lines[c][i + 1]
      /\ \A i \in 1..Len(lines[c]) : Spoiled(lines[c], i) => Spoiled(lines'[c], i - 1)
      /\ \A i \in 1..Len(lines[c]) : Barren(lines[c], i) => Barren(lines'[c], i - 1)
  BY <1>1, <1>2, TailLines
<1>4. /\ 1 \in 1..Len(lines[c]) /\ 1 - 1 = 0
      /\ \A i \in 1..Len(lines'[c]) : i + 1 \in 1..Len(lines[c]) /\ i + 1 - 1 = i
  BY <1>3
<1>5. /\ \A i \in 1..Len(lines'[c]) :
           /\ Spoiled(lines[c], i + 1) => Spoiled(lines'[c], i)
           /\ Barren(lines[c], i + 1) => Barren(lines'[c], i)
      /\ Spoiled(lines[c], 1) => Spoiled(lines'[c], 0)
      /\ Barren(lines[c], 1) => Barren(lines'[c], 0)
  BY <1>3, <1>4
<1>6. Len(lines[c]) = 1 => lines'[c] = <<>>
  <2>1. Tail(lines[c]) \in Seq(Line)
    BY <1>1
  <2>2. Len(lines[c]) = 1 => Len(Tail(lines[c])) = 0
    BY <1>2, <1>3
  <2>3. Len(Tail(lines[c])) = 0 => Tail(lines[c]) = <<>>
    BY <2>1, EmptySeq
  <2>4. QED
    BY <1>2, <2>2, <2>3
<1>7. QED
  BY <1>1, <1>2, <1>3, <1>4, <1>5, <1>6

\* A line is handled and nothing new begins: the module stays before the body,
\* and so it is when the server is gone.
LEMMA BeforeStays ==
    ASSUME TypeOK, NEW c \in Active, lines[c] # <<>>, Consumed(c), Before(c),
           fwd'[c].state \in Early, peer' = peer, taken' = taken,
           \A i \in 1..Len(sent'[c]) : sent'[c][i] \notin {"BODY", "QUIT"}
    PROVE  Before(c)'
<1>1. Times(c)' = 0
  BY DEF Before, Times
<1>2. ASSUME NEW i \in 1..Len(lines'[c]), GoAhead(lines'[c][i])
      PROVE  \/ Spoiled(lines'[c], i)
             \/ peer'[c].stage = "CLOSED" /\ Barren(lines'[c], i)
             \/ peer'[c].stage = "BODY" /\ i = Len(lines'[c])
  <2>1. i + 1 \in 1..Len(lines[c]) /\ GoAhead(lines[c][i + 1])
    BY <1>2, ConsumedFacts
  <2>2. \/ Spoiled(lines[c], i + 1)
        \/ peer[c].stage = "CLOSED" /\ Barren(lines[c], i + 1)
        \/ peer[c].stage = "BODY" /\ i + 1 = Len(lines[c])
    BY <2>1 DEF Before
  <2>3. i + 1 = Len(lines[c]) => i = Len(lines'[c])
    BY ConsumedFacts
  <2>4. QED
    BY <2>2, <2>3, ConsumedFacts
<1>3. QED
  BY <1>1, <1>2 DEF Before

LEMMA HungUpStays ==
    ASSUME TypeOK, NEW c \in Active, lines[c] # <<>>, Consumed(c), HungUp(c),
           \/ fwd'[c].state \in Early
           \/ fwd[c].state = "SEND" /\ fwd'[c].state = "SEND",
           peer' = peer, taken' = taken
    PROVE  HungUp(c)'
<1>1. Times(c)' = Times(c)
  BY DEF Times
<1>2. \A i \in 1..Len(lines'[c]) : lines'[c][i].code # 354
  BY ConsumedFacts DEF HungUp
<1>3. ASSUME fwd'[c].state = "SEND", Times(c) = 0
      PROVE  Barren(lines'[c], 0)
  <2>1. fwd[c].state = "SEND"
    BY <1>3 DEF Early
  <2>2. Barren(lines[c], 0)
    BY <1>3, <2>1 DEF HungUp
  <2>3. Barren(lines[c], 1)
    <3>1. Len(lines[c]) \in Nat
      BY ConsumedFacts
    <3>2. \A j \in 1 + 1..Len(lines[c]) : j \in 0 + 1..Len(lines[c])
      BY <3>1
    <3>3. QED
      BY <2>2, <3>2 DEF Barren
  <2>4. QED
    BY <2>3, ConsumedFacts
<1>4. QED
  BY <1>1, <1>2, <1>3 DEF HungUp

LEMMA AcceptedKeepsOnce ==
    ASSUME TypeOK, Books, Once, NEW c \in Conn, fwd_accepted(c)
    PROVE  Once'
<1>1. /\ c \in Active /\ lines[c] # <<>> /\ Result(c) = "R_OK" /\ Consumed(c)
      /\ fwd[c].state \in States \ {"QUIT"}
      /\ peer' = peer /\ taken' = taken
  BY SessionOnceFacts DEF fwd_accepted, Reads
<1>2. PICK st \in States \ {"QUIT"}, k \in Letter :
        st = fwd[c].state /\ k = fwd[c].letter
  BY <1>1, SessionOnceFacts
<1>3. /\ peer[c] # NoPeer /\ peer[c].letter = k /\ Phase(c) /\ Wire(c) /\ Tally(k)
      /\ fwd[c] \in [state : States, letter : Letter]
      /\ lines[c] \in Seq(Line) /\ sent[c] \in Seq(Commands)
  BY <1>1, <1>2, SessionOnceFacts, OnceFacts
<1>4. /\ fwd'[c].state = Following[st] /\ fwd'[c].letter = k
      /\ sent'[c] = IF peer[c].stage = "CLOSED" THEN sent[c]
                    ELSE Append(sent[c], Command[st])
      /\ fate'[k] = IF st = "SEND" THEN "done" ELSE fate[k]
      /\ \A d \in Conn \ {c} : fwd'[d] = fwd[d] /\ sent'[d] = sent[d]
      /\ \A l \in Letter \ {k} : fate'[l] = fate[l]
  BY <1>2, <1>3 DEF fwd_accepted, TypeOK
<1>5. Times(c)' = Times(c) /\ Times(c) = taken[k]
  BY <1>1, <1>3 DEF Times
<1>6. /\ Following[st] = "QUIT" <=> st = "SEND"
      /\ Following[st] = "SEND" <=> st = "DATA"
      /\ st \notin {"DATA", "SEND"} => Following[st] \in Early
      /\ Command[st] = "BODY" <=> st = "DATA"
      /\ Command[st] = "QUIT" <=> st = "SEND"
      /\ Command[st] \in Commands
  BY DEF Following, Command, Commands, Early, States
<1>7. st = "SEND" => Times(c) = 1 /\ (TookOver(c) \/ HungUp(c))
  BY <1>1, <1>2, BelievedIsTaken
<1>8. st # "NEW" => lines[c][1].kind # "one_word" /\ lines[c][1].code = Expected[st]
  BY <1>1, <1>2, ReplyIsTaken
<1>9. st # "SEND" => Before(c) \/ HungUp(c)
  <2> SUFFICES ASSUME st # "SEND", ~Before(c), ~HungUp(c) PROVE FALSE
    OBVIOUS
  <2>1. Declined(c)
    BY <1>2, <1>3 DEF Phase, Doomed, Offered, TookOver, Through
  <2>2. lines[c][1].code \in {450, 550} /\ st \in {"RCPT", "DATA"}
    BY <1>1, <1>2, <2>1, ConsumedFacts DEF Declined
  <2>3. Expected[st] \in {250, 354}
    BY <2>2 DEF Expected
  <2>4. QED
    BY <1>8, <2>2, <2>3
<1>9a. \/ sent'[c] = sent[c]
       \/ /\ Len(sent'[c]) = Len(sent[c]) + 1 /\ Len(sent[c]) \in Nat
          /\ sent'[c][Len(sent[c]) + 1] = Command[st]
          /\ \A i \in 1..Len(sent[c]) : sent'[c][i] = sent[c][i]
  BY <1>3, <1>4, <1>6
<1>10. Phase(c)'
  <2>1. CASE st = "SEND"
    <3>1. Through(c)'
      BY <1>4, <1>5, <1>6, <1>7, <2>1 DEF Through
    <3>2. QED
      BY <3>1 DEF Phase
  <2>2. CASE HungUp(c) /\ st # "SEND"
    <3>1. st # "DATA"
      <4>1. lines[c][1].code # 354
        BY <1>1, <2>2, ConsumedFacts DEF HungUp
      <4>2. QED
        BY <1>8, <4>1 DEF Expected
    <3>2. HungUp(c)'
      BY <1>1, <1>4, <1>6, <2>2, <3>1, HungUpStays
    <3>3. QED
      BY <3>2 DEF Phase
  <2>3. CASE Before(c) /\ st \notin {"DATA", "SEND"}
    <3>1. \A i \in 1..Len(sent'[c]) : sent'[c][i] \notin {"BODY", "QUIT"}
      <4>1. \A i \in 1..Len(sent[c]) : sent[c][i] \notin {"BODY", "QUIT"}
        BY <2>3 DEF Before
      <4>2. ASSUME NEW i \in 1..Len(sent'[c])
            PROVE  i \in 1..Len(sent[c]) \/ sent'[c][i] = Command[st]
        BY <1>9a
      <4>3. QED
        BY <1>6, <1>9a, <2>3, <4>1, <4>2
    <3>2. Before(c)'
      BY <1>1, <1>4, <1>6, <2>3, <3>1, BeforeStays
    <3>3. QED
      BY <3>2 DEF Phase
  <2>4. CASE Before(c) /\ st = "DATA"
    <3>1. GoAhead(lines[c][1]) /\ 1 \in 1..Len(lines[c])
      BY <1>1, <1>8, <2>4, ConsumedFacts DEF GoAhead, Expected
    <3>2. CASE Spoiled(lines[c], 1)
      <4>1. Doomed(c)'
        BY <1>1, <1>4, <1>6, <2>4, <3>2, ConsumedFacts DEF Doomed
      <4>2. QED
        BY <4>1 DEF Phase
    <3>3. CASE peer[c].stage = "CLOSED" /\ Barren(lines[c], 1)
      <4>1. Barren(lines'[c], 0)
        BY <1>1, <3>3, ConsumedFacts
      <4>2. \A i \in 1..Len(lines'[c]) : lines'[c][i].code # 354
        BY <4>1 DEF Barren
      <4>3. HungUp(c)'
        BY <1>1, <1>4, <1>6, <2>4, <3>3, <4>1, <4>2 DEF HungUp
      <4>4. QED
        BY <4>3 DEF Phase
    <3>4. CASE peer[c].stage = "BODY" /\ 1 = Len(lines[c])
      <4>1. lines'[c] = <<>>
        BY <1>1, <3>4, ConsumedFacts
      <4>2. sent'[c] # <<>> /\ sent'[c][Len(sent'[c])] = "BODY"
        BY <1>3, <1>4, <1>6, <2>4, <3>4
      <4>3. Offered(c)'
        BY <1>1, <1>4, <1>6, <2>4, <3>4, <4>1, <4>2 DEF Offered
      <4>4. QED
        BY <4>3 DEF Phase
    <3>5. QED
      BY <2>4, <3>1, <3>2, <3>3, <3>4 DEF Before
  <2>5. QED
    BY <1>9, <2>1, <2>2, <2>3, <2>4
<1>11. c \in Active'
  <2>1. Following[st] # "FREE"
    BY DEF Following, States
  <2>2. fwd'[c] # NoFwd
    BY <1>4, <2>1, SessionFacts
  <2>3. QED
    BY <2>2 DEF Active
<1>12. Wire(c)'
  <2>1. CASE peer[c].stage = "CLOSED"
    BY <1>1, <1>3, <1>4, <1>5, <1>11, <2>1 DEF Wire
  <2>2. CASE peer[c].stage # "CLOSED"
    <3>1. \A i \in 1..Len(sent[c]) : sent[c][i] \notin {"BODY", "QUIT"}
      BY <1>7, <1>9, <2>2 DEF TookOver, HungUp, Before
    <3>2. st = "DATA" => Times(c) = 0
      BY <1>9, <2>2 DEF HungUp, Before
    <3>3. /\ Len(sent'[c]) = Len(sent[c]) + 1 /\ Len(sent[c]) \in Nat
          /\ sent'[c][Len(sent[c]) + 1] = Command[st]
          /\ \A i \in 1..Len(sent[c]) : sent'[c][i] = sent[c][i]
      BY <1>3, <1>4, <1>6, <2>2
    <3>4. ASSUME NEW i \in 1..Len(sent'[c])
          PROVE  /\ sent'[c][i] \in {"BODY", "QUIT"} => i = Len(sent'[c])
                 /\ sent'[c][i] = "BODY" => Times(c)' = 0
      <4>1. CASE i = Len(sent[c]) + 1
        BY <1>5, <1>6, <3>2, <3>3, <4>1
      <4>2. CASE i \in 1..Len(sent[c])
        BY <3>1, <3>3, <4>2
      <4>3. QED
        BY <3>3, <4>1, <4>2
    <3>5. QED
      BY <1>1, <1>3, <1>11, <2>2, <3>4 DEF Wire
  <2>3. QED
    BY <2>1, <2>2
<1>13. Tally(k)'
  BY <1>1, <1>3, <1>4, <1>5, <1>7 DEF Tally
<1>14. \A d \in Conn \ {c} : lines'[d] = lines[d]
  BY <1>1, ConsumedFacts
<1>15. QED
  BY <1>1, <1>3, <1>4, <1>10, <1>12, <1>13, <1>14, OnceOnConnection

LEMMA WaitingKeepsOnce ==
    ASSUME TypeOK, Books, Once, NEW c \in Conn, fwd_retry(c) \/ fwd_nop(c)
    PROVE  Once'
<1>1. /\ c \in Active /\ lines[c] # <<>> /\ Consumed(c)
      /\ sent' = sent /\ peer' = peer /\ fate' = fate /\ taken' = taken
  BY DEF fwd_retry, fwd_nop, Reads
<1>2. PICK st \in States \ {"QUIT"}, k \in Letter :
        st = fwd[c].state /\ k = fwd[c].letter
  BY <1>1, SessionOnceFacts DEF fwd_retry, fwd_nop
<1>3. /\ peer[c] # NoPeer /\ peer[c].letter = k /\ Phase(c) /\ Wire(c) /\ Tally(k)
      /\ fwd[c] \in [state : States, letter : Letter]
      /\ lines[c] \in Seq(Line) /\ lines[c][1] \in Line
  BY <1>1, <1>2, SessionOnceFacts, OnceFacts, TailLines
<1>4. Times(c)' = Times(c)
  BY <1>1 DEF Times
<1>5. st # "NEW"
  BY <1>1, <1>2, ReplyIsTaken DEF fwd_retry, fwd_nop
<1>6. /\ fwd'[c].letter = k
      /\ fwd'[c].state = st \/ fwd'[c].state = Previous[st]
      /\ \A d \in Conn \ {c} : fwd'[d] = fwd[d]
  BY <1>2, <1>3 DEF fwd_retry, fwd_nop, TypeOK
<1>7. \/ Previous[st] \in Early \ {"DATA"}
      \/ st = "SEND" /\ Previous[st] = "DATA"
  BY <1>5 DEF Previous, Early, States
<1>8. \/ Result(c) = "R_RETRY" /\ fwd'[c].state = Previous[st]
      \/ Result(c) = "R_NOP" /\ fwd'[c].state = st
  BY <1>2, <1>3 DEF fwd_retry, fwd_nop, TypeOK
<1>8a. /\ Result(c) = "R_RETRY" => lines[c][1].code \in 400..499
       /\ Result(c) = "R_NOP" => lines[c][1].kind = "one_word" \/ lines[c][1].code = 0
  BY <1>1, <1>2, ReplyIsTaken
<1>9. Phase(c)'
  <2>1. CASE Before(c)
    <3>1. fwd'[c].state \in Early
      BY <1>2, <1>6, <1>7, <2>1 DEF Before, Early
    <3>2. \A i \in 1..Len(sent'[c]) : sent'[c][i] \notin {"BODY", "QUIT"}
      BY <1>1, <2>1 DEF Before
    <3>3. Before(c)'
      BY <1>1, <2>1, <3>1, <3>2, BeforeStays
    <3>4. QED
      BY <3>3 DEF Phase
  <2>2. CASE Doomed(c)
    <3>1. PICK j \in 0 + 1..Len(lines[c]) :
            /\ lines[c][j].code \in {354, 503} /\ lines[c][j].kind # "one_word"
            /\ \A i \in 0 + 1..j - 1 :
                 lines[c][i].code = 503 /\ lines[c][i].kind = "one_word"
      BY <2>2 DEF Doomed, Spoiled
    <3>2. lines[c][1].code \in {354, 503}
      <4>1. j = 1 \/ 1 \in 0 + 1..j - 1
        BY <3>1
      <4>2. QED
        BY <3>1, <4>1
    <3>3. lines[c][1].kind = "one_word" /\ fwd'[c].state = st
      <4>1. ~(lines[c][1].code \in 400..499) /\ lines[c][1].code # 0
        <5>1. CASE lines[c][1].code = 354
          BY <5>1
        <5>2. CASE lines[c][1].code = 503
          BY <5>2
        <5>3. QED
          BY <3>2, <5>1, <5>2
      <4>2. Result(c) # "R_RETRY"
        BY <1>8a, <4>1
      <4>3. QED
        BY <1>8, <1>8a, <4>1, <4>2
    <3>4. Spoiled(lines[c], 1)
      <4>1. j \in 1 + 1..Len(lines[c])
        BY <3>1, <3>3
      <4>2. \A i \in 1 + 1..j - 1 : i \in 0 + 1..j - 1
        OBVIOUS
      <4>3. QED
        BY <3>1, <4>1, <4>2 DEF Spoiled
    <3>5. Doomed(c)'
      BY <1>1, <1>2, <2>2, <3>3, <3>4, ConsumedFacts DEF Doomed
    <3>6. QED
      BY <3>5 DEF Phase
  <2>3. CASE TookOver(c)
    <3>1. lines[c][1].code = 250
      BY <1>1, <2>3, ConsumedFacts DEF TookOver
    <3>2. fwd'[c].state = "SEND"
      BY <1>2, <1>8, <1>8a, <2>3, <3>1 DEF TookOver
    <3>3. \A i \in 1..Len(lines'[c]) : lines'[c][i].code = 250
      BY <1>1, <2>3, ConsumedFacts DEF TookOver
    <3>4. TookOver(c)'
      BY <1>1, <1>4, <2>3, <3>2, <3>3 DEF TookOver
    <3>5. QED
      BY <3>4 DEF Phase
  <2>4. CASE Declined(c)
    <3>1. Rank[st] >= 3 + Len(lines[c]) /\ st \in {"RCPT", "DATA", "SEND"}
      BY <1>2, <2>4 DEF Declined
    <3>2. /\ Len(lines[c]) \in Nat /\ Len(lines[c]) > 0
          /\ Len(lines'[c]) = Len(lines[c]) - 1
      BY <1>1, ConsumedFacts
    <3>3. st \in {"DATA", "SEND"}
      BY <3>1, <3>2 DEF Rank
    <3>4. /\ fwd'[c].state \in {"RCPT", "DATA", "SEND"}
          /\ Rank[fwd'[c].state] >= Rank[st] - 1
      BY <1>6, <3>3 DEF Previous, Rank
    <3>5. Rank[st] \in Nat /\ Rank[fwd'[c].state] \in Nat
      BY <3>3, <3>4 DEF Rank
    <3>6. Rank[fwd'[c].state] >= 3 + Len(lines'[c])
      BY <3>1, <3>2, <3>4, <3>5
    <3>7. \A i \in 1..Len(lines'[c]) : lines'[c][i].code \in {450, 550}
      BY <1>1, <2>4, ConsumedFacts DEF Declined
    <3>8. Declined(c)'
      BY <1>1, <1>4, <2>4, <3>4, <3>6, <3>7 DEF Declined
    <3>9. QED
      BY <3>8 DEF Phase
  <2>5. CASE HungUp(c)
    <3>1. \/ fwd'[c].state \in Early
          \/ fwd[c].state = "SEND" /\ fwd'[c].state = "SEND"
      BY <1>2, <1>6, <1>7, <2>5 DEF HungUp, Early
    <3>2. HungUp(c)'
      BY <1>1, <2>5, <3>1, HungUpStays
    <3>3. QED
      BY <3>2 DEF Phase
  <2>6. ~Offered(c) /\ ~Through(c)
    BY <1>1, <1>2 DEF Offered, Through
  <2>7. QED
    BY <1>3, <2>1, <2>2, <2>3, <2>4, <2>5, <2>6 DEF Phase
<1>10. c \in Active'
  <2>1. fwd'[c].state # "FREE"
    BY <1>6, <1>7 DEF States, Early
  <2>2. QED
    BY <2>1, SessionFacts DEF Active
<1>11. Wire(c)'
  BY <1>1, <1>3, <1>4, <1>10 DEF Wire
<1>12. Tally(k)' /\ \A d \in Conn \ {c} : lines'[d] = lines[d]
  BY <1>1, <1>3, ConsumedFacts DEF Tally
<1>13. QED
  BY <1>1, <1>3, <1>6, <1>9, <1>11, <1>12, OnceOnConnection

\* A session that ends.
LEMMA EndKeepsOnce ==
    ASSUME TypeOK, Books, Once, NEW c \in Active, Freed(c),
           UNCHANGED <<sent, peer, taken>>,
           \A l \in Letter \ {fwd[c].letter} : fate'[l] = fate[l],
           fate'[fwd[c].letter] # "none",
           fate'[fwd[c].letter] = "done" => taken[fwd[c].letter] = 1
    PROVE  Once'
<1>1. PICK k \in Letter : k = fwd[c].letter
  BY SessionOnceFacts
<1>2. c \in Conn /\ peer[c] # NoPeer /\ peer[c].letter = k /\ Wire(c) /\ Tally(k)
  BY <1>1, SessionOnceFacts, OnceFacts
<1>3. /\ fwd'[c] = NoFwd /\ lines'[c] = <<>>
      /\ \A d \in Conn \ {c} : fwd'[d] = fwd[d] /\ lines'[d] = lines[d]
  BY <1>2 DEF Freed, TypeOK
<1>4. c \notin Active'
  BY <1>3 DEF Active
<1>5. Times(c)' = Times(c)
  BY DEF Times
<1>6. Wire(c)'
  BY <1>2, <1>3, <1>4, <1>5 DEF Wire
<1>7. Tally(k)'
  BY <1>1, <1>2 DEF Tally
<1>8. QED
  BY <1>1, <1>2, <1>3, <1>4, <1>6, <1>7, OnceOnConnection

LEMMA GoneKeepsOnce ==
    ASSUME TypeOK, Books, Once, NEW c \in Conn,
           fwd_write_failed(c) \/ fwd_quit(c) \/ conn_eof(c)
    PROVE  Once'
<1>1. /\ c \in Active /\ Freed(c) /\ UNCHANGED <<sent, peer, taken>>
  BY DEF fwd_write_failed, fwd_quit, conn_eof, Reads
<1>2. PICK k \in Letter : k = fwd[c].letter
  BY <1>1, SessionOnceFacts
<1>3. /\ fate[k] = IF fwd[c].state = "QUIT" THEN "done" ELSE "queued"
      /\ peer[c].letter = k /\ Tally(k)
  BY <1>1, <1>2, SessionOnceFacts, OnceFacts DEF Books, Owned
<1>4. CASE fwd_write_failed(c)
  <2>1. fate' = [fate EXCEPT ![k] = IF fwd[c].state = "SEND" THEN "done" ELSE "lost"]
    BY <1>2, <1>4 DEF fwd_write_failed
  <2>2. fwd[c].state = "SEND" => taken[k] = 1
    BY <1>1, <1>3, <1>4, BelievedIsTaken DEF fwd_write_failed, Reads, Times
  <2>3. QED
    BY <1>1, <1>2, <2>1, <2>2, EndKeepsOnce DEF TypeOK
<1>5. CASE fwd_quit(c)
  <2>1. fate' = fate
    BY <1>5 DEF fwd_quit
  <2>2. QED
    BY <1>1, <1>2, <1>3, <2>1, EndKeepsOnce DEF Tally
<1>6. CASE conn_eof(c)
  <2>1. fate' = [fate EXCEPT ![k] = IF @ = "queued" THEN "lost" ELSE @]
    BY <1>2, <1>6 DEF conn_eof
  <2>2. fate'[k] \in {"lost", "done"} /\ (fate'[k] = "done" => fate[k] = "done")
    BY <1>3, <2>1 DEF TypeOK
  <2>3. QED
    BY <1>1, <1>2, <1>3, <2>1, <2>2, EndKeepsOnce DEF Tally, TypeOK
<1>7. QED
  BY <1>4, <1>5, <1>6

\* A connection that is opened.
LEMMA OpenedIsBefore ==
    ASSUME TypeOK, Books, Once, NEW d \in Unused, NEW l \in Letter, fate[l] = "none",
           fwd'[d] = Opened(l), peer'[d] = Greets(l),
           sent'[d] = sent[d], taken' = taken, lines'[d] = lines[d]
    PROVE  Phase(d)' /\ Wire(d)'
<1>1. d \in Conn /\ sent[d] = <<>> /\ lines[d] = <<>> /\ taken[l] = 0
  BY DEF Unused, Once, Wire, Tally, Active
<1>2. /\ fwd'[d].state = "NEW"
      /\ peer'[d].stage = "GREET" /\ peer'[d].letter = l /\ peer'[d] # NoPeer
  BY DEF Opened, Greets, NoPeer
<1>3. d \in Active'
  <2>1. fwd'[d] # NoFwd
    BY <1>2, SessionFacts
  <2>2. QED
    BY <1>1, <2>1 DEF Active
<1>4. Times(d)' = 0
  BY <1>1, <1>2 DEF Times
<1>5. Before(d)'
  BY <1>1, <1>2, <1>4 DEF Before, Early
<1>6. Wire(d)'
  BY <1>1, <1>2, <1>3 DEF Wire
<1>7. QED
  BY <1>5, <1>6 DEF Phase

\* The letter l is put on the connections in C (one or none), and nothing is
\* done to those outside B.
OpenedOn(C, l, B) ==
    /\ \A d \in C : /\ fwd'[d] = Opened(l) /\ peer'[d] = Greets(l)
                    /\ fate[l] = "none" /\ fate'[l] = "queued"
                    /\ lines'[d] = lines[d]
    /\ \A d \in Conn \ (B \cup C) :
         fwd'[d] = fwd[d] /\ peer'[d] = peer[d] /\ lines'[d] = lines[d]

\* What fwd_queue(l) does.
LEMMA QueueFacts ==
    ASSUME TypeOK, Books, NEW l \in Letter, fwd_queue(l)
    PROVE  /\ fate[l] = "none" /\ fate'[l] \in {"queued", "unconnected"}
           /\ \A k \in Letter \ {l} : fate'[k] = fate[k]
           /\ sent' = sent /\ lines' = lines /\ taken' = taken /\ answers' = answers
           /\ \A d \in Conn : peer[d] # NoPeer => peer[d].letter # l
           /\ \E C \in SUBSET Unused : OpenedOn(C, l, {})
<1>1. fate[l] = "none" /\ sent' = sent /\ lines' = lines /\ taken' = taken
      /\ answers' = answers
  BY DEF fwd_queue
<1>2. /\ \A k \in Letter \ {l} : fate'[k] = fate[k]
      /\ fate'[l] \in {"queued", "unconnected"}
  BY DEF fwd_queue, TypeOK
<1>3. ASSUME NEW d \in Unused, fwd' = [fwd EXCEPT ![d] = Opened(l)],
             peer' = [peer EXCEPT ![d] = Greets(l)], fate'[l] = "queued"
      PROVE  OpenedOn({d}, l, {})
  <2>1. d \in Conn
    BY DEF Unused
  <2>2. /\ fwd'[d] = Opened(l) /\ peer'[d] = Greets(l)
        /\ \A e \in Conn \ {d} : fwd'[e] = fwd[e] /\ peer'[e] = peer[e]
    BY <1>3, <2>1 DEF TypeOK
  <2>3. QED
    BY <1>1, <1>3, <2>2 DEF OpenedOn
<1>4. ASSUME UNCHANGED <<fwd, peer>>
      PROVE  OpenedOn({}, l, {})
  BY <1>1, <1>4 DEF OpenedOn
<1>5. \E C \in SUBSET Unused : OpenedOn(C, l, {})
  <2>1. ASSUME NEW d \in Unused, fwd' = [fwd EXCEPT ![d] = Opened(l)],
               peer' = [peer EXCEPT ![d] = Greets(l)],
               fate' = [fate EXCEPT ![l] = "queued"]
        PROVE  {d} \in SUBSET Unused /\ OpenedOn({d}, l, {})
    BY <1>3, <2>1 DEF TypeOK
  <2>2. CASE UNCHANGED <<fwd, peer>>
    BY <1>4, <2>2
  <2>3. QED
    BY <2>1, <2>2 DEF fwd_queue
<1>6. QED
  BY <1>1, <1>2, <1>5 DEF Books, Known

LEMMA QueueKeepsOnce ==
    ASSUME TypeOK, Books, Once, NEW l \in Letter, fwd_queue(l)
    PROVE  Once'
<1>1. /\ fate[l] = "none" /\ fate'[l] \in {"queued", "unconnected"}
      /\ \A k \in Letter \ {l} : fate'[k] = fate[k]
      /\ sent' = sent /\ lines' = lines /\ taken' = taken
      /\ \A d \in Conn : peer[d] # NoPeer => peer[d].letter # l
  BY QueueFacts
<1>2. PICK C \in SUBSET Unused : OpenedOn(C, l, {})
  BY QueueFacts
<1>3. \A d \in C : Phase(d)' /\ Wire(d)'
  BY <1>1, <1>2, OpenedIsBefore DEF OpenedOn, Unused
<1>4. Tally(l)'
  BY <1>1 DEF Once, Tally
<1>5. PICK D \in SUBSET Conn, K \in SUBSET Letter : D = C /\ K = {l}
  BY DEF Unused
<1>6. \A d \in Conn \ D : /\ fwd'[d] = fwd[d] /\ peer'[d] = peer[d]
                          /\ sent'[d] = sent[d] /\ lines'[d] = lines[d]
                          /\ peer[d] # NoPeer => peer[d].letter \notin K
  BY <1>1, <1>2, <1>5 DEF OpenedOn
<1>7. \A k \in Letter \ K : fate'[k] = fate[k] /\ taken'[k] = taken[k]
  BY <1>1, <1>5
<1>8. /\ \A d \in D : d \in Active' => Phase(d)'
      /\ \A d \in D : Wire(d)'
      /\ \A k \in K : Tally(k)'
  BY <1>3, <1>4, <1>5
<1>9. QED
  BY <1>6, <1>7, <1>8, OnceFrame

\* What fwd_failed(c) does with the letter l: it ends the session and at most
\* one connection is opened for the error mail r, of which nobody knew.
GivenUp(c, l, r) ==
    /\ c \in Active /\ peer[c] # NoPeer /\ peer[c].letter = l
    /\ fate[l] = "queued" /\ fate'[l] = "failed"
    /\ c \notin Active' /\ lines'[c] = <<>> /\ peer'[c] = peer[c]
    /\ sent' = sent /\ taken' = taken /\ answers' = answers
    /\ r # l => fate[r] = "none" /\ fate'[r] \in {"queued", "unconnected"}
    /\ \A k \in Letter \ {l, r} : fate'[k] = fate[k]
    /\ \A d \in Conn \ {c} : peer[d] # NoPeer => peer[d].letter \notin {l, r}
    /\ \E C \in SUBSET Unused : OpenedOn(C, r, {c})

LEMMA FailedFacts ==
    ASSUME TypeOK, Books, NEW c \in Conn, fwd_failed(c),
           NEW l \in Letter, l = fwd[c].letter, NEW r \in Letter, r = Report(l)
    PROVE  GivenUp(c, l, r)
<1>1. /\ c \in Active /\ fwd[c].state # "QUIT"
      /\ peer[c] # NoPeer /\ peer[c].letter = l /\ fate[l] = "queued"
  BY DEF fwd_failed, Reads, Books, Owned
<1>2. l.failable => fate[r] = "none" /\ r # l
  BY <1>1, ReportsAreDueHere DEF Books
<1>3. ~l.failable => r = l
  BY ReportIsLetter
<1>4. /\ lines'[c] = <<>> /\ \A d \in Conn \ {c} : lines'[d] = lines[d]
      /\ sent' = sent /\ taken' = taken /\ answers' = answers
  BY DEF fwd_failed, TypeOK
<1>5. \A d \in Conn \ {c} : peer[d] # NoPeer => peer[d].letter \notin {l, r}
  <2> SUFFICES ASSUME NEW d \in Conn \ {c}, peer[d] # NoPeer
               PROVE  peer[d].letter # l /\ (l.failable => peer[d].letter # r)
    BY <1>3
  <2>1. peer[d].letter # l
    BY <1>1 DEF Books, Apart
  <2>2. l.failable => peer[d].letter # r
    BY <1>2 DEF Books, Known
  <2>3. QED
    BY <2>1, <2>2
<1>6. c \notin Unused
  BY <1>1 DEF Unused, Active
<1>7. ASSUME NEW d \in Unused, l.failable,
             fwd' = [fwd EXCEPT ![c] = NoFwd, ![d] = Opened(r)],
             peer' = [peer EXCEPT ![d] = Greets(r)],
             fate' = [fate EXCEPT ![l] = "failed", ![r] = "queued"]
      PROVE  /\ fwd'[c] = NoFwd /\ peer'[c] = peer[c]
             /\ fate'[l] = "failed" /\ fate'[r] = "queued"
             /\ \A k \in Letter \ {l, r} : fate'[k] = fate[k]
             /\ \E C \in SUBSET Unused : OpenedOn(C, r, {c})
  <2>1. d \in Conn /\ d # c /\ r # l
    BY <1>2, <1>6, <1>7 DEF Unused
  <2>2. /\ fwd'[c] = NoFwd /\ fwd'[d] = Opened(r)
        /\ \A e \in Conn \ {c, d} : fwd'[e] = fwd[e]
    BY <1>7, <2>1 DEF TypeOK
  <2>3. peer'[d] = Greets(r) /\ \A e \in Conn \ {d} : peer'[e] = peer[e]
    BY <1>7, <2>1 DEF TypeOK
  <2>4. /\ fate'[l] = "failed" /\ fate'[r] = "queued"
        /\ \A k \in Letter \ {l, r} : fate'[k] = fate[k]
    BY <1>7, <2>1 DEF TypeOK
  <2>5. PICK C \in SUBSET Unused : C = {d}
    OBVIOUS
  <2>6. OpenedOn(C, r, {c})
    BY <1>2, <1>4, <1>7, <2>1, <2>2, <2>3, <2>4, <2>5 DEF OpenedOn
  <2>7. QED
    BY <2>1, <2>2, <2>3, <2>4, <2>6
<1>8. ASSUME fwd' = [fwd EXCEPT ![c] = NoFwd], peer' = peer,
             fate' = IF l.failable
                       THEN [fate EXCEPT ![l] = "failed", ![r] = "unconnected"]
                       ELSE [fate EXCEPT ![l] = "failed"]
      PROVE  /\ fwd'[c] = NoFwd /\ peer'[c] = peer[c]
             /\ fate'[l] = "failed" /\ (r # l => fate'[r] = "unconnected")
             /\ \A k \in Letter \ {l, r} : fate'[k] = fate[k]
             /\ \E C \in SUBSET Unused : OpenedOn(C, r, {c})
  <2>1. /\ fwd'[c] = NoFwd
        /\ \A e \in Conn : peer'[e] = peer[e] /\ (e # c => fwd'[e] = fwd[e])
    BY <1>8 DEF TypeOK
  <2>2. CASE l.failable
    <3>1. /\ fate'[l] = "failed" /\ fate'[r] = "unconnected"
          /\ \A k \in Letter \ {l, r} : fate'[k] = fate[k]
      BY <1>2, <1>8, <2>2 DEF TypeOK
    <3>2. PICK C \in SUBSET Unused : C = {}
      OBVIOUS
    <3>3. OpenedOn(C, r, {c})
      BY <1>4, <2>1, <3>2 DEF OpenedOn
    <3>4. QED
      BY <2>1, <3>1, <3>3
  <2>3. CASE ~l.failable
    <3>1. /\ fate'[l] = "failed" /\ r = l
          /\ \A k \in Letter \ {l, r} : fate'[k] = fate[k]
      BY <1>3, <1>8, <2>3 DEF TypeOK
    <3>2. PICK C \in SUBSET Unused : C = {}
      OBVIOUS
    <3>3. OpenedOn(C, r, {c})
      BY <1>4, <2>1, <3>2 DEF OpenedOn
    <3>4. QED
      BY <2>1, <3>1, <3>3
  <2>4. QED
    BY <2>2, <2>3
<1>9. /\ fwd'[c] = NoFwd /\ peer'[c] = peer[c] /\ fate'[l] = "failed"
      /\ r # l => fate'[r] \in {"queued", "unconnected"}
      /\ \A k \in Letter \ {l, r} : fate'[k] = fate[k]
      /\ \E C \in SUBSET Unused : OpenedOn(C, r, {c})
  BY <1>7, <1>8 DEF fwd_failed
<1>10. c \notin Active'
  BY <1>9 DEF Active
<1>11. QED
  BY <1>1, <1>2, <1>3, <1>4, <1>5, <1>9, <1>10 DEF GivenUp

LEMMA FailedKeepsOnce ==
    ASSUME TypeOK, Books, Once, NEW c \in Conn, fwd_failed(c)
    PROVE  Once'
<1>1. PICK l \in Letter, r \in Letter : l = fwd[c].letter /\ r = Report(l)
  BY SessionOnceFacts, ReportIsLetter DEF fwd_failed, Reads
<1>2. GivenUp(c, l, r)
  BY <1>1, FailedFacts
<1>3. PICK C \in SUBSET Unused : OpenedOn(C, r, {c})
  BY <1>2 DEF GivenUp
<1>4. Wire(c) /\ Times(c)' = Times(c)
  BY <1>2, OnceFacts DEF GivenUp, Times
<1>5. Wire(c)'
  BY <1>2, <1>4 DEF GivenUp, Wire
<1>6. \A d \in C : Phase(d)' /\ Wire(d)'
  BY <1>2, <1>3, OpenedIsBefore DEF GivenUp, OpenedOn
<1>7. Tally(l)' /\ Tally(r)'
  BY <1>2 DEF GivenUp, Once, Tally
<1>8. PICK D \in SUBSET Conn, K \in SUBSET Letter : D = C \cup {c} /\ K = {l, r}
  BY DEF Unused
<1>9. \A d \in Conn \ D : /\ fwd'[d] = fwd[d] /\ peer'[d] = peer[d]
                          /\ sent'[d] = sent[d] /\ lines'[d] = lines[d]
                          /\ peer[d] # NoPeer => peer[d].letter \notin K
  BY <1>2, <1>3, <1>8 DEF GivenUp, OpenedOn
<1>10. \A k \in Letter \ K : fate'[k] = fate[k] /\ taken'[k] = taken[k]
  BY <1>2, <1>8 DEF GivenUp
<1>11. /\ \A d \in D : d \in Active' => Phase(d)'
       /\ \A d \in D : Wire(d)'
       /\ \A k \in K : Tally(k)'
  BY <1>2, <1>5, <1>6, <1>7, <1>8 DEF GivenUp
<1>12. QED
  BY <1>9, <1>10, <1>11, OnceFrame

LEMMA CrashKeepsOnce ==
    ASSUME TypeOK, Books, Once, Crash
    PROVE  Once'
<1>1. Active' = {}
  BY DEF Crash, Active
<1>2. /\ \A c \in Conn : lines'[c] = <<>>
      /\ sent' = sent /\ peer' = peer /\ taken' = taken
      /\ \A l \in Letter : /\ fate'[l] = "none" => fate[l] = "none"
                           /\ fate'[l] = "done" => fate[l] = "done"
  BY DEF Crash, TypeOK
<1>3. ASSUME NEW c \in Conn
      PROVE  Wire(c)'
  <2>1. Wire(c) /\ Times(c)' = Times(c)
    BY <1>2 DEF Once, Times
  <2>2. QED
    BY <1>1, <1>2, <2>1 DEF Wire
<1>4. ASSUME NEW l \in Letter
      PROVE  Tally(l)'
  BY <1>2 DEF Once, Tally
<1>5. QED
  BY <1>1, <1>3, <1>4 DEF Once

-----------------------------------------------------------------------------
(* What the other servers do.                                              *)

\* The frame: what is left to show is about the session at this end.
LEMMA PeerKeepsOnce ==
    ASSUME TypeOK, Books, Once, NEW c \in Conn, NEW k \in Letter,
           peer[c] # NoPeer, peer[c].letter = k,
           peer'[c] # NoPeer, peer'[c].letter = k, fwd' = fwd, fate' = fate,
           \A d \in Conn \ {c} :
                peer'[d] = peer[d] /\ sent'[d] = sent[d] /\ lines'[d] = lines[d],
           \A l \in Letter \ {k} : taken'[l] = taken[l],
           \/ sent'[c] = <<>>
           \/ /\ taken'[k] = taken[k]
              /\ \/ sent'[c] = sent[c]
                 \/ sent[c] # <<>> /\ sent'[c] = Tail(sent[c]),
           taken'[k] = taken[k] \/ (taken[k] = 0 /\ taken'[k] = 1),
           c \notin Active => lines'[c] = lines[c],
           c \in Active => Phase(c)'
    PROVE  Once'
<1>1. /\ Wire(c) /\ Tally(k) /\ fate[k] # "none" /\ sent[c] \in Seq(Commands)
  BY OnceFacts
<1>2. Tally(k)'
  BY <1>1 DEF Tally
<1>3. Wire(c)'
  <2>1. CASE sent'[c] = <<>>
    BY <1>1, <2>1 DEF Wire, Active
  <2>2. CASE taken'[k] = taken[k] /\ sent'[c] = sent[c]
    BY <1>1, <2>2 DEF Wire, Times, Active
  <2>3. CASE /\ taken'[k] = taken[k]
             /\ sent[c] # <<>> /\ sent'[c] = Tail(sent[c])
    <3>1. /\ Len(sent'[c]) = Len(sent[c]) - 1 /\ Len(sent[c]) \in Nat
          /\ \A i \in 1..Len(sent'[c]) :
               i + 1 \in 1..Len(sent[c]) /\ sent'[c][i] = sent[c][i + 1]
      BY <1>1, <2>3
    <3>2. ASSUME NEW i \in 1..Len(sent'[c])
          PROVE  /\ sent'[c][i] \in {"BODY", "QUIT"} => i = Len(sent'[c])
                 /\ sent'[c][i] = "BODY" => Times(c)' = 0
      <4>1. /\ sent[c][i + 1] \in {"BODY", "QUIT"} => i + 1 = Len(sent[c])
            /\ sent[c][i + 1] = "BODY" => taken[k] = 0
        BY <1>1, <3>1 DEF Wire, Times
      <4>2. QED
        BY <2>3, <3>1, <4>1 DEF Times
    <3>3. QED
      BY <1>1, <2>3, <3>2 DEF Wire, Active
  <2>4. QED
    BY <2>1, <2>2, <2>3
<1>4. c \in Active' => Phase(c)'
  BY DEF Active
<1>5. QED
  BY <1>2, <1>3, <1>4, OnceOnConnection

\* Before the body, a reply r comes: nothing but a 503 or the end of the
\* connection follows a 354, and a new one is the last line or spoils itself.
LEMMA BeforeHears ==
    ASSUME TypeOK, NEW c \in Active, Before(c), fwd' = fwd, Times(c)' = 0,
           NEW code \in Nat, NEW r \in Seq(Line), ReplyOf(r, code),
           lines'[c] = lines[c] \o r,
           \A i \in 1..Len(sent'[c]) : sent'[c][i] \notin {"BODY", "QUIT"},
           code = 354 => peer'[c].stage = "BODY",
           peer[c].stage # "CLOSED",
           peer[c].stage = "BODY" =>
                code = 503 \/ (code = 421 /\ peer'[c].stage = "CLOSED")
    PROVE  Before(c)'
<1> DEFINE s == lines[c]
<1>1. /\ s \in Seq(Line) /\ Len(s) \in Nat
      /\ Len(s \o r) = Len(s) + Len(r) /\ Len(r) \in Nat
      /\ \A i \in 1..Len(s) : (s \o r)[i] = s[i]
      /\ \A i \in Len(s) + 1..Len(s \o r) : (s \o r)[i].code = code
      /\ \A i \in 0..Len(s) : Spoiled(s, i) => Spoiled(s \o r, i)
      /\ code = 503 => Spoiled(s \o r, Len(s))
      /\ \A i \in Len(s) + 1..Len(s \o r) - 1 : code = 354 => Spoiled(s \o r, i)
  <2>1. s \in Seq(Line)
    BY DEF TypeOK, Active
  <2>2. \A i \in Len(s) + 1..Len(s \o r) : (s \o r)[i].code = code
    BY <2>1, AppendedLines DEF ReplyOf
  <2>3. QED
    BY <2>1, <2>2, AppendedLines, SpoiledByReply
<1>2. ASSUME NEW i \in 1..Len(s), GoAhead(s[i])
      PROVE  \/ Spoiled(s \o r, i)
             \/ peer'[c].stage = "CLOSED" /\ Barren(s \o r, i)
  <2>1. Spoiled(s, i) \/ (peer[c].stage = "BODY" /\ i = Len(s))
    BY <1>2 DEF Before
  <2>2. CASE Spoiled(s, i)
    BY <1>1, <2>2
  <2>3. CASE code = 503 /\ i = Len(s)
    BY <1>1, <2>3
  <2>4. CASE code = 421 /\ peer'[c].stage = "CLOSED" /\ i = Len(s)
    BY <1>1, <2>4 DEF Barren
  <2>5. QED
    BY <2>1, <2>2, <2>3, <2>4
<1>3. ASSUME NEW i \in Len(s) + 1..Len(s \o r), GoAhead((s \o r)[i])
      PROVE  Spoiled(s \o r, i) \/ (peer'[c].stage = "BODY" /\ i = Len(s \o r))
  <2>1. code = 354
    BY <1>1, <1>3 DEF GoAhead
  <2>2. i = Len(s \o r) \/ i \in Len(s) + 1..Len(s \o r) - 1
    BY <1>1
  <2>3. QED
    BY <1>1, <2>1, <2>2
<1>4. \A i \in 1..Len(s \o r) : i \in 1..Len(s) \/ i \in Len(s) + 1..Len(s \o r)
  BY <1>1
<1>5. \A i \in 1..Len(lines'[c]) : GoAhead(lines'[c][i]) =>
        \/ Spoiled(lines'[c], i)
        \/ peer'[c].stage = "CLOSED" /\ Barren(lines'[c], i)
        \/ peer'[c].stage = "BODY" /\ i = Len(lines'[c])
  BY <1>1, <1>2, <1>3, <1>4
<1>6. QED
  BY <1>5 DEF Before

\* A reply does not change what the next line is.
LEMMA DoomedHears ==
    ASSUME TypeOK, NEW c \in Active, Doomed(c), fwd' = fwd,
           NEW r \in Seq(Line), lines'[c] = lines[c] \o r
    PROVE  Doomed(c)'
<1>1. lines[c] \in Seq(Line)
  BY DEF TypeOK, Active
<1>2. 0 \in 0..Len(lines[c])
  BY <1>1
<1>3. QED
  BY <1>1, <1>2, AppendedLines DEF Doomed

\* Nor does a last word, said while the server closes or behind a QUIT.
LEMMA HungUpHears ==
    ASSUME TypeOK, NEW c \in Active, HungUp(c), fwd' = fwd, Times(c)' = Times(c),
           peer'[c].stage = "CLOSED",
           NEW code \in {221, 421}, NEW r \in Seq(Line), ReplyOf(r, code),
           lines'[c] = lines[c] \o r
    PROVE  HungUp(c)'
<1> DEFINE s == lines[c]
<1>1. /\ s \in Seq(Line) /\ Len(s) \in Nat
      /\ \A i \in 1..Len(s \o r) :
           \/ i \in 1..Len(s) /\ (s \o r)[i] = s[i]
           \/ (s \o r)[i].code = code
  <2>1. s \in Seq(Line)
    BY DEF TypeOK, Active
  <2>2. \A i \in Len(s) + 1..Len(s \o r) : (s \o r)[i].code = code
    BY <2>1, AppendedLines DEF ReplyOf
  <2>3. \A i \in 1..Len(s \o r) : i \in 1..Len(s) \/ i \in Len(s) + 1..Len(s \o r)
    BY <2>1, AppendedLines
  <2>4. QED
    BY <2>1, <2>2, <2>3, AppendedLines
<1> HIDE DEF s
<1>2. \A i \in 1..Len(s \o r) : (s \o r)[i].code # 354
  BY <1>1 DEF HungUp, s
<1>3. Barren(s, 0) => Barren(s \o r, 0)
  BY <1>1 DEF Barren
<1>4. QED
  BY <1>2, <1>3 DEF HungUp, s

LEMMA GreetingKeepsOnce ==
    ASSUME TypeOK, Books, Once, NEW c \in Conn, peer_greets(c)
    PROVE  Once'
<1>1. PICK k \in Letter : k = peer[c].letter
  BY OnceFacts DEF peer_greets
<1>2. /\ peer[c] # NoPeer /\ peer[c].stage = "GREET"
      /\ fwd' = fwd /\ sent' = sent /\ fate' = fate /\ taken' = taken
      /\ peer[c] \in [stage : Stages, letter : Letter]
  BY OnceFacts DEF peer_greets
<1>3. PICK code \in {220, 421, 554} :
        /\ Replied(c, code)
        /\ peer' = [peer EXCEPT ![c].stage = IF code = 220 THEN "HELO" ELSE "CLOSED"]
  BY DEF peer_greets
<1>4. PICK r \in Seq(Line) :
        /\ ReplyOf(r, code)
        /\ c \in Active => lines'[c] = lines[c] \o r
        /\ c \notin Active => lines'[c] = lines[c]
        /\ \A d \in Conn \ {c} : lines'[d] = lines[d]
  <2>1. code \in Nat /\ Replied(c, code)
    BY <1>3
  <2>2. QED
    BY <2>1, RepliedShape
<1>5. /\ peer'[c].stage = IF code = 220 THEN "HELO" ELSE "CLOSED"
      /\ peer'[c].letter = k /\ peer'[c] # NoPeer
      /\ \A d \in Conn \ {c} : peer'[d] = peer[d]
  BY <1>1, <1>2, <1>3 DEF TypeOK, NoPeer
<1>6. Times(c)' = Times(c)
  BY <1>1, <1>2, <1>5 DEF Times
<1>7. ASSUME c \in Active
      PROVE  Phase(c)'
  <2>1. Phase(c)
    BY <1>7, SessionOnceFacts
  <2>2. CASE Before(c)
    <3>1. /\ Times(c)' = 0
          /\ \A i \in 1..Len(sent'[c]) : sent'[c][i] \notin {"BODY", "QUIT"}
      BY <1>2, <1>6, <2>2 DEF Before
    <3>2. code \in Nat /\ code # 354
      BY <1>3
    <3>3. ReplyOf(r, code) /\ lines'[c] = lines[c] \o r /\ r \in Seq(Line)
      BY <1>4, <1>7
    <3>4. /\ peer[c].stage # "CLOSED" /\ fwd' = fwd
          /\ code = 354 => peer'[c].stage = "BODY"
          /\ peer[c].stage = "BODY" =>
               code = 503 \/ (code = 421 /\ peer'[c].stage = "CLOSED")
      BY <1>2, <3>2
    <3>5. Before(c)'
      BY <1>7, <2>2, <3>1, <3>2, <3>3, <3>4, BeforeHears
    <3>6. QED
      BY <3>5 DEF Phase
  <2>3. CASE Doomed(c)
    BY <1>2, <1>4, <1>7, <2>3, DoomedHears DEF Phase
  <2>4. CASE Through(c)
    BY <1>2, <1>6, <2>4 DEF Through, Phase
  <2>5. QED
    BY <1>2, <2>1, <2>2, <2>3, <2>4 DEF Phase, Offered, TookOver, Declined, HungUp
<1>8. QED
  BY <1>1, <1>2, <1>4, <1>5, <1>7, PeerKeepsOnce

\* The command a server reads next.
LEMMA FirstCommand ==
    ASSUME TypeOK, NEW c \in Conn, sent[c] # <<>>, Wire(c)
    PROVE  /\ Head(sent[c]) \in Commands /\ 1 \in 1..Len(sent[c])
           /\ sent[c][1] = Head(sent[c])
           /\ Head(sent[c]) \in {"BODY", "QUIT"} => Tail(sent[c]) = <<>>
           /\ Head(sent[c]) = "BODY" => Times(c) = 0
           /\ \A i \in 1..Len(Tail(sent[c])) :
                i + 1 \in 1..Len(sent[c]) /\ Tail(sent[c])[i] = sent[c][i + 1]
<1>1. sent[c] \in Seq(Commands)
  BY DEF TypeOK, Commands
<1>2. /\ Head(sent[c]) \in Commands /\ 1 \in 1..Len(sent[c])
      /\ sent[c][1] = Head(sent[c]) /\ Tail(sent[c]) \in Seq(Commands)
      /\ Len(Tail(sent[c])) = Len(sent[c]) - 1
      /\ \A i \in 1..Len(Tail(sent[c])) :
           i + 1 \in 1..Len(sent[c]) /\ Tail(sent[c])[i] = sent[c][i + 1]
  BY <1>1
<1>3. Len(Tail(sent[c])) = 0 => Tail(sent[c]) = <<>>
  BY <1>2, EmptySeq
<1>4. /\ sent[c][1] \in {"BODY", "QUIT"} => 1 = Len(sent[c])
      /\ sent[c][1] = "BODY" => Times(c) = 0
  BY <1>2 DEF Wire
<1>5. QED
  BY <1>2, <1>3, <1>4

LEMMA AcceptanceKeepsOnce ==
    ASSUME TypeOK, Books, Once, NEW c \in Conn, peer_accepts(c)
    PROVE  Once'
<1>1. PICK k \in Letter, g \in {"HELO", "MAIL", "RCPT", "DATA", "BODY"} :
        k = peer[c].letter /\ g = peer[c].stage
  <2>1. peer[c].letter \in Letter /\ peer[c].stage \in Stages
    BY OnceFacts DEF peer_accepts
  <2>2. Head(sent[c]) \in Commands /\ Head(sent[c]) = peer[c].stage
    BY OnceFacts, FirstCommand DEF peer_accepts
  <2>3. peer[c].stage \in {"HELO", "MAIL", "RCPT", "DATA", "BODY"}
    BY <2>1, <2>2 DEF Commands, Stages
  <2>4. QED
    BY <2>1, <2>3
<1>2. /\ peer[c] # NoPeer /\ sent[c] # <<>> /\ Head(sent[c]) = g
      /\ fwd' = fwd /\ fate' = fate /\ Replied(c, Success[g])
      /\ Wire(c) /\ Tally(k)
  BY <1>1, OnceFacts DEF peer_accepts
<1>3. /\ sent'[c] = Tail(sent[c]) /\ \A d \in Conn \ {c} : sent'[d] = sent[d]
      /\ peer'[c].stage = AfterSuccess[g] /\ peer'[c].letter = k /\ peer'[c] # NoPeer
      /\ \A d \in Conn \ {c} : peer'[d] = peer[d]
      /\ taken'[k] = IF g = "BODY" THEN taken[k] + 1 ELSE taken[k]
      /\ \A l \in Letter \ {k} : taken'[l] = taken[l]
  BY <1>1, <1>2, OnceFacts DEF peer_accepts, TypeOK, NoPeer
<1>4. PICK code \in Nat : code = Success[g] /\ Replied(c, code)
  BY <1>2 DEF Success
<1>5. PICK r \in Seq(Line) :
        /\ ReplyOf(r, code)
        /\ c \in Active => lines'[c] = lines[c] \o r
        /\ c \notin Active => lines'[c] = lines[c]
        /\ \A d \in Conn \ {c} : lines'[d] = lines[d]
  BY <1>4, RepliedShape
<1>6. /\ g = "BODY" => sent'[c] = <<>> /\ Times(c) = 0
      /\ \A i \in 1..Len(sent'[c]) :
           i + 1 \in 1..Len(sent[c]) /\ sent'[c][i] = sent[c][i + 1]
      /\ sent[c][1] = g /\ 1 \in 1..Len(sent[c])
  BY <1>2, <1>3, FirstCommand
<1>7. /\ Times(c) = taken[k] /\ Times(c)' = taken'[k]
      /\ taken'[k] = taken[k] \/ (taken[k] = 0 /\ taken'[k] = 1)
  BY <1>1, <1>3, <1>6 DEF Times
<1>8. /\ g # "DATA" => code = 250
      /\ g = "DATA" => code = 354 /\ peer'[c].stage = "BODY"
      /\ g = "BODY" => peer'[c].stage = "MAIL"
  BY <1>3, <1>4 DEF Success, AfterSuccess
<1>9. ASSUME c \in Active
      PROVE  Phase(c)'
  <2>1. /\ Phase(c) /\ lines'[c] = lines[c] \o r /\ lines[c] \in Seq(Line)
    BY <1>2, <1>5, <1>9, SessionOnceFacts, OnceFacts
  <2>2. CASE Before(c)
    <3>1. \A i \in 1..Len(sent[c]) : sent[c][i] \notin {"BODY", "QUIT"}
      BY <2>2 DEF Before
    <3>2. g # "BODY" /\ Times(c)' = 0
      BY <1>3, <1>6, <1>7, <2>2, <3>1 DEF Before
    <3>3. \A i \in 1..Len(sent'[c]) : sent'[c][i] \notin {"BODY", "QUIT"}
      BY <1>6, <3>1
    <3>4. peer[c].stage # "CLOSED" /\ peer[c].stage # "BODY"
      BY <1>1, <3>2
    <3>5. code = 354 => peer'[c].stage = "BODY"
      BY <1>8
    <3>6. Before(c)'
      BY <1>2, <1>5, <1>9, <2>1, <2>2, <3>2, <3>3, <3>4, <3>5, BeforeHears
    <3>7. QED
      BY <3>6 DEF Phase
  <2>3. CASE Doomed(c)
    <3>1. Doomed(c)'
      BY <1>2, <1>9, <2>1, <2>3, DoomedHears
    <3>2. QED
      BY <3>1 DEF Phase
  <2>4. CASE Offered(c)
    <3>1. g = "BODY"
      BY <1>1, <2>4 DEF Offered
    <3>2. \A i \in 1..Len(lines'[c]) : lines'[c][i].code = 250
      <4>1. lines'[c] = r
        BY <2>1, <2>4 DEF Offered
      <4>2. QED
        BY <1>5, <1>8, <3>1, <4>1 DEF ReplyOf
    <3>3. TookOver(c)'
      BY <1>2, <1>3, <1>6, <1>7, <1>8, <2>4, <3>1, <3>2 DEF TookOver, Offered
    <3>4. QED
      BY <3>3 DEF Phase
  <2>5. ~TookOver(c) /\ ~Declined(c) /\ ~HungUp(c)
    BY <1>1, <1>2 DEF TookOver, Declined, HungUp
  <2>6. CASE Through(c)
    <3>1. Times(c)' = 1
      BY <1>3, <1>6, <1>7, <2>6 DEF Through
    <3>2. QED
      BY <1>2, <2>6, <3>1 DEF Through, Phase
  <2>7. QED
    BY <2>1, <2>2, <2>3, <2>4, <2>5, <2>6 DEF Phase
<1>10. \/ sent'[c] = <<>>
       \/ taken'[k] = taken[k] /\ sent[c] # <<>> /\ sent'[c] = Tail(sent[c])
  BY <1>2, <1>3, <1>6
<1>11. QED
  BY <1>1, <1>2, <1>3, <1>5, <1>7, <1>9, <1>10, PeerKeepsOnce

LEMMA RefusalKeepsOnce ==
    ASSUME TypeOK, Books, Once, NEW c \in Conn, peer_refuses(c)
    PROVE  Once'
<1>1. PICK k \in Letter, g \in Stages \ {"GREET", "CLOSED"} :
        k = peer[c].letter /\ g = peer[c].stage
  BY OnceFacts DEF peer_refuses
<1>2. /\ peer[c] # NoPeer /\ sent[c] # <<>> /\ Head(sent[c]) # "QUIT"
      /\ fwd' = fwd /\ fate' = fate /\ taken' = taken
      /\ Wire(c) /\ peer[c] \in [stage : Stages, letter : Letter]
  BY <1>1, OnceFacts DEF peer_refuses
<1>3. PICK code \in Nat :
        /\ Replied(c, code)
        /\ IF Head(sent[c]) = g THEN code \in {450, 550} ELSE code = 503
  <2>1. PICK code \in IF Head(sent[c]) = g THEN {450, 550} ELSE {503} : Replied(c, code)
    BY <1>1 DEF peer_refuses
  <2>2. CASE Head(sent[c]) = g
    BY <2>1, <2>2
  <2>3. CASE Head(sent[c]) # g
    BY <2>1, <2>3
  <2>4. QED
    BY <2>2, <2>3
<1>4. /\ sent'[c] = Tail(sent[c]) /\ \A d \in Conn \ {c} : sent'[d] = sent[d]
      /\ peer'[c].stage = IF g = "BODY" THEN "MAIL" ELSE g
      /\ peer'[c].letter = k /\ peer'[c] # NoPeer
      /\ \A d \in Conn \ {c} : peer'[d] = peer[d]
  <2>1. sent' = [sent EXCEPT ![c] = Tail(@)]
    BY DEF peer_refuses
  <2>2. peer' = [peer EXCEPT ![c].stage = IF @ = "BODY" THEN "MAIL" ELSE @]
    BY DEF peer_refuses
  <2>3. sent \in [Conn -> Seq(Commands)] /\ DOMAIN peer = Conn
    BY DEF TypeOK, Commands
  <2>4. /\ peer'[c] = [peer[c] EXCEPT !.stage = IF @ = "BODY" THEN "MAIL" ELSE @]
        /\ \A d \in Conn \ {c} : peer'[d] = peer[d]
    BY <2>2, <2>3
  <2>5. peer'[c] \in [stage : Stages, letter : Letter] /\ peer'[c].letter = k
        /\ peer'[c].stage = IF g = "BODY" THEN "MAIL" ELSE g
    BY <1>1, <1>2, <2>4 DEF Stages
  <2>6. peer'[c] # NoPeer
    BY <2>5 DEF NoPeer
  <2>7. QED
    BY <2>1, <2>3, <2>4, <2>5, <2>6
<1>5. PICK r \in Seq(Line) :
        /\ ReplyOf(r, code)
        /\ c \in Active => lines'[c] = lines[c] \o r
        /\ c \notin Active => lines'[c] = lines[c]
        /\ \A d \in Conn \ {c} : lines'[d] = lines[d]
  BY <1>3, RepliedShape
<1>6. /\ sent[c][1] = Head(sent[c]) /\ 1 \in 1..Len(sent[c])
      /\ Head(sent[c]) = "BODY" => sent'[c] = <<>> /\ Times(c) = 0
      /\ \A i \in 1..Len(sent'[c]) :
           i + 1 \in 1..Len(sent[c]) /\ sent'[c][i] = sent[c][i + 1]
  BY <1>2, <1>4, FirstCommand
<1>7. Times(c)' = Times(c) /\ code # 354
  BY <1>1, <1>2, <1>3, <1>4 DEF Times
<1>8. ASSUME c \in Active
      PROVE  Phase(c)'
  <2>1. /\ Phase(c) /\ lines'[c] = lines[c] \o r /\ lines[c] \in Seq(Line)
    BY <1>2, <1>5, <1>8, SessionOnceFacts, OnceFacts
  <2>2. CASE Before(c)
    <3>1. \A i \in 1..Len(sent[c]) : sent[c][i] \notin {"BODY", "QUIT"}
      BY <2>2 DEF Before
    <3>2. \A i \in 1..Len(sent'[c]) : sent'[c][i] \notin {"BODY", "QUIT"}
      BY <1>6, <3>1
    <3>3. Times(c)' = 0
      BY <1>7, <2>2 DEF Before
    <3>4. g = "BODY" => code = 503
      BY <1>3, <1>6, <3>1
    <3>5. peer[c].stage # "CLOSED"
      BY <1>1
    <3>6. Before(c)'
      BY <1>1, <1>2, <1>5, <1>7, <1>8, <2>1, <2>2, <3>2, <3>3, <3>4, <3>5, BeforeHears
    <3>7. QED
      BY <3>6 DEF Phase
  <2>3. CASE Doomed(c)
    <3>1. Doomed(c)'
      BY <1>2, <1>8, <2>1, <2>3, DoomedHears
    <3>2. QED
      BY <3>1 DEF Phase
  <2>4. CASE Offered(c) /\ Head(sent[c]) = "BODY"
    <3>1. g = "BODY" /\ lines'[c] = r /\ fwd[c].state = "SEND"
      BY <1>1, <2>1, <2>4 DEF Offered
    <3>2. /\ \A i \in 1..Len(lines'[c]) : lines'[c][i].code \in {450, 550}
          /\ Len(lines'[c]) \in {1, 2}
      BY <1>3, <1>5, <2>4, <3>1 DEF ReplyOf
    <3>3. Rank[fwd[c].state] >= 3 + Len(lines'[c])
      BY <3>1, <3>2 DEF Rank
    <3>4. /\ fwd'[c].state \in {"RCPT", "DATA", "SEND"} /\ peer'[c].stage = "MAIL"
          /\ sent'[c] = <<>> /\ Times(c)' = 0
          /\ Rank[fwd'[c].state] >= 3 + Len(lines'[c])
      BY <1>2, <1>4, <1>6, <1>7, <2>4, <3>1, <3>3
    <3>5. Declined(c)'
      BY <3>2, <3>4 DEF Declined
    <3>6. QED
      BY <3>5 DEF Phase
  <2>5. CASE Offered(c) /\ Head(sent[c]) # "BODY"
    <3>1. g = "BODY" /\ lines[c] = <<>> /\ fwd[c].state = "SEND"
      BY <1>1, <2>5 DEF Offered
    <3>2. code = 503 /\ Len(lines[c]) = 0
      BY <1>3, <2>5, <3>1
    <3>3. Spoiled(lines[c] \o r, Len(lines[c]))
      BY <1>5, <2>1, <3>2, SpoiledByReply
    <3>4. Doomed(c)'
      BY <1>2, <2>1, <3>1, <3>2, <3>3 DEF Doomed
    <3>5. QED
      BY <3>4 DEF Phase
  <2>6. ~TookOver(c) /\ ~Declined(c) /\ ~HungUp(c)
    BY <1>1, <1>2 DEF TookOver, Declined, HungUp
  <2>7. CASE Through(c)
    BY <1>2, <1>7, <2>7 DEF Through, Phase
  <2>8. QED
    BY <2>1, <2>2, <2>3, <2>4, <2>5, <2>6, <2>7 DEF Phase
<1>9. /\ taken'[k] = taken[k] /\ sent[c] # <<>> /\ sent'[c] = Tail(sent[c])
      /\ \A l \in Letter \ {k} : taken'[l] = taken[l]
  BY <1>2, <1>4
<1>10. QED
  BY <1>1, <1>2, <1>4, <1>5, <1>8, <1>9, PeerKeepsOnce

LEMMA QuittingKeepsOnce ==
    ASSUME TypeOK, Books, Once, NEW c \in Conn, peer_quits(c)
    PROVE  Once'
<1>1. PICK k \in Letter : k = peer[c].letter
  BY OnceFacts DEF peer_quits
<1>2. /\ peer[c] # NoPeer /\ sent[c] # <<>> /\ Head(sent[c]) = "QUIT"
      /\ fwd' = fwd /\ fate' = fate /\ taken' = taken /\ Replied(c, 221)
      /\ Wire(c) /\ peer[c] \in [stage : Stages, letter : Letter]
  BY <1>1, OnceFacts DEF peer_quits
<1>3. /\ sent'[c] = <<>> /\ \A d \in Conn \ {c} : sent'[d] = sent[d]
      /\ peer'[c].stage = "CLOSED" /\ peer'[c].letter = k /\ peer'[c] # NoPeer
      /\ \A d \in Conn \ {c} : peer'[d] = peer[d]
  BY <1>1, <1>2 DEF peer_quits, TypeOK, NoPeer
<1>4. PICK r \in Seq(Line) :
        /\ ReplyOf(r, 221)
        /\ c \in Active => lines'[c] = lines[c] \o r
        /\ c \notin Active => lines'[c] = lines[c]
        /\ \A d \in Conn \ {c} : lines'[d] = lines[d]
  BY <1>2, RepliedShape
<1>5. /\ sent[c][1] = "QUIT" /\ 1 \in 1..Len(sent[c]) /\ Len(sent[c]) = 1
  BY <1>2, FirstCommand DEF Wire
<1>6. Times(c)' = Times(c)
  BY <1>1, <1>2, <1>3 DEF Times
<1>7. ASSUME c \in Active
      PROVE  Phase(c)'
  <2>1. /\ Phase(c) /\ lines'[c] = lines[c] \o r /\ lines[c] \in Seq(Line)
    BY <1>2, <1>4, <1>7, SessionOnceFacts, OnceFacts
  <2>2. ~Before(c) /\ ~TookOver(c) /\ ~Declined(c) /\ ~Offered(c)
    BY <1>2, <1>5 DEF Before, TookOver, Declined, Offered
  <2>3. CASE Doomed(c)
    <3>1. Doomed(c)'
      BY <1>2, <1>7, <2>1, <2>3, DoomedHears
    <3>2. QED
      BY <3>1 DEF Phase
  <2>4. CASE HungUp(c)
    <3>1. HungUp(c)'
      BY <1>2, <1>3, <1>4, <1>6, <1>7, <2>1, <2>4, HungUpHears
    <3>2. QED
      BY <3>1 DEF Phase
  <2>5. CASE Through(c)
    BY <1>2, <1>6, <2>5 DEF Through, Phase
  <2>6. QED
    BY <2>1, <2>2, <2>3, <2>4, <2>5 DEF Phase
<1>8. QED
  BY <1>1, <1>2, <1>3, <1>4, <1>7, PeerKeepsOnce

\* The server is gone while the session at this end goes on: what was said of
\* the body, or of nothing, is what is left to read.
LEMMA LeftBehind ==
    ASSUME NEW c \in Active, fwd' = fwd, Times(c)' = Times(c),
           peer'[c].stage = "CLOSED",
           \/ /\ TookOver(c)
              /\ \A i \in 1..Len(lines'[c]) : lines'[c][i].code \in {250, 421}
           \/ /\ Offered(c) \/ Declined(c)
              /\ \A i \in 1..Len(lines'[c]) : lines'[c][i].code \in {421, 450, 550},
           lines' \in [Conn -> Seq(Line)]
    PROVE  Phase(c)'
<1>1. fwd'[c].state \in Early \cup {"SEND"}
  BY DEF TookOver, Offered, Declined, Early
<1>2. \A i \in 1..Len(lines'[c]) : lines'[c][i].code # 354
  OBVIOUS
<1>3. Times(c) = 0 => Barren(lines'[c], 0)
  <2>1. Times(c) = 0 => Offered(c) \/ Declined(c)
    BY DEF TookOver
  <2>2. Offered(c) \/ Declined(c) =>
          \A i \in 1..Len(lines'[c]) : lines'[c][i].code \notin {250, 354}
    BY DEF TookOver, Offered, Declined
  <2>3. \A j \in 0 + 1..Len(lines'[c]) : j \in 1..Len(lines'[c])
    OBVIOUS
  <2>4. QED
    BY <2>1, <2>2, <2>3 DEF Barren
<1>4. HungUp(c)'
  BY <1>1, <1>2, <1>3 DEF HungUp
<1>5. QED
  BY <1>4 DEF Phase

LEMMA HangUpKeepsOnce ==
    ASSUME TypeOK, TypeOK', Books, Once, NEW c \in Conn, peer_hangs_up(c)
    PROVE  Once'
<1>1. PICK k \in Letter : k = peer[c].letter
  BY OnceFacts DEF peer_hangs_up
<1>2. /\ peer[c] # NoPeer /\ peer[c].stage # "CLOSED"
      /\ fwd' = fwd /\ fate' = fate /\ taken' = taken
      /\ Wire(c) /\ peer[c] \in [stage : Stages, letter : Letter]
  BY <1>1, OnceFacts DEF peer_hangs_up
<1>3. /\ sent'[c] = <<>> /\ \A d \in Conn \ {c} : sent'[d] = sent[d]
      /\ peer'[c].stage = "CLOSED" /\ peer'[c].letter = k /\ peer'[c] # NoPeer
      /\ \A d \in Conn \ {c} : peer'[d] = peer[d]
  BY <1>1, <1>2 DEF peer_hangs_up, TypeOK, NoPeer
<1>4. Times(c)' = Times(c)
  BY <1>1, <1>2, <1>3 DEF Times
<1>5. lines[c] \in Seq(Line) /\ Len(lines[c]) \in Nat /\ lines' \in [Conn -> Seq(Line)]
  BY DEF TypeOK
<1>6. c \in Active => Phase(c)
  BY SessionOnceFacts
<1>7. ASSUME NEW n \in 0..Len(lines[c]),
             lines' = [lines EXCEPT ![c] = SubSeq(@, 1, n)]
      PROVE  /\ c \in Active => Phase(c)'
             /\ c \notin Active => lines'[c] = lines[c]
             /\ \A d \in Conn \ {c} : lines'[d] = lines[d]
  <2> DEFINE s == lines[c]
             t == lines'[c]
  <2>1. t = SubSeq(s, 1, n) /\ \A d \in Conn \ {c} : lines'[d] = lines[d]
    BY <1>7 DEF TypeOK
  <2>2. /\ Len(t) = n /\ n \in Nat /\ n <= Len(s) /\ t \in Seq(Line)
        /\ \A i \in 1..Len(t) : i \in 1..Len(s) /\ t[i] = s[i]
        /\ \A i \in 0..n : Spoiled(s, i) => Spoiled(t, i) \/ Barren(t, i)
    BY <1>5, <2>1, CutLines
  <2>3. c \notin Active => t = s
    <3>1. s = <<>> => Len(t) = 0
      BY <2>2
    <3>2. QED
      BY <1>2, <2>2, <3>1, EmptySeq DEF Wire
  <2>4. ASSUME c \in Active, Before(c)
        PROVE  Before(c)'
    <3>1. ASSUME NEW i \in 1..Len(t), GoAhead(t[i])
          PROVE  Spoiled(t, i) \/ Barren(t, i)
      <4>1. i \in 0..n /\ i \in 1..Len(s) /\ GoAhead(s[i])
        BY <2>2, <3>1
      <4>2. Spoiled(s, i) \/ i = Len(s)
        BY <1>2, <2>4, <4>1 DEF Before
      <4>3. CASE Spoiled(s, i)
        BY <2>2, <4>1, <4>3
      <4>4. CASE i = Len(s)
        <5>1. \A j \in i + 1..Len(t) : FALSE
          BY <2>2, <4>4
        <5>2. QED
          BY <5>1 DEF Barren
      <4>5. QED
        BY <4>2, <4>3, <4>4
    <3>2. QED
      BY <1>2, <1>3, <1>4, <2>4, <3>1 DEF Before
  <2>5. ASSUME c \in Active, Doomed(c)
        PROVE  Phase(c)'
    <3>1. Spoiled(t, 0) \/ Barren(t, 0)
      <4>1. 0 \in 0..n
        BY <2>2
      <4>2. QED
        BY <2>2, <2>5, <4>1 DEF Doomed
    <3>2. CASE Spoiled(t, 0)
      BY <1>2, <2>5, <3>2 DEF Doomed, Phase
    <3>3. CASE Barren(t, 0)
      <4>1. \A i \in 1..Len(t) : t[i].code # 354
        BY <3>3 DEF Barren
      <4>2. HungUp(c)'
        BY <1>2, <1>3, <2>5, <3>3, <4>1 DEF Doomed, HungUp
      <4>3. QED
        BY <4>2 DEF Phase
    <3>4. QED
      BY <3>1, <3>2, <3>3
  <2>6. ASSUME c \in Active, TookOver(c) \/ Offered(c) \/ Declined(c)
        PROVE  Phase(c)'
    <3>1. TookOver(c) => \A i \in 1..Len(t) : t[i].code \in {250, 421}
      BY <2>2 DEF TookOver
    <3>2. Offered(c) \/ Declined(c) =>
            \A i \in 1..Len(t) : t[i].code \in {421, 450, 550}
      BY <2>2 DEF Offered, Declined
    <3>3. QED
      BY <1>2, <1>3, <1>4, <1>5, <2>6, <3>1, <3>2, LeftBehind
  <2>7. Through(c) => Through(c)'
    BY <1>2, <1>4 DEF Through
  <2>8. ~HungUp(c)
    BY <1>2 DEF HungUp
  <2>9. c \in Active => Phase(c)'
    BY <1>6, <2>4, <2>5, <2>6, <2>7, <2>8 DEF Phase
  <2>10. QED
    BY <2>1, <2>3, <2>9
<1>8. ASSUME Replied(c, 421)
      PROVE  /\ c \in Active => Phase(c)'
             /\ c \notin Active => lines'[c] = lines[c]
             /\ \A d \in Conn \ {c} : lines'[d] = lines[d]
  <2>1. PICK r \in Seq(Line) :
          /\ ReplyOf(r, 421)
          /\ c \in Active => lines'[c] = lines[c] \o r
          /\ c \notin Active => lines'[c] = lines[c]
          /\ \A d \in Conn \ {c} : lines'[d] = lines[d]
    BY <1>8, RepliedShape
  <2>2. SUFFICES ASSUME c \in Active PROVE Phase(c)'
    BY <2>1
  <2>3. lines'[c] = lines[c] \o r
    BY <2>1, <2>2
  <2>4. CASE Before(c)
    <3>1. /\ \A i \in 1..Len(sent'[c]) : sent'[c][i] \notin {"BODY", "QUIT"}
          /\ Times(c)' = 0
      BY <1>3, <1>4, <2>4 DEF Before
    <3>2. Before(c)'
      BY <1>2, <1>3, <2>1, <2>2, <2>3, <2>4, <3>1, BeforeHears
    <3>3. QED
      BY <3>2 DEF Phase
  <2>5. CASE Doomed(c)
    <3>1. Doomed(c)'
      BY <1>2, <2>2, <2>3, <2>5, DoomedHears
    <3>2. QED
      BY <3>1 DEF Phase
  <2>6. \A i \in 1..Len(lines'[c]) :
          \/ i \in 1..Len(lines[c]) /\ lines'[c][i] = lines[c][i]
          \/ lines'[c][i].code = 421
    <3>1. \A i \in Len(lines[c]) + 1..Len(lines'[c]) : lines'[c][i].code = 421
      BY <1>5, <2>1, <2>3, AppendedLines DEF ReplyOf
    <3>2. \A i \in 1..Len(lines'[c]) :
            i \in 1..Len(lines[c]) \/ i \in Len(lines[c]) + 1..Len(lines'[c])
      BY <1>5, <2>3, AppendedLines
    <3>3. QED
      BY <1>5, <2>3, <3>1, <3>2, AppendedLines
  <2>7. CASE TookOver(c) \/ Offered(c) \/ Declined(c)
    <3>1. TookOver(c) => \A i \in 1..Len(lines'[c]) : lines'[c][i].code \in {250, 421}
      BY <2>6 DEF TookOver
    <3>2. Offered(c) \/ Declined(c) =>
            \A i \in 1..Len(lines'[c]) : lines'[c][i].code \in {421, 450, 550}
      BY <2>6 DEF Offered, Declined
    <3>3. QED
      BY <1>2, <1>3, <1>4, <1>5, <2>2, <2>7, <3>1, <3>2, LeftBehind
  <2>8. CASE Through(c)
    BY <1>2, <1>4, <2>8 DEF Through, Phase
  <2>9. ~HungUp(c)
    BY <1>2 DEF HungUp
  <2>10. QED
    BY <1>6, <2>2, <2>4, <2>5, <2>7, <2>8, <2>9 DEF Phase
<1>9. /\ c \in Active => Phase(c)'
      /\ c \notin Active => lines'[c] = lines[c]
      /\ \A d \in Conn \ {c} : lines'[d] = lines[d]
  BY <1>7, <1>8 DEF peer_hangs_up
<1>10. QED
  BY <1>1, <1>2, <1>3, <1>9, PeerKeepsOnce

LEMMA PeerEofKeepsOnce ==
    ASSUME TypeOK, Books, Once, NEW c \in Conn, peer_eof(c)
    PROVE  Once'
<1>1. PICK k \in Letter : k = peer[c].letter
  BY OnceFacts DEF peer_eof
<1>2. /\ peer[c] # NoPeer /\ c \notin Active /\ sent[c] = <<>>
      /\ fwd' = fwd /\ sent' = sent /\ lines' = lines /\ fate' = fate /\ taken' = taken
      /\ Wire(c) /\ Tally(k)
  BY <1>1, OnceFacts DEF peer_eof
<1>3. /\ peer'[c] = NoPeer /\ \A d \in Conn \ {c} : peer'[d] = peer[d]
  BY DEF peer_eof, TypeOK
<1>4. Wire(c)' /\ Tally(k)' /\ c \notin Active'
  BY <1>2, <1>3 DEF Wire, Tally, Active
<1>5. QED
  BY <1>1, <1>2, <1>3, <1>4, OnceOnConnection

LEMMA NextOnce == TypeOK /\ Books /\ Once /\ [Next]_vars => Once'
<1> SUFFICES ASSUME TypeOK, Books, Once, [Next]_vars PROVE Once'
  OBVIOUS
<1>1. ASSUME NEW m \in Message, fwd_queue([mail |-> m, failable |-> TRUE])
      PROVE  Once'
  <2>1. [mail |-> m, failable |-> TRUE] \in Letter
    BY DEF Letter
  <2>2. QED
    BY <1>1, <2>1, QueueKeepsOnce
<1>2. ASSUME NEW c \in Conn, fwd_process_input(c) PROVE Once'
  <2>1. CASE fwd_accepted(c)
    BY <2>1, AcceptedKeepsOnce
  <2>2. CASE fwd_retry(c) \/ fwd_nop(c)
    BY <2>2, WaitingKeepsOnce
  <2>3. CASE fwd_failed(c)
    BY <2>3, FailedKeepsOnce
  <2>4. CASE fwd_write_failed(c) \/ fwd_quit(c)
    BY <2>4, GoneKeepsOnce
  <2>5. QED
    BY <1>2, <2>1, <2>2, <2>3, <2>4 DEF fwd_process_input
<1>3. ASSUME NEW c \in Conn, conn_eof(c) PROVE Once'
  BY <1>3, GoneKeepsOnce
<1>4. ASSUME NEW c \in Conn, peer_serves(c) PROVE Once'
  BY <1>4, GreetingKeepsOnce, AcceptanceKeepsOnce, RefusalKeepsOnce,
     QuittingKeepsOnce DEF peer_serves
<1>5. ASSUME NEW c \in Conn, peer_hangs_up(c) PROVE Once'
  BY <1>5, NextTypeOK, HangUpKeepsOnce
<1>6. ASSUME NEW c \in Conn, peer_eof(c) PROVE Once'
  BY <1>6, PeerEofKeepsOnce
<1>7. CASE Crash
  BY <1>7, CrashKeepsOnce
<1>8. CASE UNCHANGED vars
  <2>1. PICK C \in SUBSET Conn, K \in SUBSET Letter : C = {} /\ K = {}
    OBVIOUS
  <2>2. QED
    BY <1>8, <2>1, OnceFrame DEF vars
<1>9. QED
  BY <1>1, <1>2, <1>3, <1>4, <1>5, <1>6, <1>7, <1>8 DEF Next

LEMMA OnceIsKept == Spec => [](TypeOK /\ Books /\ Once)
<1>1. Init => TypeOK /\ Books /\ Once
  BY InitTypeOK, InitBooks, InitOnce
<1>2. TypeOK /\ Books /\ Once /\ [Next]_vars => TypeOK' /\ Books' /\ Once'
  BY NextTypeOK, NextBooks, NextOnce
<1>3. QED
  BY <1>1, <1>2, PTL DEF Spec

\* No server takes a mail twice: the body of a mail is written at most once,
\* whatever refusals, split replies and early ends of the connection come in
\* between.
THEOREM BodyGoesOnce == Spec => []TakenOnce
<1>1. Once => TakenOnce
  BY DEF Once, Tally, TakenOnce
<1>2. QED
  BY <1>1, OnceIsKept, PTL

\* What the module takes for sent was taken over: the reply it believes is the
\* one to the body, however its lines are split.
THEOREM SentIsTaken == Spec => []DoneIsTaken
<1>1. Once => DoneIsTaken
  BY DEF Once, Tally, DoneIsTaken
<1>2. QED
  BY <1>1, OnceIsKept, PTL

-----------------------------------------------------------------------------
(* Moving: while the other server waits, something is under way, or it was *)
(* told to try again.  A reply ends with a line that has a number, so that *)
(* a line that is passed over is never the last one.                       *)

Numbered(c) ==
    \A i \in 1..Len(lines[c]) :
        /\ lines[c][i].code # 0
        /\ lines[c][i].code \in 400..499 => "transient" \in answers[fwd[c].letter]

Moves(c) ==
    peer[c].stage \notin {"GREET", "CLOSED"} =>
        \/ "transient" \in answers[fwd[c].letter]
        \/ sent[c] # <<>>
        \/ lines[c] # <<>> /\ lines[c][Len(lines[c])].kind = "last"

Moving == \A c \in Active : Numbered(c) /\ Moves(c)

LEMMA InitMoving == Init => Moving
  BY DEF Init, Moving, Active

\* A step is looked at on the connections C; what was said stays said.
LEMMA MovingFrame ==
    ASSUME TypeOK, Books, Once, Moving, NEW C \in SUBSET Conn,
           \A d \in Conn \ C : /\ fwd'[d] = fwd[d] /\ peer'[d] = peer[d]
                               /\ sent'[d] = sent[d] /\ lines'[d] = lines[d],
           \A l \in Letter : answers[l] \subseteq answers'[l],
           \A c \in C : c \in Active' => Numbered(c)' /\ Moves(c)'
    PROVE  Moving'
<1>1. ASSUME NEW c \in Active', c \notin C
      PROVE  Numbered(c)' /\ Moves(c)'
  <2>1. /\ c \in Conn \ C /\ c \in Active /\ fwd'[c] = fwd[c] /\ peer'[c] = peer[c]
        /\ sent'[c] = sent[c] /\ lines'[c] = lines[c]
    BY <1>1 DEF Active
  <2>2. fwd[c].letter \in Letter
    BY <2>1, SessionOnceFacts
  <2>3. "transient" \in answers[fwd[c].letter] => "transient" \in answers'[fwd'[c].letter]
    BY <2>1, <2>2
  <2>4. Numbered(c) /\ Moves(c)
    BY <2>1 DEF Moving
  <2>5. Numbered(c)'
    BY <2>1, <2>3, <2>4 DEF Numbered
  <2>6. Moves(c)'
    BY <2>1, <2>3, <2>4 DEF Moves
  <2>7. QED
    BY <2>5, <2>6
<1>2. QED
  BY <1>1 DEF Moving

\* A step that is about c alone.
LEMMA MovingOnConnection ==
    ASSUME TypeOK, Books, Once, Moving, NEW c \in Conn,
           \A d \in Conn \ {c} : /\ fwd'[d] = fwd[d] /\ peer'[d] = peer[d]
                                 /\ sent'[d] = sent[d] /\ lines'[d] = lines[d],
           \A l \in Letter : answers[l] \subseteq answers'[l],
           c \in Active' => Numbered(c)' /\ Moves(c)'
    PROVE  Moving'
<1>1. PICK C \in SUBSET Conn : C = {c}
  OBVIOUS
<1>2. QED
  BY <1>1, MovingFrame

\* A line is handled, and the module writes, or was told to try again, or the
\* line was in one word.
LEMMA HandledKeepsMoving ==
    ASSUME TypeOK, Books, Once, Moving, NEW c \in Conn,
           fwd_accepted(c) \/ fwd_retry(c) \/ fwd_nop(c)
    PROVE  Moving'
<1>1. /\ c \in Active /\ lines[c] # <<>> /\ Consumed(c)
      /\ peer' = peer /\ answers' = answers
  BY DEF fwd_accepted, fwd_retry, fwd_nop, Reads
<1>2. PICK st \in States, k \in Letter : st = fwd[c].state /\ k = fwd[c].letter
  BY <1>1, SessionOnceFacts
<1>3. /\ fwd[c] \in [state : States, letter : Letter]
      /\ lines[c] \in Seq(Line) /\ sent[c] \in Seq(Commands)
      /\ Numbered(c) /\ Moves(c)
  BY <1>1, SessionOnceFacts, OnceFacts DEF Moving
<1>4. /\ fwd'[c].letter = k /\ \A d \in Conn \ {c} : fwd'[d] = fwd[d]
      /\ \A d \in Conn \ {c} : sent'[d] = sent[d] /\ lines'[d] = lines[d]
  BY <1>1, <1>2, <1>3, ConsumedFacts DEF fwd_accepted, fwd_retry, fwd_nop, TypeOK
<1>5. Numbered(c)'
  <2>1. ASSUME NEW i \in 1..Len(lines'[c])
        PROVE  /\ lines'[c][i].code # 0
               /\ lines'[c][i].code \in 400..499 => "transient" \in answers'[fwd'[c].letter]
    <3>1. i + 1 \in 1..Len(lines[c]) /\ lines'[c][i] = lines[c][i + 1]
      BY <1>1, ConsumedFacts
    <3>2. QED
      BY <1>1, <1>2, <1>3, <1>4, <3>1 DEF Numbered
  <2>2. QED
    BY <2>1 DEF Numbered
<1>6. ASSUME fwd_accepted(c) PROVE Moves(c)'
  <2>1. sent'[c] = IF peer[c].stage = "CLOSED" THEN sent[c]
                   ELSE Append(sent[c], Command[st])
    BY <1>2, <1>6 DEF fwd_accepted, TypeOK
  <2>2. peer[c].stage # "CLOSED" => sent'[c] # <<>>
    <3>1. st \in States \ {"QUIT"}
      BY <1>2, <1>6 DEF fwd_accepted
    <3>2. Command[st] \in Commands
      BY <3>1 DEF Command, Commands, States
    <3>3. QED
      BY <1>3, <2>1, <3>2
  <2>3. QED
    BY <1>1, <2>2 DEF Moves
<1>7. ASSUME fwd_retry(c) PROVE Moves(c)'
  <2>1. lines[c][1].code \in 400..499 /\ 1 \in 1..Len(lines[c])
    BY <1>1, <1>2, <1>7, ReplyIsTaken, ConsumedFacts DEF fwd_retry
  <2>2. "transient" \in answers[k]
    BY <1>2, <1>3, <2>1 DEF Numbered
  <2>3. QED
    BY <1>1, <1>4, <2>2 DEF Moves
<1>8. ASSUME fwd_nop(c) PROVE Moves(c)'
  <2>1. lines[c][1].kind = "one_word"
    <3>1. lines[c][1].kind = "one_word" \/ lines[c][1].code = 0
      BY <1>1, <1>2, <1>8, ReplyIsTaken DEF fwd_nop
    <3>2. lines[c][1].code # 0
      BY <1>1, <1>3, ConsumedFacts DEF Numbered
    <3>3. QED
      BY <3>1, <3>2
  <2>2. sent' = sent /\ Len(lines[c]) \in Nat /\ Len(lines'[c]) = Len(lines[c]) - 1
    BY <1>1, <1>8, ConsumedFacts DEF fwd_nop
  <2>3. CASE lines[c] # <<>> /\ lines[c][Len(lines[c])].kind = "last"
    <3>1. Len(lines[c]) # 1 /\ Len(lines[c]) > 0
      BY <1>1, <2>1, <2>2, <2>3, ConsumedFacts
    <3>2. /\ Len(lines'[c]) \in Nat /\ Len(lines'[c]) \in 1..Len(lines'[c])
          /\ Len(lines'[c]) + 1 = Len(lines[c])
      <4>1. \A m, n \in Int : m = n - 1 /\ n # 1 /\ n > 0 =>
              m \in Nat /\ m \in 1..m /\ m + 1 = n
        OBVIOUS
      <4>2. Len(lines'[c]) \in Int /\ Len(lines[c]) \in Int
        BY <2>2
      <4>3. QED
        BY <2>2, <3>1, <4>1, <4>2
    <3>3. lines'[c][Len(lines'[c])] = lines[c][Len(lines[c])] /\ lines'[c] # <<>>
      BY <1>1, <3>2, ConsumedFacts
    <3>4. QED
      BY <2>3, <3>3 DEF Moves
  <2>4. CASE sent[c] # <<>> \/ "transient" \in answers[k]
    BY <1>1, <1>4, <2>2, <2>4 DEF Moves
  <2>5. QED
    BY <1>1, <1>2, <1>3, <2>3, <2>4 DEF Moves
<1>9. QED
  BY <1>1, <1>4, <1>5, <1>6, <1>7, <1>8, MovingOnConnection

LEMMA GoneKeepsMoving ==
    ASSUME TypeOK, Books, Once, Moving, NEW c \in Conn,
           fwd_write_failed(c) \/ fwd_quit(c) \/ conn_eof(c)
    PROVE  Moving'
<1>1. /\ Freed(c) /\ UNCHANGED <<sent, peer, answers>>
  BY DEF fwd_write_failed, fwd_quit, conn_eof
<1>2. /\ fwd'[c] = NoFwd
      /\ \A d \in Conn \ {c} : fwd'[d] = fwd[d] /\ lines'[d] = lines[d]
  BY <1>1 DEF Freed, TypeOK
<1>3. c \notin Active'
  BY <1>2 DEF Active
<1>4. QED
  BY <1>1, <1>2, <1>3, MovingOnConnection

\* A connection that is opened waits for the greeting.
LEMMA OpenedIsMoving ==
    ASSUME Once, NEW d \in Unused, NEW l, peer'[d] = Greets(l), lines'[d] = lines[d]
    PROVE  Numbered(d)' /\ Moves(d)'
<1>1. lines[d] = <<>>
  BY DEF Unused, Once, Wire, Active
<1>2. Numbered(d)'
  BY <1>1 DEF Numbered
<1>3. Moves(d)'
  BY DEF Moves, Greets
<1>4. QED
  BY <1>2, <1>3

LEMMA OpeningKeepsMoving ==
    ASSUME TypeOK, Books, Once, Moving,
           \/ \E l \in Letter : fwd_queue(l)
           \/ \E c \in Conn : fwd_failed(c)
    PROVE  Moving'
<1>1. ASSUME NEW l \in Letter, fwd_queue(l) PROVE Moving'
  <2>1. sent' = sent /\ lines' = lines /\ answers' = answers
    BY <1>1, QueueFacts
  <2>2. PICK C \in SUBSET Unused : OpenedOn(C, l, {})
    BY <1>1, QueueFacts
  <2>3. \A d \in C : Numbered(d)' /\ Moves(d)'
    BY <2>2, OpenedIsMoving DEF OpenedOn
  <2>4. PICK D \in SUBSET Conn : D = C
    BY DEF Unused
  <2>5. \A d \in Conn \ D : /\ fwd'[d] = fwd[d] /\ peer'[d] = peer[d]
                            /\ sent'[d] = sent[d] /\ lines'[d] = lines[d]
    BY <2>1, <2>2, <2>4 DEF OpenedOn
  <2>6. QED
    BY <2>1, <2>3, <2>4, <2>5, MovingFrame
<1>2. ASSUME NEW c \in Conn, fwd_failed(c) PROVE Moving'
  <2>1. PICK l \in Letter, r \in Letter : l = fwd[c].letter /\ r = Report(l)
    BY <1>2, SessionOnceFacts, ReportIsLetter DEF fwd_failed, Reads
  <2>2. GivenUp(c, l, r)
    BY <1>2, <2>1, FailedFacts
  <2>3. PICK C \in SUBSET Unused : OpenedOn(C, r, {c})
    BY <2>2 DEF GivenUp
  <2>4. \A d \in C : Numbered(d)' /\ Moves(d)'
    BY <2>3, OpenedIsMoving DEF OpenedOn
  <2>5. PICK D \in SUBSET Conn : D = C \cup {c}
    BY DEF Unused
  <2>6. \A d \in Conn \ D : /\ fwd'[d] = fwd[d] /\ peer'[d] = peer[d]
                            /\ sent'[d] = sent[d] /\ lines'[d] = lines[d]
    BY <2>2, <2>3, <2>5 DEF OpenedOn, GivenUp
  <2>7. \A d \in D : d \in Active' => Numbered(d)' /\ Moves(d)'
    BY <2>2, <2>4, <2>5 DEF GivenUp
  <2>8. answers' = answers
    BY <2>2 DEF GivenUp
  <2>9. QED
    BY <2>6, <2>7, <2>8, MovingFrame
<1>3. QED
  BY <1>1, <1>2

\* A reply: its last line has a number, and a transient one is in the history.
LEMMA RepliedKeepsMoving ==
    ASSUME TypeOK, Books, Once, Moving, NEW c \in Conn, peer[c] # NoPeer,
           NEW code \in Nat \ {0}, Replied(c, code), fwd' = fwd,
           \A d \in Conn \ {c} : peer'[d] = peer[d] /\ sent'[d] = sent[d]
    PROVE  Moving'
<1>1. PICK r \in Seq(Line) :
        /\ ReplyOf(r, code)
        /\ c \in Active => lines'[c] = lines[c] \o r
        /\ c \notin Active => lines'[c] = lines[c]
        /\ \A d \in Conn \ {c} : lines'[d] = lines[d]
        /\ answers' = [answers EXCEPT ![peer[c].letter] = @ \cup Said(code, r)]
  BY RepliedShape
<1>2. peer[c].letter \in Letter /\ lines[c] \in Seq(Line)
  BY OnceFacts
<1>3. /\ \A l \in Letter : answers[l] \subseteq answers'[l]
      /\ code \in 400..499 => "transient" \in answers'[peer[c].letter]
  BY <1>1, <1>2 DEF TypeOK, Said
<1>4. ASSUME c \in Active
      PROVE  Numbered(c)' /\ Moves(c)'
  <2>1. /\ fwd[c].letter = peer[c].letter /\ Numbered(c)
        /\ lines'[c] = lines[c] \o r
    BY <1>1, <1>4, SessionOnceFacts DEF Moving
  <2>2. /\ \A i \in Len(lines[c]) + 1..Len(lines'[c]) : lines'[c][i].code = code
        /\ \A i \in 1..Len(lines[c]) : lines'[c][i] = lines[c][i]
        /\ \A i \in 1..Len(lines'[c]) :
             i \in 1..Len(lines[c]) \/ i \in Len(lines[c]) + 1..Len(lines'[c])
        /\ lines'[c] # <<>> /\ lines'[c][Len(lines'[c])].kind = "last"
    <3>1. Len(r) \in {1, 2} /\ r[Len(r)].kind = "last"
      BY <1>1 DEF ReplyOf
    <3>2. /\ Len(lines'[c]) = Len(lines[c]) + Len(r) /\ Len(lines[c]) \in Nat
          /\ \A i \in 1..Len(lines[c]) : lines'[c][i] = lines[c][i]
          /\ \A i \in Len(lines[c]) + 1..Len(lines'[c]) : lines'[c][i].code = code
          /\ \A i \in 1..Len(r) : lines'[c][Len(lines[c]) + i] = r[i]
      BY <1>1, <1>2, <2>1, AppendedLines DEF ReplyOf
    <3>3. lines'[c][Len(lines'[c])] = r[Len(r)] /\ Len(lines'[c]) > 0
      <4>1. Len(r) \in 1..Len(r) /\ Len(r) \in Nat /\ Len(r) > 0
        <5>1. \A m \in {1, 2} : m \in 1..m /\ m \in Nat /\ m > 0
          OBVIOUS
        <5>2. QED
          BY <3>1, <5>1
      <4>2. lines'[c][Len(lines[c]) + Len(r)] = r[Len(r)]
        BY <3>2, <4>1
      <4>3. Len(lines[c]) + Len(r) > 0
        BY <3>2, <4>1
      <4>4. QED
        BY <3>2, <4>2, <4>3
    <3>4. \A i \in 1..Len(lines'[c]) :
             i \in 1..Len(lines[c]) \/ i \in Len(lines[c]) + 1..Len(lines'[c])
      BY <3>1, <3>2
    <3>5. lines'[c] # <<>>
      BY <3>3
    <3>6. QED
      BY <3>1, <3>2, <3>3, <3>4, <3>5
  <2>3. Numbered(c)'
    <3>1. ASSUME NEW i \in 1..Len(lines'[c])
          PROVE  /\ lines'[c][i].code # 0
                 /\ lines'[c][i].code \in 400..499 =>
                      "transient" \in answers'[fwd'[c].letter]
      <4>1. CASE i \in 1..Len(lines[c])
        BY <1>2, <1>3, <2>1, <2>2, <4>1 DEF Numbered
      <4>2. CASE i \in Len(lines[c]) + 1..Len(lines'[c])
        <5>1. lines'[c][i].code = code /\ code # 0
          BY <2>2, <4>2
        <5>2. fwd'[c].letter = peer[c].letter
          BY <2>1
        <5>3. QED
          BY <1>3, <5>1, <5>2
      <4>3. QED
        BY <2>2, <3>1, <4>1, <4>2
    <3>2. QED
      BY <3>1 DEF Numbered
  <2>4. Moves(c)'
    BY <2>2 DEF Moves
  <2>5. QED
    BY <2>3, <2>4
<1>5. QED
  BY <1>1, <1>3, <1>4, MovingOnConnection DEF Active

LEMMA PeerKeepsMoving ==
    ASSUME TypeOK, Books, Once, Moving, NEW c \in Conn,
           peer_serves(c) \/ peer_hangs_up(c) \/ peer_eof(c)
    PROVE  Moving'
<1>1. /\ peer[c] # NoPeer /\ fwd' = fwd
      /\ \A d \in Conn \ {c} : peer'[d] = peer[d] /\ sent'[d] = sent[d]
  <2>1. CASE peer_greets(c)
    BY <2>1 DEF peer_greets, TypeOK
  <2>2. CASE peer_accepts(c) \/ peer_refuses(c) \/ peer_quits(c)
    BY <2>2 DEF peer_accepts, peer_refuses, peer_quits, TypeOK
  <2>3. CASE peer_hangs_up(c) \/ peer_eof(c)
    BY <2>3 DEF peer_hangs_up, peer_eof, TypeOK
  <2>4. QED
    BY <2>1, <2>2, <2>3 DEF peer_serves
<1>2. CASE \E code \in Nat \ {0} : Replied(c, code)
  BY <1>1, <1>2, RepliedKeepsMoving
<1>3. ASSUME NEW n \in 0..Len(lines[c]), UNCHANGED answers, peer_hangs_up(c),
             lines' = [lines EXCEPT ![c] = SubSeq(@, 1, n)]
      PROVE  Moving'
  <2>1. /\ lines[c] \in Seq(Line) /\ peer'[c].stage = "CLOSED"
        /\ lines'[c] = SubSeq(lines[c], 1, n)
        /\ \A d \in Conn \ {c} : lines'[d] = lines[d]
    BY <1>1, <1>3, OnceFacts DEF peer_hangs_up, TypeOK
  <2>2. /\ Len(lines'[c]) = n
        /\ \A i \in 1..Len(lines'[c]) : i \in 1..Len(lines[c]) /\ lines'[c][i] = lines[c][i]
    BY <2>1, CutLines
  <2>3. ASSUME c \in Active
        PROVE  Numbered(c)' /\ Moves(c)'
    <3>1. Numbered(c)
      BY <2>3 DEF Moving
    <3>2. Numbered(c)'
      BY <1>1, <1>3, <2>2, <3>1 DEF Numbered
    <3>3. Moves(c)'
      BY <2>1 DEF Moves
    <3>4. QED
      BY <3>2, <3>3
  <2>4. QED
    BY <1>1, <1>3, <2>1, <2>3, MovingOnConnection DEF Active
<1>4. CASE peer_eof(c)
  <2>1. c \notin Active' /\ lines' = lines /\ answers' = answers
    BY <1>1, <1>4 DEF peer_eof, Active
  <2>2. QED
    BY <1>1, <2>1, MovingOnConnection
<1>5. ASSUME peer_serves(c)
      PROVE  \E code \in Nat \ {0} : Replied(c, code)
  <2>1. CASE peer_greets(c)
    <3>1. \A code \in {220, 421, 554} : code \in Nat \ {0}
      OBVIOUS
    <3>2. QED
      BY <2>1, <3>1 DEF peer_greets
  <2>2. CASE peer_accepts(c)
    <3>1. Head(sent[c]) \in Commands /\ peer[c].stage \in Stages
      BY <1>1, OnceFacts, FirstCommand, <2>2 DEF peer_accepts
    <3>2. peer[c].stage \in {"HELO", "MAIL", "RCPT", "DATA", "BODY"}
      BY <2>2, <3>1 DEF peer_accepts, Stages, Commands
    <3>3. Success[peer[c].stage] \in Nat \ {0}
      BY <3>2 DEF Success
    <3>4. QED
      BY <2>2, <3>3 DEF peer_accepts
  <2>3. CASE peer_refuses(c)
    <3>1. PICK code \in IF Head(sent[c]) = peer[c].stage THEN {450, 550} ELSE {503} :
            Replied(c, code)
      BY <2>3 DEF peer_refuses
    <3>2. code \in {450, 550, 503}
      BY <3>1
    <3>3. code \in Nat \ {0}
      BY <3>2
    <3>4. QED
      BY <3>1, <3>3
  <2>4. CASE peer_quits(c)
    <3>1. Replied(c, 221) /\ 221 \in Nat \ {0}
      BY <2>4 DEF peer_quits
    <3>2. QED
      BY <3>1
  <2>5. QED
    BY <1>5, <2>1, <2>2, <2>3, <2>4 DEF peer_serves
<1>6. peer_hangs_up(c) /\ Replied(c, 421) => \E code \in Nat \ {0} : Replied(c, code)
  OBVIOUS
<1>7. QED
  BY <1>2, <1>3, <1>4, <1>5, <1>6 DEF peer_hangs_up

LEMMA NextMoving == TypeOK /\ Books /\ Once /\ Moving /\ [Next]_vars => Moving'
<1> SUFFICES ASSUME TypeOK, Books, Once, Moving, [Next]_vars PROVE Moving'
  OBVIOUS
<1>1. \A m \in Message : [mail |-> m, failable |-> TRUE] \in Letter
  BY DEF Letter
<1>2. CASE \E m \in Message : fwd_queue([mail |-> m, failable |-> TRUE])
  BY <1>1, <1>2, OpeningKeepsMoving
<1>3. ASSUME NEW c \in Conn, fwd_process_input(c) \/ conn_eof(c) PROVE Moving'
  BY <1>3, HandledKeepsMoving, GoneKeepsMoving, OpeningKeepsMoving
     DEF fwd_process_input
<1>4. ASSUME NEW c \in Conn, peer_serves(c) \/ peer_hangs_up(c) \/ peer_eof(c)
      PROVE  Moving'
  BY <1>4, PeerKeepsMoving
<1>5. CASE Crash
  BY <1>5 DEF Crash, Active, Moving
<1>6. CASE UNCHANGED vars
  <2>1. PICK C \in SUBSET Conn : C = {}
    OBVIOUS
  <2>2. QED
    BY <1>6, <2>1, MovingFrame DEF vars
<1>7. QED
  BY <1>2, <1>3, <1>4, <1>5, <1>6 DEF Next

\* The two ends wait for each other only after a transient refusal.
THEOREM StallsAreTransient == Spec => []OnlyTransientStalls
<1>1. Init => Moving
  BY InitMoving
<1>2. Books /\ Moving => OnlyTransientStalls
  BY DEF Moving, Moves, OnlyTransientStalls, BothWait
<1>3. QED
  BY <1>1, <1>2, NextMoving, OnceIsKept, PTL DEF Spec

=============================================================================
