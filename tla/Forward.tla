------------------------------- MODULE Forward -------------------------------
(***************************************************************************)
(* The forward module (forward.c): a mail from fwd_queue to the end of its *)
(* session with another mail server, and the error mail it may leave.      *)
(*                                                                         *)
(* A step of the module is one call of fwd_process_input, that is, one     *)
(* line of the other server.  That server is external: it answers each     *)
(* command in order, once, with a reply of one or of two lines, and may    *)
(* hang up at any time.  fwd_trycount is left out: nothing reads it.       *)
(***************************************************************************)
EXTENDS Naturals, Sequences

CONSTANTS Conn,         \* the forward connections open at a time
          Message,      \* the mails that SMTP sessions hand over
          Continuation  \* the lines servers put before the last one of a
                        \* reply: {}, or with "spaces", or in "one_word"

ASSUME ForwardAssumption == Continuation \subseteq {"spaces", "one_word"}

VARIABLES fwd,     \* fwd_mail of every connection: state and letter
          sent,    \* commands on their way to the other server
          lines,   \* lines of its replies that were not handled yet
          peer,    \* its session: the command it expects, and the letter
          fate,    \* history: what became of every letter
          taken,   \* history: how often servers took a letter
          answers  \* history: what else than plain acceptance servers said

vars == <<fwd, sent, lines, peer, fate, taken, answers>>

\* A mail on its way to its recipient, or (not failable) the error mail about
\* it on the way to its sender.
Letter == [mail : Message, failable : BOOLEAN]

Report(l) == [mail |-> l.mail, failable |-> FALSE]

States == {"NEW", "HELO", "MAIL", "RCPT", "DATA", "SEND", "QUIT"}

Stages == {"GREET", "HELO", "MAIL", "RCPT", "DATA", "BODY", "CLOSED"}

Fates == {"none", "queued", "unconnected", "done", "failed", "lost", "crashed"}

Line == [code : Nat, kind : {"last", "spaces", "one_word"}]

\* A descriptor without a session at this end, or at the other.
NoFwd == [state |-> "FREE"]
NoPeer == [stage |-> "NONE"]

Unused == {c \in Conn : fwd[c] = NoFwd /\ peer[c] = NoPeer}

Active == {c \in Conn : fwd[c] # NoFwd}

Init ==
    /\ fwd = [c \in Conn |-> NoFwd]
    /\ sent = [c \in Conn |-> <<>>]
    /\ lines = [c \in Conn |-> <<>>]
    /\ peer = [c \in Conn |-> NoPeer]
    /\ fate = [l \in Letter |-> "none"]
    /\ taken = [l \in Letter |-> 0]
    /\ answers = [l \in Letter |-> {}]

-----------------------------------------------------------------------------
(* Replies.                                                                *)

\* The number before the first space; 0 for a line in one word.
extract_status(line) == IF line.kind = "one_word" THEN 0 ELSE line.code

\* Mutant of check_cmd_reply: a reply that was not expected is passed over.
CheckWaits(line, expected) ==
    LET status == extract_status(line)
    IN  CASE status = expected     -> "R_OK"
          [] status \in 400..499   -> "R_RETRY"
          [] OTHER                 -> "R_NOP"

check_cmd_reply(line, expected) ==
    LET status == extract_status(line)
    IN  CASE status = 0            -> "R_NOP"
          [] status = expected     -> "R_OK"
          [] status \in 400..499   -> "R_RETRY"
          [] OTHER                 -> "R_FAIL"

\* Mutant of Expected: DATA is to be answered like the other commands.
ExpectedAlike == [NEW |-> 220, HELO |-> 250, MAIL |-> 250, RCPT |-> 250,
                  DATA |-> 250, SEND |-> 250, QUIT |-> 221]

\* The reply each state waits for, what is written when it comes, and the
\* state after that; the state a transient refusal leads back to.
Expected == [NEW |-> 220, HELO |-> 250, MAIL |-> 250, RCPT |-> 250,
             DATA |-> 354, SEND |-> 250, QUIT |-> 221]

Command == [NEW |-> "HELO", HELO |-> "MAIL", MAIL |-> "RCPT", RCPT |-> "DATA",
            DATA |-> "BODY", SEND |-> "QUIT"]

Following == [NEW |-> "HELO", HELO |-> "MAIL", MAIL |-> "RCPT",
              RCPT |-> "DATA", DATA |-> "SEND", SEND |-> "QUIT"]

Previous == [HELO |-> "NEW", MAIL |-> "HELO", RCPT |-> "MAIL",
             DATA |-> "RCPT", SEND |-> "DATA"]

\* How the next line of c is taken.  In state NEW a line without a number is
\* as good as the greeting, and there is no second try.
Result(c) ==
    LET st == fwd[c].state
        r  == check_cmd_reply(Head(lines[c]), Expected[st])
    IN  IF st # "NEW" THEN r
        ELSE IF r \in {"R_OK", "R_NOP"} THEN "R_OK" ELSE "R_FAIL"

-----------------------------------------------------------------------------
(* fwd_queue and the end of a connection.                                  *)

Opened(l) == [state |-> "NEW", letter |-> l]
Greets(l) == [stage |-> "GREET", letter |-> l]

\* A mail of an SMTP session.  If no connection comes about, the mail is freed
\* and FWD_FAIL returned.
fwd_queue(l) ==
    /\ fate[l] = "none"
    /\ \/ \E c \in Unused :
            /\ fwd' = [fwd EXCEPT ![c] = Opened(l)]
            /\ peer' = [peer EXCEPT ![c] = Greets(l)]
            /\ fate' = [fate EXCEPT ![l] = "queued"]
       \/ /\ fate' = [fate EXCEPT ![l] = "unconnected"]
          /\ UNCHANGED <<fwd, peer>>
    /\ UNCHANGED <<sent, lines, taken, answers>>

\* Mutant of Freed: the mail is freed, its session stays.
FreedSessionStays(c) ==
    /\ fwd' = [fwd EXCEPT ![c] = [state |-> fwd[c].state]]
    /\ lines' = [lines EXCEPT ![c] = <<>>]

\* The handler returns CONN_QUIT, or the connection ended: fwd_free_mail.
\* What is unread is gone, what is written still arrives.
Freed(c) ==
    /\ fwd' = [fwd EXCEPT ![c] = NoFwd]
    /\ lines' = [lines EXCEPT ![c] = <<>>]

\* Mutant of conn_eof: a mail whose QUIT is not answered counts as lost.
EofLosesDone(c) ==
    /\ c \in Active
    /\ lines[c] = <<>>
    /\ peer[c].stage = "CLOSED"
    /\ Freed(c)
    /\ fate' = [fate EXCEPT ![fwd[c].letter] = "lost"]
    /\ UNCHANGED <<sent, peer, taken, answers>>

\* End of file.  Nobody is told if the mail was still to be sent.
conn_eof(c) ==
    /\ c \in Active
    /\ lines[c] = <<>>
    /\ peer[c].stage = "CLOSED"
    /\ Freed(c)
    /\ fate' = [fate EXCEPT ![fwd[c].letter] = IF @ = "queued" THEN "lost" ELSE @]
    /\ UNCHANGED <<sent, peer, taken, answers>>

-----------------------------------------------------------------------------
(* fwd_process_input.                                                      *)

Reads(c) == c \in Active /\ lines[c] # <<>>

Consumed(c) == lines' = [lines EXCEPT ![c] = Tail(@)]

\* Mutant of fwd_accepted: the mail counts as sent once the body is written.
AcceptedEarly(c) ==
    /\ Reads(c)
    /\ fwd[c].state # "QUIT"
    /\ Result(c) = "R_OK"
    /\ Consumed(c)
    /\ fwd' = [fwd EXCEPT ![c].state = Following[@]]
    /\ sent' = [sent EXCEPT ![c] =
                  IF peer[c].stage = "CLOSED" THEN @
                  ELSE Append(@, Command[fwd[c].state])]
    /\ fate' = [fate EXCEPT ![fwd[c].letter] =
                  IF fwd[c].state = "DATA" THEN "done" ELSE @]
    /\ UNCHANGED <<peer, taken, answers>>

\* The expected reply: write the next command, or the body, and go on.
fwd_accepted(c) ==
    /\ Reads(c)
    /\ fwd[c].state # "QUIT"
    /\ Result(c) = "R_OK"
    /\ Consumed(c)
    /\ fwd' = [fwd EXCEPT ![c].state = Following[@]]
    /\ sent' = [sent EXCEPT ![c] =
                  IF peer[c].stage = "CLOSED" THEN @
                  ELSE Append(@, Command[fwd[c].state])]
    /\ fate' = [fate EXCEPT ![fwd[c].letter] =
                  IF fwd[c].state = "SEND" THEN "done" ELSE @]
    /\ UNCHANGED <<peer, taken, answers>>

\* The expected reply, but the server has closed and the write fails: the
\* mail is dropped.
fwd_write_failed(c) ==
    /\ Reads(c)
    /\ fwd[c].state # "QUIT"
    /\ Result(c) = "R_OK"
    /\ peer[c].stage = "CLOSED"
    /\ Freed(c)
    /\ fate' = [fate EXCEPT ![fwd[c].letter] =
                  IF fwd[c].state = "SEND" THEN "done" ELSE "lost"]
    /\ UNCHANGED <<sent, peer, taken, answers>>

\* A transient refusal: one state back, and nothing is sent.
fwd_retry(c) ==
    /\ Reads(c)
    /\ fwd[c].state # "QUIT"
    /\ Result(c) = "R_RETRY"
    /\ Consumed(c)
    /\ fwd' = [fwd EXCEPT ![c].state = Previous[@]]
    /\ UNCHANGED <<sent, peer, fate, taken, answers>>

\* A line without a number: wait for the next one.
fwd_nop(c) ==
    /\ Reads(c)
    /\ fwd[c].state # "QUIT"
    /\ Result(c) = "R_NOP"
    /\ Consumed(c)
    /\ UNCHANGED <<fwd, sent, peer, fate, taken, answers>>

\* Mutant of fwd_failed: fwd_failable is not looked at.
FailedReportsAlways(c) ==
    LET l == fwd[c].letter
        report == Report(l)
    IN  /\ Reads(c)
        /\ fwd[c].state # "QUIT"
        /\ Result(c) = "R_FAIL"
        /\ lines' = [lines EXCEPT ![c] = <<>>]
        /\ \E d \in Unused :
              /\ fwd' = [fwd EXCEPT ![c] = NoFwd, ![d] = Opened(report)]
              /\ peer' = [peer EXCEPT ![d] = Greets(report)]
        /\ fate' = [fate EXCEPT ![l] = "failed", ![report] = "queued"]
        /\ UNCHANGED <<sent, taken, answers>>

\* Mutant of fwd_failed: the mail is tried again on another connection.
FailedTriesAgain(c) ==
    /\ Reads(c)
    /\ fwd[c].state # "QUIT"
    /\ Result(c) = "R_FAIL"
    /\ lines' = [lines EXCEPT ![c] = <<>>]
    /\ \E d \in Unused :
          /\ fwd' = [fwd EXCEPT ![c] = NoFwd, ![d] = Opened(fwd[c].letter)]
          /\ peer' = [peer EXCEPT ![d] = Greets(fwd[c].letter)]
    /\ UNCHANGED <<sent, fate, taken, answers>>

\* Mutant of fwd_failed: the handler does not return CONN_QUIT.
FailedGoesOn(c) ==
    LET l == fwd[c].letter
        report == Report(l)
    IN  /\ Reads(c)
        /\ fwd[c].state # "QUIT"
        /\ Result(c) = "R_FAIL"
        /\ Consumed(c)
        /\ l.failable
        /\ \E d \in Unused :
              /\ fwd' = [fwd EXCEPT ![c].state = "QUIT", ![d] = Opened(report)]
              /\ peer' = [peer EXCEPT ![d] = Greets(report)]
        /\ fate' = [fate EXCEPT ![report] = "queued"]
        /\ UNCHANGED <<sent, taken, answers>>

\* Any other number ends the attempt, without a QUIT.  A failable mail is
\* returned: fwd_return_failture queues the error mail, whose connection may
\* not come about, before this connection is removed.
fwd_failed(c) ==
    LET l == fwd[c].letter
        report == Report(l)
    IN  /\ Reads(c)
        /\ fwd[c].state # "QUIT"
        /\ Result(c) = "R_FAIL"
        /\ lines' = [lines EXCEPT ![c] = <<>>]
        /\ \/ /\ l.failable
              /\ \E d \in Unused :
                    /\ fwd' = [fwd EXCEPT ![c] = NoFwd, ![d] = Opened(report)]
                    /\ peer' = [peer EXCEPT ![d] = Greets(report)]
              /\ fate' = [fate EXCEPT ![l] = "failed", ![report] = "queued"]
           \/ /\ fwd' = [fwd EXCEPT ![c] = NoFwd]
              /\ fate' = IF l.failable
                           THEN [fate EXCEPT ![l] = "failed",
                                             ![report] = "unconnected"]
                           ELSE [fate EXCEPT ![l] = "failed"]
              /\ UNCHANGED peer
        /\ UNCHANGED <<sent, taken, answers>>

\* After QUIT was sent, any line ends the session.
fwd_quit(c) ==
    /\ Reads(c)
    /\ fwd[c].state = "QUIT"
    /\ Freed(c)
    /\ UNCHANGED <<sent, peer, fate, taken, answers>>

fwd_process_input(c) ==
    \/ fwd_accepted(c) \/ fwd_write_failed(c) \/ fwd_retry(c)
    \/ fwd_nop(c) \/ fwd_failed(c) \/ fwd_quit(c)

\* The process dies or is told to exit: every queued mail is lost.
Crash ==
    /\ Active # {}
    /\ fwd' = [c \in Conn |-> NoFwd]
    /\ lines' = [c \in Conn |-> <<>>]
    /\ fate' = [l \in Letter |-> IF fate[l] = "queued" THEN "crashed" ELSE fate[l]]
    /\ UNCHANGED <<sent, peer, taken, answers>>

-----------------------------------------------------------------------------
(* The other server (external).                                            *)

\* A reply is one line, or two the first of which is a continuation.
Replies(code) ==
    {<<[code |-> code, kind |-> "last"]>>} \cup
    {<<[code |-> code, kind |-> k], [code |-> code, kind |-> "last"]>> :
        k \in Continuation}

\* What the server says in its history: refusals, and replies in several lines.
Said(code, reply) ==
    (IF code \in 400..499 THEN {"transient"} ELSE {}) \cup
    (IF code > 499 THEN {"permanent"} ELSE {}) \cup
    (IF Len(reply) > 1 THEN {"continued"} ELSE {})

\* A reply of c's server; nobody reads it any more if the session is over.
Replied(c, code) ==
    \E reply \in Replies(code) :
        /\ lines' = IF c \in Active THEN [lines EXCEPT ![c] = @ \o reply] ELSE lines
        /\ answers' = [answers EXCEPT ![peer[c].letter] = @ \cup Said(code, reply)]

peer_greets(c) ==
    /\ peer[c] # NoPeer /\ peer[c].stage = "GREET"
    /\ \E code \in {220, 421, 554} :
        /\ Replied(c, code)
        /\ peer' = [peer EXCEPT ![c].stage = IF code = 220 THEN "HELO" ELSE "CLOSED"]
    /\ UNCHANGED <<fwd, sent, fate, taken>>

Success == [HELO |-> 250, MAIL |-> 250, RCPT |-> 250, DATA |-> 354, BODY |-> 250]

AfterSuccess == [HELO |-> "MAIL", MAIL |-> "RCPT", RCPT |-> "DATA",
                 DATA |-> "BODY", BODY |-> "MAIL"]

\* The command it expects, accepted: with the body it takes the mail over.
peer_accepts(c) ==
    /\ peer[c] # NoPeer /\ sent[c] # <<>> /\ Head(sent[c]) = peer[c].stage
    /\ Replied(c, Success[peer[c].stage])
    /\ sent' = [sent EXCEPT ![c] = Tail(@)]
    /\ peer' = [peer EXCEPT ![c].stage = AfterSuccess[@]]
    /\ taken' = [taken EXCEPT ![peer[c].letter] =
                    IF peer[c].stage = "BODY" THEN @ + 1 ELSE @]
    /\ UNCHANGED <<fwd, fate>>

\* That command refused, or another one, which is out of sequence.
peer_refuses(c) ==
    /\ peer[c] # NoPeer /\ sent[c] # <<>>
    /\ Head(sent[c]) # "QUIT" /\ peer[c].stage \notin {"GREET", "CLOSED"}
    /\ \E code \in IF Head(sent[c]) = peer[c].stage THEN {450, 550} ELSE {503} :
        Replied(c, code)
    /\ sent' = [sent EXCEPT ![c] = Tail(@)]
    /\ peer' = [peer EXCEPT ![c].stage = IF @ = "BODY" THEN "MAIL" ELSE @]
    /\ UNCHANGED <<fwd, fate, taken>>

peer_quits(c) ==
    /\ peer[c] # NoPeer /\ sent[c] # <<>> /\ Head(sent[c]) = "QUIT"
    /\ Replied(c, 221)
    /\ sent' = [sent EXCEPT ![c] = <<>>]
    /\ peer' = [peer EXCEPT ![c].stage = "CLOSED"]
    /\ UNCHANGED <<fwd, fate, taken>>

\* It goes away, with or without a 421, and what it said last may be lost.
peer_hangs_up(c) ==
    /\ peer[c] # NoPeer /\ peer[c].stage # "CLOSED"
    /\ \/ /\ \E n \in 0..Len(lines[c]) : lines' = [lines EXCEPT ![c] = SubSeq(@, 1, n)]
          /\ UNCHANGED answers
       \/ Replied(c, 421)
    /\ sent' = [sent EXCEPT ![c] = <<>>]
    /\ peer' = [peer EXCEPT ![c].stage = "CLOSED"]
    /\ UNCHANGED <<fwd, fate, taken>>

\* It has read all that was sent and sees the end of the connection.
peer_eof(c) ==
    /\ peer[c] # NoPeer /\ c \notin Active /\ sent[c] = <<>>
    /\ peer' = [peer EXCEPT ![c] = NoPeer]
    /\ UNCHANGED <<fwd, sent, lines, fate, taken, answers>>

peer_serves(c) ==
    peer_greets(c) \/ peer_accepts(c) \/ peer_refuses(c) \/ peer_quits(c)

-----------------------------------------------------------------------------
Next ==
    \/ \E m \in Message : fwd_queue([mail |-> m, failable |-> TRUE])
    \/ \E c \in Conn : \/ fwd_process_input(c) \/ conn_eof(c)
                       \/ peer_serves(c) \/ peer_hangs_up(c) \/ peer_eof(c)
    \/ Crash

Spec == Init /\ [][Next]_vars

\* The select loop serves every connection, and a server that is there answers.
\* Nothing is assumed of servers that wait: they need not hang up.
FairSpec ==
    /\ Spec
    /\ \A c \in Conn : /\ WF_vars(fwd_process_input(c) \/ conn_eof(c))
                       /\ WF_vars(peer_serves(c))

-----------------------------------------------------------------------------
(* Properties that hold.                                                   *)

Session == [state : States, letter : Letter] \cup {NoFwd}
PeerSession == [stage : Stages, letter : Letter] \cup {NoPeer}

TypeOK ==
    /\ fwd \in [Conn -> Session]
    /\ sent \in [Conn -> Seq({"HELO", "MAIL", "RCPT", "DATA", "BODY", "QUIT"})]
    /\ lines \in [Conn -> Seq(Line)]
    /\ peer \in [Conn -> PeerSession]
    /\ fate \in [Letter -> Fates]
    /\ taken \in [Letter -> Nat]
    /\ answers \in [Letter -> SUBSET {"transient", "permanent", "continued"}]

\* No server takes a mail twice: a body is written once, whatever refusals,
\* split replies and early ends of the connection come in between.
TakenOnce == \A l \in Letter : taken[l] <= 1

\* What the module takes for sent was taken over by a server: the reply it
\* believes is the one to the body, not one to an earlier command.
DoneIsTaken == \A l \in Letter : fate[l] = "done" => taken[l] = 1

\* If no reply about it was split, a mail is given up only because a server
\* refused it, and was not taken over: nobody gets mail and error mail.
FailedIsRefused ==
    \A l \in Letter : fate[l] = "failed" =>
        \/ "continued" \in answers[l]
        \/ taken[l] = 0 /\ answers[l] \cap {"transient", "permanent"} # {}

\* An error mail is about a mail that was given up, and there is none about
\* an error mail: one mail makes at most two letters.
ReportsAreDue ==
    \A m \in Message :
        LET original == [mail |-> m, failable |-> TRUE]
            report == [mail |-> m, failable |-> FALSE]
        IN  fate[report] # "none" <=> fate[original] = "failed"

\* Both ends wait: no command and no reply is under way.
BothWait(c) ==
    /\ c \in Active /\ lines[c] = <<>> /\ sent[c] = <<>>
    /\ peer[c].stage \notin {"GREET", "CLOSED"}

\* Sessions get stuck only by a transient refusal.
OnlyTransientStalls ==
    \A c \in Conn : BothWait(c) => "transient" \in answers[fwd[c].letter]

\* A mail that is queued does not stay so: with a server that answers, it is
\* sent, returned or lost, unless the server said "try again".
QueuedEnds ==
    \A l \in Letter :
        fate[l] = "queued" ~> fate[l] # "queued" \/ "transient" \in answers[l]

=============================================================================
