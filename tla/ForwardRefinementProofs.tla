----------------------- MODULE ForwardRefinementProofs -----------------------
(***************************************************************************)
(* The forward module keeps the promise of Courier, for every number of    *)
(* connections and mails and whatever servers answer.  The part of it that *)
(* ForwardProofs leaves open is shown first: unless a server split a reply *)
(* about it, a mail is given up only because a server refused it, and was  *)
(* not taken over then.                                                    *)
(***************************************************************************)
EXTENDS ForwardProofs, ForwardRefinement

-----------------------------------------------------------------------------
(* Lock step: as long as the replies about a letter have one line, the     *)
(* module never has more than one command under way for it, and knows      *)
(* which one a reply is about.                                             *)

Last(code) == [code |-> code, kind |-> "last"]
OneLine(code) == <<Last(code)>>
TwoLines(code) == <<Last(code), Last(421)>>

\* What the other server is doing while a state waits for its answer, what is
\* under way to it then, and what it does when it has accepted that.
Awaited == [NEW |-> "GREET", HELO |-> "HELO", MAIL |-> "MAIL", RCPT |-> "RCPT",
            DATA |-> "DATA", SEND |-> "BODY", QUIT |-> "MAIL"]

Pending == [NEW |-> <<>>, HELO |-> <<"HELO">>, MAIL |-> <<"MAIL">>,
            RCPT |-> <<"RCPT">>, DATA |-> <<"DATA">>, SEND |-> <<"BODY">>,
            QUIT |-> <<"QUIT">>]

After == [NEW |-> "HELO", HELO |-> "MAIL", MAIL |-> "RCPT", RCPT |-> "DATA",
          DATA |-> "BODY", SEND |-> "MAIL"]

\* The history knows of a refusal with this number.
Recorded(l, code) ==
    \/ code \in {421, 450} /\ "transient" \in answers[l]
    \/ code \in {550, 554} /\ "permanent" \in answers[l]

Asked(c) ==
    /\ peer[c].stage = Awaited[fwd[c].state]
    /\ sent[c] = Pending[fwd[c].state]
    /\ lines[c] = <<>>

Answered(c) ==
    /\ fwd[c].state # "QUIT"
    /\ peer[c].stage = After[fwd[c].state]
    /\ sent[c] = <<>>
    /\ lines[c] = OneLine(Expected[fwd[c].state])

Refused(c) ==
    /\ fwd[c].state \notin {"NEW", "QUIT"}
    /\ peer[c].stage \notin {"GREET", "CLOSED"}
    /\ sent[c] = <<>>
    /\ \E code \in {450, 550} :
        lines[c] = OneLine(code) /\ Recorded(fwd[c].letter, code)

Stalled(c) ==
    /\ fwd[c].state \notin {"SEND", "QUIT"}
    /\ peer[c].stage \notin {"GREET", "CLOSED"}
    /\ sent[c] = <<>>
    /\ lines[c] = <<>>
    /\ "transient" \in answers[fwd[c].letter]

\* Nothing more comes: what is left is at most the answer to the last command,
\* and a 421.
Codes == {220, 221, 250, 354, 421, 450, 550, 554}

LastWords(c, code) ==
    /\ code = Expected[fwd[c].state] \/ Recorded(fwd[c].letter, code)
    /\ \/ lines[c] = OneLine(code)
       \/ /\ lines[c] = TwoLines(code)
          /\ Recorded(fwd[c].letter, 421)

Closed(c) ==
    /\ peer[c].stage = "CLOSED"
    /\ sent[c] = <<>>
    /\ lines[c] = <<>> \/ \E code \in Codes : LastWords(c, code)

\* How the history goes with the state of an active session.
Told(c) ==
    LET n == taken[fwd[c].letter]
    IN  /\ fwd[c].state \notin {"SEND", "QUIT"} => n = 0
        /\ fwd[c].state = "QUIT" => n = 1
        /\ fwd[c].state = "SEND" /\ lines[c] # <<>> =>
              n = IF Head(lines[c]).code = 250 THEN 1 ELSE 0

InStep(c) ==
    /\ Asked(c) \/ Answered(c) \/ Refused(c) \/ Stalled(c) \/ Closed(c)
    /\ Told(c)

\* A reply about l came in several lines; from then on nothing is known.
Split(l) == "continued" \in answers[l]

\* What is still under way on a connection, whether it is active or not.
Channel(c) ==
    /\ sent[c] # <<>> => \E x \in Commands : sent[c] = <<x>>
    /\ fate[peer[c].letter] = "failed" => sent[c] = <<>>

\* What became of a letter.
Outcome(l) ==
    fate[l] = "failed" =>
        taken[l] = 0 /\ answers[l] \cap {"transient", "permanent"} # {}

LockStep ==
    /\ \A c \in Active : ~Split(fwd[c].letter) => InStep(c)
    /\ \A c \in Conn : peer[c] # NoPeer /\ ~Split(peer[c].letter) => Channel(c)
    /\ \A l \in Letter : ~Split(l) => Outcome(l)

LEMMA InitLockStep == Init => LockStep
  BY DEF Init, LockStep, Active, Outcome

\* A step is looked at on the connections C and for the letters K it is about:
\* all others are as they were.
LEMMA LockStepFrame ==
    ASSUME TypeOK, Books, Once, LockStep, NEW C \in SUBSET Conn, NEW K \in SUBSET Letter,
           \A d \in Conn \ C : /\ fwd'[d] = fwd[d] /\ peer'[d] = peer[d]
                               /\ sent'[d] = sent[d] /\ lines'[d] = lines[d]
                               /\ peer[d] # NoPeer => peer[d].letter \notin K,
           \A l \in Letter \ K : /\ fate'[l] = fate[l] /\ taken'[l] = taken[l]
                                 /\ answers'[l] = answers[l],
           \A c \in C : c \in Active' /\ ~Split(fwd[c].letter)' => InStep(c)',
           \A c \in C : peer'[c] # NoPeer /\ ~Split(peer[c].letter)' => Channel(c)',
           \A l \in K : ~Split(l)' => Outcome(l)'
    PROVE  LockStep'
<1>1. ASSUME NEW c \in Active', c \notin C, ~Split(fwd[c].letter)'
      PROVE  InStep(c)'
  <2>1. /\ c \in Conn \ C /\ c \in Active /\ fwd'[c] = fwd[c] /\ peer'[c] = peer[c]
        /\ sent'[c] = sent[c] /\ lines'[c] = lines[c]
    BY <1>1 DEF Active
  <2>2. fwd[c].letter \in Letter \ K
    BY <2>1, SessionOnceFacts
  <2>3. taken'[fwd[c].letter] = taken[fwd[c].letter]
        /\ answers'[fwd[c].letter] = answers[fwd[c].letter]
    BY <2>2
  <2>4. ~Split(fwd[c].letter)
    BY <1>1, <2>1, <2>3 DEF Split
  <2>5. InStep(c)
    BY <2>1, <2>4 DEF LockStep
  <2>6. Told(c)'
    BY <2>1, <2>3, <2>5 DEF InStep, Told
  <2>7. CASE Asked(c)
    BY <2>1, <2>6, <2>7 DEF Asked, InStep
  <2>8. CASE Answered(c)
    BY <2>1, <2>6, <2>8 DEF Answered, InStep
  <2>9. CASE Refused(c)
    BY <2>1, <2>3, <2>6, <2>9 DEF Refused, Recorded, InStep
  <2>10. CASE Stalled(c)
    BY <2>1, <2>3, <2>6, <2>10 DEF Stalled, InStep
  <2>11. CASE Closed(c)
    <3>1. CASE lines[c] = <<>>
      BY <2>1, <2>6, <2>11, <3>1 DEF Closed, InStep
    <3>2. ASSUME NEW code \in Codes, LastWords(c, code)
          PROVE  Closed(c)'
      <4>1. LastWords(c, code)'
        BY <2>1, <2>3, <3>2 DEF LastWords, Recorded
      <4>2. QED
        BY <2>1, <2>11, <4>1 DEF Closed
    <3>3. QED
      BY <2>6, <2>11, <3>1, <3>2 DEF Closed, InStep
  <2>12. QED
    BY <2>5, <2>7, <2>8, <2>9, <2>10, <2>11 DEF InStep
<1>2. ASSUME NEW c \in Conn, c \notin C, peer'[c] # NoPeer, ~Split(peer[c].letter)'
      PROVE  Channel(c)'
  <2>1. peer'[c] = peer[c] /\ sent'[c] = sent[c] /\ peer[c] # NoPeer
    BY <1>2
  <2>2. peer[c].letter \in Letter \ K
    BY <1>2, <2>1, OnceFacts
  <2>3. /\ fate'[peer[c].letter] = fate[peer[c].letter]
        /\ answers'[peer[c].letter] = answers[peer[c].letter]
    BY <2>2
  <2>4. Channel(c)
    BY <1>2, <2>1, <2>3 DEF LockStep, Split
  <2>5. QED
    BY <2>1, <2>3, <2>4 DEF Channel
<1>3. ASSUME NEW l \in Letter, l \notin K, ~Split(l)'
      PROVE  Outcome(l)'
  <2>1. fate'[l] = fate[l] /\ taken'[l] = taken[l] /\ answers'[l] = answers[l]
    BY <1>3
  <2>2. Outcome(l)
    BY <1>3, <2>1 DEF LockStep, Split
  <2>3. QED
    BY <2>1, <2>2 DEF Outcome
<1>4. QED
  BY <1>1, <1>2, <1>3 DEF LockStep, Active

-----------------------------------------------------------------------------
(* Steps about one connection c and its letter k.                          *)

About(c, k) ==
    /\ peer[c] # NoPeer /\ peer[c].letter = k
    /\ \A d \in Conn \ {c} : /\ fwd'[d] = fwd[d] /\ peer'[d] = peer[d]
                             /\ sent'[d] = sent[d] /\ lines'[d] = lines[d]
    /\ \A l \in Letter \ {k} : /\ fate'[l] = fate[l] /\ taken'[l] = taken[l]
                               /\ answers'[l] = answers[l]
    /\ answers[k] \subseteq answers'[k]
    /\ c \in Active' => fwd'[c].letter = k
    /\ peer'[c] # NoPeer => peer'[c].letter = k

\* Such a step is looked at only if it leaves the letter without a split reply.
Unsplit(c, k) == About(c, k) /\ "continued" \notin answers'[k]

\* The part of the invariant that is about them.
Kept(c, k) ==
    /\ c \in Active => InStep(c)
    /\ peer[c] # NoPeer => Channel(c)
    /\ Outcome(k)

LEMMA OneConnection ==
    ASSUME TypeOK, Books, Once, LockStep, NEW c \in Conn, NEW k \in Letter, About(c, k),
           Unsplit(c, k) => Kept(c, k)'
    PROVE  LockStep'
<1>1. \A d \in Conn \ {c} : peer[d] # NoPeer => peer[d].letter # k
  BY DEF Books, Apart, About
<1>2. PICK C \in SUBSET Conn, K \in SUBSET Letter : C = {c} /\ K = {k}
  OBVIOUS
<1>3. /\ \A d \in Conn \ C : /\ fwd'[d] = fwd[d] /\ peer'[d] = peer[d]
                             /\ sent'[d] = sent[d] /\ lines'[d] = lines[d]
                             /\ peer[d] # NoPeer => peer[d].letter \notin K
      /\ \A l \in Letter \ K : /\ fate'[l] = fate[l] /\ taken'[l] = taken[l]
                               /\ answers'[l] = answers[l]
  BY <1>1, <1>2 DEF About
<1>4. ASSUME "continued" \in answers'[k]
      PROVE  /\ c \in Active' => Split(fwd[c].letter)'
             /\ peer'[c] # NoPeer => Split(peer[c].letter)'
             /\ Split(k)'
  BY <1>4 DEF About, Split
<1>5. /\ c \in Active' /\ ~Split(fwd[c].letter)' => InStep(c)'
      /\ peer'[c] # NoPeer /\ ~Split(peer[c].letter)' => Channel(c)'
      /\ ~Split(k)' => Outcome(k)'
  <2>1. CASE "continued" \in answers'[k]
    BY <1>4, <2>1
  <2>2. CASE "continued" \notin answers'[k]
    BY <2>2 DEF Unsplit, Kept
  <2>3. QED
    BY <2>1, <2>2
<1>6. /\ \A d \in C : d \in Active' /\ ~Split(fwd[d].letter)' => InStep(d)'
      /\ \A d \in C : peer'[d] # NoPeer /\ ~Split(peer[d].letter)' => Channel(d)'
      /\ \A l \in K : ~Split(l)' => Outcome(l)'
  BY <1>2, <1>5
<1>7. QED
  BY <1>3, <1>6, LockStepFrame

LEMMA UnsplitFacts ==
    ASSUME TypeOK, Books, Once, LockStep, NEW c \in Conn, NEW k \in Letter, Unsplit(c, k)
    PROVE  /\ peer[c] \in [stage : Stages, letter : Letter] /\ peer[c].stage \in Stages
           /\ peer[c] # NoPeer /\ peer[c].letter = k /\ fate[k] # "none"
           /\ answers[k] \subseteq answers'[k]
           /\ Wire(c) /\ Tally(k) /\ Channel(c) /\ Outcome(k) /\ ~Split(k)
           /\ c \in Active =>
                /\ fwd[c] \in [state : States, letter : Letter]
                /\ fwd[c].letter = k /\ fwd[c].state \in States /\ InStep(c)
<1>1. peer[c] # NoPeer /\ peer[c].letter = k /\ answers[k] \subseteq answers'[k]
  BY DEF Unsplit, About
<1>2. ~Split(k)
  BY <1>1 DEF Split, Unsplit
<1>3. /\ peer[c] \in [stage : Stages, letter : Letter] /\ peer[c].stage \in Stages
      /\ fate[k] # "none" /\ Wire(c) /\ Tally(k)
  BY <1>1, OnceFacts
<1>4. Channel(c) /\ Outcome(k)
  BY <1>1, <1>2 DEF LockStep
<1>5. c \in Active =>
        /\ fwd[c] \in [state : States, letter : Letter]
        /\ fwd[c].letter = k /\ fwd[c].state \in States /\ InStep(c)
  BY <1>1, <1>2, SessionOnceFacts DEF LockStep
<1>6. QED
  BY <1>1, <1>2, <1>3, <1>4, <1>5

-----------------------------------------------------------------------------
(* Lines.                                                                  *)

LEMMA LastIsLine == \A code \in Nat : Last(code) \in Line
  BY DEF Last, Line

LEMMA OneLineFacts ==
    ASSUME NEW code \in Nat
    PROVE  /\ OneLine(code) # <<>>
           /\ Head(OneLine(code)) = Last(code)
           /\ Tail(OneLine(code)) = <<>>
           /\ <<>> \o OneLine(code) = OneLine(code)
<1>1. Last(code) \in Line
  BY LastIsLine
<1>2. OneLine(code) # <<>> /\ Head(OneLine(code)) = Last(code)
  BY <1>1 DEF OneLine
<1>3. Tail(OneLine(code)) = <<>>
  BY <1>1 DEF OneLine
<1>4. OneLine(code) \in Seq(Line)
  BY <1>1 DEF OneLine
<1>5. <<>> \o OneLine(code) = OneLine(code)
  BY <1>4, ConcatEmptySeq
<1>6. QED
  BY <1>2, <1>3, <1>5

LEMMA TwoLinesFacts ==
    ASSUME NEW code \in Nat
    PROVE  /\ TwoLines(code) # <<>>
           /\ Head(TwoLines(code)) = Last(code)
           /\ Tail(TwoLines(code)) = OneLine(421)
           /\ OneLine(code) \o OneLine(421) = TwoLines(code)
<1>1. Last(code) \in Line /\ Last(421) \in Line
  BY LastIsLine
<1>2. TwoLines(code) # <<>> /\ Head(TwoLines(code)) = Last(code)
  BY <1>1 DEF TwoLines
<1>3. Tail(TwoLines(code)) = OneLine(421)
  BY <1>1 DEF TwoLines, OneLine
<1> DEFINE s == OneLine(code) \o OneLine(421)
           t == TwoLines(code)
<1>4. s \in Seq(Line) /\ Len(s) = 2 /\ s[1] = Last(code) /\ s[2] = Last(421)
  BY <1>1 DEF OneLine
<1>5. t \in Seq(Line) /\ Len(t) = 2 /\ t[1] = Last(code) /\ t[2] = Last(421)
  BY <1>1 DEF TwoLines
<1> HIDE DEF s, t
<1>6. Len(s) = Len(t) /\ \A i \in 1..Len(s) : s[i] = t[i]
  BY <1>4, <1>5
<1>7. s = t
  BY <1>4, <1>5, <1>6, SeqEqual
<1>8. QED
  BY <1>2, <1>3, <1>7 DEF s, t

\* What a hang-up may leave of at most one line.
LEMMA Prefixes ==
    ASSUME NEW s \in Seq(Line), NEW n \in 0..Len(s)
    PROVE  /\ s = <<>> => SubSeq(s, 1, n) = <<>>
           /\ \A code \in Nat :
                s = OneLine(code) => SubSeq(s, 1, n) \in {<<>>, OneLine(code)}
<1>1. CASE n = Len(s)
  <2>1. SubSeq(s, 1, n) = s
    BY <1>1, SubSeqFull
  <2>2. QED
    BY <2>1
<1>2. CASE n = 0
  <2>1. SubSeq(s, 1, n) = <<>>
    BY <1>2
  <2>2. QED
    BY <2>1
<1>3. \A code \in Nat : Len(OneLine(code)) = 1
  BY DEF OneLine
<1>4. s = <<>> => n = 0
  OBVIOUS
<1>5. ASSUME NEW code \in Nat, s = OneLine(code)
      PROVE  n = 0 \/ n = Len(s)
  <2>1. Len(s) = 1
    BY <1>3, <1>5
  <2>2. QED
    BY <2>1
<1>6. QED
  BY <1>1, <1>2, <1>4, <1>5

\* What the next line of a session is, and what may come after it.
NextIs(c, code) ==
    /\ Head(lines[c]) = Last(code)
    /\ code = Expected[fwd[c].state] \/ Recorded(fwd[c].letter, code)
    /\ \/ Tail(lines[c]) = <<>>
       \/ /\ Tail(lines[c]) = OneLine(421)
          /\ Recorded(fwd[c].letter, 421)
          /\ peer[c].stage = "CLOSED"
    /\ sent[c] = <<>>
    /\ \/ peer[c].stage = "CLOSED"
       \/ /\ code = Expected[fwd[c].state]
          /\ fwd[c].state # "QUIT"
          /\ peer[c].stage = After[fwd[c].state]
       \/ /\ code \in {450, 550}
          /\ fwd[c].state \notin {"NEW", "QUIT"}
          /\ peer[c].stage \notin {"GREET", "CLOSED"}

LEMMA NextLine ==
    ASSUME TypeOK, Books, Once, LockStep, NEW c \in Conn, Reads(c), ~Split(fwd[c].letter)
    PROVE  \E code \in Codes : NextIs(c, code)
<1>1. /\ c \in Active /\ lines[c] # <<>> /\ fwd[c].state \in States
      /\ InStep(c)
  BY SessionOnceFacts DEF Reads, LockStep
<1>2. CASE Answered(c)
  <2> DEFINE code == Expected[fwd[c].state]
  <2>1. code \in Codes /\ code \in Nat
    BY <1>1 DEF Expected, Codes, States
  <2>2. Head(OneLine(code)) = Last(code) /\ Tail(OneLine(code)) = <<>>
    BY <2>1, OneLineFacts
  <2>3. NextIs(c, code)
    BY <1>2, <2>2 DEF Answered, NextIs
  <2>4. QED
    BY <2>1, <2>3
<1>3. CASE Refused(c)
  <2>1. PICK code \in {450, 550} :
          lines[c] = OneLine(code) /\ Recorded(fwd[c].letter, code)
    BY <1>3 DEF Refused
  <2>2. code \in Codes /\ code \in Nat
    BY DEF Codes
  <2>3. Head(OneLine(code)) = Last(code) /\ Tail(OneLine(code)) = <<>>
    BY <2>2, OneLineFacts
  <2>4. NextIs(c, code)
    BY <1>3, <2>1, <2>3 DEF Refused, NextIs
  <2>5. QED
    BY <2>2, <2>4
<1>4. CASE Closed(c)
  <2>1. PICK code \in Codes : LastWords(c, code)
    BY <1>1, <1>4 DEF Closed
  <2>2. code \in Nat
    BY DEF Codes
  <2>3. /\ Head(OneLine(code)) = Last(code)
        /\ Tail(OneLine(code)) = <<>>
        /\ Head(TwoLines(code)) = Last(code)
        /\ Tail(TwoLines(code)) = OneLine(421)
    BY <2>2, OneLineFacts, TwoLinesFacts
  <2>4. NextIs(c, code)
    <3>1. CASE lines[c] = OneLine(code)
      BY <1>4, <2>1, <2>3, <3>1 DEF Closed, LastWords, NextIs
    <3>2. CASE lines[c] = TwoLines(code)
      BY <1>4, <2>1, <2>2, <2>3, <3>2 DEF Closed, LastWords, NextIs
    <3>3. QED
      BY <2>1, <3>1, <3>2 DEF LastWords
  <2>5. QED
    BY <2>4
<1>5. QED
  BY <1>1, <1>2, <1>3, <1>4 DEF InStep, Asked, Stalled

\* A line of a known number is never passed over, and taken for what it is.
LEMMA ResultFacts ==
    ASSUME NEW c \in Conn, NEW code \in Codes, fwd[c].state \in States,
           Head(lines[c]) = Last(code)
    PROVE  /\ Result(c) # "R_NOP"
           /\ Result(c) = "R_OK" => code = Expected[fwd[c].state]
           /\ Result(c) = "R_RETRY" => code \in {421, 450} /\ fwd[c].state # "NEW"
           /\ Result(c) = "R_FAIL" => code # Expected[fwd[c].state]
<1>1. extract_status(Head(lines[c])) = code
  BY DEF extract_status, Last
<1>2. code \in Nat /\ code # 0
  BY DEF Codes
<1>3. code \in 400..499 <=> code \in {421, 450}
  BY DEF Codes
<1>3a. Expected[fwd[c].state] \in {220, 250, 354, 221}
  BY DEF Expected, States
<1>4. check_cmd_reply(Head(lines[c]), Expected[fwd[c].state]) =
        IF code = Expected[fwd[c].state] THEN "R_OK"
        ELSE IF code \in {421, 450} THEN "R_RETRY" ELSE "R_FAIL"
  BY <1>1, <1>2, <1>3, <1>3a DEF check_cmd_reply
<1>5. QED
  BY <1>4 DEF Result

-----------------------------------------------------------------------------
(* What the module does.                                                   *)

LEMMA AcceptedKeepsStep ==
    ASSUME TypeOK, Books, Once, LockStep, NEW c \in Conn, NEW l \in Letter,
           Unsplit(c, l), fwd_accepted(c)
    PROVE  Kept(c, l)'
<1>1. /\ c \in Active /\ lines[c] # <<>> /\ Result(c) = "R_OK" /\ Reads(c)
      /\ fwd[c] \in [state : States, letter : Letter] /\ fwd[c].letter = l
      /\ peer[c].letter = l /\ InStep(c) /\ Channel(c) /\ Outcome(l)
      /\ ~Split(l) /\ fate[l] = "queued"
  BY UnsplitFacts DEF fwd_accepted, Reads, Books, Owned
<1>2. PICK st \in States \ {"QUIT"} : st = fwd[c].state
  BY <1>1 DEF fwd_accepted
<1>3. PICK code \in Codes : NextIs(c, code)
  BY <1>1, NextLine
<1>4. code = Expected[st]
  BY <1>1, <1>2, <1>3, ResultFacts DEF NextIs
<1>5. /\ fwd'[c].state = Following[st] /\ fwd'[c].letter = l
      /\ lines'[c] = Tail(lines[c])
      /\ fate'[l] = IF st = "SEND" THEN "done" ELSE "queued"
      /\ peer' = peer /\ taken' = taken /\ answers' = answers
  BY <1>1, <1>2 DEF fwd_accepted, Consumed, TypeOK
<1>6. sent'[c] = IF peer[c].stage = "CLOSED" THEN <<>> ELSE <<Command[st]>>
  BY <1>2, <1>3 DEF fwd_accepted, NextIs, TypeOK
<1>7. \/ lines'[c] = <<>>
      \/ /\ lines'[c] = OneLine(421)
         /\ Recorded(l, 421)
         /\ peer[c].stage = "CLOSED"
  BY <1>1, <1>3, <1>5 DEF NextIs
<1>8. ASSUME peer[c].stage = "CLOSED"
      PROVE  Closed(c)'
  <2>1. lines'[c] = <<>> \/ LastWords(c, 421)'
    BY <1>5, <1>7 DEF LastWords, Recorded
  <2>2. QED
    BY <1>5, <1>6, <1>8, <2>1 DEF Closed, Codes
<1>9. ASSUME peer[c].stage # "CLOSED"
      PROVE  Asked(c)'
  <2>1. lines'[c] = <<>>
    BY <1>7, <1>9
  <2>2. peer[c].stage = After[st]
    <3>1. code \notin {450, 550}
      BY <1>4 DEF Expected, States
    <3>2. QED
      BY <1>2, <1>3, <1>9, <3>1 DEF NextIs
  <2>3. Awaited[Following[st]] = After[st] /\ Pending[Following[st]] = <<Command[st]>>
    BY DEF Awaited, Following, After, Pending, Command, States
  <2>4. QED
    BY <1>5, <1>6, <1>9, <2>1, <2>2, <2>3 DEF Asked
<1>10. taken[l] = IF st = "SEND" THEN 1 ELSE 0
  <2>1. st = "SEND" => Head(lines[c]).code = 250
    BY <1>3, <1>4 DEF NextIs, Expected, Last
  <2>2. QED
    BY <1>1, <1>2, <2>1 DEF InStep, Told
<1>11. Told(c)'
  <2>1. /\ Following[st] = "QUIT" <=> st = "SEND"
        /\ Following[st] = "SEND" <=> st = "DATA"
    BY DEF Following, States
  <2>2. lines'[c] # <<>> => Head(lines'[c]).code = 421
    BY <1>7, OneLineFacts DEF Last
  <2>3. QED
    BY <1>5, <1>10, <2>1, <2>2 DEF Told
<1>12. Channel(c)'
  <2>1. Command[st] \in Commands
    BY DEF Command, Commands, States
  <2>2. QED
    BY <1>1, <1>5, <1>6, <2>1 DEF Channel
<1>13. Outcome(l)'
  BY <1>5 DEF Outcome
<1>14. InStep(c)'
  BY <1>8, <1>9, <1>11 DEF InStep
<1>15. QED
  BY <1>12, <1>13, <1>14 DEF Kept

LEMMA RetryKeepsStep ==
    ASSUME TypeOK, Books, Once, LockStep, NEW c \in Conn, NEW l \in Letter,
           Unsplit(c, l), fwd_retry(c)
    PROVE  Kept(c, l)'
<1>1. /\ c \in Active /\ lines[c] # <<>> /\ Result(c) = "R_RETRY" /\ Reads(c)
      /\ fwd[c] \in [state : States, letter : Letter] /\ fwd[c].letter = l
      /\ peer[c].letter = l /\ InStep(c) /\ Channel(c) /\ Outcome(l)
      /\ ~Split(l)
  BY UnsplitFacts DEF fwd_retry, Reads
<1>2. PICK st \in States \ {"QUIT"} : st = fwd[c].state
  BY <1>1 DEF fwd_retry
<1>3. PICK code \in Codes : NextIs(c, code)
  BY <1>1, NextLine
<1>4. code \in {421, 450} /\ st # "NEW"
  BY <1>1, <1>2, <1>3, ResultFacts DEF NextIs
<1>5. code # Expected[st]
  BY <1>4 DEF Expected, States
<1>6. /\ fwd'[c].state = Previous[st] /\ fwd'[c].letter = l
      /\ lines'[c] = Tail(lines[c]) /\ sent'[c] = <<>> /\ sent' = sent
      /\ peer' = peer /\ taken' = taken /\ answers' = answers /\ fate' = fate
  BY <1>1, <1>2, <1>3 DEF fwd_retry, Consumed, TypeOK, NextIs
<1>7. Previous[st] \in States \ {"SEND", "QUIT"}
  BY <1>4 DEF Previous, States
<1>8. taken[l] = 0
  <2>1. Head(lines[c]).code # 250
    BY <1>3, <1>4 DEF NextIs, Last
  <2>2. QED
    BY <1>1, <1>2, <2>1 DEF InStep, Told
<1>9. "transient" \in answers[l]
  BY <1>1, <1>2, <1>3, <1>4, <1>5 DEF NextIs, Recorded
<1>10. ASSUME peer[c].stage = "CLOSED"
       PROVE  Closed(c)'
  <2>1. lines'[c] = <<>> \/ LastWords(c, 421)'
    BY <1>1, <1>3, <1>6 DEF NextIs, LastWords, Recorded
  <2>2. QED
    BY <1>6, <1>10, <2>1 DEF Closed, Codes
<1>11. ASSUME peer[c].stage # "CLOSED"
       PROVE  Stalled(c)'
  <2>1. peer[c].stage # "GREET" /\ lines'[c] = <<>>
    BY <1>2, <1>3, <1>5, <1>6, <1>11 DEF NextIs
  <2>2. QED
    BY <1>6, <1>7, <1>9, <1>11, <2>1 DEF Stalled
<1>12. Told(c)'
  BY <1>6, <1>7, <1>8 DEF Told
<1>13. Channel(c)' /\ Outcome(l)'
  BY <1>1, <1>6 DEF Channel, Outcome
<1>14. InStep(c)'
  BY <1>10, <1>11, <1>12 DEF InStep
<1>15. QED
  BY <1>13, <1>14 DEF Kept

LEMMA NeverPassedOver ==
    ASSUME TypeOK, Books, Once, LockStep, NEW c \in Conn, NEW l \in Letter, Unsplit(c, l)
    PROVE  ~fwd_nop(c)
<1> SUFFICES ASSUME fwd_nop(c) PROVE FALSE
  OBVIOUS
<1>1. Reads(c) /\ fwd[c].state \in States /\ fwd[c].letter = l /\ ~Split(l)
  BY UnsplitFacts DEF fwd_nop, Reads
<1>2. PICK code \in Codes : NextIs(c, code)
  BY <1>1, NextLine
<1>3. QED
  BY <1>1, <1>2, ResultFacts DEF fwd_nop, NextIs

\* A session that ends, but not because its mail was given up.
LEMMA GoneKeepsStep ==
    ASSUME TypeOK, Books, Once, LockStep, NEW c \in Conn, NEW l \in Letter,
           Unsplit(c, l), fwd_write_failed(c) \/ fwd_quit(c) \/ conn_eof(c)
    PROVE  Kept(c, l)'
<1>1. /\ c \in Active /\ Freed(c) /\ UNCHANGED <<sent, peer, taken, answers>>
      /\ fwd[c].letter = l /\ peer[c].letter = l /\ Channel(c)
  BY UnsplitFacts DEF fwd_write_failed, fwd_quit, conn_eof, Reads
<1>2. c \notin Active'
  BY <1>1 DEF Freed, TypeOK, Active
<1>3. fate[l] \in {"queued", "done"}
  BY <1>1 DEF Books, Owned
<1>4. fate'[l] # "failed"
  BY <1>1, <1>3 DEF fwd_write_failed, fwd_quit, conn_eof, TypeOK
<1>5. Channel(c)' /\ Outcome(l)'
  BY <1>1, <1>4 DEF Channel, Outcome
<1>6. QED
  BY <1>2, <1>5 DEF Kept

\* A session that has just been opened waits for the greeting.
LEMMA OpenedIsAsked ==
    ASSUME TypeOK, Books, Once, NEW d \in Unused, NEW l \in Letter, fate[l] = "none",
           fwd'[d] = Opened(l), peer'[d] = Greets(l), fate'[l] = "queued",
           sent' = sent, taken' = taken, lines'[d] = lines[d]
    PROVE  InStep(d)' /\ Channel(d)'
<1>1. d \in Conn /\ sent[d] = <<>> /\ lines[d] = <<>> /\ taken[l] = 0
  BY DEF Unused, Once, Wire, Tally, Active
<1>2. /\ fwd'[d].state = "NEW" /\ fwd'[d].letter = l
      /\ peer'[d].stage = "GREET" /\ peer'[d].letter = l
  BY DEF Opened, Greets
<1>3. Asked(d)'
  BY <1>1, <1>2 DEF Asked, Awaited, Pending
<1>4. Told(d)'
  BY <1>1, <1>2 DEF Told
<1>5. Channel(d)'
  BY <1>1, <1>2 DEF Channel
<1>6. QED
  BY <1>3, <1>4, <1>5 DEF InStep

LEMMA QueueKeepsStep ==
    ASSUME TypeOK, Books, Once, LockStep, NEW l \in Letter, fwd_queue(l)
    PROVE  LockStep'
<1>1. /\ fate[l] = "none" /\ fate'[l] \in {"queued", "unconnected"}
      /\ \A k \in Letter \ {l} : fate'[k] = fate[k]
      /\ sent' = sent /\ lines' = lines /\ taken' = taken /\ answers' = answers
      /\ \A d \in Conn : peer[d] # NoPeer => peer[d].letter # l
  BY QueueFacts
<1>2. PICK C \in SUBSET Unused : OpenedOn(C, l, {})
  BY QueueFacts
<1>3. \A d \in C : InStep(d)' /\ Channel(d)'
  BY <1>1, <1>2, OpenedIsAsked DEF OpenedOn
<1>4. Outcome(l)'
  BY <1>1 DEF Outcome
<1>5. PICK D \in SUBSET Conn, K \in SUBSET Letter : D = C /\ K = {l}
  BY DEF Unused
<1>6. \A d \in Conn \ D : /\ fwd'[d] = fwd[d] /\ peer'[d] = peer[d]
                          /\ sent'[d] = sent[d] /\ lines'[d] = lines[d]
                          /\ peer[d] # NoPeer => peer[d].letter \notin K
  BY <1>1, <1>2, <1>5 DEF OpenedOn
<1>7. \A k \in Letter \ K : /\ fate'[k] = fate[k] /\ taken'[k] = taken[k]
                            /\ answers'[k] = answers[k]
  BY <1>1, <1>5
<1>8. /\ \A d \in D : d \in Active' /\ ~Split(fwd[d].letter)' => InStep(d)'
      /\ \A d \in D : peer'[d] # NoPeer /\ ~Split(peer[d].letter)' => Channel(d)'
      /\ \A k \in K : ~Split(k)' => Outcome(k)'
  BY <1>3, <1>4, <1>5
<1>9. QED
  BY <1>6, <1>7, <1>8, LockStepFrame

\* The heart of the matter: the line that makes the module give a mail up is a
\* refusal, and the mail was not taken over.
LEMMA GivenUpUntaken ==
    ASSUME TypeOK, Books, Once, LockStep, NEW c \in Conn, NEW l \in Letter,
           fwd_failed(c), l = fwd[c].letter, ~Split(l)
    PROVE  /\ sent[c] = <<>> /\ taken[l] = 0
           /\ answers[l] \cap {"transient", "permanent"} # {}
<1>1. /\ c \in Active /\ Reads(c) /\ lines[c] # <<>> /\ Result(c) = "R_FAIL"
      /\ fwd[c].state # "QUIT"
  BY DEF fwd_failed, Reads
<1>2. fwd[c].state \in States /\ InStep(c)
  BY <1>1, SessionOnceFacts DEF LockStep
<1>3. PICK code \in Codes : NextIs(c, code)
  BY <1>1, NextLine
<1>4. code # Expected[fwd[c].state]
  BY <1>1, <1>2, <1>3, ResultFacts DEF NextIs
<1>5. answers[l] \cap {"transient", "permanent"} # {} /\ sent[c] = <<>>
  BY <1>3, <1>4 DEF NextIs, Recorded
<1>6. taken[l] = 0
  <2>1. fwd[c].state = "SEND" => Head(lines[c]).code # 250
    BY <1>3, <1>4 DEF NextIs, Last, Expected
  <2>2. QED
    BY <1>1, <1>2, <2>1 DEF InStep, Told
<1>7. QED
  BY <1>5, <1>6

LEMMA FailedKeepsStep ==
    ASSUME TypeOK, Books, Once, LockStep, NEW c \in Conn, fwd_failed(c)
    PROVE  LockStep'
<1>1. PICK l \in Letter, r \in Letter : l = fwd[c].letter /\ r = Report(l)
  BY SessionOnceFacts, ReportIsLetter DEF fwd_failed, Reads
<1>2. GivenUp(c, l, r)
  BY <1>1, FailedFacts
<1>3. PICK C \in SUBSET Unused : OpenedOn(C, r, {c})
  BY <1>2 DEF GivenUp
<1>4. \A d \in C : InStep(d)' /\ Channel(d)'
  BY <1>2, <1>3, OpenedIsAsked DEF GivenUp, OpenedOn
<1>5. ~Split(l)' => Channel(c)' /\ Outcome(l)'
  <2> SUFFICES ASSUME ~Split(l)' PROVE Channel(c)' /\ Outcome(l)'
    OBVIOUS
  <2>1. ~Split(l)
    BY <1>2 DEF GivenUp, Split
  <2>2. /\ sent[c] = <<>> /\ taken[l] = 0
        /\ answers[l] \cap {"transient", "permanent"} # {}
    BY <1>1, <2>1, GivenUpUntaken
  <2>3. QED
    BY <1>2, <2>2 DEF GivenUp, Channel, Outcome
<1>6. r # l => Outcome(r)'
  BY <1>2 DEF GivenUp, Outcome
<1>7. PICK D \in SUBSET Conn, K \in SUBSET Letter : D = C \cup {c} /\ K = {l, r}
  BY DEF Unused
<1>8. \A d \in Conn \ D : /\ fwd'[d] = fwd[d] /\ peer'[d] = peer[d]
                          /\ sent'[d] = sent[d] /\ lines'[d] = lines[d]
                          /\ peer[d] # NoPeer => peer[d].letter \notin K
  BY <1>2, <1>3, <1>7 DEF GivenUp, OpenedOn
<1>9. \A k \in Letter \ K : /\ fate'[k] = fate[k] /\ taken'[k] = taken[k]
                            /\ answers'[k] = answers[k]
  BY <1>2, <1>7 DEF GivenUp
<1>10. peer'[c].letter = l /\ c \notin Active'
  BY <1>2 DEF GivenUp
<1>11. /\ \A d \in D : d \in Active' /\ ~Split(fwd[d].letter)' => InStep(d)'
       /\ \A d \in D : peer'[d] # NoPeer /\ ~Split(peer[d].letter)' => Channel(d)'
       /\ \A k \in K : ~Split(k)' => Outcome(k)'
  <2>1. \A d \in D : d \in Active' => InStep(d)'
    BY <1>4, <1>7, <1>10
  <2>2. ~Split(peer[c].letter)' => ~Split(l)'
    BY <1>10 DEF Split
  <2>3. \A d \in D : ~Split(peer[d].letter)' => Channel(d)'
    BY <1>4, <1>5, <1>7, <2>2
  <2>4. \A k \in K : ~Split(k)' => Outcome(k)'
    BY <1>5, <1>6, <1>7
  <2>5. QED
    BY <2>1, <2>3, <2>4
<1>12. QED
  BY <1>8, <1>9, <1>11, LockStepFrame

LEMMA CrashKeepsStep ==
    ASSUME TypeOK, Books, Once, LockStep, Crash
    PROVE  LockStep'
<1>1. Active' = {}
  BY DEF Crash, Active
<1>2. /\ sent' = sent /\ peer' = peer /\ taken' = taken /\ answers' = answers
      /\ \A l \in Letter : fate'[l] = "failed" => fate[l] = "failed"
  BY DEF Crash, TypeOK
<1>3. ASSUME NEW c \in Conn, peer'[c] # NoPeer, ~Split(peer[c].letter)'
      PROVE  Channel(c)'
  <2>1. Channel(c) /\ peer[c].letter \in Letter
    BY <1>2, <1>3, OnceFacts DEF LockStep, Split
  <2>2. QED
    BY <1>2, <2>1 DEF Channel
<1>4. ASSUME NEW l \in Letter, ~Split(l)'
      PROVE  Outcome(l)'
  <2>1. Outcome(l)
    BY <1>2, <1>4 DEF LockStep, Split
  <2>2. QED
    BY <1>2, <2>1 DEF Outcome
<1>5. QED
  BY <1>1, <1>3, <1>4 DEF LockStep

-----------------------------------------------------------------------------
(* What the other servers do.                                              *)

\* A reply of one line, as the end that reads it and the history see it.
Heard(c, k, code) ==
    /\ c \notin Active => lines' = lines
    /\ c \in Active /\ lines[c] = <<>> => lines'[c] = OneLine(code)
    /\ \A m \in Codes : c \in Active /\ lines[c] = OneLine(m) /\ code = 421 =>
                          lines'[c] = TwoLines(m)
    /\ code \in {421, 450} => "transient" \in answers'[k]
    /\ code \in {550, 554} => "permanent" \in answers'[k]

\* If the letter is still without a split reply, this one was not split.
LEMMA RepliedOneLine ==
    ASSUME TypeOK, NEW c \in Conn, NEW k \in Letter, Unsplit(c, k),
           NEW code \in Nat, Replied(c, code)
    PROVE  Heard(c, k, code)
<1>1. PICK reply \in Replies(code) :
        /\ lines' = IF c \in Active THEN [lines EXCEPT ![c] = @ \o reply] ELSE lines
        /\ answers' = [answers EXCEPT ![peer[c].letter] = @ \cup Said(code, reply)]
  BY DEF Replied
<1>2. answers'[k] = answers[k] \cup Said(code, reply)
  BY <1>1 DEF Unsplit, About, TypeOK
<1>3. reply = OneLine(code)
  <2>1. ~(Len(reply) > 1)
    BY <1>2 DEF Unsplit, Said
  <2>2. ASSUME NEW kind \in Continuation,
               reply = <<[code |-> code, kind |-> kind], [code |-> code, kind |-> "last"]>>
        PROVE  FALSE
    <3>1. Len(reply) = 2
      BY <2>2
    <3>2. QED
      BY <2>1, <3>1
  <2>3. QED
    BY <2>2 DEF Replies, OneLine, Last
<1>4. code \in {421, 450} => "transient" \in Said(code, reply)
  <2>1. code \in {421, 450} => code \in 400..499
    OBVIOUS
  <2>2. QED
    BY <2>1 DEF Said
<1>5. code \in {550, 554} => "permanent" \in Said(code, reply)
  <2>1. code \in {550, 554} => code > 499
    OBVIOUS
  <2>2. QED
    BY <2>1 DEF Said
<1>6. c \in Active => lines'[c] = lines[c] \o OneLine(code)
  BY <1>1, <1>3 DEF TypeOK
<1>7. c \in Active /\ lines[c] = <<>> => lines'[c] = OneLine(code)
  BY <1>6, OneLineFacts
<1>8. ASSUME NEW m \in Codes, c \in Active, lines[c] = OneLine(m), code = 421
      PROVE  lines'[c] = TwoLines(m)
  <2>1. m \in Nat
    BY DEF Codes
  <2>2. QED
    BY <1>6, <1>8, <2>1, TwoLinesFacts
<1>9. QED
  BY <1>1, <1>2, <1>4, <1>5, <1>7, <1>8 DEF Heard

\* What is under way to the server is the one command that is awaited.
LEMMA UnderWay ==
    ASSUME TypeOK, Books, Once, LockStep, NEW c \in Conn, NEW k \in Letter,
           Unsplit(c, k), sent[c] # <<>>
    PROVE  /\ \E x \in Commands : sent[c] = <<x>> /\ Head(sent[c]) = x
           /\ Tail(sent[c]) = <<>>
           /\ c \in Active =>
                /\ Asked(c) /\ fwd[c].state # "NEW"
                /\ Head(sent[c]) = "QUIT" <=> fwd[c].state = "QUIT"
                /\ fwd[c].state # "QUIT" => Head(sent[c]) = peer[c].stage
<1>1. PICK x \in Commands : sent[c] = <<x>>
  BY UnsplitFacts DEF Channel
<1>2. Head(<<x>>) = x /\ Tail(<<x>>) = <<>>
  OBVIOUS
<1>3. ASSUME c \in Active
      PROVE  /\ Asked(c) /\ fwd[c].state # "NEW"
             /\ x = "QUIT" <=> fwd[c].state = "QUIT"
             /\ fwd[c].state # "QUIT" => x = peer[c].stage
  <2>1. Asked(c) /\ fwd[c].state \in States
    BY <1>3, UnsplitFacts DEF InStep, Answered, Refused, Stalled, Closed
  <2>2. <<x>> = Pending[fwd[c].state]
    BY <1>1, <2>1 DEF Asked
  <2>3. fwd[c].state # "NEW" /\ x = Pending[fwd[c].state][1]
    BY <2>1, <2>2 DEF Pending, States
  <2>4. x = [HELO |-> "HELO", MAIL |-> "MAIL", RCPT |-> "RCPT", DATA |-> "DATA",
             SEND |-> "BODY", QUIT |-> "QUIT"][fwd[c].state]
    BY <2>1, <2>3 DEF Pending, States
  <2>5. QED
    BY <2>1, <2>3, <2>4 DEF Asked, Awaited, States
<1>4. QED
  BY <1>1, <1>2, <1>3

\* The frame of a step of a server: what is left to show is about this end.
LEMMA PeerStep ==
    ASSUME TypeOK, Books, Once, LockStep, NEW c \in Conn, NEW k \in Letter, Unsplit(c, k),
           fwd' = fwd, fate' = fate,
           sent'[c] # <<>> => sent'[c] = sent[c],
           taken'[k] # taken[k] => sent[c] # <<>>,
           c \in Active => InStep(c)'
    PROVE  Kept(c, k)'
<1>1. /\ peer[c].letter = k /\ answers[k] \subseteq answers'[k]
      /\ Channel(c) /\ Outcome(k)
  BY UnsplitFacts
<1>2. peer'[c] # NoPeer => peer'[c].letter = k
  BY DEF Unsplit, About
<1>3. peer'[c] # NoPeer => Channel(c)'
  BY <1>1, <1>2 DEF Channel
<1>4. Outcome(k)'
  <2> SUFFICES ASSUME fate[k] = "failed"
               PROVE  taken'[k] = 0 /\ answers'[k] \cap {"transient", "permanent"} # {}
    BY DEF Outcome
  <2>1. sent[c] = <<>>
    BY <1>1 DEF Channel
  <2>2. QED
    BY <1>1, <2>1 DEF Outcome
<1>5. QED
  BY <1>3, <1>4 DEF Kept, Active

LEMMA GreetingKeepsStep ==
    ASSUME TypeOK, Books, Once, LockStep, NEW c \in Conn, NEW k \in Letter,
           Unsplit(c, k), peer_greets(c)
    PROVE  Kept(c, k)'
<1>1. /\ peer[c].stage = "GREET"
      /\ fwd' = fwd /\ sent' = sent /\ fate' = fate /\ taken' = taken
      /\ peer[c] \in [stage : Stages, letter : Letter]
  BY UnsplitFacts DEF peer_greets
<1>2. PICK code \in {220, 421, 554} :
        /\ Replied(c, code)
        /\ peer' = [peer EXCEPT ![c].stage = IF code = 220 THEN "HELO" ELSE "CLOSED"]
  BY DEF peer_greets
<1>3. Heard(c, k, code)
  <2>1. Replied(c, code) /\ code \in Nat
    BY <1>2
  <2>2. QED
    BY <2>1, RepliedOneLine
<1>4. peer'[c].stage = IF code = 220 THEN "HELO" ELSE "CLOSED"
  BY <1>1, <1>2 DEF TypeOK
<1>5. ASSUME c \in Active
      PROVE  InStep(c)'
  <2>1. fwd[c].letter = k /\ fwd[c].state \in States /\ InStep(c)
    BY <1>5, UnsplitFacts
  <2>2. Asked(c) /\ fwd[c].state = "NEW"
    BY <1>1, <2>1 DEF InStep, Asked, Answered, Refused, Stalled, Closed, After,
                      Awaited, States
  <2>3. lines'[c] = OneLine(code) /\ sent'[c] = <<>>
    BY <1>1, <1>3, <1>5, <2>2 DEF Asked, Pending, Heard
  <2>4. Told(c)'
    BY <1>1, <2>1, <2>2 DEF InStep, Told
  <2>5. CASE code = 220
    <3>1. Answered(c)'
      BY <1>1, <1>4, <2>2, <2>3, <2>5 DEF Answered, After, Expected
    <3>2. QED
      BY <2>4, <3>1 DEF InStep
  <2>6. CASE code # 220
    <3>1. Recorded(fwd[c].letter, code)'
      BY <1>1, <1>2, <1>3, <2>1, <2>6 DEF Recorded, Heard
    <3>2. LastWords(c, code)'
      BY <2>3, <3>1 DEF LastWords
    <3>3. Closed(c)'
      BY <1>2, <1>4, <2>3, <2>6, <3>2 DEF Closed, Codes
    <3>4. QED
      BY <2>4, <3>3 DEF InStep
  <2>7. QED
    BY <2>5, <2>6
<1>6. QED
  BY <1>1, <1>5, PeerStep

LEMMA AcceptanceKeepsStep ==
    ASSUME TypeOK, Books, Once, LockStep, NEW c \in Conn, NEW k \in Letter,
           Unsplit(c, k), peer_accepts(c)
    PROVE  Kept(c, k)'
<1>1. /\ sent[c] # <<>> /\ Head(sent[c]) = peer[c].stage
      /\ fwd' = fwd /\ fate' = fate /\ Replied(c, Success[peer[c].stage])
      /\ peer[c] \in [stage : Stages, letter : Letter] /\ peer[c].letter = k
      /\ peer[c].stage \in Stages /\ Wire(c) /\ Tally(k)
  BY UnsplitFacts DEF peer_accepts
<1>2. PICK x \in Commands : sent[c] = <<x>> /\ Head(sent[c]) = x
  BY <1>1, UnderWay
<1>3. PICK g \in {"HELO", "MAIL", "RCPT", "DATA", "BODY"} :
        g = peer[c].stage /\ sent[c] = <<g>> /\ Head(sent[c]) = g
  BY <1>1, <1>2 DEF Commands, Stages
<1>4. Heard(c, k, Success[g])
  <2>1. Success[g] \in Nat /\ Replied(c, Success[g])
    BY <1>1, <1>3 DEF Success
  <2>2. QED
    BY <2>1, RepliedOneLine
<1>5. peer'[c].stage = AfterSuccess[g] /\ sent'[c] = <<>>
  BY <1>1, <1>3, UnderWay DEF peer_accepts, TypeOK
<1>6. taken'[k] = IF g = "BODY" THEN 1 ELSE taken[k]
  <2>1. taken' = [taken EXCEPT ![k] = IF g = "BODY" THEN @ + 1 ELSE @]
    BY <1>1, <1>3 DEF peer_accepts
  <2>2. g = "BODY" => taken[k] = 0
    BY <1>1, <1>3, FirstCommand DEF Times
  <2>3. QED
    BY <2>1, <2>2 DEF TypeOK
<1>7. ASSUME c \in Active
      PROVE  InStep(c)'
  <2>1. /\ fwd[c].letter = k /\ Asked(c) /\ InStep(c)
        /\ fwd[c].state \in States
    BY <1>1, <1>7, UnsplitFacts, UnderWay
  <2>2. PICK st \in States \ {"NEW", "QUIT"} : st = fwd[c].state
    BY <1>1, <1>3, <1>7, <2>1, UnderWay
  <2>3. g = Awaited[st] /\ lines[c] = <<>>
    BY <1>3, <2>1, <2>2 DEF Asked
  <2>4. AfterSuccess[g] = After[st] /\ Success[g] = Expected[st]
    BY <2>3 DEF Awaited, AfterSuccess, After, Success, Expected, States
  <2>5. lines'[c] = OneLine(Expected[st])
    BY <1>4, <1>7, <2>3, <2>4 DEF Heard
  <2>6. Answered(c)'
    BY <1>1, <1>5, <2>2, <2>4, <2>5 DEF Answered
  <2>7. Told(c)'
    <3>1. CASE st = "SEND"
      <4>1. g = "BODY" /\ Expected[st] = 250
        BY <2>3, <3>1 DEF Awaited, Expected
      <4>2. Head(lines'[c]).code = 250
        BY <2>5, <4>1, OneLineFacts DEF Last
      <4>3. fwd'[c].state = "SEND" /\ fwd'[c].letter = k /\ taken'[k] = 1
        BY <1>1, <1>6, <2>1, <2>2, <3>1, <4>1
      <4>4. QED
        BY <4>2, <4>3 DEF Told
    <3>2. CASE st # "SEND"
      <4>1. g # "BODY"
        BY <2>3, <3>2 DEF Awaited, States
      <4>2. QED
        BY <1>1, <1>6, <2>1, <2>2, <3>2, <4>1 DEF InStep, Told
    <3>3. QED
      BY <3>1, <3>2
  <2>8. QED
    BY <2>6, <2>7 DEF InStep
<1>8. QED
  BY <1>1, <1>5, <1>7, PeerStep

LEMMA RefusalKeepsStep ==
    ASSUME TypeOK, Books, Once, LockStep, NEW c \in Conn, NEW k \in Letter,
           Unsplit(c, k), peer_refuses(c)
    PROVE  Kept(c, k)'
<1>1. /\ sent[c] # <<>> /\ Head(sent[c]) # "QUIT"
      /\ peer[c].stage \notin {"GREET", "CLOSED"}
      /\ fwd' = fwd /\ fate' = fate /\ taken' = taken
      /\ peer[c] \in [stage : Stages, letter : Letter] /\ peer[c].letter = k
      /\ Wire(c)
  BY UnsplitFacts DEF peer_refuses
<1>2. peer'[c].stage \notin {"GREET", "CLOSED"}
  <2>1. peer'[c].stage = IF peer[c].stage = "BODY" THEN "MAIL" ELSE peer[c].stage
    BY <1>1 DEF peer_refuses, TypeOK
  <2>2. QED
    BY <1>1, <2>1
<1>3. sent'[c] = <<>>
  BY <1>1, UnderWay DEF peer_refuses, TypeOK
<1>4. PICK code \in {450, 550, 503} :
        Replied(c, code) /\ (Head(sent[c]) = peer[c].stage => code \in {450, 550})
  <2>1. PICK code \in IF Head(sent[c]) = peer[c].stage THEN {450, 550} ELSE {503} :
          Replied(c, code)
    BY DEF peer_refuses
  <2>2. QED
    BY <2>1
<1>5. Heard(c, k, code)
  <2>1. Replied(c, code) /\ code \in Nat
    BY <1>4
  <2>2. QED
    BY <2>1, RepliedOneLine
<1>6. ASSUME c \in Active
      PROVE  InStep(c)'
  <2>1. /\ fwd[c].letter = k /\ Asked(c) /\ fwd[c].state \notin {"NEW", "QUIT"}
        /\ Head(sent[c]) = peer[c].stage /\ InStep(c)
    BY <1>1, <1>6, UnsplitFacts, UnderWay
  <2>2. code \in {450, 550} /\ lines'[c] = OneLine(code)
    BY <1>4, <1>5, <1>6, <2>1 DEF Asked, Heard
  <2>3. Recorded(fwd[c].letter, code)'
    BY <1>1, <1>5, <2>1, <2>2 DEF Recorded, Heard
  <2>4. Refused(c)'
    BY <1>1, <1>2, <1>3, <2>1, <2>2, <2>3 DEF Refused
  <2>5. Told(c)'
    <3>1. Head(lines'[c]).code # 250
      BY <2>2, OneLineFacts DEF Last
    <3>2. fwd[c].state = "SEND" => taken[k] = 0
      <4>1. fwd[c].state = "SEND" => Head(sent[c]) = "BODY"
        BY <2>1 DEF Asked, Awaited
      <4>2. QED
        BY <1>1, <4>1, FirstCommand DEF Times
    <3>3. fwd[c].state # "SEND" => taken[k] = 0
      BY <2>1 DEF InStep, Told
    <3>4. QED
      BY <1>1, <2>1, <3>1, <3>2, <3>3 DEF Told
  <2>6. QED
    BY <2>4, <2>5 DEF InStep
<1>7. QED
  BY <1>1, <1>3, <1>6, PeerStep

LEMMA QuittingKeepsStep ==
    ASSUME TypeOK, Books, Once, LockStep, NEW c \in Conn, NEW k \in Letter,
           Unsplit(c, k), peer_quits(c)
    PROVE  Kept(c, k)'
<1>1. /\ sent[c] # <<>> /\ Head(sent[c]) = "QUIT" /\ Replied(c, 221)
      /\ fwd' = fwd /\ fate' = fate /\ taken' = taken
      /\ peer[c] \in [stage : Stages, letter : Letter]
  BY UnsplitFacts DEF peer_quits
<1>2. peer'[c].stage = "CLOSED" /\ sent'[c] = <<>>
  BY <1>1 DEF peer_quits, TypeOK
<1>3. Heard(c, k, 221)
  BY <1>1, RepliedOneLine
<1>4. ASSUME c \in Active
      PROVE  InStep(c)'
  <2>1. Asked(c) /\ fwd[c].state = "QUIT" /\ fwd[c].letter = k /\ InStep(c)
    BY <1>1, <1>4, UnsplitFacts, UnderWay
  <2>2. lines'[c] = OneLine(221)
    BY <1>3, <1>4, <2>1 DEF Heard, Asked
  <2>3. LastWords(c, 221)'
    BY <1>1, <2>1, <2>2 DEF LastWords, Expected
  <2>4. Closed(c)'
    BY <1>2, <2>3 DEF Closed, Codes
  <2>5. Told(c)'
    BY <1>1, <2>1 DEF InStep, Told
  <2>6. QED
    BY <2>4, <2>5 DEF InStep
<1>5. QED
  BY <1>1, <1>2, <1>4, PeerStep

\* A server that may still hang up has at most one line unread.
LEMMA AtMostOneUnread ==
    ASSUME TypeOK, Books, Once, LockStep, NEW c \in Conn, NEW k \in Letter,
           Unsplit(c, k), c \in Active, peer[c].stage # "CLOSED"
    PROVE  \/ /\ lines[c] = <<>>
              /\ fwd[c].state = "SEND" => taken[k] = 0
           \/ \E code \in Codes :
                /\ lines[c] = OneLine(code)
                /\ code = Expected[fwd[c].state] \/ Recorded(fwd[c].letter, code)
<1>1. /\ InStep(c) /\ fwd[c].state \in States /\ fwd[c].letter = k
      /\ peer[c].letter = k /\ Wire(c)
  BY UnsplitFacts
<1>2. CASE Asked(c)
  <2>1. ASSUME fwd[c].state = "SEND"
        PROVE  taken[k] = 0
    <3>1. sent[c] = <<"BODY">>
      BY <1>2, <2>1 DEF Asked, Pending
    <3>2. sent[c] # <<>> /\ Head(sent[c]) = "BODY"
      BY <3>1
    <3>3. QED
      BY <1>1, <3>2, FirstCommand DEF Times
  <2>2. QED
    BY <1>2, <2>1 DEF Asked
<1>3. CASE Answered(c)
  <2>1. Expected[fwd[c].state] \in Codes
    BY <1>1 DEF Expected, Codes, States
  <2>2. QED
    BY <1>3, <2>1 DEF Answered
<1>4. CASE Refused(c)
  BY <1>4 DEF Refused, Codes
<1>5. CASE Stalled(c)
  BY <1>5 DEF Stalled
<1>6. QED
  BY <1>1, <1>2, <1>3, <1>4, <1>5 DEF InStep, Closed

\* What it said last may be lost.
LEMMA CutOffKeepsStep ==
    ASSUME TypeOK, Books, Once, LockStep, NEW c \in Conn, NEW k \in Letter,
           Unsplit(c, k), c \in Active, peer[c].stage # "CLOSED",
           NEW n \in 0..Len(lines[c]), lines'[c] = SubSeq(lines[c], 1, n),
           answers' = answers, fwd' = fwd, taken' = taken,
           peer'[c].stage = "CLOSED", sent'[c] = <<>>
    PROVE  InStep(c)'
<1>1. fwd[c].letter = k /\ InStep(c)
  BY UnsplitFacts
<1>2. lines[c] \in Seq(Line)
  BY DEF TypeOK
<1>3. lines[c] = <<>> => lines'[c] = <<>>
  BY <1>2, Prefixes
<1>4. CASE lines'[c] = <<>>
  <2>1. Closed(c)'
    BY <1>4 DEF Closed
  <2>2. Told(c)'
    BY <1>1, <1>4 DEF InStep, Told
  <2>3. QED
    BY <2>1, <2>2 DEF InStep
<1>5. CASE lines'[c] # <<>>
  <2>1. PICK code \in Codes :
          /\ lines[c] = OneLine(code)
          /\ code = Expected[fwd[c].state] \/ Recorded(fwd[c].letter, code)
    BY <1>3, <1>5, AtMostOneUnread
  <2>2. code \in Nat
    BY DEF Codes
  <2>3. lines'[c] = OneLine(code)
    BY <1>2, <1>5, <2>1, <2>2, Prefixes
  <2>4. LastWords(c, code)'
    BY <2>1, <2>3 DEF LastWords, Recorded
  <2>5. Closed(c)'
    BY <2>4 DEF Closed
  <2>6. Told(c)'
    BY <1>1, <2>1, <2>3 DEF InStep, Told
  <2>7. QED
    BY <2>5, <2>6 DEF InStep
<1>6. QED
  BY <1>4, <1>5

\* It goes with a 421.
LEMMA FarewellKeepsStep ==
    ASSUME TypeOK, Books, Once, LockStep, NEW c \in Conn, NEW k \in Letter,
           Unsplit(c, k), c \in Active, peer[c].stage # "CLOSED",
           Heard(c, k, 421), fwd' = fwd, taken' = taken,
           peer'[c].stage = "CLOSED", sent'[c] = <<>>
    PROVE  InStep(c)'
<1>1. fwd[c].letter = k /\ InStep(c) /\ answers[k] \subseteq answers'[k]
  BY UnsplitFacts
<1>2. Recorded(fwd[c].letter, 421)'
  BY <1>1 DEF Heard, Recorded
<1>3. CASE lines[c] = <<>>
  <2>1. lines'[c] = OneLine(421)
    BY <1>3 DEF Heard
  <2>2. LastWords(c, 421)'
    BY <1>2, <2>1 DEF LastWords
  <2>3. Closed(c)'
    BY <2>2 DEF Closed, Codes
  <2>4. Head(lines'[c]).code = 421
    BY <2>1, OneLineFacts DEF Last
  <2>5. fwd[c].state = "SEND" => taken[k] = 0
    <3>1. \A code \in Codes : lines[c] # OneLine(code)
      BY <1>3, OneLineFacts DEF Codes
    <3>2. QED
      BY <3>1, AtMostOneUnread
  <2>6. Told(c)'
    BY <1>1, <2>4, <2>5 DEF InStep, Told
  <2>7. QED
    BY <2>3, <2>6 DEF InStep
<1>4. CASE lines[c] # <<>>
  <2>1. PICK code \in Codes :
          /\ lines[c] = OneLine(code)
          /\ code = Expected[fwd[c].state] \/ Recorded(fwd[c].letter, code)
    BY <1>4, AtMostOneUnread
  <2>2. code \in Nat
    BY DEF Codes
  <2>3. lines'[c] = TwoLines(code)
    BY <2>1 DEF Heard
  <2>4. Recorded(fwd[c].letter, code) => Recorded(fwd[c].letter, code)'
    BY <1>1 DEF Recorded
  <2>5. LastWords(c, code)'
    BY <1>2, <2>1, <2>3, <2>4 DEF LastWords
  <2>6. Closed(c)'
    BY <2>5 DEF Closed
  <2>7. Head(lines'[c]) = Head(lines[c])
    BY <2>1, <2>2, <2>3, OneLineFacts, TwoLinesFacts
  <2>8. Told(c)'
    BY <1>1, <1>4, <2>7 DEF InStep, Told
  <2>9. QED
    BY <2>6, <2>8 DEF InStep
<1>5. QED
  BY <1>3, <1>4

LEMMA HangUpKeepsStep ==
    ASSUME TypeOK, Books, Once, LockStep, NEW c \in Conn, NEW k \in Letter,
           Unsplit(c, k), peer_hangs_up(c)
    PROVE  Kept(c, k)'
<1>1. /\ peer[c].stage # "CLOSED"
      /\ fwd' = fwd /\ fate' = fate /\ taken' = taken
      /\ peer[c] \in [stage : Stages, letter : Letter]
  BY UnsplitFacts DEF peer_hangs_up
<1>2. peer'[c].stage = "CLOSED" /\ sent'[c] = <<>>
  BY <1>1 DEF peer_hangs_up, TypeOK
<1>3. ASSUME c \in Active
      PROVE  InStep(c)'
  <2>1. ASSUME NEW n \in 0..Len(lines[c]),
               lines' = [lines EXCEPT ![c] = SubSeq(@, 1, n)], answers' = answers
        PROVE  InStep(c)'
    <3>1. lines'[c] = SubSeq(lines[c], 1, n)
      BY <2>1 DEF TypeOK
    <3>2. QED
      BY <1>1, <1>2, <1>3, <2>1, <3>1, CutOffKeepsStep
  <2>2. ASSUME Replied(c, 421)
        PROVE  InStep(c)'
    <3>1. Heard(c, k, 421)
      BY <2>2, RepliedOneLine
    <3>2. QED
      BY <1>1, <1>2, <1>3, <3>1, FarewellKeepsStep
  <2>3. QED
    BY <2>1, <2>2 DEF peer_hangs_up
<1>4. QED
  BY <1>1, <1>2, <1>3, PeerStep

LEMMA PeerEofKeepsStep ==
    ASSUME TypeOK, Books, Once, LockStep, NEW c \in Conn, NEW k \in Letter,
           Unsplit(c, k), peer_eof(c)
    PROVE  Kept(c, k)'
<1>1. /\ c \notin Active /\ sent' = sent
      /\ fwd' = fwd /\ fate' = fate /\ taken' = taken
  BY DEF peer_eof
<1>2. QED
  BY <1>1, PeerStep

-----------------------------------------------------------------------------
(* Which connection and which letter a step is about.                      *)

\* A line that is handled, or the end of a connection.
LEMMA HandledIsAbout ==
    ASSUME TypeOK, Books, Once, NEW c \in Conn,
           \/ fwd_accepted(c) \/ fwd_write_failed(c) \/ fwd_retry(c)
           \/ fwd_nop(c) \/ fwd_quit(c) \/ conn_eof(c)
    PROVE  \E k \in Letter : About(c, k)
<1>1. c \in Active
  BY DEF fwd_accepted, fwd_write_failed, fwd_retry, fwd_nop, fwd_quit, conn_eof, Reads
<1>2. PICK k \in Letter : k = fwd[c].letter
  BY <1>1, SessionOnceFacts
<1>3. /\ peer[c] # NoPeer /\ peer[c].letter = k
      /\ fwd[c] \in [state : States, letter : Letter]
  BY <1>1, <1>2, SessionOnceFacts
<1>4. sent' = sent \/ fwd_accepted(c)
  BY DEF fwd_write_failed, fwd_retry, fwd_nop, fwd_quit, conn_eof
<1>5. \A d \in Conn \ {c} : sent'[d] = sent[d]
  BY <1>4 DEF fwd_accepted, TypeOK
<1>6. peer' = peer /\ taken' = taken /\ answers' = answers
  BY DEF fwd_accepted, fwd_write_failed, fwd_retry, fwd_nop, fwd_quit, conn_eof
<1>7. \A d \in Conn \ {c} : fwd'[d] = fwd[d] /\ lines'[d] = lines[d]
  <2>1. lines' = [lines EXCEPT ![c] = Tail(@)] \/ lines' = [lines EXCEPT ![c] = <<>>]
    BY DEF fwd_accepted, fwd_write_failed, fwd_retry, fwd_nop, fwd_quit, conn_eof,
           Consumed, Freed
  <2>2. \/ fwd' = [fwd EXCEPT ![c].state = Following[@]]
        \/ fwd' = [fwd EXCEPT ![c].state = Previous[@]]
        \/ fwd' = [fwd EXCEPT ![c] = NoFwd] \/ fwd' = fwd
    BY DEF fwd_accepted, fwd_write_failed, fwd_retry, fwd_nop, fwd_quit, conn_eof, Freed
  <2>3. QED
    BY <2>1, <2>2 DEF TypeOK
<1>8. \A l \in Letter \ {k} : fate'[l] = fate[l]
  BY <1>2 DEF fwd_accepted, fwd_write_failed, fwd_retry, fwd_nop, fwd_quit, conn_eof,
              TypeOK
<1>9. c \in Active' => fwd'[c].letter = k
  <2>1. \/ fwd' = [fwd EXCEPT ![c].state = Following[@]]
        \/ fwd' = [fwd EXCEPT ![c].state = Previous[@]]
        \/ fwd' = [fwd EXCEPT ![c] = NoFwd] \/ fwd' = fwd
    BY DEF fwd_accepted, fwd_write_failed, fwd_retry, fwd_nop, fwd_quit, conn_eof, Freed
  <2>2. CASE fwd' = [fwd EXCEPT ![c] = NoFwd]
    BY <2>2 DEF TypeOK, Active
  <2>3. CASE fwd' # [fwd EXCEPT ![c] = NoFwd]
    BY <1>2, <1>3, <2>1, <2>3 DEF TypeOK
  <2>4. QED
    BY <2>2, <2>3
<1>10. About(c, k)
  BY <1>3, <1>5, <1>6, <1>7, <1>8, <1>9 DEF About
<1>11. QED
  BY <1>10

\* What a reply changes.
LEMMA RepliedIsAbout ==
    ASSUME TypeOK, NEW c \in Conn, NEW code \in Nat, Replied(c, code),
           NEW k \in Letter, peer[c].letter = k
    PROVE  /\ \A d \in Conn \ {c} : lines'[d] = lines[d]
           /\ \A l \in Letter \ {k} : answers'[l] = answers[l]
           /\ answers[k] \subseteq answers'[k]
<1>1. PICK reply \in Replies(code) :
        /\ lines' = IF c \in Active THEN [lines EXCEPT ![c] = @ \o reply] ELSE lines
        /\ answers' = [answers EXCEPT ![k] = @ \cup Said(code, reply)]
  BY DEF Replied
<1>2. \A d \in Conn \ {c} : lines'[d] = lines[d]
  BY <1>1 DEF TypeOK
<1>3. QED
  BY <1>1, <1>2 DEF TypeOK

\* Whatever the other server does.
LEMMA ServedIsAbout ==
    ASSUME TypeOK, Books, Once, NEW c \in Conn,
           peer_serves(c) \/ peer_hangs_up(c) \/ peer_eof(c)
    PROVE  \E k \in Letter : About(c, k)
<1>1. peer[c] # NoPeer /\ fwd' = fwd /\ fate' = fate
  BY DEF peer_serves, peer_greets, peer_accepts, peer_refuses, peer_quits,
         peer_hangs_up, peer_eof
<1>2. PICK k \in Letter : k = peer[c].letter
  BY <1>1, OnceFacts
<1>3. peer[c] \in [stage : Stages, letter : Letter] /\ peer[c].stage \in Stages
  BY <1>1, OnceFacts
<1>4. \/ \E code \in Nat : Replied(c, code)
      \/ lines' = lines /\ answers' = answers
      \/ \E n \in 0..Len(lines[c]) :
           lines' = [lines EXCEPT ![c] = SubSeq(@, 1, n)] /\ answers' = answers
  <2>1. CASE peer_greets(c)
    BY <2>1 DEF peer_greets
  <2>2. CASE peer_accepts(c)
    <3>1. Replied(c, Success[peer[c].stage]) /\ Head(sent[c]) = peer[c].stage
      BY <2>2 DEF peer_accepts
    <3>2. peer[c].stage \notin {"GREET", "CLOSED"}
      BY <2>2, OnceFacts, FirstCommand DEF peer_accepts, Commands
    <3>3. Success[peer[c].stage] \in Nat
      BY <1>3, <3>2 DEF Success, Stages
    <3>4. QED
      BY <3>1, <3>3
  <2>3. CASE peer_refuses(c)
    <3>1. PICK code \in IF Head(sent[c]) = peer[c].stage THEN {450, 550} ELSE {503} :
            Replied(c, code)
      BY <2>3 DEF peer_refuses
    <3>2. QED
      BY <3>1
  <2>4. CASE peer_quits(c)
    BY <2>4 DEF peer_quits
  <2>5. CASE peer_hangs_up(c)
    BY <2>5 DEF peer_hangs_up
  <2>6. CASE peer_eof(c)
    BY <2>6 DEF peer_eof
  <2>7. QED
    BY <2>1, <2>2, <2>3, <2>4, <2>5, <2>6 DEF peer_serves
<1>5. /\ \A d \in Conn \ {c} : lines'[d] = lines[d]
      /\ \A l \in Letter \ {k} : answers'[l] = answers[l]
      /\ answers[k] \subseteq answers'[k]
  <2>1. CASE \E code \in Nat : Replied(c, code)
    BY <1>2, <2>1, RepliedIsAbout
  <2>2. CASE lines' = lines /\ answers' = answers
    BY <2>2
  <2>3. CASE \E n \in 0..Len(lines[c]) :
           lines' = [lines EXCEPT ![c] = SubSeq(@, 1, n)] /\ answers' = answers
    BY <2>3 DEF TypeOK
  <2>4. QED
    BY <1>4, <2>1, <2>2, <2>3
<1>6. \A d \in Conn \ {c} : peer'[d] = peer[d]
  BY DEF peer_serves, peer_greets, peer_accepts, peer_refuses, peer_quits,
         peer_hangs_up, peer_eof, TypeOK
<1>7. \A d \in Conn \ {c} : sent'[d] = sent[d]
  BY DEF peer_serves, peer_greets, peer_accepts, peer_refuses, peer_quits,
         peer_hangs_up, peer_eof, TypeOK
<1>8. \A l \in Letter \ {k} : taken'[l] = taken[l]
  BY <1>2 DEF peer_serves, peer_greets, peer_accepts, peer_refuses, peer_quits,
              peer_hangs_up, peer_eof, TypeOK
<1>9. peer'[c] # NoPeer => peer'[c].letter = k
  BY <1>2, <1>3 DEF peer_serves, peer_greets, peer_accepts, peer_refuses, peer_quits,
                    peer_hangs_up, peer_eof, TypeOK
<1>10. c \in Active' => fwd'[c].letter = k
  <2>1. c \in Active' => c \in Active
    BY <1>1 DEF Active
  <2>2. QED
    BY <1>1, <1>2, <2>1, SessionOnceFacts
<1>11. About(c, k)
  BY <1>1, <1>2, <1>5, <1>6, <1>7, <1>8, <1>9, <1>10 DEF About
<1>12. QED
  BY <1>11

-----------------------------------------------------------------------------
(* The next-state relation.                                                *)

LEMMA HandledKeepsStep ==
    ASSUME TypeOK, Books, Once, LockStep, NEW c \in Conn,
           \/ fwd_accepted(c) \/ fwd_write_failed(c) \/ fwd_retry(c)
           \/ fwd_nop(c) \/ fwd_quit(c) \/ conn_eof(c)
    PROVE  LockStep'
<1>1. PICK k \in Letter : About(c, k)
  BY HandledIsAbout
<1>2. ASSUME Unsplit(c, k)
      PROVE  Kept(c, k)'
  <2>1. CASE fwd_accepted(c)
    BY <1>2, <2>1, AcceptedKeepsStep
  <2>2. CASE fwd_retry(c)
    BY <1>2, <2>2, RetryKeepsStep
  <2>3. CASE fwd_nop(c)
    BY <1>2, <2>3, NeverPassedOver
  <2>4. CASE fwd_write_failed(c) \/ fwd_quit(c) \/ conn_eof(c)
    BY <1>2, <2>4, GoneKeepsStep
  <2>5. QED
    BY <2>1, <2>2, <2>3, <2>4
<1>3. QED
  BY <1>1, <1>2, OneConnection

LEMMA ServedKeepsStep ==
    ASSUME TypeOK, Books, Once, LockStep, NEW c \in Conn,
           peer_serves(c) \/ peer_hangs_up(c) \/ peer_eof(c)
    PROVE  LockStep'
<1>1. PICK k \in Letter : About(c, k)
  BY ServedIsAbout
<1>2. ASSUME Unsplit(c, k)
      PROVE  Kept(c, k)'
  <2>1. CASE peer_greets(c)
    BY <1>2, <2>1, GreetingKeepsStep
  <2>2. CASE peer_accepts(c)
    BY <1>2, <2>2, AcceptanceKeepsStep
  <2>3. CASE peer_refuses(c)
    BY <1>2, <2>3, RefusalKeepsStep
  <2>4. CASE peer_quits(c)
    BY <1>2, <2>4, QuittingKeepsStep
  <2>5. CASE peer_hangs_up(c)
    BY <1>2, <2>5, HangUpKeepsStep
  <2>6. CASE peer_eof(c)
    BY <1>2, <2>6, PeerEofKeepsStep
  <2>7. QED
    BY <2>1, <2>2, <2>3, <2>4, <2>5, <2>6 DEF peer_serves
<1>3. QED
  BY <1>1, <1>2, OneConnection

LEMMA NextLockStep == TypeOK /\ Books /\ Once /\ LockStep /\ [Next]_vars => LockStep'
<1> SUFFICES ASSUME TypeOK, Books, Once, LockStep, [Next]_vars PROVE LockStep'
  OBVIOUS
<1>1. ASSUME NEW m \in Message, fwd_queue([mail |-> m, failable |-> TRUE])
      PROVE  LockStep'
  <2>1. [mail |-> m, failable |-> TRUE] \in Letter
    BY DEF Letter
  <2>2. QED
    BY <1>1, <2>1, QueueKeepsStep
<1>2. ASSUME NEW c \in Conn, fwd_process_input(c) PROVE LockStep'
  <2>1. CASE fwd_failed(c)
    BY <2>1, FailedKeepsStep
  <2>2. CASE ~fwd_failed(c)
    BY <1>2, <2>2, HandledKeepsStep DEF fwd_process_input
  <2>3. QED
    BY <2>1, <2>2
<1>3. ASSUME NEW c \in Conn, conn_eof(c) PROVE LockStep'
  BY <1>3, HandledKeepsStep
<1>4. ASSUME NEW c \in Conn, peer_serves(c) \/ peer_hangs_up(c) \/ peer_eof(c)
      PROVE  LockStep'
  BY <1>4, ServedKeepsStep
<1>5. CASE Crash
  BY <1>5, CrashKeepsStep
<1>6. CASE UNCHANGED vars
  <2>1. PICK C \in SUBSET Conn, K \in SUBSET Letter : C = {} /\ K = {}
    OBVIOUS
  <2>2. QED
    BY <1>6, <2>1, LockStepFrame DEF vars
<1>7. QED
  BY <1>1, <1>2, <1>3, <1>4, <1>5, <1>6 DEF Next

LEMMA LockStepIsKept == Spec => []LockStep
<1>1. Init => LockStep
  BY InitLockStep
<1>2. TypeOK /\ Books /\ Once /\ LockStep /\ [Next]_vars => LockStep'
  BY NextLockStep
<1>3. QED
  BY <1>1, <1>2, OnceIsKept, PTL DEF Spec

\* If no reply about it was split, a mail is given up only because a server
\* refused it, and was not taken over: nobody gets a mail and the error mail
\* about it, whatever is said about other mails.
THEOREM GivenUpIsRefused == Spec => []FailedIsRefused
<1>1. LockStep => FailedIsRefused
  BY DEF LockStep, Split, Outcome, FailedIsRefused
<1>2. QED
  BY <1>1, LockStepIsKept, PTL

-----------------------------------------------------------------------------
(* Nobody answers about a letter for which there was no connection.        *)

Reached ==
    \A c \in Conn : peer[c] # NoPeer =>
        fate[peer[c].letter] \notin {"none", "unconnected"}

LEMMA InitReached == Init => Reached
  BY DEF Init, Reached

\* A session of a server is an old one, or one for a letter that was queued with
\* it; and only a letter that was new can have remained without one.
LEMMA ReachedFrame ==
    ASSUME TypeOK, Books, Reached,
           \A c \in Conn : peer'[c] # NoPeer =>
              \/ peer[c] # NoPeer /\ peer'[c].letter = peer[c].letter
              \/ fate'[peer'[c].letter] = "queued",
           \A l \in Letter : fate[l] \notin {"none", "unconnected"} =>
              fate'[l] \notin {"none", "unconnected"}
    PROVE  Reached'
<1> SUFFICES ASSUME NEW c \in Conn, peer'[c] # NoPeer
             PROVE  fate'[peer'[c].letter] \notin {"none", "unconnected"}
  BY DEF Reached
<1>1. CASE peer[c] # NoPeer /\ peer'[c].letter = peer[c].letter
  <2>1. peer[c].letter \in Letter
    BY <1>1, SessionFacts DEF TypeOK
  <2>2. QED
    BY <1>1, <2>1 DEF Reached
<1>2. CASE fate'[peer'[c].letter] = "queued"
  BY <1>2
<1>3. QED
  BY <1>1, <1>2

LEMMA OpeningKeepsReached ==
    ASSUME TypeOK, Books, Reached, NEW l \in Letter, NEW B \in SUBSET Conn,
           NEW C \in SUBSET Unused, OpenedOn(C, l, B),
           \A c \in B : peer'[c] = peer[c],
           \A k \in Letter : fate[k] \notin {"none", "unconnected"} =>
              fate'[k] \notin {"none", "unconnected"}
    PROVE  Reached'
<1>1. ASSUME NEW c \in Conn, peer'[c] # NoPeer
      PROVE  \/ peer[c] # NoPeer /\ peer'[c].letter = peer[c].letter
             \/ fate'[peer'[c].letter] = "queued"
  <2>1. CASE c \in C
    BY <2>1 DEF OpenedOn, Greets
  <2>2. CASE c \notin C
    BY <1>1, <2>2 DEF OpenedOn
  <2>3. QED
    BY <2>1, <2>2
<1>2. QED
  BY <1>1, ReachedFrame

LEMMA NextReached == TypeOK /\ Books /\ Once /\ Reached /\ [Next]_vars => Reached'
<1> SUFFICES ASSUME TypeOK, Books, Once, Reached, [Next]_vars PROVE Reached'
  OBVIOUS
<1>1. ASSUME NEW m \in Message, fwd_queue([mail |-> m, failable |-> TRUE])
      PROVE  Reached'
  <2>1. PICK l \in Letter : l = [mail |-> m, failable |-> TRUE]
    BY DEF Letter
  <2>2. fwd_queue(l)
    BY <1>1, <2>1
  <2>3. PICK C \in SUBSET Unused : OpenedOn(C, l, {})
    BY <2>2, QueueFacts
  <2>4. \A k \in Letter : fate[k] \notin {"none", "unconnected"} =>
              fate'[k] \notin {"none", "unconnected"}
    BY <2>2, QueueFacts
  <2>5. QED
    BY <2>3, <2>4, OpeningKeepsReached
<1>2. ASSUME NEW c \in Conn, fwd_failed(c) PROVE Reached'
  <2>1. PICK l \in Letter, r \in Letter : l = fwd[c].letter /\ r = Report(l)
    BY <1>2, SessionOnceFacts, ReportIsLetter DEF fwd_failed, Reads
  <2>2. GivenUp(c, l, r)
    BY <1>2, <2>1, FailedFacts
  <2>3. PICK C \in SUBSET Unused : OpenedOn(C, r, {c})
    BY <2>2 DEF GivenUp
  <2>4. \A k \in Letter : fate[k] \notin {"none", "unconnected"} =>
              fate'[k] \notin {"none", "unconnected"}
    BY <2>2 DEF GivenUp
  <2>5. peer'[c] = peer[c]
    BY <2>2 DEF GivenUp
  <2>6. QED
    BY <2>3, <2>4, <2>5, OpeningKeepsReached
<1>3. ASSUME NEW c \in Conn,
             \/ fwd_accepted(c) \/ fwd_write_failed(c) \/ fwd_retry(c)
             \/ fwd_nop(c) \/ fwd_quit(c) \/ conn_eof(c)
      PROVE  Reached'
  <2>1. peer' = peer
    BY <1>3 DEF fwd_accepted, fwd_write_failed, fwd_retry, fwd_nop, fwd_quit, conn_eof
  <2>2. \A k \in Letter : fate'[k] \in {fate[k], "done", "lost"}
    BY <1>3 DEF fwd_accepted, fwd_write_failed, fwd_retry, fwd_nop, fwd_quit, conn_eof,
                TypeOK
  <2>3. QED
    BY <2>1, <2>2, ReachedFrame
<1>4. ASSUME NEW c \in Conn, peer_serves(c) \/ peer_hangs_up(c) \/ peer_eof(c)
      PROVE  Reached'
  <2>1. PICK k \in Letter : About(c, k)
    BY <1>4, ServedIsAbout
  <2>2. fate' = fate
    BY <1>4 DEF peer_serves, peer_greets, peer_accepts, peer_refuses, peer_quits,
                peer_hangs_up, peer_eof
  <2>3. QED
    BY <2>1, <2>2, ReachedFrame DEF About
<1>5. CASE Crash
  BY <1>5, ReachedFrame DEF Crash
<1>6. CASE UNCHANGED vars
  BY <1>6, ReachedFrame DEF vars
<1>7. QED
  BY <1>1, <1>2, <1>3, <1>4, <1>5, <1>6 DEF Next, fwd_process_input

-----------------------------------------------------------------------------
(* The steps of the module, as the courier's.                              *)

Aligned == TypeOK /\ Books /\ Once /\ LockStep /\ Reached

\* Which letters were refused, and which answers split, is all in answers.
LEMMA SameAnswers ==
    ASSUME answers' = answers
    PROVE  RefusedLetters' = RefusedLetters /\ SplitLetters' = SplitLetters
  BY DEF RefusedLetters, SplitLetters

LEMMA SameCourier ==
    ASSUME UNCHANGED <<fate, taken, answers>>
    PROVE  UNCHANGED Post!vars
  BY SameAnswers DEF Post!vars

LEMMA QueueIsAccept ==
    ASSUME NEW l \in Letter, l.failable, fwd_queue(l)
    PROVE  Post!Accept(l)
<1>1. UNCHANGED <<taken, RefusedLetters, SplitLetters>>
  BY SameAnswers DEF fwd_queue
<1>2. QED
  BY <1>1 DEF fwd_queue, Post!Accept

\* A session ends or goes on: the letter may be done or lost by that.
LEMMA DoneIsConfirm ==
    ASSUME Aligned, Once', NEW l \in Letter, fate[l] = "queued",
           fate' = [fate EXCEPT ![l] = "done"], taken' = taken, answers' = answers
    PROVE  Post!Confirm(l)
<1>1. fate'[l] = "done"
  BY DEF Aligned, TypeOK
<1>2. taken[l] = 1
  BY <1>1 DEF Once, Tally
<1>3. QED
  BY <1>2, SameAnswers DEF Post!Confirm

LEMMA LostIsLose ==
    ASSUME NEW l \in Letter, fate[l] = "queued",
           fate' = [fate EXCEPT ![l] = "lost"], taken' = taken, answers' = answers
    PROVE  Post!Lose(l)
  BY SameAnswers DEF Post!Lose

LEMMA HandledIsMapped ==
    ASSUME Aligned, Once', NEW c \in Conn,
           \/ fwd_accepted(c) \/ fwd_write_failed(c) \/ fwd_retry(c)
           \/ fwd_nop(c) \/ fwd_quit(c) \/ conn_eof(c)
    PROVE  [Post!Next]_Post!vars
<1>1. taken' = taken /\ answers' = answers
  BY DEF fwd_accepted, fwd_write_failed, fwd_retry, fwd_nop, fwd_quit, conn_eof
<1>2. c \in Active
  BY DEF fwd_accepted, fwd_write_failed, fwd_retry, fwd_nop, fwd_quit, conn_eof, Reads
<1>3. PICK l \in Letter : l = fwd[c].letter
  BY <1>2, SessionOnceFacts DEF Aligned
<1>4. l \in Post!Letter
  BY DEF Letter, Post!Letter
<1>5. fwd[c].state # "QUIT" => fate[l] = "queued"
  BY <1>2, <1>3 DEF Aligned, Books, Owned
<1>6. \/ fate' = fate
      \/ fate[l] = "queued" /\ fate' = [fate EXCEPT ![l] = "done"]
      \/ fate[l] = "queued" /\ fate' = [fate EXCEPT ![l] = "lost"]
  <2>1. fate' = [fate EXCEPT ![l] = fate[l]] => fate' = fate
    BY DEF Aligned, TypeOK
  <2>2. CASE fwd_accepted(c) \/ fwd_write_failed(c)
    BY <1>3, <1>5, <2>1, <2>2 DEF fwd_accepted, fwd_write_failed
  <2>3. CASE conn_eof(c)
    BY <1>3, <2>1, <2>3 DEF conn_eof
  <2>4. CASE fwd_retry(c) \/ fwd_nop(c) \/ fwd_quit(c)
    BY <2>4 DEF fwd_retry, fwd_nop, fwd_quit
  <2>5. QED
    BY <2>2, <2>3, <2>4
<1>7. CASE fate' = fate
  BY <1>1, <1>7, SameCourier
<1>8. CASE fate[l] = "queued" /\ fate' = [fate EXCEPT ![l] = "done"]
  BY <1>1, <1>4, <1>8, DoneIsConfirm DEF Post!Next
<1>9. CASE fate[l] = "queued" /\ fate' = [fate EXCEPT ![l] = "lost"]
  BY <1>1, <1>4, <1>9, LostIsLose DEF Post!Next
<1>10. QED
  BY <1>6, <1>7, <1>8, <1>9

\* The line that makes the module give a letter up is a refusal of it, unless
\* answers were split.
LEMMA FailedIsGiveUp ==
    ASSUME Aligned, NEW c \in Conn, fwd_failed(c)
    PROVE  Post!Next
<1>1. PICK l \in Letter : l = fwd[c].letter
  BY SessionOnceFacts DEF Aligned, fwd_failed, Reads
<1>2. /\ l \in Post!Letter /\ Post!Report(l) = Report(l)
      /\ UNCHANGED <<taken, RefusedLetters, SplitLetters>>
  BY SameAnswers DEF Letter, Post!Letter, Report, Post!Report, fwd_failed
<1>3. fate[l] = "queued"
  BY <1>1 DEF Aligned, Books, Owned, fwd_failed, Reads
<1>4. l \in SplitLetters \/ (l \in RefusedLetters /\ taken[l] = 0)
  BY <1>1, GivenUpUntaken DEF Aligned, Split, SplitLetters, RefusedLetters
<1>5. l.failable => fate[Report(l)] = "none"
  BY <1>3, ReportsAreDueHere DEF Aligned, Books
<1>6. IF l.failable
        THEN \E f \in {"queued", "unconnected"} :
               fate' = [fate EXCEPT ![l] = "failed", ![Report(l)] = f]
        ELSE fate' = [fate EXCEPT ![l] = "failed"]
  BY <1>1 DEF fwd_failed
<1>7. Post!GiveUp(l)
  BY <1>2, <1>3, <1>4, <1>5, <1>6 DEF Post!GiveUp
<1>8. QED
  BY <1>2, <1>7 DEF Post!Next

LEMMA CrashIsCrash ==
    ASSUME Crash
    PROVE  Post!Crash
<1>1. UNCHANGED <<taken, RefusedLetters, SplitLetters>>
  BY SameAnswers DEF Crash
<1>2. Letter = Post!Letter
  BY DEF Letter, Post!Letter
<1>3. QED
  BY <1>1, <1>2 DEF Crash, Post!Crash

-----------------------------------------------------------------------------
(* The steps of the other servers.                                         *)

\* What a reply about k adds to the history.
LEMMA RepliedIsHeard ==
    ASSUME TypeOK, NEW c \in Conn, NEW k \in Letter, peer[c].letter = k,
           NEW code \in Nat, Replied(c, code)
    PROVE  /\ SplitLetters' \in {SplitLetters, SplitLetters \cup {k}}
           /\ RefusedLetters' \in {RefusedLetters, RefusedLetters \cup {k}}
           /\ code < 400 => RefusedLetters' = RefusedLetters
<1>1. PICK reply \in Replies(code) :
        answers' = [answers EXCEPT ![k] = @ \cup Said(code, reply)]
  BY DEF Replied
<1>2. /\ \A l \in Letter \ {k} : answers'[l] = answers[l]
      /\ answers'[k] = answers[k] \cup Said(code, reply)
  BY <1>1 DEF TypeOK
<1>3. SplitLetters' \in {SplitLetters, SplitLetters \cup {k}}
  BY <1>2 DEF SplitLetters
<1>4. RefusedLetters' \in {RefusedLetters, RefusedLetters \cup {k}}
  BY <1>2 DEF RefusedLetters
<1>5. ASSUME code < 400
      PROVE  RefusedLetters' = RefusedLetters
  <2>1. code \notin 400..499 /\ ~(code > 499)
    BY <1>5
  <2>2. Said(code, reply) \cap {"transient", "permanent"} = {}
    BY <2>1 DEF Said
  <2>3. QED
    BY <1>2, <2>2 DEF RefusedLetters
<1>6. QED
  BY <1>3, <1>4, <1>5

\* A letter that a server speaks about went out.
LEMMA PeerLetter ==
    ASSUME Aligned, NEW c \in Conn, peer[c] # NoPeer
    PROVE  \E k \in Letter : /\ k = peer[c].letter /\ k \in Post!Letter
                             /\ fate[k] \notin {"none", "unconnected"}
<1>1. peer[c].letter \in Letter
  BY OnceFacts DEF Aligned
<1>2. QED
  BY <1>1 DEF Aligned, Reached, Letter, Post!Letter

LEMMA SpokenIsMapped ==
    ASSUME Aligned, NEW c \in Conn, peer[c] # NoPeer,
           NEW code \in Nat, Replied(c, code), fate' = fate, taken' = taken
    PROVE  Post!Next
<1>1. PICK k \in Letter : /\ k = peer[c].letter /\ k \in Post!Letter
                          /\ fate[k] \notin {"none", "unconnected"}
  BY PeerLetter
<1>2. /\ SplitLetters' \in {SplitLetters, SplitLetters \cup {k}}
      /\ RefusedLetters' \in {RefusedLetters, RefusedLetters \cup {k}}
  BY <1>1, RepliedIsHeard DEF Aligned
<1>3. Post!Answered(k)
  BY <1>1, <1>2 DEF Post!Answered
<1>4. Post!Refuse(k) \/ Post!Hear(k)
  BY <1>2, <1>3 DEF Post!Refuse, Post!Hear
<1>5. QED
  BY <1>1, <1>4 DEF Post!Next

\* The body, accepted: nobody took the letter before, and it has not come back.
LEMMA AcceptedIsMapped ==
    ASSUME Aligned, LockStep', NEW c \in Conn, peer_accepts(c)
    PROVE  Post!Next
<1>1. /\ peer[c] # NoPeer /\ sent[c] # <<>> /\ Head(sent[c]) = peer[c].stage
      /\ Replied(c, Success[peer[c].stage]) /\ fate' = fate
      /\ taken' = [taken EXCEPT ![peer[c].letter] =
                      IF peer[c].stage = "BODY" THEN @ + 1 ELSE @]
  BY DEF peer_accepts
<1>2. PICK k \in Letter : /\ k = peer[c].letter /\ k \in Post!Letter
                          /\ fate[k] \notin {"none", "unconnected"}
  BY <1>1, PeerLetter
<1>3. Wire(c) /\ Tally(k)
  BY DEF Aligned, Once
<1>4. peer[c].stage \in {"HELO", "MAIL", "RCPT", "DATA", "BODY"}
  <2>1. peer[c].stage \in Stages
    BY <1>1, OnceFacts DEF Aligned
  <2>2. Head(sent[c]) \in Commands
    BY <1>1, <1>3, FirstCommand DEF Aligned
  <2>3. QED
    BY <1>1, <2>1, <2>2 DEF Stages, Commands
<1>5. PICK code \in Nat : code = Success[peer[c].stage] /\ code < 400
  BY <1>4 DEF Success
<1>6. /\ SplitLetters' \in {SplitLetters, SplitLetters \cup {k}}
      /\ RefusedLetters' = RefusedLetters
  BY <1>1, <1>2, <1>5, RepliedIsHeard DEF Aligned
<1>7. CASE peer[c].stage # "BODY"
  <2>1. taken' = taken
    BY <1>1, <1>7 DEF Aligned, TypeOK
  <2>2. QED
    BY <1>1, <1>5, <2>1, SpokenIsMapped
<1>8. CASE peer[c].stage = "BODY"
  <2>1. taken[k] = 0
    BY <1>1, <1>2, <1>3, <1>8, FirstCommand DEF Aligned, Times
  <2>2. taken' = [taken EXCEPT ![k] = 1] /\ taken'[k] = 1
    BY <1>1, <1>2, <1>8, <2>1 DEF Aligned, TypeOK
  <2>3. fate[k] \in {"queued", "lost", "crashed"} \/ k \in SplitLetters'
    <3>1. fate[k] # "done"
      BY <1>3, <2>1 DEF Tally
    <3>2. fate[k] = "failed" => k \in SplitLetters'
      BY <1>1, <2>2 DEF LockStep, Outcome, Split, SplitLetters
    <3>3. fate[k] \in Fates
      BY DEF Aligned, TypeOK
    <3>4. QED
      BY <1>2, <3>1, <3>2, <3>3 DEF Fates
  <2>4. Post!Answered(k)
    BY <1>1, <1>2, <1>6 DEF Post!Answered
  <2>5. Post!Take(k)
    BY <1>6, <2>1, <2>2, <2>3, <2>4 DEF Post!Take
  <2>6. QED
    BY <1>2, <2>5 DEF Post!Next
<1>9. QED
  BY <1>7, <1>8

LEMMA ServedIsMapped ==
    ASSUME Aligned, LockStep', NEW c \in Conn,
           peer_serves(c) \/ peer_hangs_up(c) \/ peer_eof(c)
    PROVE  [Post!Next]_Post!vars
<1>1. CASE peer_accepts(c)
  BY <1>1, AcceptedIsMapped
<1>2. CASE peer_eof(c)
  BY <1>2, SameCourier DEF peer_eof
<1>3. ASSUME NEW code \in Nat, Replied(c, code), peer[c] # NoPeer,
             fate' = fate, taken' = taken
      PROVE  Post!Next
  BY <1>3, SpokenIsMapped
<1>4. CASE peer_greets(c)
  BY <1>3, <1>4 DEF peer_greets
<1>5. CASE peer_quits(c)
  BY <1>3, <1>5 DEF peer_quits
<1>6. CASE peer_refuses(c)
  <2>1. PICK code \in IF Head(sent[c]) = peer[c].stage THEN {450, 550} ELSE {503} :
          Replied(c, code)
    BY <1>6 DEF peer_refuses
  <2>2. code \in Nat
    BY <2>1
  <2>3. QED
    BY <1>3, <1>6, <2>1, <2>2 DEF peer_refuses
<1>7. CASE peer_hangs_up(c)
  <2>1. CASE answers' = answers
    BY <1>7, <2>1, SameCourier DEF peer_hangs_up
  <2>2. CASE Replied(c, 421)
    BY <1>3, <1>7, <2>2 DEF peer_hangs_up
  <2>3. QED
    BY <1>7, <2>1, <2>2 DEF peer_hangs_up
<1>8. QED
  BY <1>1, <1>2, <1>4, <1>5, <1>6, <1>7 DEF peer_serves

-----------------------------------------------------------------------------
(* The refinement.                                                         *)

LEMMA StepIsMapped == Aligned /\ Aligned' /\ [Next]_vars => [Post!Next]_Post!vars
<1> SUFFICES ASSUME Aligned, Aligned', [Next]_vars PROVE [Post!Next]_Post!vars
  OBVIOUS
<1>1. Once' /\ LockStep'
  BY DEF Aligned
<1>2. ASSUME NEW m \in Message, fwd_queue([mail |-> m, failable |-> TRUE])
      PROVE  Post!Next
  <2>1. PICK l \in Letter : l = [mail |-> m, failable |-> TRUE]
    BY DEF Letter
  <2>2. l \in Post!Letter /\ Post!Accept(l)
    BY <1>2, <2>1, QueueIsAccept DEF Letter, Post!Letter
  <2>3. QED
    BY <2>2 DEF Post!Next
<1>3. ASSUME NEW c \in Conn, fwd_failed(c) PROVE Post!Next
  BY <1>3, FailedIsGiveUp
<1>4. ASSUME NEW c \in Conn,
             \/ fwd_accepted(c) \/ fwd_write_failed(c) \/ fwd_retry(c)
             \/ fwd_nop(c) \/ fwd_quit(c) \/ conn_eof(c)
      PROVE  [Post!Next]_Post!vars
  BY <1>1, <1>4, HandledIsMapped
<1>5. ASSUME NEW c \in Conn, peer_serves(c) \/ peer_hangs_up(c) \/ peer_eof(c)
      PROVE  [Post!Next]_Post!vars
  BY <1>1, <1>5, ServedIsMapped
<1>6. CASE Crash
  BY <1>6, CrashIsCrash DEF Post!Next
<1>7. CASE UNCHANGED vars
  BY <1>7, SameCourier DEF vars
<1>8. QED
  BY <1>2, <1>3, <1>4, <1>5, <1>6, <1>7 DEF Next, fwd_process_input

LEMMA StartIsMapped == Init => Post!Init
<1> SUFFICES ASSUME Init PROVE Post!Init
  OBVIOUS
<1>1. RefusedLetters = {} /\ SplitLetters = {}
  BY DEF Init, RefusedLetters, SplitLetters
<1>2. QED
  BY <1>1 DEF Init, Post!Init, Letter, Post!Letter

LEMMA AlignedAlways == Spec => []Aligned
<1>1. Init => Reached
  BY InitReached
<1>2. TypeOK /\ Books /\ Once /\ Reached /\ [Next]_vars => Reached'
  BY NextReached
<1>3. Spec => []Reached
  BY <1>1, <1>2, OnceIsKept, PTL DEF Spec
<1>4. TypeOK /\ Books /\ Once /\ LockStep /\ Reached => Aligned
  BY DEF Aligned
<1>5. QED
  BY <1>3, <1>4, OnceIsKept, LockStepIsKept, PTL

\* What forward.c does with its table of states and replies is what a courier
\* does who hands a letter over once, takes it for delivered only then, returns
\* it only if it was refused instead, and whose word on a letter is final,
\* whichever way servers answer, split their answers or hang up and whenever the
\* process dies.
THEOREM ForwardImplementsCourier == Spec => ImplementsCourier
<1>1. Spec => [][Post!Next]_Post!vars
  BY StepIsMapped, AlignedAlways, PTL DEF Spec
<1>2. Spec => Post!Init
  BY StartIsMapped DEF Spec
<1>3. QED
  BY <1>1, <1>2, PTL DEF ImplementsCourier, Post!Spec

=============================================================================
