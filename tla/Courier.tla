------------------------------ MODULE Courier -------------------------------
(***************************************************************************)
(* What the server promises about the mails it takes for other servers,    *)
(* without connections, commands and replies: a letter is sent, returned,  *)
(* lost with its connection or lost with the process, once and for all; it *)
(* is taken over at most once, counts as sent only then, and comes back    *)
(* only if it was refused instead.  What comes back is a letter itself,    *)
(* but never does so again.  An answer that was split is an excuse.        *)
(***************************************************************************)
EXTENDS Naturals

CONSTANT Message

VARIABLES fate,     \* what became of every letter
          taken,    \* how often other servers took it over
          refused,  \* the letters that some server refused
          split     \* the letters some server split an answer about

vars == <<fate, taken, refused, split>>

\* A mail, or (not failable) the error mail about it.
Letter == [mail : Message, failable : BOOLEAN]

Report(l) == [mail |-> l.mail, failable |-> FALSE]

Fates == {"none", "queued", "unconnected", "done", "failed", "lost", "crashed"}

TypeOK ==
    /\ fate \in [Letter -> Fates]
    /\ taken \in [Letter -> 0..1]
    /\ refused \in SUBSET Letter
    /\ split \in SUBSET Letter

Init ==
    /\ fate = [l \in Letter |-> "none"]
    /\ taken = [l \in Letter |-> 0]
    /\ refused = {}
    /\ split = {}

\* A mail is accepted, whether or not a connection for it comes about.
Accept(l) ==
    /\ l.failable
    /\ fate[l] = "none"
    /\ \E f \in {"queued", "unconnected"} : fate' = [fate EXCEPT ![l] = f]
    /\ UNCHANGED <<taken, refused, split>>

\* Only a letter that went out is answered, even if nobody listens any more.
Answered(l) ==
    /\ fate[l] \notin {"none", "unconnected"}
    /\ split' \in {split, split \cup {l}}
    /\ UNCHANGED fate

Refuse(l) ==
    /\ Answered(l)
    /\ refused' = refused \cup {l}
    /\ UNCHANGED taken

\* A letter that came back is not taken over any more.
Take(l) ==
    /\ Answered(l)
    /\ fate[l] \in {"queued", "lost", "crashed"} \/ l \in split'
    /\ taken[l] = 0
    /\ taken' = [taken EXCEPT ![l] = 1]
    /\ UNCHANGED refused

\* Any other answer.
Hear(l) ==
    /\ Answered(l)
    /\ UNCHANGED <<taken, refused>>

Confirm(l) ==
    /\ fate[l] = "queued"
    /\ taken[l] = 1
    /\ fate' = [fate EXCEPT ![l] = "done"]
    /\ UNCHANGED <<taken, refused, split>>

GiveUp(l) ==
    /\ fate[l] = "queued"
    /\ l \in split \/ (l \in refused /\ taken[l] = 0)
    /\ IF l.failable
         THEN /\ fate[Report(l)] = "none"
              /\ \E f \in {"queued", "unconnected"} :
                    fate' = [fate EXCEPT ![l] = "failed", ![Report(l)] = f]
         ELSE fate' = [fate EXCEPT ![l] = "failed"]
    /\ UNCHANGED <<taken, refused, split>>

Lose(l) ==
    /\ fate[l] = "queued"
    /\ fate' = [fate EXCEPT ![l] = "lost"]
    /\ UNCHANGED <<taken, refused, split>>

Crash ==
    /\ fate' = [l \in Letter |-> IF fate[l] = "queued" THEN "crashed" ELSE fate[l]]
    /\ UNCHANGED <<taken, refused, split>>

Next ==
    \/ \E l \in Letter : \/ Accept(l) \/ Refuse(l) \/ Take(l) \/ Hear(l)
                         \/ Confirm(l) \/ GiveUp(l) \/ Lose(l)
    \/ Crash

Spec == Init /\ [][Next]_vars
=============================================================================
