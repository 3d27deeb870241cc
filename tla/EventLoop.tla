------------------------------ MODULE EventLoop ------------------------------
(***************************************************************************)
(* The connection module (connection.c): the linked list of sockets, the   *)
(* select() loop that walks it while handlers add and remove elements, and *)
(* the cutting of input into lines.                                        *)
(*                                                                         *)
(* A list element is a number, given in order of allocation and never      *)
(* again; the first ones are the listening sockets.  What a handler does   *)
(* to the list is all that is modelled of it: it may open one forward      *)
(* connection, and it may end its own.                                     *)
(*                                                                         *)
(* A line on the wire is three atoms, numbered on: two of text and the     *)
(* newline.  Input is read in order, so what was read of it is a number of *)
(* atoms, and what a read or a token covers is an interval of them.  A     *)
(* read takes any number: what has arrived, at most BUF_SIZE.  A call that *)
(* would block is a step that is not enabled.                              *)
(***************************************************************************)
EXTENDS Naturals, FiniteSets, Sequences

CONSTANTS PlainListeners, TlsListeners,  \* numbers of listening sockets
          MaxClient,   \* bound: clients that connect
          MaxForward,  \* bound: forward connections that are opened
          MaxLine,     \* bound: lines the peers send, all together
          MaxFd        \* descriptors the process may have open

ASSUME EventLoopAssumption ==
    /\ PlainListeners \in Nat /\ TlsListeners \in Nat
    /\ PlainListeners + TlsListeners > 0
    /\ MaxClient \in Nat /\ MaxForward \in Nat /\ MaxLine \in Nat
    /\ MaxFd \in Nat /\ MaxFd >= PlainListeners + TlsListeners

VARIABLES list,      \* the elements: head, list_next, socket_fd, who is alive
          made,      \* number of elements allocated so far
          tls,       \* the elements whose socket_is_ssl is 1
          open,      \* the descriptors the process has open
          pending,   \* clients in the backlog of each listening socket
          ended,     \* the connections the peer has ended
          loop,      \* conn_wait_loop: pc, elem, i, num and rfds
          connects,  \* number of clients so far
          forwards,  \* number of forward connections so far
          lines,     \* number of lines sent to each connection so far
          taken,     \* number of their atoms that were read, or are lost
          bye,       \* history: the line of each that makes its handler quit
          handled    \* history: what its handler was called with

vars == <<list, made, tls, open, pending, ended, loop, connects, forwards,
          lines, taken, bye, handled>>

NULL == 0
Listener == 1..(PlainListeners + TlsListeners)
Elem == 1..(PlainListeners + TlsListeners + MaxClient + MaxForward)

\* A run of text of one line, as the handler gets it: an interval of atoms.
Token == [first : Nat, last : Nat]

Init ==
    LET n == PlainListeners + TlsListeners
    IN  /\ list = [head |-> 1,
                   next |-> [e \in Elem |-> IF e < n THEN e + 1 ELSE NULL],
                   fd |-> [e \in Elem |-> IF e \in Listener THEN e ELSE NULL],
                   live |-> Listener]
        /\ made = n
        /\ tls = {}
        /\ open = Listener
        /\ pending = [e \in Listener |-> 0]
        /\ ended = {}
        /\ loop = [pc |-> "select", elem |-> NULL, i |-> 0, num |-> 0, rfds |-> {}]
        /\ connects = 0
        /\ forwards = 0
        /\ lines = [e \in Elem |-> 0]
        /\ taken = [e \in Elem |-> 0]
        /\ bye = [e \in Elem |-> 0]
        /\ handled = [e \in Elem |-> <<>>]

-----------------------------------------------------------------------------
(* The list.                                                               *)

\* socket() and accept() return the lowest free descriptor.
NewFds == {f \in 1..MaxFd \ open : \A g \in 1..MaxFd \ open : f <= g}

\* Mutant of Appended: the last element is not linked to the new one.
AppendedLost(L, f) ==
    [L EXCEPT !.fd[made + 1] = f, !.live = @ \cup {made + 1}]

\* The next element, with descriptor f, behind the last one of the list.
Appended(L, f) ==
    LET last == CHOOSE e \in L.live : L.next[e] = NULL
    IN  [L EXCEPT !.next[last] = made + 1, !.fd[made + 1] = f,
                  !.live = @ \cup {made + 1}]

\* Mutant of Removed: the element in front keeps pointing to the freed one.
RemovedDangling(L, e) == [L EXCEPT !.live = @ \ {e}]

\* Unlinked and freed.  The element's own list_next keeps its value: free()
\* leaves the end of a small block alone, and nothing is allocated before the
\* loop reads it.
Removed(L, e) ==
    IF L.head = e
      THEN [L EXCEPT !.head = L.next[e], !.live = @ \ {e}]
      ELSE LET prev == CHOOSE p \in L.live : L.next[p] = e
           IN  [L EXCEPT !.next[prev] = L.next[e], !.live = @ \ {e}]

-----------------------------------------------------------------------------
(* Cutting input into lines.                                               *)

Newline(a) == a % 3 = 0

LineOf(a) == (a + 2) \div 3

\* Mutant of Tokens: what is behind the last newline is dropped.
TokensWhole(lo, hi) ==
    LET from == LineOf(IF Newline(lo) THEN lo + 1 ELSE lo)
    IN  [k \in 1..LineOf(hi + 1) - from |->
            LET n == from + k - 1
            IN  [first |-> IF lo > 3 * n - 2 THEN lo ELSE 3 * n - 2,
                 last |-> 3 * n - 1]]

\* strtok on the atoms from lo to hi: the runs without a newline, one for each
\* line that has text there.  None is empty, and there may be none at all.
Tokens(lo, hi) ==
    LET from == LineOf(IF Newline(lo) THEN lo + 1 ELSE lo)
    IN  [k \in 1..LineOf(hi) + 1 - from |->
            LET n == from + k - 1
            IN  [first |-> IF lo > 3 * n - 2 THEN lo ELSE 3 * n - 2,
                 last |-> IF hi < 3 * n - 1 THEN hi ELSE 3 * n - 1]]

Whole(line) == [first |-> 3 * line - 2, last |-> 3 * line - 1]

\* Does the handler of e return CONN_QUIT for this token?  For a part of a
\* line, which is another command, it may.
Quits(e, token) ==
    IF bye[e] > 0 /\ token = Whole(bye[e]) THEN {TRUE}
    ELSE IF \E n \in 1..MaxLine : token = Whole(n) THEN {FALSE}
    ELSE BOOLEAN

\* The token with which the session ends, or the number after the last.
Ends(e, tokens) ==
    {q \in 1..Len(tokens) + 1 :
        /\ \A k \in 1..q - 1 : FALSE \in Quits(e, tokens[k])
        /\ q <= Len(tokens) => TRUE \in Quits(e, tokens[q])}

Upto(tokens, q) == SubSeq(tokens, 1, IF q > Len(tokens) THEN q - 1 ELSE q)

-----------------------------------------------------------------------------
(* conn_wait_loop.                                                         *)

Unread(e) == taken[e] < 3 * lines[e]

Readable(e) ==
    IF e \in Listener THEN pending[e] > 0 ELSE Unread(e) \/ e \in ended

\* select() returns once something is readable; what becomes readable later
\* in this round waits for the next.
select ==
    /\ loop.pc = "select"
    /\ \E e \in list.live : Readable(e)
    /\ LET ready == {list.fd[e] : e \in {x \in list.live : Readable(x)}}
       IN  loop' = [pc |-> "walk", elem |-> list.head, i |-> 0,
                    num |-> Cardinality(ready), rfds |-> ready]
    /\ UNCHANGED <<list, made, tls, open, pending, ended, connects, forwards,
                   lines, taken, bye, handled>>

\* Mutant of Visiting: the handlers called are not counted.
VisitingAll(e) == loop.pc = "walk" /\ loop.elem = e /\ e # NULL

Visiting(e) == loop.pc = "walk" /\ loop.i < loop.num /\ loop.elem = e /\ e # NULL

\* The read handler of e is to be called.
Called(e) == Visiting(e) /\ list.fd[e] \in loop.rfds

\* Mutant of GoesOn: list_next of a freed element is no longer what it was.
GoesOnGarbage(e, L) ==
    \E x \in IF e \in L.live THEN {L.next[e]} ELSE {Cardinality(Elem) + 1} :
        loop' = [loop EXCEPT !.elem = x, !.i = @ + 1]

\* After the handler the loop goes on to list_next, in the list as it is then.
GoesOn(e, L) == loop' = [loop EXCEPT !.elem = L.next[e], !.i = @ + 1]

skip(e) ==
    /\ Visiting(e)
    /\ list.fd[e] \notin loop.rfds
    /\ loop' = [loop EXCEPT !.elem = list.next[e]]
    /\ UNCHANGED <<list, made, tls, open, pending, ended, connects, forwards,
                   lines, taken, bye, handled>>

round_done ==
    /\ loop.pc = "walk"
    /\ loop.elem = NULL \/ loop.i = loop.num
    /\ loop' = [pc |-> "select", elem |-> NULL, i |-> 0, num |-> 0, rfds |-> {}]
    /\ UNCHANGED <<list, made, tls, open, pending, ended, connects, forwards,
                   lines, taken, bye, handled>>

Dies == loop' = [loop EXCEPT !.pc = "dead"]

-----------------------------------------------------------------------------
(* Accepting.                                                              *)

Accepted(e) ==
    \E f \in NewFds :
        /\ list' = Appended(list, f)
        /\ made' = made + 1
        /\ open' = open \cup {f}
        /\ pending' = [pending EXCEPT ![e] = @ - 1]
        /\ GoesOn(e, list')
        /\ UNCHANGED <<ended, connects, forwards, lines, taken, bye, handled>>

conn_accept_normal_client(e) ==
    /\ e \in 1..PlainListeners
    /\ Called(e) /\ Readable(e)
    /\ Accepted(e)
    /\ UNCHANGED tls

\* The greeting cannot be written: the new descriptor is closed again.
conn_accept_no_greeting(e) ==
    /\ e \in 1..PlainListeners
    /\ Called(e) /\ Readable(e) /\ NewFds # {}
    /\ pending' = [pending EXCEPT ![e] = @ - 1]
    /\ GoesOn(e, list)
    /\ UNCHANGED <<list, made, tls, open, ended, connects, forwards, lines,
                   taken, bye, handled>>

\* accept() fails for want of a descriptor; the client stays in the backlog.
conn_accept_fails(e) ==
    /\ e \in Listener
    /\ Called(e) /\ Readable(e) /\ NewFds = {}
    /\ GoesOn(e, list)
    /\ UNCHANGED <<list, made, tls, open, pending, ended, connects, forwards,
                   lines, taken, bye, handled>>

conn_accept_ssl_client(e) ==
    /\ e \in Listener \ 1..PlainListeners
    /\ Called(e) /\ Readable(e)
    /\ Accepted(e)
    /\ tls' = tls \cup {made + 1}

\* The handshake or the greeting of a TLS client fails: exit(0).
ssl_berr_exit(e) ==
    /\ e \in Listener \ 1..PlainListeners
    /\ Called(e) /\ Readable(e) /\ NewFds # {}
    /\ Dies
    /\ UNCHANGED <<list, made, tls, open, pending, ended, connects, forwards,
                   lines, taken, bye, handled>>

-----------------------------------------------------------------------------
(* Reading.                                                                *)

\* What conn_new_fwd_socket may do in a handler: nothing, for it is not called
\* or gets no descriptor; open a connection and append it; or fail to
\* connect, in which case the descriptor stays open.
Forwarding ==
    {[list |-> list, made |-> made, open |-> open]} \cup
    (IF forwards = MaxForward THEN {} ELSE
        {[list |-> Appended(list, f), made |-> made + 1, open |-> open \cup {f}] :
            f \in NewFds} \cup
        {[list |-> list, made |-> made, open |-> open \cup {f}] : f \in NewFds})

\* Mutant of Deleted: the descriptor is closed, the element stays.
DeletedClosed(e, L, fds) ==
    /\ list' = L
    /\ open' = fds \ {list.fd[e]}
    /\ ended' = ended \ {e}

\* conn_delete_socket_elem, in the list L the handlers left.
Deleted(e, L, fds) ==
    /\ list' = Removed(L, e)
    /\ open' = fds \ {list.fd[e]}
    /\ ended' = ended \ {e}

\* Mutant of Processed: the lines after a QUIT in the same read are handled.
ProcessedOn(e, tokens, gone) ==
    \E q \in Ends(e, tokens), after \in Forwarding :
        /\ handled' = [handled EXCEPT ![e] = @ \o tokens]
        /\ made' = after.made
        /\ forwards' = forwards + (IF after.open = open THEN 0 ELSE 1)
        /\ IF q <= Len(tokens)
             THEN /\ Deleted(e, after.list, after.open)
                  /\ taken' = [taken EXCEPT ![e] = 3 * lines[e]]
             ELSE /\ list' = after.list
                  /\ open' = after.open
                  /\ taken' = [taken EXCEPT ![e] = gone]
                  /\ UNCHANGED ended
        /\ GoesOn(e, list')
        /\ UNCHANGED <<tls, pending, connects, lines, bye>>

\* The tokens of one read are given to the handler up to the one with which it
\* quits.  For each one after that conn_delete_socket_elem is called again,
\* with what free() left in socket_fd, which is no descriptor of the list.
Processed(e, tokens, gone) ==
    \E q \in Ends(e, tokens), after \in Forwarding :
        /\ handled' = [handled EXCEPT ![e] = @ \o Upto(tokens, q)]
        /\ made' = after.made
        /\ forwards' = forwards + (IF after.open = open THEN 0 ELSE 1)
        /\ IF q <= Len(tokens)
             THEN /\ Deleted(e, after.list, after.open)
                  /\ taken' = [taken EXCEPT ![e] = 3 * lines[e]]
             ELSE /\ list' = after.list
                  /\ open' = after.open
                  /\ taken' = [taken EXCEPT ![e] = gone]
                  /\ UNCHANGED ended
        /\ GoesOn(e, list')
        /\ UNCHANGED <<tls, pending, connects, lines, bye>>

\* A read without any token leaves a NULL list, which is looked into.
NoToken ==
    /\ Dies
    /\ UNCHANGED <<list, made, tls, open, pending, ended, connects, forwards,
                   lines, taken, bye, handled>>

\* Both read functions: the last atom read, and the last one that is gone.
conn_read_normal_buff(e) ==
    {[last |-> n, gone |-> n] : n \in taken[e] + 1..3 * lines[e]}

\* Up to the first newline; whatever more the buffering BIO had read is lost
\* with it.  (BIO_gets waits for the newline.)
ssl_read(e) ==
    LET newline == 3 * LineOf(taken[e] + 1)
    IN  {[last |-> newline, gone |-> n] : n \in newline..3 * lines[e]}

\* What conn_tokenize_output makes of a read is handled.
Read(e, r) ==
    LET tokens == Tokens(taken[e] + 1, r.last)
    IN  IF tokens = <<>> THEN NoToken ELSE Processed(e, tokens, r.gone)

conn_read_normal(e) ==
    /\ e \notin Listener \cup tls
    /\ Called(e)
    /\ \E r \in conn_read_normal_buff(e) : Read(e, r)

conn_read_ssl(e) ==
    /\ e \in tls
    /\ Called(e)
    /\ \E r \in ssl_read(e) : Read(e, r)

\* End of file or an error.
conn_read_end(e) ==
    /\ e \notin Listener
    /\ Called(e)
    /\ ~Unread(e) /\ e \in ended
    /\ Deleted(e, list, open)
    /\ GoesOn(e, list')
    /\ UNCHANGED <<made, tls, pending, connects, forwards, lines, taken, bye,
                   handled>>

-----------------------------------------------------------------------------
(* The peers.                                                              *)

Connects(e) ==
    /\ connects < MaxClient
    /\ connects' = connects + 1
    /\ pending' = [pending EXCEPT ![e] = @ + 1]
    /\ UNCHANGED <<list, made, tls, open, ended, loop, forwards, lines, taken,
                   bye, handled>>

AllLines == {p \in Elem \X (1..MaxLine) : p[2] <= lines[p[1]]}

\* A line, maybe the one that ends the session; more may follow it.
Sends(e) ==
    /\ e \in list.live \ (Listener \cup ended)
    /\ Cardinality(AllLines) < MaxLine
    /\ lines' = [lines EXCEPT ![e] = @ + 1]
    /\ \/ bye[e] = 0 /\ bye' = [bye EXCEPT ![e] = lines[e] + 1]
       \/ UNCHANGED bye
    /\ UNCHANGED <<list, made, tls, open, pending, ended, loop, connects,
                   forwards, taken, handled>>

\* It closes, or resets and what is unread is gone.
Hangs(e) ==
    /\ e \in list.live \ (Listener \cup ended)
    /\ ended' = ended \cup {e}
    /\ \/ UNCHANGED taken
       \/ taken' = [taken EXCEPT ![e] = 3 * lines[e]]
    /\ UNCHANGED <<list, made, tls, open, pending, loop, connects, forwards,
                   lines, bye, handled>>

-----------------------------------------------------------------------------
conn_wait_loop ==
    \/ select
    \/ round_done
    \/ \E e \in Elem :
        \/ skip(e)
        \/ conn_accept_normal_client(e)
        \/ conn_accept_no_greeting(e)
        \/ conn_accept_fails(e)
        \/ conn_accept_ssl_client(e)
        \/ ssl_berr_exit(e)
        \/ conn_read_normal(e)
        \/ conn_read_ssl(e)
        \/ conn_read_end(e)

Next ==
    \/ conn_wait_loop
    \/ \E e \in Listener : Connects(e)
    \/ \E e \in Elem \ Listener : Sends(e) \/ Hangs(e)

Spec == Init /\ [][Next]_vars

\* The process runs; clients do what they like.
FairSpec == Spec /\ WF_vars(conn_wait_loop)

-----------------------------------------------------------------------------
(* Properties that hold.                                                   *)

TypeOK ==
    /\ list \in [head : Elem, next : [Elem -> Elem \cup {NULL}],
                 fd : [Elem -> 0..MaxFd], live : SUBSET Elem]
    /\ made \in Elem
    /\ tls \subseteq Elem \ Listener
    /\ open \subseteq 1..MaxFd
    /\ pending \in [Listener -> 0..MaxClient]
    /\ ended \subseteq Elem
    /\ loop \in [pc : {"select", "walk", "dead"}, elem : Elem \cup {NULL},
                 i : Nat, num : Nat, rfds : SUBSET (1..MaxFd)]
    /\ connects \in 0..MaxClient
    /\ forwards \in 0..MaxForward
    /\ lines \in [Elem -> 0..MaxLine]
    /\ taken \in [Elem -> 0..3 * MaxLine]
    /\ bye \in [Elem -> 0..MaxLine]
    /\ handled \in [Elem -> Seq(Token)]

\* The k-th element from the head.
Nth[k \in 1..Cardinality(Elem)] ==
    IF k = 1 THEN list.head
    ELSE IF Nth[k - 1] = NULL THEN NULL ELSE list.next[Nth[k - 1]]

\* From the head one comes to every live element, once, in the order they
\* were made, and then to the end; the loop stands on one of them or at the
\* end, although it reads list_next of elements that are already freed.
ListSound ==
    /\ list.live = {Nth[k] : k \in 1..Cardinality(list.live)}
    /\ \A k \in 1..Cardinality(list.live) - 1 : Nth[k] < Nth[k + 1]
    /\ \A e \in list.live : list.next[e] = NULL => e = Nth[Cardinality(list.live)]
    /\ loop.elem \in list.live \cup {NULL}

\* Every session has a descriptor that is open and that no other session has:
\* what it writes goes to its own client, though descriptors are used again.
DescriptorsOwn ==
    /\ \A e \in list.live : list.fd[e] \in open
    /\ \A d, e \in list.live : list.fd[d] = list.fd[e] => d = e

\* A read handler is only called for a descriptor with something to read: the
\* one thread never waits for one client.  A descriptor that was closed and
\* used again in the same round still has its bit in rfds.
NeverBlocks == \A e \in list.live : Called(e) => Readable(e)

\* The text atom after atom a.
NextText(a) == IF Newline(a + 1) THEN a + 2 ELSE a + 1

\* On a plain connection nothing is lost, doubled or reordered on the way to
\* the handler, however the input is cut: each token begins with the text atom
\* after the last one of the token before, and goes on within its line.  On a
\* TLS connection text can be left out between two tokens, no more.
HandledInOrder ==
    \A e \in Elem \ Listener : \A k \in 1..Len(handled[e]) :
        LET token == handled[e][k]
            before == IF k = 1 THEN 0 ELSE handled[e][k - 1].last
        IN  /\ token.first <= token.last /\ token.last < 3 * LineOf(token.first)
            /\ token.last <= 3 * lines[e]
            /\ IF e \in tls THEN before < token.first
                            ELSE token.first = NextText(before)

\* After the line that ended its session no handler is called with another.
NothingAfterBye ==
    \A e \in Elem \ Listener : \A k \in 1..Len(handled[e]) - 1 :
        bye[e] > 0 => handled[e][k] # Whole(bye[e])

\* Whatever a client sends is read, whatever the others do, unless the
\* connection or the process ends first.
EverythingRead ==
    \A e \in Elem \ Listener :
        Unread(e) ~> ~Unread(e) \/ loop.pc = "dead"

=============================================================================
