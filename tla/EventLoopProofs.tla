--------------------------- MODULE EventLoopProofs ---------------------------
(***************************************************************************)
(* The event loop, for every number of listening sockets, clients, forward *)
(* connections, lines and descriptors.                                     *)
(***************************************************************************)
EXTENDS EventLoop, FiniteSetTheorems, SequenceTheorems, TLAPS

N == PlainListeners + TlsListeners

-----------------------------------------------------------------------------
(* The inductive invariant.                                                *)

Lists == [head : Elem, next : [Elem -> Elem \cup {NULL}],
          fd : [Elem -> 0..MaxFd], live : SUBSET Elem]

\* The list L of the first m elements that were made, without those removed:
\* each element points to the least one above it.
Sorted(L, m) ==
    /\ L.live \subseteq 1..m
    /\ Listener \subseteq L.live
    /\ L.head = 1
    /\ \A e \in Elem : e > m => L.next[e] = NULL
    /\ \A e \in L.live :
        /\ L.next[e] \in L.live \cup {NULL}
        /\ L.next[e] # NULL => e < L.next[e]
    /\ \A d, e \in L.live : d < e => L.next[d] # NULL /\ L.next[d] <= e
    /\ \E e \in L.live : L.next[e] = NULL
    /\ \A e \in L.live \ {1} : \E p \in L.live : L.next[p] = e

OwnFds(L, fds) ==
    /\ \A e \in L.live : L.fd[e] \in fds
    /\ \A d, e \in L.live : L.fd[d] = L.fd[e] => d = e

\* The clients that wait to be accepted; with those that were and the forward
\* connections they bound the number of elements.
Backlog == {p \in Listener \X (1..MaxClient) : p[2] <= pending[p[1]]}

Count ==
    /\ Cardinality(Backlog) <= connects
    /\ Cardinality(Backlog) + made <= N + connects + forwards

\* What is known of an element before it is made and after it is removed.
Fresh ==
    /\ \A e \in Elem : e > made =>
        lines[e] = 0 /\ taken[e] = 0 /\ bye[e] = 0 /\ handled[e] = <<>> /\ e \notin tls
    /\ ended \subseteq list.live

ListInv ==
    /\ Sorted(list, made)
    /\ OwnFds(list, open)
    /\ loop.elem \in list.live \cup {NULL}
    /\ Count
    /\ Fresh

\* The elements the walk has still to call: there when select() returned, that
\* is, among the first m.
Due(m) ==
    {e \in list.live : /\ loop.elem # NULL /\ loop.elem <= e
                       /\ e <= m /\ list.fd[e] \in loop.rfds}

\* As many as select() counted and the loop did not.
WalkInv ==
    loop.pc = "walk" =>
        \E m \in 1..made : /\ Cardinality(Due(m)) = loop.num - loop.i
                           /\ \A e \in Due(m) : Readable(e)

\* The last atom that was given to the handler of e.
LastOf(tokens) == IF tokens = <<>> THEN 0 ELSE tokens[Len(tokens)].last

\* The clauses of HandledInOrder for one connection.
InOrder(e) ==
    \A k \in 1..Len(handled[e]) :
        LET token == handled[e][k]
            before == IF k = 1 THEN 0 ELSE handled[e][k - 1].last
        IN  /\ token.first <= token.last /\ token.last < 3 * LineOf(token.first)
            /\ token.last <= 3 * lines[e]
            /\ IF e \in tls THEN before < token.first
                            ELSE token.first = NextText(before)

\* The line that quits was handled last, or not yet: then the session goes on.
ByeLast(e) ==
    \A k \in 1..Len(handled[e]) :
        bye[e] > 0 /\ (e \in list.live \/ k < Len(handled[e])) =>
            handled[e][k] # Whole(bye[e])

\* The next text to be read is the next text to be handled.
Reached(e) ==
    /\ taken[e] <= 3 * lines[e]
    /\ bye[e] <= lines[e]
    /\ e \in list.live =>
        /\ LastOf(handled[e]) <= taken[e]
        /\ e \notin tls /\ (e \notin ended \/ Unread(e)) =>
            \/ taken[e] = LastOf(handled[e])
            \/ taken[e] = LastOf(handled[e]) + 1 /\ Newline(taken[e])

Input(e) == InOrder(e) /\ ByeLast(e) /\ Reached(e)

InputInv == \A e \in Elem \ Listener : Input(e)

IInv == TypeOK /\ ListInv /\ WalkInv /\ InputInv

-----------------------------------------------------------------------------
(* Numbers.                                                                *)

\* Induction, as the provers can use it.
LEMMA LeastNat ==
    ASSUME NEW T, T \subseteq Nat, T # {}
    PROVE  \E x \in T : \A y \in T : x <= y
<1> DEFINE U == {0..x : x \in T}
           R == StrictSubsetOrdering(Nat)
<1>1. U \subseteq FiniteSubsetsOf(Nat)
  <2>1. \A x \in T : 0..x \subseteq Nat /\ IsFiniteSet(0..x)
    BY FS_Interval
  <2>2. QED
    BY <2>1 DEF FiniteSubsetsOf
<1>2. PICK u \in U : \A v \in U : <<v, u>> \notin R
  <2>1. IsWellFoundedOn(R, FiniteSubsetsOf(Nat)) /\ U # {}
    BY FS_StrictSubsetOrderingWellFounded
  <2> HIDE DEF U, R
  <2>2. QED
    BY <1>1, <2>1, WFMin
<1>3. PICK x \in T : u = 0..x
  BY <1>2
<1>4. ASSUME NEW y \in T, ~(x <= y) PROVE FALSE
  <2>1. x \in 0..x /\ x \notin 0..y /\ 0..y \subseteq 0..x
    BY <1>4
  <2>2. <<0..y, u>> \in R
    BY <1>3, <2>1 DEF StrictSubsetOrdering
  <2>3. QED
    BY <1>2, <2>2
<1>5. QED
  BY <1>4

LEMMA Numbers ==
    /\ N \in Nat /\ N > 0 /\ N <= MaxFd /\ Listener = 1..N
    /\ Elem = 1..(N + MaxClient + MaxForward)
    /\ 1 \in Listener /\ Listener \subseteq Elem
    /\ NULL \notin Elem /\ NULL = 0 /\ Elem \subseteq Nat \ {0}
    /\ IsFiniteSet(Elem) /\ IsFiniteSet(Listener)
<1>1. N \in Nat /\ N > 0 /\ N <= MaxFd
  BY EventLoopAssumption DEF N
<1>2. Listener = 1..N /\ Elem = 1..(N + MaxClient + MaxForward)
  BY DEF Listener, Elem, N
<1>3. IsFiniteSet(Elem) /\ IsFiniteSet(Listener)
  BY <1>1, <1>2, FS_Interval, EventLoopAssumption
<1>4. QED
  BY <1>1, <1>2, <1>3, EventLoopAssumption DEF NULL

-----------------------------------------------------------------------------
(* The list.                                                               *)

\* The last element is what the loop at the end of conn_append_socket_elem
\* finds.
LEMMA LastElem ==
    ASSUME NEW L \in Lists, NEW m \in Elem, Sorted(L, m)
    PROVE  \E e \in L.live : /\ L.next[e] = NULL
                             /\ e = CHOOSE x \in L.live : L.next[x] = NULL
                             /\ \A d \in L.live : d <= e
<1>1. PICK e \in L.live : L.next[e] = NULL
  BY DEF Sorted
<1> DEFINE c == CHOOSE x \in L.live : L.next[x] = NULL
<1>2. c \in L.live /\ L.next[c] = NULL
  BY <1>1
<1>3. \A d \in L.live : d <= c
  <2> SUFFICES ASSUME NEW d \in L.live, ~(d <= c) PROVE FALSE
    OBVIOUS
  <2>1. d \in Nat /\ c \in Nat
    BY <1>2, Numbers DEF Lists
  <2>2. c < d
    BY <2>1
  <2>3. QED
    BY <1>2, <2>2 DEF Sorted
<1>4. QED
  BY <1>2, <1>3

LEMMA AppendedList ==
    ASSUME NEW L \in Lists, made \in Elem, made + 1 \in Elem, Sorted(L, made),
           NEW f \in 1..MaxFd
    PROVE  /\ Appended(L, f) \in Lists
           /\ Sorted(Appended(L, f), made + 1)
           /\ Appended(L, f).live = L.live \cup {made + 1}
           /\ Appended(L, f).fd[made + 1] = f
           /\ \A e \in L.live : Appended(L, f).fd[e] = L.fd[e]
           /\ made + 1 \notin L.live
<1> DEFINE n == made + 1
<1>1. PICK last \in L.live : /\ last = CHOOSE x \in L.live : L.next[x] = NULL
                             /\ L.next[last] = NULL
                             /\ \A d \in L.live : d <= last
  BY LastElem
<1>2. Appended(L, f) = [L EXCEPT !.next[last] = n, !.fd[n] = f, !.live = @ \cup {n}]
  BY <1>1 DEF Appended
<1>3. PICK h \in Elem, x \in [Elem -> Elem \cup {NULL}], fs \in [Elem -> 0..MaxFd],
           l \in SUBSET Elem : L = [head |-> h, next |-> x, fd |-> fs, live |-> l]
  BY DEF Lists
<1> DEFINE M == Appended(L, f)
<1>4. M = [head |-> h, next |-> [x EXCEPT ![last] = n],
           fd |-> [fs EXCEPT ![n] = f], live |-> l \cup {n}]
  BY <1>2, <1>3
<1>5. f \in 0..MaxFd
  BY EventLoopAssumption
<1>6. /\ M.head = L.head
      /\ M.live = L.live \cup {n}
      /\ M.fd[n] = f
      /\ M.next[last] = n
      /\ \A e \in Elem \ {last} : M.next[e] = L.next[e]
      /\ \A e \in Elem \ {n} : M.fd[e] = L.fd[e]
      /\ M \in Lists
  <2>1. last \in Elem /\ n \in Elem /\ L.live = l
    BY <1>1, <1>3
  <2>2. /\ [x EXCEPT ![last] = n] \in [Elem -> Elem \cup {NULL}]
        /\ [fs EXCEPT ![n] = f] \in [Elem -> 0..MaxFd]
        /\ l \cup {n} \in SUBSET Elem
    BY <1>5, <2>1
  <2> HIDE DEF n
  <2>3. M \in Lists
    BY <1>4, <2>2 DEF Lists
  <2>4. QED
    BY <1>3, <1>4, <2>1, <2>3
<1>7. L.live \subseteq 1..made /\ L.live \subseteq Elem
  BY <1>3 DEF Sorted
<1>8. /\ made \in Nat /\ n \notin L.live /\ n # NULL
      /\ \A e \in L.live : e < n /\ e # n /\ e \in Nat /\ e # NULL
  BY <1>7, Numbers
<1> HIDE DEF M
<1>9. Sorted(M, n)
  <2>1. M.live \subseteq 1..n /\ Listener \subseteq M.live /\ M.head = 1
    BY <1>6, <1>7, <1>8 DEF Sorted
  <2>2. last # n /\ M.next[n] = NULL
    BY <1>6, <1>8 DEF Sorted
  <2>3. \A e \in L.live : e # last => L.next[e] # NULL
    BY <1>1, <1>8 DEF Sorted
  <2>4. ASSUME NEW e \in M.live
        PROVE  M.next[e] \in M.live \cup {NULL} /\ (M.next[e] # NULL => e < M.next[e])
    BY <1>6, <1>7, <1>8, <2>2 DEF Sorted
  <2>5. ASSUME NEW d \in M.live, NEW e \in M.live, d < e
        PROVE  M.next[d] # NULL /\ M.next[d] <= e
    <3>1. CASE e = n /\ d # last
      <4>1. d \in L.live /\ L.next[d] \in L.live /\ M.next[d] = L.next[d]
        BY <1>6, <1>7, <1>8, <2>3, <2>5, <3>1 DEF Sorted
      <4>2. L.next[d] < n /\ L.next[d] # NULL /\ L.next[d] \in Nat /\ n \in Nat
        BY <1>8, <4>1
      <4>3. QED
        BY <3>1, <4>1, <4>2
    <3>2. CASE d = last
      <4>1. e = n \/ e \in L.live
        BY <1>6
      <4>2. e \notin L.live
        <5> SUFFICES ASSUME e \in L.live PROVE FALSE
          OBVIOUS
        <5>1. e <= last /\ last < e /\ e \in Nat /\ last \in Nat
          BY <1>1, <1>8, <2>5, <3>2
        <5>2. QED
          BY <5>1
      <4>3. n <= n
        BY <1>8
      <4>4. QED
        BY <1>6, <1>8, <3>2, <4>1, <4>2, <4>3
    <3>3. CASE e # n /\ d # last
      BY <1>6, <1>7, <1>8, <2>5, <3>3 DEF Sorted
    <3>4. QED
      BY <3>1, <3>2, <3>3
  <2>6. \A e \in Elem : e > n => M.next[e] = NULL
    <3> SUFFICES ASSUME NEW e \in Elem, e > n PROVE M.next[e] = NULL
      OBVIOUS
    <3>1. e \in Nat /\ last \in Nat /\ last < n
      BY <1>8, Numbers
    <3>2. e > made /\ e # last
      BY <1>8, <3>1
    <3>3. QED
      BY <1>6, <3>2 DEF Sorted
  <2>7. \A e \in M.live \ {1} : \E p \in M.live : M.next[p] = e
    <3> SUFFICES ASSUME NEW e \in M.live, e # 1 PROVE \E p \in M.live : M.next[p] = e
      OBVIOUS
    <3>1. CASE e = n
      BY <1>6, <3>1
    <3>2. CASE e # n
      <4>1. PICK p \in L.live : L.next[p] = e
        BY <1>6, <3>2 DEF Sorted
      <4>2. p # last
        BY <1>1, <1>7, <3>2, <1>6, <4>1, Numbers
      <4>3. QED
        BY <1>6, <1>7, <4>1, <4>2
    <3>3. QED
      BY <3>1, <3>2
  <2>8. n \in M.live
    BY <1>6
  <2>9. QED
    BY <2>1, <2>2, <2>4, <2>5, <2>6, <2>7, <2>8 DEF Sorted
<1>10. QED
  BY <1>6, <1>7, <1>8, <1>9 DEF M

\* Only elements that are no listening sockets are ever removed.
LEMMA RemovedList ==
    ASSUME NEW L \in Lists, NEW m \in Elem, Sorted(L, m),
           NEW e \in L.live \ Listener
    PROVE  /\ Removed(L, e) \in Lists
           /\ Sorted(Removed(L, e), m)
           /\ Removed(L, e).live = L.live \ {e}
           /\ Removed(L, e).fd = L.fd
           /\ Removed(L, e).next[e] = L.next[e]
<1>1. L.head # e /\ e # 1
  BY Numbers DEF Sorted
<1> DEFINE prev == CHOOSE p \in L.live : L.next[p] = e
<1>2. prev \in L.live /\ L.next[prev] = e
  BY <1>1 DEF Sorted
<1>3. PICK h \in Elem, x \in [Elem -> Elem \cup {NULL}], fs \in [Elem -> 0..MaxFd],
           l \in SUBSET Elem : L = [head |-> h, next |-> x, fd |-> fs, live |-> l]
  BY DEF Lists
<1> DEFINE M == Removed(L, e)
<1>4. M = [L EXCEPT !.next[prev] = L.next[e], !.live = @ \ {e}]
  BY <1>1 DEF Removed
<1> HIDE DEF prev, M
<1>5. M = [head |-> h, next |-> [x EXCEPT ![prev] = x[e]], fd |-> fs, live |-> l \ {e}]
  BY <1>3, <1>4
<1>6. /\ L.live \subseteq 1..m /\ L.live \subseteq Elem /\ L.live \subseteq Nat
      /\ NULL \notin L.live
  BY <1>3, Numbers DEF Sorted
<1>7. /\ M.head = L.head
      /\ M.live = L.live \ {e}
      /\ M.fd = L.fd
      /\ M.next[prev] = L.next[e]
      /\ \A y \in Elem \ {prev} : M.next[y] = L.next[y]
      /\ M \in Lists
  BY <1>2, <1>3, <1>5, <1>6 DEF Lists
<1>8. prev < e /\ prev # e
  BY <1>2, <1>6, Numbers DEF Sorted
<1>9. \A y \in L.live : y # prev => L.next[y] # e
  <2> SUFFICES ASSUME NEW y \in L.live, y # prev, L.next[y] = e PROVE FALSE
    OBVIOUS
  <2>1. y < e
    BY Numbers DEF Sorted
  <2>2. CASE y < prev
    BY <1>2, <1>6, <1>8, <2>2 DEF Sorted
  <2>3. CASE prev < y
    BY <1>2, <1>6, <2>1, <2>3 DEF Sorted
  <2>4. QED
    BY <1>2, <1>6, <2>2, <2>3
<1>10. Sorted(M, m)
  <2>1. M.live \subseteq 1..m /\ Listener \subseteq M.live /\ M.head = 1
    BY <1>6, <1>7 DEF Sorted
  <2>2. ASSUME NEW y \in M.live
        PROVE  M.next[y] \in M.live \cup {NULL} /\ (M.next[y] # NULL => y < M.next[y])
    <3>1. CASE y = prev
      <4>1. L.next[e] \in L.live \cup {NULL} /\ (L.next[e] # NULL => e < L.next[e])
        BY DEF Sorted
      <4>2. L.next[e] # e
        BY <1>6, <4>1
      <4>3. L.next[e] # NULL => y < L.next[e]
        BY <1>2, <1>6, <1>8, <3>1, <4>1
      <4>4. QED
        BY <1>7, <3>1, <4>1, <4>2, <4>3
    <3>2. CASE y # prev
      BY <1>6, <1>7, <1>9, <3>2 DEF Sorted
    <3>3. QED
      BY <3>1, <3>2
  <2>3. ASSUME NEW y \in M.live, NEW z \in M.live, y < z
        PROVE  M.next[y] # NULL /\ M.next[y] <= z
    <3>1. CASE y = prev
      <4>1. e <= z /\ e # z
        BY <1>2, <1>7, <2>3, <3>1 DEF Sorted
      <4>2. e < z
        BY <1>6, <1>7, <4>1
      <4>3. QED
        BY <1>7, <3>1, <4>2 DEF Sorted
    <3>2. CASE y # prev
      BY <1>6, <1>7, <2>3, <3>2 DEF Sorted
    <3>3. QED
      BY <3>1, <3>2
  <2>4. \A y \in Elem : y > m => M.next[y] = NULL
    BY <1>2, <1>6, <1>7, Numbers DEF Sorted
  <2>5. \E y \in M.live : M.next[y] = NULL
    <3>1. PICK y \in L.live : L.next[y] = NULL
      BY DEF Sorted
    <3>2. CASE y = e
      BY <1>2, <1>7, <1>8, <3>1, <3>2
    <3>3. CASE y # e
      BY <1>2, <1>6, <1>7, <3>1, <3>3, Numbers
    <3>4. QED
      BY <3>2, <3>3
  <2>6. \A y \in M.live \ {1} : \E p \in M.live : M.next[p] = y
    <3> SUFFICES ASSUME NEW y \in M.live, y # 1 PROVE \E p \in M.live : M.next[p] = y
      OBVIOUS
    <3>1. PICK p \in L.live : L.next[p] = y
      BY <1>7 DEF Sorted
    <3>2. CASE p = e
      BY <1>2, <1>7, <1>8, <3>1, <3>2
    <3>3. CASE p # e
      BY <1>2, <1>6, <1>7, <3>1, <3>3
    <3>4. QED
      BY <3>2, <3>3
  <2>7. QED
    BY <2>1, <2>2, <2>3, <2>4, <2>5, <2>6 DEF Sorted
<1>11. M.next[e] = L.next[e]
  BY <1>6, <1>7, <1>8
<1>12. QED
  BY <1>7, <1>10, <1>11 DEF M

\* Where the loop goes from an element, also one that was just removed.
Onward(L, e) ==
    /\ L.next[e] \in L.live \cup {NULL}
    /\ L.next[e] # NULL => e < L.next[e]
    /\ \A d \in L.live : e < d => L.next[e] # NULL /\ L.next[e] <= d

LEMMA OnwardLive ==
    ASSUME NEW L \in Lists, NEW m \in Elem, Sorted(L, m), NEW e \in L.live
    PROVE  Onward(L, e)
  BY DEF Sorted, Onward

LEMMA OnwardRemoved ==
    ASSUME NEW L \in Lists, NEW m \in Elem, Sorted(L, m), NEW e \in L.live \ Listener
    PROVE  Onward(Removed(L, e), e)
<1> DEFINE M == Removed(L, e)
<1>1. M.live = L.live \ {e} /\ M.next[e] = L.next[e]
  BY RemovedList
<1>2. Onward(L, e) /\ e \in Nat
  BY OnwardLive, Numbers DEF Lists
<1> HIDE DEF M
<1>3. Onward(M, e)
  BY <1>1, <1>2 DEF Onward
<1>4. QED
  BY <1>3 DEF M

-----------------------------------------------------------------------------
(* Counting.                                                               *)

LEMMA Column ==
    ASSUME NEW n \in Nat
    PROVE  /\ IsFiniteSet(1..n) /\ Cardinality(1..n) = n
           /\ \A x : Cardinality({x} \X (1..n)) = n
<1>1. IsFiniteSet(1..n) /\ Cardinality(1..n) = n
  BY FS_Interval
<1>2. ASSUME NEW x PROVE Cardinality({x} \X (1..n)) = n
  <2>1. IsFiniteSet({x}) /\ Cardinality({x}) = 1
    BY FS_Singleton
  <2>2. Cardinality({x} \X (1..n)) = Cardinality({x}) * Cardinality(1..n)
    BY <1>1, <2>1, FS_Product, Zenon
  <2>3. QED
    BY <1>1, <2>1, <2>2
<1>3. QED
  BY <1>1, <1>2

LEMMA BacklogFinite ==
    ASSUME TypeOK
    PROVE  IsFiniteSet(Backlog) /\ Cardinality(Backlog) \in Nat
<1>1. IsFiniteSet(Listener \X (1..MaxClient))
  <2>1. IsFiniteSet(1..MaxClient) /\ IsFiniteSet(Listener)
    BY Column, Numbers, EventLoopAssumption
  <2>2. QED
    BY <2>1, FS_Product, Zenon
<1>2. Backlog \subseteq Listener \X (1..MaxClient)
  BY DEF Backlog
<1>3. QED
  BY <1>1, <1>2, FS_Subset, FS_CardinalityType

\* The clients that wait at one socket are among all that wait.
LEMMA BacklogOfOne ==
    ASSUME TypeOK, NEW e \in Listener
    PROVE  pending[e] \in Nat /\ pending[e] <= Cardinality(Backlog)
<1> DEFINE mine == {e} \X (1..pending[e])
<1>1. pending[e] \in 0..MaxClient /\ pending[e] \in Nat
  BY EventLoopAssumption DEF TypeOK
<1>2. mine \subseteq Backlog
  BY <1>1, EventLoopAssumption DEF Backlog
<1>3. Cardinality(mine) = pending[e]
  BY <1>1, Column
<1> HIDE DEF mine
<1>4. QED
  BY <1>1, <1>2, <1>3, BacklogFinite, FS_Subset

LEMMA BacklogGrows ==
    ASSUME TypeOK, NEW e \in Listener, pending[e] < MaxClient,
           pending' = [pending EXCEPT ![e] = @ + 1]
    PROVE  Cardinality(Backlog') = Cardinality(Backlog) + 1
<1> DEFINE new == <<e, pending[e] + 1>>
<1>1. pending[e] \in Nat /\ pending'[e] = pending[e] + 1
  BY BacklogOfOne DEF TypeOK
<1>2. new \notin Backlog
  BY <1>1 DEF Backlog
<1>3. ASSUME NEW d \in Listener, NEW k \in 1..MaxClient
      PROVE  k <= pending'[d] <=> (k <= pending[d] \/ <<d, k>> = new)
  <2>1. CASE d = e
    BY <1>1, <2>1
  <2>2. CASE d # e
    BY <2>2 DEF TypeOK
  <2>3. QED
    BY <2>1, <2>2
<1>4. new \in Listener \X (1..MaxClient)
  BY <1>1, EventLoopAssumption
<1> HIDE DEF new
<1>5. Backlog' = Backlog \cup {new}
  BY <1>3, <1>4 DEF Backlog
<1>6. QED
  BY <1>2, <1>5, BacklogFinite, FS_AddElement

LEMMA BacklogShrinks ==
    ASSUME TypeOK, NEW e \in Listener, pending[e] > 0,
           pending' = [pending EXCEPT ![e] = @ - 1]
    PROVE  Cardinality(Backlog') = Cardinality(Backlog) - 1
<1> DEFINE old == <<e, pending[e]>>
<1>1. pending[e] \in 1..MaxClient /\ pending'[e] = pending[e] - 1
  BY EventLoopAssumption DEF TypeOK
<1>2. old \in Backlog
  BY <1>1 DEF Backlog
<1>3. ASSUME NEW d \in Listener, NEW k \in 1..MaxClient
      PROVE  k <= pending'[d] <=> (k <= pending[d] /\ <<d, k>> # old)
  <2>1. CASE d = e
    BY <1>1, <2>1
  <2>2. CASE d # e
    BY <2>2 DEF TypeOK
  <2>3. QED
    BY <2>1, <2>2
<1> HIDE DEF old
<1>4. Backlog' = Backlog \ {old}
  BY <1>3 DEF Backlog
<1>5. QED
  BY <1>2, <1>4, BacklogFinite, FS_RemoveElement

\* One more line is within the bound.
LEMMA LinesBound ==
    ASSUME TypeOK, NEW e \in Elem, Cardinality(AllLines) < MaxLine
    PROVE  lines[e] < MaxLine
<1> SUFFICES ASSUME ~(lines[e] < MaxLine) PROVE FALSE
  OBVIOUS
<1> DEFINE mine == {e} \X (1..MaxLine)
<1>1. lines[e] = MaxLine
  <2>1. lines[e] \in 0..MaxLine
    BY DEF TypeOK
  <2>2. QED
    BY <2>1, EventLoopAssumption
<1>2. mine \subseteq AllLines
  BY <1>1, EventLoopAssumption DEF AllLines
<1>3. Cardinality(mine) = MaxLine /\ IsFiniteSet(1..MaxLine)
  BY Column, EventLoopAssumption
<1>4. IsFiniteSet(Elem \X (1..MaxLine))
  BY <1>3, FS_Product, Numbers, Zenon
<1>5. AllLines \subseteq Elem \X (1..MaxLine)
  BY DEF AllLines
<1>6. IsFiniteSet(AllLines)
  BY <1>4, <1>5, FS_Subset
<1> HIDE DEF mine
<1>7. Cardinality(AllLines) \in Nat /\ Cardinality(mine) <= Cardinality(AllLines)
  BY <1>2, <1>6, FS_Subset, FS_CardinalityType
<1>8. QED
  BY <1>3, <1>7, EventLoopAssumption

-----------------------------------------------------------------------------
(* The beginning, and the steps that leave the list alone.                 *)

LEMMA InitInv == Init => IInv
<1> SUFFICES ASSUME Init PROVE IInv
  OBVIOUS
<1> DEFINE nx == [e \in Elem |-> IF e < N THEN e + 1 ELSE NULL]
           fs == [e \in Elem |-> IF e \in Listener THEN e ELSE NULL]
<1>1. list = [head |-> 1, next |-> nx, fd |-> fs, live |-> 1..N] /\ made = N /\ open = 1..N
  BY Numbers, Zenon DEF Init, N
<1>2. /\ nx \in [Elem -> Elem \cup {NULL}]
      /\ fs \in [Elem -> 0..MaxFd]
      /\ N \in Elem
      /\ 1..N \in SUBSET Elem
  BY Numbers, EventLoopAssumption
<1>3. /\ \A e \in Elem : nx[e] = IF e < N THEN e + 1 ELSE 0
      /\ \A e \in Elem : e \in 1..N => fs[e] = e
  BY Numbers
<1> HIDE DEF nx, fs
<1>4. TypeOK
  <2>1. list \in Lists /\ 1 \in Elem
    BY <1>1, <1>2, Numbers DEF Lists
  <2>2. open \subseteq 1..MaxFd
    BY <1>1, Numbers, EventLoopAssumption
  <2>3. pending \in [Listener -> 0..MaxClient]
    BY EventLoopAssumption DEF Init
  <2>4. /\ lines \in [Elem -> 0..MaxLine]
        /\ taken \in [Elem -> 0..3 * MaxLine]
        /\ bye \in [Elem -> 0..MaxLine]
    BY EventLoopAssumption DEF Init
  <2>5. handled \in [Elem -> Seq(Token)]
    <3>1. <<>> \in Seq(Token)
      BY EmptySeq
    <3>2. QED
      BY <3>1 DEF Init
  <2>6. /\ tls = {} /\ ended = {} /\ connects = 0 /\ forwards = 0
        /\ loop = [pc |-> "select", elem |-> NULL, i |-> 0, num |-> 0, rfds |-> {}]
    BY DEF Init
  <2>7. QED
    BY <1>1, <1>2, <2>1, <2>2, <2>3, <2>4, <2>5, <2>6, EventLoopAssumption DEF TypeOK, Lists
<1>5. ListInv
  <2>1. Sorted(list, made)
    <3>1. /\ list.head = 1 /\ list.next = nx /\ list.live = 1..N /\ made = N
      BY <1>1
    <3>2. \A e \in 1..N : e \in Elem
      BY <1>2
    <3>3. nx[N] = NULL /\ N \in 1..N
      BY <1>2, <1>3, Numbers
    <3>4. \A e \in 1..N \ {1} : \E p \in 1..N : nx[p] = e
      <4> SUFFICES ASSUME NEW e \in 1..N, e # 1 PROVE \E p \in 1..N : nx[p] = e
        OBVIOUS
      <4>1. e - 1 \in 1..N /\ nx[e - 1] = e
        BY <1>3, <3>2, Numbers
      <4>2. QED
        BY <4>1
    <3>5. \A e \in 1..N : /\ nx[e] \in 1..N \cup {NULL}
                          /\ nx[e] # NULL => e < nx[e]
      BY <1>3, <3>2, Numbers
    <3>6. \A d, e \in 1..N : d < e => nx[d] # NULL /\ nx[d] <= e
      BY <1>3, <3>2, Numbers
    <3>7. \A e \in Elem : e > N => nx[e] = NULL
      BY <1>3, Numbers
    <3>8. Listener \subseteq 1..N
      BY Numbers
    <3>9. QED
      BY <3>1, <3>3, <3>4, <3>5, <3>6, <3>7, <3>8 DEF Sorted
  <2>2. OwnFds(list, open)
    BY <1>1, <1>2, <1>3 DEF OwnFds
  <2>3. loop.elem = NULL
    BY DEF Init
  <2>4. Count
    <3>1. Backlog = {}
      BY DEF Init, Backlog
    <3>2. QED
      BY <1>1, <3>1, FS_EmptySet, Numbers DEF Init, Count
  <2>5. Fresh
    BY DEF Init, Fresh
  <2>6. QED
    BY <2>1, <2>2, <2>3, <2>4, <2>5 DEF ListInv
<1>6. WalkInv
  BY DEF Init, WalkInv
<1>7. InputInv
  <2> SUFFICES ASSUME NEW e \in Elem \ Listener PROVE Input(e)
    BY DEF InputInv
  <2>1. /\ handled[e] = <<>> /\ Len(handled[e]) = 0 /\ LastOf(handled[e]) = 0
        /\ taken[e] = 0 /\ bye[e] = 0 /\ lines[e] = 0
    BY DEF Init, LastOf
  <2>2. QED
    BY <2>1 DEF Input, InOrder, ByeLast, Reached
<1>8. QED
  BY <1>4, <1>5, <1>6, <1>7 DEF IInv

\* What is done to others changes nothing for e.
LEMMA KeepsInput ==
    ASSUME NEW e \in Elem \ Listener, Input(e),
           lines'[e] = lines[e], taken'[e] = taken[e], bye'[e] = bye[e],
           handled'[e] = handled[e], e \in tls' <=> e \in tls,
           e \in ended' <=> e \in ended, e \in list'.live => e \in list.live
    PROVE  Input(e)'
<1>1. InOrder(e)'
  BY DEF Input, InOrder
<1>2. ByeLast(e)'
  BY DEF Input, ByeLast
<1>3. Reached(e)'
  BY DEF Input, Reached, Unread, LastOf
<1>4. QED
  BY <1>1, <1>2, <1>3 DEF Input

LEMMA SameInput ==
    ASSUME InputInv, UNCHANGED <<list, tls, ended, lines, taken, bye, handled>>
    PROVE  InputInv'
<1> SUFFICES ASSUME NEW e \in Elem \ Listener PROVE Input(e)'
  BY DEF InputInv
<1>1. QED
  BY KeepsInput DEF InputInv

\* An element that was just made has no input.
LEMMA FreshInput ==
    ASSUME NEW e \in Elem \ Listener, Fresh, e > made,
           lines'[e] = lines[e], taken'[e] = taken[e], bye'[e] = bye[e],
           handled'[e] = handled[e]
    PROVE  Input(e)'
<1>1. /\ handled'[e] = <<>> /\ Len(handled'[e]) = 0 /\ LastOf(handled'[e]) = 0
      /\ taken'[e] = 0 /\ bye'[e] = 0 /\ lines'[e] = 0
  BY DEF Fresh, LastOf
<1>2. QED
  BY <1>1 DEF Input, InOrder, ByeLast, Reached, LastOf

\* Every clause about the list but the one about the loop.
LEMMA SameList ==
    ASSUME ListInv, UNCHANGED <<list, made, tls, open, pending, ended, connects,
                                forwards, lines, taken, bye, handled>>
    PROVE  loop.elem' \in list.live \cup {NULL} => ListInv'
  BY DEF ListInv, Count, Backlog, Fresh

LEMMA SameRest ==
    ASSUME TypeOK, ListInv, InputInv,
           UNCHANGED <<list, made, tls, open, pending, ended, connects,
                       forwards, lines, taken, bye, handled>>,
           NEW pc \in {"select", "walk", "dead"}, NEW x \in list.live \cup {NULL},
           NEW i \in Nat, NEW num \in Nat, NEW r \in SUBSET (1..MaxFd),
           loop' = [pc |-> pc, elem |-> x, i |-> i, num |-> num, rfds |-> r]
    PROVE  TypeOK' /\ ListInv' /\ InputInv'
<1>1. x \in Elem \cup {NULL}
  BY DEF TypeOK
<1>2. TypeOK'
  BY <1>1 DEF TypeOK
<1>3. QED
  BY <1>2, SameList, SameInput

\* What readable elements there are, and that they count as descriptors.
LEMMA selectInv == IInv /\ select => IInv'
<1> SUFFICES ASSUME IInv, select PROVE IInv'
  OBVIOUS
<1> DEFINE R == {x \in list.live : Readable(x)}
           ready == {list.fd[e] : e \in R}
<1>1. /\ UNCHANGED <<list, made, tls, open, pending, ended, connects,
                     forwards, lines, taken, bye, handled>>
      /\ loop' = [pc |-> "walk", elem |-> list.head, i |-> 0,
                  num |-> Cardinality(ready), rfds |-> ready]
  BY DEF select
<1>2. TypeOK /\ ListInv /\ InputInv /\ list \in Lists /\ made \in Elem
  BY DEF IInv, TypeOK, Lists
<1>3. /\ R \subseteq list.live /\ list.live \subseteq Elem /\ IsFiniteSet(R)
      /\ list.live \subseteq 1..made /\ list.head = 1 /\ 1 \in list.live
  <2>1. list.live \subseteq Elem
    BY <1>2 DEF Lists
  <2>2. QED
    BY <1>2, <2>1, Numbers, FS_Subset DEF ListInv, Sorted
<1>4. ready \subseteq 1..MaxFd
  <2>1. \A e \in list.live : list.fd[e] \in open
    BY <1>2 DEF ListInv, OwnFds
  <2>2. open \subseteq 1..MaxFd
    BY <1>2 DEF TypeOK
  <2>3. QED
    BY <2>1, <2>2
<1>5. IsFiniteSet(ready) /\ Cardinality(ready) = Cardinality(R)
  <2> DEFINE g == [e \in R |-> list.fd[e]]
  <2>1. g \in Bijection(R, ready)
    <3>1. g \in [R -> ready]
      OBVIOUS
    <3>2. \A d, e \in R : g[d] = g[e] => d = e
      BY <1>2, <1>3 DEF ListInv, OwnFds
    <3>3. \A y \in ready : \E x \in R : g[x] = y
      OBVIOUS
    <3>4. QED
      BY <3>1, <3>2, <3>3 DEF Bijection, Injection, Surjection, IsInjective
  <2>2. QED
    BY <1>3, <2>1, FS_Bijection, FS_CardinalityType DEF ExistsBijection
<1>6. Cardinality(ready) \in Nat
  BY <1>5, FS_CardinalityType
<1> DEFINE num == Cardinality(ready)
<1>7. TypeOK' /\ ListInv' /\ InputInv'
  <2> HIDE DEF ready
  <2>1. loop' = [pc |-> "walk", elem |-> 1, i |-> 0, num |-> num, rfds |-> ready]
    BY <1>1, <1>3
  <2>2. num \in Nat
    BY <1>6
  <2> HIDE DEF num
  <2>3. QED
    BY <1>1, <1>2, <1>3, <1>4, <2>1, <2>2, SameRest
<1>8. WalkInv'
  <2>1. Due(made)' = R
    <3>1. \A e \in list.live : list.fd[e] \in ready <=> e \in R
      BY <1>2 DEF ListInv, OwnFds
    <3>2. /\ Due(made)' = {e \in list.live : loop'.elem # NULL /\ loop'.elem <= e
                                             /\ e <= made /\ list.fd[e] \in loop'.rfds}
      BY <1>1 DEF Due
    <3>3. loop'.elem = 1 /\ loop'.rfds = ready
      BY <1>1, <1>3
    <3>4. \A e \in list.live : 1 # NULL /\ 1 <= e /\ e <= made
      BY <1>3, <1>2, Numbers
    <3> HIDE DEF ready, R
    <3>5. QED
      BY <1>3, <3>1, <3>2, <3>3, <3>4
  <2>2. \A e \in R : Readable(e)'
    BY <1>1 DEF Readable, Unread
  <2>3. loop'.num - loop'.i = Cardinality(R)
    BY <1>1, <1>5, <1>6
  <2>4. made \in 1..made' /\ made = made'
    BY <1>1, <1>2, Numbers
  <2>5. QED
    BY <2>1, <2>2, <2>3, <2>4 DEF WalkInv
<1>9. QED
  BY <1>7, <1>8 DEF IInv

LoopType == [pc : {"select", "walk", "dead"}, elem : Elem \cup {NULL},
             i : Nat, num : Nat, rfds : SUBSET (1..MaxFd)]

LEMMA LoopRecord ==
    ASSUME TypeOK, NEW x
    PROVE  /\ loop.i \in Nat /\ loop.num \in Nat /\ loop.rfds \in SUBSET (1..MaxFd)
           /\ loop.pc \in {"select", "walk", "dead"}
           /\ [loop EXCEPT !.elem = x] =
                [pc |-> loop.pc, elem |-> x, i |-> loop.i, num |-> loop.num,
                 rfds |-> loop.rfds]
           /\ [loop EXCEPT !.elem = x, !.i = @ + 1] =
                [pc |-> loop.pc, elem |-> x, i |-> loop.i + 1, num |-> loop.num,
                 rfds |-> loop.rfds]
           /\ [loop EXCEPT !.pc = "dead"] =
                [pc |-> "dead", elem |-> loop.elem, i |-> loop.i, num |-> loop.num,
                 rfds |-> loop.rfds]
<1>1. PICK pc \in {"select", "walk", "dead"}, elem \in Elem \cup {NULL}, i \in Nat,
           num \in Nat, rfds \in SUBSET (1..MaxFd) :
        loop = [pc |-> pc, elem |-> elem, i |-> i, num |-> num, rfds |-> rfds]
  BY DEF TypeOK
<1>2. /\ loop.pc = pc /\ loop.elem = elem /\ loop.i = i /\ loop.num = num
      /\ loop.rfds = rfds
  BY <1>1
<1>3. [loop EXCEPT !.elem = x] =
        [pc |-> pc, elem |-> x, i |-> i, num |-> num, rfds |-> rfds]
  BY <1>1
<1>4. [loop EXCEPT !.elem = x, !.i = @ + 1] =
        [pc |-> pc, elem |-> x, i |-> i + 1, num |-> num, rfds |-> rfds]
  <2> DEFINE l == [loop EXCEPT !.elem = x]
  <2>1. [loop EXCEPT !.elem = x, !.i = @ + 1] = [l EXCEPT !.i = i + 1]
    BY <1>2
  <2> HIDE DEF l
  <2>2. l = [pc |-> pc, elem |-> x, i |-> i, num |-> num, rfds |-> rfds]
    BY <1>3 DEF l
  <2>3. QED
    BY <2>1, <2>2
<1>5. [loop EXCEPT !.pc = "dead"] =
        [pc |-> "dead", elem |-> elem, i |-> i, num |-> num, rfds |-> rfds]
  BY <1>1
<1>6. QED
  BY <1>2, <1>3, <1>4, <1>5

LEMMA GoesOnType ==
    ASSUME TypeOK, NEW L \in Lists, NEW e \in Elem, GoesOn(e, L)
    PROVE  loop' \in LoopType
<1>1. L.next[e] \in Elem \cup {NULL}
  BY DEF Lists
<1>2. loop' = [pc |-> loop.pc, elem |-> L.next[e], i |-> loop.i + 1,
               num |-> loop.num, rfds |-> loop.rfds]
  BY LoopRecord DEF GoesOn
<1>3. /\ loop.i \in Nat /\ loop.num \in Nat /\ loop.rfds \in SUBSET (1..MaxFd)
      /\ loop.pc \in {"select", "walk", "dead"}
  BY LoopRecord
<1>4. loop.i + 1 \in Nat
  BY <1>3
<1>5. QED
  BY <1>1, <1>2, <1>3, <1>4 DEF LoopType

LEMMA Counters ==
    ASSUME TypeOK
    PROVE  /\ connects \in Nat /\ connects <= MaxClient
           /\ forwards \in Nat /\ forwards <= MaxForward
           /\ Cardinality(Backlog) \in Nat /\ made \in Nat /\ made >= 1
<1>1. connects \in 0..MaxClient /\ forwards \in 0..MaxForward /\ made \in Elem
  BY DEF TypeOK
<1>2. QED
  BY <1>1, BacklogFinite, Numbers, EventLoopAssumption

\* The element the loop stands on is alive and comes before what is due after it.
LEMMA Standing ==
    ASSUME TypeOK, ListInv, NEW e \in Elem, Visiting(e)
    PROVE  /\ e \in list.live /\ list \in Lists /\ made \in Elem
           /\ Onward(list, e)
           /\ loop.i < loop.num /\ loop.pc = "walk" /\ loop.elem = e
           /\ list.live \subseteq Elem /\ list.live \subseteq 1..made
<1>1. e \in list.live /\ list \in Lists /\ made \in Elem /\ Sorted(list, made)
  BY DEF ListInv, Visiting, TypeOK, Lists
<1>2. Onward(list, e)
  BY <1>1, OnwardLive
<1>3. QED
  BY <1>1, <1>2 DEF Visiting, Lists, Sorted

LEMMA skipInv == ASSUME NEW e \in Elem PROVE IInv /\ skip(e) => IInv'
<1> SUFFICES ASSUME IInv, skip(e) PROVE IInv'
  OBVIOUS
<1>1. TypeOK /\ ListInv /\ InputInv /\ WalkInv
  BY DEF IInv
<1>2. /\ UNCHANGED <<list, made, tls, open, pending, ended, connects,
                     forwards, lines, taken, bye, handled>>
      /\ loop' = [loop EXCEPT !.elem = list.next[e]]
      /\ list.fd[e] \notin loop.rfds
      /\ Visiting(e)
  BY DEF skip
<1>3. /\ e \in list.live /\ Onward(list, e) /\ loop.pc = "walk" /\ loop.elem = e
      /\ list.live \subseteq Elem
  BY <1>1, <1>2, Standing
<1>4. loop' = [pc |-> loop.pc, elem |-> list.next[e], i |-> loop.i, num |-> loop.num,
               rfds |-> loop.rfds]
  BY <1>1, <1>2, LoopRecord
<1>5. TypeOK' /\ ListInv' /\ InputInv'
  <2>1. list.next[e] \in list.live \cup {NULL}
    BY <1>3 DEF Onward
  <2>2. /\ loop.i \in Nat /\ loop.num \in Nat /\ loop.rfds \in SUBSET (1..MaxFd)
        /\ loop.pc \in {"select", "walk", "dead"}
    BY <1>1, LoopRecord
  <2>3. QED
    BY <1>1, <1>2, <1>4, <2>1, <2>2, SameRest
<1>6. WalkInv'
  <2>1. PICK m \in 1..made : /\ Cardinality(Due(m)) = loop.num - loop.i
                             /\ \A d \in Due(m) : Readable(d)
    BY <1>1, <1>3 DEF WalkInv
  <2>2. Due(m)' = {d \in list.live : /\ list.next[e] # NULL /\ list.next[e] <= d
                                     /\ d <= m /\ list.fd[d] \in loop.rfds}
    BY <1>2, <1>4 DEF Due
  <2>3. Due(m) = {d \in list.live : /\ e # NULL /\ e <= d
                                    /\ d <= m /\ list.fd[d] \in loop.rfds}
    BY <1>3 DEF Due
  <2>4. ASSUME NEW d \in list.live, d # e
        PROVE  (list.next[e] # NULL /\ list.next[e] <= d) <=> (e # NULL /\ e <= d)
    <3>1. d \in Nat \ {0} /\ e \in Nat \ {0} /\ (list.next[e] \in Nat \ {0} \/ list.next[e] = 0)
      BY <1>3, Numbers DEF Onward
    <3>2. QED
      BY <1>3, <2>4, <3>1 DEF Onward, NULL
  <2>5. Due(m)' = Due(m)
    BY <1>2, <2>2, <2>3, <2>4
  <2>6. \A d \in Due(m) : Readable(d)'
    BY <1>2, <2>1 DEF Readable, Unread
  <2>7. loop'.num - loop'.i = loop.num - loop.i /\ made' = made
    BY <1>2, <1>4
  <2>8. QED
    BY <2>1, <2>5, <2>6, <2>7 DEF WalkInv
<1>7. QED
  BY <1>5, <1>6 DEF IInv

LEMMA round_doneInv == IInv /\ round_done => IInv'
<1> SUFFICES ASSUME IInv, round_done PROVE IInv'
  OBVIOUS
<1>1. TypeOK' /\ ListInv' /\ InputInv'
  <2>1. TypeOK /\ ListInv /\ InputInv /\ 0 \in Nat /\ NULL \in list.live \cup {NULL}
    BY DEF IInv
  <2>2. {} \in SUBSET (1..MaxFd)
    OBVIOUS
  <2>3. QED
    BY <2>1, <2>2, SameRest DEF round_done
<1>2. WalkInv'
  BY DEF round_done, WalkInv
<1>3. QED
  BY <1>1, <1>2 DEF IInv

\* The process ends, in one handler or another.
LEMMA DiesInv == IInv /\ NoToken => IInv'
<1> SUFFICES ASSUME IInv, NoToken PROVE IInv'
  OBVIOUS
<1>1. TypeOK /\ ListInv /\ InputInv /\ loop.elem \in list.live \cup {NULL}
  BY DEF IInv, ListInv
<1>2. loop' = [pc |-> "dead", elem |-> loop.elem, i |-> loop.i, num |-> loop.num,
               rfds |-> loop.rfds]
  BY <1>1, LoopRecord DEF NoToken, Dies
<1>3. TypeOK' /\ ListInv' /\ InputInv'
  BY <1>1, <1>2, LoopRecord, SameRest DEF NoToken
<1>4. WalkInv'
  BY <1>2 DEF WalkInv
<1>5. QED
  BY <1>3, <1>4 DEF IInv

\* select() said so of the element that is called.
LEMMA CalledDue ==
    ASSUME TypeOK, ListInv, NEW e \in Elem, Called(e),
           NEW m \in 1..made, Cardinality(Due(m)) = loop.num - loop.i
    PROVE  /\ e \in Due(m)
           /\ IsFiniteSet(Due(m)) /\ Cardinality(Due(m)) \in Nat
           /\ Due(m) = {d \in list.live : /\ e # NULL /\ e <= d
                                         /\ d <= m /\ list.fd[d] \in loop.rfds}
<1>1. /\ e \in list.live /\ list.live \subseteq Elem /\ list.live \subseteq 1..made
      /\ loop.i < loop.num /\ loop.elem = e
      /\ made \in Elem /\ list.fd[e] \in loop.rfds
  BY Standing DEF Called
<1>2. Due(m) = {d \in list.live : /\ e # NULL /\ e <= d
                                  /\ d <= m /\ list.fd[d] \in loop.rfds}
  BY <1>1 DEF Due
<1>3. /\ loop.i \in Nat /\ loop.num \in Nat /\ m \in Nat /\ made \in Nat
      /\ IsFiniteSet(Due(m)) /\ Cardinality(Due(m)) \in Nat
  <2>1. loop.i \in Nat /\ loop.num \in Nat
    BY LoopRecord
  <2>2. made \in Nat
    BY <1>1, Numbers
  <2>3. Due(m) \subseteq Elem
    BY <1>1, <1>2
  <2>4. IsFiniteSet(Due(m)) /\ Cardinality(Due(m)) \in Nat
    BY <2>3, Numbers, FS_Subset, FS_CardinalityType
  <2>5. QED
    BY <2>1, <2>2, <2>4
<1>4. Due(m) # {}
  <2>1. Cardinality(Due(m)) # 0
    BY <1>1, <1>3
  <2>2. QED
    BY <2>1, FS_EmptySet
<1>5. e <= m
  <2>1. PICK d \in Due(m) : TRUE
    BY <1>4
  <2>2. e <= d /\ d <= m /\ d \in Elem
    BY <1>1, <1>2, <2>1
  <2>3. QED
    BY <1>3, <2>2, Numbers
<1>6. e # NULL /\ e <= e
  BY <1>1, Numbers
<1>7. QED
  BY <1>1, <1>2, <1>3, <1>5, <1>6

\* After a handler: e is called, it leaves the list L, and the loop goes on.
LEMMA CalledGoesOn ==
    ASSUME TypeOK, ListInv, WalkInv, NEW e \in Elem, Called(e), GoesOn(e, list'),
           Onward(list', e), list' \in Lists, made <= made', made' \in Nat,
           list.live \ {e} \subseteq list'.live,
           \A d \in list'.live : d \in list.live \/ d > made,
           \A d \in list.live : list'.fd[d] = list.fd[d],
           \A d \in list.live \ {e} : Readable(d) => Readable(d)'
    PROVE  WalkInv' /\ loop'.elem \in list'.live \cup {NULL}
<1>1. /\ e \in list.live /\ list.live \subseteq Elem /\ list.live \subseteq 1..made
      /\ loop.i < loop.num /\ loop.pc = "walk" /\ loop.elem = e
      /\ made \in Elem /\ list.fd[e] \in loop.rfds
  BY Standing DEF Called
<1> DEFINE n == list'.next[e]
<1>2. loop' = [pc |-> loop.pc, elem |-> n, i |-> loop.i + 1, num |-> loop.num,
               rfds |-> loop.rfds]
  BY LoopRecord DEF GoesOn
<1>3. n \in list'.live \cup {NULL} /\ list'.live \subseteq Elem
  BY DEF Onward, Lists
<1>4. PICK m \in 1..made : /\ Cardinality(Due(m)) = loop.num - loop.i
                           /\ \A d \in Due(m) : Readable(d)
  BY <1>1 DEF WalkInv
<1>5. Due(m) = {d \in list.live : /\ e # NULL /\ e <= d
                                  /\ d <= m /\ list.fd[d] \in loop.rfds}
  BY <1>4, CalledDue
<1>6. Due(m)' = {d \in list'.live : /\ n # NULL /\ n <= d
                                    /\ d <= m /\ list'.fd[d] \in loop.rfds}
  BY <1>2 DEF Due
<1>7. /\ loop.i \in Nat /\ loop.num \in Nat /\ m \in Nat /\ made \in Nat
      /\ IsFiniteSet(Due(m)) /\ Cardinality(Due(m)) \in Nat
  <2>1. loop.i \in Nat /\ loop.num \in Nat
    BY LoopRecord
  <2>2. made \in Nat
    BY <1>1, Numbers
  <2>3. QED
    BY <1>4, <2>1, <2>2, CalledDue
<1>8. e \in Due(m)
  BY <1>4, CalledDue
<1>9. ASSUME NEW d \in list.live, d # e
      PROVE  (n # NULL /\ n <= d) <=> (e # NULL /\ e <= d)
  <2>1. d \in list'.live
    BY <1>9
  <2>2. d \in Nat \ {0} /\ e \in Nat \ {0} /\ (n \in Nat \ {0} \/ n = 0)
    BY <1>1, <1>3, Numbers
  <2>3. QED
    BY <1>9, <2>1, <2>2 DEF Onward, NULL
<1>10. e \notin Due(m)'
  <2>1. n # NULL => e < n
    BY DEF Onward
  <2>2. e \in Nat /\ (n \in Nat \/ n = NULL)
    BY <1>3, Numbers
  <2>3. QED
    BY <1>6, <2>1, <2>2
<1>11. Due(m)' = Due(m) \ {e}
  <2>1. ASSUME NEW d \in Due(m)' PROVE d \in list.live
    <3>1. d \in list'.live /\ d <= m /\ d \in Nat
      BY <1>3, <1>6, Numbers
    <3>2. ~(d > made)
      BY <1>7, <3>1
    <3>3. QED
      BY <3>1, <3>2
  <2> HIDE DEF n
  <2>2. QED
    BY <1>5, <1>6, <1>9, <1>10, <2>1
<1>12. Cardinality(Due(m)') = loop.num - (loop.i + 1)
  <2>1. Cardinality(Due(m) \ {e}) = Cardinality(Due(m)) - 1
    BY <1>7, <1>8, FS_RemoveElement
  <2> HIDE DEF n
  <2>2. QED
    BY <1>4, <1>7, <1>11, <2>1
<1>13. \A d \in Due(m)' : Readable(d)'
  BY <1>4, <1>5, <1>11
<1>14. WalkInv'
  <2>1. m \in 1..made'
    BY <1>7
  <2>2. loop'.num - loop'.i = loop.num - (loop.i + 1)
    BY <1>2
  <2>3. QED
    BY <1>12, <1>13, <2>1, <2>2 DEF WalkInv
<1>15. QED
  BY <1>2, <1>3, <1>14

-----------------------------------------------------------------------------
(* Accepting.                                                              *)

LEMMA AppendedOwn ==
    ASSUME NEW L \in Lists, made \in Elem, made + 1 \in Elem, Sorted(L, made),
           NEW fds, OwnFds(L, fds), NEW f \in 1..MaxFd, f \notin fds
    PROVE  OwnFds(Appended(L, f), fds \cup {f})
<1> DEFINE M == Appended(L, f)
<1>1. /\ M.live = L.live \cup {made + 1} /\ M.fd[made + 1] = f
      /\ \A e \in L.live : M.fd[e] = L.fd[e]
      /\ made + 1 \notin L.live
  BY AppendedList
<1> HIDE DEF M
<1>2. OwnFds(M, fds \cup {f})
  BY <1>1 DEF OwnFds
<1>3. QED
  BY <1>2 DEF M

\* There is an element for every client that waits.
LEMMA Room ==
    ASSUME TypeOK, Count, NEW e \in Listener, pending[e] > 0
    PROVE  made + 1 \in Elem
<1>1. pending[e] \in Nat /\ pending[e] <= Cardinality(Backlog) /\ Cardinality(Backlog) \in Nat
  BY BacklogOfOne, BacklogFinite
<1>2. /\ connects \in Nat /\ connects <= MaxClient /\ forwards \in Nat
      /\ forwards <= MaxForward /\ made \in Nat /\ made >= 1
  BY Counters
<1>3. made + 1 <= N + MaxClient + MaxForward
  BY <1>1, <1>2, Numbers, EventLoopAssumption DEF Count
<1>4. QED
  BY <1>2, <1>3, Numbers, EventLoopAssumption

LEMMA ListenerCalled ==
    ASSUME IInv, NEW e \in Listener, Called(e), Readable(e)
    PROVE  /\ pending[e] > 0 /\ pending[e] \in 1..MaxClient
           /\ made + 1 \in Elem /\ e \in Elem
           /\ e \in list.live /\ list \in Lists /\ made \in Elem /\ made \in Nat
           /\ list.live \subseteq Elem /\ Sorted(list, made)
<1>1. pending[e] > 0 /\ TypeOK /\ ListInv /\ e \in Elem
  BY Numbers DEF Readable, IInv
<1>2. pending[e] \in 1..MaxClient
  <2>1. pending[e] \in 0..MaxClient
    BY <1>1 DEF TypeOK
  <2>2. QED
    BY <1>1, <2>1, EventLoopAssumption
<1>3. /\ e \in list.live /\ list \in Lists /\ made \in Elem
      /\ list.live \subseteq Elem /\ Sorted(list, made)
  BY <1>1, Standing DEF Called, ListInv
<1>4. made + 1 \in Elem
  BY <1>1, Room DEF ListInv
<1>5. QED
  BY <1>1, <1>2, <1>3, <1>4, Numbers

\* The new element is the last one, and has the new descriptor.
LEMMA AcceptedInv ==
    ASSUME IInv, NEW e \in Listener, Called(e), Readable(e), Accepted(e),
           tls' \in {tls, tls \cup {made + 1}}
    PROVE  IInv'
<1> DEFINE n == made + 1
<1>1. PICK f \in NewFds :
        /\ list' = Appended(list, f)
        /\ made' = n
        /\ open' = open \cup {f}
        /\ pending' = [pending EXCEPT ![e] = @ - 1]
        /\ GoesOn(e, list')
        /\ UNCHANGED <<ended, connects, forwards, lines, taken, bye, handled>>
  BY DEF Accepted
<1>2. TypeOK /\ ListInv /\ WalkInv /\ InputInv
  BY DEF IInv
<1>3. /\ pending[e] > 0 /\ pending[e] \in 1..MaxClient /\ n \in Elem /\ e \in Elem
      /\ e \in list.live /\ list \in Lists /\ made \in Elem /\ made \in Nat
      /\ list.live \subseteq Elem /\ Sorted(list, made)
  BY ListenerCalled
<1>4. f \in 1..MaxFd /\ f \notin open
  BY DEF NewFds
<1>5. /\ list' \in Lists /\ Sorted(list', n)
      /\ list'.live = list.live \cup {n} /\ n \notin list.live
      /\ \A d \in list.live : list'.fd[d] = list.fd[d]
  BY <1>1, <1>3, <1>4, AppendedList
<1>6. Onward(list', e)
  BY <1>3, <1>5, OnwardLive
<1>7. \A d \in list.live \ {e} : Readable(d) => Readable(d)'
  <2>1. \A d \in Listener \ {e} : pending'[d] = pending[d]
    BY <1>1, <1>2 DEF TypeOK
  <2>2. QED
    BY <1>1, <2>1 DEF Readable, Unread
<1>8. WalkInv' /\ loop'.elem \in list'.live \cup {NULL}
  <2>1. made <= made' /\ made' \in Nat
    BY <1>1, <1>3
  <2>2. \A d \in list'.live : d \in list.live \/ d > made
    BY <1>3, <1>5
  <2>3. list.live \ {e} \subseteq list'.live
    BY <1>5
  <2>4. GoesOn(e, list')
    BY <1>1
  <2> HIDE DEF n
  <2>5. QED
    BY <1>2, <1>3, <1>5, <1>6, <1>7, <2>1, <2>2, <2>3, <2>4, CalledGoesOn
<1>9. TypeOK'
  <2>1. tls' \subseteq Elem \ Listener
    <3>1. n \notin Listener
      BY <1>3, <1>5 DEF Sorted
    <3>2. QED
      BY <1>2, <1>3, <3>1 DEF TypeOK
  <2>2. open' \subseteq 1..MaxFd
    BY <1>1, <1>2, <1>4 DEF TypeOK
  <2>3. pending' \in [Listener -> 0..MaxClient]
    <3>1. pending[e] - 1 \in 0..MaxClient
      BY <1>3, EventLoopAssumption
    <3>2. QED
      BY <1>1, <1>2, <3>1 DEF TypeOK
  <2>4. loop' \in LoopType
    BY <1>1, <1>2, <1>3, <1>5, GoesOnType
  <2>5. list' \in Lists /\ made' \in Elem
    BY <1>1, <1>3, <1>5
  <2> HIDE DEF n
  <2>6. QED
    BY <1>1, <1>2, <2>1, <2>2, <2>3, <2>4, <2>5 DEF TypeOK, Lists, LoopType
<1>10. ListInv'
  <2>1. Sorted(list', made')
    BY <1>1, <1>5
  <2>2. OwnFds(list', open')
    BY <1>1, <1>2, <1>3, <1>4, AppendedOwn DEF ListInv
  <2>3. Count'
    <3>1. Cardinality(Backlog') = Cardinality(Backlog) - 1
      BY <1>1, <1>2, <1>3, BacklogShrinks
    <3>2. connects \in Nat /\ forwards \in Nat /\ Cardinality(Backlog) \in Nat
      BY <1>2, Counters
    <3>3. QED
      BY <1>1, <1>2, <1>3, <3>1, <3>2, Numbers DEF ListInv, Count
  <2>4. Fresh'
    <3>1. ASSUME NEW d \in Elem, d > made' PROVE d > made /\ d \notin tls' \ tls
      BY <1>1, <1>3, <3>1, Numbers
    <3>2. QED
      BY <1>1, <1>2, <1>5, <3>1 DEF ListInv, Fresh
  <2>5. QED
    BY <1>8, <2>1, <2>2, <2>3, <2>4 DEF ListInv
<1>11. InputInv'
  <2> SUFFICES ASSUME NEW d \in Elem \ Listener PROVE Input(d)'
    BY DEF InputInv
  <2>1. CASE d = n
    <3>1. d > made /\ Fresh
      BY <1>2, <1>3, <2>1 DEF ListInv
    <3>2. QED
      BY <1>1, <3>1, FreshInput
  <2>2. CASE d # n
    <3>1. Input(d) /\ (d \in tls' <=> d \in tls) /\ (d \in list'.live => d \in list.live)
      BY <1>2, <1>5, <2>2 DEF InputInv
    <3>2. QED
      BY <1>1, <3>1, KeepsInput
  <2>3. QED
    BY <2>1, <2>2
<1>12. QED
  BY <1>8, <1>9, <1>10, <1>11 DEF IInv

\* accept() failed, or the new client is gone again: the list is as it was.
LEMMA TurnedAwayInv ==
    ASSUME IInv, NEW e \in Listener, Called(e), Readable(e), GoesOn(e, list),
           pending' \in {pending, [pending EXCEPT ![e] = @ - 1]},
           UNCHANGED <<list, made, tls, open, ended, connects, forwards, lines,
                       taken, bye, handled>>
    PROVE  IInv'
<1>1. TypeOK /\ ListInv /\ WalkInv /\ InputInv
  BY DEF IInv
<1>2. /\ pending[e] > 0 /\ pending[e] \in 1..MaxClient /\ e \in Elem
      /\ e \in list.live /\ list \in Lists /\ made \in Elem /\ made \in Nat
      /\ list.live \subseteq Elem /\ Sorted(list, made)
  BY ListenerCalled
<1>3. Onward(list, e)
  BY <1>2, OnwardLive
<1>4. \A d \in list.live \ {e} : Readable(d) => Readable(d)'
  <2>1. \A d \in Listener \ {e} : pending'[d] = pending[d]
    BY <1>1 DEF TypeOK
  <2>2. QED
    BY <2>1 DEF Readable, Unread
<1>5. WalkInv' /\ loop'.elem \in list.live \cup {NULL}
  <2>1. Onward(list', e) /\ GoesOn(e, list') /\ list' \in Lists
    BY <1>2, <1>3
  <2>2. made <= made' /\ made' \in Nat /\ list' = list
    BY <1>2
  <2>3. QED
    BY <1>1, <1>2, <1>4, <2>1, <2>2, CalledGoesOn
<1>6. TypeOK'
  <2>1. pending' \in [Listener -> 0..MaxClient]
    <3>1. pending[e] - 1 \in 0..MaxClient
      BY <1>2, EventLoopAssumption
    <3>2. QED
      BY <1>1, <3>1 DEF TypeOK
  <2>2. loop' \in LoopType
    BY <1>1, <1>2, GoesOnType
  <2>3. QED
    BY <1>1, <2>1, <2>2 DEF TypeOK, LoopType
<1>7. ListInv'
  <2>1. Count'
    <3>1. Cardinality(Backlog') \in {Cardinality(Backlog), Cardinality(Backlog) - 1}
      <4>1. CASE pending' = pending
        BY <4>1 DEF Backlog
      <4>2. CASE pending' = [pending EXCEPT ![e] = @ - 1]
        BY <1>1, <1>2, <4>2, BacklogShrinks
      <4>3. QED
        BY <4>1, <4>2
    <3>2. connects \in Nat /\ forwards \in Nat /\ Cardinality(Backlog) \in Nat
      BY <1>1, Counters
    <3>3. QED
      BY <1>1, <1>2, <3>1, <3>2, Numbers DEF ListInv, Count
  <2>2. QED
    BY <1>1, <1>5, <2>1 DEF ListInv, Fresh
<1>8. QED
  BY <1>1, <1>5, <1>6, <1>7, SameInput DEF IInv

-----------------------------------------------------------------------------
(* Reading: the list.                                                      *)

\* What a handler may have done to the list before it returns.
ForwardingSound(after) ==
    /\ after.list \in Lists /\ Sorted(after.list, after.made)
    /\ OwnFds(after.list, after.open)
    /\ after.made \in Elem /\ made <= after.made
    /\ after.open \subseteq 1..MaxFd
    /\ list.live \subseteq after.list.live
    /\ \A d \in after.list.live : d \in list.live \/ d > made
    /\ \A d \in list.live : after.list.fd[d] = list.fd[d]
    /\ LET more == IF after.open = open THEN 0 ELSE 1
       IN  forwards + more \in 0..MaxForward /\ after.made <= made + more

LEMMA ForwardingIsSound ==
    ASSUME IInv, NEW after \in Forwarding
    PROVE  ForwardingSound(after)
<1>1. /\ TypeOK /\ ListInv /\ list \in Lists /\ made \in Elem /\ made \in Nat
      /\ Sorted(list, made) /\ OwnFds(list, open) /\ open \subseteq 1..MaxFd
      /\ list.live \subseteq Elem
  BY Numbers DEF IInv, ListInv, TypeOK, Lists
<1>2. CASE after = [list |-> list, made |-> made, open |-> open]
  <2>1. after.list = list /\ after.made = made /\ after.open = open
    BY <1>2
  <2>2. forwards + 0 \in 0..MaxForward /\ made <= made + 0 /\ made <= made
    BY <1>1, Counters, EventLoopAssumption
  <2>3. QED
    BY <1>1, <2>1, <2>2 DEF ForwardingSound
<1>3. ASSUME forwards # MaxForward, NEW f \in NewFds,
             \/ after = [list |-> Appended(list, f), made |-> made + 1,
                         open |-> open \cup {f}]
             \/ after = [list |-> list, made |-> made, open |-> open \cup {f}]
      PROVE  ForwardingSound(after)
  <2>1. f \in 1..MaxFd /\ f \notin open
    BY DEF NewFds
  <2>2. after.open = open \cup {f} /\ after.open # open /\ after.open \subseteq 1..MaxFd
    <3>1. after.open = open \cup {f}
      BY <1>3
    <3>2. open \cup {f} # open /\ open \cup {f} \subseteq 1..MaxFd
      BY <1>1, <2>1
    <3>3. QED
      BY <3>1, <3>2
  <2>3. forwards + 1 \in 0..MaxForward /\ made <= made + 1 /\ made <= made
    BY <1>1, <1>3, Counters, EventLoopAssumption
  <2>4. made + 1 \in Elem
    <3>1. made + 1 <= N + MaxClient + MaxForward
      BY <1>1, <2>3, Counters, Numbers, EventLoopAssumption DEF ListInv, Count
    <3>2. QED
      BY <1>1, <3>1, Numbers, EventLoopAssumption
  <2>5. CASE after = [list |-> Appended(list, f), made |-> made + 1,
                      open |-> open \cup {f}]
    <3> DEFINE M == Appended(list, f)
    <3>1. after.list = M /\ after.made = made + 1
      BY <2>5
    <3>2. /\ M \in Lists /\ Sorted(M, made + 1)
          /\ M.live = list.live \cup {made + 1}
          /\ \A d \in list.live : M.fd[d] = list.fd[d]
      BY <1>1, <2>1, <2>4, AppendedList
    <3>3. OwnFds(M, open \cup {f})
      BY <1>1, <2>1, <2>4, AppendedOwn
    <3>4. (\A d \in M.live : d \in list.live \/ d > made) /\ made + 1 <= made + 1
      BY <1>1, <3>2
    <3> HIDE DEF M
    <3>5. QED
      BY <2>2, <2>3, <2>4, <3>1, <3>2, <3>3, <3>4 DEF ForwardingSound
  <2>6. CASE after = [list |-> list, made |-> made, open |-> open \cup {f}]
    <3>1. after.list = list /\ after.made = made
      BY <2>6
    <3>2. OwnFds(list, after.open)
      BY <1>1, <2>2 DEF OwnFds
    <3>3. /\ after.list \in Lists /\ Sorted(after.list, after.made)
          /\ after.made \in Elem /\ made <= after.made /\ after.made <= made + 1
          /\ list.live \subseteq after.list.live
          /\ \A d \in after.list.live : d \in list.live \/ d > made
          /\ \A d \in list.live : after.list.fd[d] = list.fd[d]
          /\ OwnFds(after.list, after.open)
      BY <1>1, <2>3, <3>1, <3>2
    <3>4. (IF after.open = open THEN 0 ELSE 1) = 1
      BY <2>2
    <3>5. after.open \subseteq 1..MaxFd
      BY <2>2
    <3>6. QED
      BY <2>3, <3>3, <3>4, <3>5, Zenon DEF ForwardingSound
  <2>7. QED
    BY <1>3, <2>5, <2>6
<1>4. QED
  BY <1>2, <1>3 DEF Forwarding

LEMMA DeletedOwn ==
    ASSUME NEW L \in Lists, NEW m \in Elem, Sorted(L, m), NEW fds, OwnFds(L, fds),
           NEW e \in L.live \ Listener
    PROVE  OwnFds(Removed(L, e), fds \ {L.fd[e]})
<1> DEFINE M == Removed(L, e)
<1>1. M.live = L.live \ {e} /\ M.fd = L.fd
  BY RemovedList
<1> HIDE DEF M
<1>2. OwnFds(M, fds \ {L.fd[e]})
  BY <1>1 DEF OwnFds
<1>3. QED
  BY <1>2 DEF M

\* A handler returned: e stays, or is deleted with what it had left to read.
LEMMA HandlerInv ==
    ASSUME IInv, NEW e \in Elem \ Listener, Called(e), NEW after \in Forwarding,
           made' = after.made,
           forwards' = forwards + (IF after.open = open THEN 0 ELSE 1),
           \/ list' = after.list /\ open' = after.open /\ ended' = ended
           \/ Deleted(e, after.list, after.open),
           GoesOn(e, list'),
           UNCHANGED <<tls, pending, connects, lines, bye>>,
           taken' \in [Elem -> 0..3 * MaxLine], handled' \in [Elem -> Seq(Token)],
           \A d \in Elem \ {e} : taken'[d] = taken[d] /\ handled'[d] = handled[d],
           Input(e)'
    PROVE  IInv'
<1> DEFINE L == after.list
<1>1. TypeOK /\ ListInv /\ WalkInv /\ InputInv
  BY DEF IInv
<1>2. /\ e \in list.live /\ list.live \subseteq Elem /\ list.live \subseteq 1..made
      /\ made \in Elem /\ made \in Nat
  BY <1>1, Standing, Numbers DEF Called
<1>3. /\ L \in Lists /\ Sorted(L, after.made) /\ OwnFds(L, after.open)
      /\ after.made \in Elem /\ made <= after.made /\ after.open \subseteq 1..MaxFd
      /\ list.live \subseteq L.live
      /\ \A d \in L.live : d \in list.live \/ d > made
      /\ \A d \in list.live : L.fd[d] = list.fd[d]
      /\ forwards' \in 0..MaxForward /\ after.made <= made + (forwards' - forwards)
  BY <1>1, ForwardingIsSound, Counters DEF ForwardingSound
<1> HIDE DEF L
<1>4. e \in L.live \ Listener
  BY <1>2, <1>3
<1>5. /\ list' \in Lists /\ Sorted(list', after.made) /\ Onward(list', e)
      /\ OwnFds(list', open') /\ open' \subseteq 1..MaxFd
      /\ list.live \ {e} \subseteq list'.live /\ list'.live \subseteq L.live
      /\ \A d \in list.live : list'.fd[d] = list.fd[d]
      /\ ended' \subseteq ended /\ ended \ {e} \subseteq ended'
      /\ ended' \cap {e} \subseteq list'.live
  <2>1. CASE list' = L /\ open' = after.open /\ ended' = ended
    <3>1. Onward(L, e)
      BY <1>3, <1>4, OnwardLive
    <3>2. QED
      BY <1>3, <1>4, <2>1, <3>1
  <2>2. CASE Deleted(e, after.list, after.open)
    <3>1. /\ list' = Removed(L, e) /\ open' = after.open \ {L.fd[e]}
          /\ ended' = ended \ {e}
      BY <1>2, <1>3, <2>2 DEF Deleted, L
    <3>2. /\ list' \in Lists /\ Sorted(list', after.made)
          /\ list'.live = L.live \ {e} /\ list'.fd = L.fd
      BY <1>3, <1>4, <3>1, RemovedList
    <3>3. Onward(list', e)
      BY <1>3, <1>4, <3>1, OnwardRemoved
    <3>4. OwnFds(list', open')
      BY <1>3, <1>4, <3>1, DeletedOwn
    <3>5. QED
      BY <1>3, <3>1, <3>2, <3>3, <3>4
  <2>3. QED
    BY <2>1, <2>2 DEF L
<1>6. \A d \in list.live \ {e} : Readable(d) => Readable(d)'
  BY <1>2, <1>5 DEF Readable, Unread
<1>7. WalkInv' /\ loop'.elem \in list'.live \cup {NULL}
  <2>1. made <= made' /\ made' \in Nat
    BY <1>3, Numbers
  <2>2. \A d \in list'.live : d \in list.live \/ d > made
    BY <1>3, <1>5
  <2>3. QED
    BY <1>1, <1>5, <1>6, <2>1, <2>2, CalledGoesOn
<1>8. TypeOK'
  <2>1. loop' \in LoopType
    BY <1>1, <1>5, GoesOnType
  <2>2. ended' \subseteq Elem
    BY <1>1, <1>5 DEF TypeOK
  <2>3. QED
    BY <1>1, <1>3, <1>5, <2>1, <2>2 DEF TypeOK, Lists, LoopType
<1>9. ListInv'
  <2>1. Count'
    <3>1. Cardinality(Backlog') = Cardinality(Backlog)
      BY DEF Backlog
    <3>2. connects \in Nat /\ forwards \in Nat /\ Cardinality(Backlog) \in Nat /\ forwards' \in Nat
      BY <1>1, <1>3, Counters, EventLoopAssumption
    <3>3. made' \in Nat /\ made' <= made + (forwards' - forwards)
      BY <1>3, Numbers
    <3>4. QED
      BY <1>1, <1>2, <3>1, <3>2, <3>3, Numbers DEF ListInv, Count
  <2>2. Fresh'
    <3>1. ended' \subseteq list'.live
      BY <1>1, <1>5 DEF ListInv, Fresh
    <3>2. ASSUME NEW d \in Elem, d > made' PROVE d > made /\ d # e
      BY <1>2, <1>3, <3>2, Numbers
    <3>3. QED
      BY <1>1, <3>1, <3>2 DEF ListInv, Fresh
  <2>3. QED
    BY <1>5, <1>7, <2>1, <2>2 DEF ListInv
<1>10. InputInv'
  <2> SUFFICES ASSUME NEW d \in Elem \ Listener PROVE Input(d)'
    BY DEF InputInv
  <2>1. CASE d = e
    BY <2>1
  <2>2. CASE d # e /\ d > made
    BY <1>1, <2>2, FreshInput DEF ListInv
  <2>3. CASE d # e /\ ~(d > made)
    <3>1. Input(d) /\ (d \in ended' <=> d \in ended)
      BY <1>1, <1>5, <2>3 DEF InputInv
    <3>2. d \in list'.live => d \in list.live
      BY <1>3, <1>5, <2>3
    <3>3. QED
      BY <2>3, <3>1, <3>2, KeepsInput
  <2>4. QED
    BY <2>1, <2>2, <2>3
<1>11. QED
  BY <1>7, <1>8, <1>9, <1>10 DEF IInv

-----------------------------------------------------------------------------
(* Reading: the input.                                                     *)

LEMMA Atoms ==
    /\ \A a \in Nat : /\ LineOf(a) \in Nat
                      /\ Newline(a) => a = 3 * LineOf(a)
                      /\ ~Newline(a) =>
                            a = 3 * LineOf(a) - 1 \/ a = 3 * LineOf(a) - 2
                      /\ a <= 3 * LineOf(a) /\ 3 * LineOf(a) <= a + 2
    /\ \A n \in Nat : LineOf(3 * n + 1) = n + 1 /\ LineOf(3 * n + 2) = n + 1
                      /\ ~Newline(3 * n + 1) /\ ~Newline(3 * n + 2)
                      /\ Newline(3 * n) /\ LineOf(3 * n) = n
  BY DEF LineOf, Newline

\* The tokens of one read: the next text, all of it, and each within its line.
LEMMA TokensShape ==
    ASSUME NEW lo \in Nat, lo > 0, NEW hi \in Nat, lo <= hi,
           NEW t, t = Tokens(lo, hi)
    PROVE  /\ t \in Seq(Token)
           /\ \A k \in 1..Len(t) : /\ t[k].first <= t[k].last
                                   /\ t[k].last < 3 * LineOf(t[k].first)
                                   /\ lo <= t[k].first /\ t[k].last <= hi
           /\ \A k \in 1..Len(t) : k > 1 => t[k].first = NextText(t[k - 1].last)
           /\ t # <<>> =>
                /\ t[1].first = NextText(lo - 1)
                /\ \/ t[Len(t)].last = hi
                   \/ t[Len(t)].last + 1 = hi /\ Newline(hi)
<1> DEFINE from == LineOf(IF Newline(lo) THEN lo + 1 ELSE lo)
           len == LineOf(hi) + 1 - from
           first(n) == IF lo > 3 * n - 2 THEN lo ELSE 3 * n - 2
           last(n) == IF hi < 3 * n - 1 THEN hi ELSE 3 * n - 1
<1>1. /\ from \in Nat /\ LineOf(hi) \in Nat /\ len \in Nat
      /\ from > 0
      /\ 3 * from - 2 = NextText(lo - 1) \/ 3 * from - 1 = NextText(lo - 1)
      /\ lo <= NextText(lo - 1) /\ NextText(lo - 1) <= lo + 1
      /\ lo > 3 * from - 2 => lo = NextText(lo - 1)
      /\ ~(lo > 3 * from - 2) => 3 * from - 2 = NextText(lo - 1)
  BY DEF LineOf, Newline, NextText
<1>2. t = [k \in 1..len |-> [first |-> first(from + k - 1), last |-> last(from + k - 1)]]
  BY DEF Tokens
<1>3. ASSUME NEW n \in Nat, from <= n, n <= LineOf(hi)
      PROVE  /\ first(n) \in Nat /\ last(n) \in Nat
             /\ first(n) <= last(n) /\ last(n) < 3 * LineOf(first(n))
             /\ lo <= first(n) /\ last(n) <= hi
             /\ n < LineOf(hi) => last(n) = 3 * n - 1
             /\ n > from => first(n) = 3 * n - 2
             /\ n = LineOf(hi) => (last(n) = hi \/ (last(n) + 1 = hi /\ Newline(hi)))
             /\ n = from => first(n) = NextText(lo - 1)
  <2> DEFINE h == LineOf(hi)
  <2>1. /\ 3 * from - 3 <= lo /\ lo <= 3 * from - 1 /\ from \in Nat /\ from > 0
    BY DEF LineOf, Newline
  <2>2. /\ 3 * h - 2 <= hi /\ hi <= 3 * h /\ (hi = 3 * h => Newline(hi)) /\ h \in Nat
    BY DEF LineOf, Newline
  <2> HIDE DEF from, h
  <2>3. /\ n > 0 /\ 3 * from <= 3 * n /\ 3 * n <= 3 * h
        /\ n < h => 3 * n + 3 <= 3 * h
        /\ n > from => 3 * n >= 3 * from + 3
    BY <1>3, <2>1, <2>2 DEF h
  <2>4. first(n) \in Nat /\ last(n) \in Nat
    BY <2>3
  <2>5. first(n) = 3 * n - 2 \/ first(n) = 3 * n - 1
    BY <2>1, <2>3
  <2>6. LineOf(first(n)) = n
    BY <2>3, <2>5 DEF LineOf
  <2>7. n = h => (last(n) = hi \/ (last(n) + 1 = hi /\ Newline(hi)))
    BY <2>2, <2>3
  <2>8. first(n) <= last(n) /\ last(n) < 3 * n /\ last(n) <= hi /\ lo <= first(n)
    BY <2>1, <2>2, <2>3
  <2>9. n > from => first(n) = 3 * n - 2
    BY <2>1, <2>3
  <2>10. n = from => first(n) = NextText(lo - 1)
    BY <1>1
  <2>11. n < h => last(n) = 3 * n - 1
    BY <2>2, <2>3
  <2>12. QED
    BY <2>4, <2>6, <2>7, <2>8, <2>9, <2>10, <2>11 DEF h
<1> HIDE DEF from, first, last
<1>4. ASSUME NEW k \in 1..len
      PROVE  from + k - 1 \in Nat /\ from <= from + k - 1 /\ from + k - 1 <= LineOf(hi)
  BY <1>1
<1>5. /\ t \in Seq(Token) /\ Len(t) = len
      /\ \A k \in 1..len : t[k].first = first(from + k - 1) /\ t[k].last = last(from + k - 1)
  <2> HIDE DEF len
  <2>1. \A k \in 1..len :
            [first |-> first(from + k - 1), last |-> last(from + k - 1)] \in Token
    BY <1>3, <1>4 DEF Token
  <2>2. t \in [1..len -> Token] /\ len \in Nat
    BY <1>1, <1>2, <2>1
  <2>3. t \in Seq(Token) /\ Len(t) = len
    BY <2>2
  <2>4. ASSUME NEW k \in 1..len
        PROVE  t[k] = [first |-> first(from + k - 1), last |-> last(from + k - 1)]
    BY <1>2
  <2>5. QED
    BY <2>3, <2>4
<1>6. \A k \in 1..len : /\ t[k].first <= t[k].last
                        /\ t[k].last < 3 * LineOf(t[k].first)
                        /\ lo <= t[k].first /\ t[k].last <= hi
  BY <1>3, <1>4, <1>5
<1>7. ASSUME NEW k \in 1..len, k > 1 PROVE t[k].first = NextText(t[k - 1].last)
  <2> DEFINE n == from + k - 1
  <2>1. /\ n \in Nat /\ n > from /\ n <= LineOf(hi) /\ k - 1 \in 1..len
        /\ from + (k - 1) - 1 = n - 1 /\ n - 1 \in Nat /\ n - 1 < LineOf(hi)
        /\ from <= n - 1
    BY <1>1, <1>7
  <2>2. t[k].first = first(n) /\ t[k - 1].last = last(n - 1)
    BY <1>5, <2>1
  <2>3. first(n) = 3 * n - 2 /\ last(n - 1) = 3 * (n - 1) - 1
    <3> HIDE DEF n
    <3>1. first(n) = 3 * n - 2
      BY <1>1, <1>3, <2>1
    <3>2. last(n - 1) = 3 * (n - 1) - 1
      BY <1>1, <1>3, <2>1
    <3>3. QED
      BY <3>1, <3>2
  <2>4. NextText(3 * (n - 1) - 1) = 3 * n - 2
    BY <1>1, <2>1 DEF NextText, Newline
  <2>5. QED
    BY <2>2, <2>3, <2>4
<1>8. t # <<>> => /\ t[1].first = NextText(lo - 1)
                  /\ \/ t[Len(t)].last = hi
                     \/ t[Len(t)].last + 1 = hi /\ Newline(hi)
  <2> SUFFICES ASSUME t # <<>>
               PROVE  /\ t[1].first = NextText(lo - 1)
                      /\ \/ t[len].last = hi
                         \/ t[len].last + 1 = hi /\ Newline(hi)
    BY <1>5
  <2>1. len > 0
    BY <1>1, <1>5, EmptySeq
  <2>2. 1 \in 1..len /\ len \in 1..len /\ from + 1 - 1 = from /\ from + len - 1 = LineOf(hi)
    BY <1>1, <2>1
  <2>3. from <= LineOf(hi)
    BY <1>1, <2>1
  <2>4. t[1].first = first(from) /\ t[len].last = last(LineOf(hi))
    BY <1>5, <2>2
  <2>5. QED
    BY <1>1, <1>3, <2>3, <2>4
<1>9. QED
  BY <1>5, <1>6, <1>7, <1>8

\* What a handler was given of one read goes on where it had come to.
LEMMA ReadInput ==
    ASSUME IInv, NEW e \in Elem \ Listener, e \in list.live, Unread(e),
           NEW hi \in Nat, NEW gone \in Nat, taken[e] + 1 <= hi, hi <= gone,
           gone <= 3 * lines[e], e \notin tls => gone = hi,
           NEW t, t = Tokens(taken[e] + 1, hi), t # <<>>, NEW q \in Ends(e, t),
           handled' = [handled EXCEPT ![e] = @ \o Upto(t, q)],
           taken' = [taken EXCEPT ![e] = IF q <= Len(t) THEN 3 * lines[e] ELSE gone],
           UNCHANGED <<tls, lines, bye>>,
           e \in list'.live => q > Len(t)
    PROVE  /\ Input(e)'
           /\ handled' \in [Elem -> Seq(Token)]
           /\ taken' \in [Elem -> 0..3 * MaxLine]
<1> DEFINE H == handled[e]
           r == IF q > Len(t) THEN q - 1 ELSE q
           u == Upto(t, q)
<1>1. /\ taken[e] \in Nat /\ lines[e] \in Nat /\ H \in Seq(Token) /\ bye[e] \in Nat
      /\ 3 * lines[e] \in 0..3 * MaxLine /\ gone \in 0..3 * MaxLine
  <2>1. lines[e] \in 0..MaxLine /\ taken[e] \in 0..3 * MaxLine /\ bye[e] \in 0..MaxLine
    BY DEF IInv, TypeOK
  <2>2. 3 * lines[e] \in 0..3 * MaxLine
    BY <2>1, EventLoopAssumption
  <2>3. H \in Seq(Token)
    BY DEF IInv, TypeOK
  <2>4. QED
    BY <2>1, <2>2, <2>3, EventLoopAssumption
<1>2. /\ t \in Seq(Token) /\ Len(t) \in Nat /\ Len(t) > 0
      /\ \A k \in 1..Len(t) : /\ t[k].first <= t[k].last
                              /\ t[k].last < 3 * LineOf(t[k].first)
                              /\ taken[e] + 1 <= t[k].first /\ t[k].last <= hi
      /\ \A k \in 1..Len(t) : k > 1 => t[k].first = NextText(t[k - 1].last)
      /\ t[1].first = NextText(taken[e])
      /\ t[Len(t)].last = hi \/ (t[Len(t)].last + 1 = hi /\ Newline(hi))
      /\ \A k \in 1..Len(t) : t[k].first \in Nat /\ t[k].last \in Nat
  <2> DEFINE lo == taken[e] + 1
  <2>1. lo \in Nat /\ lo > 0 /\ lo <= hi /\ lo - 1 = taken[e]
    BY <1>1
  <2>2. t = Tokens(lo, hi)
    OBVIOUS
  <2> HIDE DEF lo
  <2>3. /\ t \in Seq(Token)
        /\ \A k \in 1..Len(t) : /\ t[k].first <= t[k].last
                                /\ t[k].last < 3 * LineOf(t[k].first)
                                /\ lo <= t[k].first /\ t[k].last <= hi
        /\ \A k \in 1..Len(t) : k > 1 => t[k].first = NextText(t[k - 1].last)
        /\ t[1].first = NextText(taken[e])
        /\ t[Len(t)].last = hi \/ (t[Len(t)].last + 1 = hi /\ Newline(hi))
    <3>1. /\ t \in Seq(Token)
          /\ \A k \in 1..Len(t) : /\ t[k].first <= t[k].last
                                  /\ t[k].last < 3 * LineOf(t[k].first)
                                  /\ lo <= t[k].first /\ t[k].last <= hi
          /\ \A k \in 1..Len(t) : k > 1 => t[k].first = NextText(t[k - 1].last)
          /\ t # <<>> =>
               /\ t[1].first = NextText(lo - 1)
               /\ \/ t[Len(t)].last = hi
                  \/ t[Len(t)].last + 1 = hi /\ Newline(hi)
      BY <2>1, <2>2, TokensShape
    <3>2. QED
      BY <2>1, <3>1
  <2>4. Len(t) \in Nat /\ Len(t) > 0
    BY <2>3
  <2>5. \A k \in 1..Len(t) : t[k] \in Token
    BY <2>3
  <2>6. \A k \in 1..Len(t) : t[k].first \in Nat /\ t[k].last \in Nat
    BY <2>5 DEF Token
  <2>7. QED
    BY <2>3, <2>4, <2>6 DEF lo
<1>3. /\ q \in 1..Len(t) + 1
      /\ \A k \in 1..q - 1 : FALSE \in Quits(e, t[k])
  BY DEF Ends
<1>4. /\ r \in 1..Len(t) /\ r \in Nat /\ u = SubSeq(t, 1, r) /\ u \in Seq(Token) /\ Len(u) = r
      /\ \A k \in 1..r : u[k] = t[k]
  <2>1. r \in 1..Len(t) /\ r \in Nat
    BY <1>2, <1>3
  <2>2. u = SubSeq(t, 1, r)
    BY DEF Upto
  <2> HIDE DEF r, u
  <2>3. QED
    BY <1>2, <2>1, <2>2
<1> DEFINE n == Len(H)
<1>5. n \in Nat
  BY <1>1
<1>6. /\ handled'[e] = H \o u
      /\ handled' \in [Elem -> Seq(Token)]
  <2>1. H \o u \in Seq(Token)
    BY <1>1, <1>4
  <2>2. QED
    BY <2>1 DEF IInv, TypeOK
<1>7. /\ Len(handled'[e]) = n + r
      /\ \A k \in 1..n : handled'[e][k] = H[k]
      /\ \A k \in 1..n + r : k > n => handled'[e][k] = t[k - n]
  <2> HIDE DEF u, r, H
  <2>1. Len(H \o u) = n + r /\ (\A k \in 1..n : (H \o u)[k] = H[k])
    BY <1>1, <1>4
  <2>2. ASSUME NEW k \in 1..n + r, k > n PROVE (H \o u)[k] = t[k - n]
    <3>1. k - n \in 1..r /\ (H \o u)[k] = u[k - n]
      BY <1>1, <1>4, <2>2
    <3>2. QED
      BY <1>4, <3>1
  <2>3. QED
    BY <1>6, <2>1, <2>2
<1>8. taken'[e] = (IF q <= Len(t) THEN 3 * lines[e] ELSE gone) /\ taken' \in [Elem -> 0..3 * MaxLine]
  BY <1>1 DEF IInv, TypeOK
<1>9. /\ InOrder(e) /\ ByeLast(e) /\ Reached(e)
  BY DEF IInv, InputInv, Input
<1> DEFINE before == IF n = 0 THEN 0 ELSE H[n].last
<1>10. /\ before = LastOf(H) /\ before <= taken[e] /\ before \in Nat
       /\ e \notin tls => taken[e] = before \/ (taken[e] = before + 1 /\ Newline(taken[e]))
  <2>1. before = LastOf(H)
    BY <1>1 DEF LastOf
  <2>2. before \in Nat
    <3>1. n > 0 => H[n] \in Token
      BY <1>1
    <3>2. QED
      BY <1>5, <3>1 DEF Token
  <2> HIDE DEF before
  <2>3. QED
    BY <1>9, <2>1, <2>2 DEF Reached
<1> HIDE DEF before, u, H, r, n
<1>11. t[1].first > before /\ (e \notin tls => t[1].first = NextText(before))
  <2>1. NextText(taken[e]) > before
    BY <1>1, <1>10 DEF NextText
  <2>2. e \notin tls => NextText(taken[e]) = NextText(before)
    <3>1. Newline(before + 1) => NextText(before + 1) = NextText(before)
      BY <1>10 DEF NextText, Newline
    <3>2. QED
      BY <1>10, <3>1
  <2>3. QED
    BY <1>2, <2>1, <2>2
<1>12. InOrder(e)'
  <2> DEFINE g == handled'[e]
             b(k) == IF k = 1 THEN 0 ELSE g[k - 1].last
  <2> SUFFICES ASSUME NEW k \in 1..n + r
               PROVE  /\ g[k].first <= g[k].last /\ g[k].last < 3 * LineOf(g[k].first)
                      /\ g[k].last <= 3 * lines[e]
                      /\ IF e \in tls THEN b(k) < g[k].first
                                      ELSE g[k].first = NextText(b(k))
    BY <1>7 DEF InOrder
  <2>1. CASE k <= n
    <3>1. k \in 1..n /\ (k # 1 => k - 1 \in 1..n)
      BY <1>4, <1>5, <2>1
    <3>2. g[k] = H[k] /\ (k # 1 => g[k - 1] = H[k - 1])
      BY <1>7, <3>1
    <3>3. k \in 1..Len(handled[e])
      BY <3>1 DEF n, H
    <3>4. QED
      BY <1>9, <3>2, <3>3 DEF InOrder, H
  <2>2. CASE k = n + 1
    <3>1. g[k] = t[1] /\ 1 \in 1..Len(t)
      <4>1. k - n = 1 /\ k > n /\ 1 \in 1..Len(t)
        BY <1>2, <1>5, <2>2
      <4>2. QED
        BY <1>7, <4>1
    <3>2. b(k) = before
      <4>1. CASE n = 0
        BY <2>2, <4>1 DEF before
      <4>2. CASE n # 0
        <5>1. k # 1 /\ k - 1 = n /\ n \in 1..n
          BY <1>5, <2>2, <4>2
        <5>2. QED
          BY <1>7, <4>2, <5>1 DEF before
      <4>3. QED
        BY <4>1, <4>2
    <3>3. t[1].first \in Nat /\ t[1].last \in Nat
      BY <1>2, <3>1
    <3> HIDE DEF b, g
    <3>4. QED
      BY <1>1, <1>2, <1>10, <1>11, <3>1, <3>2, <3>3
  <2>3. CASE k > n + 1
    <3> DEFINE j == k - n
    <3>1. j \in 1..Len(t) /\ j > 1 /\ j - 1 \in 1..Len(t) /\ k # 1 /\ k > n
      BY <1>2, <1>4, <1>5, <2>3
    <3>2. k - 1 \in 1..n + r /\ k - 1 > n /\ (k - 1) - n = j - 1
      BY <1>4, <1>5, <2>3
    <3>3. g[k] = t[j] /\ b(k) = t[j - 1].last
      BY <1>7, <3>1, <3>2
    <3>4. t[j].first \in Nat /\ t[j].last \in Nat /\ t[j - 1].last \in Nat
      BY <1>2, <3>1
    <3> HIDE DEF b, g, j
    <3>5. NextText(t[j - 1].last) > t[j - 1].last
      BY <3>4 DEF NextText
    <3>6. /\ t[j].first <= t[j].last /\ t[j].last < 3 * LineOf(t[j].first)
          /\ t[j].last <= hi /\ t[j].first = NextText(t[j - 1].last)
      BY <1>2, <3>1
    <3>7. t[j].last <= 3 * lines[e]
      BY <1>1, <3>4, <3>6
    <3>8. QED
      BY <3>3, <3>5, <3>6, <3>7
  <2>4. k <= n \/ k = n + 1 \/ k > n + 1
    BY <1>4, <1>5
  <2> HIDE DEF b, g
  <2>5. QED
    BY <2>1, <2>2, <2>3, <2>4
<1>13. ByeLast(e)'
  <2> SUFFICES ASSUME NEW k \in 1..n + r, bye[e] > 0,
                      e \in list'.live \/ k < n + r
               PROVE  handled'[e][k] # Whole(bye[e])
    BY <1>7 DEF ByeLast
  <2>1. CASE k <= n
    <3>1. k \in 1..Len(handled[e]) /\ handled'[e][k] = handled[e][k]
      BY <1>5, <1>7, <2>1 DEF n, H
    <3>2. QED
      BY <1>9, <3>1 DEF ByeLast
  <2>2. CASE k > n
    <3>1. k - n \in 1..r /\ handled'[e][k] = t[k - n]
      <4>1. k - n \in 1..r
        BY <1>4, <1>5, <2>2
      <4>2. QED
        BY <1>7, <2>2, <4>1
    <3>2. k - n \in 1..q - 1
      <4>1. CASE e \in list'.live
        <5>1. q > Len(t)
          BY <4>1
        <5>2. r = q - 1
          BY <1>2, <1>3, <5>1 DEF r
        <5>3. QED
          BY <3>1, <5>2
      <4>2. CASE k < n + r
        <5>1. r <= q
          BY <1>2, <1>3 DEF r
        <5>2. QED
          BY <1>3, <1>4, <1>5, <3>1, <4>2, <5>1
      <4>3. QED
        BY <4>1, <4>2
    <3>3. FALSE \in Quits(e, t[k - n])
      BY <1>3, <3>2
    <3>4. t[k - n] # Whole(bye[e])
      BY <3>3 DEF Quits
    <3>5. QED
      BY <3>1, <3>4
  <2>3. k <= n \/ k > n
    BY <1>4, <1>5
  <2>4. QED
    BY <2>1, <2>2, <2>3
<1>14. Reached(e)'
  <2>1. taken'[e] <= 3 * lines[e] /\ bye[e] <= lines[e]
    BY <1>1, <1>8, <1>9 DEF Reached
  <2>2. ASSUME e \in list'.live
        PROVE  /\ LastOf(handled'[e]) <= taken'[e]
               /\ e \notin tls =>
                    \/ taken'[e] = LastOf(handled'[e])
                    \/ taken'[e] = LastOf(handled'[e]) + 1 /\ Newline(taken'[e])
    <3>1. q > Len(t) /\ r = Len(t) /\ taken'[e] = gone
      BY <1>2, <1>3, <1>8, <2>2 DEF r
    <3>2. LastOf(handled'[e]) = t[Len(t)].last
      <4>1. n + r \in 1..n + r /\ n + r > n /\ (n + r) - n = Len(t)
        BY <1>2, <1>5, <3>1
      <4>2. handled'[e][n + r] = t[Len(t)]
        BY <1>7, <4>1
      <4>3. handled'[e] # <<>>
        <5>1. Len(handled'[e]) # 0
          BY <1>7, <4>1
        <5>2. QED
          BY <5>1
      <4>4. QED
        BY <1>7, <4>2, <4>3 DEF LastOf
    <3>3. t[Len(t)].last \in Nat /\ t[Len(t)].last <= hi
      <4>1. Len(t) \in 1..Len(t)
        BY <1>2
      <4>2. QED
        BY <1>2, <4>1
    <3>4. QED
      BY <1>2, <3>1, <3>2, <3>3
  <2>3. QED
    BY <2>1, <2>2 DEF Reached
<1>15. QED
  BY <1>6, <1>8, <1>12, <1>13, <1>14 DEF Input

LEMMA LastBound ==
    ASSUME TypeOK, NEW e \in Elem
    PROVE  /\ taken[e] \in Nat /\ lines[e] \in Nat /\ bye[e] \in Nat
           /\ handled[e] \in Seq(Token)
           /\ 3 * lines[e] \in 0..3 * MaxLine
<1>1. lines[e] \in 0..MaxLine /\ taken[e] \in 0..3 * MaxLine /\ bye[e] \in 0..MaxLine
      /\ handled[e] \in Seq(Token)
  BY DEF TypeOK
<1>2. QED
  BY <1>1, EventLoopAssumption

LEMMA ReadInv ==
    ASSUME IInv, NEW e \in Elem \ Listener, Called(e), Unread(e),
           NEW r, r.last \in Nat, r.gone \in Nat, taken[e] + 1 <= r.last,
           r.last <= r.gone, r.gone <= 3 * lines[e], e \notin tls => r.gone = r.last,
           Read(e, r)
    PROVE  IInv'
<1> DEFINE t == Tokens(taken[e] + 1, r.last)
<1>1. CASE t = <<>>
  BY <1>1, DiesInv DEF Read
<1>2. CASE t # <<>>
  <2>1. PICK q \in Ends(e, t), after \in Forwarding :
        /\ handled' = [handled EXCEPT ![e] = @ \o Upto(t, q)]
        /\ made' = after.made
        /\ forwards' = forwards + (IF after.open = open THEN 0 ELSE 1)
        /\ IF q <= Len(t)
             THEN /\ Deleted(e, after.list, after.open)
                  /\ taken' = [taken EXCEPT ![e] = 3 * lines[e]]
             ELSE /\ list' = after.list
                  /\ open' = after.open
                  /\ taken' = [taken EXCEPT ![e] = r.gone]
                  /\ UNCHANGED ended
        /\ GoesOn(e, list')
        /\ UNCHANGED <<tls, pending, connects, lines, bye>>
    BY <1>2 DEF Read, Processed
  <2> HIDE DEF t
  <2>2. TypeOK /\ ListInv /\ e \in list.live
    BY Standing DEF Called, IInv
  <2>3. /\ taken' = [taken EXCEPT ![e] = IF q <= Len(t) THEN 3 * lines[e] ELSE r.gone]
        /\ \/ list' = after.list /\ open' = after.open /\ ended' = ended
           \/ Deleted(e, after.list, after.open)
    BY <2>1
  <2>4. e \in list'.live => q > Len(t)
    <3>1. SUFFICES ASSUME q <= Len(t) PROVE e \notin list'.live
      <4>1. q \in Nat /\ Len(t) \in Nat
        <5>1. taken[e] + 1 \in Nat /\ taken[e] + 1 > 0
          BY <2>2, LastBound
        <5>2. t \in Seq(Token)
          BY <5>1, TokensShape DEF t
        <5>3. QED
          BY <5>2 DEF Ends
      <4>2. QED
        BY <4>1
    <3>2. list' = Removed(after.list, e)
      BY <2>1, <3>1 DEF Deleted
    <3>3. e \in after.list.live \ Listener
      BY <2>2, ForwardingIsSound DEF ForwardingSound
    <3>4. Removed(after.list, e).live = after.list.live \ {e}
      BY <3>3, ForwardingIsSound, RemovedList DEF ForwardingSound
    <3>5. QED
      BY <3>2, <3>4
  <2>5. /\ Input(e)'
        /\ handled' \in [Elem -> Seq(Token)]
        /\ taken' \in [Elem -> 0..3 * MaxLine]
    <3> DEFINE hi == r.last
               gone == r.gone
    <3>1. /\ hi \in Nat /\ gone \in Nat /\ taken[e] + 1 <= hi /\ hi <= gone
          /\ gone <= 3 * lines[e] /\ (e \notin tls => gone = hi)
          /\ t = Tokens(taken[e] + 1, hi)
          /\ taken' = [taken EXCEPT ![e] = IF q <= Len(t) THEN 3 * lines[e] ELSE gone]
      BY <2>3 DEF t
    <3> HIDE DEF hi, gone
    <3>2. QED
      BY <1>2, <2>1, <2>2, <2>4, <3>1, ReadInput
  <2>6. \A d \in Elem \ {e} : taken'[d] = taken[d] /\ handled'[d] = handled[d]
    BY <2>1, <2>2, <2>3 DEF TypeOK
  <2>7. QED
    BY <2>1, <2>3, <2>5, <2>6, HandlerInv
<1>3. QED
  BY <1>1, <1>2

LEMMA conn_read_normalInv ==
    ASSUME NEW e \in Elem PROVE IInv /\ conn_read_normal(e) => IInv'
<1> SUFFICES ASSUME IInv, conn_read_normal(e) PROVE IInv'
  OBVIOUS
<1>1. PICK n \in taken[e] + 1..3 * lines[e] : Read(e, [last |-> n, gone |-> n])
  BY DEF conn_read_normal, conn_read_normal_buff
<1>2. taken[e] \in Nat /\ lines[e] \in Nat
  BY LastBound DEF IInv
<1>3. n \in Nat /\ taken[e] + 1 <= n /\ n <= 3 * lines[e] /\ n <= n /\ Unread(e)
  BY <1>2 DEF Unread
<1> DEFINE r == [last |-> n, gone |-> n]
<1>4. r.last = n /\ r.gone = n
  OBVIOUS
<1>5. e \in Elem \ Listener /\ Called(e) /\ Read(e, r)
  BY <1>1 DEF conn_read_normal
<1> HIDE DEF r
<1>6. QED
  BY <1>3, <1>4, <1>5, ReadInv

LEMMA conn_read_sslInv ==
    ASSUME NEW e \in Elem PROVE IInv /\ conn_read_ssl(e) => IInv'
<1> SUFFICES ASSUME IInv, conn_read_ssl(e) PROVE IInv'
  OBVIOUS
<1> DEFINE newline == 3 * LineOf(taken[e] + 1)
<1>1. PICK n \in newline..3 * lines[e] : Read(e, [last |-> newline, gone |-> n])
  BY DEF conn_read_ssl, ssl_read
<1>2. taken[e] \in Nat /\ lines[e] \in Nat
  BY LastBound DEF IInv
<1>3. newline \in Nat /\ taken[e] + 1 <= newline
  BY <1>2 DEF LineOf
<1> DEFINE r == [last |-> newline, gone |-> n]
<1>4. r.last = newline /\ r.gone = n
  OBVIOUS
<1> HIDE DEF newline
<1>5. n \in Nat /\ newline <= n /\ n <= 3 * lines[e] /\ Unread(e)
  BY <1>2, <1>3 DEF Unread
<1>6. e \in tls /\ Called(e) /\ Read(e, r) /\ e \in Elem \ Listener
  BY <1>1 DEF conn_read_ssl, IInv, TypeOK
<1> HIDE DEF r
<1>7. QED
  BY <1>3, <1>4, <1>5, <1>6, ReadInv

LEMMA conn_read_endInv ==
    ASSUME NEW e \in Elem PROVE IInv /\ conn_read_end(e) => IInv'
<1> SUFFICES ASSUME IInv, conn_read_end(e) PROVE IInv'
  OBVIOUS
<1> DEFINE after == [list |-> list, made |-> made, open |-> open]
<1>1. /\ e \in Elem \ Listener /\ Called(e) /\ GoesOn(e, list')
      /\ Deleted(e, list, open)
      /\ UNCHANGED <<made, tls, pending, connects, forwards, lines, taken, bye, handled>>
  BY DEF conn_read_end
<1>2. /\ TypeOK /\ ListInv /\ e \in list.live /\ Input(e) /\ list \in Lists
      /\ made \in Elem /\ Sorted(list, made)
  BY <1>1, Standing DEF Called, IInv, InputInv, ListInv
<1>3. /\ after \in Forwarding
      /\ after.list = list /\ after.made = made /\ after.open = open
  BY DEF Forwarding
<1>4. forwards' = forwards + (IF after.open = open THEN 0 ELSE 1)
  BY <1>1, <1>2, <1>3, Counters
<1>5. e \notin list'.live
  BY <1>1, <1>2, RemovedList DEF Deleted
<1>6. Input(e)'
  BY <1>1, <1>2, <1>5 DEF Input, InOrder, ByeLast, Reached
<1>7. taken' \in [Elem -> 0..3 * MaxLine] /\ handled' \in [Elem -> Seq(Token)]
  BY <1>1, <1>2 DEF TypeOK
<1> HIDE DEF after
<1>8. Deleted(e, after.list, after.open) /\ made' = after.made
  BY <1>1, <1>3
<1>9. QED
  BY <1>1, <1>3, <1>4, <1>6, <1>7, <1>8, HandlerInv

-----------------------------------------------------------------------------
(* The peers.                                                              *)

\* What is readable stays readable.
LEMMA PeerWalk ==
    ASSUME WalkInv, UNCHANGED <<list, made, loop>>,
           \A e \in list.live : Readable(e) => Readable(e)'
    PROVE  WalkInv'
<1>1. \A m \in 1..made : Due(m)' = Due(m) /\ Due(m) \subseteq list.live
  BY DEF Due
<1>2. QED
  BY <1>1 DEF WalkInv

LEMMA ConnectsInv == ASSUME NEW e \in Listener PROVE IInv /\ Connects(e) => IInv'
<1> SUFFICES ASSUME IInv, Connects(e) PROVE IInv'
  OBVIOUS
<1>1. TypeOK /\ ListInv /\ WalkInv /\ InputInv
  BY DEF IInv
<1>2. /\ connects < MaxClient /\ connects' = connects + 1
      /\ pending' = [pending EXCEPT ![e] = @ + 1]
      /\ UNCHANGED <<list, made, tls, open, ended, loop, forwards, lines, taken, bye, handled>>
  BY DEF Connects
<1>3. pending[e] \in Nat /\ pending[e] < MaxClient
  BY <1>1, <1>2, BacklogOfOne, Counters, EventLoopAssumption DEF ListInv, Count
<1>4. TypeOK'
  <2>1. pending[e] + 1 \in 0..MaxClient /\ connects + 1 \in 0..MaxClient
    BY <1>1, <1>2, <1>3, Counters, EventLoopAssumption
  <2>2. QED
    BY <1>1, <1>2, <2>1 DEF TypeOK
<1>5. ListInv'
  <2>1. Cardinality(Backlog') = Cardinality(Backlog) + 1
    BY <1>1, <1>2, <1>3, BacklogGrows
  <2>2. Count'
    BY <1>1, <1>2, <2>1, Counters, Numbers DEF ListInv, Count
  <2>3. QED
    BY <1>1, <1>2, <2>2 DEF ListInv, Fresh
<1>6. WalkInv'
  <2>1. \A d \in Listener : pending[d] > 0 => pending'[d] > 0
    BY <1>1, <1>2, <1>3 DEF TypeOK
  <2>2. \A d \in list.live : Readable(d) => Readable(d)'
    BY <1>2, <2>1 DEF Readable, Unread
  <2>3. QED
    BY <1>1, <1>2, <2>2, PeerWalk
<1>7. QED
  BY <1>1, <1>2, <1>4, <1>5, <1>6, SameInput DEF IInv

\* What was given to a handler was sent before.
LEMMA HandledSent ==
    ASSUME TypeOK, NEW e \in Elem \ Listener, Input(e), NEW k \in 1..Len(handled[e])
    PROVE  /\ handled[e][k].last <= 3 * lines[e] /\ handled[e][k].last \in Nat
           /\ \A n \in Nat : n > lines[e] => handled[e][k] # Whole(n)
<1>1. handled[e][k] \in Token /\ lines[e] \in Nat
  BY LastBound
<1>2. handled[e][k].last <= 3 * lines[e] /\ handled[e][k].last \in Nat
  BY <1>1 DEF Input, InOrder, Token
<1>3. \A n \in Nat : n > lines[e] => handled[e][k].last < Whole(n).last
  BY <1>1, <1>2 DEF Whole
<1>4. ASSUME NEW n \in Nat, n > lines[e], handled[e][k] = Whole(n) PROVE FALSE
  <2>1. handled[e][k].last < handled[e][k].last
    BY <1>3, <1>4
  <2>2. QED
    BY <1>2, <2>1
<1>5. QED
  BY <1>2, <1>4

LEMMA SendsInv ==
    ASSUME NEW e \in Elem \ Listener PROVE IInv /\ Sends(e) => IInv'
<1> SUFFICES ASSUME IInv, Sends(e) PROVE IInv'
  OBVIOUS
<1>1. TypeOK /\ ListInv /\ WalkInv /\ InputInv /\ Input(e)
  BY DEF IInv, InputInv
<1>2. /\ e \in list.live /\ e \notin ended
      /\ lines' = [lines EXCEPT ![e] = @ + 1]
      /\ \/ bye[e] = 0 /\ bye' = [bye EXCEPT ![e] = lines[e] + 1]
         \/ UNCHANGED bye
      /\ UNCHANGED <<list, made, tls, open, pending, ended, loop, connects,
                     forwards, taken, handled>>
  BY DEF Sends
<1>3. lines[e] \in Nat /\ lines[e] < MaxLine /\ taken[e] \in Nat /\ bye[e] \in Nat
  BY <1>1, LinesBound, LastBound DEF Sends
<1>4. lines[e] + 1 \in 0..MaxLine
  BY <1>3, EventLoopAssumption
<1>5. /\ lines'[e] = lines[e] + 1
      /\ bye'[e] = bye[e] \/ bye'[e] = lines[e] + 1
      /\ \A d \in Elem \ {e} : lines'[d] = lines[d] /\ bye'[d] = bye[d]
  BY <1>1, <1>2 DEF TypeOK
<1>6. TypeOK'
  <2>1. lines' \in [Elem -> 0..MaxLine] /\ bye' \in [Elem -> 0..MaxLine]
    <3>1. lines \in [Elem -> 0..MaxLine] /\ bye \in [Elem -> 0..MaxLine]
      BY <1>1 DEF TypeOK
    <3>2. lines' \in [Elem -> 0..MaxLine]
      BY <1>2, <1>4, <3>1
    <3>3. bye' \in [Elem -> 0..MaxLine]
      BY <1>2, <1>4, <3>1
    <3>4. QED
      BY <3>2, <3>3
  <2>2. QED
    BY <1>1, <1>2, <2>1 DEF TypeOK
<1>7. ListInv'
  <2>1. e \in 1..made /\ made \in Nat
    BY <1>1, <1>2, Counters DEF ListInv, Sorted
  <2>2. \A d \in Elem : d > made => d # e
    BY <2>1
  <2>3. Fresh'
    BY <1>1, <1>2, <1>5, <2>2 DEF ListInv, Fresh
  <2>4. QED
    BY <1>1, <1>2, <2>3 DEF ListInv, Count, Backlog
<1>8. WalkInv'
  <2>1. Unread(e) => Unread(e)'
    BY <1>2, <1>3, <1>5 DEF Unread
  <2>2. list.live \subseteq Elem
    BY <1>1 DEF TypeOK
  <2>3. \A d \in list.live : Readable(d) => Readable(d)'
    BY <1>2, <1>5, <2>1, <2>2 DEF Readable, Unread
  <2>4. QED
    BY <1>1, <1>2, <2>3, PeerWalk
<1>9. Input(e)'
  <2>1. InOrder(e)'
    <3>1. \A k \in 1..Len(handled[e]) : handled[e][k].last <= 3 * lines'[e]
      BY <1>1, <1>3, <1>5, HandledSent
    <3>2. QED
      BY <1>1, <1>2, <3>1 DEF Input, InOrder
  <2>2. ByeLast(e)'
    <3>1. \A k \in 1..Len(handled[e]) : handled[e][k] # Whole(lines[e] + 1)
      BY <1>1, <1>3, HandledSent
    <3>2. QED
      BY <1>1, <1>2, <1>5, <3>1 DEF Input, ByeLast
  <2>3. Reached(e)'
    <3>1. taken[e] <= 3 * lines'[e] /\ bye'[e] <= lines'[e]
      BY <1>1, <1>3, <1>5 DEF Input, Reached
    <3>2. QED
      BY <1>1, <1>2, <3>1 DEF Input, Reached, LastOf
  <2>4. QED
    BY <2>1, <2>2, <2>3 DEF Input
<1>10. InputInv'
  <2> SUFFICES ASSUME NEW d \in Elem \ Listener, d # e PROVE Input(d)'
    BY <1>9 DEF InputInv
  <2>1. QED
    BY <1>1, <1>2, <1>5, KeepsInput DEF InputInv
<1>11. QED
  BY <1>6, <1>7, <1>8, <1>10 DEF IInv

LEMMA HangsInv ==
    ASSUME NEW e \in Elem \ Listener PROVE IInv /\ Hangs(e) => IInv'
<1> SUFFICES ASSUME IInv, Hangs(e) PROVE IInv'
  OBVIOUS
<1>1. TypeOK /\ ListInv /\ WalkInv /\ InputInv /\ Input(e)
  BY DEF IInv, InputInv
<1>2. /\ e \in list.live /\ e \notin ended /\ ended' = ended \cup {e}
      /\ \/ UNCHANGED taken
         \/ taken' = [taken EXCEPT ![e] = 3 * lines[e]]
      /\ UNCHANGED <<list, made, tls, open, pending, loop, connects, forwards,
                     lines, bye, handled>>
  BY DEF Hangs
<1>3. /\ lines[e] \in Nat /\ taken[e] \in Nat /\ 3 * lines[e] \in 0..3 * MaxLine
      /\ handled[e] \in Seq(Token)
  BY <1>1, LastBound
<1>4. /\ taken'[e] = taken[e] \/ taken'[e] = 3 * lines[e]
      /\ \A d \in Elem \ {e} : taken'[d] = taken[d]
  BY <1>1, <1>2 DEF TypeOK
<1>5. TypeOK'
  <2>1. taken' \in [Elem -> 0..3 * MaxLine] /\ ended' \subseteq Elem
    <3>1. taken \in [Elem -> 0..3 * MaxLine] /\ ended \subseteq Elem
      BY <1>1 DEF TypeOK
    <3>2. taken' \in [Elem -> 0..3 * MaxLine]
      BY <1>2, <1>3, <3>1
    <3>3. QED
      BY <1>2, <3>1, <3>2
  <2>2. QED
    BY <1>1, <1>2, <2>1 DEF TypeOK
<1>6. ListInv'
  <2>1. e \in 1..made /\ made \in Nat
    BY <1>1, <1>2, Counters DEF ListInv, Sorted
  <2>2. \A d \in Elem : d > made => d # e
    BY <2>1
  <2>3. Fresh'
    BY <1>1, <1>2, <1>4, <2>2 DEF ListInv, Fresh
  <2>4. QED
    BY <1>1, <1>2, <2>3 DEF ListInv, Count, Backlog
<1>7. WalkInv'
  <2>1. list.live \subseteq Elem
    BY <1>1 DEF TypeOK
  <2>2. \A d \in list.live : Readable(d) => Readable(d)'
    BY <1>2, <1>4, <2>1 DEF Readable, Unread
  <2>3. QED
    BY <1>1, <1>2, <2>2, PeerWalk
<1>8. Input(e)'
  <2>1. InOrder(e)' /\ ByeLast(e)'
    BY <1>1, <1>2 DEF Input, InOrder, ByeLast
  <2>2. Reached(e)
    BY <1>1 DEF Input
  <2>3. LastOf(handled[e]) <= taken[e] /\ LastOf(handled[e]) \in Nat
    <3>1. handled[e] # <<>> => Len(handled[e]) \in 1..Len(handled[e])
      BY <1>3
    <3>2. LastOf(handled[e]) \in Nat
      BY <1>1, <3>1, HandledSent DEF LastOf
    <3>3. QED
      BY <1>2, <2>2, <3>2 DEF Reached
  <2>4. CASE taken'[e] = taken[e]
    <3>1. LastOf(handled'[e]) = LastOf(handled[e])
      BY <1>2 DEF LastOf
    <3>2. Reached(e)'
      BY <1>2, <2>2, <2>4, <3>1 DEF Reached
    <3>3. QED
      BY <2>1, <3>2 DEF Input
  <2>5. CASE taken'[e] = 3 * lines[e]
    <3>1. ~Unread(e)' /\ e \in ended'
      BY <1>2, <1>3, <2>5 DEF Unread
    <3>2. taken'[e] <= 3 * lines[e] /\ bye[e] <= lines[e]
      BY <1>3, <2>2, <2>5 DEF Reached
    <3>3. LastOf(handled[e]) <= taken'[e]
      BY <1>3, <2>2, <2>3, <2>5 DEF Reached
    <3>4. LastOf(handled'[e]) = LastOf(handled[e])
      BY <1>2 DEF LastOf
    <3>5. Reached(e)'
      BY <1>2, <3>1, <3>2, <3>3, <3>4 DEF Reached
    <3>6. QED
      BY <2>1, <3>5 DEF Input
  <2>6. QED
    BY <1>4, <2>1, <2>4, <2>5 DEF Input
<1>9. InputInv'
  <2> SUFFICES ASSUME NEW d \in Elem \ Listener, d # e PROVE Input(d)'
    BY <1>8 DEF InputInv
  <2>1. QED
    BY <1>1, <1>2, <1>4, KeepsInput DEF InputInv
<1>10. QED
  BY <1>5, <1>6, <1>7, <1>9 DEF IInv

-----------------------------------------------------------------------------
(* Every step, and what follows.                                           *)

LEMMA NextInv == IInv /\ [Next]_vars => IInv'
<1> SUFFICES ASSUME IInv, [Next]_vars PROVE IInv'
  OBVIOUS
<1>1. CASE UNCHANGED vars
  <2>1. TypeOK' /\ ListInv' /\ WalkInv'
    BY <1>1 DEF vars, IInv, TypeOK, ListInv, Count, Backlog, Fresh, WalkInv, Due,
                Readable, Unread
  <2>2. QED
    BY <1>1, <2>1, SameInput DEF vars, IInv
<1>2. CASE select
  BY <1>2, selectInv
<1>3. CASE round_done
  BY <1>3, round_doneInv
<1>4. ASSUME NEW e \in Elem, skip(e) PROVE IInv'
  BY <1>4, skipInv
<1>5. ASSUME NEW e \in Elem, conn_accept_normal_client(e) PROVE IInv'
  <2>1. e \in Listener
    BY <1>5, EventLoopAssumption DEF conn_accept_normal_client, Listener
  <2>2. QED
    BY <1>5, <2>1, AcceptedInv DEF conn_accept_normal_client
<1>6. ASSUME NEW e \in Elem, conn_accept_ssl_client(e) PROVE IInv'
  BY <1>6, AcceptedInv DEF conn_accept_ssl_client
<1>7. ASSUME NEW e \in Elem, conn_accept_no_greeting(e) PROVE IInv'
  <2>1. e \in Listener
    BY <1>7, EventLoopAssumption DEF conn_accept_no_greeting, Listener
  <2>2. QED
    BY <1>7, <2>1, TurnedAwayInv DEF conn_accept_no_greeting
<1>8. ASSUME NEW e \in Elem, conn_accept_fails(e) PROVE IInv'
  BY <1>8, TurnedAwayInv DEF conn_accept_fails
<1>9. ASSUME NEW e \in Elem, ssl_berr_exit(e) PROVE IInv'
  BY <1>9, DiesInv DEF ssl_berr_exit, NoToken
<1>10. ASSUME NEW e \in Elem, conn_read_normal(e) PROVE IInv'
  BY <1>10, conn_read_normalInv
<1>11. ASSUME NEW e \in Elem, conn_read_ssl(e) PROVE IInv'
  BY <1>11, conn_read_sslInv
<1>12. ASSUME NEW e \in Elem, conn_read_end(e) PROVE IInv'
  BY <1>12, conn_read_endInv
<1>13. ASSUME NEW e \in Listener, Connects(e) PROVE IInv'
  BY <1>13, ConnectsInv
<1>14. ASSUME NEW e \in Elem \ Listener, Sends(e) \/ Hangs(e) PROVE IInv'
  BY <1>14, SendsInv, HangsInv
<1>15. QED
  BY <1>1, <1>2, <1>3, <1>4, <1>5, <1>6, <1>7, <1>8, <1>9, <1>10, <1>11, <1>12,
     <1>13, <1>14 DEF Next, conn_wait_loop

THEOREM Invariant == Spec => []IInv
<1>1. QED
  BY InitInv, NextInv, PTL DEF Spec

\* TypeOK: the state of the event loop has its types.
THEOREM TypeCorrect == Spec => []TypeOK
<1>1. IInv => TypeOK
  BY DEF IInv
<1>2. QED
  BY <1>1, Invariant, PTL

\* DescriptorsOwn: what is written to a session goes to its own client.
THEOREM DescriptorsAreOwn == Spec => []DescriptorsOwn
<1>1. IInv => DescriptorsOwn
  BY DEF IInv, ListInv, OwnFds, DescriptorsOwn
<1>2. QED
  BY <1>1, Invariant, PTL

\* NeverBlocks: whatever the handlers of a round add, remove and close, select()
\* has vouched for each element that is called.
THEOREM NoneBlocks == Spec => []NeverBlocks
<1>1. ASSUME IInv PROVE NeverBlocks
  <2> SUFFICES ASSUME NEW e \in list.live, Called(e) PROVE Readable(e)
    BY DEF NeverBlocks
  <2>1. TypeOK /\ ListInv /\ WalkInv /\ e \in Elem /\ loop.pc = "walk"
    BY <1>1 DEF IInv, TypeOK, Called, Visiting
  <2>2. PICK m \in 1..made : /\ Cardinality(Due(m)) = loop.num - loop.i
                             /\ \A d \in Due(m) : Readable(d)
    BY <2>1 DEF WalkInv
  <2>3. QED
    BY <2>1, <2>2, CalledDue
<1>2. QED
  BY <1>1, Invariant, PTL

\* HandledInOrder: however the input is cut, the handler gets the text in order.
THEOREM InOrderHandled == Spec => []HandledInOrder
<1>1. IInv => HandledInOrder
  BY DEF IInv, InputInv, Input, InOrder, HandledInOrder
<1>2. QED
  BY <1>1, Invariant, PTL

\* NothingAfterBye: the line that ends the session is the last one handled.
THEOREM ByeIsLast == Spec => []NothingAfterBye
<1>1. ASSUME IInv PROVE NothingAfterBye
  <2> SUFFICES ASSUME NEW e \in Elem \ Listener, NEW k \in 1..Len(handled[e]) - 1,
                      bye[e] > 0
               PROVE  handled[e][k] # Whole(bye[e])
    BY DEF NothingAfterBye
  <2>1. handled[e] \in Seq(Token) /\ ByeLast(e)
    BY <1>1, LastBound DEF IInv, InputInv, Input
  <2>2. k \in 1..Len(handled[e]) /\ k < Len(handled[e])
    BY <2>1
  <2>3. QED
    BY <2>1, <2>2 DEF ByeLast
<1>2. QED
  BY <1>1, Invariant, PTL

-----------------------------------------------------------------------------
(* The elements by their place in the list.                                *)

\* The elements of S up to e, and their number.
Upward(S, e) == {d \in S : d <= e}

LEMMA Ranks ==
    ASSUME NEW S, S \subseteq Nat, IsFiniteSet(S)
    PROVE  /\ \A e \in S : Cardinality(Upward(S, e)) \in 1..Cardinality(S)
           /\ \A d, e \in S : d < e => Cardinality(Upward(S, d)) < Cardinality(Upward(S, e))
           /\ \A k \in 1..Cardinality(S) : \E e \in S : Cardinality(Upward(S, e)) = k
<1> DEFINE rank == [e \in S |-> Cardinality(Upward(S, e))]
           n == Cardinality(S)
<1>1. n \in Nat
  BY FS_CardinalityType
<1>2. \A e \in S : /\ Upward(S, e) \subseteq S /\ e \in Upward(S, e)
                   /\ IsFiniteSet(Upward(S, e)) /\ rank[e] \in Nat /\ rank[e] <= n
                   /\ rank[e] # 0
  <2> SUFFICES ASSUME NEW e \in S
               PROVE  /\ Upward(S, e) \subseteq S /\ e \in Upward(S, e)
                      /\ IsFiniteSet(Upward(S, e)) /\ rank[e] \in Nat /\ rank[e] <= n
                      /\ rank[e] # 0
    OBVIOUS
  <2>1. Upward(S, e) \subseteq S /\ e \in Upward(S, e)
    BY DEF Upward
  <2>2. IsFiniteSet(Upward(S, e)) /\ rank[e] <= n
    BY <2>1, FS_Subset
  <2>3. rank[e] \in Nat
    BY <2>2, FS_CardinalityType
  <2>4. rank[e] # 0
    BY <2>1, <2>2, FS_EmptySet
  <2>5. QED
    BY <2>1, <2>2, <2>3, <2>4
<1>3. ASSUME NEW d \in S, NEW e \in S, d < e PROVE rank[d] < rank[e]
  <2>1. Upward(S, d) \subseteq Upward(S, e) /\ e \notin Upward(S, d)
    <3>1. d \in Nat /\ e \in Nat /\ \A x \in S : x \in Nat /\ (x <= d => x <= e)
      BY <1>3
    <3>2. ~(e <= d)
      BY <1>3, <3>1
    <3>3. QED
      BY <3>1, <3>2 DEF Upward
  <2>2. Cardinality(Upward(S, d)) <= Cardinality(Upward(S, e))
        /\ Cardinality(Upward(S, d)) # Cardinality(Upward(S, e))
    BY <1>2, <2>1, FS_Subset
  <2>3. QED
    BY <1>2, <2>2
<1> HIDE DEF n
<1>4. rank \in Injection(S, 1..n)
  <2>1. \A e \in S : rank[e] \in 1..n
    BY <1>1, <1>2
  <2>2. \A d, e \in S : rank[d] = rank[e] => d = e
    <3> SUFFICES ASSUME NEW d \in S, NEW e \in S, rank[d] = rank[e], d # e PROVE FALSE
      OBVIOUS
    <3>1. d < e \/ e < d
      OBVIOUS
    <3>2. QED
      BY <1>2, <1>3, <3>1
  <2>3. rank \in [S -> 1..n]
    BY <2>1
  <2>4. QED
    BY <2>2, <2>3 DEF Injection, IsInjective
<1>5. rank \in Surjection(S, 1..n)
  BY <1>1, <1>4, FS_Injection, FS_Interval, Column DEF n
<1>6. \A e \in S : rank[e] \in 1..n /\ rank[e] = Cardinality(Upward(S, e))
  BY <1>1, <1>2
<1>7. \A k \in 1..n : \E e \in S : rank[e] = k
  BY <1>5 DEF Surjection
<1> HIDE DEF rank
<1>8. QED
  BY <1>3, <1>6, <1>7 DEF n

\* From the head to the end one comes to the live elements in their order.
LEMMA NthIsRanked ==
    ASSUME TypeOK, ListInv
    PROVE  LET n == Cardinality(list.live)
           IN  /\ n \in Nat
               /\ \A k \in 1..n : /\ Nth[k] \in list.live
                                  /\ Cardinality(Upward(list.live, Nth[k])) = k
<1> DEFINE S == list.live
           n == Cardinality(S)
           c == Cardinality(Elem)
           rank(e) == Cardinality(Upward(S, e))
           at(k) == CHOOSE e \in S : rank(e) = k
           g == [k \in 1..c |-> IF k <= n THEN at(k) ELSE NULL]
<1>1. /\ S \subseteq Elem /\ S \subseteq Nat /\ IsFiniteSet(S) /\ n \in Nat /\ n <= c
      /\ c \in Nat /\ Sorted(list, made) /\ NULL \notin S /\ 1 \in S
  <2>1. S \subseteq Elem /\ Sorted(list, made) /\ IsFiniteSet(Elem)
    BY Numbers DEF TypeOK, ListInv
  <2>2. IsFiniteSet(S) /\ n <= c
    BY <2>1, FS_Subset
  <2>3. n \in Nat /\ c \in Nat
    BY <2>1, <2>2, FS_CardinalityType
  <2>4. 1 \in S
    BY <2>1, Numbers DEF Sorted
  <2> HIDE DEF n, c, S
  <2>5. QED
    BY <2>1, <2>2, <2>3, <2>4, Numbers
<1>2. /\ \A e \in S : rank(e) \in 1..n
      /\ \A d, e \in S : d < e => rank(d) < rank(e)
      /\ \A k \in 1..n : \E e \in S : rank(e) = k
  BY <1>1, Ranks
<1>3. \A k \in 1..n : at(k) \in S /\ rank(at(k)) = k
  BY <1>2
<1>4. ASSUME NEW d \in S, NEW e \in S, rank(d) = rank(e) PROVE d = e
  <2> HIDE DEF rank, S, n
  <2>1. rank(d) \in Nat /\ d \in Nat /\ e \in Nat /\ (d < e \/ e < d \/ d = e)
    BY <1>1, <1>2
  <2>2. QED
    BY <1>2, <1>4, <2>1
<1>5. rank(1) = 1
  <2>1. Upward(S, 1) = {1}
    BY <1>1, Numbers DEF Upward
  <2>2. QED
    BY <2>1, FS_Singleton
<1>6. ASSUME NEW e \in S
      PROVE  IF rank(e) = n THEN list.next[e] = NULL
             ELSE list.next[e] \in S /\ rank(list.next[e]) = rank(e) + 1
  <2> DEFINE x == list.next[e]
  <2>1. /\ x \in S \cup {NULL} /\ (x # NULL => e < x)
        /\ \A d \in S : e < d => x # NULL /\ x <= d
    BY <1>1 DEF Sorted
  <2>2. CASE x = NULL
    <3>1. \A d \in S : d <= e
      BY <1>1, <2>1, <2>2
    <3>2. Upward(S, e) = S
      BY <3>1 DEF Upward
    <3>3. rank(e) = n
      BY <3>2
    <3> HIDE DEF rank, n, S
    <3>4. QED
      BY <2>2, <3>3
  <2>3. CASE x # NULL
    <3>1. x \in S /\ e < x
      BY <2>1, <2>3
    <3> HIDE DEF x
    <3>2. \A d \in S : d <= x <=> (d <= e \/ d = x)
      <4>1. x \in Nat /\ e \in Nat
        BY <1>1, <3>1
      <4>2. QED
        BY <1>1, <2>1, <3>1, <4>1
    <3>3. Upward(S, x) = Upward(S, e) \cup {x} /\ x \notin Upward(S, e)
      <4>1. x \notin Upward(S, e)
        BY <1>1, <3>1 DEF Upward
      <4>2. Upward(S, x) = Upward(S, e) \cup {x}
        BY <3>1, <3>2 DEF Upward
      <4>3. QED
        BY <4>1, <4>2
    <3>4. IsFiniteSet(Upward(S, e))
      BY <1>1, FS_Subset DEF Upward
    <3>5. rank(x) = rank(e) + 1
      BY <3>3, <3>4, FS_AddElement
    <3>6. rank(e) # n
      <4>1. rank(e) \in Nat /\ rank(x) <= n /\ n \in Nat
        BY <1>1, <1>2, <3>1
      <4> HIDE DEF rank, n
      <4>2. QED
        BY <3>5, <4>1
    <3> HIDE DEF rank, n, S
    <3>7. QED
      BY <3>1, <3>5, <3>6 DEF x
  <2>4. QED
    BY <2>2, <2>3
<1> HIDE DEF n, rank, c, at, S
<1>7. \A k \in 1..c : (k <= n => g[k] \in S /\ rank(g[k]) = k) /\ (~(k <= n) => g[k] = NULL)
  BY <1>1, <1>3
<1> HIDE DEF g
<1>8. ASSUME NEW k \in 1..c
      PROVE  g[k] = IF k = 1 THEN list.head
                    ELSE IF g[k - 1] = NULL THEN NULL ELSE list.next[g[k - 1]]
  <2>1. CASE k = 1
    <3>1. 1 <= n
      BY <1>1, <1>2
    <3>2. g[1] \in S /\ rank(g[1]) = rank(1) /\ list.head = 1
      BY <1>1, <1>5, <1>7, <2>1, <3>1 DEF Sorted
    <3>3. QED
      BY <1>1, <1>4, <2>1, <3>2
  <2>2. CASE k # 1
    <3> DEFINE j == k - 1
    <3>1. j \in 1..c /\ k = j + 1 /\ k \in Nat /\ j \in Nat
      BY <1>1, <2>2
    <3> HIDE DEF j
    <3>2. CASE j <= n
      <4>1. g[j] \in S /\ rank(g[j]) = j /\ g[j] # NULL
        BY <1>1, <1>7, <3>1, <3>2
      <4>2. CASE j = n
        <5>1. list.next[g[j]] = NULL
          BY <1>6, <4>1, <4>2
        <5>2. ~(k <= n)
          BY <1>1, <3>1, <4>2
        <5>3. g[k] = NULL
          BY <1>7, <5>2
        <5>4. QED
          BY <2>2, <4>1, <5>1, <5>3 DEF j
      <4>3. CASE j # n
        <5>1. list.next[g[j]] \in S /\ rank(list.next[g[j]]) = k
          BY <1>6, <3>1, <4>1, <4>3
        <5>2. g[k] \in S /\ rank(g[k]) = k
          BY <1>1, <1>7, <3>1, <3>2, <4>3
        <5>3. g[k] = list.next[g[j]]
          BY <1>4, <5>1, <5>2
        <5>4. QED
          BY <2>2, <4>1, <5>3 DEF j
      <4>4. QED
        BY <4>2, <4>3
    <3>3. CASE ~(j <= n)
      <4>1. g[j] = NULL /\ g[k] = NULL
        BY <1>1, <1>7, <3>1, <3>3
      <4>2. QED
        BY <2>2, <4>1 DEF j
    <3>4. QED
      BY <3>2, <3>3
  <2>3. QED
    BY <2>1, <2>2
<1> DEFINE solves(f) == f = [k \in 1..c |-> IF k = 1 THEN list.head
                                   ELSE IF f[k - 1] = NULL THEN NULL
                                   ELSE list.next[f[k - 1]]]
<1>9. solves(g)
  <2>1. g = [k \in 1..c |-> g[k]]
    BY DEF g
  <2>2. QED
    BY <1>8, <2>1
<1>10. solves(Nth)
  <2>1. Nth = CHOOSE f : solves(f)
    BY DEF Nth, c
  <2> HIDE DEF solves
  <2>2. QED
    BY <1>9, <2>1
<1>11. \A k \in 1..c : Nth[k] = IF k = 1 THEN list.head
                                ELSE IF Nth[k - 1] = NULL THEN NULL
                                ELSE list.next[Nth[k - 1]]
  <2> DEFINE N1 == Nth
  <2> HIDE DEF N1
  <2>1. solves(N1)
    BY <1>10 DEF N1
  <2>2. \A k \in 1..c : N1[k] = IF k = 1 THEN list.head
                                ELSE IF N1[k - 1] = NULL THEN NULL
                                ELSE list.next[N1[k - 1]]
    BY <2>1
  <2>3. QED
    BY <2>2 DEF N1
<1> HIDE DEF solves
<1>12. \A k \in 1..c : Nth[k] = g[k]
  <2> DEFINE T == {k \in 1..c : Nth[k] # g[k]}
  <2> SUFFICES ASSUME T # {} PROVE FALSE
    OBVIOUS
  <2>1. PICK k \in T : \A j \in T : k <= j
    <3>1. T \subseteq Nat
      BY <1>1
    <3> HIDE DEF T
    <3>2. QED
      BY <3>1, LeastNat
  <2>2. k \in 1..c /\ Nth[k] # g[k]
    OBVIOUS
  <2>3. k # 1
    BY <1>8, <1>11, <2>2
  <2>4. k - 1 \in 1..c /\ k - 1 \notin T
    BY <1>1, <2>1, <2>2, <2>3
  <2>5. Nth[k - 1] = g[k - 1]
    BY <2>4
  <2>6. QED
    BY <1>8, <1>11, <2>2, <2>3, <2>5
<1>13. \A k \in 1..n : Nth[k] \in S /\ rank(Nth[k]) = k
  <2>1. \A k \in 1..n : k \in 1..c /\ k <= n
    BY <1>1
  <2>2. QED
    BY <1>7, <1>12, <2>1
<1>14. QED
  BY <1>1, <1>13 DEF n, rank, S

\* ListSound: from the head one comes to every live element, in order, and the
\* loop stands on one of them, or at the end.
THEOREM ListIsSound == Spec => []ListSound
<1>1. ASSUME IInv PROVE ListSound
  <2> DEFINE S == list.live
             n == Cardinality(S)
             rank(e) == Cardinality(Upward(S, e))
  <2>1. TypeOK /\ ListInv /\ Sorted(list, made) /\ S \subseteq Nat /\ IsFiniteSet(S)
    <3>1. TypeOK /\ ListInv /\ Sorted(list, made) /\ S \subseteq Elem
      BY <1>1 DEF IInv, ListInv, TypeOK
    <3>2. QED
      BY <3>1, Numbers, FS_Subset
  <2>2. n \in Nat /\ \A k \in 1..n : Nth[k] \in S /\ rank(Nth[k]) = k
    BY <2>1, NthIsRanked
  <2>3. /\ \A e \in S : rank(e) \in 1..n
        /\ \A d, e \in S : d < e => rank(d) < rank(e)
    BY <2>1, Ranks
  <2>4. list.live = S /\ loop.elem \in S \cup {NULL}
    BY <2>1 DEF ListInv
  <2>5. ASSUME NEW e \in S, list.next[e] = NULL PROVE e = Nth[n]
    <3>1. \A d \in S : d <= e
      BY <2>1, <2>5 DEF Sorted
    <3>2. n \in 1..n
      BY <2>2, <2>3
    <3>3. Nth[n] <= e /\ Nth[n] \in S
      BY <2>2, <3>1, <3>2
    <3>4. ~(Nth[n] < e)
      <4>1. rank(e) <= n /\ rank(Nth[n]) = n /\ rank(e) \in Nat
        BY <2>2, <2>3, <3>2
      <4> HIDE DEF rank, n
      <4>2. QED
        BY <2>2, <2>3, <3>3, <4>1
    <3>5. QED
      BY <2>1, <3>3, <3>4
  <2> HIDE DEF rank, n, S
  <2>6. ASSUME NEW d \in S, NEW e \in S, ~(d < e) PROVE rank(e) <= rank(d)
    <3>1. d \in Nat /\ e \in Nat /\ rank(d) \in Nat /\ rank(e) \in Nat
      BY <2>1, <2>2, <2>3
    <3>2. e < d \/ e = d
      BY <2>6, <3>1
    <3>3. QED
      BY <2>3, <3>1, <3>2
  <2>7. ASSUME NEW e \in S PROVE rank(e) \in 1..n /\ e = Nth[rank(e)]
    <3>1. /\ rank(e) \in 1..n /\ Nth[rank(e)] \in S /\ rank(Nth[rank(e)]) = rank(e)
      BY <2>2, <2>3
    <3> DEFINE y == Nth[rank(e)]
    <3>2. y \in S /\ rank(y) = rank(e) /\ y \in Nat /\ e \in Nat /\ rank(e) \in Nat
      <4>1. y \in S /\ rank(y) = rank(e)
        BY <3>1
      <4> HIDE DEF y
      <4>2. QED
        BY <2>1, <2>2, <3>1, <4>1
    <3> HIDE DEF y
    <3>3. ~(y < e) /\ ~(e < y)
      BY <2>3, <3>2
    <3>4. y = e
      BY <3>2, <3>3
    <3>5. QED
      BY <3>1, <3>4 DEF y
  <2>8. S = {Nth[k] : k \in 1..n}
    BY <2>2, <2>7
  <2>9. ASSUME NEW k \in 1..n - 1 PROVE Nth[k] < Nth[k + 1]
    <3>1. k \in 1..n /\ k + 1 \in 1..n /\ k \in Nat
      BY <2>2
    <3>2. /\ Nth[k] \in S /\ rank(Nth[k]) = k
          /\ Nth[k + 1] \in S /\ rank(Nth[k + 1]) = k + 1
      BY <2>2, <3>1
    <3>3. ~(k + 1 <= k)
      BY <3>1
    <3>4. QED
      BY <2>6, <3>2, <3>3
  <2>10. QED
    BY <2>4, <2>5, <2>8, <2>9 DEF ListSound, n, S
<1>2. QED
  BY <1>1, Invariant, PTL

=============================================================================
