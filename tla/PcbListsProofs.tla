---- MODULE PcbListsProofs ----
(***************************************************************************)
(* Proofs about the lists of Fase_1 as the code links them, for every      *)
(* number of PCBs and every set of semaphores: the links always amount to  *)
(* lists, and the functions do to them what Lists says.                    *)
(***************************************************************************)
EXTENDS PcbLists, PcbQueueProofs

----------------------------------------------------------------------------
(***************************************************************************)
(* Recursion.  What holds of 0 and of n + 1 with n holds of every number,  *)
(* and a function can be defined by what it is at 0 and how it goes on.    *)
(***************************************************************************)

\* Induction, in terms of the set of the numbers for which the formula holds.
LEMMA InductiveSet ==
  ASSUME NEW T, T \subseteq Nat, 0 \in T, \A n \in T : n + 1 \in T
  PROVE  T = Nat
<1> SUFFICES ASSUME Nat \ T # {} PROVE FALSE
  OBVIOUS
<1>1. PICK m \in Nat \ T : \A k \in Nat \ T : m <= k
  BY Smallest
<1>2. m - 1 \in Nat /\ m - 1 \notin Nat \ T
  BY <1>1
<1>3. m - 1 + 1 \in T
  BY <1>2
<1> QED BY <1>1, <1>3

\* The iteration of a function from a first value.
LEMMA Iteration ==
  ASSUME NEW T, NEW first \in T, NEW step \in [T -> T]
  PROVE  \E f \in [Nat -> T] : f[0] = first /\ \A n \in Nat : f[n + 1] = step[f[n]]
<1> DEFINE Until(g, n) == /\ g \in [0 .. n -> T]
                          /\ g[0] = first
                          /\ \A i \in 0 .. n - 1 : g[i + 1] = step[g[i]]
           Reached == {n \in Nat : \E g : Until(g, n)}
<1>1. Reached = Nat
  <2>1. 0 \in Reached
    <3>1. Until([i \in 0 .. 0 |-> first], 0)
      OBVIOUS
    <3> QED BY <3>1
  <2>2. ASSUME NEW n \in Reached PROVE n + 1 \in Reached
    <3>1. PICK g : Until(g, n)
      OBVIOUS
    <3> DEFINE h == [i \in 0 .. n + 1 |-> IF i <= n THEN g[i] ELSE step[g[n]]]
    <3>2. \A i \in 0 .. n + 1 : h[i] = IF i <= n THEN g[i] ELSE step[g[n]]
      OBVIOUS
    <3>3. h \in [0 .. n + 1 -> T]
      BY <3>1
    <3> HIDE DEF h
    <3>4. \A i \in 0 .. n : h[i + 1] = step[h[i]]
      BY <3>1, <3>2
    <3>5. Until(h, n + 1)
      BY <3>1, <3>2, <3>3, <3>4
    <3> HIDE DEF Until
    <3> QED BY <3>5
  <2> HIDE DEF Reached
  <2>3. Reached \subseteq Nat
    BY DEF Reached
  <2> QED BY <2>1, <2>2, <2>3, InductiveSet
<1>2. ASSUME NEW g, NEW h, NEW n \in Nat, NEW m \in Nat, Until(g, n), Until(h, m)
      PROVE  \A i \in Nat : i <= n /\ i <= m => g[i] = h[i]
  <2> DEFINE Agree == {i \in Nat : i <= n /\ i <= m => g[i] = h[i]}
  <2>1. 0 \in Agree
    BY <1>2
  <2>2. ASSUME NEW i \in Agree PROVE i + 1 \in Agree
    BY <1>2
  <2> HIDE DEF Agree, Until
  <2>3. Agree = Nat
    <3>1. Agree \subseteq Nat
      BY DEF Agree
    <3> QED BY <2>1, <2>2, <3>1, InductiveSet
  <2> QED BY <2>3 DEF Agree
<1> DEFINE G(n) == CHOOSE g : Until(g, n)
           f == [n \in Nat |-> G(n)[n]]
<1>3. \A n \in Nat : Until(G(n), n)
  <2> HIDE DEF Until
  <2> QED BY <1>1
<1> HIDE DEF G, Reached
<1>4. f \in [Nat -> T] /\ f[0] = first
  BY <1>3
<1>5. ASSUME NEW n \in Nat PROVE f[n + 1] = step[f[n]]
  <2>1. Until(G(n), n) /\ Until(G(n + 1), n + 1)
    BY <1>3
  <2>2. G(n)[n] = G(n + 1)[n]
    <3> HIDE DEF Until
    <3>1. n + 1 \in Nat /\ n <= n + 1 /\ n <= n
      OBVIOUS
    <3> QED BY <1>2, <2>1, <3>1
  <2>3. G(n + 1)[n + 1] = step[G(n + 1)[n]]
    BY <2>1
  <2> QED BY <2>2, <2>3
<1> HIDE DEF f
<1> QED BY <1>4, <1>5

\* A link between the elements of S.
IsLink(link, S) == NULL \notin S /\ link \in [S -> Maybe(S)]

\* The loop along a link is such a function: Walk unfolds.
LEMMA WalkUnfolds ==
  ASSUME NEW S, NEW link, IsLink(link, S), NEW end
  PROVE  /\ Walk(link, end) \in [Nat -> [Maybe(S) -> Seq(S)]]
         /\ \A n \in Nat : \A at \in Maybe(S) :
              Walk(link, end)[n][at] =
                IF at = NULL \/ n = 0 THEN <<>>
                ELSE IF at = end THEN <<at>>
                ELSE <<at>> \o Walk(link, end)[n - 1][link[at]]
<1> USE DEF IsLink
<1> DEFINE T == [Maybe(S) -> Seq(S)]
           w0 == [at \in Maybe(S) |-> <<>>]
           On(w) == [at \in Maybe(S) |->
                       IF at = NULL THEN <<>>
                       ELSE IF at = end THEN <<at>> ELSE <<at>> \o w[link[at]]]
           Body(f) == [n \in Nat |->
                        [at \in Maybe(DOMAIN link) |->
                           IF at = NULL \/ n = 0 THEN <<>>
                           ELSE IF at = end THEN <<at>> ELSE <<at>> \o f[n - 1][link[at]]]]
           walk == CHOOSE f : f = Body(f)
<1>1. w0 \in T
  OBVIOUS
<1>2. ASSUME NEW w \in T PROVE On(w) \in T
  <2>1. ASSUME NEW at \in Maybe(S)
        PROVE  (IF at = NULL THEN <<>>
                ELSE IF at = end THEN <<at>> ELSE <<at>> \o w[link[at]]) \in Seq(S)
    <3>1. CASE at = NULL
      BY <3>1
    <3>2. CASE at # NULL
      <4>1. at \in S /\ link[at] \in Maybe(S) /\ w[link[at]] \in Seq(S)
        BY <3>2 DEF Maybe
      <4>2. <<at>> \in Seq(S)
        BY <4>1
      <4>3. <<at>> \o w[link[at]] \in Seq(S)
        BY <4>1, <4>2
      <4> QED BY <4>2, <4>3
    <3> QED BY <3>1, <3>2
  <2> QED BY <2>1
<1>a. PICK longer : longer = [w \in T |-> On(w)]
  OBVIOUS
<1>3. longer \in [T -> T]
  BY <1>2, <1>a
<1>4. PICK f \in [Nat -> T] : f[0] = w0 /\ \A n \in Nat : f[n + 1] = longer[f[n]]
  <2>1. PICK U : U = T
    OBVIOUS
  <2>2. PICK u : u = w0
    OBVIOUS
  <2> HIDE DEF T, w0
  <2>3. u \in U /\ longer \in [U -> U]
    BY <1>1, <1>3, <2>1, <2>2
  <2>4. \E f \in [Nat -> U] : f[0] = u /\ \A n \in Nat : f[n + 1] = longer[f[n]]
    BY <2>3, Iteration
  <2> QED BY <2>1, <2>2, <2>4
<1>5. f = Body(f)
  <2>1. ASSUME NEW n \in Nat PROVE f[n] = Body(f)[n]
    <3>1. CASE n = 0
      BY <1>4, <3>1
    <3>2. CASE n # 0
      <4>1. n - 1 \in Nat /\ n - 1 + 1 = n
        BY <3>2
      <4>2. f[n] = longer[f[n - 1]] /\ f[n - 1] \in T
        BY <1>4, <4>1
      <4>3. f[n] = On(f[n - 1])
        BY <1>a, <4>2
      <4> QED BY <3>2, <4>3
    <3> QED BY <3>1, <3>2
  <2>2. Body(f) = [n \in Nat |-> Body(f)[n]]
    OBVIOUS
  <2>3. f = [n \in Nat |-> f[n]]
    OBVIOUS
  <2> HIDE DEF Body
  <2> QED BY <2>1, <2>2, <2>3
<1>6. walk = Body(walk)
  <2> HIDE DEF Body
  <2> QED BY <1>5
<1>7. Walk(link, end) = walk
  BY DEF Walk
<1> HIDE DEF walk
<1>8. \A n \in Nat : \A at \in Maybe(S) :
        walk[n][at] = IF at = NULL \/ n = 0 THEN <<>>
                      ELSE IF at = end THEN <<at>>
                      ELSE <<at>> \o walk[n - 1][link[at]]
  <2>1. SUFFICES ASSUME NEW n \in Nat, NEW at \in Maybe(S)
                 PROVE  walk[n][at] = IF at = NULL \/ n = 0 THEN <<>>
                                      ELSE IF at = end THEN <<at>>
                                      ELSE <<at>> \o walk[n - 1][link[at]]
    OBVIOUS
  <2>2. walk[n] = Body(walk)[n]
    <3> HIDE DEF Body
    <3> QED BY <1>6
  <2>3. Maybe(DOMAIN link) = Maybe(S)
    OBVIOUS
  <2> QED BY <2>2, <2>3
<1>9. walk \in [Nat -> T]
  <2>1. walk = [n \in Nat |-> [at \in Maybe(S) |-> walk[n][at]]]
    BY <1>6
  <2> DEFINE Typed == {n \in Nat : walk[n] \in T}
  <2>2. 0 \in Typed
    <3>1. \A at \in Maybe(S) : walk[0][at] = <<>>
      BY <1>8
    <3>2. walk[0] = [at \in Maybe(S) |-> walk[0][at]]
      BY <2>1
    <3>3. walk[0] = w0
      BY <3>1, <3>2
    <3> QED BY <1>1, <3>3
  <2>3. ASSUME NEW n \in Typed PROVE n + 1 \in Typed
    <3>1. walk[n] \in T /\ n + 1 \in Nat
      OBVIOUS
    <3>2. walk[n + 1] = On(walk[n])
      <4>1. \A at \in Maybe(S) : walk[n + 1][at] = On(walk[n])[at]
        <5>1. PICK m \in Nat : m = n + 1 /\ m # 0 /\ m - 1 = n
          BY <3>1
        <5>2. ASSUME NEW at \in Maybe(S) PROVE walk[n + 1][at] = On(walk[n])[at]
          <6>1. walk[m][at] = IF at = NULL \/ m = 0 THEN <<>>
                              ELSE IF at = end THEN <<at>>
                              ELSE <<at>> \o walk[m - 1][link[at]]
            BY <1>8, <5>1
          <6> QED BY <5>1, <6>1
        <5> QED BY <5>2
      <4>2. walk[n + 1] = [at \in Maybe(S) |-> walk[n + 1][at]]
        BY <2>1, <3>1
      <4> QED BY <4>1, <4>2
    <3> QED BY <1>2, <3>1, <3>2
  <2>4. Typed = Nat
    <3>1. Typed \subseteq Nat
      OBVIOUS
    <3> HIDE DEF Typed
    <3> QED BY <2>2, <2>3, <3>1, InductiveSet
  <2> QED BY <2>1, <2>4
<1> QED BY <1>7, <1>8, <1>9

\* What is a sequence, and when two of them are the same.
LEMMA IsSequence ==
  ASSUME NEW S, NEW n \in Nat, NEW f \in [1 .. n -> S]
  PROVE  f \in Seq(S) /\ Len(f) = n /\ DOMAIN f = 1 .. n
OBVIOUS

LEMMA SameSequence ==
  ASSUME NEW S, NEW q \in Seq(S), NEW r \in Seq(S), Len(q) = Len(r),
         \A i \in 1 .. Len(q) : q[i] = r[i]
  PROVE  q = r
OBVIOUS

\* s is the list that the link goes through from x on, and it ends where a loop
\* stops: at the node `end`, or at one that has no next.
IsPath(link, x, end, s, S) ==
  /\ IsListOf(s, S) /\ Len(s) <= MAXPROC + 3
  /\ x = IF s = <<>> THEN NULL ELSE s[1]
  /\ \A i \in 1 .. Len(s) - 1 : link[s[i]] = s[i + 1] /\ s[i] # end
  /\ s # <<>> => s[Len(s)] = end \/ link[s[Len(s)]] = NULL

\* Such a loop returns it.
LEMMA AlongPath ==
  ASSUME NEW S, NEW link, IsLink(link, S), NEW end, NEW x, NEW s,
         IsPath(link, x, end, s, S)
  PROVE  Along(link, x, end) = s
<1> DEFINE walk == Walk(link, end)
<1>1. /\ \A n \in Nat : \A at \in Maybe(S) :
           walk[n][at] = IF at = NULL \/ n = 0 THEN <<>>
                         ELSE IF at = end THEN <<at>>
                         ELSE <<at>> \o walk[n - 1][link[at]]
  BY WalkUnfolds
<1> USE DEF IsLink, IsPath
<1>a. Along(link, x, end) = walk[MAXPROC + 3][x]
  BY DEF Along
<1> HIDE DEF walk
<1>2. PICK m \in Nat : m = Len(s)
  BY DEF IsListOf
<1>3. s \in Seq(S) /\ s \in [1 .. m -> S] /\ \A i \in 1 .. m : s[i] \in S /\ s[i] # NULL
  <2>1. s \in Seq(S) /\ s \in [1 .. Len(s) -> S]
    BY DEF IsListOf
  <2> QED BY <1>2, <2>1
<1>4. MAXPROC + 3 \in Nat /\ m <= MAXPROC + 3
  BY SizeAssumption, <1>2
<1>5. CASE s = <<>>
  <2>1. x = NULL /\ NULL \in Maybe(S)
    BY <1>5 DEF Maybe
  <2>2. walk[MAXPROC + 3][NULL] = <<>>
    BY <1>1, <1>4, <2>1
  <2> QED BY <1>a, <1>5, <2>1, <2>2
<1>6. CASE s # <<>>
  <2> DEFINE From(j) == [i \in 1 .. m - j + 1 |-> s[j + i - 1]]
             Right(k) == k < m => \A n \in Nat : n > k => walk[n][s[m - k]] = From(m - k)
             T == {k \in Nat : Right(k)}
  <2>1. m >= 1
    BY <1>2, <1>3, <1>6
  <2>2. \A j \in 1 .. m : From(j) \in Seq(S) /\ Len(From(j)) = m - j + 1
    <3>1. SUFFICES ASSUME NEW j \in 1 .. m
                   PROVE  From(j) \in Seq(S) /\ Len(From(j)) = m - j + 1
      OBVIOUS
    <3>2. m - j + 1 \in Nat
      OBVIOUS
    <3>3. \A i \in 1 .. m - j + 1 : j + i - 1 \in 1 .. m
      OBVIOUS
    <3>4. From(j) \in [1 .. m - j + 1 -> S]
      BY <1>3, <3>3
    <3> HIDE DEF From
    <3> QED BY <3>2, <3>4, IsSequence
  <2>3. From(m) = <<s[m]>>
    <3>1. From(m) \in Seq(S) /\ Len(From(m)) = 1
      <4> HIDE DEF From
      <4>1. m \in 1 .. m /\ m - m + 1 = 1
        BY <1>2, <2>1
      <4> QED BY <2>2, <4>1
    <3>2. From(m)[1] = s[m]
      BY <2>1
    <3> HIDE DEF From
    <3> QED BY <1>3, <2>1, <3>1, <3>2
  <2>4. ASSUME NEW j \in 1 .. m - 1 PROVE From(j) = <<s[j]>> \o From(j + 1)
    <3>1. From(j) \in Seq(S) /\ Len(From(j)) = m - j + 1
      <4> HIDE DEF From
      <4>1. j \in 1 .. m
        BY <1>2
      <4> QED BY <2>2, <4>1
    <3>2. From(j + 1) \in Seq(S) /\ Len(From(j + 1)) = m - j
      <4> HIDE DEF From
      <4>1. j + 1 \in 1 .. m /\ m - (j + 1) + 1 = m - j
        BY <1>2
      <4> QED BY <2>2, <4>1
    <3>3. \A i \in 1 .. m - j : From(j + 1)[i] = s[j + i]
      OBVIOUS
    <3>4. \A i \in 1 .. m - j + 1 : From(j)[i] = s[j + i - 1]
      OBVIOUS
    <3> HIDE DEF From
    <3> DEFINE r == <<s[j]>> \o From(j + 1)
    <3>5. /\ r \in Seq(S) /\ Len(r) = m - j + 1
          /\ \A i \in 1 .. m - j + 1 : r[i] = IF i = 1 THEN s[j] ELSE From(j + 1)[i - 1]
      <4>1. PICK q \in Seq(S) : q = From(j + 1) /\ Len(q) = m - j
        BY <3>2
      <4>2. <<s[j]>> \in Seq(S) /\ Len(<<s[j]>>) = 1 /\ <<s[j]>>[1] = s[j]
        BY <1>3
      <4>3. <<s[j]>> \o q \in Seq(S) /\ Len(<<s[j]>> \o q) = m - j + 1
        BY <4>1, <4>2
      <4>4. \A i \in 1 .. m - j + 1 :
              (<<s[j]>> \o q)[i] = IF i = 1 THEN s[j] ELSE q[i - 1]
        BY <4>1, <4>2
      <4> QED BY <4>1, <4>3, <4>4
    <3> HIDE DEF r
    <3>6. \A i \in 1 .. m - j + 1 : r[i] = From(j)[i]
      <4>1. SUFFICES ASSUME NEW i \in 1 .. m - j + 1 PROVE r[i] = From(j)[i]
        OBVIOUS
      <4>2. CASE i = 1
        BY <3>4, <3>5, <4>2
      <4>3. CASE i # 1
        <5>1. i - 1 \in 1 .. m - j /\ j + (i - 1) = j + i - 1
          BY <4>3
        <5>2. From(j + 1)[i - 1] = s[j + (i - 1)]
          BY <3>3, <5>1
        <5> QED BY <3>4, <3>5, <4>3, <5>1, <5>2
      <4> QED BY <4>2, <4>3
    <3>7. r = From(j)
      BY <3>1, <3>5, <3>6, SameSequence
    <3> QED BY <3>7 DEF r
  <2>5. From(1) = s
    <3>1. From(1) \in Seq(S) /\ Len(From(1)) = m
      <4> HIDE DEF From
      <4>1. 1 \in 1 .. m /\ m - 1 + 1 = m
        BY <1>2, <2>1
      <4> QED BY <2>2, <4>1
    <3>2. \A i \in 1 .. m : From(1)[i] = s[i]
      OBVIOUS
    <3> HIDE DEF From
    <3> QED BY <1>2, <1>3, <3>1, <3>2
  <2> HIDE DEF From
  <2>6. 0 \in T
    <3> SUFFICES m > 0 => \A n \in Nat : n > 0 => walk[n][s[m]] = From(m)
      OBVIOUS
    <3>1. SUFFICES ASSUME NEW n \in Nat, n > 0 PROVE walk[n][s[m]] = <<s[m]>>
      BY <2>3
    <3>2. s[m] \in S /\ s[m] # NULL /\ s[m] \in Maybe(S)
      BY <1>3, <2>1 DEF Maybe
    <3>3. walk[n][s[m]] = IF s[m] = end THEN <<s[m]>>
                          ELSE <<s[m]>> \o walk[n - 1][link[s[m]]]
      BY <1>1, <3>1, <3>2
    <3>4. CASE s[m] = end
      BY <3>3, <3>4
    <3>5. CASE s[m] # end
      <4>1. link[s[m]] = NULL /\ n - 1 \in Nat /\ NULL \in Maybe(S)
        BY <1>2, <1>6, <3>1, <3>5 DEF Maybe
      <4>2. walk[n - 1][link[s[m]]] = <<>>
        BY <1>1, <4>1
      <4>3. <<s[m]>> \o <<>> = <<s[m]>>
        BY <3>2
      <4> QED BY <3>3, <3>5, <4>2, <4>3
    <3> QED BY <3>4, <3>5
  <2>7. ASSUME NEW k \in T PROVE k + 1 \in T
    <3>0. k \in Nat /\ Right(k)
      OBVIOUS
    <3>1. SUFFICES ASSUME k + 1 < m, NEW n \in Nat, n > k + 1
                   PROVE  walk[n][s[m - (k + 1)]] = From(m - (k + 1))
      BY <3>0
    <3>2. PICK j \in 1 .. m - 1 : j = m - (k + 1) /\ j + 1 = m - k
      BY <3>0, <3>1
    <3>3. n - 1 \in Nat /\ n - 1 > k /\ n # 0
      BY <3>0, <3>1
    <3>4. walk[n - 1][s[j + 1]] = From(j + 1)
      BY <3>0, <3>1, <3>2, <3>3
    <3>5. s[j] \in Maybe(S) /\ s[j] # NULL /\ s[j] # end /\ link[s[j]] = s[j + 1]
      BY <1>2, <1>3 DEF Maybe
    <3>6. walk[n][s[j]] = <<s[j]>> \o walk[n - 1][link[s[j]]]
      BY <1>1, <3>3, <3>5
    <3>7. walk[n][s[j]] = From(j)
      BY <2>4, <3>4, <3>5, <3>6
    <3> QED BY <3>2, <3>7
  <2>8. T = Nat
    <3>1. T \subseteq Nat
      OBVIOUS
    <3> HIDE DEF T
    <3> QED BY <2>6, <2>7, <3>1, InductiveSet
  <2>9. m - 1 \in T
    <3> HIDE DEF T
    <3>1. m - 1 \in Nat
      BY <2>1
    <3> QED BY <2>8, <3>1
  <2>10. walk[MAXPROC + 3][s[1]] = From(1)
    BY <1>4, <2>1, <2>9
  <2> QED BY <1>a, <1>6, <2>5, <2>10
<1> QED BY <1>5, <1>6

----------------------------------------------------------------------------
(***************************************************************************)
(* The lists of PCBs and of descriptors: what the links of a list are.     *)
(***************************************************************************)

\* s is the list that starts at x and goes on along the link until NULL.
IsChain(link, x, s, S) ==
  /\ IsListOf(s, S)
  /\ x = IF s = <<>> THEN NULL ELSE s[1]
  /\ \A i \in 1 .. Len(s) : link[s[i]] = IF i = Len(s) THEN NULL ELSE s[i + 1]

\* The place after i in a circular queue.
Turn(q, i) == IF i = Len(q) THEN 1 ELSE i + 1

\* q is the queue, from the oldest element, that has the tail tp.
IsRing(next, prev, tp, q) ==
  /\ IsListOf(q, Pcb)
  /\ tp = IF q = <<>> THEN NULL ELSE q[Len(q)]
  /\ \A i \in 1 .. Len(q) : next[q[i]] = q[Turn(q, i)] /\ prev[q[Turn(q, i)]] = q[i]

\* How many PCBs and descriptors there are, and NULL is none of them.
LEMMA Sizes ==
  /\ IsFiniteSet(Pcb) /\ Cardinality(Pcb) = MAXPROC /\ NULL \notin Pcb
  /\ IsFiniteSet(Semd) /\ Cardinality(Semd) = MAXPROC + 2 /\ NULL \notin Semd
<1>1. MAXPROC \in Nat /\ MAXPROC > 0 /\ MAXPROC - 1 \in Int /\ MAXPROC + 1 \in Int
  BY SizeAssumption
<1>2. IsFiniteSet(0 .. MAXPROC - 1) /\ IsFiniteSet(0 .. MAXPROC + 1)
  BY <1>1, FS_Interval
<1>3. Cardinality(0 .. MAXPROC - 1) = IF 0 > MAXPROC - 1 THEN 0 ELSE MAXPROC - 1 - 0 + 1
  BY <1>1, FS_Interval
<1>4. Cardinality(0 .. MAXPROC + 1) = IF 0 > MAXPROC + 1 THEN 0 ELSE MAXPROC + 1 - 0 + 1
  BY <1>1, FS_Interval
<1> QED BY <1>1, <1>2, <1>3, <1>4, NullAssumption DEF Pcb, Semd

\* A list is not longer than the table it is in.
LEMMA ListFits ==
  ASSUME NEW q
  PROVE  /\ IsListOf(q, Pcb) => Len(q) <= MAXPROC
         /\ IsListOf(q, Semd) => Len(q) <= MAXPROC + 2
<1>1. ASSUME NEW S, IsFiniteSet(S), IsListOf(q, S) PROVE Len(q) <= Cardinality(S)
  <2>1. Range(q) \subseteq S
    BY <1>1, ListOfRange
  <2>2. Cardinality(Range(q)) <= Cardinality(S)
    BY <1>1, <2>1, FS_Subset
  <2>3. Cardinality(Range(q)) = Len(q)
    BY <1>1, ListCardinality
  <2> QED BY <2>2, <2>3
<1> QED BY <1>1, Sizes

\* The loop along the link of a chain returns it.
LEMMA ChainReads ==
  ASSUME NEW S \in {Pcb, Semd}, NEW link, IsLink(link, S), NEW x, NEW s,
         IsChain(link, x, s, S)
  PROVE  Along(link, x, NULL) = s
<1>1. IsListOf(s, S) /\ s \in Seq(S) /\ Len(s) \in Nat
  BY DEF IsChain, IsListOf
<1>2. Len(s) <= MAXPROC + 3
  <2>1. Len(s) <= MAXPROC \/ Len(s) <= MAXPROC + 2
    BY <1>1, ListFits
  <2> QED BY <1>1, <2>1, SizeAssumption
<1>3. \A i \in 1 .. Len(s) : s[i] \in S /\ s[i] # NULL
  BY <1>1, Sizes
<1>4. \A i \in 1 .. Len(s) - 1 : link[s[i]] = s[i + 1] /\ s[i] # NULL
  BY <1>1, <1>3 DEF IsChain
<1>5. s # <<>> => link[s[Len(s)]] = NULL
  BY <1>1 DEF IsChain
<1>6. x = IF s = <<>> THEN NULL ELSE s[1]
  BY DEF IsChain
<1>7. IsPath(link, x, NULL, s, S)
  BY <1>1, <1>2, <1>4, <1>5, <1>6 DEF IsPath
<1> QED BY <1>7, AlongPath

\* The loop along p_next returns the queue, and that along p_prev meets it all.
LEMMA RingReads ==
  ASSUME NEW next, IsLink(next, Pcb), NEW prev, IsLink(prev, Pcb), NEW tp, NEW q,
         IsRing(next, prev, tp, q), q # <<>>
  PROVE  /\ tp \in Pcb /\ tp # NULL
         /\ Along(next, next[tp], tp) = q
         /\ Range(Along(prev, prev[tp], tp)) = Range(q)
<1>1. PICK n \in Nat : n = Len(q)
  BY DEF IsRing, IsListOf
<1>2. /\ IsListOf(q, Pcb) /\ q \in Seq(Pcb) /\ n > 0 /\ tp = q[n]
      /\ DOMAIN q = 1 .. n
      /\ \A i \in 1 .. n : q[i] \in Pcb
      /\ \A i, j \in 1 .. n : q[i] = q[j] => i = j
      /\ \A i \in 1 .. n : next[q[i]] = q[IF i = n THEN 1 ELSE i + 1]
      /\ \A i \in 1 .. n : prev[q[IF i = n THEN 1 ELSE i + 1]] = q[i]
  BY <1>1 DEF IsRing, IsListOf, IsInjective, Turn
<1>3. n <= MAXPROC + 3
  BY <1>1, <1>2, ListFits, SizeAssumption
<1>4. Along(next, next[tp], tp) = q
  <2>1. next[tp] = q[1]
    BY <1>2
  <2>2. \A i \in 1 .. n - 1 : next[q[i]] = q[i + 1] /\ q[i] # tp
    BY <1>2
  <2>3. IsPath(next, next[tp], tp, q, Pcb)
    BY <1>1, <1>2, <1>3, <2>1, <2>2 DEF IsPath
  <2> QED BY <2>3, AlongPath
<1>5. Range(Along(prev, prev[tp], tp)) = Range(q)
  <2> DEFINE from(i) == IF i = n THEN n ELSE n - i
             r == [i \in 1 .. n |-> q[from(i)]]
  <2>1. \A i \in 1 .. n : from(i) \in 1 .. n /\ from(from(i)) = i
    BY <1>2
  <2>2. r \in [1 .. n -> Pcb] /\ \A i \in 1 .. n : r[i] = q[from(i)]
    BY <1>2, <2>1
  <2>d. from(1) = (IF n = 1 THEN n ELSE n - 1) /\ from(n) = n
        /\ \A i \in 1 .. n - 1 : from(i) = n - i
    OBVIOUS
  <2> HIDE DEF r, from
  <2>3. r \in Seq(Pcb) /\ Len(r) = n /\ DOMAIN r = 1 .. n
    BY <2>2, IsSequence
  <2>4. IsListOf(r, Pcb)
    BY <1>2, <2>1, <2>2, <2>3 DEF IsListOf, IsInjective
  <2>5. prev[tp] = r[1]
    <3>1. CASE n = 1
      BY <1>2, <2>2, <2>d, <3>1
    <3>2. CASE n > 1
      <4>1. n - 1 \in 1 .. n /\ n - 1 # n /\ n - 1 + 1 = n
        BY <3>2
      <4>2. prev[q[n]] = q[n - 1]
        BY <1>2, <4>1
      <4> QED BY <1>2, <2>2, <2>d, <3>2, <4>2
    <3> QED BY <1>2, <3>1, <3>2
  <2>6. ASSUME NEW i \in 1 .. n - 1 PROVE prev[r[i]] = r[i + 1] /\ r[i] # tp
    <3>1. r[i] = q[n - i] /\ n - i \in 1 .. n - 1
      BY <2>2, <2>d
    <3>2. r[i] # tp
      BY <1>2, <3>1
    <3>3. CASE i = n - 1
      <4>1. r[i] = q[1] /\ r[i + 1] = q[n] /\ n \in 1 .. n
        BY <1>2, <2>2, <2>d, <3>1, <3>3
      <4>2. prev[q[1]] = q[n]
        BY <1>2
      <4> QED BY <3>2, <4>1, <4>2
    <3>4. CASE i # n - 1
      <4>1. i + 1 \in 1 .. n - 1 /\ n - i - 1 \in 1 .. n /\ n - i - 1 # n /\ n - i - 1 + 1 = n - i
            /\ n - (i + 1) = n - i - 1
        BY <1>2, <3>4
      <4>2. r[i + 1] = q[n - i - 1]
        BY <2>2, <2>d, <4>1
      <4>3. prev[q[n - i]] = q[n - i - 1]
        BY <1>2, <4>1
      <4> QED BY <3>1, <3>2, <4>2, <4>3
    <3> QED BY <3>3, <3>4
  <2>7. r # <<>> /\ r[Len(r)] = tp
    BY <1>2, <2>2, <2>3, <2>d
  <2>8. Along(prev, prev[tp], tp) = r
    <3>1. IsPath(prev, prev[tp], tp, r, Pcb)
      BY <1>3, <2>3, <2>4, <2>5, <2>6, <2>7 DEF IsPath
    <3> QED BY <3>1, AlongPath
  <2>9. Range(r) = Range(q)
    BY <1>2, <2>1, <2>2, <2>3 DEF Range
  <2> QED BY <2>8, <2>9
<1> QED BY <1>2, <1>4, <1>5, Sizes

\* No link of a PCB outside S has been written.
OnlyLinksOf(S) == \A x \in Pcb \ S : p_next'[x] = p_next[x] /\ p_prev'[x] = p_prev[x]

\* What a ring says of its elements, by their places.
LEMMA RingFacts ==
  ASSUME NEW next, NEW prev, NEW tp, NEW q, IsRing(next, prev, tp, q)
  PROVE  /\ IsListOf(q, Pcb) /\ q \in Seq(Pcb) /\ Len(q) \in Nat /\ DOMAIN q = 1 .. Len(q)
         /\ \A i \in 1 .. Len(q) : q[i] \in Pcb /\ q[i] \in Range(q)
         /\ \A x \in Range(q) : \E i \in 1 .. Len(q) : x = q[i]
         /\ \A i, j \in 1 .. Len(q) : q[i] = q[j] => i = j
         /\ tp = NULL <=> q = <<>>
         /\ q # <<>> <=> Len(q) > 0
         /\ q # <<>> => tp = q[Len(q)] /\ tp \in Range(q) /\ tp \in Pcb
<1>1. IsListOf(q, Pcb) /\ q \in Seq(Pcb) /\ Len(q) \in Nat /\ DOMAIN q = 1 .. Len(q)
  BY DEF IsRing, IsListOf
<1>2. \A i \in 1 .. Len(q) : q[i] \in Pcb /\ q[i] \in Range(q)
  BY <1>1 DEF Range
<1>3. \A x \in Range(q) : \E i \in 1 .. Len(q) : x = q[i]
  BY <1>1 DEF Range
<1>4. \A i, j \in 1 .. Len(q) : q[i] = q[j] => i = j
  BY <1>1 DEF IsListOf, IsInjective
<1>5. q # <<>> <=> Len(q) > 0
  BY <1>1
<1>6. q # <<>> => tp = q[Len(q)] /\ tp \in Range(q) /\ tp \in Pcb
  BY <1>1, <1>2, <1>5 DEF IsRing
<1>7. tp = NULL <=> q = <<>>
  BY <1>6, Sizes DEF IsRing
<1> QED BY <1>1, <1>2, <1>3, <1>4, <1>5, <1>6, <1>7

\* A ring is one as long as nobody writes the links of its elements.
LEMMA RingKept ==
  ASSUME NEW tp, NEW q, IsRing(p_next, p_prev, tp, q),
         NEW S, OnlyLinksOf(S), Range(q) \cap S = {}
  PROVE  IsRing(p_next', p_prev', tp, q)
<1>1. \A i \in 1 .. Len(q) : q[i] \in Pcb \ S
  BY RingFacts
<1>2. \A i \in 1 .. Len(q) : Turn(q, i) \in 1 .. Len(q)
  BY RingFacts DEF Turn
<1> QED BY <1>1, <1>2 DEF IsRing, OnlyLinksOf

\* insertProcQ and its like: p becomes the tail.
LEMMA RingInsert ==
  ASSUME IsLink(p_next, Pcb), IsLink(p_prev, Pcb), NEW tp, NEW q,
         IsRing(p_next, p_prev, tp, q), NEW p \in Pcb \ Range(q), InsertLinks(tp, p)
  PROVE  /\ IsRing(p_next', p_prev', p, InsertProcQ(q, p))
         /\ IsLink(p_next', Pcb) /\ IsLink(p_prev', Pcb)
         /\ OnlyLinksOf(Range(q) \cup {p})
<1> DEFINE n == Len(q)
           r == InsertProcQ(q, p)
<1>1. /\ IsListOf(q, Pcb) /\ q \in Seq(Pcb) /\ n \in Nat /\ DOMAIN q = 1 .. n
      /\ \A i \in 1 .. n : q[i] \in Pcb /\ q[i] \in Range(q) /\ q[i] # p
      /\ \A i, j \in 1 .. n : q[i] = q[j] => i = j
      /\ tp = NULL <=> n = 0
      /\ n > 0 => tp = q[n]
  BY RingFacts
<1>2. \A i \in 1 .. n :
        /\ p_next[q[i]] = q[IF i = n THEN 1 ELSE i + 1]
        /\ p_prev[q[IF i = n THEN 1 ELSE i + 1]] = q[i]
  BY DEF IsRing, Turn
<1>3. /\ IsListOf(r, Pcb) /\ r \in Seq(Pcb) /\ Len(r) = n + 1
      /\ \A i \in 1 .. n : r[i] = q[i]
      /\ r[n + 1] = p
  BY <1>1, InsertProcQLemma DEF InsertProcQ, IsListOf
<1> HIDE DEF n, r
<1>l. p_next \in [Pcb -> Maybe(Pcb)] /\ p_prev \in [Pcb -> Maybe(Pcb)]
  BY DEF IsLink
<1>4. CASE n = 0
  <2>1. /\ p_next' = [p_next EXCEPT ![p] = p]
        /\ p_prev' = [p_prev EXCEPT ![p] = p]
    BY <1>1, <1>4 DEF InsertLinks
  <2>2. p_next' \in [Pcb -> Maybe(Pcb)] /\ p_prev' \in [Pcb -> Maybe(Pcb)]
    BY <1>l, <2>1 DEF Maybe
  <2>3. OnlyLinksOf(Range(q) \cup {p})
    BY <1>l, <2>1 DEF OnlyLinksOf
  <2>4. Len(r) = 1 /\ r[1] = p /\ r # <<>> /\ Turn(r, 1) = 1
    <3>1. Len(r) = 1 /\ r[1] = p
      BY <1>3, <1>4
    <3> QED BY <1>3, <3>1 DEF Turn
  <2>5. p_next'[p] = p /\ p_prev'[p] = p
    BY <1>l, <2>1
  <2>6. \A i \in 1 .. Len(r) : p_next'[r[i]] = r[Turn(r, i)] /\ p_prev'[r[Turn(r, i)]] = r[i]
    <3>1. \A i \in 1 .. Len(r) : i = 1
      BY <2>4
    <3> QED BY <2>4, <2>5, <3>1
  <2>7. IsRing(p_next', p_prev', p, r)
    BY <1>3, <2>4, <2>6 DEF IsRing
  <2> QED BY <2>2, <2>3, <2>7, Sizes DEF IsLink, r
<1>5. CASE n > 0
  <2>1. /\ p_next' = [p_next EXCEPT ![p] = q[1], ![q[n]] = p]
        /\ p_prev' = [p_prev EXCEPT ![p] = q[n], ![q[1]] = p]
    BY <1>1, <1>2, <1>5 DEF InsertLinks
  <2>2. p_next' \in [Pcb -> Maybe(Pcb)] /\ p_prev' \in [Pcb -> Maybe(Pcb)]
    BY <1>1, <1>5, <1>l, <2>1 DEF Maybe
  <2>3. OnlyLinksOf(Range(q) \cup {p})
    BY <1>1, <1>5, <1>l, <2>1 DEF OnlyLinksOf
  <2>4. /\ p_next'[p] = q[1] /\ p_next'[q[n]] = p
        /\ p_prev'[p] = q[n] /\ p_prev'[q[1]] = p
        /\ \A x \in Pcb : x # p /\ x # q[n] => p_next'[x] = p_next[x]
        /\ \A x \in Pcb : x # p /\ x # q[1] => p_prev'[x] = p_prev[x]
    BY <1>1, <1>5, <1>l, <2>1
  <2>5. ASSUME NEW i \in 1 .. n + 1
        PROVE  p_next'[r[i]] = r[Turn(r, i)] /\ p_prev'[r[Turn(r, i)]] = r[i]
    <3>1. CASE i = n + 1
      BY <1>1, <1>3, <1>5, <2>4, <3>1 DEF Turn
    <3>2. CASE i = n
      BY <1>1, <1>3, <1>5, <2>4, <3>2 DEF Turn
    <3>3. CASE i < n
      <4>1. i \in 1 .. n /\ i + 1 \in 1 .. n /\ Turn(r, i) = i + 1 /\ i # n /\ i + 1 # 1
        BY <1>1, <1>3, <3>3 DEF Turn
      <4>2. p_next[q[i]] = q[i + 1] /\ p_prev[q[i + 1]] = q[i]
        BY <1>2, <4>1
      <4>3. q[i] # q[n] /\ q[i + 1] # q[1]
        BY <1>1, <1>5, <4>1
      <4> QED BY <1>1, <1>3, <2>4, <4>1, <4>2, <4>3
    <3> QED BY <1>1, <3>1, <3>2, <3>3
  <2>6. r # <<>> /\ r[Len(r)] = p
    BY <1>1, <1>3
  <2>7. IsRing(p_next', p_prev', p, r)
    BY <1>3, <2>5, <2>6 DEF IsRing
  <2> QED BY <2>2, <2>3, <2>7, Sizes DEF IsLink, r
<1> QED BY <1>1, <1>4, <1>5

\* The place after j once place a is passed over.
Skip(q, a, j) == IF Turn(q, j) = a THEN Turn(q, a) ELSE Turn(q, j)

\* r is q without its element a; from says at which place of q an element of r was.
IsWithout(r, q, a, from) ==
  /\ IsListOf(r, Pcb) /\ Len(r) = Len(q) - 1
  /\ from \in [1 .. Len(q) - 1 -> (1 .. Len(q)) \ {a}]
  /\ \A i \in 1 .. Len(q) - 1 :
       /\ r[i] = q[from[i]]
       /\ from[IF i = Len(q) - 1 THEN 1 ELSE i + 1] = Skip(q, a, from[i])

\* The neighbours of an element linked to each other leave the ring without it,
\* whatever its tail is.
LEMMA RingWithout ==
  ASSUME IsLink(p_next, Pcb), IsLink(p_prev, Pcb), NEW tp, NEW q,
         IsRing(p_next, p_prev, tp, q), NEW a \in 1 .. Len(q), Len(q) > 1,
         NEW r, NEW from, IsWithout(r, q, a, from),
         p_next' = [p_next EXCEPT ![p_prev[q[a]]] = p_next[q[a]]],
         p_prev' = [p_prev EXCEPT ![p_next[q[a]]] = p_prev[q[a]]]
  PROVE  /\ IsRing(p_next', p_prev', r[Len(r)], r) /\ r # <<>>
         /\ IsLink(p_next', Pcb) /\ IsLink(p_prev', Pcb)
         /\ OnlyLinksOf(Range(q))
<1>n. PICK n \in Nat : n = Len(q)
  BY RingFacts
<1>1. /\ IsListOf(q, Pcb) /\ q \in Seq(Pcb) /\ n > 1 /\ a \in 1 .. n
      /\ \A i \in 1 .. n : q[i] \in Pcb /\ q[i] \in Range(q)
      /\ \A i, j \in 1 .. n : q[i] = q[j] => i = j
  BY <1>n, RingFacts
<1>2. PICK turn \in [1 .. n -> 1 .. n] :
        \A i \in 1 .. n : turn[i] = (IF i = n THEN 1 ELSE i + 1) /\ turn[i] = Turn(q, i)
  <2> DEFINE f == [i \in 1 .. n |-> IF i = n THEN 1 ELSE i + 1]
  <2>1. f \in [1 .. n -> 1 .. n]
    BY <1>1
  <2> QED BY <1>n, <2>1 DEF Turn
<1>3. /\ \A i \in 1 .. n : p_next[q[i]] = q[turn[i]] /\ p_prev[q[turn[i]]] = q[i]
      /\ \A i, j \in 1 .. n : turn[i] = turn[j] => i = j
      /\ turn[a] # a
  <2>1. \A i \in 1 .. n : p_next[q[i]] = q[turn[i]] /\ p_prev[q[turn[i]]] = q[i]
    BY <1>n, <1>2 DEF IsRing
  <2>2. \A i \in 1 .. n : turn[i] = (IF i = n THEN 1 ELSE i + 1)
    BY <1>2
  <2>3. ASSUME NEW i \in 1 .. n, NEW j \in 1 .. n, turn[i] = turn[j] PROVE i = j
    <3>1. (IF i = n THEN 1 ELSE i + 1) = (IF j = n THEN 1 ELSE j + 1)
      BY <2>2, <2>3
    <3> QED BY <1>1, <3>1
  <2>4. turn[a] # a
    BY <1>1, <2>2
  <2> QED BY <2>1, <2>3, <2>4
<1>4. PICK b \in 1 .. n : turn[b] = a
  <2>1. CASE a = 1
    <3>1. n \in 1 .. n /\ turn[n] = 1
      BY <1>1, <1>2
    <3> QED BY <2>1, <3>1
  <2>2. CASE a # 1
    <3>1. PICK c \in 1 .. n : c = a - 1 /\ c # n /\ c + 1 = a
      BY <1>1, <2>2
    <3>2. turn[c] = a
      BY <1>2, <3>1
    <3> QED BY <3>2
  <2> QED BY <2>1, <2>2
<1>5. p_prev[q[a]] = q[b] /\ p_next[q[a]] = q[turn[a]] /\ b # a
  BY <1>1, <1>3, <1>4
<1>l. p_next \in [Pcb -> Maybe(Pcb)] /\ p_prev \in [Pcb -> Maybe(Pcb)]
  BY DEF IsLink
<1>6. /\ p_next' = [p_next EXCEPT ![q[b]] = q[turn[a]]]
      /\ p_prev' = [p_prev EXCEPT ![q[turn[a]]] = q[b]]
  BY <1>5
<1>7. /\ p_next'[q[b]] = q[turn[a]] /\ p_prev'[q[turn[a]]] = q[b]
      /\ \A x \in Pcb : x # q[b] => p_next'[x] = p_next[x]
      /\ \A x \in Pcb : x # q[turn[a]] => p_prev'[x] = p_prev[x]
      /\ p_next' \in [Pcb -> Maybe(Pcb)] /\ p_prev' \in [Pcb -> Maybe(Pcb)]
  BY <1>1, <1>2, <1>6, <1>l DEF Maybe
<1>8. ASSUME NEW j \in 1 .. n, j # a
      PROVE  /\ Skip(q, a, j) \in 1 .. n
             /\ p_next'[q[j]] = q[Skip(q, a, j)]
             /\ p_prev'[q[Skip(q, a, j)]] = q[j]
  <2>1. Skip(q, a, j) = IF turn[j] = a THEN turn[a] ELSE turn[j]
    BY <1>1, <1>2, <1>8 DEF Skip
  <2>2. CASE turn[j] = a
    <3>1. j = b
      BY <1>3, <1>4, <2>2
    <3> QED BY <1>1, <1>2, <1>7, <2>1, <2>2, <3>1
  <2>3. CASE turn[j] # a
    <3>1. j # b /\ turn[j] # turn[a] /\ turn[j] \in 1 .. n
      BY <1>1, <1>2, <1>3, <1>4, <1>8, <2>3
    <3>2. q[j] # q[b] /\ q[turn[j]] # q[turn[a]]
      BY <1>1, <1>2, <3>1
    <3>3. p_next'[q[j]] = p_next[q[j]] /\ p_prev'[q[turn[j]]] = p_prev[q[turn[j]]]
      BY <1>1, <1>7, <3>1, <3>2
    <3> QED BY <1>3, <2>1, <2>3, <3>1, <3>3
  <2> QED BY <2>2, <2>3
<1>9. /\ IsListOf(r, Pcb) /\ r \in Seq(Pcb) /\ Len(r) = n - 1
      /\ \A i \in 1 .. n - 1 : /\ r[i] = q[from[i]] /\ from[i] \in 1 .. n /\ from[i] # a
                               /\ from[IF i = n - 1 THEN 1 ELSE i + 1] = Skip(q, a, from[i])
  BY <1>n DEF IsWithout, IsListOf
<1>10. ASSUME NEW i \in 1 .. n - 1
       PROVE  p_next'[r[i]] = r[Turn(r, i)] /\ p_prev'[r[Turn(r, i)]] = r[i]
  <2>1. PICK k \in 1 .. n - 1 : k = (IF i = n - 1 THEN 1 ELSE i + 1) /\ k = Turn(r, i)
    BY <1>9 DEF Turn
  <2>2. r[k] = q[Skip(q, a, from[i])] /\ r[i] = q[from[i]]
    BY <1>9, <2>1
  <2> QED BY <1>8, <1>9, <2>1, <2>2
<1>11. r # <<>>
  BY <1>1, <1>9
<1>12. IsRing(p_next', p_prev', r[Len(r)], r)
  BY <1>9, <1>10, <1>11 DEF IsRing
<1>13. OnlyLinksOf(Range(q))
  <2>1. q[b] \in Range(q) /\ q[turn[a]] \in Range(q)
    BY <1>1, <1>2
  <2> QED BY <1>7, <2>1 DEF OnlyLinksOf
<1> QED BY <1>7, <1>11, <1>12, <1>13, Sizes DEF IsLink

\* The queue of nobody.
LEMMA EmptyRing ==
  ASSUME NEW next, NEW prev
  PROVE  IsRing(next, prev, NULL, <<>>)
BY EmptyList DEF IsRing

\* removeProcQ and its like: the oldest element leaves.
LEMMA RingRemove ==
  ASSUME IsLink(p_next, Pcb), IsLink(p_prev, Pcb), NEW tp, NEW q,
         IsRing(p_next, p_prev, tp, q), q # <<>>, RemoveLinks(tp)
  PROVE  /\ IsRing(p_next', p_prev', TailAfterRemove(tp), RemoveProcQ(q))
         /\ headProcQ(tp) = Head(q)
         /\ TailAfterRemove(tp) = NULL <=> RemoveProcQ(q) = <<>>
         /\ IsLink(p_next', Pcb) /\ IsLink(p_prev', Pcb)
         /\ OnlyLinksOf(Range(q))
<1>n. PICK n \in Nat : n = Len(q)
  BY RingFacts
<1>1. /\ IsListOf(q, Pcb) /\ q \in Seq(Pcb) /\ n > 0 /\ tp = q[n] /\ tp # NULL
      /\ \A i \in 1 .. n : q[i] \in Pcb /\ q[i] \in Range(q)
      /\ \A i, j \in 1 .. n : q[i] = q[j] => i = j
  BY <1>n, RingFacts
<1>2. \A i \in 1 .. n :
        /\ p_next[q[i]] = q[IF i = n THEN 1 ELSE i + 1]
        /\ p_prev[q[IF i = n THEN 1 ELSE i + 1]] = q[i]
  BY <1>n DEF IsRing, Turn
<1>3. p_next[tp] = q[1] /\ Head(q) = q[1] /\ headProcQ(tp) = q[1]
  BY <1>n, <1>1, <1>2 DEF headProcQ
<1>r. PICK r : r = RemoveProcQ(q)
  OBVIOUS
<1>4. /\ IsListOf(r, Pcb) /\ Len(r) = n - 1
      /\ \A i \in 1 .. n - 1 : r[i] = q[i + 1]
      /\ r = <<>> <=> n = 1
  <2>1. IsListOf(r, Pcb) /\ Len(r) = n - 1
    BY <1>n, <1>r, <1>1, RemoveProcQLemma
  <2>2. \A i \in 1 .. n - 1 : r[i] = q[i + 1]
    BY <1>n, <1>r, <1>1 DEF RemoveProcQ
  <2>3. r = <<>> <=> n = 1
    BY <2>1, ListOfRange
  <2> QED BY <2>1, <2>2, <2>3
<1>5. CASE n = 1
  <2>1. TailAfterRemove(tp) = NULL /\ r = <<>> /\ UNCHANGED links
    BY <1>1, <1>3, <1>4, <1>5 DEF TailAfterRemove, RemoveLinks
  <2>2. p_next' = p_next /\ p_prev' = p_prev
    BY <2>1 DEF links
  <2> QED BY <1>3, <1>r, <2>1, <2>2, EmptyRing DEF OnlyLinksOf
<1>6. CASE n > 1
  <2>1. q[1] # q[n] /\ 2 \in 1 .. n /\ 1 \in 1 .. n /\ n \in 1 .. n
    BY <1>1, <1>6
  <2>2. TailAfterRemove(tp) = q[n]
    BY <1>1, <1>3, <2>1 DEF TailAfterRemove
  <2>3. p_next[q[1]] = q[2] /\ p_prev[q[1]] = q[n]
    BY <1>2, <1>6, <2>1
  <2>4. /\ p_next' = [p_next EXCEPT ![q[n]] = q[2]]
        /\ p_prev' = [p_prev EXCEPT ![q[2]] = q[n]]
    BY <1>1, <1>3, <2>1, <2>3 DEF RemoveLinks
  <2>5. PICK from \in [1 .. n - 1 -> (1 .. n) \ {1}] : \A i \in 1 .. n - 1 : from[i] = i + 1
    <3>1. [i \in 1 .. n - 1 |-> i + 1] \in [1 .. n - 1 -> (1 .. n) \ {1}]
      BY <1>6
    <3> QED BY <3>1
  <2>6. ASSUME NEW i \in 1 .. n - 1
        PROVE  from[IF i = n - 1 THEN 1 ELSE i + 1] = Skip(q, 1, from[i])
    <3>1. Skip(q, 1, i + 1) = IF i + 1 = n THEN 2 ELSE i + 2
      BY <1>n, <1>6 DEF Skip, Turn
    <3>2. (IF i = n - 1 THEN 1 ELSE i + 1) \in 1 .. n - 1
      BY <1>6
    <3> QED BY <1>6, <2>5, <3>1, <3>2
  <2>7. IsWithout(r, q, 1, from)
    BY <1>n, <1>4, <2>5, <2>6 DEF IsWithout
  <2>8. /\ IsRing(p_next', p_prev', r[Len(r)], r) /\ r # <<>>
        /\ IsLink(p_next', Pcb) /\ IsLink(p_prev', Pcb)
        /\ OnlyLinksOf(Range(q))
    BY <1>n, <1>6, <2>1, <2>3, <2>4, <2>7, RingWithout
  <2>9. r[Len(r)] = q[n]
    <3>1. n - 1 \in 1 .. n - 1 /\ n - 1 + 1 = n
      BY <1>6
    <3> QED BY <1>4, <3>1
  <2>10. TailAfterRemove(tp) # NULL
    BY <1>1, <2>2
  <2> QED BY <1>3, <1>r, <2>2, <2>8, <2>9, <2>10
<1> QED BY <1>1, <1>5, <1>6

\* outProcQ and its like: an element leaves from wherever it is.
LEMMA RingOut ==
  ASSUME IsLink(p_next, Pcb), IsLink(p_prev, Pcb), NEW tp, NEW q,
         IsRing(p_next, p_prev, tp, q), NEW p \in Range(q), OutLinks(tp, p)
  PROVE  /\ IsRing(p_next', p_prev', TailAfterOut(tp, p), OutProcQ(q, p))
         /\ TailAfterOut(tp, p) = NULL <=> OutProcQ(q, p) = <<>>
         /\ IsLink(p_next', Pcb) /\ IsLink(p_prev', Pcb)
         /\ OnlyLinksOf(Range(q))
<1>n. PICK n \in Nat : n = Len(q)
  BY RingFacts
<1>a. PICK a \in 1 .. n : p = q[a]
  BY <1>n, RingFacts
<1>1. /\ IsListOf(q, Pcb) /\ q \in Seq(Pcb) /\ n > 0 /\ tp = q[n] /\ tp # NULL
      /\ \A i \in 1 .. n : q[i] \in Pcb /\ q[i] \in Range(q)
      /\ \A i, j \in 1 .. n : q[i] = q[j] => i = j
  BY <1>n, <1>a, RingFacts
<1>2. \A i \in 1 .. n :
        /\ p_next[q[i]] = q[IF i = n THEN 1 ELSE i + 1]
        /\ p_prev[q[IF i = n THEN 1 ELSE i + 1]] = q[i]
  BY <1>n DEF IsRing, Turn
<1>3. p_next[tp] = q[1]
  BY <1>1, <1>2
<1>r. PICK r : r = OutProcQ(q, p)
  OBVIOUS
<1>4. IsListOf(r, Pcb) /\ Len(r) = n - 1 /\ (r = <<>> <=> n = 1)
  <2>1. IsListOf(r, Pcb) /\ Len(r) = n - 1
    BY <1>n, <1>r, <1>1, OutProcQLemma
  <2>2. r = <<>> <=> n = 1
    BY <2>1, ListOfRange
  <2> QED BY <2>1, <2>2
<1>5. CASE n = 1
  <2>1. a = 1 /\ p = tp /\ p_next[tp] = tp
    BY <1>a, <1>1, <1>3, <1>5
  <2>2. TailAfterOut(tp, p) = NULL /\ r = <<>> /\ UNCHANGED links
    BY <1>4, <1>5, <2>1 DEF TailAfterOut, OutLinks
  <2>3. p_next' = p_next /\ p_prev' = p_prev
    BY <2>2 DEF links
  <2> QED BY <1>r, <2>2, <2>3, EmptyRing DEF OnlyLinksOf
<1>6. CASE n > 1
  <2>1. q[1] # q[n] /\ 1 \in 1 .. n /\ n \in 1 .. n
    BY <1>1, <1>6
  <2>2. /\ p_next' = [p_next EXCEPT ![p_prev[q[a]]] = p_next[q[a]]]
        /\ p_prev' = [p_prev EXCEPT ![p_next[q[a]]] = p_prev[q[a]]]
    BY <1>a, <1>1, <1>3, <2>1 DEF OutLinks
  <2>3. \A from : IsWithout(r, q, a, from) =>
          /\ IsRing(p_next', p_prev', r[Len(r)], r) /\ r # <<>>
          /\ IsLink(p_next', Pcb) /\ IsLink(p_prev', Pcb)
          /\ OnlyLinksOf(Range(q))
    BY <1>n, <1>6, <2>2, RingWithout
  <2>4. n - 1 \in 1 .. n - 1 /\ n - 1 + 1 = n
    BY <1>6
  <2>5. CASE a = n
    <3>1. r = [i \in 1 .. n - 1 |-> IF i = n - 1 THEN q[1] ELSE q[i + 1]]
      BY <1>n, <1>a, <1>r, <1>6, <2>5 DEF OutProcQ
    <3>2. PICK from \in [1 .. n - 1 -> (1 .. n) \ {n}] :
            \A i \in 1 .. n - 1 : from[i] = IF i = n - 1 THEN 1 ELSE i + 1
      <4>1. [i \in 1 .. n - 1 |-> IF i = n - 1 THEN 1 ELSE i + 1]
              \in [1 .. n - 1 -> (1 .. n) \ {n}]
        BY <1>6
      <4> QED BY <4>1
    <3>3. ASSUME NEW i \in 1 .. n - 1
          PROVE  from[IF i = n - 1 THEN 1 ELSE i + 1] = Skip(q, n, from[i])
      <4>1. PICK k \in 1 .. n - 1 : k = IF i = n - 1 THEN 1 ELSE i + 1
        BY <1>6
      <4>2. from[i] = k /\ from[k] = IF k = n - 1 THEN 1 ELSE k + 1
        BY <3>2, <4>1
      <4>3. Skip(q, n, k) = IF k + 1 = n THEN 1 ELSE k + 1
        BY <1>n, <1>6, <4>1 DEF Skip, Turn
      <4> QED BY <1>6, <4>1, <4>2, <4>3
    <3>4. \A i \in 1 .. n - 1 : r[i] = q[from[i]]
      BY <3>1, <3>2
    <3>5. IsWithout(r, q, a, from)
      BY <1>n, <1>4, <2>5, <3>2, <3>3, <3>4 DEF IsWithout
    <3>6. r[Len(r)] = q[1]
      BY <1>4, <2>4, <3>1
    <3>7. TailAfterOut(tp, p) = q[1] /\ q[1] # NULL
      BY <1>a, <1>1, <1>3, <2>1, <2>5, Sizes DEF TailAfterOut
    <3> QED BY <1>r, <2>3, <3>5, <3>6, <3>7
  <2>6. CASE a # n
    <3>1. p # tp /\ TailAfterOut(tp, p) = q[n]
      BY <1>a, <1>1, <2>1, <2>6 DEF TailAfterOut
    <3>2. a = CHOOSE i \in 1 .. Len(q) : q[i] = p
      BY <1>n, <1>a, <1>1
    <3>3. r = [i \in 1 .. n - 1 |-> IF i < a THEN q[i] ELSE q[i + 1]]
      BY <1>n, <1>r, <1>a, <1>1, <3>1, <3>2 DEF OutProcQ, Unlink
    <3>4. PICK from \in [1 .. n - 1 -> (1 .. n) \ {a}] :
            \A i \in 1 .. n - 1 : from[i] = IF i < a THEN i ELSE i + 1
      <4>1. [i \in 1 .. n - 1 |-> IF i < a THEN i ELSE i + 1]
              \in [1 .. n - 1 -> (1 .. n) \ {a}]
        BY <1>6
      <4> QED BY <4>1
    <3>5. ASSUME NEW i \in 1 .. n - 1
          PROVE  from[IF i = n - 1 THEN 1 ELSE i + 1] = Skip(q, a, from[i])
      <4>1. PICK k \in 1 .. n - 1 : k = IF i = n - 1 THEN 1 ELSE i + 1
        BY <1>6
      <4>2. /\ from[i] = (IF i < a THEN i ELSE i + 1)
            /\ from[k] = (IF k < a THEN k ELSE k + 1)
        BY <3>4, <4>1
      <4>3. PICK j \in 1 .. n : j = (IF i < a THEN i ELSE i + 1)
        BY <1>6
      <4>4. Skip(q, a, j) = IF (IF j = n THEN 1 ELSE j + 1) = a
                            THEN (IF a = n THEN 1 ELSE a + 1)
                            ELSE IF j = n THEN 1 ELSE j + 1
        BY <1>n DEF Skip, Turn
      <4> QED BY <1>6, <2>6, <4>1, <4>2, <4>3, <4>4
    <3>6. \A i \in 1 .. n - 1 : r[i] = q[from[i]]
      BY <3>3, <3>4
    <3>7. IsWithout(r, q, a, from)
      BY <1>n, <1>4, <3>4, <3>5, <3>6 DEF IsWithout
    <3>8. r[Len(r)] = q[n]
      BY <1>4, <2>4, <2>6, <3>3
    <3> QED BY <1>r, <1>1, <2>3, <3>1, <3>7, <3>8
  <2> QED BY <2>5, <2>6
<1> QED BY <1>1, <1>5, <1>6

----------------------------------------------------------------------------
(***************************************************************************)
(* The inductive invariant: the links are those of lists, and everything   *)
(* is in one of them.                                                      *)
(***************************************************************************)

\* c is the child list that starts at x.
IsFamily(next, prev, x, c) ==
  /\ IsChain(next, x, c, Pcb)
  /\ \A i \in 1 .. Len(c) : prev[c[i]] = IF i = 1 THEN NULL ELSE c[i - 1]

\* a is the sorted list of descriptors between the sentinels.
IsActive(next, key, a) ==
  /\ IsChain(next, semd_h, a, Semd) /\ a[Len(a)] = semd_hi
  /\ \A i, j \in 1 .. Len(a) : i < j => key[a[i]] < key[a[j]]
  /\ key[semd_h] = 0 /\ key[semd_hi] = MAXINT
  /\ \A i \in 2 .. Len(a) - 1 : key[a[i]] \in Key

FreeList  == Along(p_next, pcbFree_h, NULL)
FreeSemds == Along(s_next, semdFree_h, NULL)

\* The descriptors in use, and the tail of the queue of a semaphore.
Descriptors == Range(Active) \ {semd_h, semd_hi}
TailOf(k)   == IF SemdOf(k) = NULL THEN NULL ELSE s_procQ[SemdOf(k)]

\* The queues and the free list.
Rings ==
  /\ IsChain(p_next, pcbFree_h, FreeList, Pcb)
  /\ IsRing(p_next, p_prev, R_Queue, QueueOf(R_Queue))
  /\ \A k \in Key : IsRing(p_next, p_prev, TailOf(k), BlockedOn(k))

\* Nobody is in two of them, and p_semAdd tells in which queue a PCB is blocked.
Apart ==
  /\ FreePcbs \cap held = {} /\ FreePcbs \cap Range(QueueOf(R_Queue)) = {}
  /\ held \cap Range(QueueOf(R_Queue)) = {}
  /\ \A p \in FreePcbs \cup held \cup Range(QueueOf(R_Queue)) : p_semAdd[p] = NULL
  /\ \A k \in Key : Range(BlockedOn(k)) = {p \in Pcb : p_semAdd[p] = k}

\* The child lists.  insertChild relies on it that the link back of who has no
\* parent is NULL.
Families ==
  /\ \A p \in Pcb : IsFamily(p_next_sib, p_prev_sib, p_child[p], ChildrenOf(p))
  /\ \A p \in Pcb : \A c \in Range(ChildrenOf(p)) : p_prnt[c] = p /\ c \notin FreePcbs
  /\ \A p \in FreePcbs : p_child[p] = NULL
  /\ \A p \in Pcb : p_prnt[p] = NULL => p_prev_sib[p] = NULL

\* The two lists of descriptors.
Semds ==
  /\ IsActive(s_next, s_semAdd, Active)
  /\ IsChain(s_next, semdFree_h, FreeSemds, Semd)
  /\ Range(Active) \cap Range(FreeSemds) = {}
  /\ Range(Active) \cup Range(FreeSemds) = Semd
  /\ \A d \in Descriptors : s_procQ[d] # NULL

Linked == TypeOK /\ Rings /\ Apart /\ Families /\ Semds

----------------------------------------------------------------------------
(***************************************************************************)
(* What the loops read, in a state and in the next one.                    *)
(***************************************************************************)

\* QueueOf, BlockedOn and TailOf, in terms of the links.
Queue(next, tp) == IF tp = NULL THEN <<>> ELSE Along(next, next[tp], tp)

LEMMA QueueNames ==
  /\ QueueOf(R_Queue) = Queue(p_next, R_Queue)
  /\ QueueOf(R_Queue)' = Queue(p_next', R_Queue')
  /\ \A k : BlockedOn(k) = Queue(p_next, TailOf(k))
  /\ \A k : BlockedOn(k)' = Queue(p_next', TailOf(k)')
  /\ FreePcbs = Range(FreeList) /\ FreePcbs' = Range(FreeList')
BY DEF QueueOf, Queue, BlockedOn, TailOf, FreePcbs, FreeList

\* The queue that a ring reads as.
LEMMA QueueReads ==
  ASSUME NEW next, IsLink(next, Pcb), NEW prev, IsLink(prev, Pcb), NEW tp, NEW q,
         IsRing(next, prev, tp, q)
  PROVE  Queue(next, tp) = q
<1>1. tp = NULL <=> q = <<>>
  BY RingFacts
<1>2. CASE q = <<>>
  BY <1>1, <1>2 DEF Queue
<1>3. CASE q # <<>>
  BY <1>1, <1>3, RingReads DEF Queue
<1> QED BY <1>2, <1>3

\* The links that TypeOK speaks of.
LEMMA LinksTyped ==
  ASSUME TypeOK
  PROVE  /\ IsLink(p_next, Pcb) /\ IsLink(p_prev, Pcb)
         /\ IsLink(p_next_sib, Pcb) /\ IsLink(p_prev_sib, Pcb)
         /\ IsLink(s_next, Semd)
BY Sizes DEF TypeOK, IsLink

\* The ready queue when others write links.
LEMMA ReadyKept ==
  ASSUME Linked, NEW S, OnlyLinksOf(S), Range(QueueOf(R_Queue)) \cap S = {},
         R_Queue' = R_Queue, IsLink(p_next', Pcb), IsLink(p_prev', Pcb)
  PROVE  /\ QueueOf(R_Queue)' = QueueOf(R_Queue)
         /\ IsRing(p_next', p_prev', R_Queue', QueueOf(R_Queue)')
<1>1. IsRing(p_next, p_prev, R_Queue, QueueOf(R_Queue))
  BY DEF Linked, Rings
<1>2. IsRing(p_next', p_prev', R_Queue', QueueOf(R_Queue))
  BY <1>1, RingKept
<1>3. Queue(p_next', R_Queue') = QueueOf(R_Queue)
  BY <1>2, QueueReads
<1> QED BY <1>2, <1>3, QueueNames

\* The queue of a semaphore when others write links.
LEMMA BlockedKept ==
  ASSUME Linked, NEW S, OnlyLinksOf(S), NEW k \in Key, Range(BlockedOn(k)) \cap S = {},
         TailOf(k)' = TailOf(k), IsLink(p_next', Pcb), IsLink(p_prev', Pcb)
  PROVE  /\ BlockedOn(k)' = BlockedOn(k)
         /\ IsRing(p_next', p_prev', TailOf(k)', BlockedOn(k)')
<1>1. IsRing(p_next, p_prev, TailOf(k), BlockedOn(k))
  BY DEF Linked, Rings
<1>2. IsRing(p_next', p_prev', TailOf(k), BlockedOn(k))
  BY <1>1, RingKept
<1>3. Queue(p_next', TailOf(k)') = BlockedOn(k)
  BY <1>2, QueueReads
<1> QED BY <1>2, <1>3, QueueNames

\* What a chain says of its elements.
LEMMA ChainFacts ==
  ASSUME NEW S \in {Pcb, Semd}, NEW link, NEW x, NEW s, IsChain(link, x, s, S)
  PROVE  /\ IsListOf(s, S) /\ s \in Seq(S) /\ Len(s) \in Nat /\ DOMAIN s = 1 .. Len(s)
         /\ \A i \in 1 .. Len(s) : s[i] \in S /\ s[i] \in Range(s) /\ s[i] # NULL
         /\ \A y \in Range(s) : \E i \in 1 .. Len(s) : y = s[i]
         /\ \A i, j \in 1 .. Len(s) : s[i] = s[j] => i = j
         /\ x = NULL <=> s = <<>>
         /\ s # <<>> <=> Len(s) > 0
         /\ s # <<>> => x = s[1] /\ x \in Range(s) /\ x \in S
<1>1. IsListOf(s, S) /\ s \in Seq(S) /\ Len(s) \in Nat /\ DOMAIN s = 1 .. Len(s)
  BY DEF IsChain, IsListOf
<1>2. \A i \in 1 .. Len(s) : s[i] \in S /\ s[i] \in Range(s) /\ s[i] # NULL
  BY <1>1, Sizes DEF Range
<1>3. \A y \in Range(s) : \E i \in 1 .. Len(s) : y = s[i]
  BY <1>1 DEF Range
<1>4. \A i, j \in 1 .. Len(s) : s[i] = s[j] => i = j
  BY <1>1 DEF IsListOf, IsInjective
<1>5. s # <<>> <=> Len(s) > 0
  BY <1>1
<1>6. s # <<>> => x = s[1] /\ x \in Range(s) /\ x \in S
  <2>1. s # <<>> => 1 \in 1 .. Len(s)
    BY <1>1, <1>5
  <2>2. s # <<>> => x = s[1]
    BY DEF IsChain
  <2> QED BY <1>2, <2>1, <2>2
<1>7. x = NULL <=> s = <<>>
  BY <1>2, <1>5, <1>6 DEF IsChain
<1> QED BY <1>1, <1>2, <1>3, <1>4, <1>5, <1>6, <1>7

\* A chain is one as long as nobody writes the links of its elements.
LEMMA ChainKept ==
  ASSUME NEW S \in {Pcb, Semd}, NEW link, NEW other, NEW x, NEW s, IsChain(link, x, s, S),
         \A y \in Range(s) : other[y] = link[y]
  PROVE  IsChain(other, x, s, S)
<1>1. \A i \in 1 .. Len(s) : other[s[i]] = link[s[i]]
  BY ChainFacts
<1> QED BY <1>1 DEF IsChain

\* An element is put before the first.
LEMMA ChainPush ==
  ASSUME NEW S \in {Pcb, Semd}, NEW link, NEW x, NEW s, IsChain(link, x, s, S),
         NEW p \in S \ Range(s), link[p] = x
  PROVE  IsChain(link, p, InsertChild(s, p), S)
<1> DEFINE r == InsertChild(s, p)
<1>1. IsListOf(s, S) /\ s \in Seq(S) /\ Len(s) \in Nat
  BY DEF IsChain, IsListOf
<1>2. /\ IsListOf(r, S) /\ Len(r) = Len(s) + 1
      /\ r[1] = p /\ \A i \in 1 .. Len(s) : r[i + 1] = s[i]
  BY <1>1, InsertChildLemma DEF InsertChild
<1> HIDE DEF r
<1>3. ASSUME NEW i \in 1 .. Len(r)
      PROVE  link[r[i]] = IF i = Len(r) THEN NULL ELSE r[i + 1]
  <2>1. CASE i = 1
    <3>1. Len(s) > 0 => r[2] = s[1]
      <4>1. Len(s) > 0 => 1 \in 1 .. Len(s) /\ 1 + 1 = 2
        BY <1>1
      <4> QED BY <1>2, <4>1
    <3>2. x = IF Len(s) = 0 THEN NULL ELSE s[1]
      BY <1>1 DEF IsChain
    <3> QED BY <1>1, <1>2, <2>1, <3>1, <3>2
  <2>2. CASE i > 1
    <3>1. PICK j \in 1 .. Len(s) : j + 1 = i
      BY <1>1, <1>2, <2>2
    <3>2. r[i] = s[j] /\ (j < Len(s) => r[i + 1] = s[j + 1])
      BY <1>1, <1>2, <3>1
    <3>3. link[s[j]] = IF j = Len(s) THEN NULL ELSE s[j + 1]
      BY DEF IsChain
    <3> QED BY <1>1, <1>2, <3>1, <3>2, <3>3
  <2> QED BY <1>1, <1>2, <2>1, <2>2
<1>4. r # <<>>
  BY <1>1, <1>2
<1> QED BY <1>2, <1>3, <1>4 DEF IsChain, r

\* The first is taken out.
LEMMA ChainPop ==
  ASSUME NEW S \in {Pcb, Semd}, NEW link, NEW x, NEW s, IsChain(link, x, s, S), s # <<>>
  PROVE  /\ x = Head(s) /\ x \in S /\ x \in Range(s)
         /\ IsChain(link, link[x], RemoveProcQ(s), S)
         /\ Range(RemoveProcQ(s)) = Range(s) \ {x}
<1>1. /\ IsListOf(s, S) /\ s \in Seq(S) /\ Len(s) \in Nat /\ Len(s) > 0
      /\ x = s[1] /\ Head(s) = s[1] /\ x \in S /\ x \in Range(s)
  BY ChainFacts
<1>r. PICK r : r = RemoveProcQ(s)
  OBVIOUS
<1>2. /\ IsListOf(r, S) /\ Len(r) = Len(s) - 1
      /\ Range(r) = Range(s) \ {x}
      /\ \A i \in 1 .. Len(s) - 1 : r[i] = s[i + 1]
  BY <1>1, <1>r, RemoveProcQLemma DEF RemoveProcQ
<1>3. link[x] = IF r = <<>> THEN NULL ELSE r[1]
  <2>1. r = <<>> <=> Len(s) = 1
    BY <1>1, <1>2, ListOfRange
  <2>2. link[s[1]] = IF 1 = Len(s) THEN NULL ELSE s[2]
    <3>1. 1 \in 1 .. Len(s) /\ 1 + 1 = 2
      BY <1>1
    <3> QED BY <3>1 DEF IsChain
  <2>3. Len(s) # 1 => r[1] = s[2]
    BY <1>1, <1>2
  <2> QED BY <1>1, <2>1, <2>2, <2>3
<1>4. ASSUME NEW i \in 1 .. Len(r)
      PROVE  link[r[i]] = IF i = Len(r) THEN NULL ELSE r[i + 1]
  <2>1. PICK j \in 1 .. Len(s) : j = i + 1
    BY <1>1, <1>2
  <2>2. link[s[j]] = IF j = Len(s) THEN NULL ELSE s[j + 1]
    BY DEF IsChain
  <2>3. i < Len(r) => r[i + 1] = s[j + 1]
    BY <1>1, <1>2, <2>1
  <2> QED BY <1>1, <1>2, <2>1, <2>2, <2>3
<1> QED BY <1>1, <1>r, <1>2, <1>3, <1>4 DEF IsChain

\* The free PCBs when others write links.
LEMMA FreeKept ==
  ASSUME Linked, NEW S, OnlyLinksOf(S), FreePcbs \cap S = {},
         pcbFree_h' = pcbFree_h, IsLink(p_next', Pcb)
  PROVE  /\ FreePcbs' = FreePcbs
         /\ IsChain(p_next', pcbFree_h', FreeList', Pcb)
<1>1. IsChain(p_next, pcbFree_h, FreeList, Pcb)
  BY DEF Linked, Rings
<1>2. \A y \in Range(FreeList) : p_next'[y] = p_next[y]
  <2>1. \A y \in Range(FreeList) : y \in Pcb \ S
    BY <1>1, ChainFacts, QueueNames
  <2> QED BY <2>1 DEF OnlyLinksOf
<1>3. IsChain(p_next', pcbFree_h', FreeList, Pcb)
  BY <1>1, <1>2, ChainKept
<1>4. FreeList' = FreeList
  BY <1>3, ChainReads DEF FreeList
<1> QED BY <1>3, <1>4, QueueNames

\* The queues of the semaphores and the child lists, as the view has them.
Blocked  == [k \in Key |-> BlockedOn(k)]
Children == [p \in Pcb |-> ChildrenOf(p)]

\* An operation that leaves the descriptors alone.
LEMMA AslKept ==
  ASSUME UNCHANGED asl
  PROVE  /\ Active' = Active /\ FreeSemds' = FreeSemds /\ Descriptors' = Descriptors
         /\ \A k : SemdOf(k)' = SemdOf(k)
         /\ \A k : TailOf(k)' = TailOf(k)
         /\ Semds => Semds'
<1>1. s_next' = s_next /\ s_semAdd' = s_semAdd /\ s_procQ' = s_procQ
      /\ semdFree_h' = semdFree_h
  BY DEF asl
<1>2. Active' = Active /\ FreeSemds' = FreeSemds
  BY <1>1 DEF Active, FreeSemds
<1>3. Descriptors' = Descriptors
  BY <1>2 DEF Descriptors
<1>4. \A k : SemdOf(k)' = SemdOf(k)
  BY <1>1, <1>2 DEF SemdOf
<1>5. \A k : TailOf(k)' = TailOf(k)
  BY <1>1, <1>4 DEF TailOf
<1>6. Semds => Semds'
  BY <1>1, <1>2, <1>3 DEF Semds
<1> QED BY <1>2, <1>3, <1>4, <1>5, <1>6

\* An operation that leaves the trees alone, and frees only who is in none.
LEMMA TreeKept ==
  ASSUME Linked, UNCHANGED tree,
         \A x \in FreePcbs' \ FreePcbs :
           p_child[x] = NULL /\ \A p \in Pcb : x \notin Range(ChildrenOf(p))
  PROVE  Families' /\ Children' = Children
<1>1. p_prnt' = p_prnt /\ p_child' = p_child /\ p_next_sib' = p_next_sib
      /\ p_prev_sib' = p_prev_sib
  BY DEF tree
<1>2. \A p : ChildrenOf(p)' = ChildrenOf(p)
  BY <1>1 DEF ChildrenOf
<1>3. Children' = Children
  BY <1>2 DEF Children
<1>4. Families'
  BY <1>1, <1>2 DEF Linked, Families
<1> QED BY <1>3, <1>4

\* What an operation on the ready queue that writes the links of S does to the rest.
LEMMA OthersKept ==
  ASSUME Linked, UNCHANGED <<tree, p_semAdd, pcbFree_h, asl>>, NEW S, OnlyLinksOf(S),
         FreePcbs \cap S = {}, \A k \in Key : Range(BlockedOn(k)) \cap S = {},
         IsLink(p_next', Pcb), IsLink(p_prev', Pcb)
  PROVE  /\ FreePcbs' = FreePcbs /\ Blocked' = Blocked /\ Children' = Children
         /\ \A k \in Key : BlockedOn(k)' = BlockedOn(k)
         /\ IsChain(p_next', pcbFree_h', FreeList', Pcb)
         /\ \A k \in Key : IsRing(p_next', p_prev', TailOf(k)', BlockedOn(k)')
         /\ Families' /\ Semds'
<1>1. FreePcbs' = FreePcbs /\ IsChain(p_next', pcbFree_h', FreeList', Pcb)
  BY FreeKept
<1>2. (\A k : TailOf(k)' = TailOf(k)) /\ Semds'
  BY AslKept DEF Linked
<1>3. \A k \in Key : /\ BlockedOn(k)' = BlockedOn(k)
                     /\ IsRing(p_next', p_prev', TailOf(k)', BlockedOn(k)')
  BY <1>2, BlockedKept
<1>4. Blocked' = Blocked
  BY <1>3 DEF Blocked
<1>5. Families' /\ Children' = Children
  BY <1>1, TreeKept
<1> QED BY <1>1, <1>2, <1>3, <1>4, <1>5

\* insertProcQ puts a PCB of the caller into the ready queue.
LEMMA InsertProcQStep ==
  ASSUME Linked, NEW p \in Pcb, insertProcQ(p)
  PROVE  /\ Linked'
         /\ p \in held /\ held' = held \ {p}
         /\ FreePcbs' = FreePcbs /\ Blocked' = Blocked /\ Children' = Children
         /\ QueueOf(R_Queue)' = InsertProcQ(QueueOf(R_Queue), p)
<1> DEFINE q == QueueOf(R_Queue)
           S == Range(q) \cup {p}
<1>1. /\ p \in held /\ held' = held \ {p}
      /\ InsertLinks(R_Queue, p) /\ R_Queue' = p
      /\ UNCHANGED <<tree, p_semAdd, pcbFree_h, asl>>
  BY DEF insertProcQ, Give
<1>2. /\ IsRing(p_next, p_prev, R_Queue, q)
      /\ p \in Pcb \ Range(q) /\ p \notin FreePcbs
      /\ \A x \in Range(q) \cup {p} : x \notin FreePcbs /\ p_semAdd[x] = NULL
      /\ FreePcbs \cap held = {} /\ q \in Seq(Pcb)
      /\ \A k \in Key : Range(BlockedOn(k)) = {x \in Pcb : p_semAdd[x] = k}
  BY <1>1, RingFacts DEF Linked, Rings, Apart
<1> HIDE DEF q
<1>3. /\ IsRing(p_next', p_prev', p, InsertProcQ(q, p))
      /\ IsLink(p_next', Pcb) /\ IsLink(p_prev', Pcb)
      /\ OnlyLinksOf(S)
  BY <1>1, <1>2, LinksTyped, RingInsert DEF Linked
<1>4. /\ FreePcbs \cap S = {}
      /\ \A k \in Key : Range(BlockedOn(k)) \cap S = {}
  BY <1>2, NullAssumption
<1> HIDE DEF S
<1>5. /\ FreePcbs' = FreePcbs /\ Blocked' = Blocked /\ Children' = Children
      /\ \A k \in Key : BlockedOn(k)' = BlockedOn(k)
      /\ IsChain(p_next', pcbFree_h', FreeList', Pcb)
      /\ \A k \in Key : IsRing(p_next', p_prev', TailOf(k)', BlockedOn(k)')
      /\ Families' /\ Semds'
  BY <1>1, <1>3, <1>4, OthersKept
<1>6. QueueOf(R_Queue)' = InsertProcQ(q, p)
  BY <1>1, <1>3, QueueReads, QueueNames
<1>7. Rings'
  BY <1>1, <1>3, <1>5, <1>6 DEF Rings
<1>8. Range(InsertProcQ(q, p)) = Range(q) \cup {p}
  BY <1>2, InsertProcQLemma DEF IsRing
<1>9. Apart'
  BY <1>1, <1>2, <1>5, <1>6, <1>8 DEF Apart, Linked, q
<1>10. TypeOK'
  BY <1>1, <1>3 DEF TypeOK, Linked, IsLink, tree, asl, Maybe
<1> QED BY <1>1, <1>5, <1>6, <1>7, <1>9, <1>10 DEF Linked, q

\* What an operation leaves when it takes p out of the ready queue.
LEMMA ReadyTaken ==
  ASSUME Linked, UNCHANGED <<tree, p_semAdd, pcbFree_h, asl>>,
         NEW p \in Range(QueueOf(R_Queue)), NEW r,
         IsRing(p_next', p_prev', R_Queue', r),
         Range(r) = Range(QueueOf(R_Queue)) \ {p}, Take(p),
         IsLink(p_next', Pcb), IsLink(p_prev', Pcb), OnlyLinksOf(Range(QueueOf(R_Queue)))
  PROVE  /\ Linked'
         /\ FreePcbs' = FreePcbs /\ Blocked' = Blocked /\ Children' = Children
         /\ QueueOf(R_Queue)' = r
<1> DEFINE q == QueueOf(R_Queue)
           S == Range(q)
<1>1. /\ p \in Pcb /\ p \notin FreePcbs /\ p \notin held
      /\ \A x \in S : x \in Pcb /\ x \notin FreePcbs /\ x \notin held /\ p_semAdd[x] = NULL
      /\ \A k \in Key : Range(BlockedOn(k)) = {x \in Pcb : p_semAdd[x] = k}
  <2>1. IsRing(p_next, p_prev, R_Queue, q)
    BY DEF Linked, Rings
  <2>2. \A x \in S : x \in Pcb
    BY <2>1, RingFacts
  <2>3. Apart
    BY DEF Linked
  <2> QED BY <2>2, <2>3 DEF Apart
<1>2. /\ FreePcbs \cap S = {}
      /\ \A k \in Key : Range(BlockedOn(k)) \cap S = {}
  BY <1>1, NullAssumption
<1>3. OnlyLinksOf(S) /\ p \in S /\ Range(r) = S \ {p}
  OBVIOUS
<1> HIDE DEF S, q
<1>5. /\ FreePcbs' = FreePcbs /\ Blocked' = Blocked /\ Children' = Children
      /\ \A k \in Key : BlockedOn(k)' = BlockedOn(k)
      /\ IsChain(p_next', pcbFree_h', FreeList', Pcb)
      /\ \A k \in Key : IsRing(p_next', p_prev', TailOf(k)', BlockedOn(k)')
      /\ Families' /\ Semds'
  BY <1>2, <1>3, OthersKept
<1>6. QueueOf(R_Queue)' = r
  BY QueueReads, QueueNames
<1>7. Rings'
  BY <1>5, <1>6 DEF Rings
<1>8. held' = held \cup {p} /\ p_semAdd' = p_semAdd
  BY DEF Take
<1>9. Apart'
  BY <1>1, <1>3, <1>5, <1>6, <1>8 DEF Apart, Linked, q, S
<1>10. TypeOK'
  <2>1. R_Queue' \in Maybe(Pcb)
    BY RingFacts DEF Maybe
  <2> QED BY <1>1, <1>8, <2>1 DEF TypeOK, Linked, IsLink, tree, asl
<1> QED BY <1>5, <1>6, <1>7, <1>9, <1>10 DEF Linked

\* removeProcQ takes the oldest element.
LEMMA RemoveProcQStep ==
  ASSUME Linked, removeProcQ
  PROVE  /\ Linked'
         /\ QueueOf(R_Queue) # <<>> /\ held' = held \cup {Head(QueueOf(R_Queue))}
         /\ FreePcbs' = FreePcbs /\ Blocked' = Blocked /\ Children' = Children
         /\ QueueOf(R_Queue)' = RemoveProcQ(QueueOf(R_Queue))
<1>q. PICK q : q = QueueOf(R_Queue)
  OBVIOUS
<1>1. /\ R_Queue # NULL /\ RemoveLinks(R_Queue) /\ R_Queue' = TailAfterRemove(R_Queue)
      /\ Take(headProcQ(R_Queue))
      /\ UNCHANGED <<tree, p_semAdd, pcbFree_h, asl>>
  BY DEF removeProcQ
<1>2. IsRing(p_next, p_prev, R_Queue, q) /\ q # <<>> /\ IsListOf(q, Pcb)
  BY <1>q, <1>1, RingFacts DEF Linked, Rings
<1>3. /\ IsRing(p_next', p_prev', TailAfterRemove(R_Queue), RemoveProcQ(q))
      /\ headProcQ(R_Queue) = Head(q)
      /\ IsLink(p_next', Pcb) /\ IsLink(p_prev', Pcb)
      /\ OnlyLinksOf(Range(q))
  BY <1>1, <1>2, LinksTyped, RingRemove DEF Linked
<1>4. Head(q) \in Range(q) /\ Range(RemoveProcQ(q)) = Range(q) \ {Head(q)}
  BY <1>2, RemoveProcQLemma
<1>5. /\ Linked'
      /\ FreePcbs' = FreePcbs /\ Blocked' = Blocked /\ Children' = Children
      /\ QueueOf(R_Queue)' = RemoveProcQ(q)
  <2>1. Take(Head(q))
    BY <1>1, <1>3
  <2>2. IsRing(p_next', p_prev', R_Queue', RemoveProcQ(q))
    BY <1>1, <1>3
  <2> QED BY <1>q, <1>1, <1>3, <1>4, <2>1, <2>2, ReadyTaken
<1> QED BY <1>q, <1>1, <1>2, <1>3, <1>5 DEF Take

\* The search of outProcQ along p_prev finds who is in the queue, and nobody else.
LEMMA FoundInQueue ==
  ASSUME Linked, NEW tp, NEW q, IsRing(p_next, p_prev, tp, q), NEW p
  PROVE  Found(tp, p) <=> p \in Range(q)
<1>1. CASE q = <<>>
  BY <1>1, RingFacts, EmptyList DEF Found
<1>2. CASE q # <<>>
  BY <1>2, LinksTyped, RingReads DEF Found, Linked
<1> QED BY <1>1, <1>2

\* outProcQ takes an element from anywhere.
LEMMA OutProcQStep ==
  ASSUME Linked, NEW p \in Pcb, outProcQ(p)
  PROVE  /\ Linked'
         /\ p \in Range(QueueOf(R_Queue)) /\ held' = held \cup {p}
         /\ FreePcbs' = FreePcbs /\ Blocked' = Blocked /\ Children' = Children
         /\ QueueOf(R_Queue)' = OutProcQ(QueueOf(R_Queue), p)
<1>q. PICK q : q = QueueOf(R_Queue)
  OBVIOUS
<1>1. /\ Found(R_Queue, p) /\ OutLinks(R_Queue, p) /\ R_Queue' = TailAfterOut(R_Queue, p)
      /\ Take(p)
      /\ UNCHANGED <<tree, p_semAdd, pcbFree_h, asl>>
  BY DEF outProcQ
<1>2. IsRing(p_next, p_prev, R_Queue, q) /\ IsListOf(q, Pcb)
  BY <1>q, RingFacts DEF Linked, Rings
<1>3. p \in Range(q)
  BY <1>1, <1>2, FoundInQueue
<1>4. /\ IsRing(p_next', p_prev', R_Queue', OutProcQ(q, p))
      /\ IsLink(p_next', Pcb) /\ IsLink(p_prev', Pcb)
      /\ OnlyLinksOf(Range(q))
  BY <1>1, <1>2, <1>3, LinksTyped, RingOut DEF Linked
<1>5. Range(OutProcQ(q, p)) = Range(q) \ {p}
  BY <1>2, <1>3, OutProcQLemma
<1>6. /\ Linked'
      /\ FreePcbs' = FreePcbs /\ Blocked' = Blocked /\ Children' = Children
      /\ QueueOf(R_Queue)' = OutProcQ(q, p)
  BY <1>q, <1>1, <1>3, <1>4, <1>5, ReadyTaken
<1> QED BY <1>q, <1>1, <1>3, <1>6 DEF Take

\* A child list is one as long as nobody writes the links of its elements, and
\* the loop along p_next_sib returns it.
LEMMA FamilyKept ==
  ASSUME NEW next, NEW prev, NEW x, NEW c, IsFamily(next, prev, x, c),
         NEW next2, NEW prev2, IsLink(next2, Pcb),
         \A y \in Range(c) : next2[y] = next[y] /\ prev2[y] = prev[y]
  PROVE  IsFamily(next2, prev2, x, c) /\ Along(next2, x, NULL) = c
<1>1. IsChain(next, x, c, Pcb)
  BY DEF IsFamily
<1>2. IsChain(next2, x, c, Pcb)
  BY <1>1, ChainKept
<1>3. \A i \in 1 .. Len(c) : c[i] \in Range(c)
  BY <1>1, ChainFacts
<1>4. IsFamily(next2, prev2, x, c)
  BY <1>2, <1>3 DEF IsFamily
<1> QED BY <1>2, <1>4, ChainReads

\* Who is in a child list is a PCB and knows its parent.
LEMMA ChildFacts ==
  ASSUME Linked, NEW p \in Pcb
  PROVE  /\ IsFamily(p_next_sib, p_prev_sib, p_child[p], ChildrenOf(p))
         /\ IsChain(p_next_sib, p_child[p], ChildrenOf(p), Pcb)
         /\ IsListOf(ChildrenOf(p), Pcb)
         /\ \A c \in Range(ChildrenOf(p)) :
              c \in Pcb /\ p_prnt[c] = p /\ IsChild(c) /\ c \notin FreePcbs
         /\ emptyChild(p) <=> ChildrenOf(p) = <<>>
<1>1. IsFamily(p_next_sib, p_prev_sib, p_child[p], ChildrenOf(p))
  BY DEF Linked, Families
<1>2. IsChain(p_next_sib, p_child[p], ChildrenOf(p), Pcb)
  BY <1>1 DEF IsFamily
<1>3. IsListOf(ChildrenOf(p), Pcb) /\ (emptyChild(p) <=> ChildrenOf(p) = <<>>)
  BY <1>2, ChainFacts DEF emptyChild
<1>4. \A c \in Range(ChildrenOf(p)) : c \in Pcb /\ p_prnt[c] = p /\ c \notin FreePcbs
  BY <1>2, ChainFacts DEF Linked, Families
<1>5. \A c \in Range(ChildrenOf(p)) : IsChild(c)
  BY <1>4, Sizes DEF IsChild
<1> QED BY <1>1, <1>2, <1>3, <1>4, <1>5

\* freePcb puts a PCB that is nowhere before the free ones.
LEMMA FreePcbStep ==
  ASSUME Linked, NEW p \in Pcb, freePcb(p)
  PROVE  /\ Linked'
         /\ p \in held /\ held' = held \ {p}
         /\ ChildrenOf(p) = <<>> /\ \A x \in Pcb : p \notin Range(ChildrenOf(x))
         /\ FreePcbs' = FreePcbs \cup {p}
         /\ QueueOf(R_Queue)' = QueueOf(R_Queue)
         /\ Blocked' = Blocked /\ Children' = Children
<1>1. /\ p \in held /\ held' = held \ {p}
      /\ emptyChild(p) /\ ~IsChild(p)
      /\ p_prev' = [p_prev EXCEPT ![p] = NULL]
      /\ p_next' = [p_next EXCEPT ![p] = pcbFree_h]
      /\ pcbFree_h' = p
      /\ UNCHANGED <<tree, p_semAdd, R_Queue, asl>>
  BY DEF freePcb, Give
<1>u. p_semAdd' = p_semAdd /\ R_Queue' = R_Queue
  BY <1>1
<1>2. /\ p_next \in [Pcb -> Maybe(Pcb)] /\ p_prev \in [Pcb -> Maybe(Pcb)]
      /\ pcbFree_h \in Maybe(Pcb) /\ held \subseteq Pcb
  BY DEF Linked, TypeOK
<1>3. /\ p_next' \in [Pcb -> Maybe(Pcb)] /\ p_prev' \in [Pcb -> Maybe(Pcb)]
      /\ p_next'[p] = pcbFree_h
      /\ \A x \in Pcb : x # p => p_next'[x] = p_next[x] /\ p_prev'[x] = p_prev[x]
  BY <1>1, <1>2 DEF Maybe
<1>4. IsLink(p_next', Pcb) /\ IsLink(p_prev', Pcb) /\ OnlyLinksOf({p})
  BY <1>3, Sizes DEF IsLink, OnlyLinksOf
<1>5. /\ p \notin FreePcbs /\ p \notin Range(QueueOf(R_Queue)) /\ p_semAdd[p] = NULL
      /\ \A k \in Key : Range(BlockedOn(k)) \cap {p} = {}
  BY <1>1, NullAssumption DEF Linked, Apart
<1>6. IsChain(p_next', p, InsertChild(FreeList, p), Pcb)
  <2>1. IsChain(p_next, pcbFree_h, FreeList, Pcb)
    BY DEF Linked, Rings
  <2>2. \A x \in Range(FreeList) : x \in Pcb /\ x # p
    BY <1>5, <2>1, ChainFacts, QueueNames
  <2>3. IsChain(p_next', pcbFree_h, FreeList, Pcb)
    BY <1>3, <2>1, <2>2, ChainKept
  <2> QED BY <1>3, <2>2, <2>3, ChainPush
<1>7. FreeList' = InsertChild(FreeList, p)
  BY <1>1, <1>4, <1>6, ChainReads DEF FreeList
<1>8. FreePcbs' = FreePcbs \cup {p}
  <2>1. IsListOf(FreeList, Pcb)
    BY DEF Linked, Rings, IsChain
  <2> QED BY <1>5, <1>7, <2>1, InsertChildLemma, QueueNames
<1>9. /\ QueueOf(R_Queue)' = QueueOf(R_Queue)
      /\ IsRing(p_next', p_prev', R_Queue', QueueOf(R_Queue)')
  BY <1>u, <1>4, <1>5, ReadyKept
<1>10. (\A k : TailOf(k)' = TailOf(k)) /\ Semds'
  BY <1>1, AslKept DEF Linked
<1>11. \A k \in Key : /\ BlockedOn(k)' = BlockedOn(k)
                      /\ IsRing(p_next', p_prev', TailOf(k)', BlockedOn(k)')
  BY <1>4, <1>5, <1>10, BlockedKept
<1>12. Blocked' = Blocked
  BY <1>11 DEF Blocked
<1>13. ChildrenOf(p) = <<>> /\ \A x \in Pcb : p \notin Range(ChildrenOf(x))
  BY <1>1, ChildFacts
<1>14. Families' /\ Children' = Children
  BY <1>1, <1>8, <1>13, TreeKept DEF emptyChild
<1>15. Rings'
  BY <1>1, <1>6, <1>7, <1>9, <1>11 DEF Rings
<1>16. Apart'
  BY <1>1, <1>u, <1>5, <1>8, <1>9, <1>11 DEF Apart, Linked
<1>17. TypeOK'
  BY <1>1, <1>u, <1>2, <1>3 DEF TypeOK, Linked, tree, asl, Maybe
<1> QED BY <1>1, <1>8, <1>9, <1>10, <1>12, <1>13, <1>14, <1>15, <1>16, <1>17 DEF Linked

\* allocPcb takes the first free PCB and clears its links; it was in no child list.
LEMMA AllocPcbStep ==
  ASSUME Linked, allocPcb
  PROVE  /\ Linked'
         /\ pcbFree_h \in FreePcbs /\ pcbFree_h \in Pcb
         /\ held' = held \cup {pcbFree_h}
         /\ FreePcbs' = FreePcbs \ {pcbFree_h}
         /\ QueueOf(R_Queue)' = QueueOf(R_Queue)
         /\ Blocked' = Blocked /\ Children' = Children
<1>p. PICK p : p = pcbFree_h
  OBVIOUS
<1>1. /\ p # NULL
      /\ pcbFree_h' = p_next[p]
      /\ p_next' = [p_next EXCEPT ![p] = NULL]
      /\ p_prev' = [p_prev EXCEPT ![p] = NULL]
      /\ p_child' = [p_child EXCEPT ![p] = NULL]
      /\ p_prnt' = [p_prnt EXCEPT ![p] = NULL]
      /\ p_next_sib' = [p_next_sib EXCEPT ![p] = NULL]
      /\ p_prev_sib' = [p_prev_sib EXCEPT ![p] = NULL]
      /\ held' = held \cup {p}
      /\ UNCHANGED <<p_semAdd, R_Queue, asl>>
  BY <1>p DEF allocPcb, Take
<1>u. p_semAdd' = p_semAdd /\ R_Queue' = R_Queue
  BY <1>1
<1>2. /\ {p_next, p_prev, p_prnt, p_child, p_next_sib, p_prev_sib} \subseteq [Pcb -> Maybe(Pcb)]
      /\ p \in Pcb
  BY <1>p, <1>1 DEF Linked, TypeOK, Maybe
<1>3. /\ {p_next', p_prev', p_prnt', p_child', p_next_sib', p_prev_sib'}
           \subseteq [Pcb -> Maybe(Pcb)]
      /\ p_child'[p] = NULL /\ p_prnt'[p] = NULL /\ p_prev_sib'[p] = NULL
      /\ \A x \in Pcb : x # p =>
           /\ p_next'[x] = p_next[x] /\ p_prev'[x] = p_prev[x]
           /\ p_child'[x] = p_child[x] /\ p_prnt'[x] = p_prnt[x]
           /\ p_next_sib'[x] = p_next_sib[x] /\ p_prev_sib'[x] = p_prev_sib[x]
  BY <1>1, <1>2 DEF Maybe
<1>4. /\ IsLink(p_next', Pcb) /\ IsLink(p_prev', Pcb) /\ IsLink(p_next_sib', Pcb)
      /\ OnlyLinksOf({p})
  BY <1>3, Sizes DEF IsLink, OnlyLinksOf
<1>5. IsChain(p_next, p, FreeList, Pcb) /\ FreeList # <<>>
  BY <1>p, <1>1, ChainFacts DEF Linked, Rings
<1>6. /\ IsChain(p_next, p_next[p], RemoveProcQ(FreeList), Pcb)
      /\ Range(RemoveProcQ(FreeList)) = Range(FreeList) \ {p}
      /\ p \in FreePcbs
  BY <1>5, ChainPop, QueueNames
<1>7. IsChain(p_next', pcbFree_h', RemoveProcQ(FreeList), Pcb)
  <2>1. \A x \in Range(RemoveProcQ(FreeList)) : x \in Pcb /\ x # p
    BY <1>6, ChainFacts
  <2> QED BY <1>1, <1>3, <1>6, <2>1, ChainKept
<1>8. FreeList' = RemoveProcQ(FreeList)
  BY <1>4, <1>7, ChainReads DEF FreeList
<1>9. FreePcbs' = FreePcbs \ {p}
  BY <1>6, <1>8, QueueNames
<1>10. /\ p \notin Range(QueueOf(R_Queue)) /\ p_semAdd[p] = NULL
       /\ \A k \in Key : Range(BlockedOn(k)) \cap {p} = {}
  BY <1>6, NullAssumption DEF Linked, Apart
<1>11. /\ QueueOf(R_Queue)' = QueueOf(R_Queue)
       /\ IsRing(p_next', p_prev', R_Queue', QueueOf(R_Queue)')
  BY <1>u, <1>4, <1>10, ReadyKept
<1>12. (\A k : TailOf(k)' = TailOf(k)) /\ Semds'
  BY <1>1, AslKept DEF Linked
<1>13. \A k \in Key : /\ BlockedOn(k)' = BlockedOn(k)
                      /\ IsRing(p_next', p_prev', TailOf(k)', BlockedOn(k)')
  BY <1>4, <1>10, <1>12, BlockedKept
<1>14. Blocked' = Blocked
  BY <1>13 DEF Blocked
<1>15. ASSUME NEW x \in Pcb
       PROVE  /\ IsFamily(p_next_sib', p_prev_sib', p_child'[x], ChildrenOf(x))
              /\ ChildrenOf(x)' = ChildrenOf(x)
  <2>1. p_child'[x] = p_child[x]
    BY <1>3, <1>6 DEF Linked, Families
  <2>2. IsFamily(p_next_sib, p_prev_sib, p_child[x], ChildrenOf(x))
    BY ChildFacts
  <2>3. \A y \in Range(ChildrenOf(x)) : y \in Pcb /\ y # p
    BY <1>6, ChildFacts
  <2>4. /\ IsFamily(p_next_sib', p_prev_sib', p_child[x], ChildrenOf(x))
        /\ Along(p_next_sib', p_child[x], NULL) = ChildrenOf(x)
    BY <1>3, <1>4, <2>2, <2>3, FamilyKept
  <2> QED BY <2>1, <2>4 DEF ChildrenOf
<1>16. Children' = Children
  BY <1>15 DEF Children
<1>17. Families'
  <2>1. ASSUME NEW x \in Pcb, NEW c \in Range(ChildrenOf(x))
        PROVE  p_prnt'[c] = x /\ c \notin FreePcbs'
    <3>1. c \in Pcb /\ p_prnt[c] = x /\ c \notin FreePcbs
      BY ChildFacts
    <3> QED BY <1>3, <1>6, <1>9, <3>1
  <2>2. \A x \in FreePcbs' : p_child'[x] = NULL
    <3>1. \A x \in FreePcbs : x \in Pcb
      BY <1>5, ChainFacts, QueueNames
    <3> QED BY <1>3, <1>9, <3>1 DEF Linked, Families
  <2>3. \A x \in Pcb : p_prnt'[x] = NULL => p_prev_sib'[x] = NULL
    BY <1>3 DEF Linked, Families
  <2> QED BY <1>15, <2>1, <2>2, <2>3 DEF Families
<1>18. Rings'
  BY <1>7, <1>8, <1>11, <1>13 DEF Rings
<1>19. Apart'
  BY <1>1, <1>u, <1>9, <1>10, <1>11, <1>13 DEF Apart, Linked
<1>20. TypeOK'
  BY <1>1, <1>u, <1>2, <1>3 DEF TypeOK, Linked, asl, Maybe
<1> QED BY <1>p, <1>1, <1>2, <1>6, <1>9, <1>11, <1>12, <1>14, <1>16, <1>17, <1>18, <1>19,
           <1>20 DEF Linked

\* insertChild: p becomes the first child.
LEMMA FamilyPush ==
  ASSUME NEW next, NEW prev, NEW x, NEW c, IsFamily(next, prev, x, c),
         NEW p \in Pcb \ Range(c), NEW next2, NEW prev2,
         next2[p] = x, prev2[p] = NULL,
         \A y \in Range(c) : /\ next2[y] = next[y]
                             /\ prev2[y] = IF y = x THEN p ELSE prev[y]
  PROVE  IsFamily(next2, prev2, p, InsertChild(c, p))
<1>1. IsChain(next, x, c, Pcb)
  BY DEF IsFamily
<1>2. /\ IsListOf(c, Pcb) /\ c \in Seq(Pcb) /\ Len(c) \in Nat
      /\ \A i \in 1 .. Len(c) : c[i] \in Range(c)
      /\ \A i, j \in 1 .. Len(c) : c[i] = c[j] => i = j
      /\ Len(c) > 0 => x = c[1]
  BY <1>1, ChainFacts
<1>3. IsChain(next2, p, InsertChild(c, p), Pcb)
  <2>1. IsChain(next2, x, c, Pcb)
    BY <1>1, ChainKept
  <2> QED BY <2>1, ChainPush
<1>r. PICK r : r = InsertChild(c, p)
  OBVIOUS
<1>4. r[1] = p /\ Len(r) = Len(c) + 1 /\ \A i \in 1 .. Len(c) : r[i + 1] = c[i]
  BY <1>2, <1>r DEF InsertChild
<1>5. ASSUME NEW i \in 1 .. Len(r) PROVE prev2[r[i]] = IF i = 1 THEN NULL ELSE r[i - 1]
  <2>1. CASE i = 1
    BY <1>4, <2>1
  <2>2. CASE i # 1
    <3>1. PICK j \in 1 .. Len(c) : j + 1 = i /\ i - 1 = j
      BY <1>2, <1>4, <2>2
    <3>2. r[i] = c[j] /\ prev2[c[j]] = IF c[j] = x THEN p ELSE prev[c[j]]
      BY <1>2, <1>4, <3>1
    <3>3. prev[c[j]] = IF j = 1 THEN NULL ELSE c[j - 1]
      BY DEF IsFamily
    <3>4. CASE j = 1
      BY <1>2, <1>4, <2>2, <3>1, <3>2, <3>4
    <3>5. CASE j # 1
      <4>1. c[j] # x
        BY <1>2, <3>5
      <4>2. PICK k \in 1 .. Len(c) : k + 1 = j /\ k = j - 1
        BY <1>2, <3>5
      <4>3. r[j] = c[k]
        BY <1>4, <4>2
      <4> QED BY <2>2, <3>1, <3>2, <3>3, <3>5, <4>1, <4>2, <4>3
    <3> QED BY <3>4, <3>5
  <2> QED BY <2>1, <2>2
<1> QED BY <1>r, <1>3, <1>5 DEF IsFamily

\* removeChild: the second child becomes the first.
LEMMA FamilyPop ==
  ASSUME NEW next, NEW prev, NEW x, NEW c, IsFamily(next, prev, x, c), c # <<>>,
         NEW prev2,
         \A y \in Range(c) : prev2[y] = IF y = next[x] THEN NULL ELSE prev[y]
  PROVE  /\ IsFamily(next, prev2, next[x], RemoveProcQ(c))
         /\ Range(RemoveProcQ(c)) = Range(c) \ {x}
<1>1. IsChain(next, x, c, Pcb)
  BY DEF IsFamily
<1>2. /\ IsListOf(c, Pcb) /\ c \in Seq(Pcb) /\ Len(c) \in Nat /\ Len(c) > 0
      /\ \A i \in 1 .. Len(c) : c[i] \in Range(c) /\ c[i] # NULL
      /\ \A i, j \in 1 .. Len(c) : c[i] = c[j] => i = j
      /\ x = c[1]
  BY <1>1, ChainFacts
<1>3. /\ IsChain(next, next[x], RemoveProcQ(c), Pcb)
      /\ Range(RemoveProcQ(c)) = Range(c) \ {x}
  BY <1>1, ChainPop
<1>r. PICK r : r = RemoveProcQ(c)
  OBVIOUS
<1>4. Len(r) = Len(c) - 1 /\ \A i \in 1 .. Len(c) - 1 : r[i] = c[i + 1]
  BY <1>2, <1>r DEF RemoveProcQ
<1>5. ASSUME NEW i \in 1 .. Len(r) PROVE prev2[r[i]] = IF i = 1 THEN NULL ELSE r[i - 1]
  <2>1. PICK j \in 1 .. Len(c) : j = i + 1 /\ j # 1 /\ j - 1 = i /\ i \in 1 .. Len(c)
    BY <1>2, <1>4
  <2>2. r[i] = c[j] /\ prev[c[j]] = c[i]
    BY <1>4, <2>1 DEF IsFamily
  <2>3. prev2[c[j]] = IF c[j] = next[x] THEN NULL ELSE c[i]
    BY <1>2, <2>2
  <2>4. Len(c) > 1 /\ next[c[1]] = c[2] /\ 2 \in 1 .. Len(c)
    <3>1. 1 \in 1 .. Len(c) /\ 1 # Len(c) /\ 1 + 1 = 2
      BY <1>2, <2>1
    <3>2. next[c[1]] = IF 1 = Len(c) THEN NULL ELSE c[1 + 1]
      BY <1>1, <3>1 DEF IsChain
    <3> QED BY <1>2, <2>1, <3>1, <3>2
  <2>5. CASE i = 1
    BY <1>2, <2>1, <2>2, <2>3, <2>4, <2>5
  <2>6. CASE i # 1
    <3>1. c[j] # c[2] /\ r[i - 1] = c[i]
      BY <1>2, <1>4, <2>1, <2>4, <2>6
    <3> QED BY <1>2, <2>2, <2>3, <2>4, <2>6, <3>1
  <2> QED BY <2>5, <2>6
<1> QED BY <1>r, <1>3, <1>5 DEF IsFamily

\* outChild of another child than the first: its neighbours are linked.
LEMMA FamilyOut ==
  ASSUME NEW next, NEW prev, NEW x, NEW c, IsFamily(next, prev, x, c),
         NEW p \in Range(c), prev[p] # NULL, NEW next2, NEW prev2,
         \A y \in Range(c) : /\ next2[y] = IF y = prev[p] THEN next[p] ELSE next[y]
                             /\ prev2[y] = IF y = next[p] THEN prev[p] ELSE prev[y]
  PROVE  IsFamily(next2, prev2, x, Unlink(c, p)) /\ prev[p] \in Range(c)
<1>1. IsChain(next, x, c, Pcb)
  BY DEF IsFamily
<1>n. PICK n \in Nat : n = Len(c)
  BY <1>1, ChainFacts
<1>2. /\ IsListOf(c, Pcb) /\ c \in Seq(Pcb)
      /\ \A i \in 1 .. n : c[i] \in Range(c) /\ c[i] # NULL
      /\ \A i, j \in 1 .. n : c[i] = c[j] => i = j
      /\ \A i \in 1 .. n : next[c[i]] = IF i = n THEN NULL ELSE c[i + 1]
      /\ \A i \in 1 .. n : prev[c[i]] = IF i = 1 THEN NULL ELSE c[i - 1]
      /\ n > 0 => x = c[1]
  <2>1. \A i \in 1 .. n : next[c[i]] = IF i = n THEN NULL ELSE c[i + 1]
    BY <1>1, <1>n DEF IsChain
  <2>2. \A i \in 1 .. n : prev[c[i]] = IF i = 1 THEN NULL ELSE c[i - 1]
    BY <1>n DEF IsFamily
  <2>3. /\ IsListOf(c, Pcb) /\ c \in Seq(Pcb)
        /\ \A i \in 1 .. n : c[i] \in Range(c) /\ c[i] # NULL
        /\ \A i, j \in 1 .. n : c[i] = c[j] => i = j
    BY <1>1, <1>n, ChainFacts
  <2>4. n > 0 => x = c[1]
    BY <1>1, <1>n, ChainFacts
  <2> QED BY <2>1, <2>2, <2>3, <2>4
<1>a. PICK a \in 1 .. n : p = c[a]
  BY <1>1, <1>n, ChainFacts
<1>3. a > 1 /\ a - 1 \in 1 .. n /\ prev[p] = c[a - 1]
  BY <1>2, <1>a
<1>r. PICK r : r = Unlink(c, p)
  OBVIOUS
<1>4. IsListOf(r, Pcb) /\ Len(r) = n - 1
  <2>1. IsListOf(c, Pcb) /\ p \in Range(c)
    BY <1>2
  <2>2. IsListOf(Unlink(c, p), Pcb) /\ Len(Unlink(c, p)) = Len(c) - 1
    BY <2>1, UnlinkLemma
  <2> QED BY <1>n, <1>r, <2>2
<1>5. \A i \in 1 .. n - 1 : r[i] = IF i < a THEN c[i] ELSE c[i + 1]
  <2>1. a = CHOOSE i \in 1 .. Len(c) : c[i] = p
    BY <1>n, <1>a, <1>2
  <2>2. r = [i \in 1 .. n - 1 |-> IF i < a THEN c[i] ELSE c[i + 1]]
    BY <1>n, <1>r, <2>1 DEF Unlink
  <2> QED BY <2>2
<1>6. \A i \in 1 .. n : next2[c[i]] = IF i = a - 1 THEN next[p] ELSE next[c[i]]
  BY <1>2, <1>3
<1>7. ASSUME NEW i \in 1 .. n, i # a
      PROVE  prev2[c[i]] = IF i = a + 1 THEN prev[p] ELSE prev[c[i]]
  <2>1. prev2[c[i]] = IF c[i] = next[p] THEN prev[p] ELSE prev[c[i]]
    BY <1>2
  <2>2. next[p] = IF a = n THEN NULL ELSE c[a + 1]
    BY <1>2, <1>a
  <2>3. c[i] = next[p] <=> i = a + 1
    BY <1>2, <2>2
  <2> QED BY <2>1, <2>3
<1>8. ASSUME NEW i \in 1 .. n - 1
      PROVE  next2[r[i]] = IF i = n - 1 THEN NULL ELSE r[i + 1]
  <2>1. PICK j \in 1 .. n : j = IF i < a THEN i ELSE i + 1
    OBVIOUS
  <2>2. r[i] = c[j]
    BY <1>5, <2>1
  <2>3. CASE i = a - 1
    <3>1. next2[c[j]] = next[c[a]] /\ next[c[a]] = IF a = n THEN NULL ELSE c[a + 1]
      BY <1>2, <1>a, <1>6, <2>1, <2>3
    <3>2. i # n - 1 => r[i + 1] = c[a + 1]
      BY <1>5, <2>3
    <3> QED BY <2>2, <2>3, <3>1, <3>2
  <2>4. CASE i # a - 1
    <3>1. next2[c[j]] = IF j = n THEN NULL ELSE c[j + 1]
      BY <1>2, <1>6, <2>1, <2>4
    <3>2. j = n <=> i = n - 1
      BY <1>3, <2>1, <2>4
    <3>3. i # n - 1 => r[i + 1] = c[j + 1]
      BY <1>5, <2>1, <2>4
    <3> QED BY <2>2, <3>1, <3>2, <3>3
  <2> QED BY <2>3, <2>4
<1>9. ASSUME NEW i \in 1 .. n - 1
      PROVE  prev2[r[i]] = IF i = 1 THEN NULL ELSE r[i - 1]
  <2>1. PICK j \in 1 .. n : j = IF i < a THEN i ELSE i + 1
    OBVIOUS
  <2>2. r[i] = c[j] /\ j # a
    BY <1>5, <2>1
  <2>3. CASE i = a
    <3>1. prev2[c[j]] = c[a - 1] /\ r[i - 1] = c[a - 1]
      BY <1>3, <1>5, <1>7, <2>1, <2>2, <2>3
    <3> QED BY <1>3, <2>2, <2>3, <3>1
  <2>4. CASE i # a
    <3>1. prev2[c[j]] = IF j = 1 THEN NULL ELSE c[j - 1]
      BY <1>2, <1>7, <2>1, <2>2, <2>4
    <3>2. j = 1 <=> i = 1
      BY <1>3, <2>1
    <3>3. i # 1 => r[i - 1] = c[j - 1]
      BY <1>5, <2>1, <2>4
    <3> QED BY <2>2, <3>1, <3>2, <3>3
  <2> QED BY <2>3, <2>4
<1>10. x = IF r = <<>> THEN NULL ELSE r[1]
  <2>1. n > 1 /\ 1 \in 1 .. n - 1 /\ r[1] = c[1]
    BY <1>3, <1>5
  <2>2. r # <<>>
    BY <1>4, <2>1, ListOfRange
  <2> QED BY <1>2, <2>1, <2>2
<1>11. IsFamily(next2, prev2, x, r)
  BY <1>4, <1>8, <1>9, <1>10 DEF IsFamily, IsChain
<1> QED BY <1>r, <1>2, <1>3, <1>11

\* An operation on the trees leaves the queues alone.
LEMMA ListsKept ==
  ASSUME Linked, UNCHANGED <<links, p_semAdd, pcbFree_h, R_Queue, asl, held>>
  PROVE  /\ Rings' /\ Apart' /\ Semds'
         /\ FreePcbs' = FreePcbs /\ Blocked' = Blocked
         /\ QueueOf(R_Queue)' = QueueOf(R_Queue)
<1>1. /\ p_next' = p_next /\ p_prev' = p_prev /\ p_semAdd' = p_semAdd /\ held' = held
      /\ pcbFree_h' = pcbFree_h /\ R_Queue' = R_Queue
  BY DEF links
<1>2. IsLink(p_next', Pcb) /\ IsLink(p_prev', Pcb) /\ OnlyLinksOf({})
  BY <1>1, LinksTyped DEF Linked, OnlyLinksOf
<1>3. (\A k : TailOf(k)' = TailOf(k)) /\ Semds'
  BY AslKept DEF Linked
<1>4. FreePcbs' = FreePcbs /\ IsChain(p_next', pcbFree_h', FreeList', Pcb)
  BY <1>1, <1>2, FreeKept
<1>5. /\ QueueOf(R_Queue)' = QueueOf(R_Queue)
      /\ IsRing(p_next', p_prev', R_Queue', QueueOf(R_Queue)')
  BY <1>1, <1>2, ReadyKept
<1>6. \A k \in Key : /\ BlockedOn(k)' = BlockedOn(k)
                     /\ IsRing(p_next', p_prev', TailOf(k)', BlockedOn(k)')
  BY <1>2, <1>3, BlockedKept
<1>7. Rings' /\ Blocked' = Blocked
  BY <1>4, <1>5, <1>6 DEF Rings, Blocked
<1>8. Apart'
  BY <1>1, <1>4, <1>5, <1>6 DEF Apart, Linked
<1> QED BY <1>3, <1>4, <1>5, <1>7, <1>8

\* An operation on the children of prnt writes no sibling link of another child.
LEMMA SiblingsKept ==
  ASSUME Linked, NEW prnt \in Pcb, NEW r,
         \A x \in Pcb \ {prnt} : p_child'[x] = p_child[x],
         \A y \in Pcb : IsChild(y) /\ p_prnt[y] # prnt =>
           p_next_sib'[y] = p_next_sib[y] /\ p_prev_sib'[y] = p_prev_sib[y],
         IsLink(p_next_sib', Pcb),
         IsFamily(p_next_sib', p_prev_sib', p_child'[prnt], r)
  PROVE  /\ \A x \in Pcb : IsFamily(p_next_sib', p_prev_sib', p_child'[x], ChildrenOf(x)')
         /\ ChildrenOf(prnt)' = r
         /\ \A x \in Pcb \ {prnt} : ChildrenOf(x)' = ChildrenOf(x)
         /\ Children' = [Children EXCEPT ![prnt] = r]
<1>1. ChildrenOf(prnt)' = r
  BY ChainReads DEF ChildrenOf, IsFamily
<1>2. ASSUME NEW x \in Pcb \ {prnt}
      PROVE  /\ IsFamily(p_next_sib', p_prev_sib', p_child'[x], ChildrenOf(x))
             /\ ChildrenOf(x)' = ChildrenOf(x)
  <2>1. IsFamily(p_next_sib, p_prev_sib, p_child[x], ChildrenOf(x))
    BY ChildFacts
  <2>2. \A y \in Range(ChildrenOf(x)) :
          p_next_sib'[y] = p_next_sib[y] /\ p_prev_sib'[y] = p_prev_sib[y]
    BY ChildFacts
  <2>3. /\ IsFamily(p_next_sib', p_prev_sib', p_child[x], ChildrenOf(x))
        /\ Along(p_next_sib', p_child[x], NULL) = ChildrenOf(x)
    BY <2>1, <2>2, FamilyKept
  <2> QED BY <2>3 DEF ChildrenOf
<1>3. Children' = [Children EXCEPT ![prnt] = r]
  BY <1>1, <1>2 DEF Children
<1> QED BY <1>1, <1>2, <1>3

\* insertChild makes p the first child of prnt.
LEMMA InsertChildStep ==
  ASSUME Linked, NEW prnt \in Pcb, NEW p \in Pcb, insertChild(prnt, p)
  PROVE  /\ Linked'
         /\ {prnt, p} \cap FreePcbs = {} /\ prnt # p /\ ChildrenOf(p) = <<>>
         /\ \A x \in Pcb : p \notin Range(ChildrenOf(x))
         /\ FreePcbs' = FreePcbs /\ held' = held /\ Blocked' = Blocked
         /\ QueueOf(R_Queue)' = QueueOf(R_Queue)
         /\ Children' = [Children EXCEPT ![prnt] = InsertChild(ChildrenOf(prnt), p)]
<1> DEFINE c == ChildrenOf(prnt)
           x == p_child[prnt]
<1>1. /\ {prnt, p} \cap FreePcbs = {}
      /\ prnt # p /\ emptyChild(p) /\ p_prnt[p] = NULL
      /\ p_child' = [p_child EXCEPT ![prnt] = p]
      /\ p_next_sib' = [p_next_sib EXCEPT ![p] = x]
      /\ p_prnt' = [p_prnt EXCEPT ![p] = prnt]
      /\ p_prev_sib' = IF x = NULL THEN p_prev_sib ELSE [p_prev_sib EXCEPT ![x] = p]
      /\ UNCHANGED <<links, p_semAdd, pcbFree_h, R_Queue, asl, held>>
  BY DEF insertChild
<1>2. /\ Rings' /\ Apart' /\ Semds'
      /\ FreePcbs' = FreePcbs /\ Blocked' = Blocked
      /\ QueueOf(R_Queue)' = QueueOf(R_Queue)
  BY <1>1, ListsKept
<1>3. /\ {p_prnt, p_child, p_next_sib, p_prev_sib} \subseteq [Pcb -> Maybe(Pcb)]
      /\ x \in Maybe(Pcb) /\ NULL \notin Pcb
  BY Sizes DEF Linked, TypeOK
<1>4. /\ IsFamily(p_next_sib, p_prev_sib, x, c) /\ IsChain(p_next_sib, x, c, Pcb)
      /\ IsListOf(c, Pcb)
      /\ x # NULL => x \in Range(c)
      /\ \A y \in Range(c) : y \in Pcb /\ p_prnt[y] = prnt /\ IsChild(y) /\ y \notin FreePcbs
  BY ChildFacts, ChainFacts
<1>5. \A y \in Pcb : p \notin Range(ChildrenOf(y))
  BY <1>1, <1>3, ChildFacts
<1>6. {prnt, p} \cap FreePcbs = {} /\ ChildrenOf(p) = <<>>
  BY <1>1, ChildFacts
<1> HIDE DEF c, x
<1>7. /\ {p_prnt', p_child', p_next_sib', p_prev_sib'} \subseteq [Pcb -> Maybe(Pcb)]
      /\ p_child'[prnt] = p /\ p_prnt'[p] = prnt /\ p_next_sib'[p] = x
      /\ \A y \in Pcb : y # prnt => p_child'[y] = p_child[y]
      /\ \A y \in Pcb : y # p => p_prnt'[y] = p_prnt[y] /\ p_next_sib'[y] = p_next_sib[y]
      /\ \A y \in Pcb : p_prev_sib'[y] = IF y = x THEN p ELSE p_prev_sib[y]
  BY <1>1, <1>3 DEF Maybe
<1>8. p_prev_sib'[p] = NULL /\ p \notin Range(c)
  <2>1. p_prev_sib[p] = NULL
    BY <1>1 DEF Linked, Families
  <2>2. p \notin Range(c)
    BY <1>5 DEF c
  <2> QED BY <1>3, <1>4, <1>7, <2>1, <2>2
<1>9. IsFamily(p_next_sib', p_prev_sib', p_child'[prnt], InsertChild(c, p))
  <2>1. \A y \in Range(c) : /\ p_next_sib'[y] = p_next_sib[y]
                            /\ p_prev_sib'[y] = IF y = x THEN p ELSE p_prev_sib[y]
    BY <1>4, <1>7, <1>8
  <2> QED BY <1>4, <1>7, <1>8, <2>1, FamilyPush
<1>10. IsLink(p_next_sib', Pcb)
  BY <1>3, <1>7 DEF IsLink
<1>11. \A y \in Pcb : IsChild(y) /\ p_prnt[y] # prnt =>
         p_next_sib'[y] = p_next_sib[y] /\ p_prev_sib'[y] = p_prev_sib[y]
  <2>1. SUFFICES ASSUME NEW y \in Pcb, IsChild(y), p_prnt[y] # prnt
                 PROVE  p_next_sib'[y] = p_next_sib[y] /\ p_prev_sib'[y] = p_prev_sib[y]
    OBVIOUS
  <2>2. y # p
    BY <1>1, <2>1 DEF IsChild
  <2>3. y # x
    BY <1>3, <1>4, <2>1
  <2> QED BY <1>7, <2>2, <2>3
<1>12. /\ \A y \in Pcb : IsFamily(p_next_sib', p_prev_sib', p_child'[y], ChildrenOf(y)')
       /\ ChildrenOf(prnt)' = InsertChild(c, p)
       /\ \A y \in Pcb \ {prnt} : ChildrenOf(y)' = ChildrenOf(y)
       /\ Children' = [Children EXCEPT ![prnt] = InsertChild(c, p)]
  BY <1>7, <1>9, <1>10, <1>11, SiblingsKept
<1>13. Families'
  <2>1. ASSUME NEW y \in Pcb, NEW d \in Range(ChildrenOf(y)')
        PROVE  p_prnt'[d] = y /\ d \notin FreePcbs'
    <3>1. CASE y = prnt
      <4>1. d \in Range(c) \cup {p}
        BY <1>4, <1>8, <1>12, <2>1, <3>1, InsertChildLemma
      <4> QED BY <1>2, <1>4, <1>6, <1>7, <1>8, <3>1, <4>1
    <3>2. CASE y # prnt
      <4>1. d \in Range(ChildrenOf(y)) /\ d # p
        BY <1>5, <1>12, <2>1, <3>2
      <4> QED BY <1>2, <1>7, <4>1, ChildFacts
    <3> QED BY <3>1, <3>2
  <2>2. \A y \in FreePcbs' : p_child'[y] = NULL
    <3>1. \A y \in FreePcbs : y \in Pcb /\ y # prnt /\ p_child[y] = NULL
      BY <1>6, ChainFacts, QueueNames DEF Linked, Families, Rings
    <3> QED BY <1>2, <1>7, <3>1
  <2>3. \A y \in Pcb : p_prnt'[y] = NULL => p_prev_sib'[y] = NULL
    BY <1>3, <1>4, <1>7 DEF Linked, Families
  <2> QED BY <1>12, <2>1, <2>2, <2>3 DEF Families
<1>14. TypeOK'
  BY <1>1, <1>7 DEF TypeOK, Linked, links, asl
<1> QED BY <1>1, <1>2, <1>5, <1>6, <1>12, <1>13, <1>14 DEF Linked, c

\* What an operation leaves when it takes children of prnt out of its list.
LEMMA ChildTaken ==
  ASSUME Linked, UNCHANGED <<links, p_prnt, p_semAdd, pcbFree_h, R_Queue, asl, held>>,
         NEW prnt \in Pcb, ChildrenOf(prnt) # <<>>,
         NEW r, Range(r) \subseteq Range(ChildrenOf(prnt)),
         \A x \in Pcb \ {prnt} : p_child'[x] = p_child[x],
         \A y \in Pcb \ Range(ChildrenOf(prnt)) :
           p_next_sib'[y] = p_next_sib[y] /\ p_prev_sib'[y] = p_prev_sib[y],
         {p_child', p_next_sib', p_prev_sib'} \subseteq [Pcb -> Maybe(Pcb)],
         IsFamily(p_next_sib', p_prev_sib', p_child'[prnt], r)
  PROVE  /\ Linked'
         /\ FreePcbs' = FreePcbs /\ held' = held /\ Blocked' = Blocked
         /\ QueueOf(R_Queue)' = QueueOf(R_Queue)
         /\ Children' = [Children EXCEPT ![prnt] = r]
<1>1. /\ Rings' /\ Apart' /\ Semds'
      /\ FreePcbs' = FreePcbs /\ Blocked' = Blocked
      /\ QueueOf(R_Queue)' = QueueOf(R_Queue)
  <2>1. Linked /\ UNCHANGED <<links, p_semAdd, pcbFree_h, R_Queue, asl, held>>
    OBVIOUS
  <2> QED BY <2>1, ListsKept
<1>2. p_prnt' = p_prnt /\ held' = held
  OBVIOUS
<1>3. \A y \in Pcb : IsChild(y) /\ p_prnt[y] # prnt =>
        p_next_sib'[y] = p_next_sib[y] /\ p_prev_sib'[y] = p_prev_sib[y]
  BY ChildFacts
<1>4. IsLink(p_next_sib', Pcb)
  BY Sizes DEF IsLink
<1>5. /\ \A x \in Pcb : IsFamily(p_next_sib', p_prev_sib', p_child'[x], ChildrenOf(x)')
      /\ ChildrenOf(prnt)' = r
      /\ \A x \in Pcb \ {prnt} : ChildrenOf(x)' = ChildrenOf(x)
      /\ Children' = [Children EXCEPT ![prnt] = r]
  BY <1>3, <1>4, SiblingsKept
<1>6. Families'
  <2>1. \A x \in Pcb : \A c \in Range(ChildrenOf(x)') : p_prnt'[c] = x /\ c \notin FreePcbs'
    <3>1. \A x \in Pcb : Range(ChildrenOf(x)') \subseteq Range(ChildrenOf(x))
      BY <1>5
    <3> QED BY <1>1, <1>2, <3>1, ChildFacts
  <2>2. \A x \in FreePcbs' : p_child'[x] = NULL
    <3>1. \A x \in FreePcbs : x \in Pcb /\ p_child[x] = NULL
      BY ChainFacts, QueueNames DEF Linked, Families, Rings
    <3>2. prnt \notin FreePcbs
      BY <3>1, ChildFacts DEF emptyChild
    <3> QED BY <1>1, <3>1, <3>2
  <2>3. ASSUME NEW y \in Pcb, p_prnt'[y] = NULL PROVE p_prev_sib'[y] = NULL
    <3>1. y \notin Range(ChildrenOf(prnt))
      BY <1>2, <2>3, ChildFacts, Sizes
    <3> QED BY <1>2, <2>3, <3>1 DEF Linked, Families
  <2> QED BY <1>5, <2>1, <2>2, <2>3 DEF Families
<1>7. TypeOK'
  BY DEF TypeOK, Linked, links, asl
<1> QED BY <1>1, <1>2, <1>5, <1>6, <1>7 DEF Linked

\* removeChild takes the first child.
LEMMA RemoveChildStep ==
  ASSUME Linked, NEW prnt \in Pcb, removeChild(prnt)
  PROVE  /\ Linked'
         /\ ChildrenOf(prnt) # <<>>
         /\ FreePcbs' = FreePcbs /\ held' = held /\ Blocked' = Blocked
         /\ QueueOf(R_Queue)' = QueueOf(R_Queue)
         /\ Children' = [Children EXCEPT ![prnt] = RemoveProcQ(ChildrenOf(prnt))]
<1>c. PICK c : c = ChildrenOf(prnt)
  OBVIOUS
<1>x. PICK x : x = p_child[prnt]
  OBVIOUS
<1>1. /\ ~emptyChild(prnt)
      /\ p_child' = [p_child EXCEPT ![prnt] = p_next_sib[x]]
      /\ p_prev_sib' = IF p_next_sib[x] = NULL THEN p_prev_sib
                       ELSE [p_prev_sib EXCEPT ![p_next_sib[x]] = NULL]
      /\ p_next_sib' = p_next_sib
      /\ UNCHANGED <<links, p_prnt, p_semAdd, pcbFree_h, R_Queue, asl, held>>
  BY <1>x DEF removeChild
<1>2. /\ {p_child, p_next_sib, p_prev_sib} \subseteq [Pcb -> Maybe(Pcb)] /\ NULL \notin Pcb
      /\ IsFamily(p_next_sib, p_prev_sib, x, c)
      /\ IsChain(p_next_sib, x, c, Pcb) /\ c # <<>>
  BY <1>c, <1>x, <1>1, ChildFacts, Sizes DEF Linked, TypeOK
<1>3. x \in Range(c) /\ x \in Pcb
  BY <1>2, ChainFacts
<1>4. p_next_sib[x] # NULL => p_next_sib[x] \in Pcb /\ p_next_sib[x] \in Range(c)
  <2>1. IsChain(p_next_sib, p_next_sib[x], RemoveProcQ(c), Pcb)
        /\ Range(RemoveProcQ(c)) = Range(c) \ {x}
    BY <1>2, ChainPop
  <2> QED BY <2>1, ChainFacts
<1>5. /\ {p_child', p_next_sib', p_prev_sib'} \subseteq [Pcb -> Maybe(Pcb)]
      /\ p_child'[prnt] = p_next_sib[x]
      /\ \A y \in Pcb \ {prnt} : p_child'[y] = p_child[y]
      /\ \A y \in Pcb : p_prev_sib'[y] = IF y = p_next_sib[x] THEN NULL ELSE p_prev_sib[y]
  BY <1>1, <1>2, <1>3, <1>4 DEF Maybe
<1>6. /\ IsFamily(p_next_sib', p_prev_sib', p_child'[prnt], RemoveProcQ(c))
      /\ Range(RemoveProcQ(c)) = Range(c) \ {x}
  <2>1. \A y \in Range(c) : p_prev_sib'[y] = IF y = p_next_sib[x] THEN NULL ELSE p_prev_sib[y]
    BY <1>2, <1>5, ChainFacts
  <2>2. IsFamily(p_next_sib, p_prev_sib, x, c) /\ c # <<>>
    BY <1>2
  <2>3. /\ IsFamily(p_next_sib, p_prev_sib', p_next_sib[x], RemoveProcQ(c))
        /\ Range(RemoveProcQ(c)) = Range(c) \ {x}
    BY <2>1, <2>2, FamilyPop
  <2> QED BY <1>1, <1>5, <2>3
<1>7. \A y \in Pcb \ Range(c) : p_next_sib'[y] = p_next_sib[y] /\ p_prev_sib'[y] = p_prev_sib[y]
  BY <1>1, <1>2, <1>4, <1>5
<1> QED BY <1>c, <1>1, <1>2, <1>5, <1>6, <1>7, ChildTaken

\* outChild takes a child from anywhere.
LEMMA OutChildStep ==
  ASSUME Linked, NEW p \in Pcb, outChild(p)
  PROVE  /\ Linked'
         /\ p_prnt[p] \in Pcb /\ p \in Range(ChildrenOf(p_prnt[p]))
         /\ FreePcbs' = FreePcbs /\ held' = held /\ Blocked' = Blocked
         /\ QueueOf(R_Queue)' = QueueOf(R_Queue)
         /\ Children' = [Children EXCEPT ![p_prnt[p]] = Unlink(ChildrenOf(p_prnt[p]), p)]
<1>t. PICK prnt : prnt = p_prnt[p]
  OBVIOUS
<1>c. PICK c : c = ChildrenOf(prnt)
  OBVIOUS
<1>1. /\ {p_prnt, p_child, p_next_sib, p_prev_sib} \subseteq [Pcb -> Maybe(Pcb)]
      /\ NULL \notin Pcb
  BY Sizes DEF Linked, TypeOK
<1>2. prnt \in Pcb /\ p \in Range(c)
  BY <1>t, <1>c, <1>1 DEF outChild, IsChild, Maybe
<1>3. /\ IsFamily(p_next_sib, p_prev_sib, p_child[prnt], c)
      /\ IsChain(p_next_sib, p_child[prnt], c, Pcb) /\ c # <<>>
      /\ IsListOf(c, Pcb)
  BY <1>c, <1>2, ChildFacts, EmptyList
<1>4. CASE p_prev_sib[p] = NULL
  <2>1. removeChild(prnt)
    BY <1>t, <1>4 DEF outChild
  <2>2. /\ Linked'
        /\ FreePcbs' = FreePcbs /\ held' = held /\ Blocked' = Blocked
        /\ QueueOf(R_Queue)' = QueueOf(R_Queue)
        /\ Children' = [Children EXCEPT ![prnt] = RemoveProcQ(c)]
    BY <1>c, <1>2, <2>1, RemoveChildStep
  <2>3. RemoveProcQ(c) = Unlink(c, p)
    <3>1. PICK n \in Nat : n = Len(c) /\ n > 0
      BY <1>3, ChainFacts
    <3>2. /\ c \in Seq(Pcb)
          /\ \A i \in 1 .. n : c[i] \in Range(c) /\ c[i] # NULL
          /\ \A i, j \in 1 .. n : c[i] = c[j] => i = j
          /\ \A i \in 1 .. n : p_prev_sib[c[i]] = IF i = 1 THEN NULL ELSE c[i - 1]
      BY <1>3, <3>1, ChainFacts DEF IsFamily
    <3>3. PICK a \in 1 .. n : c[a] = p
      BY <1>2, <1>3, <3>1, ChainFacts
    <3>4. a = 1
      <4>1. a # 1 => a - 1 \in 1 .. n /\ p_prev_sib[c[a]] = c[a - 1] /\ c[a - 1] # NULL
        BY <3>2
      <4> QED BY <1>4, <3>3, <4>1
    <3>5. 1 = CHOOSE i \in 1 .. Len(c) : c[i] = p
      BY <3>1, <3>2, <3>3, <3>4
    <3>6. Unlink(c, p) = [i \in 1 .. n - 1 |-> IF i < 1 THEN c[i] ELSE c[i + 1]]
      BY <1>2, <3>1, <3>5 DEF Unlink
    <3>u. PICK u : u = Unlink(c, p)
      OBVIOUS
    <3>v. PICK v : v = RemoveProcQ(c)
      OBVIOUS
    <3>7. /\ v \in Seq(Pcb) /\ Len(v) = n - 1
          /\ \A i \in 1 .. n - 1 : v[i] = c[i + 1]
      BY <1>3, <3>1, <3>2, <3>v DEF RemoveProcQ
    <3>8. u \in Seq(Pcb) /\ Len(u) = n - 1
      BY <1>2, <1>3, <3>1, <3>u, UnlinkLemma DEF IsListOf
    <3>9. \A i \in 1 .. n - 1 : u[i] = c[i + 1]
      BY <3>6, <3>u
    <3>10. u = v
      BY <3>7, <3>8, <3>9, SameSequence
    <3> QED BY <3>u, <3>v, <3>10
  <2> QED BY <1>t, <1>c, <1>2, <2>2, <2>3
<1>5. CASE p_prev_sib[p] # NULL
  <2>1. /\ p_next_sib' = [p_next_sib EXCEPT ![p_prev_sib[p]] = p_next_sib[p]]
        /\ p_prev_sib' = IF p_next_sib[p] = NULL THEN p_prev_sib
                         ELSE [p_prev_sib EXCEPT ![p_next_sib[p]] = p_prev_sib[p]]
        /\ p_child' = p_child
        /\ UNCHANGED <<links, p_prnt, p_semAdd, pcbFree_h, R_Queue, asl, held>>
    BY <1>5 DEF outChild, PrevAfterOut
  <2>2. p_prev_sib[p] \in Pcb
    BY <1>1, <1>5 DEF Maybe
  <2>3. /\ {p_child', p_next_sib', p_prev_sib'} \subseteq [Pcb -> Maybe(Pcb)]
        /\ \A y \in Pcb :
             /\ p_next_sib'[y] = IF y = p_prev_sib[p] THEN p_next_sib[p] ELSE p_next_sib[y]
             /\ p_prev_sib'[y] = IF y = p_next_sib[p] THEN p_prev_sib[p] ELSE p_prev_sib[y]
    BY <1>1, <2>1, <2>2 DEF Maybe
  <2>4. /\ IsFamily(p_next_sib', p_prev_sib', p_child'[prnt], Unlink(c, p))
        /\ p_prev_sib[p] \in Range(c)
    <3>1. \A y \in Range(c) :
            /\ p_next_sib'[y] = IF y = p_prev_sib[p] THEN p_next_sib[p] ELSE p_next_sib[y]
            /\ p_prev_sib'[y] = IF y = p_next_sib[p] THEN p_prev_sib[p] ELSE p_prev_sib[y]
      BY <1>3, <2>3, ChainFacts
    <3>2. IsFamily(p_next_sib, p_prev_sib, p_child[prnt], c) /\ p \in Range(c)
      BY <1>2, <1>3
    <3>3. /\ IsFamily(p_next_sib', p_prev_sib', p_child[prnt], Unlink(c, p))
          /\ p_prev_sib[p] \in Range(c)
      BY <1>5, <3>1, <3>2, FamilyOut
    <3> QED BY <2>1, <3>3
  <2>5. p_next_sib[p] # NULL => p_next_sib[p] \in Range(c)
    <3>1. PICK a \in 1 .. Len(c) : c[a] = p
      BY <1>2, <1>3, ChainFacts
    <3>2. p_next_sib[c[a]] = IF a = Len(c) THEN NULL ELSE c[a + 1]
      BY <1>3 DEF IsChain
    <3>3. a # Len(c) => a + 1 \in 1 .. Len(c)
      BY <1>3, ChainFacts
    <3> QED BY <1>3, <3>1, <3>2, <3>3, ChainFacts
  <2>6. \A y \in Pcb \ Range(c) : p_next_sib'[y] = p_next_sib[y] /\ p_prev_sib'[y] = p_prev_sib[y]
    BY <1>1, <2>3, <2>4, <2>5
  <2>7. Range(Unlink(c, p)) \subseteq Range(c)
    BY <1>2, <1>3, UnlinkLemma
  <2>8. \A x \in Pcb \ {prnt} : p_child'[x] = p_child[x]
    BY <2>1
  <2>9. /\ Linked'
        /\ FreePcbs' = FreePcbs /\ held' = held /\ Blocked' = Blocked
        /\ QueueOf(R_Queue)' = QueueOf(R_Queue)
        /\ Children' = [Children EXCEPT ![prnt] = Unlink(c, p)]
    BY <1>c, <1>2, <1>3, <2>1, <2>3, <2>4, <2>6, <2>7, <2>8, ChildTaken
  <2> QED BY <1>t, <1>c, <1>2, <2>9
<1> QED BY <1>4, <1>5

----------------------------------------------------------------------------
(***************************************************************************)
(* The active list of descriptors.                                         *)
(***************************************************************************)

\* The descriptors in use of the list a, and the one of k among them.
InUse(a) == Range(a) \ {semd_h, semd_hi}
Search(key, a, k) ==
  LET found == {d \in Range(a) : key[d] = k}
  IN  IF found = {} THEN NULL ELSE CHOOSE d \in found : TRUE

LEMMA SearchNames ==
  /\ Descriptors = InUse(Active) /\ Descriptors' = InUse(Active')
  /\ \A k : SemdOf(k) = Search(s_semAdd, Active, k)
  /\ \A k : SemdOf(k)' = Search(s_semAdd', Active', k)
  /\ \A k : TailOf(k) = IF SemdOf(k) = NULL THEN NULL ELSE s_procQ[SemdOf(k)]
  /\ \A k : TailOf(k)' = IF SemdOf(k)' = NULL THEN NULL ELSE s_procQ'[SemdOf(k)']
BY DEF Descriptors, InUse, SemdOf, Search, TailOf

\* Where the sentinels are and where the descriptors in use.
LEMMA ActiveFacts ==
  ASSUME NEW next, NEW key, NEW a, IsActive(next, key, a)
  PROVE  /\ Len(a) \in Nat /\ Len(a) > 1
         /\ a[1] = semd_h /\ a[Len(a)] = semd_hi /\ semd_h # semd_hi
         /\ \A i \in 1 .. Len(a) : a[i] \in Semd /\ a[i] \in Range(a) /\ a[i] # NULL
         /\ \A i, j \in 1 .. Len(a) : a[i] = a[j] => i = j
         /\ \A i \in 2 .. Len(a) - 1 : a[i] \in InUse(a)
         /\ \A d \in InUse(a) : \E i \in 2 .. Len(a) - 1 : d = a[i]
         /\ InUse(a) \subseteq Semd /\ NULL \notin InUse(a)
         /\ \A d \in InUse(a) : key[d] \in Key
<1>1. IsChain(next, semd_h, a, Semd) /\ a[Len(a)] = semd_hi
  BY DEF IsActive
<1>2. /\ IsListOf(a, Semd) /\ a \in Seq(Semd) /\ Len(a) \in Nat
      /\ \A i \in 1 .. Len(a) : a[i] \in Semd /\ a[i] \in Range(a) /\ a[i] # NULL
      /\ \A y \in Range(a) : \E i \in 1 .. Len(a) : y = a[i]
      /\ \A i, j \in 1 .. Len(a) : a[i] = a[j] => i = j
      /\ semd_h = NULL <=> a = <<>>
      /\ a # <<>> <=> Len(a) > 0
      /\ a # <<>> => semd_h = a[1]
  BY <1>1, ChainFacts
<1>3. semd_h # semd_hi /\ semd_h \in Semd /\ semd_h # NULL
  BY SizeAssumption, Sizes DEF semd_h, semd_hi, Semd
<1>4. Len(a) > 1
  <2>1. Len(a) > 0 /\ a[1] = semd_h
    BY <1>2, <1>3
  <2>2. Len(a) # 1
    BY <1>1, <1>3, <2>1
  <2>3. Len(a) \in Nat
    BY <1>2
  <2> QED BY <2>1, <2>2, <2>3
<1>5. \A i \in 2 .. Len(a) - 1 : a[i] \in InUse(a)
  BY <1>1, <1>2, <1>3, <1>4 DEF InUse
<1>6. ASSUME NEW d \in InUse(a) PROVE \E i \in 2 .. Len(a) - 1 : d = a[i]
  <2>1. PICK i \in 1 .. Len(a) : d = a[i]
    BY <1>2 DEF InUse
  <2>2. i # 1 /\ i # Len(a)
    BY <1>1, <1>2, <1>3, <2>1 DEF InUse
  <2>3. i \in 2 .. Len(a) - 1
    BY <1>2, <2>1, <2>2
  <2> QED BY <2>1, <2>3
<1>7. InUse(a) \subseteq Semd /\ NULL \notin InUse(a)
  BY <1>2 DEF InUse
<1>8. \A d \in InUse(a) : key[d] \in Key
  <2>1. \A i \in 2 .. Len(a) - 1 : key[a[i]] \in Key
    BY DEF IsActive
  <2> QED BY <1>6, <2>1
<1> QED BY <1>1, <1>2, <1>3, <1>4, <1>5, <1>6, <1>7, <1>8

\* The loops along s_next return it.
LEMMA ActiveReads ==
  ASSUME NEW next, IsLink(next, Semd), NEW key, NEW a, IsActive(next, key, a)
  PROVE  Along(next, semd_h, semd_hi) = a
<1>1. IsChain(next, semd_h, a, Semd) /\ IsListOf(a, Semd)
  BY DEF IsActive, IsChain
<1>2. /\ Len(a) \in Nat /\ Len(a) > 1
      /\ a[1] = semd_h /\ a[Len(a)] = semd_hi
      /\ \A i, j \in 1 .. Len(a) : a[i] = a[j] => i = j
  BY ActiveFacts
<1>3. Len(a) <= MAXPROC + 3
  BY <1>1, <1>2, ListFits, SizeAssumption
<1>4. \A i \in 1 .. Len(a) - 1 : next[a[i]] = a[i + 1] /\ a[i] # semd_hi
  BY <1>1, <1>2 DEF IsChain
<1>5. semd_h = IF a = <<>> THEN NULL ELSE a[1]
  BY <1>1 DEF IsChain
<1>6. IsPath(next, semd_h, semd_hi, a, Semd)
  BY <1>1, <1>2, <1>3, <1>4, <1>5 DEF IsPath
<1> QED BY <1>6, AlongPath

\* A semaphore has at most one descriptor in use, and the search finds it.
LEMMA SearchLemma ==
  ASSUME NEW next, NEW key, NEW a, IsActive(next, key, a), NEW k \in Key
  PROVE  /\ NULL \notin InUse(a)
         /\ Search(key, a, k) # NULL =>
              Search(key, a, k) \in InUse(a) /\ key[Search(key, a, k)] = k
         /\ \A d \in InUse(a) : key[d] \in Key /\ (key[d] = k => Search(key, a, k) = d)
<1>1. PICK n \in Nat : n = Len(a)
  BY ActiveFacts
<1>2. /\ n > 1 /\ a[1] = semd_h /\ a[n] = semd_hi /\ semd_h # semd_hi
      /\ \A i \in 1 .. n : a[i] \in Semd /\ a[i] \in Range(a) /\ a[i] # NULL
      /\ \A i \in 2 .. n - 1 : a[i] \in InUse(a)
      /\ \A d \in InUse(a) : \E i \in 2 .. n - 1 : d = a[i]
  BY <1>1, ActiveFacts
<1>3. /\ \A i, j \in 1 .. n : i < j => key[a[i]] < key[a[j]]
      /\ key[semd_h] = 0 /\ key[semd_hi] = MAXINT
      /\ \A i \in 2 .. n - 1 : key[a[i]] \in Key
  BY <1>1 DEF IsActive
<1>4. k \in Nat /\ k # 0 /\ k # MAXINT /\ \A x \in Key : x \in Nat
  BY KeyAssumption
<1>5. ASSUME NEW d \in InUse(a), NEW e \in InUse(a), key[d] = key[e] PROVE d = e
  <2>1. PICK i \in 2 .. n - 1, j \in 2 .. n - 1 : d = a[i] /\ e = a[j]
    BY <1>2
  <2>2. ~ (i < j) /\ ~ (j < i)
    <3>1. key[a[i]] = key[a[j]] /\ key[a[i]] \in Nat
      BY <1>3, <1>4, <1>5, <2>1
    <3>2. i \in 1 .. n /\ j \in 1 .. n
      OBVIOUS
    <3>3. (i < j => key[a[i]] < key[a[j]]) /\ (j < i => key[a[j]] < key[a[i]])
      BY <1>3, <3>2
    <3> QED BY <3>1, <3>3
  <2> QED BY <2>1, <2>2
<1>6. \A d \in Range(a) : key[d] = k => d \in InUse(a)
  BY <1>3, <1>4 DEF InUse
<1>7. \A d \in InUse(a) : key[d] \in Key /\ d # NULL /\ d \in Range(a)
  BY <1>2, <1>3
<1> DEFINE found == {d \in Range(a) : key[d] = k}
<1>8. Search(key, a, k) = IF found = {} THEN NULL ELSE CHOOSE d \in found : TRUE
  BY DEF Search
<1>9. \A d \in found : d \in InUse(a) /\ key[d] = k /\ d # NULL
  BY <1>6, <1>7
<1>10. found # {} => Search(key, a, k) \in found
  BY <1>8
<1>11. found = {} => Search(key, a, k) = NULL
  BY <1>8
<1>12. \A d \in InUse(a) : key[d] = k => d \in found
  BY <1>7
<1> HIDE DEF found
<1> QED BY <1>5, <1>7, <1>9, <1>10, <1>11, <1>12

\* The search for k has the same result in two lists with the same descriptor of k.
LEMMA SearchAgrees ==
  ASSUME NEW next, NEW key, NEW a, IsActive(next, key, a),
         NEW next2, NEW key2, NEW b, IsActive(next2, key2, b), NEW k \in Key,
         \A d : d \in InUse(a) /\ key[d] = k <=> d \in InUse(b) /\ key2[d] = k
  PROVE  Search(key, a, k) = Search(key2, b, k)
<1>1. /\ Search(key, a, k) # NULL =>
           Search(key, a, k) \in InUse(a) /\ key[Search(key, a, k)] = k
      /\ \A d \in InUse(a) : key[d] = k => Search(key, a, k) = d
  BY SearchLemma
<1>2. /\ Search(key2, b, k) # NULL =>
           Search(key2, b, k) \in InUse(b) /\ key2[Search(key2, b, k)] = k
      /\ \A d \in InUse(b) : key2[d] = k => Search(key2, b, k) = d
  BY SearchLemma
<1> QED BY <1>1, <1>2

\* A descriptor in use is taken out of the active list.
LEMMA ActiveCut ==
  ASSUME NEW next, NEW key, NEW a, IsActive(next, key, a), NEW d \in InUse(a),
         NEW e \in Range(a), next[e] = d, NEW next2,
         \A y \in Range(a) \ {d} : next2[y] = IF y = e THEN next[d] ELSE next[y]
  PROVE  /\ IsActive(next2, key, Unlink(a, d))
         /\ Range(Unlink(a, d)) = Range(a) \ {d}
<1>1. PICK n \in Nat : n = Len(a)
  BY ActiveFacts
<1>2. /\ n > 1 /\ a[1] = semd_h /\ a[n] = semd_hi /\ semd_h # semd_hi
      /\ \A i \in 1 .. n : a[i] \in Semd /\ a[i] \in Range(a) /\ a[i] # NULL
      /\ \A i, j \in 1 .. n : a[i] = a[j] => i = j
      /\ d \in Range(a) /\ d \in Semd /\ d # NULL
  BY <1>1, ActiveFacts, Sizes DEF InUse
<1>3. /\ IsListOf(a, Semd) /\ a \in Seq(Semd)
      /\ \A i \in 1 .. n : next[a[i]] = IF i = n THEN NULL ELSE a[i + 1]
      /\ \A i, j \in 1 .. n : i < j => key[a[i]] < key[a[j]]
      /\ key[semd_h] = 0 /\ key[semd_hi] = MAXINT
      /\ \A i \in 2 .. n - 1 : key[a[i]] \in Key
      /\ \A y \in Range(a) : \E i \in 1 .. n : y = a[i]
  BY <1>1, ChainFacts DEF IsActive, IsChain
<1>4. PICK m \in 2 .. n - 1 : d = a[m]
  BY <1>1, ActiveFacts
<1>5. e = a[m - 1]
  <2>1. PICK i \in 1 .. n : e = a[i]
    BY <1>3
  <2>2. i # n /\ a[i + 1] = d
    BY <1>2, <1>3, <2>1
  <2>3. i + 1 = m
    BY <1>2, <1>4, <2>1, <2>2
  <2> QED BY <2>1, <2>3
<1>6. PICK r : r = Unlink(a, d)
  OBVIOUS
<1>7. IsListOf(r, Semd) /\ Range(r) = Range(a) \ {d} /\ Len(r) = n - 1 /\ r # <<>>
  <2>1. IsListOf(r, Semd) /\ Range(r) = Range(a) \ {d} /\ Len(r) = n - 1
    <3>1. IsListOf(a, Semd) /\ d \in Range(a)
      BY <1>2, <1>3
    <3> QED BY <1>1, <1>6, <3>1, UnlinkLemma
  <2> QED BY <1>2, <2>1, ListOfRange
<1>8. \A i \in 1 .. n - 1 : r[i] = IF i < m THEN a[i] ELSE a[i + 1]
  <2>1. m = CHOOSE i \in 1 .. Len(a) : a[i] = d
    BY <1>1, <1>2, <1>4
  <2> QED BY <1>1, <1>2, <1>6, <2>1 DEF Unlink
<1>9. ASSUME NEW i \in 1 .. n - 1
      PROVE  next2[r[i]] = IF i = n - 1 THEN NULL ELSE r[i + 1]
  <2>1. PICK j \in 1 .. n : j = IF i < m THEN i ELSE i + 1
    OBVIOUS
  <2>2. r[i] = a[j] /\ j # m /\ a[j] # d /\ a[j] \in Range(a)
    BY <1>2, <1>4, <1>8, <2>1
  <2>3. CASE i = m - 1
    <3>1. next2[a[j]] = next[d] /\ next[d] = a[m + 1]
      BY <1>3, <1>4, <1>5, <2>1, <2>2, <2>3
    <3>2. i # n - 1 /\ r[i + 1] = a[m + 1]
      BY <1>8, <2>3
    <3> QED BY <2>2, <3>1, <3>2
  <2>4. CASE i # m - 1
    <3>1. a[j] # e
      BY <1>2, <1>5, <2>1, <2>4
    <3>2. next2[a[j]] = IF j = n THEN NULL ELSE a[j + 1]
      BY <1>3, <2>2, <3>1
    <3>3. j = n <=> i = n - 1
      BY <1>4, <2>1
    <3>4. i # n - 1 => r[i + 1] = a[j + 1]
      BY <1>8, <2>1, <2>4
    <3> QED BY <2>2, <3>2, <3>3, <3>4
  <2> QED BY <2>3, <2>4
<1>10. r[1] = semd_h /\ r[n - 1] = semd_hi
  <2>1. 1 \in 1 .. n - 1 /\ 1 < m /\ n - 1 \in 1 .. n - 1 /\ ~ (n - 1 < m) /\ n - 1 + 1 = n
    BY <1>4
  <2> QED BY <1>2, <1>8, <2>1
<1>11. \A i, j \in 1 .. n - 1 : i < j => key[r[i]] < key[r[j]]
  <2>1. SUFFICES ASSUME NEW i \in 1 .. n - 1, NEW j \in 1 .. n - 1, i < j
                 PROVE  key[r[i]] < key[r[j]]
    OBVIOUS
  <2>2. PICK i2 \in 1 .. n : i2 = IF i < m THEN i ELSE i + 1
    OBVIOUS
  <2>3. PICK j2 \in 1 .. n : j2 = IF j < m THEN j ELSE j + 1
    OBVIOUS
  <2>4. i2 < j2 /\ r[i] = a[i2] /\ r[j] = a[j2]
    BY <1>8, <2>1, <2>2, <2>3
  <2> QED BY <1>3, <2>4
<1>12. \A i \in 2 .. n - 2 : key[r[i]] \in Key
  <2>1. SUFFICES ASSUME NEW i \in 2 .. n - 2 PROVE key[r[i]] \in Key
    OBVIOUS
  <2>2. PICK j \in 2 .. n - 1 : j = IF i < m THEN i ELSE i + 1
    OBVIOUS
  <2>3. r[i] = a[j]
    BY <1>8, <2>2
  <2> QED BY <1>3, <2>3
<1>13. IsChain(next2, semd_h, r, Semd)
  BY <1>7, <1>9, <1>10 DEF IsChain
<1>14. IsActive(next2, key, r)
  BY <1>3, <1>7, <1>10, <1>11, <1>12, <1>13 DEF IsActive
<1> QED BY <1>6, <1>7, <1>14

\* The descriptor new of the semaphore k comes after the place i of the list a,
\* where it belongs.
IsInserted(next, key, a, i, new, k, next2, key2) ==
  /\ \A j \in 1 .. i : key[a[j]] < k
  /\ \A j \in i + 1 .. Len(a) : k < key[a[j]]
  /\ next2[new] = next[a[i]] /\ next2[a[i]] = new
  /\ \A y \in Range(a) \ {a[i]} : next2[y] = next[y]
  /\ key2[new] = k /\ \A y \in Range(a) : key2[y] = key[y]

\* The list stays sorted.
LEMMA ActiveInsert ==
  ASSUME NEW next, NEW key, NEW a, IsActive(next, key, a), NEW i \in 1 .. Len(a) - 1,
         NEW new \in Semd \ Range(a), NEW k \in Key, NEW next2, NEW key2,
         IsInserted(next, key, a, i, new, k, next2, key2)
  PROVE  \E b : IsActive(next2, key2, b) /\ Range(b) = Range(a) \cup {new}
<1>d. /\ \A j \in 1 .. i : key[a[j]] < k
      /\ \A j \in i + 1 .. Len(a) : k < key[a[j]]
      /\ next2[new] = next[a[i]] /\ next2[a[i]] = new
      /\ \A y \in Range(a) \ {a[i]} : next2[y] = next[y]
      /\ key2[new] = k /\ \A y \in Range(a) : key2[y] = key[y]
  BY DEF IsInserted
<1>n. PICK n \in Nat : n = Len(a)
  BY ActiveFacts
<1>1. /\ n > 1 /\ i \in 1 .. n - 1 /\ a[1] = semd_h /\ a[n] = semd_hi
      /\ \A j \in 1 .. n : a[j] \in Semd /\ a[j] \in Range(a)
      /\ \A j, l \in 1 .. n : a[j] = a[l] => j = l
      /\ new \in Semd /\ new \notin Range(a) /\ new # NULL
  BY <1>n, ActiveFacts, Sizes
<1>2. /\ \A j \in 1 .. n : next[a[j]] = IF j = n THEN NULL ELSE a[j + 1]
      /\ \A j, l \in 1 .. n : j < l => key[a[j]] < key[a[l]]
      /\ key[semd_h] = 0 /\ key[semd_hi] = MAXINT
      /\ \A j \in 2 .. n - 1 : key[a[j]] \in Key
      /\ \A y \in Range(a) : \E j \in 1 .. n : y = a[j]
      /\ semd_h \in Range(a) /\ semd_hi \in Range(a)
  <2>1. IsChain(next, semd_h, a, Semd)
    BY DEF IsActive
  <2>2. \A y \in Range(a) : \E j \in 1 .. n : y = a[j]
    BY <1>n, <2>1, ChainFacts
  <2>3. semd_h \in Range(a) /\ semd_hi \in Range(a)
    <3>1. 1 \in 1 .. n /\ n \in 1 .. n
      BY <1>1
    <3> QED BY <1>1, <3>1
  <2> QED BY <1>n, <2>2, <2>3 DEF IsActive, IsChain
<1>3. PICK b : b = [j \in 1 .. n + 1 |-> IF j <= i THEN a[j]
                                          ELSE IF j = i + 1 THEN new ELSE a[j - 1]]
  OBVIOUS
<1>4. /\ \A j \in 1 .. i : b[j] = a[j]
      /\ b[i + 1] = new
      /\ \A j \in i + 2 .. n + 1 : b[j] = a[j - 1]
  BY <1>1, <1>3
<1>5. b \in Seq(Semd) /\ Len(b) = n + 1 /\ DOMAIN b = 1 .. n + 1
  <2>1. \A j \in 1 .. n + 1 : b[j] \in Semd
    <3>1. SUFFICES ASSUME NEW j \in 1 .. n + 1 PROVE b[j] \in Semd
      OBVIOUS
    <3>2. CASE j = i + 1
      BY <1>1, <1>4, <3>2
    <3>3. CASE j # i + 1
      <4>1. PICK m \in 1 .. n : m = IF j <= i THEN j ELSE j - 1
        BY <1>1, <3>3
      <4>2. b[j] = a[m]
        BY <1>1, <1>4, <3>3, <4>1
      <4> QED BY <1>1, <4>2
    <3> QED BY <3>2, <3>3
  <2>2. b \in [1 .. n + 1 -> Semd]
    BY <1>3, <2>1
  <2> QED BY <2>2, IsSequence
<1>6. \A j \in 1 .. n + 1 : j # i + 1 =>
        \E m \in 1 .. n : m = (IF j <= i THEN j ELSE j - 1) /\ b[j] = a[m]
  <2>1. SUFFICES ASSUME NEW j \in 1 .. n + 1, j # i + 1
                 PROVE  \E m \in 1 .. n : m = (IF j <= i THEN j ELSE j - 1) /\ b[j] = a[m]
    OBVIOUS
  <2>2. PICK m \in 1 .. n : m = IF j <= i THEN j ELSE j - 1
    BY <1>1, <2>1
  <2>3. b[j] = a[m]
    BY <1>1, <1>4, <2>1, <2>2
  <2> QED BY <2>2, <2>3
<1>7. IsListOf(b, Semd)
  <2>1. SUFFICES ASSUME NEW j \in 1 .. n + 1, NEW l \in 1 .. n + 1, b[j] = b[l] PROVE j = l
    BY <1>5 DEF IsListOf, IsInjective
  <2>2. CASE j = i + 1 \/ l = i + 1
    BY <1>1, <1>4, <1>6, <2>1, <2>2
  <2>3. CASE j # i + 1 /\ l # i + 1
    <3>1. PICK m \in 1 .. n : m = (IF j <= i THEN j ELSE j - 1) /\ b[j] = a[m]
      BY <1>6, <2>3
    <3>2. PICK o \in 1 .. n : o = (IF l <= i THEN l ELSE l - 1) /\ b[l] = a[o]
      BY <1>6, <2>3
    <3>3. m = o
      <4>1. a[m] = a[o]
        BY <2>1, <3>1, <3>2
      <4> QED BY <1>1, <4>1
    <3> QED BY <1>1, <2>3, <3>1, <3>2, <3>3
  <2> QED BY <2>2, <2>3
<1>8. Range(b) = Range(a) \cup {new}
  <2>1. ASSUME NEW y \in Range(b) PROVE y \in Range(a) \cup {new}
    <3>1. PICK j \in 1 .. n + 1 : y = b[j]
      BY <1>5, <2>1 DEF Range
    <3> QED BY <1>1, <1>4, <1>6, <3>1
  <2>2. ASSUME NEW y \in Range(a) PROVE y \in Range(b)
    <3>1. PICK m \in 1 .. n : y = a[m]
      BY <1>2, <2>2
    <3>2. PICK j \in 1 .. n + 1 : j = IF m <= i THEN m ELSE m + 1
      OBVIOUS
    <3>3. b[j] = a[m]
      <4>1. CASE m <= i
        BY <1>4, <3>2, <4>1
      <4>2. CASE m > i
        <5>1. j \in i + 2 .. n + 1 /\ j - 1 = m
          BY <1>1, <3>2, <4>2
        <5> QED BY <1>4, <5>1
      <4> QED BY <1>1, <4>1, <4>2
    <3> QED BY <1>5, <3>1, <3>3 DEF Range
  <2>3. new \in Range(b)
    <3>1. i + 1 \in DOMAIN b
      BY <1>1, <1>5
    <3> QED BY <1>4, <3>1 DEF Range
  <2> QED BY <2>1, <2>2, <2>3
<1>9. ASSUME NEW j \in 1 .. n + 1
      PROVE  next2[b[j]] = IF j = n + 1 THEN NULL ELSE b[j + 1]
  <2>1. CASE j = i
    <3>1. b[j] = a[i] /\ b[j + 1] = new /\ j # n + 1
      BY <1>1, <1>4, <2>1
    <3> QED BY <1>d, <3>1
  <2>2. CASE j = i + 1
    <3>1. b[j] = new /\ next2[new] = a[i + 1] /\ j # n + 1
      BY <1>d, <1>1, <1>2, <1>4, <2>2
    <3>2. j + 1 \in i + 2 .. n + 1 /\ j + 1 - 1 = i + 1
      BY <1>1, <2>2
    <3>3. b[j + 1] = a[i + 1]
      BY <1>4, <3>2
    <3> QED BY <3>1, <3>3
  <2>3. CASE j # i /\ j # i + 1
    <3>1. PICK m \in 1 .. n : m = (IF j <= i THEN j ELSE j - 1) /\ b[j] = a[m]
      BY <1>6, <2>3
    <3>2. next2[a[m]] = IF m = n THEN NULL ELSE a[m + 1]
      <4>1. m # i
        BY <1>1, <2>3, <3>1
      <4>2. a[m] \in Range(a) \ {a[i]}
        BY <1>1, <4>1
      <4>3. next2[a[m]] = next[a[m]]
        BY <1>d, <4>2
      <4> QED BY <1>2, <4>3
    <3>3. m = n <=> j = n + 1
      BY <1>1, <2>3, <3>1
    <3>4. j # n + 1 => b[j + 1] = a[m + 1]
      BY <1>1, <1>4, <2>3, <3>1
    <3> QED BY <3>1, <3>2, <3>3, <3>4
  <2> QED BY <2>1, <2>2, <2>3
<1>10. b[1] = semd_h /\ b[n + 1] = semd_hi /\ b # <<>>
  <2>1. 1 \in 1 .. i /\ n + 1 \in i + 2 .. n + 1 /\ n + 1 - 1 = n
    BY <1>1
  <2> QED BY <1>1, <1>4, <1>5, <2>1
<1>11. \A y \in Range(a) : key2[y] = key[y]
  BY <1>d
<1>12. \A j \in 1 .. n + 1 : j # i + 1 =>
         \E m \in 1 .. n : m = (IF j <= i THEN j ELSE j - 1) /\ key2[b[j]] = key[a[m]]
  <2>1. \A m \in 1 .. n : key2[a[m]] = key[a[m]]
    BY <1>1, <1>11
  <2> QED BY <1>6, <2>1
<1>13. \A j, l \in 1 .. n + 1 : j < l => key2[b[j]] < key2[b[l]]
  <2>1. SUFFICES ASSUME NEW j \in 1 .. n + 1, NEW l \in 1 .. n + 1, j < l
                 PROVE  key2[b[j]] < key2[b[l]]
    OBVIOUS
  <2>2. key2[b[i + 1]] = k
    BY <1>d, <1>4
  <2>3. CASE j = i + 1
    <3>1. PICK m \in 1 .. n : m = l - 1 /\ key2[b[l]] = key[a[m]]
      BY <1>1, <1>12, <2>1, <2>3
    <3>2. m \in i + 1 .. Len(a)
      BY <1>n, <2>1, <2>3, <3>1
    <3> QED BY <1>d, <2>2, <2>3, <3>1, <3>2
  <2>4. CASE l = i + 1
    <3>1. PICK m \in 1 .. n : m = j /\ key2[b[j]] = key[a[m]]
      BY <1>1, <1>12, <2>1, <2>4
    <3>2. m \in 1 .. i
      BY <2>1, <2>4, <3>1
    <3> QED BY <1>d, <2>2, <2>4, <3>1, <3>2
  <2>5. CASE j # i + 1 /\ l # i + 1
    <3>1. PICK m \in 1 .. n : m = (IF j <= i THEN j ELSE j - 1) /\ key2[b[j]] = key[a[m]]
      BY <1>12, <2>5
    <3>2. PICK o \in 1 .. n : o = (IF l <= i THEN l ELSE l - 1) /\ key2[b[l]] = key[a[o]]
      BY <1>12, <2>5
    <3>3. m < o
      BY <1>1, <2>1, <2>5, <3>1, <3>2
    <3> QED BY <1>2, <3>1, <3>2, <3>3
  <2> QED BY <2>3, <2>4, <2>5
<1>14. \A j \in 2 .. n : key2[b[j]] \in Key
  <2>1. SUFFICES ASSUME NEW j \in 2 .. n PROVE key2[b[j]] \in Key
    OBVIOUS
  <2>2. CASE j = i + 1
    BY <1>d, <1>4, <2>2
  <2>3. CASE j # i + 1
    <3>1. PICK m \in 1 .. n : m = (IF j <= i THEN j ELSE j - 1) /\ key2[b[j]] = key[a[m]]
      BY <1>12, <2>3
    <3>2. m \in 2 .. n - 1
      BY <1>1, <2>3, <3>1
    <3> QED BY <1>2, <3>1, <3>2
  <2> QED BY <2>2, <2>3
<1>15. IsChain(next2, semd_h, b, Semd)
  BY <1>5, <1>7, <1>9, <1>10 DEF IsChain
<1>16. key2[semd_h] = 0 /\ key2[semd_hi] = MAXINT
  BY <1>2, <1>11
<1>17. IsActive(next2, key2, b)
  BY <1>5, <1>10, <1>13, <1>14, <1>15, <1>16 DEF IsActive
<1> QED BY <1>8, <1>17

\* The loop of insertBlocked stops at the descriptor of k, or where it belongs.
LEMMA PlaceLemma ==
  ASSUME Linked, NEW k \in Key
  PROVE  \E i \in 1 .. Len(Active) - 1 :
           /\ Place(k) = Active[i]
           /\ \/ s_semAdd[Place(k)] = k /\ Place(k) \in Descriptors
              \/ /\ \A j \in 1 .. i : s_semAdd[Active[j]] < k
                 /\ \A j \in i + 1 .. Len(Active) : k < s_semAdd[Active[j]]
<1>a. PICK a : a = Active
  OBVIOUS
<1>0. IsActive(s_next, s_semAdd, a)
  BY <1>a DEF Linked, Semds
<1>n. PICK n \in Nat : n = Len(a)
  BY <1>0, ActiveFacts
<1>1. /\ n > 1 /\ a[1] = semd_h /\ a[n] = semd_hi
      /\ \A i \in 1 .. n : a[i] \in Semd
      /\ \A i \in 2 .. n - 1 : a[i] \in InUse(a)
  BY <1>0, <1>n, ActiveFacts
<1>2. /\ \A i \in 1 .. n - 1 : s_next[a[i]] = a[i + 1]
      /\ \A i, j \in 1 .. n : i < j => s_semAdd[a[i]] < s_semAdd[a[j]]
      /\ s_semAdd[semd_h] = 0 /\ s_semAdd[semd_hi] = MAXINT
  BY <1>0, <1>n DEF IsActive, IsChain
<1>3. MAXINT \in Nat /\ k \in Nat /\ 0 < k /\ k < MAXINT
  BY KeyAssumption
<1>4. \A i \in 1 .. n : s_semAdd[a[i]] \in Nat
  <2>1. s_semAdd \in [Semd -> 0 .. MAXINT]
    BY DEF Linked, TypeOK
  <2> QED BY <1>1, <1>3, <2>1
<1>5. \A i \in 1 .. n - 1 :
        Stops(a[i], k) <=> \/ s_semAdd[a[i]] = k \/ s_semAdd[a[i + 1]] > k
                           \/ s_semAdd[a[i + 1]] = MAXINT
  BY <1>2 DEF Stops
<1> DEFINE T == {i \in 1 .. n - 1 : Stops(a[i], k)}
           First(i) == Stops(a[i], k) /\ \A j \in 1 .. i - 1 : ~Stops(a[j], k)
<1>6. \E i \in 1 .. n - 1 : First(i)
  <2>1. n - 1 \in T
    BY <1>1, <1>2, <1>5
  <2>2. PICK m \in T : \A i \in T : m <= i
    <3>1. T \subseteq Nat /\ T # {}
      BY <2>1
    <3> HIDE DEF T
    <3> QED BY <3>1, Smallest
  <2>3. \A j \in 1 .. m - 1 : j \notin T /\ j \in 1 .. n - 1
    BY <2>2
  <2> QED BY <2>2, <2>3
<1>7. PICK i \in 1 .. n - 1 : i = (CHOOSE x \in 1 .. n - 1 : First(x)) /\ First(i)
  <2> HIDE DEF First
  <2> QED BY <1>6
<1>8. Place(k) = a[i]
  BY <1>a, <1>n, <1>7 DEF Place
<1>9. CASE s_semAdd[a[i]] = k
  <2>1. i # 1
    BY <1>1, <1>2, <1>3, <1>9
  <2>2. a[i] \in InUse(a)
    BY <1>1, <2>1
  <2> QED BY <1>a, <1>n, <1>8, <1>9, <2>2, SearchNames
<1>10. CASE s_semAdd[a[i]] # k
  <2>1. s_semAdd[a[i + 1]] > k
    BY <1>3, <1>5, <1>7, <1>10
  <2>2. s_semAdd[a[i]] < k
    <3>1. CASE i = 1
      BY <1>1, <1>2, <1>3, <3>1
    <3>2. CASE i # 1
      <4>1. PICK j \in 1 .. n - 1 : j = i - 1 /\ j + 1 = i
        BY <3>2
      <4>2. ~Stops(a[j], k)
        BY <1>7, <4>1
      <4>3. ~(s_semAdd[a[i]] > k)
        BY <1>5, <4>1, <4>2
      <4> QED BY <1>3, <1>4, <1>10, <4>3
    <3> QED BY <3>1, <3>2
  <2>3. ASSUME NEW j \in 1 .. i PROVE s_semAdd[a[j]] < k
    <3>1. j \in 1 .. n /\ s_semAdd[a[j]] \in Nat /\ s_semAdd[a[i]] \in Nat
      BY <1>4
    <3>2. j < i => s_semAdd[a[j]] < s_semAdd[a[i]]
      BY <1>2, <3>1
    <3> QED BY <1>3, <2>2, <3>1, <3>2
  <2>4. ASSUME NEW j \in i + 1 .. n PROVE k < s_semAdd[a[j]]
    <3>1. j \in 1 .. n /\ s_semAdd[a[j]] \in Nat /\ s_semAdd[a[i + 1]] \in Nat
      BY <1>4
    <3>2. i + 1 < j => s_semAdd[a[i + 1]] < s_semAdd[a[j]]
      BY <1>2, <3>1
    <3> QED BY <1>3, <2>1, <3>1, <3>2
  <2> QED BY <1>a, <1>n, <1>8, <2>3, <2>4
<1> QED BY <1>9, <1>10

\* The types of what asl.c keeps.
AslTyped ==
  /\ IsLink(s_next, Semd)
  /\ s_semAdd \in [Semd -> 0 .. MAXINT]
  /\ s_procQ \in [Semd -> Maybe(Pcb)]
  /\ semdFree_h \in Maybe(Semd)

\* What the lists of descriptors say in a state.
LEMMA SemdFacts ==
  ASSUME Linked
  PROVE  /\ AslTyped
         /\ IsActive(s_next, s_semAdd, Active)
         /\ IsChain(s_next, semdFree_h, FreeSemds, Semd)
         /\ \A d \in InUse(Active) : s_procQ[d] \in Pcb /\ s_procQ[d] # NULL /\ d \in Semd
         /\ \A d \in Range(FreeSemds) : d \in Semd /\ d \notin Range(Active)
<1>1. AslTyped
  BY LinksTyped DEF Linked, TypeOK, AslTyped
<1>2. /\ IsActive(s_next, s_semAdd, Active)
      /\ IsChain(s_next, semdFree_h, FreeSemds, Semd)
      /\ \A d \in Range(FreeSemds) : d \notin Range(Active)
      /\ \A d \in InUse(Active) : s_procQ[d] # NULL
  BY SearchNames DEF Linked, Semds
<1>3. \A d \in InUse(Active) : d \in Semd
  BY <1>2, ActiveFacts
<1>4. \A d \in InUse(Active) : s_procQ[d] \in Pcb
  BY <1>1, <1>2, <1>3 DEF AslTyped, Maybe
<1>5. \A d \in Range(FreeSemds) : d \in Semd
  BY <1>2, ChainFacts
<1> QED BY <1>1, <1>2, <1>3, <1>4, <1>5

\* The new tail of the queue of a descriptor; without one the descriptor is freed.
LEMMA SetTailStep ==
  ASSUME Linked, NEW k \in Key, NEW d, d = SemdOf(k), d # NULL, NEW tp \in Maybe(Pcb),
         SetTail(d, tp)
  PROVE  /\ AslTyped' /\ Semds'
         /\ TailOf(k)' = tp
         /\ \A k2 \in Key \ {k} : TailOf(k2)' = TailOf(k2)
<1>a. PICK a : a = Active
  OBVIOUS
<1>f. PICK f : f = FreeSemds
  OBVIOUS
<1>1. /\ s_procQ' = [s_procQ EXCEPT ![d] = tp] /\ s_semAdd' = s_semAdd
      /\ tp # NULL => s_next' = s_next /\ semdFree_h' = semdFree_h
      /\ tp = NULL =>
           /\ s_next' = [s_next EXCEPT ![Previous(d)] = s_next[d], ![d] = semdFree_h]
           /\ semdFree_h' = d
  BY DEF SetTail
<1>2. /\ AslTyped /\ IsActive(s_next, s_semAdd, a)
      /\ IsChain(s_next, semdFree_h, f, Semd)
      /\ \A x \in InUse(a) : s_procQ[x] \in Pcb /\ s_procQ[x] # NULL /\ x \in Semd
      /\ \A x \in Range(f) : x \in Semd /\ x \notin Range(a)
      /\ Range(a) \cup Range(f) = Semd
  BY <1>a, <1>f, SemdFacts DEF Linked, Semds
<1>3. d \in InUse(a) /\ s_semAdd[d] = k /\ d \in Semd /\ d \in Range(a)
  BY <1>a, <1>2, SearchLemma, SearchNames DEF InUse
<1>4. \A k2 \in Key \ {k} :
        SemdOf(k2) # NULL => SemdOf(k2) \in InUse(a) /\ SemdOf(k2) \in Semd /\ SemdOf(k2) # d
  BY <1>a, <1>2, <1>3, SearchLemma, SearchNames
<1>5. /\ s_procQ' \in [Semd -> Maybe(Pcb)] /\ s_procQ'[d] = tp
      /\ \A x \in Semd : x # d => s_procQ'[x] = s_procQ[x]
  BY <1>1, <1>2, <1>3 DEF AslTyped
<1>6. CASE tp # NULL
  <2>1. Active' = Active /\ FreeSemds' = FreeSemds
    BY <1>1, <1>6 DEF Active, FreeSemds
  <2>2. \A k2 : SemdOf(k2)' = SemdOf(k2)
    BY <1>1, <2>1, SearchNames
  <2>3. AslTyped'
    BY <1>1, <1>2, <1>5, <1>6 DEF AslTyped
  <2>4. \A x \in InUse(a) : s_procQ'[x] # NULL
    BY <1>2, <1>5, <1>6
  <2>5. Semds'
    <3>1. Descriptors' = InUse(a)
      BY <1>a, <2>1, SearchNames
    <3> QED BY <1>a, <1>f, <1>1, <1>2, <1>6, <2>1, <2>4, <3>1 DEF Semds
  <2>6. TailOf(k)' = tp
    BY <1>5, <1>6, <2>2, SearchNames
  <2>7. \A k2 \in Key \ {k} : TailOf(k2)' = TailOf(k2)
    BY <1>4, <1>5, <2>2, SearchNames
  <2> QED BY <2>3, <2>5, <2>6, <2>7
<1>7. CASE tp = NULL
  <2>1. PICK e : e = Previous(d)
    OBVIOUS
  <2>2. e \in Range(a) /\ s_next[e] = d /\ e # d
    <3>1. PICK m \in 2 .. Len(a) - 1 : d = a[m]
      BY <1>2, <1>3, ActiveFacts
    <3>2. PICK i \in 1 .. Len(a) : i = m - 1 /\ i + 1 = m /\ i # Len(a)
      BY <1>2, ActiveFacts
    <3>3. a[i] \in Range(a) /\ s_next[a[i]] = d
      <4>1. a[i] \in Range(a)
        BY <1>2, ActiveFacts
      <4>2. s_next[a[i]] = a[i + 1]
        BY <1>2, <3>2 DEF IsActive, IsChain
      <4> QED BY <3>1, <3>2, <4>1, <4>2
    <3>4. e \in Range(a) /\ s_next[e] = d
      BY <1>a, <2>1, <3>3 DEF Previous
    <3>5. s_next[d] # d
      <4>1. m \in 1 .. Len(a) /\ m # Len(a) /\ m + 1 \in 1 .. Len(a)
        BY <1>2, ActiveFacts
      <4>2. s_next[a[m]] = a[m + 1]
        BY <1>2, <4>1 DEF IsActive, IsChain
      <4>3. a[m + 1] # a[m]
        BY <1>2, <4>1, ActiveFacts
      <4> QED BY <3>1, <4>2, <4>3
    <3> QED BY <3>4, <3>5
  <2>3. e \in Semd
    BY <1>2, <2>2
  <2>4. /\ IsLink(s_next', Semd) /\ s_next'[d] = semdFree_h
        /\ \A x \in Semd \ {d} : s_next'[x] = IF x = e THEN s_next[d] ELSE s_next[x]
    BY <1>1, <1>2, <1>3, <1>7, <2>1, <2>2, <2>3 DEF AslTyped, IsLink, Maybe
  <2>5. /\ IsActive(s_next', s_semAdd', Unlink(a, d))
        /\ Range(Unlink(a, d)) = Range(a) \ {d}
    <3>1. \A x \in Range(a) \ {d} : s_next'[x] = IF x = e THEN s_next[d] ELSE s_next[x]
      BY <1>2, <2>4
    <3>2. IsActive(s_next, s_semAdd, a) /\ d \in InUse(a) /\ e \in Range(a) /\ s_next[e] = d
      BY <1>2, <1>3, <2>2
    <3>3. /\ IsActive(s_next', s_semAdd, Unlink(a, d))
          /\ Range(Unlink(a, d)) = Range(a) \ {d}
      BY <3>1, <3>2, ActiveCut
    <3> QED BY <1>1, <3>3
  <2>6. PICK b : b = Unlink(a, d)
    OBVIOUS
  <2>7. Active' = b
    BY <2>4, <2>5, <2>6, ActiveReads DEF Active
  <2>8. InUse(b) = InUse(a) \ {d}
    BY <1>3, <2>5, <2>6 DEF InUse
  <2>9. /\ IsChain(s_next', d, InsertChild(f, d), Semd)
        /\ Range(InsertChild(f, d)) = Range(f) \cup {d}
    <3>1. d \in Semd \ Range(f) /\ \A x \in Range(f) : x \in Semd \ {d} /\ x # e
      BY <1>2, <1>3, <2>2
    <3>2. \A x \in Range(f) : s_next'[x] = s_next[x]
      BY <2>4, <3>1
    <3>3. IsChain(s_next', semdFree_h, f, Semd)
      BY <1>2, <3>2, ChainKept
    <3>4. IsListOf(f, Semd)
      BY <1>2 DEF IsChain
    <3> QED BY <2>4, <3>1, <3>3, <3>4, ChainPush, InsertChildLemma
  <2>10. FreeSemds' = InsertChild(f, d) /\ semdFree_h' = d
    BY <1>1, <1>7, <2>4, <2>9, ChainReads DEF FreeSemds
  <2>11. AslTyped'
    BY <1>1, <1>2, <1>3, <1>5, <2>4, <2>10 DEF AslTyped, Maybe
  <2>12. Semds'
    <3>1. \A x \in InUse(b) : s_procQ'[x] # NULL
      BY <1>2, <1>5, <2>8
    <3>2. Descriptors' = InUse(b)
      BY <2>7, SearchNames
    <3>3. Range(b) \cap Range(InsertChild(f, d)) = {}
      BY <1>2, <2>5, <2>6, <2>9
    <3>4. Range(b) \cup Range(InsertChild(f, d)) = Semd
      BY <1>2, <1>3, <2>5, <2>6, <2>9
    <3> QED BY <2>5, <2>6, <2>7, <2>9, <2>10, <3>1, <3>2, <3>3, <3>4 DEF Semds
  <2>13. SemdOf(k)' = NULL
    <3>1. SUFFICES ASSUME SemdOf(k)' # NULL PROVE FALSE
      OBVIOUS
    <3>2. SemdOf(k)' \in InUse(b) /\ s_semAdd[SemdOf(k)'] = k
      BY <1>1, <2>5, <2>6, <2>7, <3>1, SearchLemma, SearchNames
    <3>3. SemdOf(k)' = d
      BY <1>a, <1>2, <2>8, <3>2, SearchLemma, SearchNames
    <3> QED BY <2>8, <3>2, <3>3
  <2>14. ASSUME NEW k2 \in Key \ {k} PROVE SemdOf(k2)' = SemdOf(k2)
    <3>1. \A x : x \in InUse(a) /\ s_semAdd[x] = k2 <=> x \in InUse(b) /\ s_semAdd'[x] = k2
      BY <1>1, <1>3, <2>8
    <3>2. IsActive(s_next, s_semAdd, a) /\ IsActive(s_next', s_semAdd', b)
      BY <1>2, <2>5, <2>6
    <3>3. Search(s_semAdd, a, k2) = Search(s_semAdd', b, k2)
      BY <3>1, <3>2, SearchAgrees
    <3> QED BY <1>a, <2>7, <3>3, SearchNames
  <2>15. TailOf(k)' = tp
    BY <1>7, <2>13, SearchNames
  <2>16. \A k2 \in Key \ {k} : TailOf(k2)' = TailOf(k2)
    BY <1>4, <1>5, <2>14, SearchNames
  <2> QED BY <2>11, <2>12, <2>15, <2>16
<1> QED BY <1>6, <1>7

\* A free descriptor gets the semaphore k and is put where it belongs.
LEMMA NewSemdStep ==
  ASSUME Linked, NEW k \in Key, NEW p \in Pcb, NEW new, new = semdFree_h, new # NULL,
         s_semAdd[Place(k)] # k,
         semdFree_h' = s_next[new],
         s_next' = [s_next EXCEPT ![new] = s_next[Place(k)], ![Place(k)] = new],
         s_procQ' = [s_procQ EXCEPT ![new] = p],
         s_semAdd' = [s_semAdd EXCEPT ![new] = k]
  PROVE  /\ TailOf(k) = NULL
         /\ AslTyped' /\ Semds'
         /\ TailOf(k)' = p
         /\ \A k2 \in Key \ {k} : TailOf(k2)' = TailOf(k2)
<1>a. PICK a : a = Active
  OBVIOUS
<1>f. PICK f : f = FreeSemds
  OBVIOUS
<1>1. /\ AslTyped /\ IsActive(s_next, s_semAdd, a)
      /\ IsChain(s_next, new, f, Semd)
      /\ \A x \in InUse(a) : s_procQ[x] \in Pcb /\ s_procQ[x] # NULL /\ x \in Semd
      /\ \A x \in Range(f) : x \in Semd /\ x \notin Range(a)
      /\ Range(a) \cup Range(f) = Semd
  BY <1>a, <1>f, SemdFacts DEF Linked, Semds
<1>2. /\ new \in Range(f) /\ new \in Semd /\ new \notin Range(a)
      /\ IsChain(s_next, s_next[new], RemoveProcQ(f), Semd)
      /\ Range(RemoveProcQ(f)) = Range(f) \ {new}
  <2>1. f # <<>>
    BY <1>1, ChainFacts
  <2> QED BY <1>1, <2>1, ChainPop
<1>3. PICK i \in 1 .. Len(a) - 1 :
        /\ Place(k) = a[i]
        /\ \A j \in 1 .. i : s_semAdd[a[j]] < k
        /\ \A j \in i + 1 .. Len(a) : k < s_semAdd[a[j]]
  BY <1>a, PlaceLemma
<1>4. /\ i \in 1 .. Len(a) /\ a[i] \in Range(a) /\ a[i] \in Semd /\ a[i] # new
      /\ semd_h # new /\ semd_hi # new
  <2>1. /\ Len(a) \in Nat /\ Len(a) > 1 /\ a[1] = semd_h /\ a[Len(a)] = semd_hi
        /\ \A j \in 1 .. Len(a) : a[j] \in Range(a) /\ a[j] \in Semd
    BY <1>1, ActiveFacts
  <2>2. i \in 1 .. Len(a) /\ 1 \in 1 .. Len(a) /\ Len(a) \in 1 .. Len(a)
    BY <2>1
  <2> QED BY <1>2, <2>1, <2>2
<1>5. /\ IsLink(s_next', Semd) /\ s_next'[new] = s_next[a[i]] /\ s_next'[a[i]] = new
      /\ \A x \in Semd : x # new /\ x # a[i] => s_next'[x] = s_next[x]
  BY <1>1, <1>2, <1>3, <1>4 DEF AslTyped, IsLink, Maybe
<1>6. /\ s_semAdd' \in [Semd -> 0 .. MAXINT] /\ s_semAdd'[new] = k
      /\ \A x \in Semd : x # new => s_semAdd'[x] = s_semAdd[x]
  <2>1. k \in 0 .. MAXINT
    BY KeyAssumption
  <2> QED BY <1>1, <1>2, <2>1 DEF AslTyped
<1>7. /\ s_procQ' \in [Semd -> Maybe(Pcb)] /\ s_procQ'[new] = p
      /\ \A x \in Semd : x # new => s_procQ'[x] = s_procQ[x]
  BY <1>1, <1>2 DEF AslTyped, Maybe
<1>8. \A x \in Range(a) : x \in Semd /\ x # new
  BY <1>1, <1>2
<1>x. PICK next : next = s_next'
  OBVIOUS
<1>y. PICK key : key = s_semAdd'
  OBVIOUS
<1>b. PICK b : IsActive(next, key, b) /\ Range(b) = Range(a) \cup {new}
  <2>1. \A y \in Range(a) \ {a[i]} : next[y] = s_next[y]
    BY <1>x, <1>5, <1>8
  <2>2. \A y \in Range(a) : key[y] = s_semAdd[y]
    BY <1>y, <1>6, <1>8
  <2>3. IsActive(s_next, s_semAdd, a) /\ new \in Semd \ Range(a)
    BY <1>1, <1>2
  <2>4. next[new] = s_next[a[i]] /\ next[a[i]] = new /\ key[new] = k
    BY <1>x, <1>y, <1>5, <1>6
  <2>5. IsInserted(s_next, s_semAdd, a, i, new, k, next, key)
    BY <1>3, <2>1, <2>2, <2>4 DEF IsInserted
  <2> QED BY <2>3, <2>5, ActiveInsert
<1>9. IsActive(s_next', s_semAdd', b) /\ Range(b) = Range(a) \cup {new}
  BY <1>x, <1>y, <1>b
<1>10. Active' = b
  BY <1>5, <1>9, ActiveReads DEF Active
<1>11. InUse(b) = InUse(a) \cup {new}
  BY <1>4, <1>9 DEF InUse
<1>12. /\ FreeSemds' = RemoveProcQ(f)
       /\ IsChain(s_next', semdFree_h', RemoveProcQ(f), Semd)
  <2>1. \A y \in Range(RemoveProcQ(f)) : y \in Semd /\ y # new /\ y # a[i]
    BY <1>1, <1>2, <1>4
  <2>2. \A y \in Range(RemoveProcQ(f)) : s_next'[y] = s_next[y]
    BY <1>5, <2>1
  <2>3. IsChain(s_next', s_next[new], RemoveProcQ(f), Semd)
    BY <1>2, <2>2, ChainKept
  <2> QED BY <1>5, <2>3, ChainReads DEF FreeSemds
<1>13. AslTyped'
  <2>1. semdFree_h' \in Maybe(Semd)
    BY <1>1, <1>2 DEF AslTyped, IsLink
  <2> QED BY <1>5, <1>6, <1>7, <2>1 DEF AslTyped
<1>14. Semds'
  <2>1. \A x \in InUse(b) : s_procQ'[x] # NULL
    BY <1>1, <1>7, <1>11, Sizes
  <2>2. Descriptors' = InUse(b)
    BY <1>10, SearchNames
  <2>3. Range(b) \cap Range(RemoveProcQ(f)) = {}
    BY <1>1, <1>2, <1>9
  <2>4. Range(b) \cup Range(RemoveProcQ(f)) = Semd
    BY <1>1, <1>2, <1>9
  <2> QED BY <1>9, <1>10, <1>12, <2>1, <2>2, <2>3, <2>4 DEF Semds
<1>15. SemdOf(k) = NULL
  <2>1. SUFFICES ASSUME SemdOf(k) # NULL PROVE FALSE
    OBVIOUS
  <2>2. SemdOf(k) \in InUse(a) /\ s_semAdd[SemdOf(k)] = k
    BY <1>a, <1>1, <2>1, SearchLemma, SearchNames
  <2>3. PICK j \in 2 .. Len(a) - 1 : SemdOf(k) = a[j]
    BY <1>1, <2>2, ActiveFacts
  <2>4. k < k
    <3>1. Len(a) \in Nat
      BY <1>1, ActiveFacts
    <3>2. CASE j <= i
      <4>1. j \in 1 .. i
        BY <3>1, <3>2
      <4> QED BY <1>3, <2>2, <2>3, <4>1
    <3>3. CASE j > i
      <4>1. j \in i + 1 .. Len(a)
        BY <3>1, <3>3
      <4> QED BY <1>3, <2>2, <2>3, <4>1
    <3> QED BY <3>2, <3>3
  <2>5. k \in Nat
    BY KeyAssumption
  <2> QED BY <2>4, <2>5
<1>16. SemdOf(k)' = new
  <2>1. new \in InUse(b) /\ key[new] = k
    BY <1>y, <1>6, <1>11
  <2>2. Search(key, b, k) = new
    BY <1>b, <2>1, SearchLemma
  <2> QED BY <1>y, <1>10, <2>2, SearchNames
<1>17. ASSUME NEW k2 \in Key \ {k} PROVE TailOf(k2)' = TailOf(k2)
  <2>1. \A x : x \in InUse(a) /\ s_semAdd[x] = k2 <=> x \in InUse(b) /\ s_semAdd'[x] = k2
    <3>1. \A x \in InUse(a) : s_semAdd'[x] = s_semAdd[x]
      BY <1>6, <1>8 DEF InUse
    <3> QED BY <1>6, <1>11, <3>1
  <2>2. Search(s_semAdd, a, k2) = Search(key, b, k2)
    <3>1. \A x : x \in InUse(a) /\ s_semAdd[x] = k2 <=> x \in InUse(b) /\ key[x] = k2
      BY <1>y, <2>1
    <3> QED BY <1>1, <1>b, <3>1, SearchAgrees
  <2>3. SemdOf(k2)' = SemdOf(k2)
    BY <1>a, <1>y, <1>10, <2>2, SearchNames
  <2>4. SemdOf(k2) # NULL => SemdOf(k2) \in Semd /\ SemdOf(k2) # new
    <3>1. SemdOf(k2) # NULL => SemdOf(k2) \in InUse(a)
      BY <1>a, <1>1, SearchLemma, SearchNames
    <3> QED BY <1>1, <1>8, <3>1 DEF InUse
  <2> QED BY <1>7, <2>3, <2>4, SearchNames
<1>18. TailOf(k)' = p
  BY <1>2, <1>7, <1>16, Sizes, SearchNames
<1> QED BY <1>13, <1>14, <1>15, <1>17, <1>18, SearchNames

\* There are as many descriptors as PCBs, and none is in use without a process:
\* while the caller has a PCB, a descriptor is free.
LEMMA SemdFree ==
  ASSUME Linked, NEW p \in held
  PROVE  semdFree_h # NULL
<1> SUFFICES ASSUME semdFree_h = NULL PROVE FALSE
  OBVIOUS
<1>a. PICK a : a = Active
  OBVIOUS
<1>1. /\ IsActive(s_next, s_semAdd, a) /\ Range(a) = Semd
      /\ \A d \in InUse(a) : s_procQ[d] \in Pcb /\ s_procQ[d] # NULL
  <2>1. FreeSemds = <<>>
    BY SemdFacts, ChainFacts
  <2>2. Range(FreeSemds) = {}
    BY <2>1, EmptyList
  <2> QED BY <1>a, <2>2, SemdFacts DEF Linked, Semds
<1>2. ASSUME NEW d \in InUse(a)
      PROVE  p_semAdd[s_procQ[d]] = s_semAdd[d] /\ s_semAdd[d] \in Key
  <2>1. s_semAdd[d] \in Key /\ SemdOf(s_semAdd[d]) = d /\ d # NULL
    <3>1. NULL \notin InUse(a) /\ s_semAdd[d] \in Key
      BY <1>1, <1>2, ActiveFacts
    <3>2. Search(s_semAdd, a, s_semAdd[d]) = d
      BY <1>1, <1>2, <3>1, SearchLemma
    <3> QED BY <1>a, <1>2, <3>1, <3>2, SearchNames
  <2>2. TailOf(s_semAdd[d]) = s_procQ[d]
    BY <2>1, SearchNames
  <2>3. IsRing(p_next, p_prev, s_procQ[d], BlockedOn(s_semAdd[d]))
    BY <2>1, <2>2 DEF Linked, Rings
  <2>4. s_procQ[d] \in Range(BlockedOn(s_semAdd[d]))
    BY <1>1, <1>2, <2>3, RingFacts
  <2> QED BY <2>1, <2>4 DEF Linked, Apart
<1>3. p \in Pcb /\ p_semAdd[p] = NULL
  BY DEF Linked, TypeOK, Apart
<1>4. PICK f : f = [d \in InUse(a) |-> s_procQ[d]]
  OBVIOUS
<1>5. f \in [InUse(a) -> Pcb \ {p}]
  <2>1. \A d \in InUse(a) : s_procQ[d] \in Pcb \ {p}
    BY <1>1, <1>2, <1>3, NullAssumption
  <2> QED BY <1>4, <2>1
<1>6. IsFiniteSet(Pcb \ {p}) /\ Cardinality(Pcb \ {p}) = MAXPROC - 1
  BY <1>3, Sizes, FS_RemoveElement
<1>7. IsFiniteSet(InUse(a)) /\ Cardinality(InUse(a)) = MAXPROC
  <2>1. semd_h \in Semd /\ semd_hi \in Semd /\ semd_h # semd_hi
    BY SizeAssumption DEF semd_h, semd_hi, Semd
  <2>2. IsFiniteSet(Semd \ {semd_h}) /\ Cardinality(Semd \ {semd_h}) = MAXPROC + 1
    <3>1. IsFiniteSet(Semd) /\ Cardinality(Semd) = MAXPROC + 2
      BY Sizes
    <3>2. IsFiniteSet(Semd \ {semd_h}) /\ Cardinality(Semd \ {semd_h}) = Cardinality(Semd) - 1
      BY <2>1, <3>1, FS_RemoveElement
    <3> QED BY <3>1, <3>2, SizeAssumption
  <2>3. PICK T : T = Semd \ {semd_h}
    OBVIOUS
  <2>4. IsFiniteSet(T \ {semd_hi}) /\ Cardinality(T \ {semd_hi}) = Cardinality(T) - 1
    <3>1. IsFiniteSet(T) /\ semd_hi \in T
      BY <2>1, <2>2, <2>3
    <3> QED BY <3>1, FS_RemoveElement
  <2>5. InUse(a) = T \ {semd_hi}
    BY <1>1, <2>3 DEF InUse
  <2> QED BY <2>2, <2>3, <2>4, <2>5, SizeAssumption
<1>8. PICK x \in InUse(a), y \in InUse(a) : x # y /\ f[x] = f[y]
  <2>1. Cardinality(Pcb \ {p}) < Cardinality(InUse(a))
    BY <1>6, <1>7, SizeAssumption
  <2> QED BY <1>5, <1>6, <1>7, <2>1, FS_PigeonHole
<1>9. s_semAdd[x] = s_semAdd[y] /\ s_semAdd[x] \in Key
  BY <1>2, <1>4, <1>8
<1>10. Search(s_semAdd, a, s_semAdd[x]) = x /\ Search(s_semAdd, a, s_semAdd[x]) = y
  BY <1>1, <1>9, SearchLemma
<1> QED BY <1>8, <1>10

\* Who is where, by p_semAdd.
LEMMA BlockedFacts ==
  ASSUME Linked
  PROVE  /\ \A k \in Key : IsRing(p_next, p_prev, TailOf(k), BlockedOn(k))
         /\ \A k \in Key : Range(BlockedOn(k)) = {x \in Pcb : p_semAdd[x] = k}
         /\ \A x \in FreePcbs \cup held \cup Range(QueueOf(R_Queue)) :
              x \in Pcb /\ p_semAdd[x] = NULL
         /\ NULL \notin Key
         /\ FreePcbs \cap held = {} /\ FreePcbs \cap Range(QueueOf(R_Queue)) = {}
         /\ held \cap Range(QueueOf(R_Queue)) = {}
<1>1. Rings /\ Apart /\ held \subseteq Pcb
  BY DEF Linked, TypeOK
<1>2. \A x \in FreePcbs : x \in Pcb
  BY <1>1, ChainFacts, QueueNames DEF Rings
<1>3. \A x \in Range(QueueOf(R_Queue)) : x \in Pcb
  BY <1>1, RingFacts DEF Rings
<1> QED BY <1>1, <1>2, <1>3, NullAssumption DEF Rings, Apart

\* What an operation on the queue of k leaves when p joins or leaves it.
LEMMA BlockedChanged ==
  ASSUME Linked, UNCHANGED <<tree, pcbFree_h, R_Queue>>, AslTyped', Semds',
         NEW k \in Key, NEW p \in Pcb, NEW r, IsRing(p_next', p_prev', TailOf(k)', r),
         \A k2 \in Key \ {k} : TailOf(k2)' = TailOf(k2),
         IsLink(p_next', Pcb), IsLink(p_prev', Pcb),
         OnlyLinksOf(Range(BlockedOn(k)) \cup {p}),
         \/ /\ p \in held /\ held' = held \ {p}
            /\ p_semAdd' = [p_semAdd EXCEPT ![p] = k]
            /\ Range(r) = Range(BlockedOn(k)) \cup {p}
         \/ /\ p \in Range(BlockedOn(k)) /\ held' = held \cup {p}
            /\ p_semAdd' = [p_semAdd EXCEPT ![p] = NULL]
            /\ Range(r) = Range(BlockedOn(k)) \ {p}
  PROVE  /\ Linked'
         /\ FreePcbs' = FreePcbs /\ Children' = Children
         /\ QueueOf(R_Queue)' = QueueOf(R_Queue)
         /\ Blocked' = [Blocked EXCEPT ![k] = r]
<1>1. /\ \A k2 \in Key : Range(BlockedOn(k2)) = {x \in Pcb : p_semAdd[x] = k2}
      /\ \A x \in FreePcbs \cup held \cup Range(QueueOf(R_Queue)) :
           x \in Pcb /\ p_semAdd[x] = NULL
      /\ NULL \notin Key
      /\ FreePcbs \cap held = {} /\ FreePcbs \cap Range(QueueOf(R_Queue)) = {}
      /\ held \cap Range(QueueOf(R_Queue)) = {}
      /\ p_semAdd \in [Pcb -> Maybe(Key)] /\ held \subseteq Pcb
  BY BlockedFacts DEF Linked, TypeOK
<1>2. /\ p \notin FreePcbs /\ p \notin Range(QueueOf(R_Queue))
      /\ p \in held \/ p_semAdd[p] = k
      /\ \A x \in Pcb : x # p => p_semAdd'[x] = p_semAdd[x]
      /\ p_semAdd' \in [Pcb -> Maybe(Key)]
      /\ held' \subseteq Pcb /\ \A x \in Pcb : x # p => (x \in held' <=> x \in held)
      /\ p \in held' => p_semAdd'[p] = NULL
      /\ Range(r) = {x \in Pcb : p_semAdd'[x] = k}
      /\ p_semAdd'[p] = k \/ p_semAdd'[p] = NULL
  <2>1. CASE p \in held /\ held' = held \ {p} /\ p_semAdd' = [p_semAdd EXCEPT ![p] = k]
             /\ Range(r) = Range(BlockedOn(k)) \cup {p}
    BY <1>1, <2>1 DEF Maybe
  <2>2. CASE p \in Range(BlockedOn(k)) /\ held' = held \cup {p}
             /\ p_semAdd' = [p_semAdd EXCEPT ![p] = NULL]
             /\ Range(r) = Range(BlockedOn(k)) \ {p}
    BY <1>1, <2>2 DEF Maybe
  <2> QED BY <2>1, <2>2
<1>3. PICK S : S = Range(BlockedOn(k)) \cup {p}
  OBVIOUS
<1>4. /\ FreePcbs \cap S = {} /\ Range(QueueOf(R_Queue)) \cap S = {}
      /\ \A k2 \in Key \ {k} : Range(BlockedOn(k2)) \cap S = {}
  BY <1>1, <1>2, <1>3
<1>5. OnlyLinksOf(S) /\ pcbFree_h' = pcbFree_h /\ R_Queue' = R_Queue
  BY <1>3
<1>6. FreePcbs' = FreePcbs /\ IsChain(p_next', pcbFree_h', FreeList', Pcb)
  BY <1>4, <1>5, FreeKept
<1>7. /\ QueueOf(R_Queue)' = QueueOf(R_Queue)
      /\ IsRing(p_next', p_prev', R_Queue', QueueOf(R_Queue)')
  BY <1>4, <1>5, ReadyKept
<1>8. \A k2 \in Key \ {k} : /\ BlockedOn(k2)' = BlockedOn(k2)
                            /\ IsRing(p_next', p_prev', TailOf(k2)', BlockedOn(k2)')
  BY <1>4, <1>5, BlockedKept
<1>9. BlockedOn(k)' = r
  BY QueueReads, QueueNames
<1>10. Blocked' = [Blocked EXCEPT ![k] = r]
  BY <1>8, <1>9 DEF Blocked
<1>11. Families' /\ Children' = Children
  BY <1>6, TreeKept
<1>12. Rings'
  BY <1>6, <1>7, <1>8, <1>9 DEF Rings
<1>13. Apart'
  <2>1. \A k2 \in Key : Range(BlockedOn(k2)') = {x \in Pcb : p_semAdd'[x] = k2}
    <3>1. SUFFICES ASSUME NEW k2 \in Key
                   PROVE  Range(BlockedOn(k2)') = {x \in Pcb : p_semAdd'[x] = k2}
      OBVIOUS
    <3>2. CASE k2 = k
      BY <1>2, <1>9, <3>2
    <3>3. CASE k2 # k
      <4>1. Range(BlockedOn(k2)') = {x \in Pcb : p_semAdd[x] = k2}
        BY <1>1, <1>8, <3>3
      <4>2. p_semAdd[p] # k2 /\ p_semAdd'[p] # k2
        BY <1>1, <1>2, <3>3
      <4> QED BY <1>2, <4>1, <4>2
    <3> QED BY <3>2, <3>3
  <2>2. \A x \in FreePcbs' \cup held' \cup Range(QueueOf(R_Queue)') : p_semAdd'[x] = NULL
    BY <1>1, <1>2, <1>6, <1>7
  <2>3. /\ FreePcbs' \cap held' = {} /\ FreePcbs' \cap Range(QueueOf(R_Queue)') = {}
        /\ held' \cap Range(QueueOf(R_Queue)') = {}
    BY <1>1, <1>2, <1>6, <1>7
  <2> QED BY <2>1, <2>2, <2>3 DEF Apart
<1>14. TypeOK'
  <2>1. AslTyped' => /\ s_next' \in [Semd -> Maybe(Semd)]
                     /\ s_semAdd' \in [Semd -> 0 .. MAXINT]
                     /\ s_procQ' \in [Semd -> Maybe(Pcb)]
                     /\ semdFree_h' \in Maybe(Semd)
    BY DEF AslTyped, IsLink
  <2>2. p_next' \in [Pcb -> Maybe(Pcb)] /\ p_prev' \in [Pcb -> Maybe(Pcb)]
    BY DEF IsLink
  <2>3. /\ {p_prnt, p_child, p_next_sib, p_prev_sib} \subseteq [Pcb -> Maybe(Pcb)]
        /\ {pcbFree_h, R_Queue} \subseteq Maybe(Pcb)
    BY DEF Linked, TypeOK
  <2> QED BY <1>2, <1>5, <2>1, <2>2, <2>3 DEF TypeOK, tree
<1> QED BY <1>6, <1>7, <1>10, <1>11, <1>12, <1>13, <1>14 DEF Linked

\* insertBlocked puts p at the end of the queue of k, and never lacks a descriptor.
LEMMA InsertBlockedStep ==
  ASSUME Linked, NEW k \in Key, NEW p \in Pcb, insertBlocked(k, p)
  PROVE  /\ Linked'
         /\ p \in held /\ held' = held \ {p}
         /\ FreePcbs' = FreePcbs /\ Children' = Children
         /\ QueueOf(R_Queue)' = QueueOf(R_Queue)
         /\ Blocked' = [Blocked EXCEPT ![k] = InsertProcQ(BlockedOn(k), p)]
<1>q. PICK q : q = BlockedOn(k)
  OBVIOUS
<1>d. PICK d : d = Place(k)
  OBVIOUS
<1>w. PICK new : new = semdFree_h
  OBVIOUS
<1>1. p \in held /\ held' = held \ {p} /\ UNCHANGED <<tree, pcbFree_h, R_Queue>>
  BY DEF insertBlocked, Give
<1>2. new # NULL
  BY <1>w, <1>1, SemdFree
<1>3. /\ IsRing(p_next, p_prev, TailOf(k), q) /\ p \notin Range(q)
      /\ IsListOf(q, Pcb)
  <2>1. IsRing(p_next, p_prev, TailOf(k), q) /\ p \notin Range(q)
    BY <1>q, <1>1, BlockedFacts
  <2> QED BY <2>1, RingFacts
<1>4. /\ InsertLinks(TailOf(k), p) /\ p_semAdd' = [p_semAdd EXCEPT ![p] = k]
      /\ AslTyped' /\ Semds' /\ TailOf(k)' = p
      /\ \A k2 \in Key \ {k} : TailOf(k2)' = TailOf(k2)
  <2>1. CASE s_semAdd[d] = k
    <3>1. /\ InsertLinks(s_procQ[d], p)
          /\ s_procQ' = [s_procQ EXCEPT ![d] = p]
          /\ p_semAdd' = [p_semAdd EXCEPT ![p] = k]
          /\ UNCHANGED <<s_next, s_semAdd, semdFree_h>>
      BY <1>d, <2>1 DEF insertBlocked
    <3>2. d \in InUse(Active)
      <4>1. PICK i \in 1 .. Len(Active) - 1 :
              /\ d = Active[i]
              /\ \/ d \in Descriptors
                 \/ \A j \in 1 .. i : s_semAdd[Active[j]] < k
        BY <1>d, PlaceLemma
      <4>2. (\A j \in 1 .. i : s_semAdd[Active[j]] < k) => k < k
        <5>1. i \in 1 .. i
          OBVIOUS
        <5> QED BY <2>1, <4>1, <5>1
      <4>3. ~(k < k)
        BY KeyAssumption
      <4> QED BY <4>1, <4>2, <4>3, SearchNames
    <3>3. d = SemdOf(k) /\ d # NULL
      BY <2>1, <3>2, SemdFacts, SearchLemma, SearchNames
    <3>4. SetTail(d, p) /\ p \in Maybe(Pcb)
      <4>1. p # NULL
        BY Sizes
      <4> QED BY <3>1, <4>1 DEF SetTail, Maybe
    <3>5. /\ AslTyped' /\ Semds' /\ TailOf(k)' = p
          /\ \A k2 \in Key \ {k} : TailOf(k2)' = TailOf(k2)
      BY <3>3, <3>4, SetTailStep
    <3>6. TailOf(k) = s_procQ[d]
      BY <3>3, SearchNames
    <3> QED BY <3>1, <3>5, <3>6
  <2>2. CASE s_semAdd[d] # k
    <3>1. /\ semdFree_h' = s_next[new]
          /\ s_next' = [s_next EXCEPT ![new] = s_next[d], ![d] = new]
          /\ InsertLinks(NULL, p)
          /\ s_procQ' = [s_procQ EXCEPT ![new] = p]
          /\ p_semAdd' = [p_semAdd EXCEPT ![p] = k]
          /\ s_semAdd' = [s_semAdd EXCEPT ![new] = k]
      BY <1>d, <1>w, <1>2, <2>2 DEF insertBlocked
    <3>2. /\ TailOf(k) = NULL
          /\ AslTyped' /\ Semds' /\ TailOf(k)' = p
          /\ \A k2 \in Key \ {k} : TailOf(k2)' = TailOf(k2)
      BY <1>d, <1>w, <1>2, <2>2, <3>1, NewSemdStep
    <3> QED BY <3>1, <3>2
  <2> QED BY <2>1, <2>2
<1>5. /\ IsRing(p_next', p_prev', p, InsertProcQ(q, p))
      /\ IsLink(p_next', Pcb) /\ IsLink(p_prev', Pcb)
      /\ OnlyLinksOf(Range(q) \cup {p})
  BY <1>3, <1>4, LinksTyped, RingInsert DEF Linked
<1>6. Range(InsertProcQ(q, p)) = Range(q) \cup {p}
  BY <1>3, InsertProcQLemma
<1>7. /\ Linked'
      /\ FreePcbs' = FreePcbs /\ Children' = Children
      /\ QueueOf(R_Queue)' = QueueOf(R_Queue)
      /\ Blocked' = [Blocked EXCEPT ![k] = InsertProcQ(q, p)]
  BY <1>q, <1>1, <1>4, <1>5, <1>6, BlockedChanged
<1> QED BY <1>q, <1>1, <1>7

\* removeBlocked takes the oldest element of the queue of k.
LEMMA RemoveBlockedStep ==
  ASSUME Linked, NEW k \in Key, removeBlocked(k)
  PROVE  /\ Linked'
         /\ BlockedOn(k) # <<>> /\ held' = held \cup {Head(BlockedOn(k))}
         /\ FreePcbs' = FreePcbs /\ Children' = Children
         /\ QueueOf(R_Queue)' = QueueOf(R_Queue)
         /\ Blocked' = [Blocked EXCEPT ![k] = RemoveProcQ(BlockedOn(k))]
<1>q. PICK q : q = BlockedOn(k)
  OBVIOUS
<1>d. PICK d : d = SemdOf(k)
  OBVIOUS
<1>t. PICK tp : tp = s_procQ[d]
  OBVIOUS
<1>1. /\ d # NULL /\ RemoveLinks(tp) /\ SetTail(d, TailAfterRemove(tp))
      /\ p_semAdd' = [p_semAdd EXCEPT ![headProcQ(tp)] = NULL]
      /\ held' = held \cup {headProcQ(tp)}
      /\ UNCHANGED <<tree, pcbFree_h, R_Queue>>
  BY <1>d, <1>t DEF removeBlocked, Take
<1>2. TailOf(k) = tp /\ tp # NULL
  <2>1. d \in InUse(Active)
    BY <1>d, <1>1, SemdFacts, SearchLemma, SearchNames
  <2> QED BY <1>d, <1>t, <1>1, <2>1, SemdFacts, SearchNames
<1>3. IsRing(p_next, p_prev, tp, q) /\ q # <<>> /\ IsListOf(q, Pcb)
  <2>1. IsRing(p_next, p_prev, tp, q)
    BY <1>q, <1>2, BlockedFacts
  <2> QED BY <1>2, <2>1, RingFacts
<1>4. /\ IsRing(p_next', p_prev', TailAfterRemove(tp), RemoveProcQ(q))
      /\ headProcQ(tp) = Head(q)
      /\ IsLink(p_next', Pcb) /\ IsLink(p_prev', Pcb)
      /\ OnlyLinksOf(Range(q))
  BY <1>1, <1>3, LinksTyped, RingRemove DEF Linked
<1>5. /\ Head(q) \in Range(q) /\ Head(q) \in Pcb
      /\ Range(RemoveProcQ(q)) = Range(q) \ {Head(q)}
  BY <1>3, RemoveProcQLemma
<1>6. /\ AslTyped' /\ Semds' /\ TailOf(k)' = TailAfterRemove(tp)
      /\ \A k2 \in Key \ {k} : TailOf(k2)' = TailOf(k2)
  <2>1. TailAfterRemove(tp) \in Maybe(Pcb)
    BY <1>4, RingFacts DEF Maybe
  <2> QED BY <1>d, <1>1, <2>1, SetTailStep
<1>p. PICK p : p = Head(q)
  OBVIOUS
<1>7. /\ Linked'
      /\ FreePcbs' = FreePcbs /\ Children' = Children
      /\ QueueOf(R_Queue)' = QueueOf(R_Queue)
      /\ Blocked' = [Blocked EXCEPT ![k] = RemoveProcQ(q)]
  <2>1. /\ p \in Range(BlockedOn(k)) /\ p \in Pcb /\ held' = held \cup {p}
        /\ p_semAdd' = [p_semAdd EXCEPT ![p] = NULL]
        /\ Range(RemoveProcQ(q)) = Range(BlockedOn(k)) \ {p}
    BY <1>q, <1>p, <1>1, <1>4, <1>5
  <2>2. OnlyLinksOf(Range(BlockedOn(k)) \cup {p})
    BY <1>q, <1>4 DEF OnlyLinksOf
  <2>3. IsRing(p_next', p_prev', TailOf(k)', RemoveProcQ(q))
    BY <1>4, <1>6
  <2> QED BY <1>1, <1>4, <1>6, <2>1, <2>2, <2>3, BlockedChanged
<1> QED BY <1>q, <1>1, <1>3, <1>4, <1>7

\* outBlocked takes p from anywhere in the queue of its semaphore.
LEMMA OutBlockedStep ==
  ASSUME Linked, NEW p \in Pcb, outBlocked(p), NEW k, k = p_semAdd[p]
  PROVE  /\ Linked'
         /\ k \in Key /\ p \in Range(BlockedOn(k)) /\ held' = held \cup {p}
         /\ FreePcbs' = FreePcbs /\ Children' = Children
         /\ QueueOf(R_Queue)' = QueueOf(R_Queue)
         /\ Blocked' = [Blocked EXCEPT ![k] = OutProcQ(BlockedOn(k), p)]
<1>q. PICK q : q = BlockedOn(k)
  OBVIOUS
<1>d. PICK d : d = SemdOf(k)
  OBVIOUS
<1>t. PICK tp : tp = s_procQ[d]
  OBVIOUS
<1>1. /\ k # NULL /\ d # NULL /\ Found(tp, p) /\ OutLinks(tp, p)
      /\ SetTail(d, TailAfterOut(tp, p))
      /\ p_semAdd' = [p_semAdd EXCEPT ![p] = NULL]
      /\ held' = held \cup {p}
      /\ UNCHANGED <<tree, pcbFree_h, R_Queue>>
  BY <1>d, <1>t DEF outBlocked, Take
<1>2. k \in Key
  BY <1>1 DEF Linked, TypeOK, Maybe
<1>3. TailOf(k) = tp
  BY <1>d, <1>t, <1>1, SearchNames
<1>4. IsRing(p_next, p_prev, tp, q) /\ IsListOf(q, Pcb)
  <2>1. IsRing(p_next, p_prev, tp, q)
    BY <1>q, <1>2, <1>3, BlockedFacts
  <2> QED BY <2>1, RingFacts
<1>5. p \in Range(q)
  BY <1>1, <1>4, FoundInQueue
<1>6. /\ IsRing(p_next', p_prev', TailAfterOut(tp, p), OutProcQ(q, p))
      /\ IsLink(p_next', Pcb) /\ IsLink(p_prev', Pcb)
      /\ OnlyLinksOf(Range(q))
  BY <1>1, <1>4, <1>5, LinksTyped, RingOut DEF Linked
<1>7. Range(OutProcQ(q, p)) = Range(q) \ {p}
  BY <1>4, <1>5, OutProcQLemma
<1>8. /\ AslTyped' /\ Semds' /\ TailOf(k)' = TailAfterOut(tp, p)
      /\ \A k2 \in Key \ {k} : TailOf(k2)' = TailOf(k2)
  <2>1. TailAfterOut(tp, p) \in Maybe(Pcb)
    BY <1>6, RingFacts DEF Maybe
  <2> QED BY <1>d, <1>1, <1>2, <2>1, SetTailStep
<1>9. /\ Linked'
      /\ FreePcbs' = FreePcbs /\ Children' = Children
      /\ QueueOf(R_Queue)' = QueueOf(R_Queue)
      /\ Blocked' = [Blocked EXCEPT ![k] = OutProcQ(q, p)]
  <2>1. /\ p \in Range(BlockedOn(k))
        /\ Range(OutProcQ(q, p)) = Range(BlockedOn(k)) \ {p}
    BY <1>q, <1>5, <1>7
  <2>2. OnlyLinksOf(Range(BlockedOn(k)) \cup {p})
    BY <1>q, <1>6 DEF OnlyLinksOf
  <2>3. IsRing(p_next', p_prev', TailOf(k)', OutProcQ(q, p))
    BY <1>6, <1>8
  <2> QED BY <1>1, <1>2, <1>6, <1>8, <2>1, <2>2, <2>3, BlockedChanged
<1> QED BY <1>q, <1>1, <1>2, <1>5, <1>9

----------------------------------------------------------------------------
(***************************************************************************)
(* The first state: initPcbs(), initASL() and mkEmptyProcQ() leave such    *)
(* lists.                                                                  *)
(***************************************************************************)

LEMMA LinkedInit ==
  ASSUME InitLinks
  PROVE  /\ Linked
         /\ FreePcbs = Pcb /\ held = {} /\ QueueOf(R_Queue) = <<>>
         /\ Blocked = [k \in Key |-> <<>>]
         /\ Children = [p \in Pcb |-> <<>>]
<1>1. /\ p_next = [p \in Pcb |-> IF p = MAXPROC - 1 THEN NULL ELSE p + 1]
      /\ p_prev = [p \in Pcb |-> NULL]
      /\ p_prnt = [p \in Pcb |-> NULL] /\ p_child = [p \in Pcb |-> NULL]
      /\ p_next_sib = [p \in Pcb |-> NULL] /\ p_prev_sib = [p \in Pcb |-> NULL]
      /\ p_semAdd = [p \in Pcb |-> NULL]
      /\ pcbFree_h = 0 /\ R_Queue = NULL
      /\ s_next = [d \in Semd |-> IF d = semd_h THEN semd_hi
                                  ELSE IF d \in 1 .. MAXPROC - 1 THEN d + 1 ELSE NULL]
      /\ s_semAdd = [d \in Semd |-> IF d = semd_hi THEN MAXINT ELSE 0]
      /\ s_procQ = [d \in Semd |-> NULL]
      /\ semdFree_h = 1 /\ held = {}
  BY DEF InitLinks, Nulls, LastFree
<1>2. MAXPROC \in Nat /\ MAXPROC > 0 /\ MAXINT \in Nat /\ MAXINT > 0
  BY SizeAssumption, KeyAssumption
<1>3. /\ \A p \in Pcb : p_next[p] = IF p = MAXPROC - 1 THEN NULL ELSE p + 1
      /\ \A p \in Pcb : p_prev[p] = NULL /\ p_prnt[p] = NULL /\ p_child[p] = NULL
      /\ \A p \in Pcb : p_next_sib[p] = NULL /\ p_prev_sib[p] = NULL /\ p_semAdd[p] = NULL
      /\ \A d \in Semd : s_next[d] = IF d = semd_h THEN semd_hi
                                     ELSE IF d \in 1 .. MAXPROC - 1 THEN d + 1 ELSE NULL
      /\ \A d \in Semd : s_semAdd[d] = IF d = semd_hi THEN MAXINT ELSE 0
  BY <1>1
<1>4. TypeOK
  <2>1. \A p \in Pcb : p = MAXPROC - 1 \/ p + 1 \in Pcb
    BY <1>2 DEF Pcb
  <2>2. semd_hi \in Semd /\ \A d \in Semd : d \in 1 .. MAXPROC - 1 => d + 1 \in Semd
    BY <1>2 DEF Semd, semd_hi
  <2>3. 0 \in Pcb /\ 1 \in Semd
    BY <1>2 DEF Pcb, Semd
  <2>4. /\ p_next \in [Pcb -> Maybe(Pcb)] /\ p_prev \in [Pcb -> Maybe(Pcb)]
        /\ {p_prnt, p_child, p_next_sib, p_prev_sib} \subseteq [Pcb -> Maybe(Pcb)]
        /\ p_semAdd \in [Pcb -> Maybe(Key)]
    BY <1>1, <2>1 DEF Maybe
  <2>5. /\ s_next \in [Semd -> Maybe(Semd)]
        /\ s_procQ \in [Semd -> Maybe(Pcb)]
    BY <1>1, <2>2 DEF Maybe
  <2>6. s_semAdd \in [Semd -> 0 .. MAXINT]
    BY <1>1, <1>2
  <2> QED BY <1>1, <2>3, <2>4, <2>5, <2>6 DEF TypeOK, Maybe
<1>5. /\ IsLink(p_next, Pcb) /\ IsLink(p_prev, Pcb) /\ IsLink(p_next_sib, Pcb)
      /\ IsLink(s_next, Semd)
  BY <1>4, LinksTyped
<1>6. IsChain(p_next, pcbFree_h, FreeList, Pcb) /\ FreePcbs = Pcb
  <2>1. PICK s : s = [i \in 1 .. MAXPROC |-> i - 1]
    OBVIOUS
  <2>2. \A i \in 1 .. MAXPROC : s[i] = i - 1 /\ s[i] \in Pcb
    BY <1>2, <2>1 DEF Pcb
  <2>3. s \in Seq(Pcb) /\ Len(s) = MAXPROC /\ DOMAIN s = 1 .. MAXPROC
    <3>1. s \in [1 .. MAXPROC -> Pcb]
      BY <2>1, <2>2
    <3> QED BY <1>2, <3>1, IsSequence
  <2>4. IsListOf(s, Pcb)
    BY <2>2, <2>3 DEF IsListOf, IsInjective
  <2>5. pcbFree_h = IF s = <<>> THEN NULL ELSE s[1]
    BY <1>1, <1>2, <2>2, <2>3
  <2>6. \A i \in 1 .. Len(s) : p_next[s[i]] = IF i = Len(s) THEN NULL ELSE s[i + 1]
    <3>1. SUFFICES ASSUME NEW i \in 1 .. MAXPROC
                   PROVE  p_next[s[i]] = IF i = MAXPROC THEN NULL ELSE s[i + 1]
      BY <2>3
    <3>2. p_next[i - 1] = IF i - 1 = MAXPROC - 1 THEN NULL ELSE i - 1 + 1
      BY <1>3, <2>2
    <3>3. i # MAXPROC => s[i + 1] = i /\ i - 1 # MAXPROC - 1 /\ i - 1 + 1 = i
      BY <1>2, <2>2
    <3>4. i = MAXPROC => i - 1 = MAXPROC - 1
      OBVIOUS
    <3> QED BY <2>2, <3>2, <3>3, <3>4
  <2>7. IsChain(p_next, pcbFree_h, s, Pcb)
    BY <2>4, <2>5, <2>6 DEF IsChain
  <2>8. FreeList = s
    BY <1>5, <2>7, ChainReads DEF FreeList
  <2>9. Range(s) = Pcb
    <3>1. ASSUME NEW p \in Pcb PROVE p \in Range(s)
      <4>1. PICK i \in 1 .. MAXPROC : i = p + 1 /\ i - 1 = p
        BY <1>2 DEF Pcb
      <4>2. s[i] = p
        BY <2>2, <4>1
      <4> QED BY <2>3, <4>1, <4>2 DEF Range
    <3>2. Range(s) \subseteq Pcb
      BY <2>4, ListOfRange
    <3> QED BY <3>1, <3>2
  <2> QED BY <2>7, <2>8, <2>9, QueueNames
<1>7. \A p \in Pcb : /\ IsFamily(p_next_sib, p_prev_sib, p_child[p], ChildrenOf(p))
                     /\ ChildrenOf(p) = <<>>
  <2>1. SUFFICES ASSUME NEW p \in Pcb
                 PROVE  /\ IsFamily(p_next_sib, p_prev_sib, p_child[p], ChildrenOf(p))
                        /\ ChildrenOf(p) = <<>>
    OBVIOUS
  <2>2. IsChain(p_next_sib, p_child[p], <<>>, Pcb)
    BY <1>3, EmptyList DEF IsChain
  <2>3. ChildrenOf(p) = <<>>
    BY <1>5, <2>2, ChainReads DEF ChildrenOf
  <2> QED BY <2>2, <2>3 DEF IsFamily
<1>8. IsActive(s_next, s_semAdd, Active) /\ InUse(Active) = {}
      /\ Range(Active) = {semd_h, semd_hi}
  <2>1. PICK a : a = [i \in 1 .. 2 |-> IF i = 1 THEN semd_h ELSE semd_hi]
    OBVIOUS
  <2>2. a[1] = semd_h /\ a[2] = semd_hi
    BY <2>1
  <2>3. semd_h \in Semd /\ semd_hi \in Semd /\ semd_h # semd_hi
        /\ semd_hi \notin 1 .. MAXPROC - 1
    BY <1>2 DEF Semd, semd_h, semd_hi
  <2>4. a \in Seq(Semd) /\ Len(a) = 2 /\ DOMAIN a = 1 .. 2
    <3>1. a \in [1 .. 2 -> Semd]
      BY <2>1, <2>3
    <3> QED BY <3>1, IsSequence
  <2>5. \A i \in 1 .. 2 : i = 1 \/ i = 2
    OBVIOUS
  <2>6. IsListOf(a, Semd)
    BY <2>2, <2>3, <2>4, <2>5 DEF IsListOf, IsInjective
  <2>7. s_next[semd_h] = semd_hi /\ s_next[semd_hi] = NULL
    BY <1>3, <2>3
  <2>8. s_semAdd[semd_h] = 0 /\ s_semAdd[semd_hi] = MAXINT
    BY <1>3, <2>3
  <2>9. \A i \in 1 .. Len(a) : s_next[a[i]] = IF i = Len(a) THEN NULL ELSE a[i + 1]
    <3>1. 1 + 1 = 2
      OBVIOUS
    <3> QED BY <2>2, <2>4, <2>5, <2>7, <3>1
  <2>10. IsChain(s_next, semd_h, a, Semd)
    <3>1. a # <<>>
      BY <2>4
    <3> QED BY <2>2, <2>6, <2>9, <3>1 DEF IsChain
  <2>11. \A i, j \in 1 .. Len(a) : i < j => s_semAdd[a[i]] < s_semAdd[a[j]]
    BY <1>2, <2>2, <2>4, <2>5, <2>8
  <2>12. \A i \in 2 .. Len(a) - 1 : s_semAdd[a[i]] \in Key
    BY <2>4
  <2>13. IsActive(s_next, s_semAdd, a)
    BY <2>2, <2>4, <2>8, <2>10, <2>11, <2>12 DEF IsActive
  <2>14. Range(a) = {semd_h, semd_hi}
    BY <2>2, <2>4, <2>5 DEF Range
  <2>15. Active = a
    BY <1>5, <2>13, ActiveReads DEF Active
  <2> QED BY <2>13, <2>14, <2>15 DEF InUse
<1>9. /\ IsChain(s_next, semdFree_h, FreeSemds, Semd)
      /\ Range(FreeSemds) = 1 .. MAXPROC
  <2>1. PICK s : s = [i \in 1 .. MAXPROC |-> i]
    OBVIOUS
  <2>2. \A i \in 1 .. MAXPROC : s[i] = i /\ s[i] \in Semd
    BY <1>2, <2>1 DEF Semd
  <2>3. s \in Seq(Semd) /\ Len(s) = MAXPROC /\ DOMAIN s = 1 .. MAXPROC
    <3>1. s \in [1 .. MAXPROC -> Semd]
      BY <2>1, <2>2
    <3> QED BY <1>2, <3>1, IsSequence
  <2>4. IsListOf(s, Semd)
    BY <2>2, <2>3 DEF IsListOf, IsInjective
  <2>5. semdFree_h = IF s = <<>> THEN NULL ELSE s[1]
    BY <1>1, <1>2, <2>2, <2>3
  <2>6. \A i \in 1 .. Len(s) : s_next[s[i]] = IF i = Len(s) THEN NULL ELSE s[i + 1]
    <3>1. SUFFICES ASSUME NEW i \in 1 .. MAXPROC
                   PROVE  s_next[s[i]] = IF i = MAXPROC THEN NULL ELSE s[i + 1]
      BY <2>3
    <3>2. i # semd_h
      BY DEF semd_h
    <3>3. s_next[i] = IF i \in 1 .. MAXPROC - 1 THEN i + 1 ELSE NULL
      BY <1>3, <2>2, <3>2
    <3>4. i # MAXPROC => s[i + 1] = i + 1 /\ i \in 1 .. MAXPROC - 1
      BY <1>2, <2>2
    <3>5. i = MAXPROC => i \notin 1 .. MAXPROC - 1
      BY <1>2
    <3> QED BY <2>2, <3>3, <3>4, <3>5
  <2>7. IsChain(s_next, semdFree_h, s, Semd)
    BY <2>4, <2>5, <2>6 DEF IsChain
  <2>8. FreeSemds = s
    BY <1>5, <2>7, ChainReads DEF FreeSemds
  <2>9. Range(s) = 1 .. MAXPROC
    BY <2>2, <2>3 DEF Range
  <2> QED BY <2>7, <2>8, <2>9
<1>10. Semds
  <2>1. Range(Active) \cap Range(FreeSemds) = {} /\ Range(Active) \cup Range(FreeSemds) = Semd
    BY <1>2, <1>8, <1>9 DEF Semd, semd_h, semd_hi
  <2> QED BY <1>8, <1>9, <2>1, SearchNames DEF Semds
<1>11. \A k \in Key : TailOf(k) = NULL /\ BlockedOn(k) = <<>>
  <2>1. SUFFICES ASSUME NEW k \in Key PROVE TailOf(k) = NULL /\ BlockedOn(k) = <<>>
    OBVIOUS
  <2>2. SemdOf(k) = NULL
    BY <1>8, SearchLemma, SearchNames
  <2> QED BY <2>2, QueueNames, SearchNames DEF Queue
<1>12. QueueOf(R_Queue) = <<>>
  BY <1>1 DEF QueueOf
<1>13. Rings
  BY <1>1, <1>6, <1>11, <1>12, EmptyRing DEF Rings
<1>14. Apart
  <2>1. \A k \in Key : Range(BlockedOn(k)) = {p \in Pcb : p_semAdd[p] = k}
    <3>1. \A k \in Key : Range(BlockedOn(k)) = {}
      BY <1>11, EmptyList
    <3>2. NULL \notin Key
      BY NullAssumption
    <3> QED BY <1>3, <3>1, <3>2
  <2>2. Range(QueueOf(R_Queue)) = {}
    BY <1>12, EmptyList
  <2> QED BY <1>1, <1>3, <1>6, <2>1, <2>2 DEF Apart
<1>15. Families
  <2>1. \A p \in Pcb : Range(ChildrenOf(p)) = {}
    BY <1>7, EmptyList
  <2> QED BY <1>3, <1>6, <1>7, <2>1 DEF Families
<1> QED BY <1>1, <1>4, <1>6, <1>7, <1>10, <1>11, <1>12, <1>13, <1>14, <1>15
        DEF Linked, Blocked, Children

----------------------------------------------------------------------------
(***************************************************************************)
(* The theorems.                                                           *)
(***************************************************************************)

\* The view is the lists that the links amount to.
ListsInvariant == Linked /\ view = View

\* The view, and the operators of Lists, in the terms used here.
LEMMA ViewNames ==
  /\ View.pcbFree = FreePcbs /\ View.R_Queue = QueueOf(R_Queue)
  /\ View.procQ = Blocked /\ View.p_child = Children
  /\ View'.pcbFree = FreePcbs' /\ View'.R_Queue = QueueOf(R_Queue)'
  /\ View'.procQ = Blocked' /\ View'.p_child = Children'
  /\ \A k \in Key : Blocked[k] = BlockedOn(k)
  /\ \A p \in Pcb : Children[p] = ChildrenOf(p)
BY DEF View, Blocked, Children

LEMMA OperatorNames ==
  /\ \A q : Contract!Range(q) = Range(q)
  /\ \A q, p : Contract!InsertProcQ(q, p) = InsertProcQ(q, p)
  /\ \A q : Contract!RemoveProcQ(q) = RemoveProcQ(q)
  /\ \A q, p : Contract!Unlink(q, p) = Unlink(q, p)
  /\ \A q, p : Contract!OutProcQ(q, p) = OutProcQ(q, p)
  /\ \A q, p : Contract!InsertChild(q, p) = InsertChild(q, p)
<1>1. \A q : Contract!Range(q) = Range(q)
  BY DEF Contract!Range, Range
<1>2. \A q, p : Contract!Unlink(q, p) = Unlink(q, p)
  BY <1>1 DEF Contract!Unlink, Unlink
<1>3. \A q, p : Contract!OutProcQ(q, p) = OutProcQ(q, p)
  BY <1>2 DEF Contract!OutProcQ, OutProcQ
<1>4. /\ \A q, p : Contract!InsertProcQ(q, p) = InsertProcQ(q, p)
      /\ \A q : Contract!RemoveProcQ(q) = RemoveProcQ(q)
      /\ \A q, p : Contract!InsertChild(q, p) = InsertChild(q, p)
  BY DEF Contract!InsertProcQ, InsertProcQ, Contract!RemoveProcQ, RemoveProcQ,
         Contract!InsertChild, InsertChild
<1> QED BY <1>1, <1>2, <1>3, <1>4

\* Every function does to the lists what the one of the same name in Lists does.
LEMMA FunctionStep ==
  ASSUME ListsInvariant, Next
  PROVE  Linked' /\ view' = View' /\ Contract!Next
<1> USE DEF Contract!Take, Contract!Give
<1>0. view' = View'
  BY DEF Next, Seen
<1>1. /\ view.pcbFree = FreePcbs /\ view.R_Queue = QueueOf(R_Queue)
      /\ view.procQ = Blocked /\ view.p_child = Children
      /\ view'.pcbFree = FreePcbs' /\ view'.R_Queue = QueueOf(R_Queue)'
      /\ view'.procQ = Blocked' /\ view'.p_child = Children'
  BY <1>0, ViewNames DEF ListsInvariant
<1>2. Linked
  BY DEF ListsInvariant
<1>3. ASSUME allocPcb PROVE Linked' /\ Contract!Next
  <2>1. /\ Linked'
        /\ pcbFree_h \in FreePcbs /\ pcbFree_h \in Pcb
        /\ held' = held \cup {pcbFree_h}
        /\ FreePcbs' = FreePcbs \ {pcbFree_h}
        /\ QueueOf(R_Queue)' = QueueOf(R_Queue)
        /\ Blocked' = Blocked /\ Children' = Children
    BY <1>2, <1>3, AllocPcbStep
  <2>2. Contract!allocPcb(pcbFree_h)
    BY <1>1, <2>1 DEF Contract!allocPcb
  <2> QED BY <2>1, <2>2 DEF Contract!Next
<1>4. ASSUME NEW p \in Pcb, freePcb(p) PROVE Linked' /\ Contract!Next
  <2>1. /\ Linked'
        /\ p \in held /\ held' = held \ {p}
        /\ ChildrenOf(p) = <<>> /\ \A x \in Pcb : p \notin Range(ChildrenOf(x))
        /\ FreePcbs' = FreePcbs \cup {p}
        /\ QueueOf(R_Queue)' = QueueOf(R_Queue)
        /\ Blocked' = Blocked /\ Children' = Children
    BY <1>2, <1>4, FreePcbStep
  <2>2. ~Contract!HasParent(p) /\ Children[p] = <<>>
    BY <1>1, <2>1, ViewNames, OperatorNames DEF Contract!HasParent
  <2>3. Contract!freePcb(p)
    BY <1>1, <2>1, <2>2 DEF Contract!freePcb
  <2> QED BY <2>1, <2>3 DEF Contract!Next
<1>5. ASSUME NEW p \in Pcb, insertProcQ(p) PROVE Linked' /\ Contract!Next
  <2>1. /\ Linked'
        /\ p \in held /\ held' = held \ {p}
        /\ FreePcbs' = FreePcbs /\ Blocked' = Blocked /\ Children' = Children
        /\ QueueOf(R_Queue)' = InsertProcQ(QueueOf(R_Queue), p)
    BY <1>2, <1>5, InsertProcQStep
  <2>2. Contract!insertProcQ(p)
    BY <1>1, <2>1, OperatorNames DEF Contract!insertProcQ
  <2> QED BY <2>1, <2>2 DEF Contract!Next
<1>6. ASSUME removeProcQ PROVE Linked' /\ Contract!Next
  <2>1. /\ Linked'
        /\ QueueOf(R_Queue) # <<>> /\ held' = held \cup {Head(QueueOf(R_Queue))}
        /\ FreePcbs' = FreePcbs /\ Blocked' = Blocked /\ Children' = Children
        /\ QueueOf(R_Queue)' = RemoveProcQ(QueueOf(R_Queue))
    BY <1>2, <1>6, RemoveProcQStep
  <2>2. Contract!removeProcQ
    BY <1>1, <2>1, OperatorNames DEF Contract!removeProcQ
  <2> QED BY <2>1, <2>2 DEF Contract!Next
<1>7. ASSUME NEW p \in Pcb, outProcQ(p) PROVE Linked' /\ Contract!Next
  <2>1. /\ Linked'
        /\ p \in Range(QueueOf(R_Queue)) /\ held' = held \cup {p}
        /\ FreePcbs' = FreePcbs /\ Blocked' = Blocked /\ Children' = Children
        /\ QueueOf(R_Queue)' = OutProcQ(QueueOf(R_Queue), p)
    BY <1>2, <1>7, OutProcQStep
  <2>2. Contract!outProcQ(p)
    BY <1>1, <2>1, OperatorNames DEF Contract!outProcQ
  <2> QED BY <2>1, <2>2 DEF Contract!Next
<1>8. ASSUME NEW p \in Pcb, NEW k \in Key, insertBlocked(k, p) PROVE Linked' /\ Contract!Next
  <2>1. /\ Linked'
        /\ p \in held /\ held' = held \ {p}
        /\ FreePcbs' = FreePcbs /\ Children' = Children
        /\ QueueOf(R_Queue)' = QueueOf(R_Queue)
        /\ Blocked' = [Blocked EXCEPT ![k] = InsertProcQ(Blocked[k], p)]
    BY <1>2, <1>8, InsertBlockedStep, ViewNames
  <2>2. Contract!insertBlocked(k, p)
    BY <1>1, <2>1, OperatorNames DEF Contract!insertBlocked
  <2> QED BY <2>1, <2>2 DEF Contract!Next
<1>9. ASSUME NEW k \in Key, removeBlocked(k) PROVE Linked' /\ Contract!Next
  <2>1. /\ Linked'
        /\ Blocked[k] # <<>> /\ held' = held \cup {Head(Blocked[k])}
        /\ FreePcbs' = FreePcbs /\ Children' = Children
        /\ QueueOf(R_Queue)' = QueueOf(R_Queue)
        /\ Blocked' = [Blocked EXCEPT ![k] = RemoveProcQ(Blocked[k])]
    BY <1>2, <1>9, RemoveBlockedStep, ViewNames
  <2>2. Contract!removeBlocked(k)
    BY <1>1, <2>1, OperatorNames DEF Contract!removeBlocked
  <2> QED BY <2>1, <2>2 DEF Contract!Next
<1>10. ASSUME NEW p \in Pcb, outBlocked(p) PROVE Linked' /\ Contract!Next
  <2> DEFINE k == p_semAdd[p]
  <2>1. /\ Linked'
        /\ k \in Key /\ p \in Range(Blocked[k]) /\ held' = held \cup {p}
        /\ FreePcbs' = FreePcbs /\ Children' = Children
        /\ QueueOf(R_Queue)' = QueueOf(R_Queue)
        /\ Blocked' = [Blocked EXCEPT ![k] = OutProcQ(Blocked[k], p)]
    BY <1>2, <1>10, OutBlockedStep, ViewNames
  <2> HIDE DEF k
  <2>2. Contract!outBlocked(k, p)
    BY <1>1, <2>1, OperatorNames DEF Contract!outBlocked
  <2> QED BY <2>1, <2>2 DEF Contract!Next
<1>11. ASSUME NEW prnt \in Pcb, NEW p \in Pcb, insertChild(prnt, p)
       PROVE  Linked' /\ Contract!Next
  <2>1. /\ Linked'
        /\ {prnt, p} \cap FreePcbs = {} /\ prnt # p /\ ChildrenOf(p) = <<>>
        /\ \A x \in Pcb : p \notin Range(ChildrenOf(x))
        /\ FreePcbs' = FreePcbs /\ held' = held /\ Blocked' = Blocked
        /\ QueueOf(R_Queue)' = QueueOf(R_Queue)
        /\ Children' = [Children EXCEPT ![prnt] = InsertChild(Children[prnt], p)]
    BY <1>2, <1>11, InsertChildStep, ViewNames
  <2>2. ~Contract!HasParent(p) /\ Children[p] = <<>>
    BY <1>1, <2>1, ViewNames, OperatorNames DEF Contract!HasParent
  <2>3. Contract!insertChild(prnt, p)
    BY <1>1, <2>1, <2>2, OperatorNames DEF Contract!insertChild
  <2> QED BY <2>1, <2>3 DEF Contract!Next
<1>12. ASSUME NEW prnt \in Pcb, removeChild(prnt) PROVE Linked' /\ Contract!Next
  <2>1. /\ Linked'
        /\ Children[prnt] # <<>>
        /\ FreePcbs' = FreePcbs /\ held' = held /\ Blocked' = Blocked
        /\ QueueOf(R_Queue)' = QueueOf(R_Queue)
        /\ Children' = [Children EXCEPT ![prnt] = RemoveProcQ(Children[prnt])]
    BY <1>2, <1>12, RemoveChildStep, ViewNames
  <2>2. Contract!removeChild(prnt)
    BY <1>1, <2>1, OperatorNames DEF Contract!removeChild
  <2> QED BY <2>1, <2>2 DEF Contract!Next
<1>13. ASSUME NEW p \in Pcb, outChild(p) PROVE Linked' /\ Contract!Next
  <2> DEFINE prnt == p_prnt[p]
  <2>1. /\ Linked'
        /\ prnt \in Pcb /\ p \in Range(Children[prnt])
        /\ FreePcbs' = FreePcbs /\ held' = held /\ Blocked' = Blocked
        /\ QueueOf(R_Queue)' = QueueOf(R_Queue)
        /\ Children' = [Children EXCEPT ![prnt] = Unlink(Children[prnt], p)]
    BY <1>2, <1>13, OutChildStep, ViewNames
  <2> HIDE DEF prnt
  <2>2. Contract!outChild(prnt, p)
    BY <1>1, <2>1, OperatorNames DEF Contract!outChild
  <2> QED BY <2>1, <2>2 DEF Contract!Next
<1> QED BY <1>0, <1>3, <1>4, <1>5, <1>6, <1>7, <1>8, <1>9, <1>10, <1>11, <1>12, <1>13 DEF Next

\* The lists do not change when nothing does.
LEMMA ListsStutter ==
  ASSUME UNCHANGED vars
  PROVE  (ListsInvariant => ListsInvariant') /\ UNCHANGED Contract!vars
<1>1. /\ p_next' = p_next /\ p_prev' = p_prev /\ p_prnt' = p_prnt /\ p_child' = p_child
      /\ p_next_sib' = p_next_sib /\ p_prev_sib' = p_prev_sib /\ p_semAdd' = p_semAdd
      /\ pcbFree_h' = pcbFree_h /\ R_Queue' = R_Queue
      /\ UNCHANGED asl /\ UNCHANGED tree /\ UNCHANGED links
      /\ held' = held /\ view' = view
  BY DEF vars, links, tree
<1>2. UNCHANGED Contract!vars
  BY <1>1 DEF Contract!vars
<1>3. ASSUME ListsInvariant PROVE ListsInvariant'
  <2>1. /\ Rings' /\ Apart' /\ Semds'
        /\ FreePcbs' = FreePcbs /\ Blocked' = Blocked
        /\ QueueOf(R_Queue)' = QueueOf(R_Queue)
    BY <1>1, <1>3, ListsKept DEF ListsInvariant
  <2>2. Families' /\ Children' = Children
    BY <1>1, <1>3, <2>1, TreeKept DEF ListsInvariant
  <2>3. TypeOK'
    BY <1>1, <1>3 DEF TypeOK, ListsInvariant, Linked, asl
  <2>4. View' = View
    BY <2>1, <2>2 DEF View, Blocked, Children
  <2> QED BY <1>1, <1>3, <2>1, <2>2, <2>3, <2>4 DEF ListsInvariant, Linked
<1> QED BY <1>2, <1>3

\* The links always amount to lists: queues that are rings, chains of children and of
\* free PCBs, and the sorted list of descriptors, with nobody in two of them.
THEOREM ListsLinked == Spec => []ListsInvariant
<1>1. Init => ListsInvariant
  BY LinkedInit DEF Init, ListsInvariant
<1>2. ListsInvariant /\ [Next]_vars => ListsInvariant'
  BY FunctionStep, ListsStutter DEF ListsInvariant
<1> QED BY <1>1, <1>2, PTL DEF Spec

\* Every variable of pcb.c and asl.c keeps its type: a link leads to a PCB or to a
\* descriptor of the tables, or is NULL.
THEOREM ListsTypeCorrect == Spec => []TypeOK
<1>1. ListsInvariant => TypeOK
  BY DEF ListsInvariant, Linked
<1> QED BY <1>1, ListsLinked, PTL

\* The functions of pcb.c and asl.c on the links implement those of Lists on
\* sequences.
THEOREM ListsImplemented == Spec => ImplementsLists
<1>1. Init => Contract!Init
  <2>1. SUFFICES ASSUME Init PROVE Contract!Init
    OBVIOUS
  <2>2. /\ FreePcbs = Pcb /\ held = {} /\ QueueOf(R_Queue) = <<>>
        /\ Blocked = [k \in Key |-> <<>>]
        /\ Children = [p \in Pcb |-> <<>>]
        /\ view = View
    BY <2>1, LinkedInit DEF Init
  <2> QED BY <2>2, ViewNames DEF Contract!Init
<1>2. ListsInvariant /\ [Next]_vars => [Contract!Next]_(Contract!vars)
  BY FunctionStep, ListsStutter
<1> QED BY <1>1, <1>2, ListsLinked, PTL DEF Spec, ImplementsLists, Contract!Spec

\* The links back are always the inverse of the links forth, and p_semAdd tells who
\* is in the queue of which semaphore.
THEOREM LinksAlwaysMatch == Spec => []LinksMatch
<1>1. ASSUME ListsInvariant PROVE LinksMatch
  <2>1. Linked /\ view.R_Queue = QueueOf(R_Queue) /\ view.procQ = Blocked
    BY <1>1, ViewNames DEF ListsInvariant
  <2>2. ASSUME NEW tp, NEW q, IsRing(p_next, p_prev, tp, q), NEW p \in Range(q)
        PROVE  p_prev[p_next[p]] = p
    <3>1. PICK i \in 1 .. Len(q) : p = q[i]
      BY <2>2, RingFacts
    <3>2. p_next[q[i]] = q[Turn(q, i)] /\ p_prev[q[Turn(q, i)]] = q[i]
      BY <2>2 DEF IsRing
    <3> QED BY <3>1, <3>2
  <2>3. \A q \in {view.R_Queue} \cup Range(view.procQ) :
          \A p \in Range(q) : p_prev[p_next[p]] = p
    <3>1. \A q \in Range(Blocked) : \E k \in Key : q = BlockedOn(k)
      BY DEF Blocked, Range
    <3>2. IsRing(p_next, p_prev, R_Queue, QueueOf(R_Queue))
          /\ \A k \in Key : IsRing(p_next, p_prev, TailOf(k), BlockedOn(k))
      BY <2>1 DEF Linked, Rings
    <3> QED BY <2>1, <2>2, <3>1, <3>2
  <2>4. ASSUME NEW p \in Pcb, NEW c \in Range(ChildrenOf(p))
        PROVE  /\ p_prnt[c] = p
               /\ IF p_child[p] = c THEN p_prev_sib[c] = NULL
                  ELSE p_prev_sib[c] # NULL /\ p_next_sib[p_prev_sib[c]] = c
    <3>1. PICK s : s = ChildrenOf(p)
      OBVIOUS
    <3>2. /\ IsFamily(p_next_sib, p_prev_sib, p_child[p], s)
          /\ IsChain(p_next_sib, p_child[p], s, Pcb)
          /\ p_prnt[c] = p /\ c \in Range(s)
      BY <2>1, <3>1, ChildFacts
    <3>3. /\ Len(s) \in Nat
          /\ \A i \in 1 .. Len(s) : s[i] # NULL
          /\ \A i, j \in 1 .. Len(s) : s[i] = s[j] => i = j
      BY <3>2, ChainFacts
    <3>4. PICK i \in 1 .. Len(s) : c = s[i]
      BY <3>2, ChainFacts
    <3>5. p_child[p] = s[1] /\ 1 \in 1 .. Len(s)
      BY <3>2, <3>3, <3>4, ChainFacts
    <3>6. /\ \A j \in 1 .. Len(s) : p_next_sib[s[j]] = IF j = Len(s) THEN NULL ELSE s[j + 1]
          /\ p_prev_sib[s[i]] = IF i = 1 THEN NULL ELSE s[i - 1]
      BY <3>2 DEF IsFamily, IsChain
    <3>7. CASE i = 1
      BY <3>2, <3>4, <3>5, <3>6, <3>7
    <3>8. CASE i # 1
      <4>1. PICK j \in 1 .. Len(s) : j = i - 1 /\ j + 1 = i /\ j # Len(s)
        BY <3>3, <3>8
      <4>2. p_prev_sib[c] = s[j] /\ p_next_sib[s[j]] = c /\ s[j] # NULL
        BY <3>3, <3>4, <3>6, <3>8, <4>1
      <4>3. p_child[p] # c
        BY <3>3, <3>4, <3>5, <3>8
      <4> QED BY <3>2, <4>2, <4>3
    <3> QED BY <3>7, <3>8
  <2>5. \A k \in Key : Range(BlockedOn(k)) = {p \in Pcb : p_semAdd[p] = k}
    BY <2>1 DEF Linked, Apart
  <2> QED BY <2>3, <2>4, <2>5 DEF LinksMatch
<1> QED BY <1>1, ListsLinked, PTL

\* The active list is always sorted, no descriptor is lost or in use without a
\* process, and headBlocked tells whether a process is blocked.
THEOREM ActiveListAlwaysInOrder == Spec => []ActiveListInOrder
<1>1. ASSUME ListsInvariant PROVE ActiveListInOrder
  <2>1. Linked
    BY <1>1 DEF ListsInvariant
  <2>2. /\ IsActive(s_next, s_semAdd, Active)
        /\ IsChain(s_next, semdFree_h, FreeSemds, Semd)
        /\ Range(Active) \cap Range(FreeSemds) = {}
        /\ Range(Active) \cup Range(FreeSemds) = Semd
        /\ \A d \in Descriptors : s_procQ[d] # NULL
    BY <2>1 DEF Linked, Semds
  <2>3. IsListOf(Active, Semd) /\ IsListOf(FreeSemds, Semd) /\ Len(Active) \in Nat
    <3>1. IsListOf(Active, Semd) /\ IsListOf(FreeSemds, Semd)
      BY <2>2 DEF IsActive, IsChain
    <3> QED BY <3>1, ListOfRange
  <2>4. \A i \in 1 .. Len(Active) - 1 : s_semAdd[Active[i]] < s_semAdd[Active[i + 1]]
    <3>1. SUFFICES ASSUME NEW i \in 1 .. Len(Active) - 1
                   PROVE  s_semAdd[Active[i]] < s_semAdd[Active[i + 1]]
      OBVIOUS
    <3>2. i \in 1 .. Len(Active) /\ i + 1 \in 1 .. Len(Active) /\ i < i + 1
      BY <2>3
    <3> QED BY <2>2, <3>2 DEF IsActive
  <2>5. Len(Active) + Len(FreeSemds) = Cardinality(Semd)
    <3>1. PICK c : c = Active \o FreeSemds
      OBVIOUS
    <3>2. IsListOf(c, Semd) /\ Range(c) = Semd /\ Len(c) = Len(Active) + Len(FreeSemds)
      BY <2>2, <2>3, <3>1, ConcatLemma
    <3>3. Cardinality(Range(c)) = Len(c)
      BY <3>2, ListCardinality
    <3> QED BY <3>2, <3>3
  <2>6. ASSUME NEW k \in Key PROVE headBlocked(k) = NULL <=> BlockedOn(k) = <<>>
    <3>1. PICK q : q = BlockedOn(k)
      OBVIOUS
    <3>2. PICK tp : tp = TailOf(k)
      OBVIOUS
    <3>3. headBlocked(k) = IF tp = NULL THEN NULL ELSE p_prev[tp]
      BY <3>2 DEF headBlocked, TailOf
    <3>4. IsRing(p_next, p_prev, tp, q)
      BY <2>1, <3>1, <3>2 DEF Linked, Rings
    <3>5. tp = NULL <=> q = <<>>
      BY <3>4, RingFacts
    <3>6. CASE q # <<>>
      <4>1. /\ Len(q) \in Nat /\ Len(q) > 0 /\ tp = q[Len(q)]
            /\ \A i \in 1 .. Len(q) : q[i] \in Pcb
        BY <3>4, <3>6, RingFacts
      <4>2. PICK i \in 1 .. Len(q) : Turn(q, i) = Len(q)
        <5>1. PICK n \in Nat : n = Len(q) /\ n > 0
          BY <4>1
        <5>2. \E i \in 1 .. n : IF i = n THEN 1 = n ELSE i + 1 = n
          <6>1. CASE n = 1
            BY <6>1
          <6>2. CASE n # 1
            <7>1. n - 1 \in 1 .. n /\ n - 1 # n /\ (n - 1) + 1 = n
              BY <5>1, <6>2
            <7> QED BY <7>1
          <6> QED BY <6>1, <6>2
        <5> QED BY <5>1, <5>2 DEF Turn
      <4>3. p_prev[q[Turn(q, i)]] = q[i]
        BY <3>4 DEF IsRing
      <4>4. p_prev[tp] \in Pcb
        BY <4>1, <4>2, <4>3
      <4> QED BY <3>1, <3>3, <3>5, <3>6, <4>4, Sizes
    <3> QED BY <3>1, <3>3, <3>5, <3>6
  <2> QED BY <2>2, <2>4, <2>5, <2>6 DEF ActiveListInOrder, Descriptors, FreeSemds
<1> QED BY <1>1, ListsLinked, PTL
====
