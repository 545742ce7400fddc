---- MODULE PcbQueueProofs ----
(***************************************************************************)
(* What the list operators of PcbQueue do to a list without duplicates:    *)
(* which elements are in the result, and how many.  The facts on numbers   *)
(* and recursion that other proofs need are here too.                      *)
(***************************************************************************)
EXTENDS PcbQueue, SequenceTheorems, FiniteSetTheorems, TLAPS

\* The empty list is a list of anything.
LEMMA EmptyList ==
  ASSUME NEW S
  PROVE  IsListOf(<<>>, S) /\ Range(<<>>) = {} /\ Len(<<>>) = 0
BY DEF IsListOf, IsInjective, Range

\* insertProcQ of a PCB that is not in the queue adds it, once.
LEMMA InsertProcQLemma ==
  ASSUME NEW S, NEW q, IsListOf(q, S), NEW p \in S, p \notin Range(q)
  PROVE  /\ IsListOf(InsertProcQ(q, p), S)
         /\ Range(InsertProcQ(q, p)) = Range(q) \cup {p}
         /\ Len(InsertProcQ(q, p)) = Len(q) + 1
BY DEF IsListOf, IsInjective, InsertProcQ, Range

\* insertChild of a PCB that is not in the list adds it, once.
LEMMA InsertChildLemma ==
  ASSUME NEW S, NEW q, IsListOf(q, S), NEW p \in S, p \notin Range(q)
  PROVE  /\ IsListOf(InsertChild(q, p), S)
         /\ Range(InsertChild(q, p)) = Range(q) \cup {p}
         /\ Len(InsertChild(q, p)) = Len(q) + 1
<1> DEFINE r == InsertChild(q, p)
<1>1. /\ r \in Seq(S) 
      /\ Len(r) = Len(q) + 1
      /\ \A i \in 1..Len(r) : r[i] = IF i = 1 THEN p ELSE q[i - 1]
  BY DEF InsertChild, IsListOf
<1> HIDE DEF r
<1>2. IsInjective(r)
  <2>1. SUFFICES ASSUME NEW i \in 1..Len(r), NEW j \in 1..Len(r), r[i] = r[j]
                 PROVE  i = j
    BY <1>1 DEF IsInjective
  <2>2. q \in Seq(S) /\ Len(q) \in Nat /\ DOMAIN q = 1..Len(q) /\ IsInjective(q)
    BY DEF IsListOf
  <2>3. \A x \in 1..Len(r) : x # 1 => x - 1 \in DOMAIN q /\ r[x] = q[x - 1] /\ r[x] # p
    BY <1>1, <2>2 DEF Range
  <2>4. CASE i = 1 \/ j = 1
    BY <1>1, <2>1, <2>3, <2>4
  <2>5. CASE i # 1 /\ j # 1
    <3>1. q[i - 1] = q[j - 1] /\ i - 1 \in DOMAIN q /\ j - 1 \in DOMAIN q
      BY <2>1, <2>3, <2>5
    <3>2. i - 1 = j - 1
      BY <2>2, <3>1 DEF IsInjective
    <3> QED BY <1>1, <3>2
  <2> QED BY <2>4, <2>5
<1>3. Range(r) = Range(q) \cup {p}
  <2>1. Range(r) \subseteq Range(q) \cup {p}
    BY <1>1 DEF IsListOf, Range
  <2>2. p \in Range(r)
    BY <1>1 DEF IsListOf, Range
  <2>3. Range(q) \subseteq Range(r)
    <3>1. SUFFICES ASSUME NEW i \in 1..Len(q) PROVE q[i] \in Range(r)
      BY DEF IsListOf, Range
    <3>2. i + 1 \in 1..Len(r) /\ r[i + 1] = q[i]
      BY <1>1 DEF IsListOf
    <3>3. DOMAIN r = 1..Len(r)
      BY <1>1
    <3> QED BY <3>2, <3>3 DEF Range
  <2> QED BY <2>1, <2>2, <2>3
<1> QED BY <1>1, <1>2, <1>3 DEF r, IsListOf

\* removeProcQ and removeChild take the head out, and only the head.
LEMMA RemoveProcQLemma ==
  ASSUME NEW S, NEW q, IsListOf(q, S), q # <<>>
  PROVE  /\ Head(q) \in S
         /\ Head(q) \in Range(q)
         /\ IsListOf(RemoveProcQ(q), S)
         /\ Range(RemoveProcQ(q)) = Range(q) \ {Head(q)}
         /\ Len(RemoveProcQ(q)) = Len(q) - 1
<1> DEFINE r == RemoveProcQ(q)
<1>1. /\ Len(q) > 0 /\ Head(q) = q[1] /\ q[1] \in S /\ q[1] \in Range(q)
      /\ r \in Seq(S)
      /\ Len(r) = Len(q) - 1
      /\ \A i \in 1..Len(r) : r[i] = q[i + 1]
  BY DEF RemoveProcQ, IsListOf, Range
<1> HIDE DEF r
<1>i. /\ DOMAIN q = 1..Len(q) /\ Len(q) \in Nat /\ DOMAIN r = 1..Len(r)
      /\ \A i, j \in 1..Len(q) : q[i] = q[j] => i = j
  BY <1>1 DEF IsListOf, IsInjective
<1>2. IsInjective(r)
  BY <1>1, <1>i DEF IsInjective
<1>3. Range(r) = Range(q) \ {Head(q)}
  <2>1. Range(r) \subseteq Range(q) \ {q[1]}
    BY <1>1, <1>i DEF Range
  <2>2. ASSUME NEW i \in 1..Len(q), q[i] # q[1] PROVE q[i] \in Range(r)
    <3>1. i - 1 \in 1..Len(r) /\ r[i - 1] = q[i]
      BY <1>1, <1>i, <2>2
    <3> QED BY <1>i, <3>1 DEF Range
  <2>3. Range(q) \ {q[1]} \subseteq Range(r)
    BY <1>i, <2>2 DEF Range
  <2> QED BY <1>1, <2>1, <2>3
<1> QED BY <1>1, <1>2, <1>3 DEF r, IsListOf

\* outChild takes p out, and only p.
LEMMA UnlinkLemma ==
  ASSUME NEW S, NEW q, IsListOf(q, S), NEW p, p \in Range(q)
  PROVE  /\ IsListOf(Unlink(q, p), S)
         /\ Range(Unlink(q, p)) = Range(q) \ {p}
         /\ Len(Unlink(q, p)) = Len(q) - 1
<1> DEFINE r  == Unlink(q, p)
           at == CHOOSE i \in 1..Len(q) : q[i] = p
<1>0. q \in Seq(S) /\ Len(q) \in Nat /\ DOMAIN q = 1..Len(q)
  BY DEF IsListOf
<1>1. at \in 1..Len(q) /\ q[at] = p
  BY <1>0 DEF Range
<1>2. r = [i \in 1..(Len(q) - 1) |-> IF i < at THEN q[i] ELSE q[i + 1]]
  BY DEF Unlink
<1> HIDE DEF at
<1>3. /\ r \in Seq(S) 
      /\ Len(r) = Len(q) - 1
      /\ \A i \in 1..Len(r) : r[i] = IF i < at THEN q[i] ELSE q[i + 1]
  <2>1. \A i \in 1..(Len(q) - 1) : (IF i < at THEN q[i] ELSE q[i + 1]) \in S
    BY <1>0, <1>1
  <2>2. r \in [1..(Len(q) - 1) -> S]
    BY <1>2, <2>1
  <2>3. Len(q) - 1 \in Nat
    BY <1>0, <1>1
  <2> QED BY <1>2, <2>2, <2>3
<1> HIDE DEF r
<1>4. IsInjective(r)
  <2> DEFINE k(i) == IF i < at THEN i ELSE i + 1
  <2>1. SUFFICES ASSUME NEW i \in 1..Len(r), NEW j \in 1..Len(r), r[i] = r[j]
                 PROVE  i = j
    BY <1>3 DEF IsInjective
  <2>2. \A x \in 1..Len(r) : r[x] = q[k(x)] /\ k(x) \in 1..Len(q)
    BY <1>0, <1>1, <1>3
  <2>3. q[k(i)] = q[k(j)] /\ k(i) \in DOMAIN q /\ k(j) \in DOMAIN q
    BY <1>0, <2>1, <2>2
  <2>4. k(i) = k(j)
    BY <2>3 DEF IsListOf, IsInjective
  <2> QED BY <1>1, <1>3, <2>4
<1>5. Range(r) = Range(q) \ {p}
  <2>1. Range(r) \subseteq Range(q) \ {p}
    BY <1>0, <1>1, <1>3 DEF IsListOf, IsInjective, Range
  <2>2. SUFFICES ASSUME NEW i \in 1..Len(q), q[i] # p PROVE q[i] \in Range(r)
    BY <1>0, <2>1 DEF Range
  <2>3. CASE i < at
    BY <1>0, <1>1, <1>3, <2>3 DEF Range
  <2>4. CASE i > at
    <3>1. i - 1 \in 1..Len(r) /\ r[i - 1] = q[i]
      BY <1>0, <1>1, <1>3, <2>4
    <3> QED BY <1>3, <3>1 DEF Range
  <2> QED BY <1>1, <2>2, <2>3, <2>4
<1> QED BY <1>3, <1>4, <1>5 DEF r, IsListOf

\* outProcQ takes p out, and only p: whatever the order it leaves.
LEMMA OutProcQLemma ==
  ASSUME NEW S, NEW q, IsListOf(q, S), NEW p, p \in Range(q)
  PROVE  /\ IsListOf(OutProcQ(q, p), S)
         /\ Range(OutProcQ(q, p)) = Range(q) \ {p}
         /\ Len(OutProcQ(q, p)) = Len(q) - 1
<1>1. CASE Len(q) > 1 /\ q[Len(q)] = p
  <2> DEFINE n == Len(q)
             r == OutProcQ(q, p)
  <2>0. q \in Seq(S) /\ n \in Nat /\ n > 1 /\ DOMAIN q = 1..n /\ q[n] = p
    BY <1>1 DEF IsListOf
  <2>1. r = [i \in 1..(n - 1) |-> IF i = n - 1 THEN q[1] ELSE q[i + 1]]
    BY <1>1 DEF OutProcQ
  <2> HIDE DEF n
  <2>2. /\ r \in Seq(S) 
        /\ Len(r) = n - 1
        /\ \A i \in 1..Len(r) : r[i] = IF i = n - 1 THEN q[1] ELSE q[i + 1]
    <3>1. r \in [1..(n - 1) -> S]
      BY <2>0, <2>1
    <3> QED BY <2>0, <2>1, <3>1
  <2> HIDE DEF r
  <2> DEFINE from(i) == IF i = n - 1 THEN 1 ELSE i + 1
  <2>d. /\ \A i \in 1..Len(r) : r[i] = q[from(i)] /\ from(i) \in 1..n
        /\ \A i \in 1..Len(r) : from(i) # n
        /\ \A i, j \in 1..Len(r) : from(i) = from(j) => i = j
    BY <2>0, <2>2
  <2> HIDE DEF from
  <2>i. \A i, j \in 1..n : q[i] = q[j] => i = j
    BY <2>0 DEF IsListOf, IsInjective
  <2>3. IsInjective(r)
    BY <2>2, <2>d, <2>i DEF IsInjective
  <2>4. Range(r) = Range(q) \ {p}
    <3>1. Range(r) \subseteq Range(q) \ {p}
      BY <2>0, <2>2, <2>d, <2>i DEF Range
    <3>2. SUFFICES ASSUME NEW i \in 1..n, q[i] # p PROVE q[i] \in Range(r)
      BY <2>0, <3>1 DEF Range
    <3>3. CASE i = 1
      <4>1. n - 1 \in 1..Len(r) /\ r[n - 1] = q[1]
        BY <2>0, <2>2
      <4> QED BY <2>2, <3>3, <4>1 DEF Range
    <3>4. CASE i > 1
      <4>1. i - 1 \in 1..Len(r) /\ r[i - 1] = q[i]
        BY <2>0, <2>2, <3>2, <3>4
      <4> QED BY <2>2, <4>1 DEF Range
    <3> QED BY <3>2, <3>3, <3>4
  <2> QED BY <2>2, <2>3, <2>4 DEF n, r, IsListOf
<1>2. CASE ~(Len(q) > 1 /\ q[Len(q)] = p)
  BY <1>2, UnlinkLemma DEF OutProcQ
<1> QED BY <1>1, <1>2

\* outProcQ leaves a queue that does not hold p alone.
LEMMA OutProcQAbsent ==
  ASSUME NEW S, NEW q, IsListOf(q, S), NEW p, p \notin Range(q)
  PROVE  OutProcQ(q, p) = q
BY DEF OutProcQ, Unlink, Range, IsListOf

\* A list is a list of any set that holds its elements.
LEMMA ListOfRange ==
  ASSUME NEW S, NEW T, NEW q, IsListOf(q, S)
  PROVE  /\ q \in Seq(S) /\ Len(q) \in Nat /\ Range(q) \subseteq S
         /\ Range(q) \subseteq T => IsListOf(q, T)
         /\ q = <<>> <=> Range(q) = {}
         /\ q = <<>> <=> Len(q) = 0
<1>1. q \in Seq(S) /\ Len(q) \in Nat /\ DOMAIN q = 1..Len(q) /\ Range(q) \subseteq S
  BY DEF IsListOf, Range
<1>2. ASSUME Range(q) \subseteq T PROVE q \in Seq(T)
  <2>1. \A i \in 1..Len(q) : q[i] \in T
    BY <1>1, <1>2 DEF Range
  <2>2. q \in [1..Len(q) -> T]
    BY <1>1, <2>1
  <2> QED BY <1>1, <2>2
<1>3. q = <<>> <=> Len(q) = 0
  BY <1>1
<1>4. ASSUME q # <<>> PROVE Range(q) # {}
  <2>1. 1 \in DOMAIN q
    BY <1>1, <1>3, <1>4
  <2> QED BY <2>1 DEF Range
<1> QED BY <1>1, <1>2, <1>3, <1>4, EmptyList DEF IsListOf

\* One list after another that shares no element with it.
LEMMA ConcatLemma ==
  ASSUME NEW S, NEW q, IsListOf(q, S), NEW r, IsListOf(r, S),
         Range(q) \cap Range(r) = {}
  PROVE  /\ IsListOf(q \o r, S)
         /\ Range(q \o r) = Range(q) \cup Range(r)
         /\ Len(q \o r) = Len(q) + Len(r)
<1> DEFINE c == q \o r
<1>1. /\ q \in Seq(S) /\ Len(q) \in Nat /\ DOMAIN q = 1..Len(q)
      /\ r \in Seq(S) /\ Len(r) \in Nat /\ DOMAIN r = 1..Len(r)
  BY DEF IsListOf
<1>2. /\ c \in Seq(S) /\ Len(c) = Len(q) + Len(r) /\ DOMAIN c = 1..Len(c)
      /\ \A i \in 1..Len(c) : c[i] = IF i <= Len(q) THEN q[i] ELSE r[i - Len(q)]
  BY <1>1
<1> HIDE DEF c
<1>3. \A i \in 1..Len(q), j \in 1..Len(r) : q[i] # r[j]
  BY <1>1 DEF Range
<1>4. /\ \A i, j \in 1..Len(q) : q[i] = q[j] => i = j
      /\ \A i, j \in 1..Len(r) : r[i] = r[j] => i = j
  BY <1>1 DEF IsListOf, IsInjective
<1>5. IsInjective(c)
  <2>1. SUFFICES ASSUME NEW i \in 1..Len(c), NEW j \in 1..Len(c), c[i] = c[j]
                 PROVE  i = j
    BY <1>2 DEF IsInjective
  <2>a. \A k \in 1..Len(c) :
          k > Len(q) => k - Len(q) \in 1..Len(r) /\ c[k] = r[k - Len(q)]
    BY <1>1, <1>2
  <2>b. \A k \in 1..Len(c) : k <= Len(q) => k \in 1..Len(q) /\ c[k] = q[k]
    BY <1>1, <1>2
  <2>2. CASE i <= Len(q) /\ j <= Len(q)
    BY <1>4, <2>1, <2>2, <2>b
  <2>3. CASE i > Len(q) /\ j > Len(q)
    <3>1. i - Len(q) = j - Len(q)
      BY <1>4, <2>1, <2>3, <2>a
    <3> QED BY <1>1, <1>2, <3>1
  <2>4. CASE i <= Len(q) /\ j > Len(q)
    BY <1>3, <2>1, <2>4, <2>a, <2>b
  <2>5. CASE i > Len(q) /\ j <= Len(q)
    BY <1>3, <2>1, <2>5, <2>a, <2>b
  <2> QED BY <1>1, <1>2, <2>1, <2>2, <2>3, <2>4, <2>5
<1>6. Range(c) = Range(q) \cup Range(r)
  BY <1>1, RangeConcatenation DEF c
<1> QED BY <1>2, <1>5, <1>6 DEF c, IsListOf

\* The last element of a list, and the list without it.
LEMMA FrontLemma ==
  ASSUME NEW S, NEW q, IsListOf(q, S), q # <<>>
  PROVE  LET r == SubSeq(q, 1, Len(q) - 1)
         IN  /\ q[Len(q)] \in S /\ q[Len(q)] \in Range(q)
             /\ IsListOf(r, S)
             /\ Range(r) = Range(q) \ {q[Len(q)]}
             /\ Len(r) = Len(q) - 1
             /\ Len(q) > 1 => r[1] = q[1]
<1> DEFINE n == Len(q)
           r == SubSeq(q, 1, n - 1)
<1>1. q \in Seq(S) /\ n \in Nat /\ n > 0 /\ DOMAIN q = 1..n /\ q \in [1..n -> S]
  BY DEF IsListOf
<1>2. \A i, j \in 1..n : q[i] = q[j] => i = j
  BY <1>1 DEF IsListOf, IsInjective
<1>3. /\ r \in Seq(S) /\ Len(r) = n - 1 /\ DOMAIN r = 1..(n - 1)
      /\ \A i \in 1..(n - 1) : r[i] = q[i]
  BY <1>1
<1> HIDE DEF n, r
<1>4. IsInjective(r)
  BY <1>1, <1>2, <1>3 DEF IsInjective
<1>5. Range(r) = Range(q) \ {q[n]}
  <2>1. Range(r) \subseteq Range(q) \ {q[n]}
    BY <1>1, <1>2, <1>3 DEF Range
  <2>2. ASSUME NEW i \in 1..n, q[i] # q[n] PROVE q[i] \in Range(r)
    <3>1. i \in 1..(n - 1)
      BY <1>1, <2>2
    <3> QED BY <1>3, <3>1 DEF Range
  <2> QED BY <1>1, <2>1, <2>2 DEF Range
<1>6. q[n] \in S /\ q[n] \in Range(q) /\ (n > 1 => r[1] = q[1])
  BY <1>1, <1>3 DEF Range
<1> QED BY <1>3, <1>4, <1>5, <1>6 DEF n, r, IsListOf

\* A list has as many elements as its set.
LEMMA ListCardinality ==
  ASSUME NEW S, NEW q, IsListOf(q, S)
  PROVE  IsFiniteSet(Range(q)) /\ Cardinality(Range(q)) = Len(q)
<1>1. q \in Seq(S) /\ Len(q) \in Nat /\ DOMAIN q = 1..Len(q) /\ IsInjective(q)
  BY DEF IsListOf
<1>2. IsFiniteSet(1..Len(q)) /\ Cardinality(1..Len(q)) = Len(q)
  <2>1. 1 \in Int /\ Len(q) \in Int
    BY <1>1
  <2>2. IsFiniteSet(1..Len(q))
    BY <2>1, FS_Interval
  <2>3. Cardinality(1..Len(q)) = IF 1 > Len(q) THEN 0 ELSE Len(q) - 1 + 1
    BY <2>1, FS_Interval
  <2> QED BY <1>1, <2>2, <2>3
<1>3. q \in Bijection(1..Len(q), Range(q))
  <2>1. q \in [1..Len(q) -> Range(q)]
    BY <1>1 DEF Range
  <2>2. q \in Injection(1..Len(q), Range(q))
    BY <1>1, <2>1 DEF Injection, IsInjective
  <2>3. q \in Surjection(1..Len(q), Range(q))
    BY <1>1, <2>1 DEF Surjection, Range
  <2> QED BY <2>2, <2>3 DEF Bijection
<1> QED BY <1>2, <1>3, FS_Bijection DEF ExistsBijection

\* A nonempty set of numbers has a smallest element.
LEMMA Smallest ==
  ASSUME NEW T, T \subseteq Nat, T # {}
  PROVE  \E m \in T : \A k \in T : m <= k
<1> DEFINE R == {xy \in Nat \X Nat : xy[1] < xy[2]}
<1>1. IsWellFoundedOn(R, Nat)
  BY NatLessThanWellFounded DEF OpToRel
<1>2. \E m \in T : \A k \in T : <<k, m>> \notin R
  <2> HIDE DEF R
  <2> QED BY <1>1, WFMin
<1>3. \A k, m \in T : <<k, m>> \in R <=> k < m
  OBVIOUS
<1> HIDE DEF R
<1>4. PICK m \in T : \A k \in T : ~(k < m)
  BY <1>2, <1>3
<1>5. \A k \in T : m <= k
  BY <1>4
<1> QED BY <1>5
====
