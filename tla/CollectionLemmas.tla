------------------------- MODULE CollectionLemmas --------------------------
(***************************************************************************)
(* Sums over finite sets.  MapThenSumSet, with which the exposure of a     *)
(* currency and the trades saved of all days are summed up, takes the      *)
(* elements of its set in an order of its own.  The lemmas show that it    *)
(* is well defined, that the order does not matter, and what one element   *)
(* more or another value of one element changes.  The others are about     *)
(* lists whose elements are of no particular type, about intervals, the    *)
(* greatest and the least of a set of numbers, and about FoldLeft, whose   *)
(* recursion over sets of indices is shown to have a table.                *)
(***************************************************************************)
EXTENDS Integers, Sequences, FiniteSets, FiniteSetsExt, FiniteSetTheorems, TLAPS

\* The element that is taken next.
Some(s) == CHOOSE x \in s : TRUE

\* h gives for each subset of T the sum of f over it.
Sums(h, f, T) ==
    h = [s \in SUBSET T |->
           IF s = {} THEN 0 ELSE f[Some(s)] + h[s \ {Some(s)}]]

SumOf(f, T) == (CHOOSE h : Sums(h, f, T))[T]

-----------------------------------------------------------------------------
(* The recursion is well founded.                                          *)

\* It is one of them.
LEMMA SomeIsElement == \A s : s # {} => Some(s) \in s
BY DEF Some

\* Among the subsets of a finite set there is always a smallest.
LEMMA SmallestSubset ==
    ASSUME NEW T, IsFiniteSet(T), NEW B, B \subseteq SUBSET T, B # {}
    PROVE  \E s \in B : \A u \in SUBSET s : u # s => u \notin B
<1> DEFINE R == StrictSubsetOrdering(T)
<1>1. IsWellFoundedOn(R, SUBSET T)
  BY FS_StrictSubsetOrderingWellFounded, FS_FiniteSubsetsOfFinite
<1> HIDE DEF R
<1>2. PICK s \in B : \A u \in B : ~ (<<u, s>> \in R)
  BY <1>1, WFMin
<1>3. \A u \in SUBSET s : u # s /\ u \in B => <<u, s>> \in R
  BY DEF R, StrictSubsetOrdering
<1>4. \A u \in SUBSET s : u # s => u \notin B
  BY <1>2, <1>3
<1> QED
  BY <1>4

\* The equations a table of sums obeys.
LEMMA SumEquations ==
    ASSUME NEW T, NEW f, NEW h, Sums(h, f, T), NEW s \in SUBSET T
    PROVE  /\ s = {} => h[s] = 0
           /\ s # {} => /\ Some(s) \in s
                        /\ h[s] = f[Some(s)] + h[s \ {Some(s)}]
BY SomeIsElement DEF Sums

\* Two tables agree where what they sum agrees.
LEMMA SumsAgree ==
    ASSUME NEW T, IsFiniteSet(T), NEW U, T \subseteq U, NEW f, NEW g, NEW h, NEW k,
           Sums(h, f, T), Sums(k, g, U), \A x \in T : f[x] = g[x]
    PROVE  \A s \in SUBSET T : h[s] = k[s]
<1> DEFINE B == {s \in SUBSET T : h[s] # k[s]}
<1> SUFFICES ASSUME B # {} PROVE FALSE
  OBVIOUS
<1>1. PICK s \in B : \A u \in SUBSET s : u # s => u \notin B
  <2>1. B \subseteq SUBSET T
    OBVIOUS
  <2> HIDE DEF B
  <2> QED
    BY <2>1, SmallestSubset
<1>2. s \in SUBSET T /\ s \in SUBSET U /\ h[s] # k[s]
  OBVIOUS
<1>3. s # {}
  BY <1>2, SumEquations
<1> DEFINE x == Some(s)
           r == s \ {x}
<1>4. x \in T /\ h[s] = f[x] + h[r] /\ k[s] = g[x] + k[r] /\ x \in s
  <2>1. x \in s /\ h[s] = f[x] + h[r]
    BY <1>2, <1>3, SumEquations
  <2>2. k[s] = g[x] + k[r]
    BY <1>2, <1>3, SumEquations
  <2> QED
    BY <1>2, <2>1, <2>2
<1> HIDE DEF x
<1>5. r \in SUBSET s /\ r # s /\ r \in SUBSET T
  BY <1>2, <1>4
<1>6. h[r] = k[r]
  BY <1>1, <1>5
<1> QED
  BY <1>2, <1>4, <1>6

\* Every finite set has a table.
LEMMA SumsExist ==
    ASSUME NEW T, IsFiniteSet(T), NEW f
    PROVE  \E h : Sums(h, f, T)
<1> DEFINE B == {u \in SUBSET T : ~ \E h : Sums(h, f, u)}
<1> SUFFICES ASSUME T \in B PROVE FALSE
  OBVIOUS
<1>1. PICK u \in B : \A w \in SUBSET u : w # u => w \notin B
  <2>1. B \subseteq SUBSET T /\ B # {}
    OBVIOUS
  <2> HIDE DEF B
  <2> QED
    BY <2>1, SmallestSubset
<1>2. u \in SUBSET T /\ ~ \E h : Sums(h, f, u)
  OBVIOUS
<1> DEFINE H(w) == CHOOSE h : Sums(h, f, w)
           v(w) == H(w)[w]
<1>3. ASSUME NEW w \in SUBSET u, w # u PROVE Sums(H(w), f, w) /\ IsFiniteSet(w)
  <2>1. \E h : Sums(h, f, w)
    BY <1>1, <1>2, <1>3
  <2>2. Sums(H(w), f, w)
    BY <2>1, Zenon
  <2> QED
    BY <1>2, <2>2, FS_Subset
<1> HIDE DEF H
<1> DEFINE k == [s \in SUBSET u |->
                   IF s = {} THEN 0 ELSE f[Some(s)] + v(s \ {Some(s)})]
<1>4. ASSUME NEW w \in SUBSET u, w # u PROVE k[w] = v(w)
  <2>1. Sums(H(w), f, w)
    BY <1>3, <1>4
  <2>2. CASE w = {}
    BY <2>1, <2>2, SumEquations
  <2>3. CASE w # {}
    <3> DEFINE z == w \ {Some(w)}
    <3>1. H(w)[w] = f[Some(w)] + H(w)[z] /\ Some(w) \in w
      BY <2>1, <2>3, SumEquations
    <3>2. z \in SUBSET u /\ z # u /\ z \subseteq w
      BY <3>1
    <3>3. Sums(H(z), f, z) /\ IsFiniteSet(z)
      BY <1>3, <3>2
    <3>4. \A s \in SUBSET z : H(z)[s] = H(w)[s]
      BY <2>1, <3>2, <3>3, SumsAgree
    <3>5. H(z)[z] = H(w)[z]
      BY <3>4
    <3> QED
      BY <2>3, <3>1, <3>5
  <2> QED
    BY <2>2, <2>3
<1>5. ASSUME NEW s \in SUBSET u, s # {}
      PROVE  v(s \ {Some(s)}) = k[s \ {Some(s)}]
  <2> DEFINE w == s \ {Some(s)}
  <2>1. w \in SUBSET u /\ w # u
    BY <1>5, SomeIsElement
  <2> QED
    BY <1>4, <2>1
<1>6. k = [s \in SUBSET u |->
             IF s = {} THEN 0 ELSE f[Some(s)] + k[s \ {Some(s)}]]
  BY <1>5
<1>7. Sums(k, f, u)
  BY <1>6 DEF Sums
<1> QED
  BY <1>2, <1>7

-----------------------------------------------------------------------------
(* The order does not matter.                                              *)

\* Sums of integers are integers.
LEMMA SumsAreIntegers ==
    ASSUME NEW T, IsFiniteSet(T), NEW f, NEW h, Sums(h, f, T),
           \A x \in T : f[x] \in Int
    PROVE  \A s \in SUBSET T : h[s] \in Int
<1> DEFINE B == {s \in SUBSET T : h[s] \notin Int}
<1> SUFFICES ASSUME B # {} PROVE FALSE
  OBVIOUS
<1>1. PICK s \in B : \A u \in SUBSET s : u # s => u \notin B
  <2>1. B \subseteq SUBSET T
    OBVIOUS
  <2> HIDE DEF B
  <2> QED
    BY <2>1, SmallestSubset
<1>2. s \in SUBSET T /\ h[s] \notin Int
  OBVIOUS
<1>3. s # {}
  <2>1. s = {} => h[s] = 0
    BY <1>2, SumEquations
  <2> QED
    BY <1>2, <2>1
<1> DEFINE x == Some(s)
           r == s \ {x}
<1>4. x \in s /\ h[s] = f[x] + h[r]
  BY <1>2, <1>3, SumEquations
<1> HIDE DEF x
<1>5. r \in SUBSET s /\ r # s /\ r \in SUBSET T
  BY <1>2, <1>4
<1>6. h[r] \in Int
  BY <1>1, <1>5
<1> QED
  BY <1>2, <1>4, <1>6

\* Any element may be taken first.
LEMMA AnyElementFirst ==
    ASSUME NEW T, IsFiniteSet(T), NEW f, NEW h, Sums(h, f, T),
           \A x \in T : f[x] \in Int
    PROVE  \A s \in SUBSET T : \A y \in s : h[s] = f[y] + h[s \ {y}]
<1> DEFINE B == {s \in SUBSET T : \E y \in s : h[s] # f[y] + h[s \ {y}]}
<1> SUFFICES ASSUME B # {} PROVE FALSE
  OBVIOUS
<1>1. PICK s \in B : \A u \in SUBSET s : u # s => u \notin B
  <2>1. B \subseteq SUBSET T
    OBVIOUS
  <2> HIDE DEF B
  <2> QED
    BY <2>1, SmallestSubset
<1>2. PICK y \in s : s \in SUBSET T /\ h[s] # f[y] + h[s \ {y}]
  OBVIOUS
<1> DEFINE x == Some(s)
           r == s \ {x}
           q == s \ {y}
           w == (s \ {x}) \ {y}
<1>3. x \in s /\ h[s] = f[x] + h[r]
  BY <1>2, SumEquations
<1> HIDE DEF x
<1>4. x # y
  BY <1>2, <1>3
<1>5. /\ r \in SUBSET s /\ r # s /\ r \in SUBSET T /\ y \in r
      /\ q \in SUBSET s /\ q # s /\ q \in SUBSET T /\ x \in q
      /\ r \ {y} = w /\ q \ {x} = w /\ w \in SUBSET T
  BY <1>2, <1>3, <1>4
<1>6. h[r] = f[y] + h[r \ {y}]
  BY <1>1, <1>5
<1>7. h[q] = f[x] + h[q \ {x}]
  BY <1>1, <1>5
<1>8. f[x] \in Int /\ f[y] \in Int /\ h[w] \in Int
  BY <1>2, <1>3, <1>5, SumsAreIntegers
<1>9. h[r] = f[y] + h[w] /\ h[q] = f[x] + h[w]
  BY <1>5, <1>6, <1>7
<1> HIDE DEF r, q, w
<1> QED
  BY <1>2, <1>3, <1>8, <1>9 DEF q

-----------------------------------------------------------------------------
(* What the models use.                                                    *)

\* SumOf is the value of the table.
LEMMA SumOfTable ==
    ASSUME NEW T, IsFiniteSet(T), NEW f
    PROVE  \E h : Sums(h, f, T) /\ SumOf(f, T) = h[T]
<1>1. \E h : Sums(h, f, T)
  BY SumsExist
<1>2. Sums(CHOOSE h : Sums(h, f, T), f, T)
  BY <1>1, Zenon
<1> QED
  BY <1>2 DEF SumOf

\* Nothing sums up to zero.
LEMMA SumOfNothing == ASSUME NEW f PROVE SumOf(f, {}) = 0
<1>1. PICK h : Sums(h, f, {}) /\ SumOf(f, {}) = h[{}]
  BY FS_EmptySet, SumOfTable
<1> QED
  BY <1>1, SumEquations

\* Integers sum up to an integer.
LEMMA SumOfIntegers ==
    ASSUME NEW T, IsFiniteSet(T), NEW f, \A x \in T : f[x] \in Int
    PROVE  SumOf(f, T) \in Int
<1>1. PICK h : Sums(h, f, T) /\ SumOf(f, T) = h[T]
  BY SumOfTable
<1>2. \A s \in SUBSET T : h[s] \in Int
  BY <1>1, SumsAreIntegers
<1> QED
  BY <1>1, <1>2

\* Only what is summed counts.
LEMMA SumOfSame ==
    ASSUME NEW T, IsFiniteSet(T), NEW f, NEW g, \A x \in T : f[x] = g[x]
    PROVE  SumOf(f, T) = SumOf(g, T)
<1>1. PICK h : Sums(h, f, T) /\ SumOf(f, T) = h[T]
  BY SumOfTable
<1>2. PICK k : Sums(k, g, T) /\ SumOf(g, T) = k[T]
  BY SumOfTable
<1>3. \A s \in SUBSET T : h[s] = k[s]
  BY <1>1, <1>2, SumsAgree
<1> QED
  BY <1>1, <1>2, <1>3

\* One element more adds its value.
LEMMA SumOfOneMore ==
    ASSUME NEW T, IsFiniteSet(T), NEW y, y \notin T, NEW f,
           \A x \in T \cup {y} : f[x] \in Int
    PROVE  SumOf(f, T \cup {y}) = f[y] + SumOf(f, T)
<1> DEFINE U == T \cup {y}
<1>1. IsFiniteSet(U)
  BY FS_AddElement
<1>2. U \ {y} = T /\ y \in U /\ T \subseteq U /\ \A x \in U : f[x] \in Int
  OBVIOUS
<1> HIDE DEF U
<1>3. PICK h : Sums(h, f, T) /\ SumOf(f, T) = h[T]
  BY SumOfTable
<1>4. PICK k : Sums(k, f, U) /\ SumOf(f, U) = k[U]
  BY <1>1, SumOfTable
<1>5. k[U] = f[y] + k[T]
  BY <1>1, <1>2, <1>4, AnyElementFirst
<1>6. k[T] = h[T]
  <2>1. \A s \in SUBSET T : h[s] = k[s]
    BY <1>2, <1>3, <1>4, SumsAgree
  <2> QED
    BY <2>1
<1> QED
  BY <1>3, <1>4, <1>5, <1>6 DEF U

\* So is what any table says.
LEMMA TablesAgree ==
    ASSUME NEW T, IsFiniteSet(T), NEW f, NEW h, Sums(h, f, T)
    PROVE  SumOf(f, T) = h[T]
<1>1. PICK k : Sums(k, f, T) /\ SumOf(f, T) = k[T]
  BY SumOfTable
<1>2. \A s \in SUBSET T : k[s] = h[s]
  BY <1>1, SumsAgree
<1> QED
  BY <1>1, <1>2
-----------------------------------------------------------------------------
(* Sequences whose elements are of no particular type.                     *)

Elems(s) == {s[i] : i \in DOMAIN s}
IsSeq(s) == s \in Seq(Elems(s))

\* The length, the domain and the elements of a sequence.
LEMMA SeqFacts ==
    ASSUME NEW s, IsSeq(s)
    PROVE  /\ Len(s) \in Nat /\ DOMAIN s = 1..Len(s)
           /\ s # <<>> => Len(s) > 0 /\ Head(s) \in Elems(s)
           /\ \A i \in 1..Len(s) : s[i] \in Elems(s)
BY DEF IsSeq, Elems

\* A sequence over a set is one over any set its elements are in.
LEMMA SeqWidens == ASSUME NEW S, NEW T, NEW s \in Seq(S), S \subseteq T
                   PROVE  s \in Seq(T)
OBVIOUS

\* A sequence is one over any set that holds its elements.
LEMMA SeqNarrows ==
    ASSUME NEW S, NEW T, NEW s \in Seq(S), \A i \in 1..Len(s) : s[i] \in T
    PROVE  s \in Seq(T)
OBVIOUS

\* A sequence with one element more.
LEMMA Appended ==
    ASSUME NEW s, IsSeq(s), NEW e
    PROVE  /\ IsSeq(Append(s, e)) /\ Elems(Append(s, e)) = Elems(s) \cup {e}
           /\ Len(Append(s, e)) = Len(s) + 1
           /\ \A i \in 1..Len(s) : Append(s, e)[i] = s[i]
           /\ Append(s, e)[Len(s) + 1] = e
<1> DEFINE S == Elems(s) \cup {e}
<1>1. s \in Seq(S)
  <2>1. s \in Seq(Elems(s)) /\ Elems(s) \subseteq S
    BY DEF IsSeq
  <2> QED
    BY <2>1, SeqWidens
<1>2. /\ Append(s, e) \in Seq(S) /\ Len(Append(s, e)) = Len(s) + 1
      /\ \A i \in 1..Len(s) : Append(s, e)[i] = s[i]
      /\ Append(s, e)[Len(s) + 1] = e
      /\ Len(s) \in Nat /\ DOMAIN s = 1..Len(s)
  BY <1>1
<1>3. Elems(Append(s, e)) = S
  BY <1>2 DEF Elems
<1> QED
  BY <1>2, <1>3 DEF IsSeq

\* A sequence without its first element.
LEMMA Tailed ==
    ASSUME NEW s, IsSeq(s), s # <<>>
    PROVE  IsSeq(Tail(s)) /\ Elems(Tail(s)) \subseteq Elems(s)
<1>1. /\ Tail(s) \in Seq(Elems(s)) /\ Len(Tail(s)) = Len(s) - 1
      /\ \A i \in 1..Len(Tail(s)) : Tail(s)[i] = s[i + 1]
      /\ Len(s) \in Nat
  BY DEF IsSeq
<1>2. DOMAIN Tail(s) = 1..Len(Tail(s))
  BY <1>1
<1>3. Elems(Tail(s)) \subseteq Elems(s)
  BY <1>1, <1>2, SeqFacts DEF Elems
<1>4. \A i \in 1..Len(Tail(s)) : Tail(s)[i] \in Elems(Tail(s))
  BY <1>2 DEF Elems
<1> QED
  BY <1>1, <1>3, <1>4, SeqNarrows DEF IsSeq

\* The empty sequence.
LEMMA EmptyIsSeq == IsSeq(<<>>) /\ Elems(<<>>) = {} /\ Len(<<>>) = 0
BY DEF IsSeq, Elems

\* A function over 1..n is a list of length n.
LEMMA ListIsSeq ==
    ASSUME NEW n \in Nat, NEW f, f = [k \in 1..n |-> f[k]]
    PROVE  IsSeq(f) /\ Len(f) = n /\ DOMAIN f = 1..n
BY DEF IsSeq, Elems

\* What is left of a list without its first element.
LEMMA Rest ==
    ASSUME NEW s, IsSeq(s), s # <<>>
    PROVE  /\ IsSeq(Tail(s)) /\ Len(Tail(s)) = Len(s) - 1 /\ Head(s) = s[1]
           /\ \A i \in 1..Len(s) - 1 : Tail(s)[i] = s[i + 1]
           /\ Len(s) \in Nat \ {0} /\ DOMAIN s = 1..Len(s)
<1>1. s \in Seq(Elems(s))
  BY DEF IsSeq
<1>2. IsSeq(Tail(s))
  BY Tailed
<1> QED
  BY <1>1, <1>2

\* One list after another.
LEMMA Joined ==
    ASSUME NEW s, IsSeq(s), NEW t, IsSeq(t)
    PROVE  /\ IsSeq(s \o t) /\ Len(s \o t) = Len(s) + Len(t)
           /\ \A i \in 1..Len(s) : (s \o t)[i] = s[i]
           /\ \A i \in 1..Len(t) : (s \o t)[Len(s) + i] = t[i]
<1> DEFINE S == Elems(s) \cup Elems(t)
<1>1. s \in Seq(S) /\ t \in Seq(S)
  BY SeqWidens DEF IsSeq
<1> HIDE DEF S
<1>2. /\ s \o t \in Seq(S) /\ Len(s \o t) = Len(s) + Len(t)
      /\ \A i \in 1..Len(s) : (s \o t)[i] = s[i]
      /\ \A i \in 1..Len(t) : (s \o t)[Len(s) + i] = t[i]
  BY <1>1
<1>3. \A i \in 1..Len(s \o t) : (s \o t)[i] \in Elems(s \o t)
  BY <1>2 DEF Elems
<1> QED
  BY <1>2, <1>3, SeqNarrows DEF IsSeq

\* A part of a list.
LEMMA Part ==
    ASSUME NEW s, IsSeq(s), NEW m \in 1..Len(s) + 1
    PROVE  IsSeq(SubSeq(s, m, Len(s))) /\ Len(SubSeq(s, m, Len(s))) = Len(s) - m + 1
<1> DEFINE t == SubSeq(s, m, Len(s))
<1>1. s \in Seq(Elems(s)) /\ Len(s) \in Nat
  BY DEF IsSeq
<1>2. t \in Seq(Elems(s)) /\ Len(t) = Len(s) - m + 1
  BY <1>1
<1>3. DOMAIN t = 1..Len(t)
  BY <1>2
<1>4. \A i \in 1..Len(t) : t[i] \in Elems(t)
  BY <1>3 DEF Elems
<1> QED
  BY <1>2, <1>4, SeqNarrows DEF IsSeq

-----------------------------------------------------------------------------
(* Intervals.                                                              *)

\* The numbers from a to b.
LEMMA IntervalSize ==
    ASSUME NEW a \in Int, NEW b \in Int, a <= b + 1
    PROVE  IsFiniteSet(a..b) /\ Cardinality(a..b) = b - a + 1
<1>1. IsFiniteSet(a..b) /\ Cardinality(a..b) = IF a > b THEN 0 ELSE b - a + 1
  BY FS_Interval
<1>2. CASE a > b
  <2>1. Cardinality(a..b) = 0
    BY <1>1, <1>2
  <2> QED
    BY <1>1, <1>2, <2>1
<1>3. CASE ~(a > b)
  <2>1. Cardinality(a..b) = b - a + 1
    BY <1>1, <1>3
  <2> QED
    BY <1>1, <2>1
<1> QED
  BY <1>2, <1>3

-----------------------------------------------------------------------------
(* The greatest, the least, and the first.                                 *)

\* A finite set of numbers has a greatest.
LEMMA Greatest ==
    ASSUME NEW S, IsFiniteSet(S), S \subseteq Int, S # {}
    PROVE  Max(S) \in S /\ \A y \in S : Max(S) >= y
<1> DEFINE B == {u \in SUBSET S : u # {} /\ \A x \in u : \E y \in u : ~(x >= y)}
<1>1. \E x \in S : \A y \in S : x >= y
  <2> SUFFICES ASSUME S \in B PROVE FALSE
    OBVIOUS
  <2>1. PICK u \in B : \A w \in SUBSET u : w # u => w \notin B
    <3>1. B \in SUBSET SUBSET S /\ B # {}
      OBVIOUS
    <3> HIDE DEF B
    <3>2. \A T, C : /\ IsFiniteSet(T) /\ C \subseteq SUBSET T /\ C # {}
                    => \E u \in C : \A w \in SUBSET u : w # u => w \notin C
      BY SmallestSubset, Zenon
    <3> QED
      BY <3>1, <3>2, Zenon
  <2>2. PICK x \in u : u \subseteq Int
    OBVIOUS
  <2> DEFINE w == u \ {x}
  <2>3. w \in SUBSET u /\ w # u /\ w \in SUBSET S
    OBVIOUS
  <2>4. w = {} \/ \E z \in w : \A y \in w : z >= y
    BY <2>1, <2>3
  <2>5. CASE w = {}
    <3>1. \A y \in u : y = x
      BY <2>5
    <3>2. x \in Int
      BY <2>2
    <3> QED
      BY <2>1, <3>1, <3>2
  <2>6. CASE \E z \in w : \A y \in w : z >= y
    <3>1. PICK z \in w : \A y \in w : z >= y
      BY <2>6
    <3>2. x \in Int /\ z \in Int /\ \A y \in u : y \in Int /\ (y = x \/ y \in w)
      BY <2>2, <2>3
    <3>3. \A y \in u : x >= y \/ z >= x
      BY <3>1, <3>2
    <3>4. CASE z >= x
      BY <2>1, <3>1, <3>2, <3>4
    <3>5. CASE x >= z
      <4>1. \A y \in u : x >= y
        BY <3>1, <3>2, <3>5
      <4> QED
        BY <2>1, <4>1
    <3> QED
      BY <3>2, <3>4, <3>5
  <2> QED
    BY <2>4, <2>5, <2>6
<1> QED
  BY <1>1 DEF Max

\* A finite set of numbers has a least.
LEMMA Least ==
    ASSUME NEW S, S \subseteq Int, IsFiniteSet(S), S # {}
    PROVE  Min(S) \in S /\ \A y \in S : Min(S) <= y
<1> DEFINE minus == {-x : x \in S}
<1>1. minus \subseteq Int /\ minus # {}
  <2>1. \A x \in S : -x \in Int
    OBVIOUS
  <2>2. minus \subseteq Int
    BY <2>1
  <2>3. PICK x \in S : TRUE
    OBVIOUS
  <2>4. -x \in minus
    OBVIOUS
  <2> QED
    BY <2>2, <2>4
<1>2. IsFiniteSet(minus)
  <2> DEFINE f == [x \in S |-> -x]
  <2>1. f \in Surjection(S, minus)
    BY DEF Surjection
  <2> QED
    BY <2>1, FS_Surjection
<1> HIDE DEF minus
<1>3. Max(minus) \in minus /\ \A y \in minus : Max(minus) >= y
  BY <1>1, <1>2, Greatest
<1>4. PICK m \in S : Max(minus) = -m
  BY <1>3 DEF minus
<1>5. \A y \in S : -y \in minus
  BY DEF minus
<1>6. \A y \in S : m <= y
  BY <1>3, <1>4, <1>5
<1> QED
  BY <1>6 DEF Min

\* What is in a set and not below any of it is its greatest, and the same for
\* the least.
LEMMA MaxIs ==
    ASSUME NEW S, S \subseteq Int, NEW m \in S, \A y \in S : m >= y PROVE Max(S) = m
<1>1. Max(S) \in S /\ \A y \in S : Max(S) >= y
  BY DEF Max
<1>2. Max(S) >= m /\ m >= Max(S) /\ Max(S) \in Int /\ m \in Int
  BY <1>1
<1> QED
  BY <1>2

\* What is in a set and not above any of it is its least.
LEMMA MinIs ==
    ASSUME NEW S, S \subseteq Int, NEW m \in S, \A y \in S : m <= y PROVE Min(S) = m
<1>1. Min(S) \in S /\ \A y \in S : Min(S) <= y
  BY DEF Min
<1>2. Min(S) <= m /\ m <= Min(S) /\ Min(S) \in Int /\ m \in Int
  BY <1>1
<1> QED
  BY <1>2

\* The last of the numbers from 1 to n.
LEMMA LastNumber ==
    ASSUME NEW n \in Nat \ {0}
    PROVE  Max(1..n) = n /\ (1..n) \ {n} = 1..(n - 1) /\ 1..n # {} /\ n \in 1..n
<1>1. 1..n \subseteq Int /\ n \in 1..n /\ \A y \in 1..n : n >= y
  OBVIOUS
<1>2. Max(1..n) = n
  BY <1>1, MaxIs
<1>3. (1..n) \ {n} = 1..(n - 1)
  OBVIOUS
<1> QED
  BY <1>1, <1>2, <1>3

\* Of the numbers up to n that fail a claim one is the first.
LEMMA FirstNumber ==
    ASSUME NEW n \in Nat, NEW B, B \subseteq 0..n, B # {}
    PROVE  \E m \in B : \A k \in B : m <= k
<1>1. IsFiniteSet(B) /\ B \subseteq Int
  <2>1. IsFiniteSet(0..n) /\ 0..n \subseteq Int
    BY FS_Interval
  <2>2. IsFiniteSet(B)
    BY <2>1, FS_Subset
  <2>3. B \subseteq Int
    BY <2>1
  <2> QED
    BY <2>2, <2>3
<1> QED
  BY <1>1, Least
-----------------------------------------------------------------------------
(* Folds over numbers.  FoldLeft takes the elements of a list from the last *)
(* to the first, in a recursion over sets of indices.  Such a recursion has *)
(* a table, if what is done in a step is given as a function.               *)

\* h gives for each subset of T what folding over it comes to.
FoldTable(h, base, step, T) ==
    h = [s \in SUBSET T |->
           IF s = {} THEN base ELSE step[<<h[s \ {Max(s)}], Max(s)>>]]

\* The last number of a set is one of its finite set of numbers.
LEMMA MaxIsElement ==
    ASSUME NEW T, IsFiniteSet(T), T \subseteq Int
    PROVE  \A s \in SUBSET T : s # {} => Max(s) \in s
<1> SUFFICES ASSUME NEW s \in SUBSET T, s # {} PROVE Max(s) \in s
  OBVIOUS
<1>1. IsFiniteSet(s) /\ s \subseteq Int
  BY FS_Subset
<1> QED
  BY <1>1, Greatest

\* Two tables agree on the sets both have.
LEMMA FoldsAgree ==
    ASSUME NEW U, IsFiniteSet(U), U \subseteq Int, NEW T, T \subseteq U, NEW base, NEW step,
           NEW h, NEW k, FoldTable(h, base, step, T), FoldTable(k, base, step, U)
    PROVE  h = [s \in SUBSET T |-> k[s]]
<1> DEFINE B == {s \in SUBSET T : h[s] # k[s]}
<1> SUFFICES ASSUME B # {} PROVE FALSE
  BY DEF FoldTable
<1>1. PICK s \in B : \A u \in SUBSET s : u # s => u \notin B
  <2>1. B \subseteq SUBSET T /\ IsFiniteSet(T)
    BY FS_Subset
  <2> HIDE DEF B
  <2>2. \A V, C : /\ IsFiniteSet(V) /\ C \subseteq SUBSET V /\ C # {}
                  => \E u \in C : \A w \in SUBSET u : w # u => w \notin C
    BY SmallestSubset, Zenon
  <2> QED
    BY <2>1, <2>2, Zenon
<1>2. s \in SUBSET T /\ s \in SUBSET U /\ h[s] # k[s]
  OBVIOUS
<1>3. s # {}
  BY <1>2 DEF FoldTable
<1> DEFINE x == Max(s)
           r == s \ {x}
<1>4. x \in s
  BY <1>2, <1>3, MaxIsElement
<1>5. h[s] = step[<<h[r], x>>] /\ k[s] = step[<<k[r], x>>]
  BY <1>2, <1>3 DEF FoldTable
<1> HIDE DEF x
<1>6. r \in SUBSET s /\ r # s /\ r \in SUBSET T
  BY <1>2, <1>4
<1>7. h[r] = k[r]
  BY <1>1, <1>6
<1> QED
  BY <1>2, <1>5, <1>7

\* Every finite set of numbers has a table.
LEMMA FoldsExist ==
    ASSUME NEW T, IsFiniteSet(T), T \subseteq Int, NEW base, NEW step
    PROVE  \E h : FoldTable(h, base, step, T)
<1> DEFINE B == {u \in SUBSET T : ~ \E h : FoldTable(h, base, step, u)}
<1> SUFFICES ASSUME T \in B PROVE FALSE
  OBVIOUS
<1>1. PICK u \in B : \A w \in SUBSET u : w # u => w \notin B
  <2>1. B \subseteq SUBSET T /\ B # {}
    OBVIOUS
  <2> HIDE DEF B
  <2>2. \A V, C : /\ IsFiniteSet(V) /\ C \subseteq SUBSET V /\ C # {}
                  => \E v \in C : \A w \in SUBSET v : w # v => w \notin C
    BY SmallestSubset, Zenon
  <2> QED
    BY <2>1, <2>2, Zenon
<1>2. u \in SUBSET T /\ ~ \E h : FoldTable(h, base, step, u)
  OBVIOUS
<1> DEFINE H(w) == CHOOSE h : FoldTable(h, base, step, w)
           v(w) == H(w)[w]
<1>3. ASSUME NEW w \in SUBSET u, w # u PROVE FoldTable(H(w), base, step, w)
  <2>1. \E h : FoldTable(h, base, step, w)
    BY <1>1, <1>2, <1>3
  <2> QED
    BY <2>1, Zenon
<1> HIDE DEF H
<1> DEFINE k == [s \in SUBSET u |->
                   IF s = {} THEN base ELSE step[<<v(s \ {Max(s)}), Max(s)>>]]
<1>4. ASSUME NEW w \in SUBSET u, w # u PROVE k[w] = v(w)
  <2>1. FoldTable(H(w), base, step, w)
    BY <1>3, <1>4
  <2>2. CASE w = {}
    BY <2>1, <2>2 DEF FoldTable
  <2>3. CASE w # {}
    <3> DEFINE z == w \ {Max(w)}
    <3>1. H(w)[w] = step[<<H(w)[z], Max(w)>>]
      BY <2>1, <2>3 DEF FoldTable
    <3>2. Max(w) \in w
      BY <1>2, <2>3, MaxIsElement
    <3>3. z \in SUBSET u /\ z # u /\ z \subseteq w
      BY <3>2
    <3>4. FoldTable(H(z), base, step, z)
      BY <1>3, <3>3
    <3>5. IsFiniteSet(w) /\ w \subseteq Int
      BY <1>2, FS_Subset
    <3>6. H(z) = [s \in SUBSET z |-> H(w)[s]]
      BY <2>1, <3>3, <3>4, <3>5, FoldsAgree
    <3>7. H(z)[z] = H(w)[z]
      BY <3>6
    <3> QED
      BY <2>3, <3>1, <3>7
  <2> QED
    BY <2>2, <2>3
<1>5. ASSUME NEW s \in SUBSET u, s # {} PROVE v(s \ {Max(s)}) = k[s \ {Max(s)}]
  <2> DEFINE w == s \ {Max(s)}
  <2>1. w \in SUBSET u /\ w # u
    BY <1>2, <1>5, MaxIsElement
  <2> QED
    BY <1>4, <2>1
<1>6. k = [s \in SUBSET u |->
             IF s = {} THEN base ELSE step[<<k[s \ {Max(s)}], Max(s)>>]]
  BY <1>5
<1>7. FoldTable(k, base, step, u)
  BY <1>6 DEF FoldTable
<1> QED
  BY <1>2, <1>7

\* What folding comes to is of a kind that each step keeps to.
LEMMA FoldsKeep ==
    ASSUME NEW T, IsFiniteSet(T), T \subseteq Int, NEW Kind, NEW base \in Kind,
           NEW step \in [Kind \X T -> Kind], NEW h, FoldTable(h, base, step, T)
    PROVE  h \in [SUBSET T -> Kind]
<1> DEFINE B == {s \in SUBSET T : h[s] \notin Kind}
<1> SUFFICES ASSUME B # {} PROVE FALSE
  BY DEF FoldTable
<1>1. PICK s \in B : \A u \in SUBSET s : u # s => u \notin B
  <2>1. B \subseteq SUBSET T
    OBVIOUS
  <2> HIDE DEF B
  <2>2. \A V, C : /\ IsFiniteSet(V) /\ C \subseteq SUBSET V /\ C # {}
                  => \E u \in C : \A w \in SUBSET u : w # u => w \notin C
    BY SmallestSubset, Zenon
  <2> QED
    BY <2>1, <2>2, Zenon
<1>2. s \in SUBSET T /\ h[s] \notin Kind
  OBVIOUS
<1>3. s # {}
  BY <1>2 DEF FoldTable
<1> DEFINE x == Max(s)
           r == s \ {x}
<1>4. x \in s
  BY <1>2, <1>3, MaxIsElement
<1>5. h[s] = step[<<h[r], x>>]
  BY <1>2, <1>3 DEF FoldTable
<1> HIDE DEF x
<1>6. r \in SUBSET s /\ r # s /\ r \in SUBSET T /\ x \in T
  BY <1>2, <1>4
<1>7. h[r] \in Kind
  BY <1>1, <1>6
<1> QED
  BY <1>2, <1>5, <1>6, <1>7

\* The elements of a list are finitely many.
LEMMA ElemsFinite == ASSUME NEW s, IsSeq(s) PROVE IsFiniteSet(Elems(s))
<1> DEFINE f == [i \in DOMAIN s |-> s[i]]
<1>1. IsFiniteSet(DOMAIN s)
  <2>1. Len(s) \in Nat /\ DOMAIN s = 1..Len(s)
    BY SeqFacts
  <2> QED
    BY <2>1, FS_Interval
<1>2. f \in Surjection(DOMAIN s, Elems(s))
  BY DEF Surjection, Elems
<1> QED
  BY <1>1, <1>2, FS_Surjection
=============================================================================
