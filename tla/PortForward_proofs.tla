-------------------------- MODULE PortForward_proofs --------------------------
(***************************************************************************)
(* Proofs about PortForward.                                               *)
(*                                                                         *)
(* The first part is about Among, the order-keeping filter the listings are *)
(* made with.  It is a recursive function, so what it returns is shown by  *)
(* induction; the induction principles are stated for sets (the set of the *)
(* numbers, or of the sequences, for which the fact holds), a form in which *)
(* they can be cited.                                                      *)
(*                                                                         *)
(* The second part is about the planner: loop by loop, which ports are left *)
(* of a list of ranges, what a node adds, what the whole list comes to.    *)
(* The third is about the packet filter the plan is put into.              *)
(***************************************************************************)
EXTENDS PortForward, PortPlanning, TLAPS, WellFoundedInduction, SequenceTheorems

-----------------------------------------------------------------------------
(* Induction.                                                              *)

\* Every nonempty set of naturals has a least element.
LEMMA LeastNat ==
    ASSUME NEW S \in SUBSET Nat, S # {}
    PROVE  \E x \in S : \A y \in S : x <= y
<1>1. PICK x \in S : \A y \in S : ~ (<<y, x>> \in OpToRel(<, Nat))
  BY WFMin, NatLessThanWellFounded
<1>2. ASSUME NEW y \in S PROVE ~ (y < x)
  <2>1. <<y, x>> \notin OpToRel(<, Nat)
    BY <1>1
  <2>2. y \in Nat /\ x \in Nat
    OBVIOUS
  <2> QED
    BY <2>1, <2>2 DEF OpToRel
<1>3. \A y \in S : x <= y
  BY <1>2
<1> QED
  BY <1>3

\* Induction over the naturals, for a set.
LEMMA SetInduction ==
    ASSUME NEW S, 0 \in S, \A n \in Nat : n \in S => n + 1 \in S
    PROVE  Nat \subseteq S
<1> SUFFICES ASSUME Nat \ S # {} PROVE FALSE
  OBVIOUS
<1>1. PICK x \in Nat \ S : \A y \in Nat \ S : x <= y
  BY LeastNat
<1>2. x - 1 \in Nat /\ ~ (x <= x - 1) /\ x = (x - 1) + 1
  OBVIOUS
<1> QED
  BY <1>1, <1>2

\* Induction over sequences that grow at the end, for a set.
LEMMA SeqInduction ==
    ASSUME NEW T, NEW S,
           <<>> \in S,
           \A s \in Seq(T), x \in T : s \in S => Append(s, x) \in S
    PROVE  Seq(T) \subseteq S
<1> DEFINE N == {n \in Nat : \A s \in Seq(T) : Len(s) = n => s \in S}
<1>1. 0 \in N
  OBVIOUS
<1>2. ASSUME NEW n \in Nat, n \in N PROVE n + 1 \in N
  <2> SUFFICES ASSUME NEW s \in Seq(T), Len(s) = n + 1 PROVE s \in S
    OBVIOUS
  <2> DEFINE p == SubSeq(s, 1, n)
  <2>1. p \in Seq(T) /\ Len(p) = n /\ s[n + 1] \in T
    OBVIOUS
  <2>2. s = Append(p, s[n + 1])
    OBVIOUS
  <2>3. p \in S
    BY <1>2, <2>1
  <2> QED
    BY <2>1, <2>2, <2>3
<1> HIDE DEF N
<1>3. Nat \subseteq N
  BY <1>1, <1>2, SetInduction
<1> QED
  BY <1>3 DEF N

-----------------------------------------------------------------------------
(* Sequences.                                                              *)

LEMMA AppendElements ==
    ASSUME NEW T, NEW s \in Seq(T), NEW x
    PROVE  ToSet(Append(s, x)) = ToSet(s) \cup {x}
<1> DEFINE t == Append(s, x)
<1>1. Len(t) = Len(s) + 1 /\ DOMAIN t = 1..(Len(s) + 1) /\ DOMAIN s = 1..Len(s) /\ Len(s) \in Nat
  OBVIOUS
<1>2. \A i \in 1..Len(s) : t[i] = s[i]
  OBVIOUS
<1>3. t[Len(s) + 1] = x
  OBVIOUS
<1> HIDE DEF t
<1>4. ToSet(t) = ToSet(s) \cup {x}
  BY <1>1, <1>2, <1>3 DEF ToSet
<1> QED
  BY <1>4 DEF t

\* The elements of two sequences in a row.
LEMMA ConcatElements ==
    ASSUME NEW T, NEW s \in Seq(T), NEW t \in Seq(T)
    PROVE  ToSet(s \o t) = ToSet(s) \cup ToSet(t)
<1> DEFINE u == s \o t
<1>1. /\ DOMAIN u = 1..(Len(s) + Len(t)) /\ DOMAIN s = 1..Len(s) /\ DOMAIN t = 1..Len(t)
      /\ Len(s) \in Nat /\ Len(t) \in Nat
  OBVIOUS
<1>2. \A i \in 1..Len(s) : u[i] = s[i]
  OBVIOUS
<1>3. \A i \in 1..Len(t) : u[Len(s) + i] = t[i]
  OBVIOUS
<1>4. \A i \in DOMAIN u : i \notin DOMAIN s => i - Len(s) \in DOMAIN t /\ u[i] = t[i - Len(s)]
  BY <1>1, <1>3
<1> HIDE DEF u
<1>5. ToSet(u) \subseteq ToSet(s) \cup ToSet(t)
  BY <1>1, <1>2, <1>4 DEF ToSet
<1>6. ToSet(s) \subseteq ToSet(u)
  BY <1>1, <1>2 DEF ToSet
<1>7. ToSet(t) \subseteq ToSet(u)
  <2> SUFFICES ASSUME NEW i \in DOMAIN t PROVE t[i] \in ToSet(u)
    BY DEF ToSet
  <2>1. Len(s) + i \in DOMAIN u /\ u[Len(s) + i] = t[i]
    BY <1>1, <1>3
  <2> QED
    BY <2>1 DEF ToSet
<1> QED
  BY <1>5, <1>6, <1>7 DEF u

LEMMA AppendInjectiveIff ==
    ASSUME NEW T, NEW s \in Seq(T), NEW x
    PROVE  IsInjective(Append(s, x)) <=> IsInjective(s) /\ x \notin ToSet(s)
<1> DEFINE t == Append(s, x)
<1>1. Len(t) = Len(s) + 1 /\ DOMAIN t = 1..(Len(s) + 1) /\ DOMAIN s = 1..Len(s) /\ Len(s) \in Nat
  OBVIOUS
<1>2. \A i \in 1..Len(s) : t[i] = s[i]
  OBVIOUS
<1>3. t[Len(s) + 1] = x
  OBVIOUS
<1> HIDE DEF t
<1>4. IsInjective(t) => IsInjective(s) /\ x \notin ToSet(s)
  BY <1>1, <1>2, <1>3 DEF ToSet, IsInjective
<1>5. IsInjective(s) /\ x \notin ToSet(s) => IsInjective(t)
  BY <1>1, <1>2, <1>3 DEF ToSet, IsInjective
<1> QED
  BY <1>4, <1>5 DEF t

-----------------------------------------------------------------------------
(* The filter.                                                             *)

\* One step of the recursion: what is kept of s up to i, from what is kept up to
\* i - 1.
Kept(s, S, before, i) == IF s[i] \in S THEN Append(before, s[i]) ELSE before

\* g is the function that Among computes for s, on the first n positions.
Filters(g, s, S, n) ==
    g = [i \in 0..n |-> IF i = 0 THEN <<>> ELSE Kept(s, S, g[i - 1], i)]

\* There is such a function, for every sequence and every number of positions.
LEMMA FilterExists ==
    ASSUME NEW s, NEW S
    PROVE  \A n \in Nat : \E g : Filters(g, s, S, n)
<1> DEFINE N == {n \in Nat : \E g : Filters(g, s, S, n)}
<1>1. 0 \in N
  <2> DEFINE g == [i \in 0..0 |-> <<>>]
  <2>1. Filters(g, s, S, 0)
    BY DEF Filters
  <2> QED
    BY <2>1
<1>2. ASSUME NEW n \in Nat, n \in N PROVE n + 1 \in N
  <2>1. PICK g : Filters(g, s, S, n)
    BY <1>2
  <2> DEFINE h == [i \in 0..(n + 1) |-> IF i <= n THEN g[i] ELSE Kept(s, S, g[n], n + 1)]
  <2>2. ASSUME NEW i \in 0..(n + 1)
        PROVE  h[i] = IF i = 0 THEN <<>> ELSE Kept(s, S, h[i - 1], i)
    <3>1. CASE i = 0
      BY <3>1, <2>1 DEF Filters
    <3>2. CASE i # 0 /\ i <= n
      <4>1. h[i] = g[i] /\ h[i - 1] = g[i - 1]
        BY <3>2
      <4>2. g[i] = Kept(s, S, g[i - 1], i)
        BY <3>2, <2>1 DEF Filters
      <4> QED
        BY <4>1, <4>2, <3>2
    <3>3. CASE i = n + 1
      BY <3>3
    <3> QED
      BY <3>1, <3>2, <3>3
  <2>3. h = [i \in 0..(n + 1) |-> IF i = 0 THEN <<>> ELSE Kept(s, S, h[i - 1], i)]
    BY <2>2
  <2>4. Filters(h, s, S, n + 1)
    BY <2>3 DEF Filters
  <2> QED
    BY <2>4
<1> HIDE DEF N
<1>3. Nat \subseteq N
  BY <1>1, <1>2, SetInduction
<1> QED
  BY <1>3 DEF N

\* Among computes it.
LEMMA AmongFilters ==
    ASSUME NEW T, NEW s \in Seq(T), NEW S
    PROVE  \E g : Filters(g, s, S, Len(s)) /\ Among(s, S) = g[Len(s)]
<1> DEFINE upTo == CHOOSE g : g = [i \in 0..Len(s) |->
                     IF i = 0 THEN <<>>
                     ELSE IF s[i] \in S THEN Append(g[i - 1], s[i]) ELSE g[i - 1]]
<1>0. Len(s) \in Nat
  OBVIOUS
<1>1. \E g : Filters(g, s, S, Len(s))
  BY <1>0, FilterExists
<1>2. \E g : g = [i \in 0..Len(s) |->
                    IF i = 0 THEN <<>>
                    ELSE IF s[i] \in S THEN Append(g[i - 1], s[i]) ELSE g[i - 1]]
  BY <1>1 DEF Filters, Kept
<1>3. Filters(upTo, s, S, Len(s))
  BY <1>2 DEF Filters, Kept
<1>4. Among(s, S) = upTo[Len(s)]
  BY Zenon DEF Among
<1> QED
  BY <1>3, <1>4

\* Two of them agree where both are defined, also when one of the sequences is
\* longer than the other.
LEMMA FiltersAgree ==
    ASSUME NEW s, NEW t, NEW S, NEW n \in Nat, NEW m \in Nat, n <= m,
           \A i \in 1..n : s[i] = t[i],
           NEW g, NEW h, Filters(g, s, S, n), Filters(h, t, S, m)
    PROVE  g[n] = h[n]
<1> DEFINE N == {i \in Nat : i <= n => g[i] = h[i]}
<1>1. 0 \in N
  BY DEF Filters
<1>2. ASSUME NEW i \in Nat, i \in N PROVE i + 1 \in N
  <2> SUFFICES ASSUME i + 1 <= n PROVE g[i + 1] = h[i + 1]
    OBVIOUS
  <2>1. g[i] = h[i] /\ s[i + 1] = t[i + 1]
    BY <1>2
  <2>2. g[i + 1] = Kept(s, S, g[i], i + 1)
    BY DEF Filters
  <2>3. h[i + 1] = Kept(t, S, h[i], i + 1)
    BY DEF Filters
  <2> QED
    BY <2>1, <2>2, <2>3 DEF Kept
<1> HIDE DEF N
<1>3. Nat \subseteq N
  BY <1>1, <1>2, SetInduction
<1> QED
  BY <1>3 DEF N

\* Nothing is kept of nothing, and the last element is kept when it is in S.
LEMMA AmongEmpty ==
    ASSUME NEW S
    PROVE  Among(<<>>, S) = <<>>
<1>1. <<>> \in Seq({}) /\ Len(<<>>) = 0
  OBVIOUS
<1>2. PICK g : Filters(g, <<>>, S, Len(<<>>)) /\ Among(<<>>, S) = g[Len(<<>>)]
  BY <1>1, AmongFilters
<1> QED
  BY <1>1, <1>2 DEF Filters

LEMMA AmongAppend ==
    ASSUME NEW T, NEW s \in Seq(T), NEW x \in T, NEW S
    PROVE  Among(Append(s, x), S) = IF x \in S THEN Append(Among(s, S), x) ELSE Among(s, S)
<1> DEFINE t == Append(s, x)
<1>1. t \in Seq(T) /\ Len(t) = Len(s) + 1 /\ t[Len(s) + 1] = x /\ Len(s) \in Nat
  OBVIOUS
<1>2. \A i \in 1..Len(s) : s[i] = t[i]
  OBVIOUS
<1>3. PICK g : Filters(g, s, S, Len(s)) /\ Among(s, S) = g[Len(s)]
  BY AmongFilters
<1>4. PICK h : Filters(h, t, S, Len(t)) /\ Among(t, S) = h[Len(t)]
  BY <1>1, AmongFilters
<1> HIDE DEF t
<1>5. g[Len(s)] = h[Len(s)]
  BY <1>1, <1>2, <1>3, <1>4, FiltersAgree
<1>6. h[Len(s) + 1] = Kept(t, S, h[Len(s)], Len(s) + 1)
  BY <1>1, <1>4 DEF Filters
<1>7. Among(t, S) = Kept(t, S, Among(s, S), Len(s) + 1)
  BY <1>1, <1>3, <1>4, <1>5, <1>6
<1> QED
  BY <1>1, <1>7 DEF Kept, t

\* It keeps the elements that are in S, and no others.
LEMMA AmongElements ==
    ASSUME NEW T, NEW s \in Seq(T), NEW S
    PROVE  /\ Among(s, S) \in Seq(T)
           /\ ToSet(Among(s, S)) = ToSet(s) \cap S
<1> DEFINE P == {u \in Seq(T) : Among(u, S) \in Seq(T) /\ ToSet(Among(u, S)) = ToSet(u) \cap S}
<1>1. <<>> \in P
  <2>1. <<>> \in Seq(T) /\ ToSet(<<>>) = {}
    BY DEF ToSet
  <2> QED
    BY <2>1, AmongEmpty
<1>2. ASSUME NEW u \in Seq(T), NEW x \in T, u \in P PROVE Append(u, x) \in P
  <2> DEFINE a == Among(u, S)
             b == Among(Append(u, x), S)
  <2>1. a \in Seq(T) /\ ToSet(a) = ToSet(u) \cap S
    BY <1>2
  <2>2. b = IF x \in S THEN Append(a, x) ELSE a
    BY AmongAppend
  <2> HIDE DEF a, b
  <2>3. ToSet(Append(u, x)) = ToSet(u) \cup {x}
    BY AppendElements
  <2>4. ToSet(Append(a, x)) = ToSet(a) \cup {x}
    BY <2>1, AppendElements
  <2>5. b \in Seq(T) /\ ToSet(b) = ToSet(Append(u, x)) \cap S
    BY <2>1, <2>2, <2>3, <2>4
  <2> QED
    BY <2>5 DEF b
<1> HIDE DEF P
<1>3. Seq(T) \subseteq P
  BY <1>1, <1>2, SeqInduction
<1> QED
  BY <1>3 DEF P

\* What it keeps of two sequences in a row.
LEMMA AmongConcat ==
    ASSUME NEW T, NEW s \in Seq(T), NEW t \in Seq(T), NEW S
    PROVE  Among(s \o t, S) = Among(s, S) \o Among(t, S)
<1> DEFINE P == {u \in Seq(T) : Among(s \o u, S) = Among(s, S) \o Among(u, S)}
<1>0. Among(s, S) \in Seq(T)
  BY AmongElements
<1>1. <<>> \in P
  <2>1. s \o <<>> = s /\ Among(s, S) \o <<>> = Among(s, S) /\ <<>> \in Seq(T)
    BY <1>0
  <2>2. Among(s \o <<>>, S) = Among(s, S) \o Among(<<>>, S)
    BY <2>1, AmongEmpty, Zenon
  <2> QED
    BY <2>1, <2>2
<1>2. ASSUME NEW u \in Seq(T), NEW x \in T, u \in P PROVE Append(u, x) \in P
  <2> DEFINE a == Among(s, S)
             b == Among(u, S)
             c == Among(Append(u, x), S)
             d == Among(s \o u, S)
             e == Among(Append(s \o u, x), S)
  <2>1. a \in Seq(T) /\ b \in Seq(T) /\ s \o u \in Seq(T)
    BY AmongElements
  <2>2. c = IF x \in S THEN Append(b, x) ELSE b
    BY AmongAppend
  <2>3. e = IF x \in S THEN Append(d, x) ELSE d
    BY <2>1, AmongAppend
  <2>4. d = a \o b
    BY <1>2
  <2>5. s \o Append(u, x) = Append(s \o u, x)
    OBVIOUS
  <2> HIDE DEF a, b, c, d, e
  <2>6. a \o Append(b, x) = Append(a \o b, x)
    BY <2>1
  <2>7. e = a \o c
    BY <2>2, <2>3, <2>4, <2>6
  <2>8. Among(s \o Append(u, x), S) = Among(s, S) \o Among(Append(u, x), S)
    BY <2>5, <2>7, Zenon DEF a, c, e
  <2> QED
    BY <2>8
<1> HIDE DEF P
<1>3. Seq(T) \subseteq P
  BY <1>1, <1>2, SeqInduction
<1> QED
  BY <1>3 DEF P

\* Keeping twice is keeping what is in both sets.
LEMMA AmongTwice ==
    ASSUME NEW T, NEW s \in Seq(T), NEW S, NEW U
    PROVE  Among(Among(s, S), U) = Among(s, S \cap U)
<1> DEFINE P == {u \in Seq(T) : Among(Among(u, S), U) = Among(u, S \cap U)}
<1>1. <<>> \in P
  BY AmongEmpty
<1>2. ASSUME NEW u \in Seq(T), NEW x \in T, u \in P PROVE Append(u, x) \in P
  <2>1. Among(u, S) \in Seq(T)
    BY AmongElements
  <2>2. Among(Append(u, x), S) = IF x \in S THEN Append(Among(u, S), x) ELSE Among(u, S)
    BY AmongAppend
  <2>3. Among(Append(u, x), S \cap U) =
          IF x \in S \cap U THEN Append(Among(u, S \cap U), x) ELSE Among(u, S \cap U)
    BY AmongAppend
  <2>4. Among(Append(Among(u, S), x), U) =
          IF x \in U THEN Append(Among(Among(u, S), U), x) ELSE Among(Among(u, S), U)
    BY <2>1, AmongAppend
  <2>5. Among(Among(u, S), U) = Among(u, S \cap U)
    BY <1>2
  <2>6. Among(Among(Append(u, x), S), U) = Among(Append(u, x), S \cap U)
    <3>1. CASE x \in S
      <4>1. Among(Append(u, x), S) = Append(Among(u, S), x)
        BY <2>2, <3>1
      <4>2. Among(Among(Append(u, x), S), U) = Among(Append(Among(u, S), x), U)
        BY <4>1, Zenon
      <4>3. CASE x \in U
        BY <2>3, <2>4, <2>5, <3>1, <4>2, <4>3, Zenon
      <4>4. CASE x \notin U
        BY <2>3, <2>4, <2>5, <3>1, <4>2, <4>4
      <4> QED
        BY <4>3, <4>4
    <3>2. CASE x \notin S
      BY <2>2, <2>3, <2>5, <3>2
    <3> QED
      BY <3>1, <3>2
  <2> QED
    BY <2>6
<1> HIDE DEF P
<1>3. Seq(T) \subseteq P
  BY <1>1, <1>2, SeqInduction
<1> QED
  BY <1>3 DEF P

\* Of a sequence without repetitions it makes one without repetitions.
LEMMA AmongInjective ==
    ASSUME NEW T, NEW s \in Seq(T), NEW S, IsInjective(s)
    PROVE  IsInjective(Among(s, S))
<1> DEFINE P == {u \in Seq(T) : IsInjective(u) => IsInjective(Among(u, S))}
<1>1. <<>> \in P
  BY AmongEmpty DEF IsInjective
<1>2. ASSUME NEW u \in Seq(T), NEW x \in T, u \in P PROVE Append(u, x) \in P
  <2> DEFINE a == Among(u, S)
  <2> SUFFICES ASSUME IsInjective(Append(u, x)) PROVE IsInjective(Among(Append(u, x), S))
    OBVIOUS
  <2>1. IsInjective(u) /\ x \notin ToSet(u)
    BY AppendInjectiveIff
  <2>2. a \in Seq(T) /\ ToSet(a) = ToSet(u) \cap S
    BY AmongElements
  <2>3. IsInjective(a)
    BY <1>2, <2>1
  <2>4. Among(Append(u, x), S) = IF x \in S THEN Append(a, x) ELSE a
    BY AmongAppend
  <2> HIDE DEF a
  <2>5. IsInjective(Append(a, x))
    BY <2>1, <2>2, <2>3, AppendInjectiveIff
  <2> QED
    BY <2>3, <2>4, <2>5
<1> HIDE DEF P
<1>3. Seq(T) \subseteq P
  BY <1>1, <1>2, SeqInduction
<1> QED
  BY <1>3 DEF P

\* A sequence is what is before one of its elements, the element, what is after it.
LEMMA SplitAt ==
    ASSUME NEW T, NEW s \in Seq(T), NEW k \in 1..Len(s)
    PROVE  LET p == SubSeq(s, 1, k - 1)
               q == SubSeq(s, k + 1, Len(s))
           IN  /\ p \in Seq(T) /\ q \in Seq(T) /\ Len(p) = k - 1
               /\ \A i \in 1..(k - 1) : p[i] = s[i]
               /\ s = Append(p, s[k]) \o q
<1> DEFINE p == SubSeq(s, 1, k - 1)
           q == SubSeq(s, k + 1, Len(s))
           u == Append(p, s[k])
           v == u \o q
<1>1. Len(s) \in Nat /\ k \in Nat /\ s[k] \in T
  OBVIOUS
<1>2. p \in Seq(T) /\ Len(p) = k - 1 /\ \A i \in 1..(k - 1) : p[i] = s[i]
  BY <1>1
<1>3. q \in Seq(T) /\ Len(q) = Len(s) - k /\ \A i \in 1..(Len(s) - k) : q[i] = s[k + i]
  BY <1>1
<1> HIDE DEF p, q
<1>4. u \in Seq(T) /\ Len(u) = k /\ u[k] = s[k] /\ \A i \in 1..(k - 1) : u[i] = s[i]
  BY <1>1, <1>2
<1> HIDE DEF u
<1>5. v \in Seq(T) /\ Len(v) = Len(s)
  <2>1. u \in Seq(T) /\ q \in Seq(T) /\ Len(u) + Len(q) = Len(s)
    BY <1>1, <1>3, <1>4
  <2> QED
    BY <2>1, ConcatProperties
<1>6. \A i \in 1..k : v[i] = s[i]
  BY <1>1, <1>3, <1>4
<1>7. ASSUME NEW i \in 1..Len(s), i > k PROVE v[i] = s[i]
  <2>1. v[i] = q[i - k] /\ i - k \in 1..(Len(s) - k)
    BY <1>1, <1>3, <1>4, <1>7
  <2>2. q[i - k] = s[k + (i - k)]
    BY <1>3, <2>1
  <2>3. k + (i - k) = i
    BY <1>1
  <2> QED
    BY <2>1, <2>2, <2>3
<1> HIDE DEF v
<1>8. v = s
  BY <1>1, <1>5, <1>6, <1>7
<1> QED
  BY <1>2, <1>3, <1>8 DEF p, q, u, v

\* The first occurrence of an element is taken out of the sequence.
LEMMA RemoveFirstSplits ==
    ASSUME NEW T, NEW s \in Seq(T), NEW e, e \in ToSet(s)
    PROVE  \E p, q \in Seq(T) : /\ s = Append(p, e) \o q
                                /\ e \notin ToSet(p)
                                /\ RemoveFirst(s, e) = p \o q
<1> DEFINE I == {i \in 1..Len(s) : s[i] = e}
<1>1. I # {} /\ I \subseteq Nat
  BY DEF ToSet
<1>2. \E k \in I : \A j \in I : k <= j
  BY <1>1, LeastNat
<1>3. Min(I) \in I /\ \A j \in I : Min(I) <= j
  BY <1>2 DEF Min
<1>4. SelectInSeq(s, LAMBDA v : v = e) = Min(I)
  BY <1>1, Zenon DEF SelectInSeq
<1> DEFINE k == Min(I)
<1>5. k \in 1..Len(s) /\ s[k] = e /\ \A j \in 1..Len(s) : s[j] = e => k <= j
  BY <1>3
<1>6. RemoveFirst(s, e) = RemoveAt(s, k)
  BY <1>4, <1>5, Zenon DEF RemoveFirst
<1> HIDE DEF I, k
<1> DEFINE p == SubSeq(s, 1, k - 1)
           q == SubSeq(s, k + 1, Len(s))
<1>7. /\ p \in Seq(T) /\ q \in Seq(T) /\ Len(p) = k - 1
      /\ \A i \in 1..(k - 1) : p[i] = s[i]
      /\ s = Append(p, e) \o q
  BY <1>5, SplitAt
<1>8. RemoveFirst(s, e) = p \o q
  BY <1>6 DEF RemoveAt
<1> HIDE DEF p, q
<1>9. e \notin ToSet(p)
  <2> SUFFICES ASSUME NEW i \in DOMAIN p, p[i] = e PROVE FALSE
    BY DEF ToSet
  <2>1. i \in 1..(k - 1) /\ i \in 1..Len(s) /\ ~ (k <= i)
    BY <1>5, <1>7
  <2> QED
    BY <1>5, <1>7, <2>1
<1> QED
  BY <1>7, <1>8, <1>9

\* Taking out an element that is not in S, or the first one that is.
LEMMA AmongRemoved ==
    ASSUME NEW T, NEW s \in Seq(T), NEW S, NEW e, e \in ToSet(s)
    PROVE  /\ RemoveFirst(s, e) \in Seq(T)
           /\ e \notin S => Among(RemoveFirst(s, e), S) = Among(s, S)
           /\ Among(s, S) # <<>> /\ Head(Among(s, S)) = e =>
                Among(RemoveFirst(s, e), S) = Tail(Among(s, S))
<1>1. PICK p, q \in Seq(T) : /\ s = Append(p, e) \o q
                             /\ e \notin ToSet(p)
                             /\ RemoveFirst(s, e) = p \o q
  BY RemoveFirstSplits
<1>2. e \in T
  BY DEF ToSet
<1> DEFINE a == Among(p, S)
           b == Among(q, S)
           c == Among(Append(p, e), S)
<1>3. /\ a \in Seq(T) /\ ToSet(a) = ToSet(p) \cap S
      /\ b \in Seq(T) /\ ToSet(b) = ToSet(q) \cap S
  BY AmongElements
<1>4. c = IF e \in S THEN Append(a, e) ELSE a
  BY <1>2, AmongAppend
<1>6. Among(Append(p, e) \o q, S) = c \o b
  <2> DEFINE u == Append(p, e)
  <2>1. u \in Seq(T)
    BY <1>2
  <2> HIDE DEF u
  <2>2. Among(u \o q, S) = Among(u, S) \o Among(q, S)
    BY <2>1, AmongConcat
  <2> QED
    BY <2>2 DEF u
<1>7. Among(s, S) = c \o b
  BY <1>1, <1>6
<1>8. Among(RemoveFirst(s, e), S) = a \o b
  <2>1. Among(p \o q, S) = a \o b
    BY AmongConcat
  <2> QED
    BY <1>1, <2>1
<1>10. RemoveFirst(s, e) \in Seq(T)
  BY <1>1
<1> HIDE DEF a, b, c
<1>11. e \notin S => c \o b = a \o b
  BY <1>4
<1>12. ASSUME c \o b # <<>>, Head(c \o b) = e
       PROVE  a \o b = Tail(c \o b)
  <2>1. c \in Seq(T)
    BY <1>2, <1>3, <1>4
  <2>2. a = <<>>
    <3> SUFFICES ASSUME a # <<>> PROVE FALSE
      OBVIOUS
    <3>1. 1 \in DOMAIN a /\ a[1] \in ToSet(a)
      BY <1>3 DEF ToSet
    <3>2. 1 \in DOMAIN c /\ c[1] = a[1]
      BY <1>2, <1>3, <1>4, <3>1
    <3>3. Head(c \o b) = c[1]
      BY <1>3, <2>1, <3>2
    <3> QED
      BY <1>1, <1>3, <1>12, <3>1, <3>2, <3>3
  <2>3. CASE e \in S
    <3>1. c = <<e>>
      BY <1>4, <2>2, <2>3
    <3>2. a \o b = b
      BY <1>3, <2>2
    <3>3. Tail(<<e>> \o b) = b
      BY <1>2, <1>3
    <3> QED
      BY <3>1, <3>2, <3>3
  <2>4. CASE e \notin S
    <3>1. c \o b = b
      BY <1>3, <1>4, <2>2, <2>4
    <3>2. b[1] = e /\ 1 \in DOMAIN b
      BY <1>3, <1>12, <3>1
    <3> QED
      BY <1>3, <2>4, <3>2 DEF ToSet
  <2> QED
    BY <2>3, <2>4
<1>13. e \notin S => Among(RemoveFirst(s, e), S) = Among(s, S)
  BY <1>7, <1>8, <1>11
<1>14. Among(s, S) # <<>> /\ Head(Among(s, S)) = e => Among(RemoveFirst(s, e), S) = Tail(Among(s, S))
  BY <1>7, <1>8, <1>12
<1> QED
  BY <1>10, <1>13, <1>14

\* A new element in front.
LEMMA AmongPrepended ==
    ASSUME NEW T, NEW s \in Seq(T), NEW x \in T, NEW S
    PROVE  /\ <<x>> \o s \in Seq(T)
           /\ ToSet(<<x>> \o s) = ToSet(s) \cup {x}
           /\ x \notin S => Among(<<x>> \o s, S) = Among(s, S)
<1> DEFINE u == <<x>>
<1>1. u \in Seq(T) /\ ToSet(u) = {x}
  BY DEF ToSet
<1>2. u = Append(<<>>, x) /\ <<>> \in Seq(T)
  OBVIOUS
<1>3. ASSUME x \notin S PROVE Among(u, S) = <<>>
  <2>1. Among(Append(<<>>, x), S) = IF x \in S THEN Append(Among(<<>>, S), x) ELSE Among(<<>>, S)
    BY <1>2, AmongAppend
  <2> HIDE DEF u
  <2> QED
    BY <1>2, <1>3, <2>1, AmongEmpty
<1> HIDE DEF u
<1>4. u \o s \in Seq(T) /\ ToSet(u \o s) = ToSet(s) \cup {x}
  <2>1. ToSet(u \o s) = ToSet(u) \cup ToSet(s)
    BY <1>1, ConcatElements
  <2> QED
    BY <1>1, <2>1
<1>5. ASSUME x \notin S PROVE Among(u \o s, S) = Among(s, S)
  <2>1. Among(u \o s, S) = Among(u, S) \o Among(s, S)
    BY <1>1, AmongConcat
  <2>2. Among(s, S) \in Seq(T)
    BY AmongElements
  <2> QED
    BY <1>3, <1>5, <2>1, <2>2
<1> QED
  BY <1>4, <1>5 DEF u

\* Sequences without repetitions stay so when an element is put in front that they
\* do not have, or when an element is taken out, which they then no longer have.
LEMMA PrependInjective ==
    ASSUME NEW T, NEW s \in Seq(T), NEW x, IsInjective(s), x \notin ToSet(s)
    PROVE  IsInjective(<<x>> \o s)
<1> DEFINE t == <<x>> \o s
<1>1. DOMAIN t = 1..(Len(s) + 1) /\ DOMAIN s = 1..Len(s) /\ Len(s) \in Nat
  OBVIOUS
<1>2. t[1] = x
  OBVIOUS
<1>3. \A i \in 1..(Len(s) + 1) : i # 1 => i - 1 \in DOMAIN s /\ t[i] = s[i - 1]
  OBVIOUS
<1> HIDE DEF t
<1>4. IsInjective(t)
  BY <1>1, <1>2, <1>3 DEF IsInjective, ToSet
<1> QED
  BY <1>4 DEF t

LEMMA RemoveAtElements ==
    ASSUME NEW T, NEW s \in Seq(T), NEW k \in 1..Len(s)
    PROVE  /\ RemoveAt(s, k) \in Seq(T)
           /\ ToSet(RemoveAt(s, k)) \subseteq ToSet(s)
           /\ IsInjective(s) => IsInjective(RemoveAt(s, k)) /\ s[k] \notin ToSet(RemoveAt(s, k))
<1> DEFINE t == RemoveAt(s, k)
           p == SubSeq(s, 1, k - 1)
           q == SubSeq(s, k + 1, Len(s))
<1>p. p \in Seq(T) /\ Len(p) = k - 1 /\ \A i \in 1..(k - 1) : p[i] = s[i]
  OBVIOUS
<1>q. q \in Seq(T) /\ Len(q) = Len(s) - k /\ \A i \in 1..(Len(s) - k) : q[i] = s[k + i]
  OBVIOUS
<1>t. t = p \o q
  BY DEF RemoveAt
<1>0. Len(s) \in Nat /\ k \in Nat
  OBVIOUS
<1> HIDE DEF t, p, q
<1>c. /\ t \in Seq(T) /\ Len(t) = Len(p) + Len(q)
      /\ \A i \in 1..(Len(p) + Len(q)) : t[i] = IF i <= Len(p) THEN p[i] ELSE q[i - Len(p)]
  BY <1>p, <1>q, <1>t, ConcatProperties
<1>1. t \in Seq(T) /\ Len(t) = Len(s) - 1 /\ Len(s) \in Nat
  BY <1>0, <1>p, <1>q, <1>c
<1>2. \A i \in 1..(Len(s) - 1) : t[i] = IF i < k THEN s[i] ELSE s[i + 1]
  <2> TAKE i \in 1..(Len(s) - 1)
  <2>a. i \in 1..(Len(p) + Len(q)) /\ Len(p) = k - 1
    BY <1>0, <1>p, <1>q
  <2>b. t[i] = IF i <= k - 1 THEN p[i] ELSE q[i - (k - 1)]
    BY <1>c, <2>a
  <2>1. CASE i < k
    <3>1. i <= k - 1 /\ i \in 1..(k - 1)
      BY <1>0, <2>1
    <3> QED
      BY <1>p, <2>b, <2>1, <3>1
  <2>2. CASE ~ (i < k)
    <3>1. t[i] = q[i - (k - 1)] /\ i - (k - 1) \in 1..(Len(s) - k)
      BY <1>0, <2>b, <2>2
    <3>2. q[i - (k - 1)] = s[k + (i - (k - 1))]
      BY <1>q, <3>1
    <3>3. k + (i - (k - 1)) = i + 1
      BY <1>0
    <3> QED
      BY <2>2, <3>1, <3>2, <3>3
  <2> QED
    BY <2>1, <2>2
<1>3. DOMAIN t = 1..(Len(s) - 1) /\ DOMAIN s = 1..Len(s)
  BY <1>1
<1> HIDE DEF t
<1>4. ToSet(t) \subseteq ToSet(s)
  BY <1>1, <1>2, <1>3 DEF ToSet
<1> DEFINE at(i) == IF i < k THEN i ELSE i + 1
<1>5. \A i \in DOMAIN t : at(i) \in DOMAIN s /\ t[i] = s[at(i)] /\ at(i) # k
  BY <1>0, <1>2, <1>3
<1>6. \A i, j \in DOMAIN t : at(i) = at(j) => i = j
  BY <1>0, <1>3
<1> HIDE DEF at
<1>7. IsInjective(s) => IsInjective(t)
  BY <1>5, <1>6 DEF IsInjective
<1>8. IsInjective(s) => s[k] \notin ToSet(t)
  BY <1>0, <1>3, <1>5 DEF IsInjective, ToSet
<1> QED
  BY <1>1, <1>4, <1>7, <1>8 DEF t

LEMMA RemoveFirstElements ==
    ASSUME NEW T, NEW s \in Seq(T), NEW e, e \in ToSet(s)
    PROVE  /\ RemoveFirst(s, e) \in Seq(T)
           /\ ToSet(RemoveFirst(s, e)) \subseteq ToSet(s)
           /\ IsInjective(s) => IsInjective(RemoveFirst(s, e)) /\ e \notin ToSet(RemoveFirst(s, e))
<1> DEFINE I == {i \in 1..Len(s) : s[i] = e}
<1>1. I # {} /\ I \subseteq Nat
  BY DEF ToSet
<1>2. \E k \in I : \A j \in I : k <= j
  BY <1>1, LeastNat
<1>3. Min(I) \in I
  BY <1>2 DEF Min
<1>4. SelectInSeq(s, LAMBDA v : v = e) = Min(I)
  BY <1>1, Zenon DEF SelectInSeq
<1> DEFINE k == Min(I)
<1>5. k \in 1..Len(s) /\ s[k] = e
  BY <1>3
<1>6. RemoveFirst(s, e) = RemoveAt(s, k)
  BY <1>4, <1>5, Zenon DEF RemoveFirst
<1> HIDE DEF I, k
<1> QED
  BY <1>5, <1>6, RemoveAtElements

-----------------------------------------------------------------------------
(* Loops.                                                                  *)

\* Induction over the steps of a loop, for the set of the steps.
LEMMA LoopInduction ==
    ASSUME NEW n \in Nat, NEW S, 0 \in S, \A i \in 1..n : i - 1 \in S => i \in S
    PROVE  \A i \in 0..n : i \in S
<1> DEFINE N == {k \in Nat : k <= n => k \in S}
<1>1. 0 \in N
  OBVIOUS
<1>2. ASSUME NEW k \in Nat, k \in N PROVE k + 1 \in N
  <2> SUFFICES ASSUME k + 1 <= n PROVE k + 1 \in S
    OBVIOUS
  <2>1. k + 1 \in 1..n /\ (k + 1) - 1 = k /\ k \in S
    BY <1>2
  <2> QED
    BY <2>1
<1> HIDE DEF N
<1>3. Nat \subseteq N
  BY <1>1, <1>2, SetInduction
<1> QED
  BY <1>3 DEF N

\* A loop over the positions 1 to n: the values it has after each of them.
Loops(g, start, F, X, n) ==
    /\ g \in [0..n -> X]
    /\ g[0] = start
    /\ \A i \in 1..n : g[i] = F[i][g[i - 1]]

LEMMA LoopExists ==
    ASSUME NEW X, NEW start \in X, NEW F \in [Nat -> [X -> X]]
    PROVE  \A n \in Nat : \E g : Loops(g, start, F, X, n)
<1> DEFINE N == {n \in Nat : \E g : Loops(g, start, F, X, n)}
<1>1. 0 \in N
  <2> DEFINE g == [i \in 0..0 |-> start]
  <2>1. Loops(g, start, F, X, 0)
    BY DEF Loops
  <2> QED
    BY <2>1
<1>2. ASSUME NEW n \in Nat, n \in N PROVE n + 1 \in N
  <2>1. PICK g : Loops(g, start, F, X, n)
    BY <1>2
  <2> DEFINE h == [i \in 0..(n + 1) |-> IF i <= n THEN g[i] ELSE F[n + 1][g[n]]]
  <2>2. \A i \in 0..n : g[i] \in X
    BY <2>1 DEF Loops
  <2>3. F[n + 1][g[n]] \in X
    BY <2>2
  <2>4. h \in [0..(n + 1) -> X]
    BY <2>2, <2>3
  <2>5. ASSUME NEW i \in 1..(n + 1) PROVE h[i] = F[i][h[i - 1]]
    <3>1. CASE i <= n
      <4>1. h[i] = g[i] /\ h[i - 1] = g[i - 1]
        BY <3>1
      <4> QED
        BY <4>1, <3>1, <2>1 DEF Loops
    <3>2. CASE i = n + 1
      BY <3>2
    <3> QED
      BY <3>1, <3>2
  <2>6. h[0] = start
    BY <2>1 DEF Loops
  <2> HIDE DEF h
  <2>7. Loops(h, start, F, X, n + 1)
    BY <2>4, <2>5, <2>6 DEF Loops
  <2> QED
    BY <2>7
<1> HIDE DEF N
<1>3. Nat \subseteq N
  BY <1>1, <1>2, SetInduction
<1> QED
  BY <1>3 DEF N

-----------------------------------------------------------------------------
(* Ranges of ports.                                                        *)

\* The ranges of ports, and the ports of a list of them.
PortRanges == {r \in (1..MaxPort) \X (1..MaxPort) : r[1] <= r[2]}
Covers(ranges, p) == \E i \in DOMAIN ranges : ranges[i][1] <= p /\ p <= ranges[i][2]

LEMMA CoversConcat ==
    ASSUME NEW T, NEW s \in Seq(T), NEW t \in Seq(T), NEW p
    PROVE  Covers(s \o t, p) <=> Covers(s, p) \/ Covers(t, p)
<1> DEFINE Has(u) == \E r \in ToSet(u) : r[1] <= p /\ p <= r[2]
<1>1. \A u : Covers(u, p) <=> Has(u)
  BY DEF Covers, ToSet
<1>2. ToSet(s \o t) = ToSet(s) \cup ToSet(t)
  BY ConcatElements
<1> QED
  BY <1>1, <1>2

\* What is left of a range.
LEMMA RemainderPorts ==
    ASSUME NEW r \in PortRanges, NEW b \in PortRanges
    PROVE  /\ Remainder(r, b) \in Seq(PortRanges)
           /\ \A p \in Nat : Covers(Remainder(r, b), p) <=>
                               (r[1] <= p /\ p <= r[2] /\ ~(b[1] <= p /\ p <= b[2]))
<1> DEFINE below == <<r[1], b[1] - 1>>
           above == <<b[2] + 1, r[2]>>
<1>0. /\ r[1] \in Nat /\ r[2] \in Nat /\ b[1] \in Nat /\ b[2] \in Nat /\ MaxPort \in Nat
      /\ 1 <= r[1] /\ r[1] <= r[2] /\ r[2] <= MaxPort
      /\ 1 <= b[1] /\ b[1] <= b[2] /\ b[2] <= MaxPort
  BY PortsAssumption DEF PortRanges
<1>1. \A x : <<x>> \in Seq({x}) /\ \A p : Covers(<<x>>, p) <=> x[1] <= p /\ p <= x[2]
  BY DEF Covers
<1>2. \A p : ~Covers(<<>>, p)
  BY DEF Covers
<1>3. CASE ~Overlaps(r, b)
  <2>1. Remainder(r, b) = <<r>>
    BY <1>3 DEF Remainder
  <2> QED
    BY <1>0, <1>1, <1>3, <2>1 DEF Overlaps
<1>4. CASE Overlaps(r, b)
  <2> DEFINE one == IF r[1] < b[1] THEN <<below>> ELSE <<>>
             two == IF b[2] < r[2] THEN <<above>> ELSE <<>>
  <2>1. Remainder(r, b) = one \o two
    BY <1>4 DEF Remainder
  <2>2. one \in Seq(PortRanges)
    <3>1. r[1] < b[1] => below \in PortRanges
      BY <1>0 DEF PortRanges
    <3> HIDE DEF below
    <3> QED
      BY <3>1
  <2>3. two \in Seq(PortRanges)
    <3>1. b[2] < r[2] => above \in PortRanges
      BY <1>0 DEF PortRanges
    <3> HIDE DEF above
    <3> QED
      BY <3>1
  <2>4. \A p \in Nat : Covers(one, p) <=> (r[1] < b[1] /\ r[1] <= p /\ p <= b[1] - 1)
    <3>1. below[1] = r[1] /\ below[2] = b[1] - 1
      OBVIOUS
    <3> HIDE DEF below
    <3> QED
      BY <1>1, <1>2, <3>1
  <2>5. \A p \in Nat : Covers(two, p) <=> (b[2] < r[2] /\ b[2] + 1 <= p /\ p <= r[2])
    <3>1. above[1] = b[2] + 1 /\ above[2] = r[2]
      OBVIOUS
    <3> HIDE DEF above
    <3> QED
      BY <1>1, <1>2, <3>1
  <2> HIDE DEF one, two
  <2>6. \A p \in Nat : Covers(one \o two, p) <=> Covers(one, p) \/ Covers(two, p)
    BY <2>2, <2>3, CoversConcat
  <2>7. one \o two \in Seq(PortRanges)
    BY <2>2, <2>3
  <2>8. \A p \in Nat : Covers(one, p) \/ Covers(two, p) <=>
                         (r[1] <= p /\ p <= r[2] /\ ~(b[1] <= p /\ p <= b[2]))
    BY <1>0, <1>4, <2>4, <2>5 DEF Overlaps
  <2> QED
    BY <2>1, <2>6, <2>7, <2>8
<1> QED
  BY <1>3, <1>4

\* What is left of a list of ranges, after one range is taken away.
LEMMA SubtractRangePorts ==
    ASSUME NEW ranges \in Seq(PortRanges), NEW b \in PortRanges
    PROVE  /\ SubtractRange(ranges, b) \in Seq(PortRanges)
           /\ \A p \in Nat : Covers(SubtractRange(ranges, b), p) <=>
                               Covers(ranges, p) /\ ~(b[1] <= p /\ p <= b[2])
<1> DEFINE n == Len(ranges)
           X == Seq(PortRanges)
           F == [i \in Nat |-> [x \in X |-> IF i \in 1..n THEN x \o Remainder(ranges[i], b) ELSE x]]
           upTo == CHOOSE g : g = [i \in 0..n |-> IF i = 0 THEN <<>>
                                                  ELSE g[i - 1] \o Remainder(ranges[i], b)]
<1>0. n \in Nat /\ DOMAIN ranges = 1..n /\ \A i \in 1..n : ranges[i] \in PortRanges
  OBVIOUS
<1>1. \A i \in 1..n : Remainder(ranges[i], b) \in X
  BY <1>0, RemainderPorts
<1>2. F \in [Nat -> [X -> X]]
  <2> HIDE DEF n
  <2> QED
    BY <1>1
<1>3. PICK g : Loops(g, <<>>, F, X, n)
  <2> HIDE DEF F
  <2>1. <<>> \in X
    OBVIOUS
  <2> HIDE DEF X, n
  <2> QED
    BY <1>0, <1>2, <2>1, LoopExists
<1>4. \E u : u = [i \in 0..n |-> IF i = 0 THEN <<>> ELSE u[i - 1] \o Remainder(ranges[i], b)]
  <2> HIDE DEF F, n, X
  <2>1. g \in [0..n -> X] /\ g[0] = <<>> /\ \A i \in 1..n : g[i] = F[i][g[i - 1]]
    BY <1>3 DEF Loops
  <2>2. ASSUME NEW i \in 1..n PROVE g[i] = g[i - 1] \o Remainder(ranges[i], b)
    <3>1. i \in Nat /\ i - 1 \in 0..n
      BY <1>0
    <3>2. F[i][g[i - 1]] = g[i - 1] \o Remainder(ranges[i], b)
      BY <2>1, <3>1 DEF F
    <3> QED
      BY <2>1, <3>2
  <2>3. \A i \in 0..n : i # 0 => i \in 1..n
    BY <1>0
  <2>4. \A i \in 0..n : g[i] = IF i = 0 THEN <<>> ELSE g[i - 1] \o Remainder(ranges[i], b)
    BY <2>1, <2>2, <2>3
  <2>5. g = [i \in 0..n |-> IF i = 0 THEN <<>> ELSE g[i - 1] \o Remainder(ranges[i], b)]
    BY <2>1, <2>4
  <2> QED
    BY <2>5
<1>5. upTo = [i \in 0..n |-> IF i = 0 THEN <<>> ELSE upTo[i - 1] \o Remainder(ranges[i], b)]
  <2> HIDE DEF n
  <2> QED
    BY <1>4
<1>6. SubtractRange(ranges, b) = upTo[n]
  BY Zenon DEF SubtractRange
<1> HIDE DEF upTo
<1> DEFINE S == {i \in 0..n : /\ upTo[i] \in X
                              /\ \A p \in Nat : Covers(upTo[i], p) <=>
                                   (\E j \in 1..i : ranges[j][1] <= p /\ p <= ranges[j][2])
                                   /\ ~(b[1] <= p /\ p <= b[2])}
<1>7. 0 \in S
  <2>1. upTo[0] = <<>> /\ 0 \in 0..n /\ <<>> \in X
    BY <1>0, <1>5
  <2>2. \A p \in Nat : ~Covers(<<>>, p) /\ ~\E j \in 1..0 : ranges[j][1] <= p /\ p <= ranges[j][2]
    BY DEF Covers
  <2> HIDE DEF n, X
  <2> QED
    BY <2>1, <2>2
<1>8. ASSUME NEW i \in 1..n, i - 1 \in S PROVE i \in S
  <2> DEFINE rest == Remainder(ranges[i], b)
  <2>1. upTo[i] = upTo[i - 1] \o rest
    BY <1>0, <1>5
  <2>2. /\ rest \in X
        /\ \A p \in Nat : Covers(rest, p) <=>
             (ranges[i][1] <= p /\ p <= ranges[i][2] /\ ~(b[1] <= p /\ p <= b[2]))
    BY <1>0, RemainderPorts
  <2> HIDE DEF rest
  <2>3. upTo[i - 1] \in X
    BY <1>8
  <2>4. \A p \in Nat : Covers(upTo[i], p) <=> Covers(upTo[i - 1], p) \/ Covers(rest, p)
    BY <2>1, <2>2, <2>3, CoversConcat
  <2>5. upTo[i] \in X
    BY <2>1, <2>2, <2>3
  <2>6. \A p \in Nat : Covers(upTo[i - 1], p) <=>
                         (\E j \in 1..(i - 1) : ranges[j][1] <= p /\ p <= ranges[j][2])
                         /\ ~(b[1] <= p /\ p <= b[2])
    BY <1>8
  <2>7. 1..i = 1..(i - 1) \cup {i}
    BY <1>0
  <2> HIDE DEF X, n
  <2>8. \A p \in Nat : Covers(upTo[i], p) <=>
                         (\E j \in 1..i : ranges[j][1] <= p /\ p <= ranges[j][2])
                         /\ ~(b[1] <= p /\ p <= b[2])
    BY <2>2, <2>4, <2>6, <2>7
  <2>9. i \in 0..n
    BY <1>0
  <2> QED
    BY <2>5, <2>8, <2>9
<1> HIDE DEF S
<1>9. n \in S
  <2> HIDE DEF n
  <2> QED
    BY <1>0, <1>7, <1>8, LoopInduction
<1> QED
  BY <1>0, <1>6, <1>9 DEF S, Covers

\* The same with a list of ranges that are taken away.
LEMMA SubtractAllPorts ==
    ASSUME NEW ranges \in Seq(PortRanges), NEW blocked \in Seq(PortRanges)
    PROVE  /\ SubtractAll(ranges, blocked) \in Seq(PortRanges)
           /\ \A p \in Nat : Covers(SubtractAll(ranges, blocked), p) <=>
                               Covers(ranges, p) /\ ~Covers(blocked, p)
<1> DEFINE n == Len(blocked)
           X == Seq(PortRanges)
           F == [i \in Nat |-> [x \in X |-> IF i \in 1..n THEN SubtractRange(x, blocked[i]) ELSE x]]
           upTo == CHOOSE g : g = [i \in 0..n |-> IF i = 0 THEN ranges
                                                  ELSE SubtractRange(g[i - 1], blocked[i])]
<1>0. n \in Nat /\ DOMAIN blocked = 1..n /\ \A i \in 1..n : blocked[i] \in PortRanges
  OBVIOUS
<1>1. \A x \in X : \A i \in 1..n : SubtractRange(x, blocked[i]) \in X
  BY <1>0, SubtractRangePorts
<1>2. F \in [Nat -> [X -> X]]
  <2> HIDE DEF n, X
  <2> QED
    BY <1>1
<1>3. PICK g : Loops(g, ranges, F, X, n)
  <2>1. ranges \in X
    OBVIOUS
  <2> HIDE DEF F, X, n
  <2> QED
    BY <1>0, <1>2, <2>1, LoopExists
<1>4. \E u : u = [i \in 0..n |-> IF i = 0 THEN ranges ELSE SubtractRange(u[i - 1], blocked[i])]
  <2> HIDE DEF F, n, X
  <2>1. g \in [0..n -> X] /\ g[0] = ranges /\ \A i \in 1..n : g[i] = F[i][g[i - 1]]
    BY <1>3 DEF Loops
  <2>2. ASSUME NEW i \in 1..n PROVE g[i] = SubtractRange(g[i - 1], blocked[i])
    <3>1. i \in Nat /\ i - 1 \in 0..n
      BY <1>0
    <3>2. F[i][g[i - 1]] = SubtractRange(g[i - 1], blocked[i])
      BY <2>1, <3>1 DEF F
    <3> QED
      BY <2>1, <3>2
  <2>3. \A i \in 0..n : i # 0 => i \in 1..n
    BY <1>0
  <2>4. \A i \in 0..n : g[i] = IF i = 0 THEN ranges ELSE SubtractRange(g[i - 1], blocked[i])
    BY <2>1, <2>2, <2>3
  <2>5. g = [i \in 0..n |-> IF i = 0 THEN ranges ELSE SubtractRange(g[i - 1], blocked[i])]
    BY <2>1, <2>4
  <2> QED
    BY <2>5
<1>5. upTo = [i \in 0..n |-> IF i = 0 THEN ranges ELSE SubtractRange(upTo[i - 1], blocked[i])]
  <2> HIDE DEF n
  <2> QED
    BY <1>4
<1>6. SubtractAll(ranges, blocked) = upTo[n]
  BY Zenon DEF SubtractAll
<1> HIDE DEF upTo
<1> DEFINE S == {i \in 0..n : /\ upTo[i] \in X
                              /\ \A p \in Nat : Covers(upTo[i], p) <=>
                                   Covers(ranges, p) /\
                                   ~(\E j \in 1..i : blocked[j][1] <= p /\ p <= blocked[j][2])}
<1>7. 0 \in S
  <2>1. upTo[0] = ranges /\ 0 \in 0..n /\ ranges \in X
    BY <1>0, <1>5
  <2>2. \A p \in Nat : ~\E j \in 1..0 : blocked[j][1] <= p /\ p <= blocked[j][2]
    OBVIOUS
  <2> HIDE DEF n, X
  <2> QED
    BY <2>1, <2>2
<1>8. ASSUME NEW i \in 1..n, i - 1 \in S PROVE i \in S
  <2>1. upTo[i] = SubtractRange(upTo[i - 1], blocked[i])
    BY <1>0, <1>5
  <2>2. upTo[i - 1] \in X /\ blocked[i] \in PortRanges
    BY <1>0, <1>8
  <2>3. /\ upTo[i] \in X
        /\ \A p \in Nat : Covers(upTo[i], p) <=>
             Covers(upTo[i - 1], p) /\ ~(blocked[i][1] <= p /\ p <= blocked[i][2])
    <3> DEFINE before == upTo[i - 1]
               b == blocked[i]
    <3>1. before \in Seq(PortRanges) /\ b \in PortRanges
      BY <2>2
    <3> HIDE DEF before, b
    <3>2. /\ SubtractRange(before, b) \in Seq(PortRanges)
          /\ \A p \in Nat : Covers(SubtractRange(before, b), p) <=>
                              Covers(before, p) /\ ~(b[1] <= p /\ p <= b[2])
      BY <3>1, SubtractRangePorts
    <3> QED
      BY <2>1, <3>2 DEF before, b
  <2>4. \A p \in Nat : Covers(upTo[i - 1], p) <=>
             Covers(ranges, p) /\
             ~(\E j \in 1..(i - 1) : blocked[j][1] <= p /\ p <= blocked[j][2])
    BY <1>8
  <2>5. 1..i = 1..(i - 1) \cup {i} /\ i \in 0..n
    BY <1>0
  <2> HIDE DEF X, n
  <2>6. \A p \in Nat : Covers(upTo[i], p) <=>
             Covers(ranges, p) /\
             ~(\E j \in 1..i : blocked[j][1] <= p /\ p <= blocked[j][2])
    BY <2>3, <2>4, <2>5
  <2> QED
    BY <2>3, <2>5, <2>6
<1> HIDE DEF S
<1>9. n \in S
  <2> HIDE DEF n
  <2>1. n \in Nat /\ \A i \in 1..n : i - 1 \in S => i \in S
    BY <1>0, <1>8
  <2>2. \A i \in 0..n : i \in S
    BY <1>7, <2>1, LoopInduction
  <2> QED
    BY <2>1, <2>2
<1> QED
  BY <1>0, <1>6, <1>9 DEF S, Covers

\* Ports in ascending order, and as ranges.
LEMMA AscendingPorts ==
    ASSUME NEW ports \in SUBSET (1..MaxPort)
    PROVE  /\ Ascending(ports) \in Seq(1..MaxPort) /\ ToSet(Ascending(ports)) = ports
           /\ IsInjective(Ascending(ports))
           /\ SinglePorts(ports) \in Seq(PortRanges)
           /\ \A p \in Nat : Covers(SinglePorts(ports), p) <=> p \in ports
<1> DEFINE all == [p \in 1..MaxPort |-> p]
           up == Ascending(ports)
<1>0. MaxPort \in Nat /\ 1..MaxPort \subseteq Nat
  BY PortsAssumption
<1>1. /\ all \in Seq(1..MaxPort) /\ DOMAIN all = 1..MaxPort
      /\ \A p \in 1..MaxPort : all[p] = p
  BY <1>0
<1>2. ToSet(all) = 1..MaxPort
  BY <1>1 DEF ToSet
<1>3. IsInjective(all)
  BY <1>1 DEF IsInjective
<1> HIDE DEF all
<1>4. up = Among(all, ports)
  BY DEF Ascending, all
<1>5. up \in Seq(1..MaxPort) /\ ToSet(up) = ports /\ IsInjective(up)
  <2>1. up \in Seq(1..MaxPort) /\ ToSet(up) = ToSet(all) \cap ports
    BY <1>1, <1>4, AmongElements
  <2>2. IsInjective(up)
    BY <1>1, <1>3, <1>4, AmongInjective
  <2> QED
    BY <1>2, <2>1, <2>2
<1>6. SinglePorts(ports) = [i \in DOMAIN up |-> <<up[i], up[i]>>]
  BY DEF SinglePorts
<1> HIDE DEF up
<1>7. Len(up) \in Nat /\ DOMAIN up = 1..Len(up) /\ \A i \in DOMAIN up : up[i] \in 1..MaxPort
  <2> DEFINE P == 1..MaxPort
  <2>1. up \in Seq(P)
    BY <1>5
  <2> HIDE DEF P
  <2>2. Len(up) \in Nat /\ DOMAIN up = 1..Len(up) /\ \A i \in DOMAIN up : up[i] \in P
    BY <2>1
  <2> QED
    BY <2>2 DEF P
<1>8. \A q \in 1..MaxPort : <<q, q>> \in PortRanges
  BY <1>0 DEF PortRanges
<1>9. SinglePorts(ports) \in Seq(PortRanges)
  BY <1>6, <1>7, <1>8
<1>10. ASSUME NEW p \in Nat PROVE Covers(SinglePorts(ports), p) <=> p \in ports
  <2>1. Covers(SinglePorts(ports), p) <=> \E i \in DOMAIN up : up[i] <= p /\ p <= up[i]
    BY <1>6 DEF Covers
  <2>2. \A i \in DOMAIN up : (up[i] <= p /\ p <= up[i]) <=> up[i] = p
    BY <1>0, <1>7
  <2>3. p \in ports <=> \E i \in DOMAIN up : up[i] = p
    BY <1>5 DEF ToSet
  <2> QED
    BY <2>1, <2>2, <2>3
<1> QED
  BY <1>5, <1>9, <1>10 DEF up

Allocations == [to : 1..MaxPort, range : PortRanges, protocol : {"tcp", "udp"}]

\* Whether some of the allocated ranges of a protocol, of other targets than t,
\* has a port.
Taken(allocated, t, protocol, p) ==
    \E i \in DOMAIN allocated :
      /\ allocated[i].to # t /\ allocated[i].protocol = protocol
      /\ allocated[i].range[1] <= p /\ p <= allocated[i].range[2]

\* The settings of a node the planner accepts.
LEMMA ValidNode ==
    ASSUME NEW n \in Nodes, n.kind \in Families, ~Invalid(n)
    PROVE  /\ External(n) \in Seq(PortRanges) /\ n.target \in 1..MaxPort
           /\ External(n) # <<>> => ForwardProtocol(n) \in {"tcp", "udp"}
<1>1. n.port \in Seq(Nat \X Nat) /\ n.ports \in Seq(Nat \X Nat) /\ n.target \in 0..MaxPort
  BY DEF Nodes
<1>2. External(n) \in {n.port, n.ports}
  BY DEF External, Families
<1>3. n.target # 0 /\ (External(n) = <<>> \/ (ForwardProtocol(n) # "error" /\ ParseOk(External(n))))
  BY DEF Invalid
<1>4. External(n) # <<>> => ForwardProtocol(n) \in {"tcp", "udp"}
  BY <1>3 DEF ForwardProtocol
<1>5. n.target \in 1..MaxPort
  BY <1>1, <1>3, PortsAssumption
<1>6. External(n) \in Seq(PortRanges)
  <2>1. PICK e : e = External(n)
    OBVIOUS
  <2>2. e \in Seq(Nat \X Nat)
    BY <1>1, <1>2, <2>1
  <2>3. CASE e = <<>>
    BY <2>1, <2>3
  <2>4. CASE e # <<>>
    <3>1. \A i \in DOMAIN e : 1 <= e[i][1] /\ e[i][1] <= e[i][2] /\ e[i][2] <= MaxPort
      BY <1>3, <2>1, <2>4 DEF ParseOk, TokenOk
    <3>2. Len(e) \in Nat /\ DOMAIN e = 1..Len(e) /\ \A i \in DOMAIN e : e[i] \in Nat \X Nat
      BY <2>2
    <3>3. \A i \in DOMAIN e : e[i] \in PortRanges
      BY <3>1, <3>2, PortsAssumption DEF PortRanges
    <3>4. e \in Seq(PortRanges)
      BY <2>2, <3>2, <3>3
    <3> QED
      BY <2>1, <3>4
  <2> QED
    BY <2>3, <2>4
<1> QED
  BY <1>4, <1>5, <1>6

LEMMA TargetPortsAre ==
    ASSUME NEW infos \in Seq(Nodes), NEW family, NEW protocol
    PROVE  TargetPorts(infos, family, protocol) \subseteq 1..MaxPort
<1>0. \A i \in DOMAIN infos : infos[i] \in Nodes
  OBVIOUS
<1>1. \A i \in DOMAIN infos : infos[i].target \in 0..MaxPort
  BY <1>0 DEF Nodes
<1>2. \A i \in DOMAIN infos : infos[i].target > 0 => infos[i].target \in 1..MaxPort
  BY <1>1, PortsAssumption
<1> QED
  BY <1>2 DEF TargetPorts

\* What a node gets: what it asks for, but for ports nodes listen on and ports
\* others got.
LEMMA NodeRangesPorts ==
    ASSUME NEW infos \in Seq(Nodes), NEW n \in Nodes, n.kind \in Families, ~Invalid(n),
           NEW allocated \in Seq(Allocations)
    PROVE  /\ NodeRanges(infos, n, allocated) \in Seq(PortRanges)
           /\ \A p \in Nat : Covers(NodeRanges(infos, n, allocated), p) <=>
                /\ Covers(External(n), p) /\ p # n.target
                /\ p \notin TargetPorts(infos, n.kind, ForwardProtocol(n)) \ {n.target}
                /\ ~Taken(allocated, n.target, ForwardProtocol(n), p)
<1> DEFINE protocol == ForwardProtocol(n)
           own == <<n.target, n.target>>
           asked == SubtractRange(External(n), own)
           others == TargetPorts(infos, n.kind, protocol) \ {n.target}
           Other == {a \in ToSet(allocated) : a.to # n.target /\ a.protocol = protocol}
           taken == Among(allocated, Other)
           ranges == [i \in DOMAIN taken |-> taken[i].range]
           free == SubtractAll(asked, SinglePorts(others))
<1>0. External(n) \in Seq(PortRanges) /\ n.target \in 1..MaxPort /\ n.target \in Nat
  BY ValidNode, PortsAssumption
<1>1. own \in PortRanges /\ own[1] = n.target /\ own[2] = n.target
  BY <1>0 DEF PortRanges
<1>2. others \subseteq 1..MaxPort
  BY TargetPortsAre
<1>3. NodeRanges(infos, n, allocated) = SubtractAll(free, ranges)
  BY DEF NodeRanges, Asked
<1> HIDE DEF own, protocol
<1>4. /\ asked \in Seq(PortRanges)
      /\ \A p \in Nat : Covers(asked, p) <=> Covers(External(n), p) /\ ~(own[1] <= p /\ p <= own[2])
  BY <1>0, <1>1, SubtractRangePorts
<1>5. /\ SinglePorts(others) \in Seq(PortRanges)
      /\ \A p \in Nat : Covers(SinglePorts(others), p) <=> p \in others
  <2> HIDE DEF others
  <2> QED
    BY <1>2, AscendingPorts
<1>6. /\ free \in Seq(PortRanges)
      /\ \A p \in Nat : Covers(free, p) <=> Covers(asked, p) /\ ~Covers(SinglePorts(others), p)
  <2> DEFINE single == SinglePorts(others)
  <2>1. single \in Seq(PortRanges)
    BY <1>5
  <2> HIDE DEF single, asked
  <2> QED
    BY <1>4, <2>1, SubtractAllPorts DEF single
<1>7. taken \in Seq(Allocations) /\ ToSet(taken) = Other
  <2>1. Other \subseteq ToSet(allocated)
    OBVIOUS
  <2> HIDE DEF Other
  <2>2. taken \in Seq(Allocations) /\ ToSet(taken) = ToSet(allocated) \cap Other
    BY AmongElements
  <2> QED
    BY <2>1, <2>2
<1> HIDE DEF taken
<1>8. /\ Len(taken) \in Nat /\ DOMAIN taken = 1..Len(taken)
      /\ \A i \in DOMAIN taken : taken[i] \in Allocations
  BY <1>7
<1>9. ranges \in Seq(PortRanges)
  <2>1. \A i \in DOMAIN taken : taken[i].range \in PortRanges
    BY <1>8 DEF Allocations
  <2> QED
    BY <1>8, <2>1
<1>10. ASSUME NEW p \in Nat PROVE Covers(ranges, p) <=> Taken(allocated, n.target, protocol, p)
  <2> DEFINE Has(a) == a.range[1] <= p /\ p <= a.range[2]
  <2>1. Covers(ranges, p) <=> \E i \in DOMAIN taken : Has(taken[i])
    BY DEF Covers
  <2>2. (\E i \in DOMAIN taken : Has(taken[i])) <=> \E a \in ToSet(taken) : Has(a)
    BY DEF ToSet
  <2>3. Taken(allocated, n.target, protocol, p) <=>
          \E a \in ToSet(allocated) : a.to # n.target /\ a.protocol = protocol /\ Has(a)
    BY DEF Taken, ToSet
  <2> HIDE DEF Has
  <2> QED
    BY <1>7, <2>1, <2>2, <2>3
<1> HIDE DEF free, ranges
<1>11. /\ SubtractAll(free, ranges) \in Seq(PortRanges)
       /\ \A p \in Nat : Covers(SubtractAll(free, ranges), p) <=>
                           Covers(free, p) /\ ~Covers(ranges, p)
  BY <1>6, <1>9, SubtractAllPorts
<1>12. \A p \in Nat : ~(own[1] <= p /\ p <= own[2]) <=> p # n.target
  BY <1>0, <1>1
<1> HIDE DEF asked, others
<1>13. \A p \in Nat : Covers(NodeRanges(infos, n, allocated), p) <=>
                /\ Covers(External(n), p) /\ p # n.target
                /\ p \notin others
                /\ ~Taken(allocated, n.target, protocol, p)
  BY <1>3, <1>4, <1>5, <1>6, <1>10, <1>11, <1>12
<1> QED
  BY <1>3, <1>11, <1>13 DEF others, protocol

-----------------------------------------------------------------------------
(* Matchers, and rules that are added once.                                *)

\* The ports of the matchers that are made of ranges are the ports of the ranges.
Matchable == {m \in Seq(PortRanges) : m # <<>>}
Matched(matchers, p) == \E k \in DOMAIN matchers : Covers(matchers[k], p)

LEMMA AddMatcherPorts ==
    ASSUME NEW matchers \in Seq(Matchable), NEW r \in PortRanges
    PROVE  /\ AddMatcher(matchers, r) \in Seq(Matchable)
           /\ \A p \in Nat : Matched(AddMatcher(matchers, r), p) <=>
                               Matched(matchers, p) \/ (r[1] <= p /\ p <= r[2])
<1> DEFINE k == Len(matchers)
           last == matchers[k]
           joined == Append(last, r)
<1>0. k \in Nat /\ DOMAIN matchers = 1..k /\ \A i \in 1..k : matchers[i] \in Matchable
  OBVIOUS
<1>1. CASE AddMatcher(matchers, r) = [matchers EXCEPT ![k] = Append(@, r)] /\ matchers # <<>>
  <2> DEFINE new == [matchers EXCEPT ![k] = joined]
  <2>1. AddMatcher(matchers, r) = new
    BY <1>1
  <2>2. k \in 1..k
    BY <1>0, <1>1
  <2>3. last \in Seq(PortRanges) /\ joined \in Matchable
    <3>1. last \in Seq(PortRanges)
      BY <1>0, <2>2 DEF Matchable
    <3> HIDE DEF last
    <3>2. joined \in Seq(PortRanges) /\ Len(joined) = Len(last) + 1 /\ Len(last) \in Nat
      BY <3>1
    <3>3. joined # <<>>
      BY <3>2
    <3> QED
      BY <3>1, <3>2, <3>3 DEF Matchable
  <2>4. /\ new \in Seq(Matchable) /\ DOMAIN new = 1..k /\ new[k] = joined
        /\ \A i \in 1..k : i # k => new[i] = matchers[i]
    <3> HIDE DEF joined, last
    <3>1. matchers \in [1..k -> Matchable]
      BY <1>0
    <3>2. new \in [1..k -> Matchable] /\ new[k] = joined
      BY <2>2, <2>3, <3>1
    <3>3. \A i \in 1..k : i # k => new[i] = matchers[i]
      BY <3>1
    <3> HIDE DEF new
    <3>4. new \in Seq(Matchable)
      BY <1>0, <3>2
    <3> QED
      BY <3>2, <3>3, <3>4
  <2>5. ASSUME NEW p \in Nat PROVE Covers(joined, p) <=> Covers(last, p) \/ (r[1] <= p /\ p <= r[2])
    <3> HIDE DEF last
    <3>1. joined = last \o <<r>> /\ <<r>> \in Seq(PortRanges)
      BY <2>3
    <3>2. Covers(<<r>>, p) <=> r[1] <= p /\ p <= r[2]
      BY DEF Covers
    <3>3. Covers(last \o <<r>>, p) <=> Covers(last, p) \/ Covers(<<r>>, p)
      BY <2>3, <3>1, CoversConcat
    <3> QED
      BY <3>1, <3>2, <3>3
  <2> HIDE DEF new, joined
  <2>6. \A p \in Nat : Matched(new, p) <=> Matched(matchers, p) \/ (r[1] <= p /\ p <= r[2])
    BY <1>0, <2>2, <2>4, <2>5 DEF Matched
  <2> QED
    BY <2>1, <2>4, <2>6
<1>2. CASE AddMatcher(matchers, r) = Append(matchers, <<r>>)
  <2> DEFINE one == <<r>>
             new == Append(matchers, one)
  <2>1. one \in Matchable
    BY DEF Matchable
  <2>2. \A p \in Nat : Covers(one, p) <=> r[1] <= p /\ p <= r[2]
    BY DEF Covers
  <2> HIDE DEF one
  <2>3. /\ new \in Seq(Matchable) /\ DOMAIN new = 1..(k + 1) /\ new[k + 1] = one
        /\ \A i \in 1..k : new[i] = matchers[i]
    BY <1>0, <2>1
  <2>4. 1..(k + 1) = 1..k \cup {k + 1}
    BY <1>0
  <2> HIDE DEF new, k
  <2>5. \A p \in Nat : Matched(new, p) <=> Matched(matchers, p) \/ (r[1] <= p /\ p <= r[2])
    BY <1>0, <2>2, <2>3, <2>4 DEF Matched
  <2> QED
    BY <1>2, <2>3, <2>5 DEF new, one
<1> QED
  BY <1>1, <1>2 DEF AddMatcher

LEMMA MatchersPorts ==
    ASSUME NEW ranges \in Seq(PortRanges)
    PROVE  /\ Matchers(ranges) \in Seq(Matchable)
           /\ \A p \in Nat : Matched(Matchers(ranges), p) <=> Covers(ranges, p)
<1> DEFINE n == Len(ranges)
           X == Seq(Matchable)
           F == [i \in Nat |-> [x \in X |-> IF i \in 1..n THEN AddMatcher(x, ranges[i]) ELSE x]]
           upTo == CHOOSE g : g = [i \in 0..n |-> IF i = 0 THEN <<>>
                                                  ELSE AddMatcher(g[i - 1], ranges[i])]
<1>0. n \in Nat /\ DOMAIN ranges = 1..n /\ \A i \in 1..n : ranges[i] \in PortRanges
  OBVIOUS
<1>1. \A x \in X : \A i \in 1..n : AddMatcher(x, ranges[i]) \in X
  BY <1>0, AddMatcherPorts
<1>2. F \in [Nat -> [X -> X]]
  <2> HIDE DEF n, X
  <2> QED
    BY <1>1
<1>3. PICK g : Loops(g, <<>>, F, X, n)
  <2>1. <<>> \in X
    OBVIOUS
  <2> HIDE DEF F, X, n
  <2> QED
    BY <1>0, <1>2, <2>1, LoopExists
<1>4. \E u : u = [i \in 0..n |-> IF i = 0 THEN <<>> ELSE AddMatcher(u[i - 1], ranges[i])]
  <2> HIDE DEF F, n, X
  <2>1. g \in [0..n -> X] /\ g[0] = <<>> /\ \A i \in 1..n : g[i] = F[i][g[i - 1]]
    BY <1>3 DEF Loops
  <2>2. ASSUME NEW i \in 1..n PROVE g[i] = AddMatcher(g[i - 1], ranges[i])
    <3>1. i \in Nat /\ i - 1 \in 0..n
      BY <1>0
    <3>2. F[i][g[i - 1]] = AddMatcher(g[i - 1], ranges[i])
      BY <2>1, <3>1 DEF F
    <3> QED
      BY <2>1, <3>2
  <2>3. \A i \in 0..n : i # 0 => i \in 1..n
    BY <1>0
  <2>4. \A i \in 0..n : g[i] = IF i = 0 THEN <<>> ELSE AddMatcher(g[i - 1], ranges[i])
    BY <2>1, <2>2, <2>3
  <2>5. g = [i \in 0..n |-> IF i = 0 THEN <<>> ELSE AddMatcher(g[i - 1], ranges[i])]
    BY <2>1, <2>4
  <2> QED
    BY <2>5
<1>5. upTo = [i \in 0..n |-> IF i = 0 THEN <<>> ELSE AddMatcher(upTo[i - 1], ranges[i])]
  <2> HIDE DEF n
  <2> QED
    BY <1>4
<1>6. Matchers(ranges) = upTo[n]
  BY Zenon DEF Matchers
<1> HIDE DEF upTo
<1> DEFINE S == {i \in 0..n : /\ upTo[i] \in X
                              /\ \A p \in Nat : Matched(upTo[i], p) <=>
                                   \E j \in 1..i : ranges[j][1] <= p /\ p <= ranges[j][2]}
<1>7. 0 \in S
  <2>1. upTo[0] = <<>> /\ 0 \in 0..n /\ <<>> \in X
    BY <1>0, <1>5
  <2>2. \A p \in Nat : /\ ~\E j \in 1..0 : ranges[j][1] <= p /\ p <= ranges[j][2]
                       /\ ~Matched(<<>>, p)
    BY DEF Matched
  <2> HIDE DEF n, X
  <2> QED
    BY <2>1, <2>2
<1>8. ASSUME NEW i \in 1..n, i - 1 \in S PROVE i \in S
  <2>1. upTo[i] = AddMatcher(upTo[i - 1], ranges[i])
    BY <1>0, <1>5
  <2>2. upTo[i - 1] \in X /\ ranges[i] \in PortRanges
    BY <1>0, <1>8
  <2>3. /\ upTo[i] \in X
        /\ \A p \in Nat : Matched(upTo[i], p) <=>
             Matched(upTo[i - 1], p) \/ (ranges[i][1] <= p /\ p <= ranges[i][2])
    <3> DEFINE before == upTo[i - 1]
               r == ranges[i]
    <3>1. before \in Seq(Matchable) /\ r \in PortRanges
      BY <2>2
    <3> HIDE DEF before, r
    <3>2. /\ AddMatcher(before, r) \in Seq(Matchable)
          /\ \A p \in Nat : Matched(AddMatcher(before, r), p) <=>
                              Matched(before, p) \/ (r[1] <= p /\ p <= r[2])
      BY <3>1, AddMatcherPorts
    <3> QED
      BY <2>1, <3>2 DEF before, r
  <2>4. \A p \in Nat : Matched(upTo[i - 1], p) <=>
             \E j \in 1..(i - 1) : ranges[j][1] <= p /\ p <= ranges[j][2]
    BY <1>8
  <2>5. 1..i = 1..(i - 1) \cup {i} /\ i \in 0..n
    BY <1>0
  <2> HIDE DEF X, n
  <2>6. \A p \in Nat : Matched(upTo[i], p) <=>
             \E j \in 1..i : ranges[j][1] <= p /\ p <= ranges[j][2]
    BY <2>3, <2>4, <2>5
  <2> QED
    BY <2>3, <2>5, <2>6
<1> HIDE DEF S
<1>9. n \in S
  <2> HIDE DEF n
  <2>1. n \in Nat /\ \A i \in 1..n : i - 1 \in S => i \in S
    BY <1>0, <1>8
  <2>2. \A i \in 0..n : i \in S
    BY <1>7, <2>1, LoopInduction
  <2> QED
    BY <2>1, <2>2
<1> QED
  BY <1>0, <1>6, <1>9 DEF S, Covers

\* Rules are added once.
LEMMA AddNewElements ==
    ASSUME NEW T, NEW seq \in Seq(T), NEW more \in Seq(T)
    PROVE  /\ AddNew(seq, more) \in Seq(T)
           /\ ToSet(AddNew(seq, more)) = ToSet(seq) \cup ToSet(more)
           /\ IsInjective(seq) => IsInjective(AddNew(seq, more))
<1> DEFINE n == Len(more)
           X == Seq(T)
           F == [i \in Nat |-> [x \in X |-> IF i \in 1..n THEN AppendNew(x, more[i]) ELSE x]]
           upTo == CHOOSE g : g = [i \in 0..n |-> IF i = 0 THEN seq
                                                  ELSE AppendNew(g[i - 1], more[i])]
<1>0. n \in Nat /\ DOMAIN more = 1..n /\ \A i \in 1..n : more[i] \in T
  OBVIOUS
<1>1. ASSUME NEW x \in X, NEW y \in T
      PROVE  /\ AppendNew(x, y) \in X /\ ToSet(AppendNew(x, y)) = ToSet(x) \cup {y}
             /\ IsInjective(x) => IsInjective(AppendNew(x, y))
  <2>1. Contains(x, y) <=> y \in ToSet(x)
    BY DEF Contains, ToSet
  <2>2. CASE Contains(x, y)
    BY <2>1, <2>2 DEF AppendNew
  <2>3. CASE ~Contains(x, y)
    <3>1. AppendNew(x, y) = Append(x, y)
      BY <2>3 DEF AppendNew
    <3> QED
      BY <2>1, <2>3, <3>1, AppendElements, AppendInjectiveIff
  <2> QED
    BY <2>2, <2>3
<1>2. F \in [Nat -> [X -> X]]
  <2> HIDE DEF n, X
  <2> QED
    BY <1>0, <1>1
<1>3. PICK g : Loops(g, seq, F, X, n)
  <2>1. seq \in X
    OBVIOUS
  <2> HIDE DEF F, X, n
  <2> QED
    BY <1>0, <1>2, <2>1, LoopExists
<1>4. \E u : u = [i \in 0..n |-> IF i = 0 THEN seq ELSE AppendNew(u[i - 1], more[i])]
  <2> HIDE DEF F, n, X
  <2>1. g \in [0..n -> X] /\ g[0] = seq /\ \A i \in 1..n : g[i] = F[i][g[i - 1]]
    BY <1>3 DEF Loops
  <2>2. ASSUME NEW i \in 1..n PROVE g[i] = AppendNew(g[i - 1], more[i])
    <3>1. i \in Nat /\ i - 1 \in 0..n
      BY <1>0
    <3>2. F[i][g[i - 1]] = AppendNew(g[i - 1], more[i])
      BY <2>1, <3>1 DEF F
    <3> QED
      BY <2>1, <3>2
  <2>3. \A i \in 0..n : i # 0 => i \in 1..n
    BY <1>0
  <2>4. \A i \in 0..n : g[i] = IF i = 0 THEN seq ELSE AppendNew(g[i - 1], more[i])
    BY <2>1, <2>2, <2>3
  <2>5. g = [i \in 0..n |-> IF i = 0 THEN seq ELSE AppendNew(g[i - 1], more[i])]
    BY <2>1, <2>4
  <2> QED
    BY <2>5
<1>5. upTo = [i \in 0..n |-> IF i = 0 THEN seq ELSE AppendNew(upTo[i - 1], more[i])]
  <2> HIDE DEF n
  <2> QED
    BY <1>4
<1>6. AddNew(seq, more) = upTo[n]
  BY Zenon DEF AddNew
<1> HIDE DEF upTo
<1> DEFINE S == {i \in 0..n : /\ upTo[i] \in X
                              /\ ToSet(upTo[i]) = ToSet(seq) \cup {more[j] : j \in 1..i}
                              /\ IsInjective(seq) => IsInjective(upTo[i])}
<1>7. 0 \in S
  <2>1. upTo[0] = seq /\ 0 \in 0..n /\ seq \in X
    BY <1>0, <1>5
  <2>2. {more[j] : j \in 1..0} = {}
    OBVIOUS
  <2> HIDE DEF n, X
  <2> QED
    BY <2>1, <2>2
<1>8. ASSUME NEW i \in 1..n, i - 1 \in S PROVE i \in S
  <2>1. upTo[i] = AppendNew(upTo[i - 1], more[i])
    BY <1>0, <1>5
  <2>2. upTo[i - 1] \in X /\ more[i] \in T
    BY <1>0, <1>8
  <2>3. /\ ToSet(upTo[i - 1]) = ToSet(seq) \cup {more[j] : j \in 1..(i - 1)}
        /\ IsInjective(seq) => IsInjective(upTo[i - 1])
    BY <1>8
  <2>4. 1..i = 1..(i - 1) \cup {i} /\ i \in 0..n
    BY <1>0
  <2>5. {more[j] : j \in 1..i} = {more[j] : j \in 1..(i - 1)} \cup {more[i]}
    BY <2>4
  <2> HIDE DEF X, n
  <2>6. /\ upTo[i] \in X /\ ToSet(upTo[i]) = ToSet(upTo[i - 1]) \cup {more[i]}
        /\ IsInjective(upTo[i - 1]) => IsInjective(upTo[i])
    BY <1>1, <2>1, <2>2
  <2> QED
    BY <2>3, <2>4, <2>5, <2>6
<1> HIDE DEF S
<1>9. n \in S
  <2> HIDE DEF n
  <2>1. n \in Nat /\ \A i \in 1..n : i - 1 \in S => i \in S
    BY <1>0, <1>8
  <2>2. \A i \in 0..n : i \in S
    BY <1>7, <2>1, LoopInduction
  <2> QED
    BY <2>1, <2>2
<1>10. ToSet(more) = {more[j] : j \in 1..n}
  BY <1>0 DEF ToSet
<1> QED
  BY <1>6, <1>9, <1>10 DEF S

-----------------------------------------------------------------------------
(* The plan, node by node.                                                 *)

\* The rules of a family, and what the planner has done after some of the nodes.
NatRules(f) == [chain : {"PREROUTING"}, tag : {f}, protocol : {"tcp", "udp"}, match : Matchable,
                to : 1..MaxPort]
PlanSoFar(f) == [allocated : Seq(Allocations), rules : Seq(NatRules(f)), errors : Nat]

\* A port is allocated to a target, a rule sends it there, a node is the first
\* of the nodes up to the k-th that asks for it.
Given(allocated, t, protocol, p) ==
    \E i \in DOMAIN allocated :
      /\ allocated[i].to = t /\ allocated[i].protocol = protocol
      /\ allocated[i].range[1] <= p /\ p <= allocated[i].range[2]
Sends(rules, t, protocol, p) ==
    \E i \in DOMAIN rules :
      rules[i].to = t /\ rules[i].protocol = protocol /\ Covers(rules[i].match, p)
Owns(infos, f, protocol, k, t, p) ==
    /\ p \notin TargetPorts(infos, f, protocol)
    /\ \E i \in 1..k : /\ infos[i].target = t /\ Asks(infos[i], f, protocol, p)
                       /\ \A j \in 1..(i - 1) : ~Asks(infos[j], f, protocol, p)

\* The ports of a list of ranges.
LEMMA PortsCovered ==
    ASSUME NEW s \in Seq(PortRanges), NEW p
    PROVE  p \in PortsOf(s) <=> p \in Nat /\ Covers(s, p)
<1>1. \A i \in DOMAIN s : s[i][1] \in Nat /\ s[i][2] \in Nat
  <2>1. \A i \in DOMAIN s : s[i] \in PortRanges
    OBVIOUS
  <2> QED
    BY <2>1, PortsAssumption DEF PortRanges
<1>2. \A i \in DOMAIN s : p \in s[i][1]..s[i][2] <=> p \in Nat /\ s[i][1] <= p /\ p <= s[i][2]
  BY <1>1
<1> QED
  BY <1>2 DEF PortsOf, Covers

\* A list of ranges without a port is empty.
LEMMA NothingCovered ==
    ASSUME NEW s \in Seq(PortRanges), \A p \in Nat : ~Covers(s, p)
    PROVE  s = <<>>
<1> SUFFICES ASSUME s # <<>> PROVE FALSE
  OBVIOUS
<1>1. 1 \in DOMAIN s /\ s[1] \in PortRanges
  OBVIOUS
<1>2. s[1][1] \in Nat /\ s[1][1] <= s[1][1] /\ s[1][1] <= s[1][2]
  BY <1>1, PortsAssumption DEF PortRanges
<1> QED
  BY <1>1, <1>2 DEF Covers

\* What a node that is accepted adds: its ranges are allocated to it and sent to
\* it.
LEMMA AddNodeAdds ==
    ASSUME NEW infos \in Seq(Nodes), NEW f \in Families, NEW done \in PlanSoFar(f), NEW n \in Nodes,
           n.kind = f, ~Invalid(n)
    PROVE  LET new == AddNode(infos, f, done, n)
               ranges == NodeRanges(infos, n, done.allocated)
               protocol == ForwardProtocol(n)
           IN  /\ new \in PlanSoFar(f)
               /\ IsInjective(done.rules) => IsInjective(new.rules)
               /\ \A t, pr : \A p \in Nat :
                    /\ Given(new.allocated, t, pr, p) <=>
                         \/ Given(done.allocated, t, pr, p)
                         \/ t = n.target /\ pr = protocol /\ Covers(ranges, p)
                    /\ Sends(new.rules, t, pr, p) <=>
                         \/ Sends(done.rules, t, pr, p)
                         \/ t = n.target /\ pr = protocol /\ Covers(ranges, p)
<1> DEFINE new == AddNode(infos, f, done, n)
           ranges == NodeRanges(infos, n, done.allocated)
           protocol == ForwardProtocol(n)
           matchers == Matchers(ranges)
           gets == [i \in DOMAIN ranges |-> [to |-> n.target, range |-> ranges[i],
                                             protocol |-> protocol]]
           more == [i \in DOMAIN matchers |-> NatRule(f, n, matchers[i])]
           asked == SubtractRange(External(n), <<n.target, n.target>>)
           count == IF asked # <<>> /\ ranges = <<>> THEN 1 ELSE 0
<1>0. /\ done.allocated \in Seq(Allocations) /\ done.rules \in Seq(NatRules(f))
      /\ done.errors \in Nat
  BY DEF PlanSoFar
<1>1. new = [allocated |-> done.allocated \o gets, rules |-> AddNew(done.rules, more),
             errors |-> done.errors + count]
  BY DEF AddNode, Asked
<1>2. n.target \in 1..MaxPort /\ (External(n) # <<>> => protocol \in {"tcp", "udp"})
  BY ValidNode
<1>3. ranges \in Seq(PortRanges)
  BY <1>0, NodeRangesPorts
<1>4. ranges # <<>> => External(n) # <<>>
  <2> SUFFICES ASSUME External(n) = <<>> PROVE ranges = <<>>
    OBVIOUS
  <2>1. \A p : ~Covers(<<>>, p)
    BY DEF Covers
  <2>2. \A p \in Nat : Covers(ranges, p) => Covers(External(n), p)
    BY <1>0, NodeRangesPorts
  <2> HIDE DEF ranges
  <2>3. \A p \in Nat : ~Covers(ranges, p)
    BY <2>1, <2>2
  <2> QED
    BY <1>3, <2>3, NothingCovered
<1> HIDE DEF ranges
<1>5. matchers \in Seq(Matchable) /\ \A p \in Nat : Matched(matchers, p) <=> Covers(ranges, p)
  BY <1>3, MatchersPorts
<1>6. matchers # <<>> => ranges # <<>>
  <2> SUFFICES ASSUME ranges = <<>>, matchers # <<>> PROVE FALSE
    OBVIOUS
  <2> HIDE DEF matchers
  <2>1. 1 \in DOMAIN matchers /\ matchers[1] \in Matchable
    BY <1>5
  <2>2. matchers[1] \in Seq(PortRanges) /\ matchers[1] # <<>>
    BY <2>1 DEF Matchable
  <2>3. \E p \in Nat : Covers(matchers[1], p)
    BY <2>2, NothingCovered
  <2>4. \E p \in Nat : Covers(ranges, p)
    BY <1>5, <2>1, <2>3 DEF Matched
  <2> QED
    BY <2>4 DEF Covers
<1> HIDE DEF protocol, matchers
<1>7. /\ Len(ranges) \in Nat /\ DOMAIN ranges = 1..Len(ranges)
      /\ \A i \in DOMAIN ranges : ranges[i] \in PortRanges /\ protocol \in {"tcp", "udp"}
  BY <1>2, <1>3, <1>4
<1>8. gets \in Seq(Allocations)
  <2>1. \A i \in DOMAIN ranges : gets[i] \in Allocations
    BY <1>2, <1>7 DEF Allocations
  <2>2. gets \in [1..Len(ranges) -> Allocations]
    BY <1>7, <2>1
  <2> HIDE DEF gets
  <2> QED
    BY <1>7, <2>2
<1>9. /\ Len(matchers) \in Nat /\ DOMAIN matchers = 1..Len(matchers)
      /\ \A i \in DOMAIN matchers : matchers[i] \in Matchable /\ protocol \in {"tcp", "udp"}
  BY <1>2, <1>4, <1>5, <1>6
<1>10. \A i \in DOMAIN matchers :
         more[i] = [chain |-> "PREROUTING", tag |-> f, protocol |-> protocol,
                    match |-> matchers[i], to |-> n.target]
  BY DEF NatRule, protocol
<1>11. more \in Seq(NatRules(f))
  <2>1. \A i \in DOMAIN matchers : more[i] \in NatRules(f)
    BY <1>2, <1>9, <1>10 DEF NatRules
  <2>2. more \in [1..Len(matchers) -> NatRules(f)]
    BY <1>9, <2>1
  <2> HIDE DEF more
  <2> QED
    BY <1>9, <2>2
<1>12. ASSUME NEW t, NEW pr, NEW p \in Nat
       PROVE  Given(gets, t, pr, p) <=> t = n.target /\ pr = protocol /\ Covers(ranges, p)
  <2>1. \A i \in DOMAIN ranges : /\ gets[i].to = n.target /\ gets[i].protocol = protocol
                                 /\ gets[i].range = ranges[i]
    OBVIOUS
  <2>2. DOMAIN gets = DOMAIN ranges
    OBVIOUS
  <2> HIDE DEF gets
  <2> QED
    BY <2>1, <2>2 DEF Given, Covers
<1>13. ASSUME NEW t, NEW pr, NEW p \in Nat
       PROVE  Sends(more, t, pr, p) <=> t = n.target /\ pr = protocol /\ Covers(ranges, p)
  <2>1. \A i \in DOMAIN matchers : /\ more[i].to = n.target /\ more[i].protocol = protocol
                                   /\ more[i].match = matchers[i]
    BY <1>10
  <2>2. DOMAIN more = DOMAIN matchers
    OBVIOUS
  <2> HIDE DEF more
  <2>3. Sends(more, t, pr, p) <=> t = n.target /\ pr = protocol /\ Matched(matchers, p)
    BY <2>1, <2>2 DEF Sends, Matched
  <2> QED
    BY <1>5, <2>3 DEF matchers
<1>14. ASSUME NEW t, NEW pr, NEW p \in Nat
       PROVE  Given(done.allocated \o gets, t, pr, p) <=>
                Given(done.allocated, t, pr, p) \/ Given(gets, t, pr, p)
  <2> DEFINE Has(s) == \E a \in ToSet(s) : /\ a.to = t /\ a.protocol = pr
                                           /\ a.range[1] <= p /\ p <= a.range[2]
  <2>1. \A s : Given(s, t, pr, p) <=> Has(s)
    BY DEF Given, ToSet
  <2> HIDE DEF gets
  <2>2. ToSet(done.allocated \o gets) = ToSet(done.allocated) \cup ToSet(gets)
    BY <1>0, <1>8, ConcatElements
  <2> QED
    BY <2>1, <2>2
<1> DEFINE added == AddNew(done.rules, more)
<1>15. /\ added \in Seq(NatRules(f)) /\ ToSet(added) = ToSet(done.rules) \cup ToSet(more)
       /\ IsInjective(done.rules) => IsInjective(added)
  <2> DEFINE old == done.rules
             T == NatRules(f)
  <2>1. old \in Seq(T) /\ more \in Seq(T)
    BY <1>0, <1>11
  <2> HIDE DEF old, more, T
  <2>2. /\ AddNew(old, more) \in Seq(T) /\ ToSet(AddNew(old, more)) = ToSet(old) \cup ToSet(more)
        /\ IsInjective(old) => IsInjective(AddNew(old, more))
    BY <2>1, AddNewElements
  <2> QED
    BY <2>2 DEF old, T
<1> HIDE DEF added
<1>16. ASSUME NEW t, NEW pr, NEW p \in Nat
       PROVE  Sends(added, t, pr, p) <=> Sends(done.rules, t, pr, p) \/ Sends(more, t, pr, p)
  <2> DEFINE Has(s) == \E a \in ToSet(s) : a.to = t /\ a.protocol = pr /\ Covers(a.match, p)
  <2>1. \A s : Sends(s, t, pr, p) <=> Has(s)
    BY DEF Sends, ToSet
  <2> QED
    BY <1>15, <2>1
<1>17. done.allocated \o gets \in Seq(Allocations)
  <2> HIDE DEF gets
  <2> QED
    BY <1>0, <1>8
<1>18. done.errors + count \in Nat
  BY <1>0
<1> HIDE DEF gets, more, count
<1>19. new = [allocated |-> done.allocated \o gets, rules |-> added, errors |-> done.errors + count]
  BY <1>1 DEF added
<1> HIDE DEF new
<1>20. new \in PlanSoFar(f) /\ new.allocated = done.allocated \o gets /\ new.rules = added
  BY <1>15, <1>17, <1>18, <1>19 DEF PlanSoFar
<1>21. \A t, pr : \A p \in Nat :
         /\ Given(new.allocated, t, pr, p) <=>
              \/ Given(done.allocated, t, pr, p)
              \/ t = n.target /\ pr = protocol /\ Covers(ranges, p)
         /\ Sends(new.rules, t, pr, p) <=>
              \/ Sends(done.rules, t, pr, p)
              \/ t = n.target /\ pr = protocol /\ Covers(ranges, p)
  BY <1>12, <1>13, <1>14, <1>16, <1>20
<1> QED
  BY <1>15, <1>20, <1>21 DEF new, ranges, protocol

\* What the planner has done after k nodes: the ports it allocated and the ports
\* its rules send are those whose first asker is among these nodes.
PlanBuilt(infos, f, done, k) ==
    /\ done \in PlanSoFar(f) /\ IsInjective(done.rules)
    /\ \A t, pr : \A p \in Nat :
         /\ Given(done.allocated, t, pr, p) <=> Owns(infos, f, pr, k, t, p)
         /\ Sends(done.rules, t, pr, p) <=> Owns(infos, f, pr, k, t, p)

\* Of the nodes that ask for a port one is the first.
LEMMA FirstAsker ==
    ASSUME NEW infos, NEW f, NEW pr, NEW p, NEW k \in Nat,
           NEW j \in 1..k, Asks(infos[j], f, pr, p)
    PROVE  \E i \in 1..k : /\ Asks(infos[i], f, pr, p)
                           /\ \A m \in 1..(i - 1) : ~Asks(infos[m], f, pr, p)
<1> DEFINE S == {i \in 1..k : Asks(infos[i], f, pr, p)}
<1>1. S \in SUBSET Nat /\ S # {}
  OBVIOUS
<1>2. PICK i \in S : \A y \in S : i <= y
  <2> HIDE DEF S
  <2> QED
    BY <1>1, LeastNat
<1>3. ASSUME NEW m \in 1..(i - 1) PROVE ~Asks(infos[m], f, pr, p)
  <2>1. m \in 1..k /\ ~(i <= m)
    OBVIOUS
  <2> QED
    BY <1>2, <2>1
<1> QED
  BY <1>2, <1>3

\* A node that asks for nothing changes no port's owner.
LEMMA OwnsSame ==
    ASSUME NEW infos, NEW f, NEW pr, NEW t, NEW p, NEW k \in Nat, k # 0,
           ~Asks(infos[k], f, pr, p)
    PROVE  Owns(infos, f, pr, k, t, p) <=> Owns(infos, f, pr, k - 1, t, p)
<1>1. 1..k = 1..(k - 1) \cup {k}
  OBVIOUS
<1> QED
  BY <1>1 DEF Owns

\* An accepted node gets the ports it is the first to ask for.
LEMMA OwnsMore ==
    ASSUME NEW infos \in Seq(Nodes), NEW f \in Families, NEW k \in 1..Len(infos),
           NEW done, PlanBuilt(infos, f, done, k - 1),
           infos[k].kind = f, ~Invalid(infos[k]), NEW t, NEW pr, NEW p \in Nat
    PROVE  Owns(infos, f, pr, k, t, p) <=>
             \/ Owns(infos, f, pr, k - 1, t, p)
             \/ /\ t = infos[k].target /\ pr = ForwardProtocol(infos[k])
                /\ Covers(NodeRanges(infos, infos[k], done.allocated), p)
<1> DEFINE n == infos[k]
           ports == TargetPorts(infos, f, ForwardProtocol(n))
<1>0. n \in Nodes /\ n.kind \in Families /\ k \in Nat /\ k \in DOMAIN infos
  OBVIOUS
<1>1. done.allocated \in Seq(Allocations)
  BY DEF PlanBuilt, PlanSoFar
<1>2. External(n) \in Seq(PortRanges) /\ n.target \in 1..MaxPort
  <2> HIDE DEF n
  <2> QED
    BY <1>0, ValidNode DEF n
<1>3. n.target \in ports
  <2>1. n.target > 0
    BY <1>2, PortsAssumption
  <2> QED
    BY <1>0, <2>1 DEF TargetPorts
<1>4. Covers(NodeRanges(infos, n, done.allocated), p) <=>
        Covers(External(n), p) /\ p \notin ports
        /\ ~Taken(done.allocated, n.target, ForwardProtocol(n), p)
  <2>1. Covers(NodeRanges(infos, n, done.allocated), p) <=>
                /\ Covers(External(n), p) /\ p # n.target
                /\ p \notin TargetPorts(infos, n.kind, ForwardProtocol(n)) \ {n.target}
                /\ ~Taken(done.allocated, n.target, ForwardProtocol(n), p)
    <3> DEFINE given == done.allocated
    <3> HIDE DEF n, given
    <3>1. ~Invalid(n) /\ given \in Seq(Allocations)
      BY <1>1 DEF n, given
    <3>2. \A q \in Nat : Covers(NodeRanges(infos, n, given), q) <=>
                /\ Covers(External(n), q) /\ q # n.target
                /\ q \notin TargetPorts(infos, n.kind, ForwardProtocol(n)) \ {n.target}
                /\ ~Taken(given, n.target, ForwardProtocol(n), q)
      BY <1>0, <3>1, NodeRangesPorts
    <3> QED
      BY <3>2 DEF given
  <2> QED
    BY <1>3, <2>1
<1>5. \A r : Asks(n, f, r, p) <=> r = ForwardProtocol(n) /\ Covers(External(n), p)
  <2>1. p \in PortsOf(External(n)) <=> Covers(External(n), p)
    <3> DEFINE e == External(n)
    <3>1. e \in Seq(PortRanges)
      BY <1>2
    <3> HIDE DEF e
    <3>2. p \in PortsOf(e) <=> Covers(e, p)
      BY <3>1, PortsCovered
    <3> QED
      BY <3>2 DEF e
  <2> QED
    BY <2>1 DEF Asks
<1>6. Taken(done.allocated, n.target, ForwardProtocol(n), p) <=>
        \E u : u # n.target /\ Owns(infos, f, ForwardProtocol(n), k - 1, u, p)
  <2>1. Taken(done.allocated, n.target, ForwardProtocol(n), p) <=>
          \E u : u # n.target /\ Given(done.allocated, u, ForwardProtocol(n), p)
    BY DEF Taken, Given
  <2>2. \A u : Given(done.allocated, u, ForwardProtocol(n), p) <=>
                 Owns(infos, f, ForwardProtocol(n), k - 1, u, p)
    BY DEF PlanBuilt
  <2> QED
    BY <2>1, <2>2
<1>7. 1..k = 1..(k - 1) \cup {k} /\ k - 1 \in Nat
  BY <1>0
<1> DEFINE First(i) == /\ infos[i].target = t /\ Asks(infos[i], f, pr, p)
                       /\ \A j \in 1..(i - 1) : ~Asks(infos[j], f, pr, p)
<1>8. Owns(infos, f, pr, k, t, p) <=>
        \/ Owns(infos, f, pr, k - 1, t, p)
        \/ p \notin TargetPorts(infos, f, pr) /\ First(k)
  BY <1>7 DEF Owns
<1>9. ASSUME p \notin TargetPorts(infos, f, pr), First(k)
      PROVE  /\ t = n.target /\ pr = ForwardProtocol(n)
             /\ Covers(NodeRanges(infos, n, done.allocated), p)
  <2>1. t = n.target /\ pr = ForwardProtocol(n) /\ Covers(External(n), p) /\ p \notin ports
    BY <1>5, <1>9
  <2>2. \A u : ~Owns(infos, f, pr, k - 1, u, p)
    BY <1>9 DEF Owns
  <2> QED
    BY <1>4, <1>6, <2>1, <2>2
<1>10. ASSUME t = n.target, pr = ForwardProtocol(n),
              Covers(NodeRanges(infos, n, done.allocated), p)
       PROVE  Owns(infos, f, pr, k, t, p)
  <2>1. /\ Asks(n, f, pr, p) /\ p \notin TargetPorts(infos, f, pr)
        /\ \A u : Owns(infos, f, pr, k - 1, u, p) => u = n.target
    BY <1>4, <1>5, <1>6, <1>10
  <2>2. CASE \E j \in 1..(k - 1) : Asks(infos[j], f, pr, p)
    <3>1. PICK i \in 1..(k - 1) : /\ Asks(infos[i], f, pr, p)
                                  /\ \A m \in 1..(i - 1) : ~Asks(infos[m], f, pr, p)
      <4> HIDE DEF n
      <4> QED
        BY <1>7, <2>2, FirstAsker
    <3>2. Owns(infos, f, pr, k - 1, infos[i].target, p)
      BY <2>1, <3>1 DEF Owns
    <3>3. infos[i].target = t
      BY <1>10, <2>1, <3>2
    <3> QED
      BY <1>8, <3>2, <3>3
  <2>3. CASE \A j \in 1..(k - 1) : ~Asks(infos[j], f, pr, p)
    BY <1>8, <1>10, <2>1, <2>3
  <2> QED
    BY <2>2, <2>3
<1> QED
  BY <1>8, <1>9, <1>10

\* One node.
LEMMA AddNodeStep ==
    ASSUME NEW infos \in Seq(Nodes), NEW f \in Families, NEW k \in 1..Len(infos),
           NEW done, PlanBuilt(infos, f, done, k - 1)
    PROVE  PlanBuilt(infos, f, AddNode(infos, f, done, infos[k]), k)
<1> DEFINE n == infos[k]
           new == AddNode(infos, f, done, n)
<1>0. n \in Nodes /\ k \in Nat /\ k # 0 /\ done \in PlanSoFar(f) /\ IsInjective(done.rules)
  BY DEF PlanBuilt
<1>1. CASE n.kind # f \/ Invalid(n)
  <2>1. \A t, pr : \A p \in Nat : Owns(infos, f, pr, k, t, p) <=> Owns(infos, f, pr, k - 1, t, p)
    <3>1. \A pr, p : ~Asks(infos[k], f, pr, p)
      BY <1>1 DEF Asks
    <3> QED
      BY <1>0, <3>1, OwnsSame
  <2>2. new \in PlanSoFar(f) /\ new.allocated = done.allocated /\ new.rules = done.rules
    <3>1. new = done \/ new = [done EXCEPT !.errors = @ + 1]
      BY <1>1 DEF AddNode
    <3> HIDE DEF new
    <3> QED
      BY <1>0, <3>1 DEF PlanSoFar
  <2> HIDE DEF new
  <2>3. PlanBuilt(infos, f, new, k)
    BY <1>0, <2>1, <2>2 DEF PlanBuilt
  <2> QED
    BY <2>3 DEF new
<1>2. CASE n.kind = f /\ ~Invalid(n)
  <2>1. /\ new \in PlanSoFar(f)
        /\ IsInjective(new.rules)
        /\ \A t, pr : \A p \in Nat :
             /\ Given(new.allocated, t, pr, p) <=>
                  \/ Given(done.allocated, t, pr, p)
                  \/ /\ t = n.target /\ pr = ForwardProtocol(n)
                     /\ Covers(NodeRanges(infos, n, done.allocated), p)
             /\ Sends(new.rules, t, pr, p) <=>
                  \/ Sends(done.rules, t, pr, p)
                  \/ /\ t = n.target /\ pr = ForwardProtocol(n)
                     /\ Covers(NodeRanges(infos, n, done.allocated), p)
    <3> HIDE DEF n
    <3> QED
      BY <1>0, <1>2, AddNodeAdds
  <2>2. \A t, pr : \A p \in Nat :
          Owns(infos, f, pr, k, t, p) <=>
             \/ Owns(infos, f, pr, k - 1, t, p)
             \/ /\ t = n.target /\ pr = ForwardProtocol(n)
                /\ Covers(NodeRanges(infos, n, done.allocated), p)
    BY <1>2, OwnsMore
  <2>3. \A t, pr : \A p \in Nat :
          /\ Given(done.allocated, t, pr, p) <=> Owns(infos, f, pr, k - 1, t, p)
          /\ Sends(done.rules, t, pr, p) <=> Owns(infos, f, pr, k - 1, t, p)
    BY DEF PlanBuilt
  <2> HIDE DEF new, n
  <2>4. \A t, pr : \A p \in Nat :
          /\ Given(new.allocated, t, pr, p) <=> Owns(infos, f, pr, k, t, p)
          /\ Sends(new.rules, t, pr, p) <=> Owns(infos, f, pr, k, t, p)
    BY <2>1, <2>2, <2>3
  <2>5. PlanBuilt(infos, f, new, k)
    BY <2>1, <2>4 DEF PlanBuilt
  <2> QED
    BY <2>5 DEF new, n
<1> QED
  BY <1>1, <1>2

\* All the nodes.
LEMMA AddNodeType ==
    ASSUME NEW infos \in Seq(Nodes), NEW f \in Families, NEW done \in PlanSoFar(f), NEW n \in Nodes
    PROVE  AddNode(infos, f, done, n) \in PlanSoFar(f)
<1>1. CASE n.kind # f \/ Invalid(n)
  <2> DEFINE new == AddNode(infos, f, done, n)
  <2>1. new = done \/ new = [done EXCEPT !.errors = @ + 1]
    BY <1>1 DEF AddNode
  <2> HIDE DEF new
  <2>2. new \in PlanSoFar(f)
    BY <2>1 DEF PlanSoFar
  <2> QED
    BY <2>2 DEF new
<1>2. CASE n.kind = f /\ ~Invalid(n)
  BY <1>2, AddNodeAdds
<1> QED
  BY <1>1, <1>2

LEMMA PlanIsBuilt ==
    ASSUME NEW infos \in Seq(Nodes), NEW f \in Families
    PROVE  PlanBuilt(infos, f, BuildPlan(infos, f), Len(infos))
<1> DEFINE n == Len(infos)
           X == PlanSoFar(f)
           start == [allocated |-> <<>>, rules |-> <<>>, errors |-> 0]
           F == [i \in Nat |-> [x \in X |-> IF i \in 1..n THEN AddNode(infos, f, x, infos[i]) ELSE x]]
           upTo == CHOOSE g : g = [i \in 0..n |->
                                     IF i = 0 THEN [allocated |-> <<>>, rules |-> <<>>, errors |-> 0]
                                     ELSE AddNode(infos, f, g[i - 1], infos[i])]
<1>0. n \in Nat /\ DOMAIN infos = 1..n /\ \A i \in 1..n : infos[i] \in Nodes
  OBVIOUS
<1>1. \A x \in X : \A i \in 1..n : AddNode(infos, f, x, infos[i]) \in X
  BY <1>0, AddNodeType
<1>2. F \in [Nat -> [X -> X]]
  <2> HIDE DEF n, X
  <2> QED
    BY <1>1
<1>3. start \in X
  BY DEF PlanSoFar
<1>4. PICK g : Loops(g, start, F, X, n)
  <2> HIDE DEF F, X, n, start
  <2> QED
    BY <1>0, <1>2, <1>3, LoopExists
<1>5. \E u : u = [i \in 0..n |-> IF i = 0 THEN start ELSE AddNode(infos, f, u[i - 1], infos[i])]
  <2> HIDE DEF F, n, X, start
  <2>1. g \in [0..n -> X] /\ g[0] = start /\ \A i \in 1..n : g[i] = F[i][g[i - 1]]
    BY <1>4 DEF Loops
  <2>2. ASSUME NEW i \in 1..n PROVE g[i] = AddNode(infos, f, g[i - 1], infos[i])
    <3>1. i \in Nat /\ i - 1 \in 0..n
      BY <1>0
    <3>2. F[i][g[i - 1]] = AddNode(infos, f, g[i - 1], infos[i])
      BY <2>1, <3>1 DEF F
    <3> QED
      BY <2>1, <3>2
  <2>3. \A i \in 0..n : i # 0 => i \in 1..n
    BY <1>0
  <2>4. \A i \in 0..n : g[i] = IF i = 0 THEN start ELSE AddNode(infos, f, g[i - 1], infos[i])
    BY <2>1, <2>2, <2>3
  <2>5. g = [i \in 0..n |-> IF i = 0 THEN start ELSE AddNode(infos, f, g[i - 1], infos[i])]
    BY <2>1, <2>4
  <2> QED
    BY <2>5
<1>6. upTo = [i \in 0..n |-> IF i = 0 THEN start ELSE AddNode(infos, f, upTo[i - 1], infos[i])]
  <2> HIDE DEF n
  <2> QED
    BY <1>5
<1>7. BuildPlan(infos, f) = upTo[n]
  BY Zenon DEF BuildPlan
<1> HIDE DEF upTo
<1> DEFINE S == {i \in 0..n : PlanBuilt(infos, f, upTo[i], i)}
<1>8. 0 \in S
  <2>1. upTo[0] = start /\ 0 \in 0..n
    <3> HIDE DEF start
    <3> QED
      BY <1>0, <1>6
  <2>2. start.allocated = <<>> /\ start.rules = <<>> /\ IsInjective(start.rules)
    BY DEF IsInjective
  <2>3. \A t, pr, p : ~Given(<<>>, t, pr, p) /\ ~Sends(<<>>, t, pr, p)
    BY DEF Given, Sends
  <2>4. \A t, pr, p : ~Owns(infos, f, pr, 0, t, p)
    BY DEF Owns
  <2> HIDE DEF start
  <2>5. PlanBuilt(infos, f, start, 0)
    BY <1>3, <2>2, <2>3, <2>4 DEF PlanBuilt
  <2> QED
    BY <2>1, <2>5
<1>9. ASSUME NEW i \in 1..n, i - 1 \in S PROVE i \in S
  <2>1. upTo[i] = AddNode(infos, f, upTo[i - 1], infos[i])
    <3> HIDE DEF start
    <3> QED
      BY <1>0, <1>6
  <2>2. PlanBuilt(infos, f, upTo[i - 1], i - 1)
    BY <1>9
  <2>3. PlanBuilt(infos, f, AddNode(infos, f, upTo[i - 1], infos[i]), i)
    BY <2>2, AddNodeStep
  <2>4. i \in 0..n
    BY <1>0
  <2> QED
    BY <2>1, <2>3, <2>4
<1> HIDE DEF S
<1>10. n \in S
  <2> HIDE DEF n
  <2>1. n \in Nat /\ \A i \in 1..n : i - 1 \in S => i \in S
    BY <1>0, <1>9
  <2>2. \A i \in 0..n : i \in S
    BY <1>8, <2>1, LoopInduction
  <2> QED
    BY <2>1, <2>2
<1> QED
  BY <1>7, <1>10 DEF S

\* The rules send each port where it belongs.
LEMMA EveryPortRight ==
    ASSUME NEW infos \in Seq(Nodes)
    PROVE  FirstAskerGetsPort(infos)
<1> SUFFICES ASSUME NEW f \in Families, NEW pr \in {"tcp", "udp"}
             PROVE  Forwards(infos, f, pr) =
                      {pt \in (1..MaxPort) \X (1..MaxPort) :
                         /\ pt[1] \notin TargetPorts(infos, f, pr)
                         /\ \E i \in DOMAIN infos :
                              /\ infos[i].target = pt[2]
                              /\ Asks(infos[i], f, pr, pt[1])
                              /\ \A k \in 1..(i - 1) : ~Asks(infos[k], f, pr, pt[1])}
  BY DEF FirstAskerGetsPort
<1> DEFINE rules == BuildRules(infos, f)
           P == (1..MaxPort) \X (1..MaxPort)
<1>1. /\ rules \in Seq(NatRules(f))
      /\ \A t : \A p \in Nat : Sends(rules, t, pr, p) <=> Owns(infos, f, pr, Len(infos), t, p)
  <2> DEFINE done == BuildPlan(infos, f)
  <2>1. PlanBuilt(infos, f, done, Len(infos))
    BY PlanIsBuilt
  <2> HIDE DEF done
  <2>2. rules = done.rules
    BY DEF BuildRules, done
  <2> QED
    BY <2>1, <2>2 DEF PlanBuilt, PlanSoFar
<1> HIDE DEF rules
<1>2. \A i \in DOMAIN rules : rules[i] \in NatRules(f)
  BY <1>1
<1>3. \A i \in DOMAIN rules : rules[i].match \in Seq(PortRanges) /\ rules[i].to \in 1..MaxPort
  BY <1>2 DEF NatRules, Matchable
<1>4. \A i \in DOMAIN rules : \A p : p \in PortsOf(rules[i].match) <=> p \in Nat /\ Covers(rules[i].match, p)
  BY <1>3, PortsCovered
<1>5. \A i \in DOMAIN rules : \A p \in Nat : Covers(rules[i].match, p) => p \in 1..MaxPort
  <2> SUFFICES ASSUME NEW i \in DOMAIN rules, NEW p \in Nat, Covers(rules[i].match, p)
               PROVE  p \in 1..MaxPort
    OBVIOUS
  <2> DEFINE m == rules[i].match
  <2>1. m \in Seq(PortRanges)
    BY <1>3
  <2> HIDE DEF m
  <2>2. PICK j \in DOMAIN m : m[j][1] <= p /\ p <= m[j][2]
    BY DEF Covers, m
  <2>3. m[j] \in PortRanges
    BY <2>1
  <2> QED
    BY <2>2, <2>3, PortsAssumption DEF PortRanges
<1>6. ASSUME NEW pt
      PROVE  pt \in Forwards(infos, f, pr) <=> pt \in P /\ Sends(rules, pt[2], pr, pt[1])
  <2>1. pt \in Forwards(infos, f, pr) <=>
          \E i \in DOMAIN rules : /\ rules[i].protocol = pr
                                  /\ pt \in PortsOf(rules[i].match) \X {rules[i].to}
    BY DEF Forwards, rules
  <2>2. ASSUME NEW i \in DOMAIN rules
        PROVE  pt \in PortsOf(rules[i].match) \X {rules[i].to} <=>
                 pt \in P /\ rules[i].to = pt[2] /\ Covers(rules[i].match, pt[1])
    <3>1. pt \in PortsOf(rules[i].match) \X {rules[i].to} => pt \in P
      BY <1>3, <1>4, <1>5
    <3>2. pt \in P => pt[1] \in Nat
      BY PortsAssumption
    <3> QED
      BY <1>4, <3>1, <3>2
  <2> QED
    BY <2>1, <2>2 DEF Sends
<1>7. ASSUME NEW pt \in P
      PROVE  Sends(rules, pt[2], pr, pt[1]) <=>
               /\ pt[1] \notin TargetPorts(infos, f, pr)
               /\ \E i \in DOMAIN infos :
                    /\ infos[i].target = pt[2]
                    /\ Asks(infos[i], f, pr, pt[1])
                    /\ \A k \in 1..(i - 1) : ~Asks(infos[k], f, pr, pt[1])
  <2>1. pt[1] \in Nat /\ DOMAIN infos = 1..Len(infos)
    BY PortsAssumption
  <2> QED
    BY <1>1, <2>1 DEF Owns
<1> HIDE DEF P
<1>8. Forwards(infos, f, pr) \subseteq P
  BY <1>6
<1> QED
  BY <1>6, <1>7, <1>8 DEF P

PortAsked == topic = "ports" => question \in PortInputs

\* Of any nodes in any order: the rules send a port that no node listens on to the
\* first node that asks for it, and send no other port anywhere
\* (trim_target_port_conflicts, trim_allocated_range_conflicts).
THEOREM FirstAskerServed == PortSpec => []PortGoesToFirstAsker
<1>1. NothingAsked => PortAsked
  BY DEF NothingAsked, PortAsked
<1>2. PortAsked /\ [AskPorts \/ topic' # "ports"]_planner => PortAsked'
  BY DEF PortAsked, AskPorts, Ask, planner
<1>3. PortAsked => PortGoesToFirstAsker
  BY EveryPortRight, PortInputsAssumption DEF PortAsked, PortGoesToFirstAsker
<1> QED
  BY <1>1, <1>2, <1>3, PTL DEF PortSpec

-----------------------------------------------------------------------------
(* The plans are lists of different rules of their family.                 *)

\* Different rules in a row with different ones.
LEMMA ConcatInjective ==
    ASSUME NEW T, NEW s \in Seq(T), NEW u \in Seq(T), IsInjective(s), IsInjective(u),
           ToSet(s) \cap ToSet(u) = {}
    PROVE  IsInjective(s \o u)
<1> DEFINE w == s \o u
<1>1. /\ Len(s) \in Nat /\ Len(u) \in Nat /\ DOMAIN s = 1..Len(s) /\ DOMAIN u = 1..Len(u)
      /\ DOMAIN w = 1..(Len(s) + Len(u))
      /\ \A i \in DOMAIN w : w[i] = IF i <= Len(s) THEN s[i] ELSE u[i - Len(s)]
  OBVIOUS
<1>2. \A i \in DOMAIN s, j \in DOMAIN u : s[i] # u[j]
  BY DEF ToSet
<1>3. \A i, j \in DOMAIN s : s[i] = s[j] => i = j
  BY DEF IsInjective
<1>4. \A i, j \in DOMAIN u : u[i] = u[j] => i = j
  BY DEF IsInjective
<1> HIDE DEF w
<1>5. ASSUME NEW i \in DOMAIN w, NEW j \in DOMAIN w, w[i] = w[j] PROVE i = j
  <2>1. CASE i <= Len(s) /\ j <= Len(s)
    BY <1>1, <1>3, <1>5, <2>1
  <2>2. CASE i <= Len(s) /\ ~(j <= Len(s))
    <3>1. i \in DOMAIN s /\ j - Len(s) \in DOMAIN u
      BY <1>1, <2>2
    <3> QED
      BY <1>1, <1>2, <1>5, <2>2, <3>1
  <2>3. CASE ~(i <= Len(s)) /\ j <= Len(s)
    <3>1. j \in DOMAIN s /\ i - Len(s) \in DOMAIN u
      BY <1>1, <2>3
    <3> QED
      BY <1>1, <1>2, <1>5, <2>3, <3>1
  <2>4. CASE ~(i <= Len(s)) /\ ~(j <= Len(s))
    <3>1. i - Len(s) \in DOMAIN u /\ j - Len(s) \in DOMAIN u
      BY <1>1, <2>4
    <3>2. i - Len(s) = j - Len(s)
      BY <1>1, <1>4, <1>5, <2>4, <3>1
    <3> QED
      BY <1>1, <3>2
  <2> QED
    BY <2>1, <2>2, <2>3, <2>4
<1>6. IsInjective(w)
  BY <1>5 DEF IsInjective
<1> QED
  BY <1>6 DEF w

\* The rules that open ports.
LEMMA AllowRulesTypes ==
    ASSUME NEW infos \in Seq(Nodes), NEW f \in Families
    PROVE  /\ AllowRules(infos, f) \in Seq({r \in Rules : r.tag = f /\ r.chain = "INPUT"})
           /\ IsInjective(AllowRules(infos, f))
<1> DEFINE R == {r \in Rules : r.tag = f /\ r.chain = "INPUT"}
<1>0. 1..MaxPort \subseteq Nat
  BY PortsAssumption
<1>1. ASSUME NEW pr \in {"tcp", "udp"}, NEW p \in 1..MaxPort PROVE AllowRule(f, pr, p) \in R
  <2>1. << <<p, p>> >> \in Seq(Nat \X Nat) /\ p \in Nat
    BY <1>0
  <2> QED
    BY <2>1 DEF AllowRule, Rules
<1>2. CASE f = "hy2"
  <2> DEFINE open == TargetPorts(infos, "hy2", "udp")
             ports == Ascending(open)
             allow == [i \in DOMAIN ports |-> AllowRule("hy2", "udp", ports[i])]
  <2>1. open \in SUBSET (1..MaxPort)
    BY TargetPortsAre
  <2>2. ports \in Seq(1..MaxPort) /\ IsInjective(ports)
    <3> HIDE DEF open
    <3> QED
      BY <2>1, AscendingPorts
  <2>3. AllowRules(infos, f) = allow
    BY <1>2 DEF AllowRules
  <2> HIDE DEF ports
  <2>4. Len(ports) \in Nat /\ DOMAIN ports = 1..Len(ports) /\ \A i \in DOMAIN ports : ports[i] \in 1..MaxPort
    <3> DEFINE T == 1..MaxPort
    <3>1. ports \in Seq(T)
      BY <2>2
    <3> HIDE DEF T
    <3>2. Len(ports) \in Nat /\ DOMAIN ports = 1..Len(ports) /\ \A i \in DOMAIN ports : ports[i] \in T
      BY <3>1
    <3> QED
      BY <3>2 DEF T
  <2>5. \A i \in DOMAIN ports : allow[i] \in R /\ allow[i].to = ports[i]
    BY <1>1, <1>2, <2>4 DEF AllowRule
  <2>6. allow \in [1..Len(ports) -> R] /\ DOMAIN allow = DOMAIN ports
    <3> HIDE DEF R
    <3> QED
      BY <2>4, <2>5
  <2> HIDE DEF allow, R
  <2>7. allow \in Seq(R)
    BY <2>4, <2>6
  <2>8. IsInjective(allow)
    BY <2>2, <2>5, <2>6 DEF IsInjective
  <2> QED
    BY <2>3, <2>7, <2>8 DEF R
<1>3. CASE f = "mieru"
  <2> DEFINE rules == BuildRules(infos, f)
             allow == [i \in DOMAIN rules |-> AllowRule("mieru", rules[i].protocol, rules[i].to)]
  <2>1. rules \in Seq(NatRules(f))
    <3> DEFINE done == BuildPlan(infos, f)
    <3>1. PlanBuilt(infos, f, done, Len(infos))
      BY PlanIsBuilt
    <3> HIDE DEF done
    <3>2. rules = done.rules
      BY DEF BuildRules, done
    <3> QED
      BY <3>1, <3>2 DEF PlanBuilt, PlanSoFar
  <2>2. AllowRules(infos, f) = AddNew(<<>>, allow)
    BY <1>3 DEF AllowRules
  <2> HIDE DEF rules
  <2>3. Len(rules) \in Nat /\ DOMAIN rules = 1..Len(rules) /\ \A i \in DOMAIN rules : rules[i] \in NatRules(f)
    BY <2>1
  <2>4. \A i \in DOMAIN rules : rules[i].protocol \in {"tcp", "udp"} /\ rules[i].to \in 1..MaxPort
    BY <2>3 DEF NatRules
  <2>5. \A i \in DOMAIN rules : allow[i] \in R
    BY <1>1, <1>3, <2>4
  <2> HIDE DEF R
  <2>6. allow \in [1..Len(rules) -> R]
    BY <2>3, <2>5
  <2> HIDE DEF allow
  <2>7. allow \in Seq(R) /\ <<>> \in Seq(R) /\ IsInjective(<<>>)
    BY <2>3, <2>6 DEF IsInjective
  <2>8. AddNew(<<>>, allow) \in Seq(R) /\ IsInjective(AddNew(<<>>, allow))
    BY <2>7, AddNewElements
  <2> QED
    BY <2>2, <2>8 DEF R
<1> QED
  BY <1>2, <1>3 DEF Families

\* The planned rules of a family carry its tag and are all different.
LEMMA PlansRight ==
    ASSUME NEW infos \in Seq(Nodes), NEW f \in Families
    PROVE  /\ PlanOf(infos)[f] \in Seq({r \in Rules : r.tag = f})
           /\ IsInjective(PlanOf(infos)[f])
<1> DEFINE R == {r \in Rules : r.tag = f}
           nat == BuildRules(infos, f)
           open == AllowRules(infos, f)
<1>1. nat \in Seq(NatRules(f)) /\ IsInjective(nat)
  <2> DEFINE done == BuildPlan(infos, f)
  <2>1. PlanBuilt(infos, f, done, Len(infos))
    BY PlanIsBuilt
  <2> HIDE DEF done
  <2>2. nat = done.rules
    BY DEF BuildRules, done
  <2> QED
    BY <2>1, <2>2 DEF PlanBuilt, PlanSoFar
<1>2. open \in Seq({r \in Rules : r.tag = f /\ r.chain = "INPUT"}) /\ IsInjective(open)
  BY AllowRulesTypes
<1>3. PlanOf(infos)[f] = nat \o open
  BY DEF PlanOf
<1> HIDE DEF nat, open
<1>4. \A i \in DOMAIN nat : nat[i] \in R /\ nat[i].chain = "PREROUTING"
  <2>1. PortRanges \subseteq Nat \X Nat
    BY PortsAssumption DEF PortRanges
  <2>2. \A m \in Matchable : m \in Seq(Nat \X Nat)
    BY <2>1 DEF Matchable
  <2>3. \A i \in DOMAIN nat : nat[i] \in NatRules(f)
    BY <1>1
  <2>4. 1..MaxPort \subseteq Nat
    BY PortsAssumption
  <2> QED
    BY <2>2, <2>3, <2>4 DEF NatRules, Rules
<1>5. \A i \in DOMAIN open : open[i] \in R /\ open[i].chain = "INPUT"
  BY <1>2
<1> HIDE DEF R
<1>6. nat \in Seq(R) /\ open \in Seq(R)
  BY <1>1, <1>2, <1>4, <1>5
<1>7. ToSet(nat) \cap ToSet(open) = {}
  BY <1>4, <1>5 DEF ToSet
<1>8. nat \o open \in Seq(R) /\ IsInjective(nat \o open)
  BY <1>1, <1>2, <1>6, <1>7, ConcatInjective
<1> QED
  BY <1>3, <1>8 DEF R

-----------------------------------------------------------------------------
(* Types.                                                                  *)

LEMMA ToolFacts ==
    /\ Len(Tools) \in Nat \ {0}
    /\ \A k \in 1..Len(Tools) : Tools[k] \in ToSet(Tools)
    /\ \A t \in ToSet(Tools) : \E k \in 1..Len(Tools) : t = Tools[k]
    /\ \A j, k \in 1..Len(Tools) : Tools[j] = Tools[k] => j = k
<1>1. Tools \in Seq(STRING) /\ Tools # <<>> /\ IsInjective(Tools)
  BY ConstantsAssumption
<1>2. Len(Tools) \in Nat /\ DOMAIN Tools = 1..Len(Tools)
  BY <1>1
<1>3. Len(Tools) # 0
  BY <1>1
<1> QED
  BY <1>1, <1>2, <1>3 DEF ToSet, IsInjective

LEMMA RuleTypes == Foreign \in Rules /\ Jump \in Rules
<1>1. << <<1, 1>> >> \in Seq(Nat \X Nat)
  OBVIOUS
<1> QED
  BY <1>1 DEF Foreign, Jump, Rules, Families

\* The planned rules of a family carry its tag and are all different.
LEMMA ExpectedTypes ==
    ASSUME plan \in Plans, NEW f \in Families
    PROVE  /\ Expected(f) \in Seq(Rules) /\ IsInjective(Expected(f))
           /\ \A i \in DOMAIN Expected(f) : Expected(f)[i].tag = f
<1> DEFINE e == Expected(f)
<1>1. e \in Seq({r \in Rules : r.tag = f}) /\ IsInjective(e)
  <2>1. PICK l \in NodeLists : plan = PlanOf(l)
    BY DEF Plans
  <2>2. l \in Seq(Nodes)
    BY NodeListsAssumption
  <2> QED
    BY <2>1, <2>2, PlansRight DEF Expected
<1> HIDE DEF e
<1>2. e \in Seq(Rules) /\ \A i \in DOMAIN e : e[i].tag = f
  BY <1>1
<1> QED
  BY <1>1, <1>2 DEF e

\* What is listed of a tool is in its table and managed, what is listed of one of
\* its chains is in that chain too.
LEMMA ListedTypes ==
    ASSUME NEW t, table[t] \in Seq(Rules), NEW f, NEW c
    PROVE  /\ Listed(t, f) \in Seq(Rules)
           /\ ToSet(Listed(t, f)) = ToSet(table[t]) \cap ManagedRules(f)
           /\ OfChain(Listed(t, f), c) = Among(table[t], ManagedRules(f) \cap ChainRules(c))
           /\ OfChain(Listed(t, f), c) \in Seq(Rules)
           /\ ToSet(OfChain(Listed(t, f), c)) =
                ToSet(table[t]) \cap (ManagedRules(f) \cap ChainRules(c))
  BY AmongElements, AmongTwice DEF Listed, OfChain

\* Four sequences in a row, as the commands are made of.
LEMMA DeletesTypes ==
    ASSUME NEW s \in Seq(Rules)
    PROVE  /\ Deletes(s) \in Seq(CommandSet) /\ Len(Deletes(s)) = Len(s)
           /\ Adds(s) \in Seq(CommandSet) /\ Len(Adds(s)) = Len(s)
<1>1. DOMAIN s = 1..Len(s) /\ Len(s) \in Nat
  OBVIOUS
<1>2. \A i \in 1..Len(s) : Delete(s[i]) \in CommandSet /\ Add(s[i]) \in CommandSet
  BY DEF Delete, Add, CommandSet
<1>3. Deletes(s) \in [1..Len(s) -> CommandSet] /\ Adds(s) \in [1..Len(s) -> CommandSet]
  BY <1>1, <1>2 DEF Deletes, Adds
<1> QED
  BY <1>1, <1>3

Chained(b) == IF b THEN <<Flush, DropChain>> ELSE <<>>

LEMMA ChainedTypes ==
    ASSUME NEW b \in BOOLEAN
    PROVE  Chained(b) \in Seq(CommandSet)
<1>1. Flush \in CommandSet /\ DropChain \in CommandSet
  BY RuleTypes DEF Flush, DropChain, CommandSet
<1> QED
  BY <1>1 DEF Chained

LEMMA CommandsTypes ==
    ASSUME NEW nat \in Seq(Rules), NEW input \in Seq(Rules), NEW b \in BOOLEAN,
           NEW wanted \in Seq(Rules)
    PROVE  Commands(nat, input, b, wanted) \in Seq(CommandSet)
<1> DEFINE x == Deletes(nat)
           y == Deletes(input)
           z == Chained(b)
           w == Adds(wanted)
<1>1. x \in Seq(CommandSet) /\ y \in Seq(CommandSet) /\ z \in Seq(CommandSet) /\ w \in Seq(CommandSet)
  BY DeletesTypes, ChainedTypes
<1>2. Commands(nat, input, b, wanted) = ((x \o y) \o z) \o w
  BY DEF Commands, Chained
<1> HIDE DEF x, y, z, w
<1>3. ((x \o y) \o z) \o w \in Seq(CommandSet)
  BY <1>1
<1> QED
  BY <1>2, <1>3

\* A job that is at work is a record.
LEMMA AtWork ==
    ASSUME job \in Jobs
    PROVE  /\ job.state \in {"inspect", "prepare", "run"} => job \in WorkJobs
           /\ job \in WorkJobs => job # Idle /\ job # Stopped
<1>1. Idle.state = "idle" /\ Stopped.state = "stopped"
  BY DEF Idle, Stopped
<1>2. \A j \in WorkJobs : j.state \in {"inspect", "prepare", "run"}
  BY DEF WorkJobs
<1> QED
  BY <1>1, <1>2, Zenon DEF Jobs

LEMMA AtTypes ==
    ASSUME NEW m \in {"repair", "cleanup"}, NEW f \in Families, NEW k \in 1..Len(Tools)
    PROVE  At(m, f, k, "inspect", <<>>) \in WorkJobs
  BY DEF At, WorkJobs

LEMMA FollowingTypes ==
    ASSUME job \in WorkJobs
    PROVE  Following \in Jobs
<1>1. job.mode \in {"repair", "cleanup"} /\ job.family \in Families /\ job.tool \in 1..Len(Tools)
  BY DEF WorkJobs
<1>2. CASE job.tool < Len(Tools)
  <2>1. job.tool + 1 \in 1..Len(Tools)
    BY <1>1, <1>2, ToolFacts
  <2>2. At(job.mode, job.family, job.tool + 1, "inspect", <<>>) \in WorkJobs
    BY <1>1, <2>1, AtTypes
  <2> QED
    BY <1>2, <2>2 DEF Following, Jobs
<1>3. CASE ~ (job.tool < Len(Tools))
  <2>1. At("repair", "mieru", 1, "inspect", <<>>) \in WorkJobs
    BY ToolFacts, AtTypes DEF Families
  <2> QED
    BY <1>3, <2>1 DEF Following, Jobs
<1> QED
  BY <1>2, <1>3

\* What a tool makes of a command is a table of rules again.
LEMMA AppliedTypes ==
    ASSUME table[Tool] \in Seq(Rules), NEW c \in CommandSet, Applies(c)
    PROVE  Applied(c) \in Seq(Rules)
<1> DEFINE s == table[Tool]
<1>1. s \in Seq(Rules) /\ c.rule \in Rules
  BY DEF CommandSet
<1>2. CASE c.op = "delete"
  <2>1. c.rule \in ToSet(s)
    BY <1>1, <1>2 DEF Applies, Contains, ToSet
  <2>2. RemoveFirst(s, c.rule) \in Seq(Rules)
    BY <1>1, <2>1, RemoveFirstElements
  <2> QED
    BY <1>2, <2>2 DEF Applied
<1>3. CASE c.op = "add"
  <2>1. Append(s, c.rule) \in Seq(Rules) /\ <<c.rule>> \o s \in Seq(Rules)
    BY <1>1, AmongPrepended
  <2>2. c.rule.chain \in {"PREROUTING", "INPUT"}
    BY <1>1 DEF Rules
  <2> QED
    BY <1>3, <2>1, <2>2 DEF Applied
<1>4. CASE c.op \in {"flush", "drop"}
  BY <1>1, <1>4 DEF Applied
<1> QED
  BY <1>2, <1>3, <1>4 DEF CommandSet

LEMMA InitTypes ==
    ASSUME Init
    PROVE  TypeOK
<1>1. table \in [ToSet(Tools) -> Seq(Rules)] /\ chain \in [ToSet(Tools) -> BOOLEAN]
  <2>1. <<Foreign>> \in Seq(Rules) /\ <<Jump, Foreign>> \in Seq(Rules)
    BY RuleTypes
  <2> QED
    BY <2>1 DEF Init
<1>2. job \in Jobs
  BY DEF Init, Jobs
<1>3. faults \in 0..MaxFaults /\ plans \in 0..MaxPlans /\ stops \in 0..MaxStops
  BY ConstantsAssumption DEF Init
<1> QED
  BY <1>1, <1>2, <1>3 DEF Init, TypeOK

\* The commands of a tool, as Prepare makes them.
LEMMA PrepareTypes ==
    ASSUME TypeOK, job \in WorkJobs, NEW lost
    PROVE  LET Read(c) == IF c \in lost THEN <<>> ELSE OfChain(Listed(Tool, job.family), c)
           IN  Commands(Read("PREROUTING"), Read("INPUT"),
                        job.family = "hy2" /\ chain[Tool] /\ "chain" \notin lost, Wanted)
                 \in Seq(CommandSet)
<1> DEFINE Read(c) == IF c \in lost THEN <<>> ELSE OfChain(Listed(Tool, job.family), c)
           nat == Read("PREROUTING")
           input == Read("INPUT")
           b == job.family = "hy2" /\ chain[Tool] /\ "chain" \notin lost
<1>1. Tool \in ToSet(Tools) /\ job.family \in Families
  BY ToolFacts DEF WorkJobs, Tool
<1>2. table[Tool] \in Seq(Rules) /\ chain[Tool] \in BOOLEAN
  BY <1>1 DEF TypeOK
<1>3. nat \in Seq(Rules) /\ input \in Seq(Rules)
  <2>1. /\ OfChain(Listed(Tool, job.family), "PREROUTING") \in Seq(Rules)
        /\ OfChain(Listed(Tool, job.family), "INPUT") \in Seq(Rules)
    BY <1>2, ListedTypes
  <2> QED
    BY <2>1
<1>4. Wanted \in Seq(Rules)
  BY <1>1, ExpectedTypes DEF Wanted, TypeOK
<1>5. b \in BOOLEAN
  OBVIOUS
<1> HIDE DEF nat, input, b
<1>6. Commands(nat, input, b, Wanted) \in Seq(CommandSet)
  BY <1>3, <1>4, <1>5, CommandsTypes
<1> QED
  BY <1>6 DEF nat, input, b

LEMMA FaultTypes ==
    ASSUME TypeOK, NoFault \/ \E k \in FaultKinds : Fault(k)
    PROVE  faults' \in 0..MaxFaults /\ calm' \in BOOLEAN
<1>1. MaxFaults \in Nat
  BY ConstantsAssumption
<1>2. CASE NoFault
  BY <1>2 DEF NoFault, TypeOK
<1>3. CASE \E k \in FaultKinds : Fault(k)
  <2>1. faults < MaxFaults /\ faults' = faults + 1 /\ calm' = FALSE
    BY <1>3 DEF Fault
  <2>2. faults' \in 0..MaxFaults
    BY <1>1, <2>1 DEF TypeOK
  <2> QED
    BY <2>1, <2>2
<1> QED
  BY <1>2, <1>3

LEMMA BeginTypes ==
    ASSUME TypeOK, NEW mode \in {"repair", "cleanup"}, Begin(mode)
    PROVE  job' \in Jobs /\ faults' \in 0..MaxFaults /\ calm' \in BOOLEAN
<1>1. CASE job' = Stopped /\ Fault("core")
  BY <1>1, FaultTypes DEF FaultKinds, Jobs
<1>2. CASE job' = At(mode, "hy2", 1, "inspect", <<>>) /\ calm' = TRUE /\ UNCHANGED faults
  <2>1. job' \in Jobs
    BY <1>2, ToolFacts, AtTypes DEF Jobs, Families
  <2>2. calm' \in BOOLEAN
    BY <1>2, Zenon
  <2> QED
    BY <1>2, <2>1, <2>2 DEF TypeOK
<1> QED
  BY <1>1, <1>2 DEF Begin

LEMMA NextTypes ==
    ASSUME TypeOK, [Next]_vars
    PROVE  TypeOK'
<1>0. MaxPlans \in Nat /\ MaxStops \in Nat /\ MaxFaults \in Nat
  BY ConstantsAssumption
<1>1. CASE Reload
  <2>1. plans' \in 0..MaxPlans
    BY <1>0, <1>1 DEF Reload, TypeOK
  <2>2. plan' \in Plans /\ calm' = FALSE /\ UNCHANGED <<table, chain, job, faults, stops, misread>>
    BY <1>1 DEF Reload
  <2> QED
    BY <2>1, <2>2 DEF TypeOK
<1>2. CASE Tick
  <2>1. job' \in Jobs /\ faults' \in 0..MaxFaults /\ calm' \in BOOLEAN
    BY <1>2, BeginTypes DEF Tick
  <2> QED
    BY <1>2, <2>1 DEF Tick, TypeOK
<1>3. CASE Stop
  <2>1. job' \in Jobs /\ faults' \in 0..MaxFaults /\ calm' \in BOOLEAN
    BY <1>3, BeginTypes DEF Stop
  <2> QED
    BY <1>0, <1>3, <2>1 DEF Stop, TypeOK
<1>4. CASE Start
  BY <1>4 DEF Start, TypeOK, Jobs
<1>5. CASE Inspect
  <2>1. job \in WorkJobs
    BY <1>5, AtWork DEF Inspect, Working, TypeOK
  <2>2. [job EXCEPT !.state = "prepare"] \in Jobs
    BY <2>1 DEF WorkJobs, Jobs
  <2>3. job' \in Jobs
    BY <1>5, <2>1, <2>2, FollowingTypes DEF Inspect
  <2>4. faults' \in 0..MaxFaults /\ calm' \in BOOLEAN
    BY <1>5, FaultTypes DEF Inspect, FaultKinds
  <2> QED
    BY <1>5, <2>3, <2>4 DEF Inspect, TypeOK
<1>6. CASE Prepare
  <2>1. job \in WorkJobs
    BY <1>6, AtWork DEF Prepare, Working, TypeOK
  <2> DEFINE Read(lost, c) == IF c \in lost THEN <<>> ELSE OfChain(Listed(Tool, job.family), c)
             todo(lost) == Commands(Read(lost, "PREROUTING"), Read(lost, "INPUT"),
                             job.family = "hy2" /\ chain[Tool] /\ "chain" \notin lost, Wanted)
  <2>2. PICK lost \in SUBSET {"PREROUTING", "INPUT", "chain"} :
          /\ IF lost = {} THEN NoFault /\ UNCHANGED misread ELSE Fault("read") /\ misread' = TRUE
          /\ job' = [job EXCEPT !.state = "run", !.todo = todo(lost)]
    BY <1>6, Zenon DEF Prepare
  <2>3. todo(lost) \in Seq(CommandSet)
    BY <2>1, PrepareTypes, Zenon
  <2> HIDE DEF todo
  <2>4. job' \in Jobs
    BY <2>1, <2>2, <2>3 DEF WorkJobs, Jobs
  <2>5. faults' \in 0..MaxFaults /\ calm' \in BOOLEAN /\ misread' \in BOOLEAN
    BY <2>2, FaultTypes DEF FaultKinds, TypeOK
  <2> QED
    BY <1>6, <2>4, <2>5 DEF Prepare, TypeOK
<1>7. CASE RunCommand
  <2>1. job \in WorkJobs
    BY <1>7, AtWork DEF RunCommand, Working, TypeOK
  <2>2. Tool \in ToSet(Tools) /\ table[Tool] \in Seq(Rules)
    BY <2>1, ToolFacts DEF WorkJobs, Tool, TypeOK
  <2> DEFINE c == Head(job.todo)
  <2>3. c \in CommandSet /\ [job EXCEPT !.todo = Tail(@)] \in Jobs
    <3>1. job.todo \in Seq(CommandSet) /\ job.todo # <<>>
      BY <1>7, <2>1 DEF RunCommand, WorkJobs
    <3>2. Head(job.todo) \in CommandSet /\ Tail(job.todo) \in Seq(CommandSet)
      BY <3>1
    <3> QED
      BY <2>1, <3>2 DEF WorkJobs, Jobs
  <2>4. Following \in Jobs
    BY <2>1, FollowingTypes
  <2> HIDE DEF c
  <2>5. \/ /\ Applies(c) /\ NoFault
           /\ table' = [table EXCEPT ![Tool] = Applied(c)]
           /\ chain' = [chain EXCEPT ![Tool] = @ /\ c.op # "drop"]
           /\ job' = [job EXCEPT !.todo = Tail(@)]
        \/ /\ NoFault \/ Fault("command")
           /\ job' = Following
           /\ UNCHANGED <<table, chain>>
    BY <1>7 DEF RunCommand, c
  <2>6. faults' \in 0..MaxFaults /\ calm' \in BOOLEAN
    BY <2>5, FaultTypes DEF FaultKinds
  <2>7. job' \in Jobs
    BY <2>3, <2>4, <2>5
  <2>8. table' \in [ToSet(Tools) -> Seq(Rules)]
    BY <2>2, <2>3, <2>5, AppliedTypes DEF TypeOK
  <2>9. chain' \in [ToSet(Tools) -> BOOLEAN]
    BY <2>5 DEF TypeOK
  <2> QED
    BY <1>7, <2>6, <2>7, <2>8, <2>9 DEF RunCommand, TypeOK
<1>8. CASE Done
  <2>1. job \in WorkJobs
    BY <1>8, AtWork DEF Done, Working, TypeOK
  <2> QED
    BY <1>8, <2>1, FollowingTypes DEF Done, TypeOK
<1>9. CASE OtherProgram
  <2>0. PICK t \in ToSet(Tools) :
          \E i \in DOMAIN table[t] : table' = [table EXCEPT ![t] = RemoveAt(@, i)]
    BY <1>9 DEF OtherProgram
  <2>1. PICK i \in DOMAIN table[t] : table' = [table EXCEPT ![t] = RemoveAt(@, i)]
    BY <2>0
  <2>2. RemoveAt(table[t], i) \in Seq(Rules)
    <3>1. table[t] \in Seq(Rules) /\ i \in 1..Len(table[t])
      BY DEF TypeOK
    <3> QED
      BY <3>1, RemoveAtElements
  <2>3. faults' \in 0..MaxFaults /\ calm' \in BOOLEAN
    BY <1>9, FaultTypes DEF OtherProgram, FaultKinds
  <2>4. table' \in [ToSet(Tools) -> Seq(Rules)]
    BY <2>1, <2>2 DEF TypeOK
  <2> QED
    BY <1>9, <2>3, <2>4 DEF OtherProgram, TypeOK
<1>10. CASE Crash
  <2>1. faults' \in 0..MaxFaults /\ calm' \in BOOLEAN
    BY <1>10, FaultTypes DEF Crash, FaultKinds
  <2> QED
    BY <1>10, <2>1 DEF Crash, TypeOK, Jobs
<1>11. CASE UNCHANGED vars
  BY <1>11 DEF vars, TypeOK
<1> QED
  BY <1>1, <1>2, <1>3, <1>4, <1>5, <1>6, <1>7, <1>8, <1>9, <1>10, <1>11 DEF Next, Work

-----------------------------------------------------------------------------
(* The commands of a tool.                                                 *)

\* Up to position n the commands delete rules of dels or see to the old chain, from
\* there on they add the wanted rules in their order.
AddsAfter(C, n, dels, wanted) ==
    /\ \A i \in DOMAIN C : i <= n =>
         (C[i].op = "delete" /\ C[i].rule \in dels) \/ C[i].op \in {"flush", "drop"}
    /\ \A i \in DOMAIN C : i > n => i - n \in DOMAIN wanted /\ C[i] = Add(wanted[i - n])

\* The deletions of the listed rules, the two commands for the old chain, and
\* from some position on the additions of the wanted rules in their order.
LEMMA CommandsShape ==
    ASSUME NEW nat \in Seq(Rules), NEW input \in Seq(Rules), NEW b \in BOOLEAN,
           NEW wanted \in Seq(Rules)
    PROVE  LET C == Commands(nat, input, b, wanted)
           IN  /\ C \in Seq(CommandSet)
               /\ \E n \in Nat : AddsAfter(C, n, ToSet(nat) \cup ToSet(input), wanted)
               /\ \A r \in ToSet(nat) \cup ToSet(input) : \E i \in DOMAIN C : C[i] = Delete(r)
<1> DEFINE x == Deletes(nat)
           y == Deletes(input)
           z == Chained(b)
           pre == (x \o y) \o z
           w == Adds(wanted)
           C == Commands(nat, input, b, wanted)
<1>1. x \in Seq(CommandSet) /\ y \in Seq(CommandSet) /\ z \in Seq(CommandSet) /\ w \in Seq(CommandSet)
  BY DeletesTypes, ChainedTypes
<1>2. C = pre \o w
  BY DEF Commands, Chained
<1>3. /\ ToSet(x) = {Delete(r) : r \in ToSet(nat)} /\ ToSet(y) = {Delete(r) : r \in ToSet(input)}
      /\ DOMAIN w = DOMAIN wanted /\ \A i \in DOMAIN wanted : w[i] = Add(wanted[i])
  BY DEF Deletes, Adds, ToSet
<1>4. ToSet(z) \subseteq {Flush, DropChain}
  BY DEF Chained, ToSet
<1> HIDE DEF x, y, z, C
<1>5. pre \in Seq(CommandSet) /\ ToSet(pre) = (ToSet(x) \cup ToSet(y)) \cup ToSet(z)
  <2> DEFINE xy == x \o y
  <2>1. xy \in Seq(CommandSet) /\ ToSet(xy) = ToSet(x) \cup ToSet(y)
    BY <1>1, ConcatElements
  <2> HIDE DEF xy
  <2>2. xy \o z \in Seq(CommandSet) /\ ToSet(xy \o z) = ToSet(xy) \cup ToSet(z)
    BY <1>1, <2>1, ConcatElements
  <2> QED
    BY <2>1, <2>2 DEF xy
<1> HIDE DEF pre, w
<1> DEFINE n == Len(pre)
<1>6. n \in Nat /\ Len(w) \in Nat /\ DOMAIN w = 1..Len(w) /\ DOMAIN pre = 1..n
  BY <1>1, <1>5
<1>7. /\ C \in Seq(CommandSet) /\ Len(C) = n + Len(w)
      /\ \A i \in 1..(n + Len(w)) : C[i] = IF i <= n THEN pre[i] ELSE w[i - n]
  BY <1>1, <1>2, <1>5, ConcatProperties
<1> HIDE DEF n
<1>8. DOMAIN C = 1..(n + Len(w))
  BY <1>7
<1>9. \A i \in DOMAIN C : i <= n => C[i] \in ToSet(pre)
  BY <1>6, <1>7, <1>8 DEF ToSet
<1>10. \A i \in DOMAIN C : i > n => i - n \in DOMAIN wanted /\ C[i] = Add(wanted[i - n])
  BY <1>3, <1>6, <1>7, <1>8
<1>11. \A c \in ToSet(pre) : \/ c.op = "delete" /\ c.rule \in ToSet(nat) \cup ToSet(input)
                             \/ c.op \in {"flush", "drop"}
  BY <1>3, <1>4, <1>5 DEF Delete, Flush, DropChain
<1>12. \A c \in ToSet(pre) : \E i \in DOMAIN C : C[i] = c
  BY <1>6, <1>7, <1>8 DEF ToSet
<1>13. \A r \in ToSet(nat) \cup ToSet(input) : \E i \in DOMAIN C : C[i] = Delete(r)
  BY <1>3, <1>5, <1>12
<1>14. \A i \in DOMAIN C : i <= n =>
         \/ C[i].op = "delete" /\ C[i].rule \in ToSet(nat) \cup ToSet(input)
         \/ C[i].op \in {"flush", "drop"}
  BY <1>9, <1>11
<1>15. AddsAfter(C, n, ToSet(nat) \cup ToSet(input), wanted)
  BY <1>10, <1>14 DEF AddsAfter
<1> QED
  BY <1>6, <1>7, <1>13, <1>15 DEF C

\* When nothing is missing from the listings, the additions are fresh.
LEMMA CommandsFresh ==
    ASSUME NEW nat \in Seq(Rules), NEW input \in Seq(Rules), NEW b \in BOOLEAN,
           NEW wanted \in Seq(Rules), IsInjective(wanted), NEW tab,
           ToSet(tab) \cap ToSet(wanted) \subseteq ToSet(nat) \cup ToSet(input)
    PROVE  AddsAreFresh(Commands(nat, input, b, wanted), tab)
<1> DEFINE C == Commands(nat, input, b, wanted)
<1>1. PICK n \in Nat : AddsAfter(C, n, ToSet(nat) \cup ToSet(input), wanted)
  BY CommandsShape
<1>2. \A r \in ToSet(nat) \cup ToSet(input) : \E i \in DOMAIN C : C[i] = Delete(r)
  BY CommandsShape
<1>3. C \in Seq(CommandSet)
  BY CommandsShape
<1> HIDE DEF C
<1>4. DOMAIN C \subseteq Nat /\ DOMAIN wanted \subseteq Nat
  BY <1>3
<1>5. \A i \in DOMAIN C : C[i].op = "add" <=> i > n
  BY <1>1, <1>4 DEF AddsAfter, Add
<1>6. \A i \in DOMAIN C : C[i].op = "add" => i - n \in DOMAIN wanted /\ C[i].rule = wanted[i - n]
  BY <1>1, <1>5 DEF AddsAfter, Add
<1>7. \A i, j \in DOMAIN C : i < j /\ C[i].op = "add" => C[j].op = "add"
  BY <1>4, <1>5
<1>8. ASSUME NEW i \in DOMAIN C, NEW j \in DOMAIN C,
             C[i].op = "add", C[j].op = "add", C[i].rule = C[j].rule
      PROVE  i = j
  <2>1. i - n = j - n
    BY <1>6, <1>8 DEF IsInjective
  <2> QED
    BY <1>4, <2>1
<1>9. ASSUME NEW i \in DOMAIN C, C[i].op = "add", C[i].rule \in ToSet(tab)
      PROVE  \E j \in DOMAIN C : C[j].op = "delete" /\ C[j].rule = C[i].rule
  <2>1. C[i].rule \in ToSet(nat) \cup ToSet(input)
    BY <1>6, <1>9 DEF ToSet
  <2>2. PICK j \in DOMAIN C : C[j] = Delete(C[i].rule)
    BY <1>2, <2>1
  <2> QED
    BY <2>2 DEF Delete
<1>10. AddsAreFresh(C, tab)
  BY <1>7, <1>8, <1>9 DEF AddsAreFresh
<1> QED
  BY <1>10 DEF C

\* One command is done: a deletion takes its rule out, an addition puts it in,
\* which was not there, and the additions that are left are still fresh.
LEMMA FreshTail ==
    ASSUME NEW todo \in Seq(CommandSet), todo # <<>>, NEW tab, NEW tab2,
           AddsAreFresh(todo, tab),
           todo[1].op = "delete" => ToSet(tab2) \subseteq ToSet(tab) \ {todo[1].rule},
           todo[1].op = "add" => ToSet(tab2) \subseteq ToSet(tab) \cup {todo[1].rule},
           todo[1].op \notin {"delete", "add"} => ToSet(tab2) \subseteq ToSet(tab)
    PROVE  /\ AddsAreFresh(Tail(todo), tab2)
           /\ todo[1].op = "add" => todo[1].rule \notin ToSet(tab)
<1> DEFINE u == Tail(todo)
<1>1. /\ u \in Seq(CommandSet) /\ DOMAIN u = 1..(Len(todo) - 1) /\ DOMAIN todo = 1..Len(todo)
      /\ Len(todo) \in Nat \ {0} /\ \A i \in DOMAIN u : u[i] = todo[i + 1]
  OBVIOUS
<1> HIDE DEF u
<1>2. /\ \A i \in DOMAIN u : i + 1 \in DOMAIN todo /\ i + 1 # 1 /\ i \in Nat
      /\ \A j \in DOMAIN todo : j # 1 => j - 1 \in DOMAIN u /\ u[j - 1] = todo[j] /\ 1 < j
      /\ 1 \in DOMAIN todo
  BY <1>1
<1>3. ASSUME todo[1].op = "add", NEW j \in DOMAIN todo PROVE todo[j].op = "add"
  BY <1>2, <1>3 DEF AddsAreFresh
<1>4. todo[1].op = "add" => todo[1].rule \notin ToSet(tab)
  BY <1>2, <1>3 DEF AddsAreFresh
<1>5. \A i, j \in DOMAIN u : i < j /\ u[i].op = "add" => u[j].op = "add"
  BY <1>1, <1>2 DEF AddsAreFresh
<1>6. ASSUME NEW i \in DOMAIN u, NEW j \in DOMAIN u,
             u[i].op = "add", u[j].op = "add", u[i].rule = u[j].rule
      PROVE  i = j
  <2>1. i + 1 = j + 1
    BY <1>1, <1>2, <1>6 DEF AddsAreFresh
  <2> QED
    BY <1>2, <2>1
<1>7. ASSUME NEW i \in DOMAIN u, u[i].op = "add", u[i].rule \in ToSet(tab2)
      PROVE  \E j \in DOMAIN u : u[j].op = "delete" /\ u[j].rule = u[i].rule
  <2>1. todo[i + 1].op = "add" /\ todo[i + 1].rule = u[i].rule /\ i + 1 \in DOMAIN todo
    BY <1>1, <1>2, <1>7
  <2>2. todo[1].op = "add" => todo[1].rule # u[i].rule
    BY <1>2, <2>1 DEF AddsAreFresh
  <2>3. u[i].rule \in ToSet(tab) /\ (todo[1].op = "delete" => todo[1].rule # u[i].rule)
    BY <1>7, <2>2
  <2>4. PICK j \in DOMAIN todo : todo[j].op = "delete" /\ todo[j].rule = u[i].rule
    BY <2>1, <2>3 DEF AddsAreFresh
  <2>5. j # 1
    BY <2>3, <2>4
  <2> QED
    BY <1>2, <2>4, <2>5
<1>8. AddsAreFresh(u, tab2)
  BY <1>5, <1>6, <1>7 DEF AddsAreFresh
<1> QED
  BY <1>4, <1>8 DEF u

\* What a command that applies does to the tool's table.
LEMMA AppliedElements ==
    ASSUME table[Tool] \in Seq(Rules), NEW c \in CommandSet, Applies(c)
    PROVE  /\ c.op = "delete" =>
                /\ c.rule \in ToSet(table[Tool])
                /\ ToSet(Applied(c)) \subseteq ToSet(table[Tool])
                /\ IsInjective(table[Tool]) =>
                     IsInjective(Applied(c)) /\ c.rule \notin ToSet(Applied(c))
           /\ c.op = "add" =>
                /\ ToSet(Applied(c)) = ToSet(table[Tool]) \cup {c.rule}
                /\ IsInjective(table[Tool]) /\ c.rule \notin ToSet(table[Tool]) =>
                     IsInjective(Applied(c))
           /\ c.op \notin {"delete", "add"} => Applied(c) = table[Tool]
<1> DEFINE s == table[Tool]
<1>1. s \in Seq(Rules) /\ c.rule \in Rules
  BY DEF CommandSet
<1>2. ASSUME c.op = "delete"
      PROVE  /\ c.rule \in ToSet(s) /\ ToSet(Applied(c)) \subseteq ToSet(s)
             /\ IsInjective(s) => IsInjective(Applied(c)) /\ c.rule \notin ToSet(Applied(c))
  <2>1. c.rule \in ToSet(s)
    BY <1>1, <1>2 DEF Applies, Contains, ToSet
  <2>2. Applied(c) = RemoveFirst(s, c.rule)
    BY <1>2 DEF Applied
  <2> QED
    BY <1>1, <2>1, <2>2, RemoveFirstElements
<1>3. ASSUME c.op = "add"
      PROVE  /\ ToSet(Applied(c)) = ToSet(s) \cup {c.rule}
             /\ IsInjective(s) /\ c.rule \notin ToSet(s) => IsInjective(Applied(c))
  <2>1. c.rule.chain \in {"PREROUTING", "INPUT"}
    BY <1>1 DEF Rules
  <2>2. CASE c.rule.chain = "PREROUTING"
    <3>1. Applied(c) = Append(s, c.rule)
      BY <1>3, <2>2 DEF Applied
    <3> QED
      BY <1>1, <3>1, AppendElements, AppendInjectiveIff
  <2>3. CASE c.rule.chain = "INPUT"
    <3>1. Applied(c) = <<c.rule>> \o s
      BY <1>3, <2>3 DEF Applied
    <3>2. ToSet(<<c.rule>> \o s) = ToSet(s) \cup {c.rule}
      BY <1>1, AmongPrepended
    <3>3. IsInjective(s) /\ c.rule \notin ToSet(s) => IsInjective(<<c.rule>> \o s)
      BY <1>1, PrependInjective
    <3> QED
      BY <3>1, <3>2, <3>3
  <2> QED
    BY <2>1, <2>2, <2>3
<1>4. c.op \notin {"delete", "add"} => Applied(c) = s
  BY DEF Applied
<1> QED
  BY <1>2, <1>3, <1>4

-----------------------------------------------------------------------------
(* No rule is there twice, and other people's rules are left alone.        *)

LEMMA FollowingState ==
    ASSUME job \in WorkJobs
    PROVE  Following.state # "run"
  BY DEF Following, At, Idle, Stopped

\* The commands Prepare makes are about the family's rules.
LEMMA PreparedOwn ==
    ASSUME TypeOK, job \in WorkJobs, NEW nat \in Seq(Rules), NEW input \in Seq(Rules),
           ToSet(nat) \cup ToSet(input) \subseteq ManagedRules(job.family), NEW b \in BOOLEAN
    PROVE  LET C == Commands(nat, input, b, Wanted)
           IN  \A i \in DOMAIN C : /\ C[i].op = "delete" => Managed(C[i].rule, job.family)
                                   /\ C[i].op = "add" => C[i].rule.tag = job.family
<1> DEFINE C == Commands(nat, input, b, Wanted)
<1>1. job.family \in Families
  BY DEF WorkJobs
<1>2. Wanted \in Seq(Rules) /\ \A i \in DOMAIN Wanted : Wanted[i].tag = job.family
  BY <1>1, ExpectedTypes DEF Wanted, TypeOK
<1>3. PICK n \in Nat : AddsAfter(C, n, ToSet(nat) \cup ToSet(input), Wanted)
  BY <1>2, CommandsShape
<1>4. C \in Seq(CommandSet)
  BY <1>2, CommandsShape
<1> HIDE DEF C
<1>5. DOMAIN C \subseteq Nat
  BY <1>4
<1>6. \A r \in ManagedRules(job.family) : Managed(r, job.family)
  BY DEF ManagedRules
<1>7. \A i \in DOMAIN C : i <= n => C[i].op # "add" /\ (C[i].op = "delete" => Managed(C[i].rule, job.family))
  BY <1>3, <1>6 DEF AddsAfter
<1>8. \A i \in DOMAIN C : i > n => C[i].op # "delete" /\ C[i].rule.tag = job.family
  BY <1>2, <1>3 DEF AddsAfter, Add
<1>9. \A i \in DOMAIN C : /\ C[i].op = "delete" => Managed(C[i].rule, job.family)
                          /\ C[i].op = "add" => C[i].rule.tag = job.family
  BY <1>5, <1>7, <1>8
<1> QED
  BY <1>9 DEF C

\* A step of Prepare: how the job goes on, and from which listings.
LEMMA PrepareStep ==
    ASSUME TypeOK, Prepare
    PROVE  /\ job \in WorkJobs /\ Tool \in ToSet(Tools) /\ table[Tool] \in Seq(Rules)
           /\ \E nat, input \in Seq(Rules), b \in BOOLEAN :
                /\ ToSet(nat) \cup ToSet(input) \subseteq ManagedRules(job.family)
                /\ job' = [job EXCEPT !.state = "run", !.todo = Commands(nat, input, b, Wanted)]
                /\ \/ /\ nat = OfChain(Listed(Tool, job.family), "PREROUTING")
                      /\ input = OfChain(Listed(Tool, job.family), "INPUT")
                      /\ b = (job.family = "hy2" /\ chain[Tool])
                      /\ NoFault /\ UNCHANGED misread
                   \/ misread' = TRUE /\ calm' = FALSE
<1>1. job \in WorkJobs
  BY AtWork DEF Prepare, Working, TypeOK
<1>2. Tool \in ToSet(Tools) /\ table[Tool] \in Seq(Rules) /\ chain[Tool] \in BOOLEAN
  BY <1>1, ToolFacts DEF WorkJobs, Tool, TypeOK
<1> DEFINE Read(lost, c) == IF c \in lost THEN <<>> ELSE OfChain(Listed(Tool, job.family), c)
           Chn(lost) == job.family = "hy2" /\ chain[Tool] /\ "chain" \notin lost
<1>3. PICK lost \in SUBSET {"PREROUTING", "INPUT", "chain"} :
        /\ IF lost = {} THEN NoFault /\ UNCHANGED misread ELSE Fault("read") /\ misread' = TRUE
        /\ job' = [job EXCEPT !.state = "run",
                     !.todo = Commands(Read(lost, "PREROUTING"), Read(lost, "INPUT"), Chn(lost), Wanted)]
  BY Zenon DEF Prepare
<1> DEFINE f == job.family
           tl == Tool
<1> HIDE DEF f, tl
<1>4. ASSUME NEW c \in {"PREROUTING", "INPUT"}
      PROVE  /\ OfChain(Listed(Tool, job.family), c) \in Seq(Rules)
             /\ ToSet(OfChain(Listed(Tool, job.family), c)) \subseteq ManagedRules(job.family)
  <2>1. table[tl] \in Seq(Rules)
    BY <1>2 DEF tl
  <2>2. /\ OfChain(Listed(tl, f), c) \in Seq(Rules)
        /\ ToSet(OfChain(Listed(tl, f), c)) = ToSet(table[tl]) \cap (ManagedRules(f) \cap ChainRules(c))
    BY <2>1, ListedTypes
  <2>3. ToSet(OfChain(Listed(tl, f), c)) \subseteq ManagedRules(f)
    BY <2>2
  <2> QED
    BY <2>2, <2>3 DEF f, tl
<1>5. ASSUME NEW c \in {"PREROUTING", "INPUT"}
      PROVE  Read(lost, c) \in Seq(Rules) /\ ToSet(Read(lost, c)) \subseteq ManagedRules(job.family)
  <2>1. CASE c \in lost
    BY <2>1 DEF ToSet
  <2>2. CASE c \notin lost
    BY <1>4, <2>2
  <2> QED
    BY <2>1, <2>2
<1>6. Chn(lost) \in BOOLEAN
  OBVIOUS
<1>7. CASE lost = {}
  <2>1. /\ Read(lost, "PREROUTING") = OfChain(Listed(Tool, job.family), "PREROUTING")
        /\ Read(lost, "INPUT") = OfChain(Listed(Tool, job.family), "INPUT")
        /\ Chn(lost) = (job.family = "hy2" /\ chain[Tool])
    BY <1>7
  <2>2. NoFault /\ UNCHANGED misread
    BY <1>3, <1>7
  <2> HIDE DEF Read, Chn
  <2> QED
    BY <1>1, <1>2, <1>3, <1>5, <1>6, <2>1, <2>2
<1>8. CASE lost # {}
  <2>1. misread' = TRUE /\ calm' = FALSE
    BY <1>3, <1>8 DEF Fault
  <2> HIDE DEF Read, Chn
  <2> QED
    BY <1>1, <1>2, <1>3, <1>5, <1>6, <2>1
<1> QED
  BY <1>7, <1>8

\* A step of RunCommand: the command is done, or the tool is left.
LEMMA RunStep ==
    ASSUME TypeOK, RunCommand
    PROVE  /\ job \in WorkJobs /\ Tool \in ToSet(Tools) /\ table[Tool] \in Seq(Rules)
           /\ job.state = "run" /\ job.todo \in Seq(CommandSet) /\ job.todo # <<>>
           /\ Head(job.todo) = job.todo[1] /\ job.todo[1] \in CommandSet /\ 1 \in DOMAIN job.todo
           /\ UNCHANGED <<plan, plans, stops, misread>>
           /\ \/ /\ Applies(job.todo[1]) /\ NoFault
                 /\ table' = [table EXCEPT ![Tool] = Applied(job.todo[1])]
                 /\ chain' = [chain EXCEPT ![Tool] = @ /\ job.todo[1].op # "drop"]
                 /\ job' = [job EXCEPT !.todo = Tail(job.todo)]
              \/ /\ ~Applies(job.todo[1]) \/ calm' = FALSE
                 /\ job' = Following /\ UNCHANGED <<table, chain>>
<1>1. job \in WorkJobs /\ job.state = "run" /\ job.todo # <<>>
  BY AtWork DEF RunCommand, Working, TypeOK
<1>2. Tool \in ToSet(Tools) /\ table[Tool] \in Seq(Rules) /\ job.todo \in Seq(CommandSet)
  BY <1>1, ToolFacts DEF WorkJobs, Tool, TypeOK
<1>3. Head(job.todo) = job.todo[1] /\ job.todo[1] \in CommandSet /\ 1 \in DOMAIN job.todo
  BY <1>1, <1>2
<1>4. \/ /\ Applies(job.todo[1]) /\ NoFault
         /\ table' = [table EXCEPT ![Tool] = Applied(job.todo[1])]
         /\ chain' = [chain EXCEPT ![Tool] = @ /\ job.todo[1].op # "drop"]
         /\ job' = [job EXCEPT !.todo = Tail(job.todo)]
      \/ /\ ~Applies(job.todo[1]) \/ calm' = FALSE
         /\ job' = Following /\ UNCHANGED <<table, chain>>
  BY <1>3 DEF RunCommand, Fault
<1> QED
  BY <1>1, <1>2, <1>3, <1>4 DEF RunCommand

LEMMA NextOwn ==
    ASSUME TypeOK, CommandsOwn, [Next]_vars
    PROVE  CommandsOwn'
<1>1. CASE Tick \/ Stop \/ Start \/ Inspect \/ Done \/ Crash
  <2>1. job'.state # "run"
    <3>1. CASE Tick \/ Stop \/ Start \/ Crash
      BY <3>1 DEF Tick, Stop, Begin, Start, Crash, At, Idle, Stopped
    <3>2. CASE Inspect \/ Done
      <4>1. job \in WorkJobs
        BY <3>2, AtWork DEF Inspect, Done, Working, TypeOK
      <4> QED
        BY <3>2, <4>1, FollowingState DEF Inspect, Done, WorkJobs
    <3> QED
      BY <1>1, <3>1, <3>2
  <2> QED
    BY <2>1 DEF CommandsOwn
<1>2. CASE Prepare
  <2>1. PICK nat \in Seq(Rules), input \in Seq(Rules), b \in BOOLEAN :
          /\ ToSet(nat) \cup ToSet(input) \subseteq ManagedRules(job.family)
          /\ job' = [job EXCEPT !.state = "run", !.todo = Commands(nat, input, b, Wanted)]
    BY <1>2, PrepareStep
  <2> DEFINE C == Commands(nat, input, b, Wanted)
  <2>2. job \in WorkJobs
    BY <1>2, PrepareStep
  <2>3. \A i \in DOMAIN C : /\ C[i].op = "delete" => Managed(C[i].rule, job.family)
                            /\ C[i].op = "add" => C[i].rule.tag = job.family
    BY <2>1, <2>2, PreparedOwn
  <2> HIDE DEF C
  <2>4. job'.todo = C /\ job'.family = job.family
    BY <2>1, <2>2 DEF WorkJobs, C
  <2> QED
    BY <2>3, <2>4 DEF CommandsOwn, Managed
<1>3. CASE RunCommand
  <2>1. CASE job' = Following
    BY <1>3, <2>1, RunStep, FollowingState DEF CommandsOwn
  <2>2. CASE job' = [job EXCEPT !.todo = Tail(job.todo)]
    <3> DEFINE u == Tail(job.todo)
    <3>1. job'.todo = u /\ job'.family = job.family /\ job.state = "run" /\ job.todo # <<>>
          /\ job.todo \in Seq(CommandSet)
      BY <1>3, <2>2, RunStep DEF WorkJobs
    <3>2. \A i \in DOMAIN u : i + 1 \in DOMAIN job.todo /\ u[i] = job.todo[i + 1]
      BY <3>1
    <3> HIDE DEF u
    <3> QED
      BY <3>1, <3>2 DEF CommandsOwn, Managed
  <2> QED
    BY <1>3, <2>1, <2>2, RunStep
<1>4. CASE Reload \/ OtherProgram \/ UNCHANGED vars
  <2>1. job' = job
    BY <1>4 DEF Reload, OtherProgram, vars
  <2> QED
    BY <2>1 DEF CommandsOwn, Managed
<1> QED
  BY <1>1, <1>2, <1>3, <1>4 DEF Next, Work

LEMMA NextFresh ==
    ASSUME TypeOK, CommandsOwn, FreshAdds, NoCopies, [Next]_vars
    PROVE  FreshAdds' /\ NoCopies'
<1>1. CASE Tick \/ Stop \/ Start \/ Inspect \/ Done \/ Crash
  <2>1. job'.state # "run"
    <3>1. CASE Tick \/ Stop \/ Start \/ Crash
      BY <3>1 DEF Tick, Stop, Begin, Start, Crash, At, Idle, Stopped
    <3>2. CASE Inspect \/ Done
      <4>1. job \in WorkJobs
        BY <3>2, AtWork DEF Inspect, Done, Working, TypeOK
      <4> QED
        BY <3>2, <4>1, FollowingState DEF Inspect, Done, WorkJobs
    <3> QED
      BY <1>1, <3>1, <3>2
  <2>2. table' = table /\ misread' = misread
    BY <1>1 DEF Tick, Stop, Start, Inspect, Done, Crash
  <2> QED
    BY <2>1, <2>2 DEF FreshAdds, NoCopies
<1>2. CASE Prepare
  <2>1. PICK nat \in Seq(Rules), input \in Seq(Rules), b \in BOOLEAN :
          /\ job' = [job EXCEPT !.state = "run", !.todo = Commands(nat, input, b, Wanted)]
          /\ \/ /\ nat = OfChain(Listed(Tool, job.family), "PREROUTING")
                /\ input = OfChain(Listed(Tool, job.family), "INPUT")
                /\ UNCHANGED misread
             \/ misread' = TRUE
    BY <1>2, PrepareStep
  <2>2. job \in WorkJobs /\ Tool \in ToSet(Tools) /\ table[Tool] \in Seq(Rules)
    BY <1>2, PrepareStep
  <2>3. table' = table
    BY <1>2 DEF Prepare
  <2>4. CASE misread' = TRUE
    BY <2>4 DEF FreshAdds, NoCopies
  <2>5. CASE misread' # TRUE
    <3>1. misread' = misread
      BY <2>1, <2>5
    <3>2. ToSet(nat) \cup ToSet(input) = ToSet(table[Tool]) \cap ManagedRules(job.family)
      <4>1. /\ ToSet(nat) = ToSet(table[Tool]) \cap (ManagedRules(job.family) \cap ChainRules("PREROUTING"))
            /\ ToSet(input) = ToSet(table[Tool]) \cap (ManagedRules(job.family) \cap ChainRules("INPUT"))
        BY <2>1, <2>2, <2>5, ListedTypes
      <4>2. ManagedRules(job.family) \subseteq ChainRules("PREROUTING") \cup ChainRules("INPUT")
        BY DEF ManagedRules, ChainRules, Rules
      <4> QED
        BY <4>1, <4>2
    <3>3. job.family \in Families
      BY <2>2 DEF WorkJobs
    <3>4. /\ Wanted \in Seq(Rules) /\ IsInjective(Wanted)
          /\ \A i \in DOMAIN Wanted : Wanted[i].tag = job.family
      BY <3>3, ExpectedTypes DEF Wanted, TypeOK, IsInjective
    <3>5. ToSet(Wanted) \subseteq ManagedRules(job.family)
      BY <3>4 DEF ToSet, ManagedRules, Managed
    <3>6. AddsAreFresh(Commands(nat, input, b, Wanted), table[Tool])
      BY <3>2, <3>4, <3>5, CommandsFresh
    <3> DEFINE C == Commands(nat, input, b, Wanted)
    <3> HIDE DEF C
    <3>7. job'.todo = C /\ job'.tool = job.tool
      BY <2>1, <2>2 DEF WorkJobs, C
    <3>8. AddsAreFresh(job'.todo, table'[Tools[job'.tool]])
      BY <2>3, <3>6, <3>7 DEF C, Tool
    <3> QED
      BY <2>3, <3>1, <3>8 DEF FreshAdds, NoCopies, Tool
  <2> QED
    BY <2>4, <2>5
<1>3. CASE RunCommand
  <2> DEFINE c == job.todo[1]
  <2>0. misread' = misread
    BY <1>3, RunStep
  <2> SUFFICES ASSUME ~misread PROVE FreshAdds' /\ NoCopies'
    BY <2>0 DEF FreshAdds, NoCopies
  <2>1. CASE job' = Following /\ table' = table
    BY <1>3, <2>0, <2>1, RunStep, FollowingState DEF FreshAdds, NoCopies
  <2>2. CASE /\ Applies(c) /\ table' = [table EXCEPT ![Tool] = Applied(c)]
             /\ job' = [job EXCEPT !.todo = Tail(job.todo)]
    <3>1. /\ job \in WorkJobs /\ Tool \in ToSet(Tools) /\ table[Tool] \in Seq(Rules)
          /\ job.state = "run" /\ job.todo \in Seq(CommandSet) /\ job.todo # <<>>
          /\ c \in CommandSet
      BY <1>3, RunStep
    <3>2. AddsAreFresh(job.todo, table[Tool]) /\ \A t \in ToSet(Tools) : IsInjective(table[t])
      BY <3>1 DEF FreshAdds, NoCopies
    <3>3. /\ c.op = "delete" => ToSet(Applied(c)) \subseteq ToSet(table[Tool]) \ {c.rule}
          /\ c.op = "add" => ToSet(Applied(c)) \subseteq ToSet(table[Tool]) \cup {c.rule}
          /\ c.op \notin {"delete", "add"} => ToSet(Applied(c)) \subseteq ToSet(table[Tool])
      BY <2>2, <3>1, <3>2, AppliedElements
    <3> HIDE DEF c
    <3>4. /\ AddsAreFresh(Tail(job.todo), Applied(c))
          /\ c.op = "add" => c.rule \notin ToSet(table[Tool])
      BY <3>1, <3>2, <3>3, FreshTail DEF c
    <3>5. IsInjective(Applied(c))
      BY <2>2, <3>1, <3>2, <3>4, AppliedElements
    <3>6. table'[Tool] = Applied(c) /\ \A t \in ToSet(Tools) : t # Tool => table'[t] = table[t]
      BY <2>2, <3>1 DEF TypeOK
    <3>7. job'.todo = Tail(job.todo) /\ job'.tool = job.tool
      BY <2>2, <3>1 DEF WorkJobs
    <3>8. NoCopies'
      BY <3>2, <3>5, <3>6 DEF NoCopies
    <3>9. AddsAreFresh(job'.todo, table'[Tools[job'.tool]])
      BY <3>4, <3>6, <3>7 DEF Tool
    <3> QED
      BY <3>8, <3>9 DEF FreshAdds, Tool
  <2> QED
    BY <1>3, <2>1, <2>2, RunStep
<1>4. CASE OtherProgram
  <2>0. PICK t \in ToSet(Tools) :
          \E i \in DOMAIN table[t] : table' = [table EXCEPT ![t] = RemoveAt(@, i)]
    BY <1>4 DEF OtherProgram
  <2>1. PICK i \in DOMAIN table[t] : table' = [table EXCEPT ![t] = RemoveAt(@, i)]
    BY <2>0
  <2>2. /\ ToSet(RemoveAt(table[t], i)) \subseteq ToSet(table[t])
        /\ IsInjective(table[t]) => IsInjective(RemoveAt(table[t], i))
    <3>1. table[t] \in Seq(Rules) /\ i \in 1..Len(table[t])
      BY DEF TypeOK
    <3> QED
      BY <3>1, RemoveAtElements
  <2>3. \A u \in ToSet(Tools) : /\ ToSet(table'[u]) \subseteq ToSet(table[u])
                                /\ IsInjective(table[u]) => IsInjective(table'[u])
    BY <2>1, <2>2 DEF TypeOK
  <2>4. job' = job /\ misread' = misread
    BY <1>4 DEF OtherProgram
  <2>5. NoCopies'
    BY <2>3, <2>4 DEF NoCopies
  <2>6. FreshAdds'
    <3> SUFFICES ASSUME job.state = "run", ~misread PROVE AddsAreFresh(job.todo, table'[Tool])
      BY <2>4 DEF FreshAdds, Tool
    <3>1. Tool \in ToSet(Tools)
      BY AtWork, ToolFacts DEF TypeOK, WorkJobs, Tool
    <3>2. AddsAreFresh(job.todo, table[Tool])
      BY DEF FreshAdds
    <3> QED
      BY <2>3, <3>1, <3>2 DEF AddsAreFresh
  <2> QED
    BY <2>5, <2>6
<1>5. CASE Reload \/ UNCHANGED vars
  <2>1. job' = job /\ table' = table /\ misread' = misread
    BY <1>5 DEF Reload, vars
  <2> QED
    BY <2>1 DEF FreshAdds, NoCopies, Tool
<1> QED
  BY <1>1, <1>2, <1>3, <1>4, <1>5 DEF Next, Work

\* No rule is in a packet filter twice, whatever fails in the middle of a repair,
\* as long as no listing failed while the commands of one were being made.
THEOREM NoRuleTwice == Spec => []NoCopies
<1>1. Init => CopiesInv
  <2> SUFFICES ASSUME Init PROVE CopiesInv
    OBVIOUS
  <2>1. TypeOK
    BY InitTypes
  <2>2. CommandsOwn /\ FreshAdds
    BY DEF Init, CommandsOwn, FreshAdds, Idle
  <2>3. IsInjective(<<Foreign>>) /\ IsInjective(<<Jump, Foreign>>)
    <3>1. Jump # Foreign
      <4>1. Jump.tag = "jump" /\ Foreign.tag = "foreign"
        BY DEF Jump, Foreign
      <4> QED
        BY <4>1
    <3> QED
      BY <3>1 DEF IsInjective
  <2>4. NoCopies
    BY <2>3 DEF Init, NoCopies
  <2> QED
    BY <2>1, <2>2, <2>4 DEF CopiesInv
<1>2. CopiesInv /\ [Next]_vars => CopiesInv'
  BY NextTypes, NextOwn, NextFresh DEF CopiesInv
<1>3. CopiesInv => NoCopies
  BY DEF CopiesInv
<1> QED
  BY <1>1, <1>2, <1>3, PTL DEF Spec

\* A command leaves the rules of S as they are when its own rule is not one.
LEMMA AppliedOthers ==
    ASSUME table[Tool] \in Seq(Rules), NEW c \in CommandSet, Applies(c), NEW S,
           c.op \in {"delete", "add"} => c.rule \notin S
    PROVE  Among(Applied(c), S) = Among(table[Tool], S)
<1> DEFINE s == table[Tool]
           r == c.rule
<1>1. s \in Seq(Rules) /\ r \in Rules
  BY DEF CommandSet
<1>2. CASE c.op = "delete"
  <2>1. r \in ToSet(s)
    BY <1>1, <1>2 DEF Applies, Contains, ToSet
  <2>2. Applied(c) = RemoveFirst(s, r)
    BY <1>2 DEF Applied
  <2> HIDE DEF s, r
  <2>3. r \notin S
    BY <1>2 DEF r
  <2>4. Among(RemoveFirst(s, r), S) = Among(s, S)
    BY <1>1, <2>1, <2>3, AmongRemoved
  <2> QED
    BY <2>2, <2>4 DEF s
<1>3. CASE c.op = "add"
  <2>1. r.chain \in {"PREROUTING", "INPUT"}
    BY <1>1 DEF Rules
  <2>2. Applied(c) = Append(s, r) \/ Applied(c) = <<r>> \o s
    BY <1>3, <2>1 DEF Applied
  <2>3. r \notin S
    BY <1>3
  <2> HIDE DEF s, r
  <2>4. Among(Append(s, r), S) = Among(s, S)
    BY <1>1, <2>3, AmongAppend
  <2>5. Among(<<r>> \o s, S) = Among(s, S)
    BY <1>1, <2>3, AmongPrepended
  <2> QED
    BY <2>2, <2>4, <2>5 DEF s
<1>4. CASE c.op \in {"flush", "drop"}
  BY <1>4 DEF Applied
<1> QED
  BY <1>2, <1>3, <1>4 DEF CommandSet

LEMMA StepOthers ==
    ASSUME TypeOK, CommandsOwn, RunCommand, NEW t \in ToSet(Tools)
    PROVE  LET others == {r \in Rules : Owner(r) # job.family}
           IN  Among(table'[t], others) = Among(table[t], others)
<1> DEFINE others == {r \in Rules : Owner(r) # job.family}
           c == job.todo[1]
<1>1. /\ job \in WorkJobs /\ Tool \in ToSet(Tools) /\ table[Tool] \in Seq(Rules)
      /\ job.state = "run" /\ c \in CommandSet /\ 1 \in DOMAIN job.todo
  BY RunStep
<1>2. /\ c.op = "delete" => Managed(c.rule, job.family)
      /\ c.op = "add" => c.rule.tag = job.family
  BY <1>1 DEF CommandsOwn
<1>3. job.family \in {"hy2", "mieru"}
  BY <1>1 DEF WorkJobs, Families
<1> HIDE DEF c
<1>4. c.op \in {"delete", "add"} => c.rule \notin others
  BY <1>2, <1>3 DEF Managed, Owner
<1>5. CASE UNCHANGED table
  BY <1>5
<1>6. CASE Applies(c) /\ table' = [table EXCEPT ![Tool] = Applied(c)]
  <2> HIDE DEF others
  <2>1. Among(Applied(c), others) = Among(table[Tool], others)
    BY <1>1, <1>4, <1>6, AppliedOthers
  <2> QED
    BY <1>1, <1>6, <2>1 DEF TypeOK, others
<1> QED
  BY <1>5, <1>6, RunStep DEF c

\* No command of a repair or cleanup moves, removes or adds a rule of the other
\* family or of another program.
THEOREM OthersStay == Spec => OthersUntouched
<1> DEFINE J == TypeOK /\ CommandsOwn
           Kept2 == RunCommand => \A t \in ToSet(Tools) :
                     LET others == {r \in Rules : Owner(r) # job.family}
                     IN  Among(table'[t], others) = Among(table[t], others)
<1>1. Init => J
  <2>1. Init => CommandsOwn
    BY DEF Init, CommandsOwn, Idle
  <2> QED
    BY <2>1, InitTypes
<1>2. J /\ [Next]_vars => J'
  BY NextTypes, NextOwn
<1>3. J => Kept2
  BY StepOthers
<1> QED
  BY <1>1, <1>2, <1>3, PTL DEF Spec, OthersUntouched

-----------------------------------------------------------------------------
(* An undisturbed repair makes the packet filter what the plan says.       *)

LEMMA TailConcat ==
    ASSUME NEW T, NEW x \in Seq(T), NEW y \in Seq(T), x # <<>>
    PROVE  /\ x \o y \in Seq(T) /\ x \o y # <<>>
           /\ (x \o y)[1] = x[1] /\ Tail(x \o y) = Tail(x) \o y
<1> DEFINE u == x \o y
           v == Tail(x) \o y
<1>1. Len(x) \in Nat \ {0} /\ Len(y) \in Nat /\ Tail(x) \in Seq(T) /\ Len(Tail(x)) = Len(x) - 1
  OBVIOUS
<1>2. /\ u \in Seq(T) /\ Len(u) = Len(x) + Len(y)
      /\ \A i \in 1..(Len(x) + Len(y)) : u[i] = IF i <= Len(x) THEN x[i] ELSE y[i - Len(x)]
  BY ConcatProperties
<1>3. /\ v \in Seq(T) /\ Len(v) = Len(Tail(x)) + Len(y)
      /\ \A i \in 1..(Len(Tail(x)) + Len(y)) :
           v[i] = IF i <= Len(Tail(x)) THEN Tail(x)[i] ELSE y[i - Len(Tail(x))]
  BY <1>1, ConcatProperties
<1> HIDE DEF u, v
<1>4. Len(u) # 0 /\ u # <<>> /\ u[1] = x[1]
  BY <1>1, <1>2
<1>5. Tail(u) \in Seq(T) /\ Len(Tail(u)) = Len(u) - 1 /\ \A i \in 1..(Len(u) - 1) : Tail(u)[i] = u[i + 1]
  BY <1>2, <1>4
<1>6. Len(Tail(u)) = Len(v) /\ Len(v) = (Len(x) + Len(y)) - 1
  BY <1>1, <1>2, <1>3, <1>5
<1>7. ASSUME NEW i \in 1..Len(v) PROVE Tail(u)[i] = v[i]
  <2>1. Tail(u)[i] = u[i + 1] /\ i + 1 \in 1..(Len(x) + Len(y))
    BY <1>1, <1>2, <1>5, <1>6
  <2>2. u[i + 1] = IF i + 1 <= Len(x) THEN x[i + 1] ELSE y[(i + 1) - Len(x)]
    BY <1>2, <2>1
  <2>3. v[i] = IF i <= Len(x) - 1 THEN Tail(x)[i] ELSE y[i - (Len(x) - 1)]
    BY <1>1, <1>3, <1>6
  <2>4. CASE i + 1 <= Len(x)
    <3>1. i <= Len(x) - 1 /\ Tail(x)[i] = x[i + 1]
      BY <1>1, <2>4
    <3> QED
      BY <2>1, <2>2, <2>3, <2>4, <3>1
  <2>5. CASE ~ (i + 1 <= Len(x))
    <3>1. ~ (i <= Len(x) - 1) /\ i - (Len(x) - 1) = (i + 1) - Len(x)
      BY <1>1, <2>5
    <3> QED
      BY <2>1, <2>2, <2>3, <2>5, <3>1
  <2> QED
    BY <2>4, <2>5
<1>8. Tail(u) = v
  BY <1>3, <1>5, <1>6, <1>7
<1> QED
  BY <1>2, <1>4, <1>8 DEF u, v

LEMMA DeletesTail ==
    ASSUME NEW s \in Seq(Rules), s # <<>>
    PROVE  /\ Deletes(s) # <<>> /\ Deletes(s)[1] = Delete(Head(s)) /\ Tail(Deletes(s)) = Deletes(Tail(s))
           /\ Adds(s) # <<>> /\ Adds(s)[1] = Add(Head(s)) /\ Tail(Adds(s)) = Adds(Tail(s))
<1> DEFINE d == Deletes(s)
           a == Adds(s)
           s2 == Tail(s)
           d2 == Deletes(s2)
           a2 == Adds(s2)
<1>1. /\ Len(s) \in Nat \ {0} /\ DOMAIN s = 1..Len(s) /\ s2 \in Seq(Rules) /\ Len(s2) = Len(s) - 1
      /\ DOMAIN s2 = 1..(Len(s) - 1) /\ \A i \in 1..(Len(s) - 1) : s2[i] = s[i + 1]
      /\ Head(s) = s[1]
  OBVIOUS
<1>2. d \in Seq(CommandSet) /\ Len(d) = Len(s) /\ a \in Seq(CommandSet) /\ Len(a) = Len(s)
  BY DeletesTypes
<1>3. d2 \in Seq(CommandSet) /\ Len(d2) = Len(s) - 1 /\ a2 \in Seq(CommandSet) /\ Len(a2) = Len(s) - 1
  BY <1>1, DeletesTypes
<1>4. \A i \in 1..Len(s) : d[i] = Delete(s[i]) /\ a[i] = Add(s[i])
  BY <1>1 DEF Deletes, Adds
<1> HIDE DEF s2
<1>5. \A i \in 1..(Len(s) - 1) : d2[i] = Delete(s2[i]) /\ a2[i] = Add(s2[i])
  BY <1>1 DEF Deletes, Adds
<1> HIDE DEF d, a, d2, a2
<1>6. /\ Tail(d) \in Seq(CommandSet) /\ Len(Tail(d)) = Len(s) - 1
      /\ \A i \in 1..(Len(s) - 1) : Tail(d)[i] = d[i + 1]
  BY <1>1, <1>2
<1>7. /\ Tail(a) \in Seq(CommandSet) /\ Len(Tail(a)) = Len(s) - 1
      /\ \A i \in 1..(Len(s) - 1) : Tail(a)[i] = a[i + 1]
  BY <1>1, <1>2
<1>8. \A i \in 1..(Len(s) - 1) : Tail(d)[i] = d2[i] /\ Tail(a)[i] = a2[i]
  <2> TAKE i \in 1..(Len(s) - 1)
  <2>1. i + 1 \in 1..Len(s)
    BY <1>1
  <2>2. d[i + 1] = Delete(s[i + 1]) /\ a[i + 1] = Add(s[i + 1])
    BY <1>4, <2>1
  <2>3. s2[i] = s[i + 1]
    BY <1>1
  <2> QED
    BY <1>5, <1>6, <1>7, <2>2, <2>3
<1>9. Tail(d) = d2
  BY <1>3, <1>6, <1>8
<1>10. Tail(a) = a2
  BY <1>3, <1>7, <1>8
<1>11. d # <<>> /\ a # <<>> /\ d[1] = Delete(Head(s)) /\ a[1] = Add(Head(s))
  BY <1>1, <1>2, <1>4
<1> QED
  BY <1>9, <1>10, <1>11 DEF d, a, d2, a2, s2

\* The next command and the ones after it, as long as a rule of the nat table is to
\* be deleted, one of the filter table, or the old chain is to be dropped.
LEMMA TailOfNat ==
    ASSUME NEW nat \in Seq(Rules), NEW input \in Seq(Rules), NEW b \in BOOLEAN,
           NEW wanted \in Seq(Rules), nat # <<>>
    PROVE  LET C == Commands(nat, input, b, wanted)
           IN  /\ C # <<>> /\ C[1] = Delete(Head(nat))
               /\ Tail(C) = Commands(Tail(nat), input, b, wanted)
<1> DEFINE x == Deletes(nat)
           y == Deletes(input)
           z == Chained(b)
           w == Adds(wanted)
           xy == x \o y
           xyz == xy \o z
           C == Commands(nat, input, b, wanted)
<1>1. x \in Seq(CommandSet) /\ y \in Seq(CommandSet) /\ z \in Seq(CommandSet) /\ w \in Seq(CommandSet)
  BY DeletesTypes, ChainedTypes
<1>2. x # <<>> /\ x[1] = Delete(Head(nat)) /\ Tail(x) = Deletes(Tail(nat))
  BY DeletesTail
<1>3. C = xyz \o w /\ Commands(Tail(nat), input, b, wanted) = ((Deletes(Tail(nat)) \o y) \o z) \o w
  BY DEF Commands, Chained
<1> HIDE DEF x, y, z, w, C
<1>4. xy \in Seq(CommandSet) /\ xy # <<>> /\ xy[1] = x[1] /\ Tail(xy) = Tail(x) \o y
  BY <1>1, <1>2, TailConcat
<1> HIDE DEF xy
<1>5. xyz \in Seq(CommandSet) /\ xyz # <<>> /\ xyz[1] = xy[1] /\ Tail(xyz) = Tail(xy) \o z
  <2>1. xy \in Seq(CommandSet) /\ xy # <<>> /\ z \in Seq(CommandSet)
    BY <1>1, <1>4
  <2> QED
    BY <2>1, TailConcat, Zenon
<1> HIDE DEF xyz
<1>6. xyz \o w # <<>> /\ (xyz \o w)[1] = xyz[1] /\ Tail(xyz \o w) = Tail(xyz) \o w
  <2>1. xyz \in Seq(CommandSet) /\ xyz # <<>> /\ w \in Seq(CommandSet)
    BY <1>1, <1>5
  <2> QED
    BY <2>1, TailConcat, Zenon
<1> QED
  BY <1>2, <1>3, <1>4, <1>5, <1>6 DEF C

LEMMA TailOfInput ==
    ASSUME NEW input \in Seq(Rules), NEW b \in BOOLEAN,
           NEW wanted \in Seq(Rules), input # <<>>
    PROVE  LET C == Commands(<<>>, input, b, wanted)
           IN  /\ C # <<>> /\ C[1] = Delete(Head(input))
               /\ Tail(C) = Commands(<<>>, Tail(input), b, wanted)
<1> DEFINE y == Deletes(input)
           z == Chained(b)
           w == Adds(wanted)
           v == Deletes(Tail(input))
           yz == y \o z
           C == Commands(<<>>, input, b, wanted)
<1>1. y \in Seq(CommandSet) /\ z \in Seq(CommandSet) /\ w \in Seq(CommandSet)
  BY DeletesTypes, ChainedTypes
<1>2. y # <<>> /\ y[1] = Delete(Head(input)) /\ Tail(y) = v
  BY DeletesTail
<1>3. v \in Seq(CommandSet)
  <2>1. Tail(input) \in Seq(Rules)
    OBVIOUS
  <2> QED
    BY <2>1, DeletesTypes
<1>4. Deletes(<<>>) = <<>>
  BY DEF Deletes
<1>5. /\ C = ((<<>> \o y) \o z) \o w
      /\ Commands(<<>>, Tail(input), b, wanted) = ((<<>> \o v) \o z) \o w
  BY <1>4 DEF Commands, Chained
<1> HIDE DEF y, z, w, v, C
<1>6. <<>> \o y = y /\ <<>> \o v = v
  BY <1>1, <1>3
<1>7. yz \in Seq(CommandSet) /\ yz # <<>> /\ yz[1] = y[1] /\ Tail(yz) = Tail(y) \o z
  BY <1>1, <1>2, TailConcat
<1>8. C = yz \o w /\ Commands(<<>>, Tail(input), b, wanted) = (v \o z) \o w
  BY <1>5, <1>6
<1> HIDE DEF yz
<1>9. yz \o w # <<>> /\ (yz \o w)[1] = yz[1] /\ Tail(yz \o w) = Tail(yz) \o w
  <2>1. yz \in Seq(CommandSet) /\ yz # <<>> /\ w \in Seq(CommandSet)
    BY <1>1, <1>7
  <2> QED
    BY <2>1, TailConcat, Zenon
<1> QED
  BY <1>2, <1>7, <1>8, <1>9 DEF C

LEMMA TailOfChain ==
    ASSUME NEW wanted \in Seq(Rules)
    PROVE  LET C == Commands(<<>>, <<>>, TRUE, wanted)
           IN  C # <<>> /\ C[1] = Flush /\ Tail(C) = <<DropChain>> \o Adds(wanted)
<1> DEFINE z == <<Flush, DropChain>>
           w == Adds(wanted)
           C == Commands(<<>>, <<>>, TRUE, wanted)
<1>1. z \in Seq(CommandSet) /\ w \in Seq(CommandSet)
  <2>1. Flush \in CommandSet /\ DropChain \in CommandSet
    BY RuleTypes DEF Flush, DropChain, CommandSet
  <2> QED
    BY <2>1, DeletesTypes
<1>2. z # <<>> /\ z[1] = Flush /\ Tail(z) = <<DropChain>>
  OBVIOUS
<1>3. Deletes(<<>>) = <<>>
  BY DEF Deletes
<1>4. C = ((<<>> \o <<>>) \o z) \o w
  BY <1>3 DEF Commands
<1> HIDE DEF z, w, C
<1>5. (<<>> \o <<>>) \o z = z
  BY <1>1
<1>6. z \o w # <<>> /\ (z \o w)[1] = z[1] /\ Tail(z \o w) = Tail(z) \o w
  BY <1>1, <1>2, TailConcat, Zenon
<1> QED
  BY <1>2, <1>4, <1>5, <1>6 DEF C, w

LEMMA CommandsAddOnly ==
    ASSUME NEW wanted \in Seq(Rules)
    PROVE  Commands(<<>>, <<>>, FALSE, wanted) = Adds(wanted)
<1> DEFINE w == Adds(wanted)
<1>1. w \in Seq(CommandSet)
  BY DeletesTypes
<1>2. Deletes(<<>>) = <<>>
  BY DEF Deletes
<1>3. Commands(<<>>, <<>>, FALSE, wanted) = ((<<>> \o <<>>) \o <<>>) \o w
  BY <1>2 DEF Commands
<1> HIDE DEF w
<1>4. ((<<>> \o <<>>) \o <<>>) \o w = w
  BY <1>1
<1> QED
  BY <1>3, <1>4 DEF w

\* Deleting the first listed rule of a chain: the listing of that chain becomes
\* shorter by it, the other chain's listing stays.
LEMMA DeleteListed ==
    ASSUME NEW s \in Seq(Rules), NEW A, NEW B, A \cap B = {}, Among(s, A) # <<>>,
           NEW r, r = Head(Among(s, A))
    PROVE  /\ r \in ToSet(s)
           /\ Among(RemoveFirst(s, r), A) = Tail(Among(s, A))
           /\ Among(RemoveFirst(s, r), B) = Among(s, B)
<1> DEFINE a == Among(s, A)
<1>1. a \in Seq(Rules) /\ ToSet(a) = ToSet(s) \cap A /\ a # <<>>
  BY AmongElements
<1>2. r = Head(a)
  OBVIOUS
<1> HIDE DEF a
<1>3. r \in ToSet(a)
  BY <1>1, <1>2 DEF ToSet
<1>4. r \in ToSet(s) /\ r \notin B
  BY <1>1, <1>3
<1>5. Among(RemoveFirst(s, r), A) = Tail(Among(s, A))
  BY <1>1, <1>2, <1>4, AmongRemoved DEF a
<1>6. Among(RemoveFirst(s, r), B) = Among(s, B)
  BY <1>4, AmongRemoved
<1> QED
  BY <1>4, <1>5, <1>6

\* The chains make up what is managed, for a table.
LEMMA ManagedChains ==
    ASSUME NEW s \in Seq(Rules), NEW f
    PROVE  LET nat == Among(s, ManagedRules(f) \cap ChainRules("PREROUTING"))
               input == Among(s, ManagedRules(f) \cap ChainRules("INPUT"))
               all == Among(s, ManagedRules(f))
           IN  /\ nat \in Seq(Rules) /\ input \in Seq(Rules) /\ all \in Seq(Rules)
               /\ ToSet(all) = ToSet(s) \cap ManagedRules(f)
               /\ ToSet(all) = ToSet(nat) \cup ToSet(input)
               /\ nat = <<>> /\ input = <<>> => all = <<>> /\ ToSet(all) = {}
<1> DEFINE nat == Among(s, ManagedRules(f) \cap ChainRules("PREROUTING"))
           input == Among(s, ManagedRules(f) \cap ChainRules("INPUT"))
           all == Among(s, ManagedRules(f))
<1>1. /\ all \in Seq(Rules) /\ ToSet(all) = ToSet(s) \cap ManagedRules(f)
      /\ nat \in Seq(Rules)
      /\ ToSet(nat) = ToSet(s) \cap (ManagedRules(f) \cap ChainRules("PREROUTING"))
      /\ input \in Seq(Rules)
      /\ ToSet(input) = ToSet(s) \cap (ManagedRules(f) \cap ChainRules("INPUT"))
  BY AmongElements
<1>2. ManagedRules(f) \subseteq ChainRules("PREROUTING") \cup ChainRules("INPUT")
  BY DEF ManagedRules, ChainRules, Rules
<1> HIDE DEF nat, input, all
<1>3. ToSet(all) = ToSet(nat) \cup ToSet(input)
  BY <1>1, <1>2
<1>4. ASSUME nat = <<>>, input = <<>> PROVE all = <<>> /\ ToSet(all) = {}
  <2>1. ToSet(all) = {}
    BY <1>3, <1>4 DEF ToSet
  <2>2. all # <<>> => 1 \in DOMAIN all
    BY <1>1
  <2> QED
    BY <2>1, <2>2 DEF ToSet
<1> QED
  BY <1>1, <1>3, <1>4 DEF nat, input, all

\* What is left to add after k rules, and what has been added.
LEMMA AddsFrom ==
    ASSUME NEW W \in Seq(Rules), NEW k \in 0..Len(W)
    PROVE  /\ k = Len(W) => /\ Adds(SubSeq(W, k + 1, Len(W))) = <<>>
                            /\ ToSet(SubSeq(W, 1, k)) = ToSet(W)
           /\ k < Len(W) =>
                /\ Adds(SubSeq(W, k + 1, Len(W))) # <<>>
                /\ Adds(SubSeq(W, k + 1, Len(W)))[1] = Add(W[k + 1])
                /\ Tail(Adds(SubSeq(W, k + 1, Len(W)))) = Adds(SubSeq(W, k + 2, Len(W)))
                /\ ToSet(SubSeq(W, 1, k + 1)) = ToSet(SubSeq(W, 1, k)) \cup {W[k + 1]}
           /\ k = 0 => Adds(SubSeq(W, k + 1, Len(W))) = Adds(W) /\ ToSet(SubSeq(W, 1, k)) = {}
<1>0. Len(W) \in Nat /\ k \in Nat /\ DOMAIN W = 1..Len(W)
  OBVIOUS
<1>1. ASSUME k = Len(W)
      PROVE  Adds(SubSeq(W, k + 1, Len(W))) = <<>> /\ ToSet(SubSeq(W, 1, k)) = ToSet(W)
  <2>1. SubSeq(W, k + 1, Len(W)) = <<>> /\ SubSeq(W, 1, k) = W
    BY <1>0, <1>1
  <2>2. Adds(<<>>) = <<>>
    BY DEF Adds
  <2> QED
    BY <2>1, <2>2
<1>2. ASSUME k < Len(W)
      PROVE  /\ Adds(SubSeq(W, k + 1, Len(W))) # <<>>
             /\ Adds(SubSeq(W, k + 1, Len(W)))[1] = Add(W[k + 1])
             /\ Tail(Adds(SubSeq(W, k + 1, Len(W)))) = Adds(SubSeq(W, k + 2, Len(W)))
             /\ ToSet(SubSeq(W, 1, k + 1)) = ToSet(SubSeq(W, 1, k)) \cup {W[k + 1]}
  <2> DEFINE p == SubSeq(W, k + 1, Len(W))
             q == SubSeq(W, k + 2, Len(W))
             d == SubSeq(W, 1, k)
             e == SubSeq(W, 1, k + 1)
  <2> DEFINE n == Len(W)
  <2>a. n \in Nat /\ k \in Nat /\ k < n
    BY <1>0, <1>2
  <2> HIDE DEF n
  <2>0. k + 1 \in 1..n /\ n \in (k + 1)..n /\ (k + 1) + 1 = k + 2 /\ k < n
    BY <2>a
  <2>p. p \in Seq(Rules) /\ Len(p) = Len(W) - k
    BY <1>0, <2>0 DEF n
  <2>d. d \in Seq(Rules) /\ Len(d) = k /\ \A i \in 1..k : d[i] = W[i]
    BY <1>0, <2>0 DEF n
  <2>e. e \in Seq(Rules) /\ Len(e) = k + 1 /\ \A i \in 1..(k + 1) : e[i] = W[i]
    BY <1>0, <2>0 DEF n
  <2> HIDE DEF p, q, d, e
  <2>1. p # <<>>
    BY <1>0, <2>0, <2>p DEF n
  <2>2. Head(p) = W[k + 1] /\ Tail(p) = q
    <3>1. Head(SubSeq(W, k + 1, n)) = W[k + 1] /\ Tail(SubSeq(W, k + 1, n)) = SubSeq(W, (k + 1) + 1, n)
      BY <2>0, HeadTailOfSubSeq DEF n
    <3> QED
      BY <2>0, <3>1 DEF p, q, n
  <2>3. e = Append(d, W[k + 1])
    <3> DEFINE g == Append(d, W[k + 1])
    <3>1. /\ g \in Seq(Rules) /\ Len(g) = k + 1 /\ g[k + 1] = W[k + 1]
          /\ \A i \in 1..k : g[i] = d[i]
      BY <1>0, <2>0, <2>d DEF n
    <3> HIDE DEF g
    <3>2. \A i \in 1..(k + 1) : e[i] = g[i]
      BY <1>0, <2>d, <2>e, <3>1
    <3>3. e = g
      BY <2>e, <3>1, <3>2
    <3> QED
      BY <3>3 DEF g
  <2>4. Adds(p) # <<>> /\ Adds(p)[1] = Add(Head(p)) /\ Tail(Adds(p)) = Adds(Tail(p))
    BY <2>p, <2>1, DeletesTail
  <2>5. ToSet(e) = ToSet(d) \cup {W[k + 1]}
    BY <2>d, <2>3, AppendElements
  <2>6. Adds(p) # <<>> /\ Adds(p)[1] = Add(W[k + 1]) /\ Tail(Adds(p)) = Adds(q)
    BY <2>1, <2>2, <2>4
  <2> QED
    BY <2>5, <2>6 DEF p, q, d, e
<1>3. ASSUME k = 0
      PROVE  Adds(SubSeq(W, k + 1, Len(W))) = Adds(W) /\ ToSet(SubSeq(W, 1, k)) = {}
  <2>1. SubSeq(W, k + 1, Len(W)) = W /\ SubSeq(W, 1, k) = <<>>
    BY <1>0, <1>3
  <2>2. ToSet(<<>>) = {}
    BY DEF ToSet
  <2> QED
    BY <2>1, <2>2
<1> QED
  BY <1>1, <1>2, <1>3

\* Nothing is left to do: the managed rules are the wanted ones, no old chain is left.
LEMMA PhaseDone ==
    ASSUME NEW s \in Seq(Rules), NEW b \in BOOLEAN, NEW f \in Families, NEW W \in Seq(Rules),
           PhaseIn(<<>>, s, b, f, W)
    PROVE  ToSet(Among(s, ManagedRules(f))) = ToSet(W) /\ ~b
<1> DEFINE nat == Among(s, ManagedRules(f) \cap ChainRules("PREROUTING"))
           input == Among(s, ManagedRules(f) \cap ChainRules("INPUT"))
           all == Among(s, ManagedRules(f))
<1>1. /\ nat \in Seq(Rules) /\ input \in Seq(Rules) /\ all \in Seq(Rules)
      /\ nat = <<>> /\ input = <<>> => ToSet(all) = {}
  BY ManagedChains
<1>2. CASE DeletingIn(<<>>, s, b, f, W)
  <2>1. <<>> = Commands(nat, input, b, W)
    BY <1>2 DEF DeletingIn
  <2> HIDE DEF nat, input, all
  <2>2. nat = <<>> /\ input = <<>> /\ ~b
    <3>1. nat = <<>>
      BY <1>1, <2>1, TailOfNat
    <3>2. input = <<>>
      BY <1>1, <2>1, <3>1, TailOfInput
    <3>3. b # TRUE
      BY <2>1, <3>1, <3>2, TailOfChain
    <3> QED
      BY <3>1, <3>2, <3>3
  <2>3. <<>> = Adds(W)
    <3>1. Commands(nat, input, b, W) = Commands(<<>>, <<>>, FALSE, W)
      <4>1. b = FALSE
        BY <2>2
      <4> QED
        BY <2>2, <4>1
    <3> QED
      BY <2>1, <3>1, CommandsAddOnly
  <2>4. W = <<>>
    BY <2>3, DeletesTail
  <2> QED
    BY <1>1, <2>2, <2>4 DEF ToSet, all
<1>3. CASE DroppingIn(<<>>, s, f, W)
  <2>1. <<DropChain>> \o Adds(W) = <<>> /\ Adds(W) \in Seq(CommandSet)
    BY <1>3, DeletesTypes DEF DroppingIn
  <2> DEFINE w == Adds(W)
  <2> HIDE DEF w
  <2>2. w \in Seq(CommandSet) /\ <<DropChain>> \o w # <<>>
    BY <2>1 DEF w
  <2> QED
    BY <2>1, <2>2 DEF w
<1>4. CASE AddingIn(<<>>, s, b, f, W)
  <2>1. PICK k \in 0..Len(W) : /\ <<>> = Adds(SubSeq(W, k + 1, Len(W)))
                               /\ ToSet(all) = ToSet(SubSeq(W, 1, k))
    BY <1>4 DEF AddingIn
  <2>2. k = Len(W)
    BY <2>1, AddsFrom
  <2>3. ToSet(SubSeq(W, 1, k)) = ToSet(W)
    BY <2>2, AddsFrom
  <2> QED
    BY <1>4, <2>1, <2>3 DEF AddingIn
<1> QED
  BY <1>2, <1>3, <1>4 DEF PhaseIn

\* The next command of an undisturbed repair: it can be carried out, and the repair
\* goes on as it should.
LEMMA PhaseStep ==
    ASSUME NEW s \in Seq(Rules), NEW b \in BOOLEAN, NEW f \in Families, NEW W \in Seq(Rules),
           b => f = "hy2", \A i \in DOMAIN W : W[i].tag = f,
           NEW todo \in Seq(CommandSet), todo # <<>>, PhaseIn(todo, s, b, f, W)
    PROVE  \/ /\ todo[1].op = "delete" /\ todo[1].rule \in ToSet(s)
              /\ PhaseIn(Tail(todo), RemoveFirst(s, todo[1].rule), b, f, W)
           \/ todo[1] = Flush /\ PhaseIn(Tail(todo), s, b, f, W)
           \/ /\ todo[1] = DropChain /\ Jump \notin ToSet(s) /\ f = "hy2"
              /\ PhaseIn(Tail(todo), s, FALSE, f, W)
           \/ /\ todo[1].op = "add"
              /\ \A s2 \in Seq(Rules) : ToSet(s2) = ToSet(s) \cup {todo[1].rule} =>
                   PhaseIn(Tail(todo), s2, b, f, W)
<1> DEFINE M == ManagedRules(f)
           nat == Among(s, M \cap ChainRules("PREROUTING"))
           input == Among(s, M \cap ChainRules("INPUT"))
           all == Among(s, M)
<1>1. /\ nat \in Seq(Rules) /\ input \in Seq(Rules) /\ all \in Seq(Rules)
      /\ ToSet(all) = ToSet(s) \cap M
      /\ nat = <<>> /\ input = <<>> => all = <<>> /\ ToSet(all) = {}
  BY ManagedChains
<1>2. ASSUME AddingIn(todo, s, b, f, W)
      PROVE  /\ todo[1].op = "add"
             /\ \A s2 \in Seq(Rules) : ToSet(s2) = ToSet(s) \cup {todo[1].rule} =>
                   PhaseIn(Tail(todo), s2, b, f, W)
  <2>1. PICK k \in 0..Len(W) : /\ todo = Adds(SubSeq(W, k + 1, Len(W)))
                               /\ ToSet(all) = ToSet(SubSeq(W, 1, k))
    BY <1>2 DEF AddingIn
  <2>2. k < Len(W)
    <3> SUFFICES ASSUME ~ (k < Len(W)) PROVE FALSE
      OBVIOUS
    <3>1. Len(W) \in Nat
      OBVIOUS
    <3>2. k = Len(W)
      BY <3>1
    <3> QED
      BY <2>1, <3>2, AddsFrom
  <2>3. k < Len(W) /\ k + 1 \in 0..Len(W) /\ (k + 1) + 1 = k + 2 /\ k + 1 \in DOMAIN W
    <3>1. Len(W) \in Nat /\ DOMAIN W = 1..Len(W)
      OBVIOUS
    <3> QED
      BY <2>2, <3>1
  <2>4. /\ todo[1] = Add(W[k + 1]) /\ Tail(todo) = Adds(SubSeq(W, k + 2, Len(W)))
        /\ ToSet(SubSeq(W, 1, k + 1)) = ToSet(SubSeq(W, 1, k)) \cup {W[k + 1]}
    BY <2>1, <2>3, AddsFrom
  <2>5. todo[1].op = "add" /\ todo[1].rule = W[k + 1]
    BY <2>4 DEF Add
  <2>6. W[k + 1] \in M
    BY <2>3 DEF ManagedRules, Managed
  <2> HIDE DEF M, all
  <2>7. ASSUME NEW s2 \in Seq(Rules), ToSet(s2) = ToSet(s) \cup {todo[1].rule}
        PROVE  PhaseIn(Tail(todo), s2, b, f, W)
    <3>1. ToSet(Among(s2, M)) = ToSet(s2) \cap M
      BY AmongElements
    <3>2. ToSet(Among(s2, M)) = ToSet(all) \cup {W[k + 1]}
      BY <1>1, <2>5, <2>6, <2>7, <3>1
    <3>3. ToSet(Among(s2, M)) = ToSet(SubSeq(W, 1, k + 1))
      BY <2>1, <2>4, <3>2
    <3>4. Tail(todo) = Adds(SubSeq(W, (k + 1) + 1, Len(W)))
      BY <2>3, <2>4
    <3>5. ~b
      BY <1>2 DEF AddingIn
    <3>6. AddingIn(Tail(todo), s2, b, f, W)
      BY <2>3, <3>3, <3>4, <3>5 DEF AddingIn, M
    <3> QED
      BY <3>6 DEF PhaseIn
  <2> QED
    BY <2>5, <2>7
<1>3. ASSUME all = <<>>, ToSet(all) = {}, NEW d, d = Adds(W)
      PROVE  AddingIn(d, s, FALSE, f, W)
  <2>1. 0 \in 0..Len(W)
    OBVIOUS
  <2>2. Adds(SubSeq(W, 0 + 1, Len(W))) = Adds(W) /\ ToSet(SubSeq(W, 1, 0)) = {}
    BY <2>1, AddsFrom
  <2> QED
    BY <1>3, <2>1, <2>2 DEF AddingIn
<1>4. CASE DroppingIn(todo, s, f, W)
  <2>1. all = <<>> /\ todo = <<DropChain>> \o Adds(W) /\ f = "hy2" /\ Adds(W) \in Seq(CommandSet)
    BY <1>4, DeletesTypes DEF DroppingIn
  <2>2. ToSet(all) = {}
    BY <2>1 DEF ToSet
  <2>3. todo[1] = DropChain /\ Tail(todo) = Adds(W)
    <3> DEFINE w == Adds(W)
    <3> HIDE DEF w
    <3>1. w \in Seq(CommandSet) /\ todo = <<DropChain>> \o w
      BY <2>1 DEF w
    <3>2. todo[1] = DropChain /\ Tail(todo) = w
      BY <3>1
    <3> QED
      BY <3>2 DEF w
  <2>4. Jump \in M
    <3>1. Jump.tag = "jump"
      BY DEF Jump, Foreign
    <3> QED
      BY <2>1, <3>1, RuleTypes DEF ManagedRules, Managed
  <2>5. Jump \notin ToSet(s)
    BY <1>1, <2>2, <2>4
  <2>6. AddingIn(Tail(todo), s, FALSE, f, W)
    BY <1>3, <2>1, <2>2, <2>3
  <2> QED
    BY <2>1, <2>3, <2>5, <2>6 DEF PhaseIn
<1>5. CASE DeletingIn(todo, s, b, f, W)
  <2>1. todo = Commands(nat, input, b, W)
    BY <1>5 DEF DeletingIn
  <2>2. CASE nat # <<>>
    <3> DEFINE r == Head(nat)
               s2 == RemoveFirst(s, r)
    <3>1. /\ r \in ToSet(s)
          /\ Among(s2, M \cap ChainRules("PREROUTING")) = Tail(nat)
          /\ Among(s2, M \cap ChainRules("INPUT")) = input
      <4> DEFINE A == M \cap ChainRules("PREROUTING")
                 B == M \cap ChainRules("INPUT")
      <4>1. A \cap B = {}
        BY DEF ChainRules
      <4>2. nat = Among(s, A) /\ input = Among(s, B)
        OBVIOUS
      <4> HIDE DEF A, B, nat, input
      <4>3. r \in ToSet(s) /\ Among(s2, A) = Tail(Among(s, A)) /\ Among(s2, B) = Among(s, B)
        BY <2>2, <4>1, <4>2, DeleteListed
      <4> QED
        BY <4>2, <4>3 DEF A, B
    <3> HIDE DEF nat, input
    <3>2. todo[1] = Delete(r) /\ Tail(todo) = Commands(Tail(nat), input, b, W)
      <4>1. nat \in Seq(Rules) /\ input \in Seq(Rules)
        BY <1>1
      <4>2. /\ Commands(nat, input, b, W)[1] = Delete(Head(nat))
            /\ Tail(Commands(nat, input, b, W)) = Commands(Tail(nat), input, b, W)
        BY <2>2, <4>1, TailOfNat
      <4> QED
        BY <2>1, <4>2
    <3>3. todo[1].op = "delete" /\ todo[1].rule = r
      BY <3>2 DEF Delete
    <3> HIDE DEF r
    <3>4. DeletingIn(Tail(todo), s2, b, f, W)
      BY <3>1, <3>2 DEF DeletingIn
    <3> QED
      BY <3>1, <3>3, <3>4 DEF PhaseIn
  <2>3. CASE nat = <<>> /\ input # <<>>
    <3> DEFINE r == Head(input)
               s2 == RemoveFirst(s, r)
    <3>1. /\ r \in ToSet(s)
          /\ Among(s2, M \cap ChainRules("INPUT")) = Tail(input)
          /\ Among(s2, M \cap ChainRules("PREROUTING")) = nat
      <4> DEFINE A == M \cap ChainRules("INPUT")
                 B == M \cap ChainRules("PREROUTING")
      <4>1. A \cap B = {}
        BY DEF ChainRules
      <4>2. input = Among(s, A) /\ nat = Among(s, B)
        OBVIOUS
      <4> HIDE DEF A, B, nat, input
      <4>3. r \in ToSet(s) /\ Among(s2, A) = Tail(Among(s, A)) /\ Among(s2, B) = Among(s, B)
        BY <2>3, <4>1, <4>2, DeleteListed
      <4> QED
        BY <4>2, <4>3 DEF A, B
    <3> HIDE DEF nat, input
    <3>2. todo[1] = Delete(r) /\ Tail(todo) = Commands(nat, Tail(input), b, W)
      <4>1. todo = Commands(<<>>, input, b, W)
        BY <2>1, <2>3
      <4> QED
        BY <1>1, <2>3, <4>1, TailOfInput
    <3>3. todo[1].op = "delete" /\ todo[1].rule = r
      BY <3>2 DEF Delete
    <3> HIDE DEF r
    <3>4. DeletingIn(Tail(todo), s2, b, f, W)
      BY <3>1, <3>2 DEF DeletingIn
    <3> QED
      BY <3>1, <3>3, <3>4 DEF PhaseIn
  <2>4. CASE nat = <<>> /\ input = <<>> /\ b
    <3>1. all = <<>>
      BY <1>1, <2>4
    <3> HIDE DEF nat, input
    <3>2. todo[1] = Flush /\ Tail(todo) = <<DropChain>> \o Adds(W)
      <4>1. b = TRUE
        BY <2>4
      <4>2. todo = Commands(<<>>, <<>>, TRUE, W)
        BY <2>1, <2>4, <4>1
      <4> QED
        BY <4>2, TailOfChain
    <3>3. DroppingIn(Tail(todo), s, f, W)
      BY <2>4, <3>1, <3>2 DEF DroppingIn
    <3> QED
      BY <3>2, <3>3 DEF PhaseIn
  <2>5. CASE nat = <<>> /\ input = <<>> /\ ~b
    <3>1. all = <<>> /\ ToSet(all) = {} /\ b = FALSE
      BY <1>1, <2>5
    <3>2. Commands(nat, input, b, W) = Commands(<<>>, <<>>, FALSE, W)
      BY <2>5, <3>1
    <3>3. todo = Adds(W)
      BY <2>1, <3>2, CommandsAddOnly
    <3>4. AddingIn(todo, s, b, f, W)
      BY <1>3, <3>1, <3>3
    <3> QED
      BY <1>2, <3>4
  <2> QED
    BY <2>2, <2>3, <2>4, <2>5
<1> QED
  BY <1>2, <1>4, <1>5 DEF PhaseIn

LEMMA WantedTypes ==
    ASSUME TypeOK, job \in WorkJobs
    PROVE  /\ job.family \in Families /\ Wanted \in Seq(Rules)
           /\ \A i \in DOMAIN Wanted : Wanted[i].tag = job.family
<1>1. job.family \in Families
  BY DEF WorkJobs
<1> QED
  BY <1>1, ExpectedTypes DEF Wanted, TypeOK

\* An undisturbed repair carries out its next command and goes on with the tool.
LEMMA CalmRun ==
    ASSUME TypeOK, CalmProgress, RunCommand, calm'
    PROVE  /\ Applies(job.todo[1]) /\ NoFault
           /\ table' = [table EXCEPT ![Tool] = Applied(job.todo[1])]
           /\ chain' = [chain EXCEPT ![Tool] = @ /\ job.todo[1].op # "drop"]
           /\ job' = [job EXCEPT !.todo = Tail(job.todo)]
           /\ PhaseIn(Tail(job.todo), table'[Tool], job.family = "hy2" /\ chain'[Tool],
                      job.family, Wanted)
<1> DEFINE todo == job.todo
           c == job.todo[1]
           s == table[Tool]
           f == job.family
           W == Wanted
           b == job.family = "hy2" /\ chain[Tool]
<1>1. /\ job \in WorkJobs /\ Tool \in ToSet(Tools) /\ s \in Seq(Rules)
      /\ job.state = "run" /\ todo \in Seq(CommandSet) /\ todo # <<>> /\ c \in CommandSet
  BY RunStep
<1>2. f \in Families /\ W \in Seq(Rules) /\ \A i \in DOMAIN W : W[i].tag = f
  BY <1>1, WantedTypes
<1>3. chain[Tool] \in BOOLEAN /\ b \in BOOLEAN /\ (b => f = "hy2")
  BY <1>1 DEF TypeOK
<1>4. PhaseIn(todo, s, b, f, W)
  BY <1>1 DEF CalmProgress
<1> HIDE DEF todo, s, f, W, b
<1>5. \/ /\ todo[1].op = "delete" /\ todo[1].rule \in ToSet(s)
         /\ PhaseIn(Tail(todo), RemoveFirst(s, todo[1].rule), b, f, W)
      \/ todo[1] = Flush /\ PhaseIn(Tail(todo), s, b, f, W)
      \/ /\ todo[1] = DropChain /\ Jump \notin ToSet(s) /\ f = "hy2"
         /\ PhaseIn(Tail(todo), s, FALSE, f, W)
      \/ /\ todo[1].op = "add"
         /\ \A s2 \in Seq(Rules) : ToSet(s2) = ToSet(s) \cup {todo[1].rule} =>
              PhaseIn(Tail(todo), s2, b, f, W)
  BY <1>1, <1>2, <1>3, <1>4, PhaseStep
<1>6. c = todo[1]
  BY DEF todo
<1> HIDE DEF c
<1>7. Flush.op = "flush" /\ DropChain.op = "drop"
  BY DEF Flush, DropChain
<1>8. Applies(c)
  <2>0. \/ c.op = "delete" /\ c.rule \in ToSet(s)
        \/ c.op \in {"flush", "add"}
        \/ c.op = "drop" /\ Jump \notin ToSet(s)
    BY <1>5, <1>6, <1>7
  <2>1. c.op = "delete" => Contains(s, c.rule)
    BY <1>1, <2>0 DEF Contains, ToSet
  <2>2. c.op = "drop" => ~Contains(s, Jump)
    BY <1>1, <2>0 DEF Contains, ToSet
  <2> QED
    BY <2>1, <2>2 DEF Applies, s
<1>9. /\ NoFault
      /\ table' = [table EXCEPT ![Tool] = Applied(c)]
      /\ chain' = [chain EXCEPT ![Tool] = @ /\ c.op # "drop"]
      /\ job' = [job EXCEPT !.todo = Tail(job.todo)]
  <2>1. ~ (calm' = FALSE)
    OBVIOUS
  <2> QED
    BY <1>8, <2>1, RunStep DEF c
<1>10. table'[Tool] = Applied(c) /\ chain'[Tool] = (chain[Tool] /\ c.op # "drop")
  BY <1>1, <1>9 DEF TypeOK
<1> DEFINE b2 == job.family = "hy2" /\ chain'[Tool]
<1>11. PhaseIn(Tail(todo), Applied(c), b2, f, W)
  <2>1. Applied(c) \in Seq(Rules)
    BY <1>1, <1>8, AppliedTypes DEF s
  <2>2. CASE c.op = "delete" /\ PhaseIn(Tail(todo), RemoveFirst(s, c.rule), b, f, W)
    <3>1. Applied(c) = RemoveFirst(s, c.rule)
      BY <2>2 DEF Applied, s
    <3>2. b2 = b
      BY <1>3, <1>10, <2>2 DEF b
    <3> QED
      BY <2>2, <3>1, <3>2
  <2>3. CASE c = Flush /\ PhaseIn(Tail(todo), s, b, f, W)
    <3>1. Applied(c) = s
      BY <1>7, <2>3 DEF Applied, s
    <3>2. b2 = b
      BY <1>3, <1>7, <1>10, <2>3 DEF b
    <3> QED
      BY <2>3, <3>1, <3>2
  <2>4. CASE c = DropChain /\ PhaseIn(Tail(todo), s, FALSE, f, W)
    <3>1. Applied(c) = s
      BY <1>7, <2>4 DEF Applied, s
    <3>2. b2 = FALSE
      BY <1>3, <1>7, <1>10, <2>4
    <3> QED
      BY <2>4, <3>1, <3>2
  <2>5. CASE /\ c.op = "add"
             /\ \A s2 \in Seq(Rules) : ToSet(s2) = ToSet(s) \cup {c.rule} =>
                  PhaseIn(Tail(todo), s2, b, f, W)
    <3>1. ToSet(Applied(c)) = ToSet(s) \cup {c.rule}
      BY <1>1, <1>8, <2>5, AppliedElements DEF s
    <3>2. b2 = b
      BY <1>3, <1>10, <2>5 DEF b
    <3> QED
      BY <2>1, <2>5, <3>1, <3>2
  <2> HIDE DEF b2
  <2> QED
    BY <1>5, <1>6, <2>2, <2>3, <2>4, <2>5
<1> QED
  BY <1>8, <1>9, <1>10, <1>11 DEF c, todo, f, W

\* The other tools, and Hysteria2 while Mieru is repaired, stay settled.
LEMMA CalmRunProgress ==
    ASSUME TypeOK, CommandsOwn, CalmProgress, RunCommand, calm'
    PROVE  CalmProgress'
<1> DEFINE c == job.todo[1]
<1>1. /\ job \in WorkJobs /\ Tool \in ToSet(Tools) /\ table[Tool] \in Seq(Rules)
      /\ job.state = "run" /\ c \in CommandSet /\ 1 \in DOMAIN job.todo /\ plan' = plan
  BY RunStep
<1>2. /\ Applies(c)
      /\ table' = [table EXCEPT ![Tool] = Applied(c)]
      /\ chain' = [chain EXCEPT ![Tool] = @ /\ c.op # "drop"]
      /\ job' = [job EXCEPT !.todo = Tail(job.todo)]
      /\ PhaseIn(Tail(job.todo), table'[Tool], job.family = "hy2" /\ chain'[Tool],
                 job.family, Wanted)
  BY CalmRun
<1>3. /\ job'.mode = job.mode /\ job'.family = job.family /\ job'.tool = job.tool
      /\ job'.state = job.state /\ job'.todo = Tail(job.todo)
  BY <1>1, <1>2 DEF WorkJobs
<1>4. Wanted' = Wanted /\ Tool' = Tool /\ \A f : Expected(f)' = Expected(f)
  BY <1>1, <1>3 DEF Wanted, Expected, Tool
<1>5. ASSUME NEW t \in ToSet(Tools), NEW f, NEW w, Settled(t, f, w),
             t # Tool \/ (f = "hy2" /\ job.family = "mieru")
      PROVE  Settled(t, f, w)'
  <2>1. Listed(t, f)' = Listed(t, f)
    <3>1. CASE t # Tool
      <4>1. table'[t] = table[t]
        BY <1>2, <3>1 DEF TypeOK
      <4> QED
        BY <4>1 DEF Listed
    <3>2. CASE t = Tool /\ f = "hy2" /\ job.family = "mieru"
      <4>1. c.op \in {"delete", "add"} => c.rule.tag = "mieru"
        BY <1>1, <3>2 DEF CommandsOwn, Managed
      <4>2. c.op \in {"delete", "add"} => c.rule \notin ManagedRules("hy2")
        BY <4>1 DEF ManagedRules, Managed
      <4> HIDE DEF c
      <4>3. Among(Applied(c), ManagedRules("hy2")) = Among(table[Tool], ManagedRules("hy2"))
        BY <1>1, <1>2, <4>2, AppliedOthers
      <4>4. table'[Tool] = Applied(c)
        BY <1>1, <1>2 DEF TypeOK
      <4> QED
        BY <3>2, <4>3, <4>4 DEF Listed
    <3> QED
      BY <1>5, <3>1, <3>2
  <2>2. chain'[t] => chain[t]
    BY <1>1, <1>2 DEF TypeOK
  <2> QED
    BY <1>5, <2>1, <2>2 DEF Settled
<1>6. ASSUME NEW j \in 1..(job.tool - 1)
      PROVE  Settled(Tools[j], job.family, Wanted)'
  <2>1. j \in 1..Len(Tools) /\ job.tool \in 1..Len(Tools) /\ j # job.tool
    BY <1>1, ToolFacts DEF WorkJobs
  <2>2. Tools[j] \in ToSet(Tools) /\ Tools[j] # Tool
    BY <2>1, ToolFacts DEF Tool
  <2>3. Settled(Tools[j], job.family, Wanted)
    BY DEF CalmProgress
  <2>4. PICK w, f : w = Wanted /\ f = job.family
    OBVIOUS
  <2>5. Settled(Tools[j], f, w)'
    BY <1>5, <2>2, <2>3, <2>4
  <2>6. (Wanted)' = w /\ (job.family)' = f
    BY <1>3, <1>4, <2>4
  <2> QED
    BY <2>5, <2>6 DEF Settled, Listed
<1>7. ASSUME job.family = "mieru", NEW t \in ToSet(Tools)
      PROVE  Settled(t, "hy2", Expected("hy2"))'
  <2>0. PICK w : w = Expected("hy2")
    OBVIOUS
  <2>1. Settled(t, "hy2", w)
    BY <1>7, <2>0 DEF CalmProgress
  <2>2. (Expected("hy2"))' = w
    BY <1>4, <2>0
  <2>3. Settled(t, "hy2", w)'
    BY <1>5, <1>7, <2>1
  <2> QED
    BY <2>2, <2>3 DEF Settled, Listed
<1>8. PhaseIn(job.todo, table[Tool], job.family = "hy2" /\ chain[Tool], job.family, Wanted)'
  BY <1>2, <1>3, <1>4
<1> QED
  BY <1>3, <1>6, <1>7, <1>8 DEF CalmProgress

\* A tool is done with: the work goes on at the next one, or the rules of every tool
\* are what they should be.
LEMMA CalmFollowing ==
    ASSUME TypeOK, job \in WorkJobs, CalmProgress, Settled(Tool, job.family, Wanted),
           job' = Following, UNCHANGED <<plan, table, chain>>
    PROVE  CalmInv' /\ RepairedIsPlan'
<1>1. /\ job.mode \in {"repair", "cleanup"} /\ job.family \in {"hy2", "mieru"}
      /\ job.tool \in 1..Len(Tools) /\ Len(Tools) \in Nat
  BY ToolFacts DEF WorkJobs, Families
<1>2. \A j \in 1..job.tool : Settled(Tools[j], job.family, Wanted)
  <2>1. \A j \in 1..job.tool : j \in 1..(job.tool - 1) \/ j = job.tool
    BY <1>1
  <2> QED
    BY <2>1 DEF CalmProgress, Tool
<1>3. /\ job.mode = "cleanup" => job.family = "hy2"
      /\ job.family = "mieru" => \A t \in ToSet(Tools) : Settled(t, "hy2", Expected("hy2"))
  BY DEF CalmProgress
<1>4. \A t, f, w : Settled(t, f, w)' = Settled(t, f, w)
  BY DEF Settled, Listed
<1>5. \A f : Expected(f)' = Expected(f)
  BY DEF Expected
<1>6. CASE job.tool < Len(Tools)
  <2>1. job' = At(job.mode, job.family, job.tool + 1, "inspect", <<>>)
    BY <1>6 DEF Following
  <2>2. /\ job'.mode = job.mode /\ job'.family = job.family /\ job'.tool = job.tool + 1
        /\ job'.state = "inspect"
    BY <2>1 DEF At
  <2>3. Wanted' = Wanted
    BY <1>5, <2>2 DEF Wanted
  <2>4. 1..(job'.tool - 1) = 1..job.tool
    BY <1>1, <2>2
  <2>5. \A j \in 1..(job'.tool - 1) : Settled(Tools[j], job.family, Wanted)'
    BY <1>2, <2>2, <2>3, <2>4 DEF Settled, Listed
  <2>6. job'.family = "mieru" => \A t \in ToSet(Tools) : Settled(t, "hy2", Expected("hy2"))'
    BY <1>3, <1>5, <2>2 DEF Settled, Listed
  <2>7. CalmProgress'
    BY <1>3, <2>2, <2>5, <2>6 DEF CalmProgress
  <2>8. job' # Idle /\ job' # Stopped
    BY <2>2 DEF Idle, Stopped
  <2> QED
    BY <2>7, <2>8 DEF CalmInv, RepairedIsPlan
<1>7. CASE ~ (job.tool < Len(Tools))
  <2>1. job.tool = Len(Tools)
    BY <1>1, <1>7
  <2>2. \A t \in ToSet(Tools) : Settled(t, job.family, Wanted)
    BY <1>2, <2>1, ToolFacts
  <2>3. CASE job.mode = "cleanup"
    <3>1. job' = Stopped /\ Stopped # Idle
      BY <1>7, <2>3 DEF Following, Stopped, Idle
    <3>2. ASSUME NEW t \in ToSet(Tools)
          PROVE  Listed(t, "hy2") = <<>> /\ ~chain[t]
      <4>1. Settled(t, "hy2", <<>>)
        BY <1>3, <2>2, <2>3 DEF Wanted
      <4>2. ToSet(Listed(t, "hy2")) = {} /\ ~chain[t]
        BY <4>1 DEF Settled, ToSet
      <4>3. Listed(t, "hy2") \in Seq(Rules)
        BY AmongElements DEF Listed, TypeOK
      <4> DEFINE l == Listed(t, "hy2")
      <4> HIDE DEF l
      <4>4. l # <<>> => 1 \in DOMAIN l
        BY <4>3 DEF l
      <4> QED
        BY <4>2, <4>4 DEF ToSet, l
    <3>3. \A t \in ToSet(Tools) : Listed(t, "hy2")' = <<>> /\ ~chain'[t]
      BY <3>2 DEF Listed
    <3> QED
      BY <3>1, <3>3 DEF CalmInv, RepairedIsPlan
  <2>4. CASE job.mode = "repair" /\ job.family = "hy2"
    <3>1. job' = At("repair", "mieru", 1, "inspect", <<>>)
      BY <1>7, <2>4 DEF Following
    <3>2. job'.mode = "repair" /\ job'.family = "mieru" /\ job'.tool = 1 /\ job'.state = "inspect"
      BY <3>1 DEF At
    <3>3. \A t \in ToSet(Tools) : Settled(t, "hy2", Expected("hy2"))'
      BY <2>2, <2>4, <1>5 DEF Settled, Listed, Wanted
    <3>4. 1..(job'.tool - 1) = {}
      BY <3>2
    <3>5. CalmProgress'
      BY <3>2, <3>3, <3>4 DEF CalmProgress
    <3>6. job' # Idle /\ job' # Stopped
      BY <3>2 DEF Idle, Stopped
    <3> QED
      BY <3>5, <3>6 DEF CalmInv, RepairedIsPlan
  <2>5. CASE job.mode = "repair" /\ job.family = "mieru"
    <3>1. job' = Idle /\ Idle # Stopped
      BY <1>7, <2>5 DEF Following, Stopped, Idle
    <3>2. ASSUME NEW t \in ToSet(Tools)
          PROVE  /\ ToSet(Listed(t, "hy2")) = ToSet(Expected("hy2"))
                 /\ ToSet(Listed(t, "mieru")) = ToSet(Expected("mieru"))
                 /\ ~chain[t]
      BY <1>3, <2>2, <2>5 DEF Settled, Wanted
    <3>3. \A t \in ToSet(Tools) : /\ ToSet(Listed(t, "hy2"))' = ToSet(Expected("hy2"))'
                                  /\ ToSet(Listed(t, "mieru"))' = ToSet(Expected("mieru"))'
                                  /\ ~chain'[t]
      BY <3>2 DEF Listed, Expected
    <3> QED
      BY <3>1, <3>3 DEF CalmInv, RepairedIsPlan, Families
  <2> QED
    BY <1>1, <2>3, <2>4, <2>5
<1> QED
  BY <1>6, <1>7

\* The commands of an undisturbed listing are the start of an undisturbed repair.
LEMMA CalmPrepare ==
    ASSUME TypeOK, CalmProgress, Prepare, calm'
    PROVE  CalmProgress'
<1> DEFINE f == job.family
           t == Tool
           nat == Among(table[t], ManagedRules(f) \cap ChainRules("PREROUTING"))
           input == Among(table[t], ManagedRules(f) \cap ChainRules("INPUT"))
           b == job.family = "hy2" /\ chain[Tool]
           C == Commands(nat, input, b, Wanted)
<1>1. job \in WorkJobs /\ table[t] \in Seq(Rules)
  BY PrepareStep
<1>2. UNCHANGED <<plan, table, chain>>
  BY DEF Prepare
<1> HIDE DEF f, t
<1>3. /\ OfChain(Listed(t, f), "PREROUTING") = nat
      /\ OfChain(Listed(t, f), "INPUT") = input
  BY <1>1, ListedTypes
<1>4. job' = [job EXCEPT !.state = "run", !.todo = C]
  <2>1. ~ (calm' = FALSE)
    OBVIOUS
  <2>2. job' = [job EXCEPT !.state = "run",
                  !.todo = Commands(OfChain(Listed(t, f), "PREROUTING"),
                                    OfChain(Listed(t, f), "INPUT"), b, Wanted)]
    BY <2>1, PrepareStep DEF t, f
  <2> QED
    BY <1>3, <2>2
<1> HIDE DEF C
<1>5. /\ job'.mode = job.mode /\ job'.family = job.family /\ job'.tool = job.tool
      /\ job'.state = "run" /\ job'.todo = C
  BY <1>1, <1>4 DEF WorkJobs
<1>6. Wanted' = Wanted /\ Tool' = Tool /\ Expected("hy2")' = Expected("hy2")
  BY <1>2, <1>5 DEF Wanted, Expected, Tool
<1>7. DeletingIn(C, table[Tool], b, job.family, Wanted)
  BY DEF DeletingIn, C, t, f
<1>8. PhaseIn(job.todo, table[Tool], job.family = "hy2" /\ chain[Tool], job.family, Wanted)'
  BY <1>2, <1>5, <1>6, <1>7 DEF PhaseIn
<1>9. job.family = "mieru" => \A u \in ToSet(Tools) : Settled(u, "hy2", Expected("hy2"))'
  BY <1>2, <1>6 DEF CalmProgress, Settled, Listed
<1>10. \A j \in 1..(job'.tool - 1) : Settled(Tools[j], job.family, Wanted)'
  BY <1>2, <1>5, <1>6 DEF CalmProgress, Settled, Listed
<1> QED
  BY <1>5, <1>8, <1>9, <1>10 DEF CalmProgress

LEMMA NextCalm ==
    ASSUME TypeOK, CommandsOwn, CalmInv, RepairedIsPlan, [Next]_vars
    PROVE  CalmInv' /\ RepairedIsPlan'
<1>1. CASE ~calm'
  BY <1>1 DEF CalmInv, RepairedIsPlan
<1>2. CASE calm' /\ (Tick \/ Stop)
  <2>1. /\ job'.mode \in {"repair", "cleanup"} /\ job'.family = "hy2" /\ job'.tool = 1
        /\ job'.state = "inspect"
    BY <1>2 DEF Tick, Stop, Begin, Fault, At
  <2>2. job' # Idle /\ job' # Stopped
    BY <2>1 DEF Idle, Stopped
  <2>3. 1..(job'.tool - 1) = {}
    BY <2>1
  <2>4. CalmProgress'
    BY <2>1, <2>3 DEF CalmProgress
  <2> QED
    BY <2>2, <2>4 DEF CalmInv, RepairedIsPlan
<1>3. CASE calm' /\ Inspect
  <2>1. job \in WorkJobs /\ job # Idle /\ job # Stopped
    BY <1>3, AtWork DEF Inspect, Working, TypeOK
  <2>2. /\ calm /\ UNCHANGED <<plan, table, chain>>
        /\ \/ job' = [job EXCEPT !.state = "prepare"]
           \/ /\ job.mode # "cleanup" /\ ~NeedsRepair(Tool, job.family)
              /\ job' = Following
    BY <1>3 DEF Inspect, Fault, NoFault
  <2>3. CalmProgress
    BY <2>1, <2>2 DEF CalmInv
  <2>4. CASE job' = [job EXCEPT !.state = "prepare"]
    <3>1. /\ job'.mode = job.mode /\ job'.family = job.family /\ job'.tool = job.tool
          /\ job'.state = "prepare"
      BY <2>1, <2>4 DEF WorkJobs
    <3>2. Wanted' = Wanted /\ Expected("hy2")' = Expected("hy2")
      BY <2>2, <3>1 DEF Wanted, Expected
    <3>3. job.family = "mieru" => \A u \in ToSet(Tools) : Settled(u, "hy2", Expected("hy2"))'
      BY <2>2, <2>3, <3>2 DEF CalmProgress, Settled, Listed
    <3>4. \A j \in 1..(job'.tool - 1) : Settled(Tools[j], job.family, Wanted)'
      BY <2>2, <2>3, <3>1, <3>2 DEF CalmProgress, Settled, Listed
    <3>5. CalmProgress'
      BY <2>3, <3>1, <3>3, <3>4 DEF CalmProgress
    <3>6. job' # Idle /\ job' # Stopped
      BY <3>1 DEF Idle, Stopped
    <3> QED
      BY <3>5, <3>6 DEF CalmInv, RepairedIsPlan
  <2>5. CASE job.mode # "cleanup" /\ ~NeedsRepair(Tool, job.family) /\ job' = Following
    <3>1. Settled(Tool, job.family, Wanted)
      BY <2>5 DEF NeedsRepair, Settled, Wanted
    <3> QED
      BY <2>1, <2>2, <2>3, <2>5, <3>1, CalmFollowing
  <2> QED
    BY <2>2, <2>4, <2>5
<1>4. CASE calm' /\ Prepare
  <2>1. job \in WorkJobs /\ job # Idle /\ job # Stopped
    BY <1>4, PrepareStep, AtWork DEF TypeOK
  <2>2. calm /\ job'.state = "run"
    BY <1>4, <2>1, PrepareStep DEF NoFault, WorkJobs
  <2>3. CalmProgress'
    BY <1>4, <2>1, <2>2, CalmPrepare DEF CalmInv
  <2> QED
    BY <2>2, <2>3 DEF CalmInv, RepairedIsPlan, Idle, Stopped
<1>5. CASE calm' /\ RunCommand
  <2>1. job \in WorkJobs /\ job # Idle /\ job # Stopped /\ job.state = "run"
    BY <1>5, RunStep, AtWork DEF TypeOK
  <2>2. calm
    BY <1>5 DEF RunCommand, Fault, NoFault
  <2>3. CalmProgress
    BY <2>1, <2>2 DEF CalmInv
  <2>4. CalmProgress'
    BY <1>5, <2>3, CalmRunProgress
  <2>5. job'.state = "run"
    BY <1>5, <2>1, <2>3, CalmRun DEF WorkJobs
  <2> QED
    BY <2>4, <2>5 DEF CalmInv, RepairedIsPlan, Idle, Stopped
<1>6. CASE calm' /\ Done
  <2>1. job \in WorkJobs /\ job # Idle /\ job # Stopped
    BY <1>6, AtWork DEF Done, Working, TypeOK
  <2>2. /\ job.state = "run" /\ job.todo = <<>> /\ job' = Following
        /\ calm /\ UNCHANGED <<plan, table, chain>>
    BY <1>6 DEF Done, Working
  <2>3. CalmProgress
    BY <2>1, <2>2 DEF CalmInv
  <2> DEFINE s == table[Tool]
             b == job.family = "hy2" /\ chain[Tool]
             f == job.family
             W == Wanted
  <2>4. s \in Seq(Rules) /\ b \in BOOLEAN
    BY <2>1, ToolFacts DEF WorkJobs, Tool, TypeOK
  <2>5. f \in Families /\ W \in Seq(Rules)
    BY <2>1, WantedTypes
  <2>6. PhaseIn(<<>>, s, b, f, W)
    BY <2>2, <2>3 DEF CalmProgress
  <2> HIDE DEF s, b, f, W
  <2>7. ToSet(Among(s, ManagedRules(f))) = ToSet(W) /\ ~b
    BY <2>4, <2>5, <2>6, PhaseDone
  <2>8. Settled(Tool, job.family, Wanted)
    BY <2>7 DEF Settled, Listed, s, b, f, W
  <2> QED
    BY <2>1, <2>2, <2>3, <2>8, CalmFollowing
<1>7. CASE UNCHANGED vars
  <2>1. CalmInv'
    BY <1>7 DEF vars, CalmInv, CalmProgress, Settled, Listed, Wanted, Expected, Tool
  <2>2. RepairedIsPlan'
    BY <1>7 DEF vars, RepairedIsPlan, Listed, Expected
  <2> QED
    BY <2>1, <2>2
<1>8. ~calm' \/ Tick \/ Stop \/ Inspect \/ Prepare \/ RunCommand \/ Done \/ UNCHANGED vars
  BY DEF Next, Work, Reload, Start, OtherProgram, Crash, Fault
<1> QED
  BY <1>1, <1>2, <1>3, <1>4, <1>5, <1>6, <1>7, <1>8

\* A repair that nothing disturbed leaves exactly the planned rules of both families
\* in every tool, and an undisturbed cleanup leaves no Hysteria2 rule and no chain of
\* an old release, whatever earlier repairs, faults and crashes left behind.
THEOREM RepairReachesPlan == Spec => []RepairedIsPlan
<1>1. Init => RepairInv
  <2>1. Init => CommandsOwn /\ CalmInv /\ RepairedIsPlan
    BY DEF Init, CommandsOwn, CalmInv, RepairedIsPlan, Idle
  <2> QED
    BY <2>1, InitTypes DEF RepairInv
<1>2. RepairInv /\ [Next]_vars => RepairInv'
  BY NextTypes, NextOwn, NextCalm DEF RepairInv
<1>3. RepairInv => RepairedIsPlan
  BY DEF RepairInv
<1> QED
  BY <1>1, <1>2, <1>3, PTL DEF Spec

===============================================================================
