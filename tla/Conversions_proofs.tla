-------------------------- MODULE Conversions_proofs ---------------------------
(***************************************************************************)
(* What clean_snapshot and normalise_domain make of every snapshot and of  *)
(* every host.  Both are recursive functions: that their equations have a  *)
(* solution, and what they compute, is shown by induction over a set of    *)
(* numbers (UpToInduction).                                                *)
(***************************************************************************)
EXTENDS Cleaning, Domains, TLAPS, WellFoundedInduction

NatLess == {pair \in Nat \X Nat : pair[1] < pair[2]}

LEMMA NatLessWellFounded == IsWellFoundedOn(NatLess, Nat)
  BY NatLessThanWellFounded DEF OpToRel, NatLess

(* Induction over the numbers up to n, for a set of them. *)
LEMMA UpToInduction ==
    ASSUME NEW n \in Nat, NEW G, 0 \in G, \A m \in 1..n : m - 1 \in G => m \in G
    PROVE  \A m \in 0..n : m \in G
  <1> DEFINE T == {m \in 0..n : m \notin G}
  <1> SUFFICES ASSUME T # {}
               PROVE  FALSE
    OBVIOUS
  <1>1. PICK m \in T : \A y \in T : <<y, m>> \notin NatLess
    <2>1. T \subseteq Nat
      OBVIOUS
    <2> HIDE DEF T
    <2> QED
      BY <2>1, NatLessWellFounded, WFMin
  <1>2. m \in 1..n /\ m - 1 \in Nat /\ m - 1 < m /\ m - 1 \in 0..n
    OBVIOUS
  <1>3. <<m - 1, m>> \in NatLess
    BY <1>2 DEF NatLess
  <1>4. m - 1 \in G
    BY <1>1, <1>2, <1>3
  <1> QED
    BY <1>2, <1>4

(* The equation of the recursive function: it has a solution. *)
FilterStep(s, x, f, n) ==
    IF n = 0 THEN <<>> ELSE IF s[n] = x THEN f[n - 1] ELSE Append(f[n - 1], s[n])

Filters(s, x, f, n) == f = [i \in 0..n |-> FilterStep(s, x, f, i)]

LEMMA WithoutExists ==
    ASSUME NEW s, NEW x, NEW n \in Nat
    PROVE  \E f : Filters(s, x, f, n)
  <1> DEFINE G == {m \in Nat : \E f : Filters(s, x, f, m)}
  <1>1. 0 \in G
    <2>1. Filters(s, x, [i \in 0..0 |-> <<>>], 0)
      BY DEF Filters, FilterStep
    <2> QED
      BY <2>1
  <1>2. ASSUME NEW m \in 1..n, m - 1 \in G
        PROVE  m \in G
    <2>1. PICK f : Filters(s, x, f, m - 1)
      BY <1>2
    <2> DEFINE g == [i \in 0..m |-> IF i = m THEN FilterStep(s, x, f, m) ELSE f[i]]
    <2>2. \A i \in 0..m : FilterStep(s, x, g, i) = FilterStep(s, x, f, i)
      BY DEF FilterStep
    <2>3. \A i \in 0..(m - 1) : f[i] = FilterStep(s, x, f, i)
      BY <2>1 DEF Filters
    <2>4. \A i \in 0..m : g[i] = FilterStep(s, x, g, i)
      <3>1. \A i \in 0..m : i # m => i \in 0..(m - 1)
        OBVIOUS
      <3> QED
        BY <2>2, <2>3, <3>1
    <2>5. Filters(s, x, g, m)
      <3> HIDE DEF FilterStep
      <3> QED
        BY <2>4 DEF Filters
    <2> QED
      BY <2>5
  <1>3. n \in G
    <2> HIDE DEF G
    <2> QED
      BY <1>1, <1>2, UpToInduction
  <1> QED
    BY <1>3

LEMMA WithoutDef ==
    ASSUME NEW s, NEW x, Len(s) \in Nat
    PROVE  Filters(s, x, WithoutUpTo(s, x), Len(s))
  <1>1. \E f : Filters(s, x, f, Len(s))
    BY WithoutExists
  <1>2. WithoutUpTo(s, x) = CHOOSE f : Filters(s, x, f, Len(s))
    BY DEF WithoutUpTo, Filters, FilterStep
  <1> QED
    BY <1>1, <1>2

LEMMA WithoutSteps ==
    ASSUME NEW S, NEW x, NEW s \in Seq(S)
    PROVE  /\ WithoutUpTo(s, x)[0] = <<>>
           /\ \A n \in 1..Len(s) :
                  WithoutUpTo(s, x)[n] = IF s[n] = x THEN WithoutUpTo(s, x)[n - 1]
                                       ELSE Append(WithoutUpTo(s, x)[n - 1], s[n])
  <1>1. Len(s) \in Nat
    OBVIOUS
  <1>2. WithoutUpTo(s, x) = [i \in 0..Len(s) |-> FilterStep(s, x, WithoutUpTo(s, x), i)]
    BY <1>1, WithoutDef DEF Filters
  <1>3. \A n \in 0..Len(s) : WithoutUpTo(s, x)[n] = FilterStep(s, x, WithoutUpTo(s, x), n)
    BY <1>2
  <1>4. WithoutUpTo(s, x)[0] = FilterStep(s, x, WithoutUpTo(s, x), 0)
    BY <1>1, <1>3
  <1>5. \A n \in 1..Len(s) : n # 0 /\ WithoutUpTo(s, x)[n] = FilterStep(s, x, WithoutUpTo(s, x), n)
    BY <1>1, <1>3
  <1> QED
    BY <1>4, <1>5 DEF FilterStep

(* What is kept are items of the list, and none is x. *)
LEMMA WithoutUpToType ==
    ASSUME NEW S, NEW x, NEW s \in Seq(S)
    PROVE  \A n \in 0..Len(s) : WithoutUpTo(s, x)[n] \in Seq(S \ {x})
  <1> DEFINE F == WithoutUpTo(s, x)
             G == {n \in Nat : F[n] \in Seq(S \ {x})}
  <1>1. /\ Len(s) \in Nat /\ F[0] = <<>>
        /\ \A n \in 1..Len(s) : F[n] = IF s[n] = x THEN F[n - 1] ELSE Append(F[n - 1], s[n])
    BY WithoutSteps
  <1> HIDE DEF F
  <1>2. F[0] \in Seq(S \ {x})
    BY <1>1
  <1>3. ASSUME NEW n \in 1..Len(s), F[n - 1] \in Seq(S \ {x})
        PROVE  F[n] \in Seq(S \ {x})
    <2>1. s[n] \in S
      OBVIOUS
    <2>2. CASE s[n] = x
      BY <1>1, <1>3, <2>2
    <2>3. CASE s[n] # x
      <3> DEFINE others == S \ {x}
      <3>1. s[n] \in others /\ F[n - 1] \in Seq(others) /\ F[n] = Append(F[n - 1], s[n])
        BY <1>1, <1>3, <2>1, <2>3
      <3> HIDE DEF others
      <3>2. F[n] \in Seq(others)
        BY <3>1
      <3> QED
        BY <3>2 DEF others
    <2> QED
      BY <2>2, <2>3
  <1>4. 0 \in G /\ \A n \in 1..Len(s) : n - 1 \in G => n \in G
    <2> DEFINE Good == Seq(S \ {x})
    <2> HIDE DEF Good
    <2> QED
      BY <1>2, <1>3 DEF Good
  <1>5. \A n \in 0..Len(s) : n \in G
    <2> DEFINE m == Len(s)
    <2>1. m \in Nat
      BY <1>1
    <2>2. \A n \in 1..m : n - 1 \in G => n \in G
      BY <1>4
    <2> HIDE DEF G, m
    <2>3. \A n \in 0..m : n \in G
      BY <1>4, <2>1, <2>2, UpToInduction
    <2> QED
      BY <2>3 DEF m
  <1> QED
    BY <1>5 DEF F

LEMMA WithoutType ==
    ASSUME NEW S, NEW x, NEW s \in Seq(S)
    PROVE  Without(s, x) \in Seq(S \ {x})
  <1>1. Len(s) \in 0..Len(s)
    OBVIOUS
  <1> QED
    BY <1>1, WithoutUpToType DEF Without

(* A list without x stays as it is. *)
LEMMA WithoutKeeps ==
    ASSUME NEW S, NEW x, NEW s \in Seq(S \ {x})
    PROVE  Without(s, x) = s
  <1> DEFINE F == WithoutUpTo(s, x)
             Cut(n) == SubSeq(s, 1, n)
             G == {n \in Nat : F[n] = Cut(n)}
  <1>1. /\ Len(s) \in Nat /\ F[0] = <<>>
        /\ \A n \in 1..Len(s) : F[n] = IF s[n] = x THEN F[n - 1] ELSE Append(F[n - 1], s[n])
    BY WithoutSteps
  <1> HIDE DEF F
  <1>2. Cut(0) = <<>>
    OBVIOUS
  <1>3. \A n \in 1..Len(s) : Append(Cut(n - 1), s[n]) = Cut(n) /\ s[n] # x
    OBVIOUS
  <1>4. 0 \in G /\ \A n \in 1..Len(s) : n - 1 \in G => n \in G
    <2>1. 0 \in G
      BY <1>1, <1>2
    <2>2. ASSUME NEW n \in 1..Len(s), F[n - 1] = Cut(n - 1)
          PROVE  F[n] = Cut(n)
      BY <1>1, <1>3, <2>2
    <2> HIDE DEF Cut
    <2> QED
      BY <2>1, <2>2
  <1>5. Len(s) \in G
    <2> DEFINE m == Len(s)
    <2>1. m \in Nat /\ m \in 0..m
      BY <1>1
    <2>2. \A n \in 1..m : n - 1 \in G => n \in G
      BY <1>4
    <2> HIDE DEF G, m
    <2>3. \A n \in 0..m : n \in G
      BY <1>4, <2>1, <2>2, UpToInduction
    <2> QED
      BY <2>1, <2>3 DEF m
  <1>6. Cut(Len(s)) = s
    OBVIOUS
  <1> QED
    BY <1>5, <1>6 DEF F, Without

(* Any x at the end of a list do not matter. *)
LEMMA WithoutCut ==
    ASSUME NEW S, NEW x, NEW s \in Seq(S), NEW k \in 0..Len(s), \A i \in (k + 1)..Len(s) : s[i] = x
    PROVE  Without(SubSeq(s, 1, k), x) = Without(s, x)
  <1> DEFINE cut == SubSeq(s, 1, k)
             C == WithoutUpTo(cut, x)
             F == WithoutUpTo(s, x)
             G == {n \in 0..k : C[n] = F[n]}
             R == {n \in 0..Len(s) : n >= k => F[n] = F[k]}
  <1>0. cut \in Seq(S) /\ Len(cut) = k /\ \A i \in 1..k : cut[i] = s[i]
    OBVIOUS
  <1> HIDE DEF cut
  <1>1. /\ C[0] = <<>> /\ F[0] = <<>>
        /\ \A n \in 1..k : C[n] = IF s[n] = x THEN C[n - 1] ELSE Append(C[n - 1], s[n])
        /\ \A n \in 1..Len(s) : F[n] = IF s[n] = x THEN F[n - 1] ELSE Append(F[n - 1], s[n])
    BY <1>0, WithoutSteps
  <1> HIDE DEF C, F
  <1>2. \A n \in 0..k : n \in G
    <2>1. 0 \in G
      BY <1>1
    <2>2. ASSUME NEW n \in 1..k, n - 1 \in G
          PROVE  n \in G
      BY <1>1, <2>2
    <2>3. k \in Nat
      OBVIOUS
    <2> HIDE DEF G
    <2> QED
      BY <2>1, <2>2, <2>3, UpToInduction
  <1>3. \A n \in 0..Len(s) : n \in R
    <2>1. 0 \in R
      OBVIOUS
    <2>2. ASSUME NEW n \in 1..Len(s), n - 1 \in R
          PROVE  n \in R
      <3>1. CASE n > k
        <4>1. F[n] = F[n - 1] /\ n - 1 >= k
          BY <1>1, <3>1
        <4> QED
          BY <2>2, <4>1
      <3>2. CASE ~(n > k)
        BY <3>2
      <3> QED
        BY <3>1, <3>2
    <2>3. Len(s) \in Nat
      OBVIOUS
    <2> HIDE DEF R
    <2> QED
      BY <2>1, <2>2, <2>3, UpToInduction
  <1>4. C[k] = F[k] /\ F[Len(s)] = F[k]
    BY <1>2, <1>3
  <1> QED
    BY <1>0, <1>4 DEF C, F, Without, cut

LEMMA AppendPairs ==
    ASSUME NEW S, NEW R, NEW p \in Seq(S), NEW q \in Seq(S), Len(p) = Len(q),
           \A i \in 1..Len(p) : <<p[i], q[i]>> \in R,
           NEW u \in S, NEW v \in S, <<u, v>> \in R
    PROVE  /\ Len(Append(p, u)) = Len(Append(q, v))
           /\ \A i \in 1..Len(Append(p, u)) : <<Append(p, u)[i], Append(q, v)[i]>> \in R
  <1> DEFINE pu == Append(p, u)
             qv == Append(q, v)
             n == Len(p)
  <1>1. /\ n \in Nat /\ Len(pu) = n + 1 /\ Len(qv) = n + 1
        /\ pu[n + 1] = u /\ qv[n + 1] = v
        /\ \A i \in 1..n : pu[i] = p[i] /\ qv[i] = q[i]
    OBVIOUS
  <1> HIDE DEF pu, qv, n
  <1>2. \A i \in 1..n : <<pu[i], qv[i]>> \in R
    BY <1>1 DEF n
  <1>3. \A i \in 1..(n + 1) : i \in 1..n \/ i = n + 1
    BY <1>1
  <1>4. \A i \in 1..(n + 1) : <<pu[i], qv[i]>> \in R
    BY <1>1, <1>2, <1>3
  <1> QED
    BY <1>1, <1>4 DEF pu, qv

(* Two lists that have x at the same places keep the same places, in pairs. *)
LEMMA WithoutPairs ==
    ASSUME NEW S, NEW x, NEW a \in Seq(S), NEW b \in Seq(S), Len(a) = Len(b), NEW R,
           \A i \in 1..Len(a) : (a[i] = x <=> b[i] = x) /\ (a[i] # x => <<a[i], b[i]>> \in R)
    PROVE  /\ Len(Without(a, x)) = Len(Without(b, x))
           /\ \A i \in 1..Len(Without(a, x)) : <<Without(a, x)[i], Without(b, x)[i]>> \in R
  <1> DEFINE A == WithoutUpTo(a, x)
             B == WithoutUpTo(b, x)
             len == Len(a)
             Paired(p, q) == Len(p) = Len(q) /\ \A i \in 1..Len(p) : <<p[i], q[i]>> \in R
             G == {n \in 0..len : Paired(A[n], B[n])}
  <1>1. /\ len \in Nat /\ A[0] = <<>> /\ B[0] = <<>>
        /\ \A n \in 1..len : A[n] = IF a[n] = x THEN A[n - 1] ELSE Append(A[n - 1], a[n])
        /\ \A n \in 1..len : B[n] = IF b[n] = x THEN B[n - 1] ELSE Append(B[n - 1], b[n])
    BY WithoutSteps
  <1>2. \A n \in 0..len : A[n] \in Seq(S) /\ B[n] \in Seq(S)
    <2>1. \A n \in 0..len : A[n] \in Seq(S \ {x}) /\ B[n] \in Seq(S \ {x})
      BY WithoutUpToType
    <2> HIDE DEF A, B, len
    <2> QED
      BY <2>1
  <1>3. Without(a, x) = A[len] /\ Without(b, x) = B[len]
    BY DEF Without
  <1> HIDE DEF A, B
  <1>4. 0 \in G
    BY <1>1
  <1>5. ASSUME NEW n \in 1..len, n - 1 \in G
        PROVE  n \in G
    <2>0. n \in 0..len /\ n - 1 \in 0..len /\ Paired(A[n - 1], B[n - 1])
      BY <1>1, <1>5
    <2>1. CASE a[n] = x
      <3>1. A[n] = A[n - 1] /\ B[n] = B[n - 1]
        BY <1>1, <2>1
      <3> HIDE DEF Paired
      <3> QED
        BY <2>0, <3>1
    <2>2. CASE a[n] # x
      <3>1. /\ A[n] = Append(A[n - 1], a[n]) /\ B[n] = Append(B[n - 1], b[n])
            /\ <<a[n], b[n]>> \in R
        BY <1>1, <2>2
      <3>2. A[n - 1] \in Seq(S) /\ B[n - 1] \in Seq(S) /\ Paired(A[n - 1], B[n - 1])
        BY <1>2, <2>0
      <3>3. a[n] \in S /\ b[n] \in S
        OBVIOUS
      <3>4. Paired(A[n], B[n])
        <4>1. Paired(Append(A[n - 1], a[n]), Append(B[n - 1], b[n]))
          BY <3>1, <3>2, <3>3, AppendPairs
        <4> HIDE DEF Paired
        <4> QED
          BY ONLY <3>1, <4>1
      <3> QED
        BY <2>0, <3>4
    <2> QED
      BY <2>1, <2>2
  <1>6. len \in G
    <2>1. len \in 0..len
      BY <1>1
    <2> HIDE DEF G, len
    <2> QED
      BY <1>1, <1>4, <1>5, <2>1, UpToInduction
  <1> QED
    BY <1>3, <1>6

-------------------------------------------------------------------------------
(* Lower case and trailing dots. *)

(* The labels lower() leaves as they are. *)
Lowered == {l \in Labels : Lower[l] = l}

LEMMA LowerHostType ==
    ASSUME NEW h \in Seq(Labels), h # <<>>
    PROVE  LowerHost(h) \in Seq(Lowered) /\ LowerHost(h) # <<>>
  <1>1. \A i \in DOMAIN h : Lower[h[i]] \in Lowered
    BY DomainConstants DEF Lowered
  <1>2. LowerHost(h) \in [1..Len(h) -> Lowered] /\ Len(h) \in Nat /\ Len(h) # 0
    BY <1>1 DEF LowerHost
  <1> QED
    BY <1>2

LEMMA LowerHostFixed ==
    ASSUME NEW h \in Seq(Lowered)
    PROVE  LowerHost(h) = h /\ h \in Seq(Labels)
  <1>1. \A i \in DOMAIN h : Lower[h[i]] = h[i]
    BY DEF Lowered
  <1>2. LowerHost(h) = h
    BY <1>1 DEF LowerHost
  <1>3. h \in Seq(Labels)
    BY DEF Lowered
  <1> QED
    BY <1>2, <1>3

LEMMA GreatestExists ==
    ASSUME NEW n \in Nat, NEW S, S \subseteq 1..n, S # {}
    PROVE  \E i \in S : \A j \in S : j <= i
  <1> DEFINE G == {m \in Nat : (\E i \in S : i <= m) => \E i \in S : i <= m /\ \A j \in S : j <= m => j <= i}
  <1>1. 0 \in G
    OBVIOUS
  <1>2. ASSUME NEW m \in 1..n, m - 1 \in G
        PROVE  m \in G
    <2>1. CASE m \in S
      BY <2>1
    <2>2. CASE m \notin S
      <3>1. \A i \in S : i <= m <=> i <= m - 1
        BY <2>2
      <3> QED
        BY <1>2, <3>1
    <2> QED
      BY <2>1, <2>2
  <1>3. n \in G
    <2>1. n \in 0..n
      OBVIOUS
    <2> HIDE DEF G
    <2> QED
      BY <1>1, <1>2, <2>1, UpToInduction
  <1>4. \E i \in S : i <= n
    <2>1. PICK i \in S : i \in 1..n
      OBVIOUS
    <2>2. i <= n
      BY <2>1
    <2> QED
      BY <2>2
  <1>5. PICK i \in S : \A j \in S : j <= n => j <= i
    BY <1>3, <1>4
  <1>6. \A j \in S : j <= n
    OBVIOUS
  <1> QED
    BY <1>5, <1>6

(* A host is cut after its last label that is not empty. *)
LEMMA StripDotsCuts ==
    ASSUME NEW S, NEW h \in Seq(S), \E i \in DOMAIN h : h[i] # Blank
    PROVE  \E k \in 1..Len(h) :
               /\ StripDots(h) = SubSeq(h, 1, k) /\ h[k] # Blank
               /\ \A i \in (k + 1)..Len(h) : h[i] = Blank
  <1> DEFINE named == {i \in DOMAIN h : h[i] # Blank}
             k == CHOOSE i \in named : \A j \in named : j <= i
  <1>1. named \subseteq 1..Len(h) /\ named # {} /\ Len(h) \in Nat
    OBVIOUS
  <1>2. k \in named /\ \A j \in named : j <= k
    <2> HIDE DEF named
    <2>1. \E i \in named : \A j \in named : j <= i
      BY <1>1, GreatestExists
    <2> QED
      BY <2>1
  <1>3. StripDots(h) = SubSeq(h, 1, k)
    BY <1>1 DEF StripDots
  <1> HIDE DEF k
  <1>4. k \in 1..Len(h) /\ h[k] # Blank /\ \A i \in (k + 1)..Len(h) : h[i] = Blank
    BY <1>2
  <1> QED
    BY <1>3, <1>4

LEMMA StripDotsFixed ==
    ASSUME NEW S, NEW h \in Seq(S), h # <<>>, h[Len(h)] # Blank
    PROVE  StripDots(h) = h
  <1>1. PICK k \in 1..Len(h) :
            /\ StripDots(h) = SubSeq(h, 1, k) /\ \A i \in (k + 1)..Len(h) : h[i] = Blank
    <2>1. Len(h) \in DOMAIN h
      OBVIOUS
    <2> QED
      BY <2>1, StripDotsCuts
  <1>2. k = Len(h)
    BY <1>1
  <1> QED
    BY <1>1, <1>2

(* What is stripped has the labels of the host, and ends in one unless nothing is left. *)
LEMMA StripDotsType ==
    ASSUME NEW S, NEW h \in Seq(S), h # <<>>
    PROVE  \/ StripDots(h) = <<Blank>>
           \/ /\ StripDots(h) \in Seq(S) /\ StripDots(h) # <<>>
              /\ StripDots(h)[Len(StripDots(h))] # Blank
              /\ NonBlank(StripDots(h)) = NonBlank(h)
  <1>1. CASE \A i \in DOMAIN h : h[i] = Blank
    <2>1. {i \in DOMAIN h : h[i] # Blank} = {}
      BY <1>1
    <2> QED
      BY <2>1 DEF StripDots
  <1>2. CASE \E i \in DOMAIN h : h[i] # Blank
    <2>1. PICK k \in 1..Len(h) :
              /\ StripDots(h) = SubSeq(h, 1, k) /\ h[k] # Blank
              /\ \A i \in (k + 1)..Len(h) : h[i] = Blank
      BY <1>2, StripDotsCuts
    <2>2. SubSeq(h, 1, k) \in Seq(S) /\ Len(SubSeq(h, 1, k)) = k /\ SubSeq(h, 1, k)[k] = h[k]
      OBVIOUS
    <2>3. NonBlank(SubSeq(h, 1, k)) = NonBlank(h)
      BY <2>1, WithoutCut DEF NonBlank
    <2> QED
      BY <2>1, <2>2, <2>3
  <1> QED
    BY <1>1, <1>2

-------------------------------------------------------------------------------
(* A host as the code sees it: lower case, and cut at its last label. *)
Canonical(h) ==
    h \in Seq(Lowered) /\ h # <<>> /\ h[Len(h)] # Blank

LEMMA CanonicalIsItself ==
    ASSUME NEW h, Canonical(h)
    PROVE  StripDots(LowerHost(h)) = h /\ h # <<Blank>>
  <1>1. h \in Seq(Lowered) /\ h # <<>> /\ h[Len(h)] # Blank
    BY DEF Canonical
  <1>2. LowerHost(h) = h
    BY <1>1, LowerHostFixed
  <1>3. StripDots(h) = h
    BY <1>1, StripDotsFixed
  <1>4. h # <<Blank>>
    BY <1>1
  <1> QED
    BY <1>2, <1>3, <1>4

LEMMA HostIsCanonical ==
    ASSUME NEW h \in Seq(Labels), h # <<>>, StripDots(LowerHost(h)) # <<Blank>>
    PROVE  /\ Canonical(StripDots(LowerHost(h)))
           /\ NonBlank(StripDots(LowerHost(h))) = NonBlank(LowerHost(h))
  <1> DEFINE low == LowerHost(h)
  <1>1. low \in Seq(Lowered) /\ low # <<>>
    BY LowerHostType
  <1> HIDE DEF low
  <1> QED
    BY <1>1, StripDotsType DEF low, Canonical

(* The last labels of a host. *)
Ending(labels, n) == SubSeq(labels, Len(labels) - n + 1, Len(labels))

LEMMA EndingType ==
    ASSUME NEW S, NEW labels \in Seq(S), NEW n \in 1..Len(labels)
    PROVE  /\ Ending(labels, n) \in Seq(S) /\ Len(Ending(labels, n)) = n
           /\ \A i \in 1..n : Ending(labels, n)[i] = labels[Len(labels) - n + i]
  BY DEF Ending

LEMMA EndingLast2 ==
    ASSUME NEW S, NEW labels \in Seq(S), NEW n \in 2..Len(labels)
    PROVE  Last2(Ending(labels, n)) = Last2(labels)
  <1> DEFINE e == Ending(labels, n)
  <1>1. e \in Seq(S) /\ Len(e) = n /\ \A i \in 1..n : e[i] = labels[Len(labels) - n + i]
    BY EndingType
  <1> HIDE DEF e
  <1>2. /\ Last2(e) \in Seq(S) /\ Len(Last2(e)) = 2
        /\ Last2(e)[1] = e[n - 1] /\ Last2(e)[2] = e[n]
    BY <1>1 DEF Last2
  <1>3. /\ Last2(labels) \in Seq(S) /\ Len(Last2(labels)) = 2
        /\ Last2(labels)[1] = labels[Len(labels) - 1] /\ Last2(labels)[2] = labels[Len(labels)]
    BY DEF Last2
  <1>4. n - 1 \in 1..n /\ n \in 1..n /\ n \in Nat /\ Len(labels) \in Nat
    OBVIOUS
  <1>5. e[n - 1] = labels[Len(labels) - 1] /\ e[n] = labels[Len(labels)]
    BY <1>1, <1>4
  <1> HIDE DEF e
  <1> QED
    BY <1>2, <1>3, <1>5 DEF e

LEMMA KeySizeType ==
    ASSUME NEW labels \in Seq(Labels), Len(labels) >= 2
    PROVE  KeySize(labels) \in {2, 3} /\ KeySize(labels) <= Len(labels)
  BY DEF KeySize

(* The key of a key is itself. *)
LEMMA KeyIsItself ==
    ASSUME NEW labels \in Seq(Lowered \ {Blank}), Len(labels) >= 2,
           \A l \in Range(labels) : l \notin Spaced
    PROVE  NormaliseDomain(Ending(labels, KeySize(labels))) = Ending(labels, KeySize(labels))
  <1> DEFINE size == KeySize(labels)
             d == Ending(labels, size)
  <1>1. labels \in Seq(Labels)
    BY DEF Lowered
  <1>2. size \in {2, 3} /\ size \in 2..Len(labels)
    BY <1>1, KeySizeType
  <1> HIDE DEF size
  <1>3. /\ d \in Seq(Lowered \ {Blank}) /\ Len(d) = size
        /\ \A i \in 1..size : d[i] = labels[Len(labels) - size + i]
    BY <1>2, EndingType
  <1>4. Last2(d) = Last2(labels)
    BY <1>2, EndingLast2
  <1> HIDE DEF d
  <1>5. Canonical(d)
    <2>1. d \in Seq(Lowered) /\ d # <<>>
      BY <1>2, <1>3
    <2>2. d[Len(d)] # Blank
      BY <1>2, <1>3
    <2> QED
      BY <2>1, <2>2 DEF Canonical
  <1>6. StripDots(LowerHost(d)) = d /\ d # <<Blank>>
    BY <1>5, CanonicalIsItself
  <1>7. NonBlank(d) = d
    BY <1>3, WithoutKeeps DEF NonBlank
  <1>8. \A l \in Range(d) : l \notin Spaced
    <2>1. \A i \in 1..size : Len(labels) - size + i \in DOMAIN labels
      BY <1>2
    <2>2. \A i \in DOMAIN labels : labels[i] \notin Spaced
      BY DEF Range
    <2>3. DOMAIN d = 1..size
      BY <1>3
    <2> QED
      BY <1>3, <2>1, <2>2, <2>3 DEF Range
  <1>9. KeySize(d) = size
    BY <1>2, <1>3, <1>4 DEF KeySize, size
  <1>10. SubSeq(d, Len(d) - size + 1, Len(d)) = d
    BY <1>2, <1>3
  <1>11. RegistrableDomain(d) = d
    BY <1>2, <1>3, <1>6, <1>7, <1>8, <1>9, <1>10 DEF RegistrableDomain
  <1> QED
    BY <1>6, <1>11 DEF NormaliseDomain, d, size

LEMMA NormaliseIsFixedPoint ==
    ASSUME NEW h \in Seq(Labels), h # <<>>, NormaliseDomain(h) # Invalid,
           NormaliseDomain(h) # <<Blank>>
    PROVE  NormaliseDomain(NormaliseDomain(h)) = NormaliseDomain(h)
  <1> DEFINE host == StripDots(LowerHost(h))
             labels == NonBlank(host)
  <1>1. NormaliseDomain(h) = RegistrableDomain(h)
    BY DEF NormaliseDomain
  <1>2. CASE host \in IpHosts \/ Len(host) = 1
    <2>1. NormaliseDomain(h) = host
      BY <1>1, <1>2 DEF RegistrableDomain
    <2>2. StripDots(LowerHost(host)) = host /\ host # <<Blank>>
      BY <2>1, HostIsCanonical, CanonicalIsItself
    <2>3. RegistrableDomain(host) = host
      BY <1>2, <2>2 DEF RegistrableDomain
    <2> QED
      BY <2>1, <2>2, <2>3 DEF NormaliseDomain
  <1>3. CASE ~(host \in IpHosts \/ Len(host) = 1)
    <2>1. /\ Len(labels) >= 2 /\ \A l \in Range(labels) : l \notin Spaced
          /\ NormaliseDomain(h) = Ending(labels, KeySize(labels))
          /\ labels \in Seq(Lowered \ {Blank})
      <3>1. host # <<Blank>>
        BY <1>3
      <3>2. host \in Seq(Lowered)
        BY <3>1, HostIsCanonical DEF Canonical
      <3>3. labels \in Seq(Lowered \ {Blank}) /\ Len(labels) \in Nat
        BY <3>2, WithoutType DEF NonBlank
      <3>4. ~(Len(labels) < 2 \/ \E l \in Range(labels) : l \in Spaced)
        BY <1>1, <1>3 DEF RegistrableDomain
      <3>5. NormaliseDomain(h) = Ending(labels, KeySize(labels))
        BY <1>1, <1>3, <3>4 DEF RegistrableDomain, Ending
      <3> QED
        BY <3>3, <3>4, <3>5
    <2> HIDE DEF labels
    <2> QED
      BY <2>1, KeyIsItself
  <1> QED
    BY <1>2, <1>3

(***************************************************************************)
(* The key is the shortest ending of two labels or more that is no known   *)
(* suffix.                                                                 *)
(***************************************************************************)
Sizes(labels) == {n \in 2..Len(labels) : Ending(labels, n) \notin MultiPartSuffixes}

ShortestKey(labels) ==
    IF Sizes(labels) = {} THEN labels
    ELSE Ending(labels, CHOOSE n \in Sizes(labels) : \A k \in Sizes(labels) : n <= k)

LEMMA ShortestSize ==
    ASSUME NEW labels \in Seq(Labels), Len(labels) >= 2
    PROVE  Ending(labels, KeySize(labels)) = ShortestKey(labels)
  <1>1. Ending(labels, 2) = Last2(labels)
    BY DEF Ending, Last2
  <1>0. Len(labels) \in Nat
    OBVIOUS
  <1>2. \A s \in MultiPartSuffixes : Len(s) = 2
    BY DomainConstants
  <1>3. CASE Last2(labels) \notin MultiPartSuffixes
    <2>1. KeySize(labels) = 2
      BY <1>3 DEF KeySize
    <2>2. 2 \in Sizes(labels) /\ \A k \in Sizes(labels) : 2 <= k
      BY <1>1, <1>3 DEF Sizes
    <2>3. \A n \in Sizes(labels) : (\A k \in Sizes(labels) : n <= k) => n = 2
      BY <2>2 DEF Sizes
    <2> QED
      BY <2>1, <2>2, <2>3 DEF ShortestKey
  <1>4. CASE Last2(labels) \in MultiPartSuffixes /\ Len(labels) > 2
    <2>1. KeySize(labels) = 3
      BY <1>4 DEF KeySize
    <2>2. Len(Ending(labels, 3)) = 3
      <3>1. 3 \in 1..Len(labels)
        BY <1>0, <1>4
      <3> QED
        BY <3>1, EndingType
    <2>3. 3 \in Sizes(labels) /\ 2 \notin Sizes(labels)
      <3>1. Ending(labels, 3) \notin MultiPartSuffixes
        BY <1>2, <2>2
      <3>2. 3 \in 2..Len(labels)
        BY <1>0, <1>4
      <3> QED
        BY <1>1, <1>4, <3>1, <3>2 DEF Sizes
    <2>4. \A k \in Sizes(labels) : 3 <= k
      BY <2>3 DEF Sizes
    <2>5. \A n \in Sizes(labels) : (\A k \in Sizes(labels) : n <= k) => n = 3
      BY <2>3, <2>4 DEF Sizes
    <2> QED
      BY <2>1, <2>3, <2>4, <2>5 DEF ShortestKey
  <1>5. CASE Last2(labels) \in MultiPartSuffixes /\ Len(labels) = 2
    <2>1. KeySize(labels) = 2
      BY <1>5 DEF KeySize
    <2>2. Sizes(labels) = {}
      BY <1>1, <1>5 DEF Sizes
    <2>3. Ending(labels, 2) = labels
      BY <1>5 DEF Ending
    <2> QED
      BY <2>1, <2>2, <2>3 DEF ShortestKey
  <1>6. Len(labels) = 2 \/ Len(labels) > 2
    <2> DEFINE n == Len(labels)
    <2>1. n \in Nat /\ n >= 2
      BY <1>0
    <2> HIDE DEF n
    <2>2. n = 2 \/ n > 2
      BY <2>1
    <2> QED
      BY <2>2 DEF n
  <1> QED
    BY <1>3, <1>4, <1>5, <1>6

LEMMA NormaliseIsShortest ==
    ASSUME NEW h \in Seq(Labels), h # <<>>, NormaliseDomain(h) # Invalid,
           Len(NormaliseDomain(h)) > 1, NormaliseDomain(h) \notin IpHosts
    PROVE  NormaliseDomain(h) = ShortestKey(NonBlank(LowerHost(h)))
  <1> DEFINE host == StripDots(LowerHost(h))
             labels == NonBlank(host)
  <1>1. NormaliseDomain(h) = RegistrableDomain(h)
    BY DEF NormaliseDomain
  <1>2. host \notin IpHosts /\ Len(host) # 1
    <2>1. host \in IpHosts \/ Len(host) = 1 => NormaliseDomain(h) = host
      BY <1>1 DEF RegistrableDomain
    <2>2. ~(1 > 1)
      OBVIOUS
    <2> HIDE DEF host
    <2>3. host \notin IpHosts
      BY <2>1
    <2>4. ASSUME Len(host) = 1
          PROVE  FALSE
      <3>1. Len(NormaliseDomain(h)) = 1
        BY <2>1, <2>4
      <3> QED
        BY <2>2, <3>1
    <2> QED
      BY <2>3, <2>4
  <1>3. host # <<Blank>>
    BY <1>2
  <1>4. host \in Seq(Lowered) /\ labels = NonBlank(LowerHost(h))
    BY <1>3, HostIsCanonical DEF Canonical
  <1>5. labels \in Seq(Lowered \ {Blank})
    BY <1>4, WithoutType DEF NonBlank
  <1>6. ~(Len(labels) < 2) /\ NormaliseDomain(h) = Ending(labels, KeySize(labels))
    BY <1>1, <1>2 DEF RegistrableDomain, Ending
  <1>7. labels \in Seq(Labels) /\ Len(labels) >= 2
    BY <1>5, <1>6 DEF Lowered
  <1> HIDE DEF labels, host
  <1> QED
    BY <1>4, <1>6, <1>7, ShortestSize

-------------------------------------------------------------------------------
(* Nothing is asked before, and the key is the one of the host asked for. *)
DomainInv ==
    /\ hostname \in Hostnames
    /\ domain = Unasked \/ domain = NormaliseDomain(hostname)

LEMMA DomainInvariance == NormaliseSpec => []DomainInv
  <1>1. DomainInit(Hostnames) => DomainInv
    BY DEF DomainInit, DomainInv
  <1>2. DomainInv /\ [Normalise]_domainVars => DomainInv'
    BY DEF DomainInv, Normalise, domainVars
  <1> QED
    BY <1>1, <1>2, PTL DEF NormaliseSpec

LEMMA PlainParsesToItself ==
    ASSUME NEW d \in Seq(Labels), d # <<>>, Plain(d)
    PROVE  ParsedHost(d) = d
  <1>1. 1 \in 1..Len(d) /\ Len(d) \in 1..Len(d)
    OBVIOUS
  <1>2. [d EXCEPT ![Len(d)] = RStrip[@]] = d
    BY <1>1 DEF Plain
  <1>3. Strip(d) = d
    BY <1>1, <1>2 DEF Strip, Plain
  <1>4. BeforePort(d) = d
    BY DEF BeforePort, Plain
  <1> QED
    BY <1>3, <1>4 DEF ParsedHost

LEMMA NormaliseType ==
    ASSUME NEW h \in Seq(Labels), h # <<>>, NormaliseDomain(h) # Invalid,
           NormaliseDomain(h) # <<Blank>>
    PROVE  NormaliseDomain(h) \in Seq(Labels) /\ NormaliseDomain(h) # <<>>
  <1> DEFINE host == StripDots(LowerHost(h))
             labels == NonBlank(host)
  <1>1. NormaliseDomain(h) = RegistrableDomain(h)
    BY DEF NormaliseDomain
  <1>2. CASE host \in IpHosts \/ Len(host) = 1
    <2>1. NormaliseDomain(h) = host
      BY <1>1, <1>2 DEF RegistrableDomain
    <2>2. host \in Seq(Lowered) /\ host # <<>>
      BY <2>1, HostIsCanonical DEF Canonical
    <2> HIDE DEF host
    <2> QED
      BY <2>1, <2>2, LowerHostFixed
  <1>3. CASE ~(host \in IpHosts \/ Len(host) = 1)
    <2>1. host \in Seq(Lowered)
      BY <1>3, HostIsCanonical DEF Canonical
    <2>2. labels \in Seq(Lowered \ {Blank}) /\ Len(labels) \in Nat
      BY <2>1, WithoutType DEF NonBlank
    <2>3. ~(Len(labels) < 2) /\ NormaliseDomain(h) = Ending(labels, KeySize(labels))
      BY <1>1, <1>3 DEF RegistrableDomain, Ending
    <2> HIDE DEF labels
    <2>4. labels \in Seq(Labels) /\ Len(labels) >= 2
      BY <2>2, <2>3 DEF Lowered
    <2>5. KeySize(labels) \in 1..Len(labels)
      BY <2>4, KeySizeType
    <2>6. Ending(labels, KeySize(labels)) # <<>>
      BY <2>4, <2>5, EndingType
    <2> QED
      BY <2>3, <2>4, <2>5, <2>6, EndingType
  <1> QED
    BY <1>2, <1>3

(* The key of an audit, stripped, parsed and normalised again, is itself, unless it is an
   IPv6 literal or ends in whitespace. *)
THEOREM FixedPoint == NormaliseSpec => []DomainIsFixedPoint
  <1>1. DomainInv => DomainIsFixedPoint
    <2> SUFFICES ASSUME DomainInv, domain \notin {Unasked, Invalid, <<Blank>>}, Plain(domain)
                 PROVE  NormaliseDomain(ParsedHost(domain)) = domain
      BY DEF DomainIsFixedPoint
    <2>1. hostname \in Seq(Labels) /\ hostname # <<>>
      BY DomainConstants DEF DomainInv
    <2>2. domain = NormaliseDomain(hostname)
      BY DEF DomainInv
    <2>3. ParsedHost(domain) = domain
      BY <2>1, <2>2, NormaliseType, PlainParsesToItself
    <2> QED
      BY <2>1, <2>2, <2>3, NormaliseIsFixedPoint
  <1> QED
    BY <1>1, DomainInvariance, PTL

(* The key is the shortest ending of two labels that is no known suffix. *)
THEOREM ShortestIsKey == NormaliseSpec => []DomainIsShortestKey
  <1>1. DomainInv => DomainIsShortestKey
    <2> SUFFICES ASSUME DomainInv, Keyed
                 PROVE  domain = ShortestKey(NonBlank(LowerHost(hostname)))
      BY DEF DomainIsShortestKey, ShortestKey, Sizes, Ending
    <2>1. hostname \in Seq(Labels) /\ hostname # <<>>
      BY DomainConstants DEF DomainInv
    <2>2. domain = NormaliseDomain(hostname)
      BY DEF DomainInv, Keyed
    <2> QED
      BY <2>1, <2>2, NormaliseIsShortest DEF Keyed
  <1> QED
    BY <1>1, DomainInvariance, PTL

-------------------------------------------------------------------------------
(* The sum of a list of numbers. *)
SumStep(sizes, before, n) == IF n = 0 THEN 0 ELSE before + sizes[n]

Sums(sizes, f, n) == f = [i \in 0..n |-> SumStep(sizes, f[i - 1], i)]

LEMMA SumExists ==
    ASSUME NEW sizes, NEW n \in Nat
    PROVE  \E f : Sums(sizes, f, n)
  <1> DEFINE G == {m \in Nat : \E f : Sums(sizes, f, m)}
  <1>1. 0 \in G
    <2>1. Sums(sizes, [i \in 0..0 |-> 0], 0)
      BY DEF Sums, SumStep
    <2> QED
      BY <2>1
  <1>2. ASSUME NEW m \in 1..n, m - 1 \in G
        PROVE  m \in G
    <2>1. PICK f : Sums(sizes, f, m - 1)
      BY <1>2
    <2> DEFINE g == [i \in 0..m |-> IF i = m THEN SumStep(sizes, f[m - 1], m) ELSE f[i]]
    <2>2. g[0] = 0 /\ SumStep(sizes, g[0 - 1], 0) = 0
      BY <2>1 DEF Sums, SumStep
    <2>3. \A i \in 0..(m - 1) : f[i] = SumStep(sizes, f[i - 1], i)
      BY <2>1 DEF Sums
    <2>4. \A i \in 1..m : g[i] = SumStep(sizes, f[i - 1], i) /\ g[i - 1] = f[i - 1]
      BY <2>3
    <2>5. \A i \in 0..m : g[i] = SumStep(sizes, g[i - 1], i)
      <3>1. \A i \in 1..m : g[i] = SumStep(sizes, g[i - 1], i)
        BY <2>4
      <3>2. \A i \in 0..m : i = 0 \/ i \in 1..m
        OBVIOUS
      <3> HIDE DEF g
      <3> QED
        BY <2>2, <3>1, <3>2
    <2>6. Sums(sizes, g, m)
      <3> HIDE DEF SumStep
      <3> QED
        BY <2>5 DEF Sums
    <2> QED
      BY <2>6
  <1>3. n \in G
    <2> HIDE DEF G
    <2> QED
      BY <1>1, <1>2, UpToInduction
  <1> QED
    BY <1>3

LEMMA SumSteps ==
    ASSUME NEW sizes \in Seq(Nat)
    PROVE  /\ SumUpTo(sizes)[0] = 0
           /\ \A n \in 1..Len(sizes) : SumUpTo(sizes)[n] = SumUpTo(sizes)[n - 1] + sizes[n]
           /\ \A n \in 0..Len(sizes) : SumUpTo(sizes)[n] \in Nat
  <1> DEFINE F == SumUpTo(sizes)
             len == Len(sizes)
  <1>1. len \in Nat
    OBVIOUS
  <1>2. Sums(sizes, F, len)
    <2>1. \E f : Sums(sizes, f, len)
      BY <1>1, SumExists
    <2>2. F = CHOOSE f : Sums(sizes, f, len)
      BY DEF SumUpTo, Sums, SumStep
    <2> QED
      BY <2>1, <2>2
  <1>3. \A n \in 0..len : F[n] = SumStep(sizes, F[n - 1], n)
    BY <1>2 DEF Sums
  <1> HIDE DEF F
  <1>4. F[0] = 0 /\ \A n \in 1..len : F[n] = F[n - 1] + sizes[n]
    <2>1. 0 \in 0..len /\ \A n \in 1..len : n \in 0..len /\ n # 0
      BY <1>1
    <2> QED
      BY <1>3, <2>1 DEF SumStep
  <1> DEFINE G == {n \in 0..len : F[n] \in Nat}
  <1>5. 0 \in G
    BY <1>1, <1>4
  <1>6. ASSUME NEW n \in 1..len, n - 1 \in G
        PROVE  n \in G
    <2>1. F[n - 1] \in Nat /\ sizes[n] \in Nat /\ n \in 0..len
      BY <1>6
    <2>2. F[n - 1] + sizes[n] \in Nat
      BY <2>1
    <2> QED
      BY <1>4, <2>1, <2>2
  <1>7. \A n \in 0..len : n \in G
    <2> HIDE DEF G, len
    <2> QED
      BY <1>1, <1>5, <1>6, UpToInduction
  <1> QED
    BY <1>4, <1>7 DEF F

LEMMA SumType ==
    ASSUME NEW sizes \in Seq(Nat)
    PROVE  Sum(sizes) \in Nat
  <1>1. Len(sizes) \in 0..Len(sizes)
    OBVIOUS
  <1> QED
    BY <1>1, SumSteps DEF Sum

LEMMA BothGrow == \A p, q, r, s \in Nat : p <= q /\ r <= s => p + r <= q + s /\ p <= q + s
  OBVIOUS

(* Fewer and smaller numbers have a smaller sum. *)
LEMMA SumGrows ==
    ASSUME NEW a \in Seq(Nat), NEW b \in Seq(Nat), Len(a) <= Len(b),
           \A i \in 1..Len(a) : a[i] <= b[i]
    PROVE  Sum(a) <= Sum(b)
  <1> DEFINE A == SumUpTo(a)
             B == SumUpTo(b)
             len == Len(a)
             G == {n \in 0..Len(b) : IF n <= len THEN A[n] <= B[n] ELSE A[len] <= B[n]}
  <1>1. /\ A[0] = 0 /\ B[0] = 0
        /\ \A n \in 1..len : A[n] = A[n - 1] + a[n]
        /\ \A n \in 1..Len(b) : B[n] = B[n - 1] + b[n]
        /\ \A n \in 0..len : A[n] \in Nat
        /\ \A n \in 0..Len(b) : B[n] \in Nat
    BY SumSteps
  <1>2. len \in Nat /\ Len(b) \in Nat /\ len <= Len(b)
    OBVIOUS
  <1>3. Sum(a) = A[len] /\ Sum(b) = B[Len(b)]
    BY DEF Sum
  <1>4. (\A n \in 1..len : a[n] \in Nat) /\ \A n \in 1..Len(b) : b[n] \in Nat
    OBVIOUS
  <1> HIDE DEF A, B
  <1>5. 0 \in G
    BY <1>1, <1>2
  <1>6. ASSUME NEW n \in 1..Len(b), n - 1 \in G
        PROVE  n \in G
    <2>1. B[n] = B[n - 1] + b[n] /\ b[n] \in Nat /\ B[n - 1] \in Nat
      BY <1>1, <1>4
    <2>2. CASE n <= len
      <3>1. A[n] = A[n - 1] + a[n] /\ A[n - 1] \in Nat /\ a[n] \in Nat /\ a[n] <= b[n]
        BY <1>1, <1>2, <1>4, <2>2
      <3>2. A[n - 1] <= B[n - 1]
        BY <1>2, <1>6, <2>2
      <3>3. A[n - 1] + a[n] <= B[n - 1] + b[n]
        <4> HIDE DEF G
        <4> QED
          BY <2>1, <3>1, <3>2, BothGrow
      <3>4. A[n] <= B[n]
        BY ONLY <2>1, <3>1, <3>3
      <3> QED
        BY <2>2, <3>4
    <2>3. CASE ~(n <= len)
      <3>1. A[len] <= B[n - 1]
        <4>1. n - 1 = len \/ ~(n - 1 <= len)
          BY <1>2, <2>3
        <4> QED
          BY <1>2, <1>6, <4>1
      <3>2. A[len] \in Nat
        <4>1. len \in 0..len
          BY <1>2
        <4> QED
          BY <1>1, <4>1
      <3>3. A[len] <= B[n - 1] + b[n]
        <4>1. 0 \in Nat /\ 0 <= b[n]
          BY <2>1
        <4> HIDE DEF G
        <4> QED
          BY <2>1, <3>1, <3>2, <4>1, BothGrow
      <3>4. A[len] <= B[n]
        BY ONLY <2>1, <3>3
      <3> QED
        BY <2>3, <3>4
    <2> QED
      BY <2>2, <2>3
  <1>7. Len(b) \in G
    <2>1. Len(b) \in 0..Len(b)
      BY <1>2
    <2> HIDE DEF G
    <2> QED
      BY <1>2, <1>5, <1>6, <2>1, UpToInduction
  <1> QED
    BY <1>2, <1>3, <1>7

-------------------------------------------------------------------------------
(* The values of each height. *)
JsonStep(below, height) ==
    IF height = 0 THEN Leaves ELSE Leaves \cup Lists(below) \cup Dicts(below)

JsonSolution(f, n) == f = [i \in 0..n |-> JsonStep(f[i - 1], i)]

LEMMA JsonBase == \A p, q : JsonStep(p, 0) = JsonStep(q, 0)
  BY DEF JsonStep

LEMMA JsonExists ==
    ASSUME NEW n \in Nat
    PROVE  \E f : JsonSolution(f, n)
  <1> DEFINE G == {m \in Nat : \E f : JsonSolution(f, m)}
  <1>1. 0 \in G
    <2> DEFINE f == [i \in 0..0 |-> JsonStep(0, 0)]
    <2>1. \A i \in 0..0 : i = 0 /\ f[0] = JsonStep(f[0 - 1], 0)
      BY JsonBase
    <2>2. JsonSolution(f, 0)
      <3>1. \A i \in 0..0 : f[i] = JsonStep(f[i - 1], i)
        BY <2>1
      <3> HIDE DEF JsonStep
      <3> QED
        BY <3>1 DEF JsonSolution
    <2> QED
      BY <2>2
  <1>2. ASSUME NEW m \in 1..n, m - 1 \in G
        PROVE  m \in G
    <2>1. PICK f : JsonSolution(f, m - 1)
      BY <1>2
    <2> DEFINE g == [i \in 0..m |-> IF i = m THEN JsonStep(f[m - 1], m) ELSE f[i]]
    <2>2. \A i \in 0..(m - 1) : f[i] = JsonStep(f[i - 1], i)
      BY <2>1 DEF JsonSolution
    <2>3. g[0] = JsonStep(g[0 - 1], 0)
      <3>1. g[0] = JsonStep(f[0 - 1], 0)
        BY <2>2
      <3> HIDE DEF g
      <3> QED
        BY <3>1, JsonBase
    <2>4. \A i \in 1..m : g[i] = JsonStep(f[i - 1], i) /\ g[i - 1] = f[i - 1]
      BY <2>2
    <2>5. \A i \in 0..m : g[i] = JsonStep(g[i - 1], i)
      <3>1. \A i \in 1..m : g[i] = JsonStep(g[i - 1], i)
        BY <2>4
      <3>2. \A i \in 0..m : i = 0 \/ i \in 1..m
        OBVIOUS
      <3> HIDE DEF g
      <3> QED
        BY <2>3, <3>1, <3>2
    <2>6. JsonSolution(g, m)
      BY <2>5 DEF JsonSolution
    <2> QED
      BY <2>6
  <1>3. n \in G
    <2> HIDE DEF G
    <2> QED
      BY <1>1, <1>2, UpToInduction
  <1> QED
    BY <1>3

LEMMA JsonEquation ==
    \A i \in 0..Height : Json[i] = JsonStep(Json[i - 1], i)
  <1>1. \E f : JsonSolution(f, Height)
    BY JsonExists, CleaningConstants
  <1>2. Json = CHOOSE f : JsonSolution(f, Height)
    BY DEF Json, JsonSolution, JsonStep
  <1>3. JsonSolution(Json, Height)
    BY <1>1, <1>2
  <1> QED
    BY <1>3 DEF JsonSolution


Entries(values) == [trash : BOOLEAN, value : values]

LEMMA JsonSteps ==
    /\ Json[0] = Leaves
    /\ \A h \in 1..Height :
           Json[h] = Leaves \cup Lists(Json[h - 1]) \cup Dicts(Json[h - 1])
  <1>1. 0 \in 0..Height /\ \A h \in 1..Height : h \in 0..Height /\ h # 0
    BY CleaningConstants
  <1> QED
    BY <1>1, JsonEquation DEF JsonStep

LEMMA JsonCases ==
    ASSUME NEW h \in 0..Height, NEW v \in Json[h]
    PROVE  \/ v \in Leaves /\ v.type = "leaf"
           \/ /\ h - 1 \in 0..Height /\ h \in 1..Height
              /\ v.type = "list" /\ v = List(v.items) /\ v.items \in Seq(Json[h - 1])
           \/ /\ h - 1 \in 0..Height /\ h \in 1..Height
              /\ v.type = "dict" /\ v = Dict(v.items) /\ v.items \in Seq(Entries(Json[h - 1]))
  <1>1. CASE v \in Leaves
    BY <1>1 DEF Leaves
  <1>2. CASE v \notin Leaves
    <2>1. h \in 1..Height /\ h - 1 \in 0..Height
      BY <1>2, JsonSteps, CleaningConstants
    <2>2. v \in Lists(Json[h - 1]) \/ v \in Dicts(Json[h - 1])
      BY <1>2, <2>1, JsonSteps
    <2>3. CASE v \in Lists(Json[h - 1])
      BY <2>1, <2>3 DEF Lists, List
    <2>4. CASE v \in Dicts(Json[h - 1])
      BY <2>1, <2>4 DEF Dicts, Dict, Entries
    <2> QED
      BY <2>2, <2>3, <2>4
  <1> QED
    BY <1>1, <1>2

LEMMA JsonBuilds ==
    ASSUME NEW h \in 0..Height
    PROVE  /\ Leaves \subseteq Json[h]
           /\ h # 0 => /\ \A s \in Seq(Json[h - 1]) : List(s) \in Json[h]
                       /\ \A s \in Seq(Entries(Json[h - 1])) : Dict(s) \in Json[h]
  <1>1. CASE h = 0
    BY <1>1, JsonSteps
  <1>2. CASE h # 0
    <2>1. Json[h] = Leaves \cup Lists(Json[h - 1]) \cup Dicts(Json[h - 1])
      BY <1>2, JsonSteps, CleaningConstants
    <2>2. \A s \in Seq(Json[h - 1]) : List(s) \in Lists(Json[h - 1])
      BY DEF Lists, List
    <2>3. \A s \in Seq(Entries(Json[h - 1])) : Dict(s) \in Dicts(Json[h - 1])
      BY DEF Dicts, Dict, Entries
    <2> QED
      BY <2>1, <2>2, <2>3
  <1> QED
    BY <1>1, <1>2

(* Dropped is no value and no entry. *)
LEMMA JsonNotDropped ==
    /\ \A h \in 0..Height : Dropped \notin Json[h]
    /\ \A values : Dropped \notin Entries(values)
  <1>1. ASSUME NEW h \in 0..Height, Dropped \in Json[h]
        PROVE  FALSE
    <2>1. Dropped.type \in {"leaf", "list", "dict"}
      BY <1>1, JsonCases
    <2> QED
      BY <2>1 DEF Dropped
  <1>2. ASSUME NEW values, Dropped \in Entries(values)
        PROVE  FALSE
    <2>1. DOMAIN Dropped = {"type"}
      BY DEF Dropped
    <2>2. DOMAIN Dropped = {"trash", "value"}
      BY <1>2 DEF Entries
    <2> QED
      BY <2>1, <2>2
  <1> QED
    BY <1>1, <1>2

-------------------------------------------------------------------------------
(* The size of each value. *)
SizeStep(below, height) ==
    [v \in Json[height] |->
        IF v.type = "leaf" THEN v.size
        ELSE 2 + Sum([i \in DOMAIN v.items |->
                        IF v.type = "list" THEN 1 + below[v.items[i]]
                        ELSE 2 + below[v.items[i].value]])]

SizeSolution(f, n) == f = [i \in 0..n |-> SizeStep(f[i - 1], i)]

LEMMA SizeBase == \A p, q : SizeStep(p, 0) = SizeStep(q, 0)
  <1>0. \A v \in Leaves : v.type = "leaf"
    BY DEF Leaves
  <1>1. \A v \in Json[0] : v.type = "leaf"
    BY <1>0, JsonSteps
  <1> QED
    BY <1>1 DEF SizeStep

LEMMA SizeExists ==
    ASSUME NEW n \in Nat
    PROVE  \E f : SizeSolution(f, n)
  <1> DEFINE G == {m \in Nat : \E f : SizeSolution(f, m)}
  <1>1. 0 \in G
    <2> DEFINE f == [i \in 0..0 |-> SizeStep(0, 0)]
    <2>1. \A i \in 0..0 : i = 0 /\ f[0] = SizeStep(f[0 - 1], 0)
      BY SizeBase
    <2>2. SizeSolution(f, 0)
      <3>1. \A i \in 0..0 : f[i] = SizeStep(f[i - 1], i)
        BY <2>1
      <3> HIDE DEF SizeStep
      <3> QED
        BY <3>1 DEF SizeSolution
    <2> QED
      BY <2>2
  <1>2. ASSUME NEW m \in 1..n, m - 1 \in G
        PROVE  m \in G
    <2>1. PICK f : SizeSolution(f, m - 1)
      BY <1>2
    <2> DEFINE g == [i \in 0..m |-> IF i = m THEN SizeStep(f[m - 1], m) ELSE f[i]]
    <2>2. \A i \in 0..(m - 1) : f[i] = SizeStep(f[i - 1], i)
      BY <2>1 DEF SizeSolution
    <2>3. g[0] = SizeStep(g[0 - 1], 0)
      <3>1. g[0] = SizeStep(f[0 - 1], 0)
        BY <2>2
      <3> HIDE DEF g
      <3> QED
        BY <3>1, SizeBase
    <2>4. \A i \in 1..m : g[i] = SizeStep(f[i - 1], i) /\ g[i - 1] = f[i - 1]
      BY <2>2
    <2>5. \A i \in 0..m : g[i] = SizeStep(g[i - 1], i)
      <3>1. \A i \in 1..m : g[i] = SizeStep(g[i - 1], i)
        BY <2>4
      <3>2. \A i \in 0..m : i = 0 \/ i \in 1..m
        OBVIOUS
      <3> HIDE DEF g
      <3> QED
        BY <2>3, <3>1, <3>2
    <2>6. SizeSolution(g, m)
      BY <2>5 DEF SizeSolution
    <2> QED
      BY <2>6
  <1>3. n \in G
    <2> HIDE DEF G
    <2> QED
      BY <1>1, <1>2, UpToInduction
  <1> QED
    BY <1>3

LEMMA SizeEquation ==
    \A i \in 0..Height : SizeUpTo[i] = SizeStep(SizeUpTo[i - 1], i)
  <1>1. \E f : SizeSolution(f, Height)
    BY SizeExists, CleaningConstants
  <1>2. SizeUpTo = CHOOSE f : SizeSolution(f, Height)
    BY DEF SizeUpTo, SizeSolution, SizeStep
  <1>3. SizeSolution(SizeUpTo, Height)
    BY <1>1, <1>2
  <1> QED
    BY <1>3 DEF SizeSolution


ItemSizes(h, items) == [i \in DOMAIN items |-> 1 + SizeUpTo[h - 1][items[i]]]
EntrySizes(h, items) == [i \in DOMAIN items |-> 2 + SizeUpTo[h - 1][items[i].value]]

LEMMA SizeCases ==
    ASSUME NEW h \in 0..Height, NEW v \in Json[h]
    PROVE  /\ v.type = "leaf" => SizeUpTo[h][v] = v.size
           /\ v.type = "list" => SizeUpTo[h][v] = 2 + Sum(ItemSizes(h, v.items))
           /\ v.type = "dict" => SizeUpTo[h][v] = 2 + Sum(EntrySizes(h, v.items))
  <1>1. SizeUpTo[h] = SizeStep(SizeUpTo[h - 1], h)
    BY SizeEquation
  <1> QED
    BY <1>1 DEF SizeStep, ItemSizes, EntrySizes

LEMMA SizeType == \A h \in 0..Height : \A v \in Json[h] : SizeUpTo[h][v] \in Nat
  <1> DEFINE G == {h \in 0..Height : \A v \in Json[h] : SizeUpTo[h][v] \in Nat}
  <1>0. Height \in Nat
    BY CleaningConstants
  <1>1. 0 \in G
    <2>1. 0 \in 0..Height
      BY <1>0
    <2>2. ASSUME NEW v \in Json[0]
          PROVE  SizeUpTo[0][v] \in Nat
      <3>1. v \in Leaves /\ v.type = "leaf" /\ v.size \in Nat
        <4>1. \A l \in Leaves : l.type = "leaf" /\ l.size \in Nat
          BY DEF Leaves
        <4> QED
          BY <4>1, JsonSteps
      <3> QED
        BY <2>1, <3>1, SizeCases
    <2> QED
      BY <2>1, <2>2
  <1>2. ASSUME NEW h \in 1..Height, h - 1 \in G
        PROVE  h \in G
    <2>1. h \in 0..Height /\ h - 1 \in 0..Height /\ \A v \in Json[h - 1] : SizeUpTo[h - 1][v] \in Nat
      BY <1>2
    <2>2. ASSUME NEW v \in Json[h]
          PROVE  SizeUpTo[h][v] \in Nat
      <3>1. CASE v \in Leaves /\ v.type = "leaf"
        <4>1. v.size \in Nat
          BY <3>1 DEF Leaves
        <4> QED
          BY <2>1, <3>1, <4>1, SizeCases
      <3>2. CASE v.type = "list" /\ v.items \in Seq(Json[h - 1])
        <4>1. ItemSizes(h, v.items) \in Seq(Nat)
          <5> DEFINE s == v.items
          <5>1. s \in Seq(Json[h - 1])
            BY <3>2
          <5> HIDE DEF s, G
          <5>2. DOMAIN s = 1..Len(s) /\ Len(s) \in Nat /\ \A i \in DOMAIN s : s[i] \in Json[h - 1]
            BY <5>1
          <5>3. \A i \in DOMAIN s : 1 + SizeUpTo[h - 1][s[i]] \in Nat
            BY <2>1, <5>2
          <5>4. ItemSizes(h, s) \in [1..Len(s) -> Nat]
            BY <5>2, <5>3 DEF ItemSizes
          <5>5. ItemSizes(h, s) \in Seq(Nat)
            BY <5>2, <5>4
          <5> QED
            BY <5>5 DEF s
        <4>2. Sum(ItemSizes(h, v.items)) \in Nat
          BY <4>1, SumType
        <4>3. SizeUpTo[h][v] = 2 + Sum(ItemSizes(h, v.items))
          BY <2>1, <3>2, SizeCases
        <4> QED
          BY <4>2, <4>3
      <3>3. CASE v.type = "dict" /\ v.items \in Seq(Entries(Json[h - 1]))
        <4>1. \A e \in Entries(Json[h - 1]) : 2 + SizeUpTo[h - 1][e.value] \in Nat
          BY <2>1 DEF Entries
        <4>2. EntrySizes(h, v.items) \in Seq(Nat)
          BY <3>3, <4>1 DEF EntrySizes
        <4>3. Sum(EntrySizes(h, v.items)) \in Nat
          BY <4>2, SumType
        <4> QED
          BY <2>1, <3>3, <4>3, SizeCases
      <3> QED
        BY <2>1, <3>1, <3>2, <3>3, JsonCases
    <2> QED
      BY <2>1, <2>2
  <1>3. \A h \in 0..Height : h \in G
    <2> HIDE DEF G
    <2> QED
      BY <1>0, <1>1, <1>2, UpToInduction
  <1> QED
    BY <1>3

-------------------------------------------------------------------------------
(* The clean values. *)
CleanLeaves == {v \in Leaves : ~v.blob}
CleanEntries(values) == [trash : {FALSE}, value : values]
ShortLists(values) == {s \in Seq(values) : Len(s) <= ListCap}

CleanJsonStep(below, levels) ==
    IF levels = 0 THEN CleanLeaves
    ELSE CleanLeaves \cup [type : {"list"}, items : ShortLists(below)]
                     \cup [type : {"dict"}, items : Seq(CleanEntries(below))]

CleanJsonSolution(f, n) == f = [i \in 0..n |-> CleanJsonStep(f[i - 1], i)]

LEMMA CleanJsonBase == \A p, q : CleanJsonStep(p, 0) = CleanJsonStep(q, 0)
  BY DEF CleanJsonStep

LEMMA CleanJsonExists ==
    ASSUME NEW n \in Nat
    PROVE  \E f : CleanJsonSolution(f, n)
  <1> DEFINE G == {m \in Nat : \E f : CleanJsonSolution(f, m)}
  <1>1. 0 \in G
    <2> DEFINE f == [i \in 0..0 |-> CleanJsonStep(0, 0)]
    <2>1. \A i \in 0..0 : i = 0 /\ f[0] = CleanJsonStep(f[0 - 1], 0)
      BY CleanJsonBase
    <2>2. CleanJsonSolution(f, 0)
      <3>1. \A i \in 0..0 : f[i] = CleanJsonStep(f[i - 1], i)
        BY <2>1
      <3> HIDE DEF CleanJsonStep
      <3> QED
        BY <3>1 DEF CleanJsonSolution
    <2> QED
      BY <2>2
  <1>2. ASSUME NEW m \in 1..n, m - 1 \in G
        PROVE  m \in G
    <2>1. PICK f : CleanJsonSolution(f, m - 1)
      BY <1>2
    <2> DEFINE g == [i \in 0..m |-> IF i = m THEN CleanJsonStep(f[m - 1], m) ELSE f[i]]
    <2>2. \A i \in 0..(m - 1) : f[i] = CleanJsonStep(f[i - 1], i)
      BY <2>1 DEF CleanJsonSolution
    <2>3. g[0] = CleanJsonStep(g[0 - 1], 0)
      <3>1. g[0] = CleanJsonStep(f[0 - 1], 0)
        BY <2>2
      <3> HIDE DEF g
      <3> QED
        BY <3>1, CleanJsonBase
    <2>4. \A i \in 1..m : g[i] = CleanJsonStep(f[i - 1], i) /\ g[i - 1] = f[i - 1]
      BY <2>2
    <2>5. \A i \in 0..m : g[i] = CleanJsonStep(g[i - 1], i)
      <3>1. \A i \in 1..m : g[i] = CleanJsonStep(g[i - 1], i)
        BY <2>4
      <3>2. \A i \in 0..m : i = 0 \/ i \in 1..m
        OBVIOUS
      <3> HIDE DEF g
      <3> QED
        BY <2>3, <3>1, <3>2
    <2>6. CleanJsonSolution(g, m)
      BY <2>5 DEF CleanJsonSolution
    <2> QED
      BY <2>6
  <1>3. n \in G
    <2> HIDE DEF G
    <2> QED
      BY <1>1, <1>2, UpToInduction
  <1> QED
    BY <1>3

LEMMA CleanJsonEquation ==
    \A i \in 0..MaxDepth : CleanJson[i] = CleanJsonStep(CleanJson[i - 1], i)
  <1>1. \E f : CleanJsonSolution(f, MaxDepth)
    BY CleanJsonExists, CleaningConstants
  <1>2. CleanJson = CHOOSE f : CleanJsonSolution(f, MaxDepth)
    BY DEF CleanJson, CleanJsonSolution, CleanJsonStep, CleanLeaves, ShortLists, CleanEntries
  <1>3. CleanJsonSolution(CleanJson, MaxDepth)
    BY <1>1, <1>2
  <1> QED
    BY <1>3 DEF CleanJsonSolution


LEMMA CleanJsonSteps ==
    /\ \A n \in 0..MaxDepth : CleanLeaves \subseteq CleanJson[n]
    /\ CleanJson[0] = CleanLeaves
    /\ \A n \in 1..MaxDepth :
           CleanJson[n] = CleanLeaves
               \cup [type : {"list"}, items : ShortLists(CleanJson[n - 1])]
               \cup [type : {"dict"}, items : Seq(CleanEntries(CleanJson[n - 1]))]
  <1>1. MaxDepth \in Nat
    BY CleaningConstants
  <1>2. 0 \in 0..MaxDepth /\ \A n \in 1..MaxDepth : n \in 0..MaxDepth /\ n # 0
    BY <1>1
  <1>3. \A n \in 0..MaxDepth : CleanJson[n] = CleanJsonStep(CleanJson[n - 1], n)
    BY CleanJsonEquation
  <1> QED
    BY <1>2, <1>3 DEF CleanJsonStep

LEMMA CleanJsonBuilds ==
    ASSUME NEW n \in 1..MaxDepth
    PROVE  /\ \A s \in ShortLists(CleanJson[n - 1]) : List(s) \in CleanJson[n]
           /\ \A s \in Seq(CleanEntries(CleanJson[n - 1])) : Dict(s) \in CleanJson[n]
  <1>1. \A s \in ShortLists(CleanJson[n - 1]) :
            List(s) \in [type : {"list"}, items : ShortLists(CleanJson[n - 1])]
    BY DEF List
  <1>2. \A s \in Seq(CleanEntries(CleanJson[n - 1])) :
            Dict(s) \in [type : {"dict"}, items : Seq(CleanEntries(CleanJson[n - 1]))]
    BY DEF Dict
  <1> QED
    BY <1>1, <1>2, CleanJsonSteps

LEMMA CleanJsonCases ==
    ASSUME NEW n \in 0..MaxDepth, NEW v \in CleanJson[n]
    PROVE  /\ v.type = "leaf" => ~v.blob
           /\ v.type = "list" => n \in 1..MaxDepth /\ v.items \in ShortLists(CleanJson[n - 1])
           /\ v.type = "dict" =>
                  n \in 1..MaxDepth /\ v.items \in Seq(CleanEntries(CleanJson[n - 1]))
  <1>1. CASE v \in CleanLeaves
    BY <1>1 DEF CleanLeaves, Leaves
  <1>2. CASE v \notin CleanLeaves
    <2>1. n \in 1..MaxDepth
      BY <1>2, CleanJsonSteps, CleaningConstants
    <2>2. \/ v \in [type : {"list"}, items : ShortLists(CleanJson[n - 1])]
          \/ v \in [type : {"dict"}, items : Seq(CleanEntries(CleanJson[n - 1]))]
      BY <1>2, <2>1, CleanJsonSteps
    <2> QED
      BY <2>1, <2>2
  <1> QED
    BY <1>1, <1>2

-------------------------------------------------------------------------------
(* What is left of each value. *)
CleanedEntry(below, depth, e) ==
    IF e.trash \/ below[e.value][depth + 1] = Dropped THEN Dropped
    ELSE Entry(FALSE, below[e.value][depth + 1])

CleanedItems(below, depth, items) == [i \in DOMAIN items |-> below[items[i]][depth + 1]]

CleanedEntries(below, depth, items) ==
    [i \in DOMAIN items |-> CleanedEntry(below, depth, items[i])]

CleanValue(cap, below, v, depth) ==
    IF TooDeep(v, depth) THEN Dropped
    ELSE IF v.type = "dict" THEN Dict(Without(CleanedEntries(below, depth, v.items), Dropped))
    ELSE IF v.type = "list"
         THEN List(CapList(Without(CleanedItems(below, depth, v.items), Dropped), cap))
    ELSE IF v.blob THEN Dropped ELSE v

CleanStep(cap, below, height) ==
    [v \in Json[height] |-> [depth \in Nat |-> CleanValue(cap, below, v, depth)]]

CleanSolution(cap, f, n) == f = [i \in 0..n |-> CleanStep(cap, f[i - 1], i)]

LEMMA CleanBase == \A cap, p, q : CleanStep(cap, p, 0) = CleanStep(cap, q, 0)
  <1>1. \A v \in Leaves : v.type = "leaf"
    BY DEF Leaves
  <1>2. \A v \in Json[0] : v.type = "leaf"
    BY <1>1, JsonSteps
  <1>3. \A cap, p, q : \A v \in Json[0] : \A depth \in Nat :
            CleanValue(cap, p, v, depth) = CleanValue(cap, q, v, depth)
    BY <1>2 DEF CleanValue
  <1> QED
    BY <1>3 DEF CleanStep

LEMMA CleanExists ==
    ASSUME NEW cap, NEW n \in Nat
    PROVE  \E f : CleanSolution(cap, f, n)
  <1> DEFINE G == {m \in Nat : \E f : CleanSolution(cap, f, m)}
  <1>1. 0 \in G
    <2> DEFINE f == [i \in 0..0 |-> CleanStep(cap, 0, 0)]
    <2>1. \A i \in 0..0 : i = 0 /\ f[0] = CleanStep(cap, f[0 - 1], 0)
      BY CleanBase
    <2>2. CleanSolution(cap, f, 0)
      <3>1. \A i \in 0..0 : f[i] = CleanStep(cap, f[i - 1], i)
        BY <2>1
      <3> HIDE DEF CleanStep
      <3> QED
        BY <3>1 DEF CleanSolution
    <2> QED
      BY <2>2
  <1>2. ASSUME NEW m \in 1..n, m - 1 \in G
        PROVE  m \in G
    <2>1. PICK f : CleanSolution(cap, f, m - 1)
      BY <1>2
    <2> DEFINE g == [i \in 0..m |-> IF i = m THEN CleanStep(cap, f[m - 1], m) ELSE f[i]]
    <2>2. \A i \in 0..(m - 1) : f[i] = CleanStep(cap, f[i - 1], i)
      BY <2>1 DEF CleanSolution
    <2>3. g[0] = CleanStep(cap, g[0 - 1], 0)
      <3>1. g[0] = CleanStep(cap, f[0 - 1], 0)
        BY <2>2
      <3> HIDE DEF g
      <3> QED
        BY <3>1, CleanBase
    <2>4. \A i \in 1..m : g[i] = CleanStep(cap, f[i - 1], i) /\ g[i - 1] = f[i - 1]
      BY <2>2
    <2>5. \A i \in 0..m : g[i] = CleanStep(cap, g[i - 1], i)
      <3>1. \A i \in 1..m : g[i] = CleanStep(cap, g[i - 1], i)
        BY <2>4
      <3>2. \A i \in 0..m : i = 0 \/ i \in 1..m
        OBVIOUS
      <3> HIDE DEF g
      <3> QED
        BY <2>3, <3>1, <3>2
    <2>6. CleanSolution(cap, g, m)
      BY <2>5 DEF CleanSolution
    <2> QED
      BY <2>6
  <1>3. n \in G
    <2> HIDE DEF G
    <2> QED
      BY <1>1, <1>2, UpToInduction
  <1> QED
    BY <1>3

LEMMA CleanEquation ==
    ASSUME NEW cap
    PROVE  \A i \in 0..Height : CleanUpTo(cap)[i] = CleanStep(cap, CleanUpTo(cap)[i - 1], i)
  <1>1. \E f : CleanSolution(cap, f, Height)
    BY CleanExists, CleaningConstants
  <1>2. CleanUpTo(cap) = CHOOSE f : CleanSolution(cap, f, Height)
    BY DEF CleanUpTo, CleanSolution, CleanStep, CleanValue, CleanedItems,
              CleanedEntries, CleanedEntry
  <1>3. CleanSolution(cap, CleanUpTo(cap), Height)
    BY <1>1, <1>2
  <1> QED
    BY <1>3 DEF CleanSolution


LEMMA CleanCases ==
    ASSUME NEW cap, NEW h \in 0..Height, NEW v \in Json[h], NEW depth \in Nat
    PROVE  CleanUpTo(cap)[h][v][depth] = CleanValue(cap, CleanUpTo(cap)[h - 1], v, depth)
  <1>1. CleanUpTo(cap)[h] = CleanStep(cap, CleanUpTo(cap)[h - 1], h)
    BY CleanEquation
  <1> QED
    BY <1>1 DEF CleanStep

-------------------------------------------------------------------------------
(* Lists of what is left.                                                      *)

LEMMA CapListFields ==
    ASSUME NEW S, NEW s \in Seq(S), NEW cap \in Nat
    PROVE  /\ CapList(s, cap) \in Seq(S) /\ Len(CapList(s, cap)) <= cap
           /\ Len(CapList(s, cap)) <= Len(s)
           /\ Len(s) <= cap => CapList(s, cap) = s
           /\ Len(s) > cap => Len(CapList(s, cap)) = cap
           /\ \A i \in 1..Len(CapList(s, cap)) : i \in 1..Len(s) /\ CapList(s, cap)[i] = s[i]
  <1>1. CASE Len(s) > cap
    BY <1>1 DEF CapList
  <1>2. CASE ~(Len(s) > cap)
    BY <1>2 DEF CapList
  <1> QED
    BY <1>1, <1>2

(* Of two lists of one length, that with the smaller cap is cut to the shorter one. *)
LEMMA CapsGrow ==
    ASSUME NEW S, NEW p \in Seq(S), NEW q \in Seq(S), Len(p) = Len(q), NEW cap \in Nat \ {0}
    PROVE  /\ CapList(p, 1) \in Seq(S) /\ CapList(q, cap) \in Seq(S)
           /\ Len(CapList(p, 1)) <= Len(CapList(q, cap))
           /\ \A i \in 1..Len(CapList(p, 1)) :
                  i \in 1..Len(p) /\ CapList(p, 1)[i] = p[i] /\ CapList(q, cap)[i] = q[i]
  <1> DEFINE a == CapList(p, 1)
             b == CapList(q, cap)
  <1>1. Len(p) \in Nat /\ 1 \in Nat /\ cap \in Nat /\ cap >= 1
    OBVIOUS
  <1>2. /\ a \in Seq(S) /\ Len(a) <= 1 /\ Len(a) <= Len(p)
        /\ \A i \in 1..Len(a) : i \in 1..Len(p) /\ a[i] = p[i]
    <2>1. /\ CapList(p, 1) \in Seq(S) /\ Len(CapList(p, 1)) <= 1
          /\ Len(CapList(p, 1)) <= Len(p)
      BY ONLY <1>1, p \in Seq(S), CapListFields
    <2>2. \A i \in 1..Len(CapList(p, 1)) : i \in 1..Len(p) /\ CapList(p, 1)[i] = p[i]
      BY ONLY <1>1, p \in Seq(S), CapListFields
    <2> QED
      BY <2>1, <2>2
  <1>3. /\ b \in Seq(S)
        /\ Len(q) <= cap => b = q
        /\ Len(q) > cap => Len(b) = cap
        /\ \A i \in 1..Len(b) : i \in 1..Len(q) /\ b[i] = q[i]
    <2>1. /\ CapList(q, cap) \in Seq(S)
          /\ Len(q) <= cap => CapList(q, cap) = q
          /\ Len(q) > cap => Len(CapList(q, cap)) = cap
      BY ONLY <1>1, q \in Seq(S), CapListFields
    <2>2. \A i \in 1..Len(CapList(q, cap)) : i \in 1..Len(q) /\ CapList(q, cap)[i] = q[i]
      BY ONLY <1>1, q \in Seq(S), CapListFields
    <2> QED
      BY <2>1, <2>2
  <1> HIDE DEF a, b
  <1>4. Len(a) \in Nat /\ Len(b) \in Nat
    BY <1>2, <1>3
  <1>5. Len(a) <= Len(b)
    <2>1. Len(a) <= 1 /\ Len(a) <= Len(p) /\ (Len(b) = Len(q) \/ Len(b) = cap)
      BY <1>1, <1>2, <1>3
    <2> QED
      BY ONLY <1>1, <1>4, <2>1, Len(p) = Len(q)
  <1>6. \A i \in 1..Len(a) : i \in 1..Len(b)
    BY ONLY <1>4, <1>5
  <1>7. a \in Seq(S) /\ b \in Seq(S)
    BY <1>2, <1>3
  <1>8. ASSUME NEW i \in 1..Len(a)
        PROVE  i \in 1..Len(p) /\ a[i] = p[i] /\ b[i] = q[i]
    BY <1>2, <1>3, <1>6
  <1>9. /\ CapList(p, 1) \in Seq(S) /\ CapList(q, cap) \in Seq(S)
        /\ Len(CapList(p, 1)) <= Len(CapList(q, cap))
    BY ONLY <1>5, <1>7 DEF a, b
  <1>10. ASSUME NEW i \in 1..Len(CapList(p, 1))
         PROVE  i \in 1..Len(p) /\ CapList(p, 1)[i] = p[i] /\ CapList(q, cap)[i] = q[i]
    BY <1>8 DEF a, b
  <1> QED
    BY <1>9, <1>10

(* A list of values that are dropped or in a set leaves a list of the set. *)
LEMMA OthersType ==
    ASSUME NEW S, NEW s \in Seq(S \cup {Dropped})
    PROVE  Without(s, Dropped) \in Seq(S)
  <1>1. Without(s, Dropped) \in Seq((S \cup {Dropped}) \ {Dropped})
    BY WithoutType
  <1>2. (S \cup {Dropped}) \ {Dropped} \subseteq S
    OBVIOUS
  <1> QED
    BY <1>1, <1>2

LEMMA CleanedItemsType ==
    ASSUME NEW V, NEW W, NEW below, NEW depth \in Nat, NEW items \in Seq(V),
           \A x \in V : below[x][depth + 1] \in W \cup {Dropped}
    PROVE  /\ CleanedItems(below, depth, items) \in Seq(W \cup {Dropped})
           /\ Without(CleanedItems(below, depth, items), Dropped) \in Seq(W)
  <1>1. CleanedItems(below, depth, items) \in Seq(W \cup {Dropped})
    BY DEF CleanedItems
  <1> QED
    BY <1>1, OthersType

LEMMA CleanedEntriesType ==
    ASSUME NEW V, NEW W, NEW below, NEW depth \in Nat, NEW items \in Seq(Entries(V)),
           \A x \in V : below[x][depth + 1] \in W \cup {Dropped}
    PROVE  /\ CleanedEntries(below, depth, items) \in Seq(CleanEntries(W) \cup {Dropped})
           /\ Without(CleanedEntries(below, depth, items), Dropped) \in Seq(CleanEntries(W))
  <1>1. ASSUME NEW e \in Entries(V)
        PROVE  CleanedEntry(below, depth, e) \in CleanEntries(W) \cup {Dropped}
    <2>1. e.value \in V
      BY DEF Entries
    <2>2. CASE e.trash \/ below[e.value][depth + 1] = Dropped
      BY <2>2 DEF CleanedEntry
    <2>3. CASE ~(e.trash \/ below[e.value][depth + 1] = Dropped)
      <3>1. below[e.value][depth + 1] \in W
        BY <2>1, <2>3
      <3> QED
        BY <2>3, <3>1 DEF CleanedEntry, CleanEntries, Entry
    <2> QED
      BY <2>2, <2>3
  <1>2. CleanedEntries(below, depth, items) \in Seq(CleanEntries(W) \cup {Dropped})
    BY <1>1 DEF CleanedEntries
  <1> QED
    BY <1>2, OthersType

-------------------------------------------------------------------------------
(* What is left of a value is a value, and it is clean.                        *)

LEMMA CleanIsJson ==
    ASSUME NEW cap \in Nat
    PROVE  \A h \in 0..Height : \A v \in Json[h] : \A depth \in Nat :
               CleanUpTo(cap)[h][v][depth] \in Json[h] \cup {Dropped}
  <1> DEFINE C == CleanUpTo(cap)
             Good(h) == \A v \in Json[h] : \A depth \in Nat : C[h][v][depth] \in Json[h] \cup {Dropped}
             G == {h \in 0..Height : Good(h)}
  <1>0. Height \in Nat
    BY CleaningConstants
  <1>1. ASSUME NEW h \in 0..Height, h = 0 \/ Good(h - 1)
        PROVE  Good(h)
    <2> SUFFICES ASSUME NEW v \in Json[h], NEW depth \in Nat
                 PROVE  C[h][v][depth] \in Json[h] \cup {Dropped}
      OBVIOUS
    <2>1. C[h][v][depth] = CleanValue(cap, C[h - 1], v, depth)
      BY CleanCases
    <2> HIDE DEF C
    <2>2. CASE TooDeep(v, depth)
      BY <2>1, <2>2 DEF CleanValue
    <2>3. CASE v.type = "leaf"
      BY <2>1, <2>3 DEF CleanValue
    <2>4. CASE /\ ~TooDeep(v, depth) /\ v.type = "list" /\ h \in 1..Height
               /\ v.items \in Seq(Json[h - 1])
      <3> DEFINE kept == Without(CleanedItems(C[h - 1], depth, v.items), Dropped)
      <3>0. \A x \in Json[h - 1] : C[h - 1][x][depth + 1] \in Json[h - 1] \cup {Dropped}
        BY <1>1, <2>4
      <3>1. kept \in Seq(Json[h - 1])
        BY <2>4, <3>0, CleanedItemsType
      <3>2. C[h][v][depth] = List(CapList(kept, cap))
        BY <2>1, <2>4 DEF CleanValue
      <3> HIDE DEF kept
      <3>3. CapList(kept, cap) \in Seq(Json[h - 1])
        BY <3>1, CapListFields
      <3> QED
        BY <2>4, <3>2, <3>3, JsonBuilds
    <2>5. CASE /\ ~TooDeep(v, depth) /\ v.type = "dict" /\ h \in 1..Height
               /\ v.items \in Seq(Entries(Json[h - 1]))
      <3> DEFINE kept == Without(CleanedEntries(C[h - 1], depth, v.items), Dropped)
      <3>0. \A x \in Json[h - 1] : C[h - 1][x][depth + 1] \in Json[h - 1] \cup {Dropped}
        BY <1>1, <2>5
      <3>1. kept \in Seq(CleanEntries(Json[h - 1]))
        BY <2>5, <3>0, CleanedEntriesType
      <3>2. C[h][v][depth] = Dict(kept)
        BY <2>1, <2>5 DEF CleanValue
      <3> HIDE DEF kept
      <3>3. CleanEntries(Json[h - 1]) \subseteq Entries(Json[h - 1])
        BY DEF CleanEntries, Entries
      <3>4. kept \in Seq(Entries(Json[h - 1]))
        BY <3>1, <3>3
      <3> QED
        BY <2>5, <3>2, <3>4, JsonBuilds
    <2> QED
      BY <2>2, <2>3, <2>4, <2>5, JsonCases
  <1>2. 0 \in G /\ \A h \in 1..Height : h - 1 \in G => h \in G
    <2> HIDE DEF Good
    <2>1. 0 \in 0..Height /\ \A h \in 1..Height : h \in 0..Height
      BY <1>0
    <2> QED
      BY <1>1, <2>1
  <1>3. \A h \in 0..Height : h \in G
    <2> HIDE DEF G
    <2> QED
      BY <1>0, <1>2, UpToInduction
  <1> QED
    BY <1>3

LEMMA CleanIsClean ==
    ASSUME NEW cap \in 1..ListCap
    PROVE  \A h \in 0..Height : \A v \in Json[h] : \A depth \in 0..MaxDepth :
               CleanUpTo(cap)[h][v][depth] \in CleanJson[MaxDepth - depth] \cup {Dropped}
  <1> DEFINE C == CleanUpTo(cap)
             Good(h) == \A v \in Json[h] : \A depth \in 0..MaxDepth :
                            C[h][v][depth] \in CleanJson[MaxDepth - depth] \cup {Dropped}
             G == {h \in 0..Height : Good(h)}
  <1>0. Height \in Nat /\ MaxDepth \in Nat /\ ListCap \in Nat /\ cap \in Nat /\ cap <= ListCap
    BY CleaningConstants
  <1>1. ASSUME NEW h \in 0..Height, h = 0 \/ Good(h - 1)
        PROVE  Good(h)
    <2> SUFFICES ASSUME NEW v \in Json[h], NEW depth \in 0..MaxDepth
                 PROVE  C[h][v][depth] \in CleanJson[MaxDepth - depth] \cup {Dropped}
      OBVIOUS
    <2> DEFINE n == MaxDepth - depth
    <2>0. n \in 0..MaxDepth /\ depth \in Nat
      BY <1>0
    <2>1. C[h][v][depth] = CleanValue(cap, C[h - 1], v, depth)
      BY <2>0, CleanCases
    <2> HIDE DEF C
    <2>2. CASE TooDeep(v, depth)
      BY <2>1, <2>2 DEF CleanValue
    <2>3. CASE v \in Leaves /\ v.type = "leaf"
      <3>1. C[h][v][depth] \in CleanLeaves \cup {Dropped}
        BY <2>1, <2>3 DEF CleanValue, CleanLeaves, TooDeep, IsContainer
      <3> QED
        BY <2>0, <3>1, CleanJsonSteps
    <2>4. ~TooDeep(v, depth) /\ v.type \in {"list", "dict"} =>
              /\ n \in 1..MaxDepth /\ depth + 1 \in 0..MaxDepth /\ n - 1 = MaxDepth - (depth + 1)
      BY <1>0 DEF TooDeep, IsContainer
    <2>5. CASE /\ ~TooDeep(v, depth) /\ v.type = "list" /\ h \in 1..Height
               /\ v.items \in Seq(Json[h - 1])
      <3> DEFINE kept == Without(CleanedItems(C[h - 1], depth, v.items), Dropped)
      <3>1. \A x \in Json[h - 1] : C[h - 1][x][depth + 1] \in CleanJson[n - 1] \cup {Dropped}
        BY <1>0, <1>1, <2>4, <2>5
      <3>2. kept \in Seq(CleanJson[n - 1])
        BY <2>0, <2>5, <3>1, CleanedItemsType
      <3>3. C[h][v][depth] = List(CapList(kept, cap))
        BY <2>1, <2>5 DEF CleanValue
      <3> HIDE DEF kept, n
      <3>4. CapList(kept, cap) \in ShortLists(CleanJson[n - 1])
        <4>1. CapList(kept, cap) \in Seq(CleanJson[n - 1]) /\ Len(CapList(kept, cap)) <= cap
          BY <1>0, <3>2, CapListFields
        <4>2. Len(CapList(kept, cap)) <= ListCap
          BY <1>0, <4>1
        <4> QED
          BY <4>1, <4>2 DEF ShortLists
      <3>5. List(CapList(kept, cap)) \in CleanJson[n]
        BY <2>4, <2>5, <3>4, CleanJsonBuilds
      <3> QED
        BY <3>3, <3>5 DEF n
    <2>6. CASE /\ ~TooDeep(v, depth) /\ v.type = "dict" /\ h \in 1..Height
               /\ v.items \in Seq(Entries(Json[h - 1]))
      <3> DEFINE kept == Without(CleanedEntries(C[h - 1], depth, v.items), Dropped)
      <3>1. \A x \in Json[h - 1] : C[h - 1][x][depth + 1] \in CleanJson[n - 1] \cup {Dropped}
        BY <1>0, <1>1, <2>4, <2>6
      <3>2. kept \in Seq(CleanEntries(CleanJson[n - 1]))
        BY <2>0, <2>6, <3>1, CleanedEntriesType
      <3>3. C[h][v][depth] = Dict(kept)
        BY <2>1, <2>6 DEF CleanValue
      <3> HIDE DEF kept, n
      <3>4. Dict(kept) \in CleanJson[n]
        BY <2>4, <2>6, <3>2, CleanJsonBuilds
      <3> QED
        BY <3>3, <3>4 DEF n
    <2> QED
      BY <2>2, <2>3, <2>5, <2>6, JsonCases
  <1>2. 0 \in G /\ \A h \in 1..Height : h - 1 \in G => h \in G
    <2> HIDE DEF Good
    <2>1. 0 \in 0..Height /\ \A h \in 1..Height : h \in 0..Height
      BY <1>0
    <2> QED
      BY <1>1, <2>1
  <1>3. \A h \in 0..Height : h \in G
    <2> HIDE DEF G
    <2> QED
      BY <1>0, <1>2, UpToInduction
  <1> QED
    BY <1>3

-------------------------------------------------------------------------------
(* A clean value stays as it is.                                               *)

LEMMA CleanKeeps ==
    \A h \in 0..Height : \A v \in Json[h] : \A depth \in 0..MaxDepth :
        v \in CleanJson[MaxDepth - depth] => CleanUpTo(ListCap)[h][v][depth] = v
  <1> DEFINE C == CleanUpTo(ListCap)
             Good(h) == \A v \in Json[h] : \A depth \in 0..MaxDepth :
                            v \in CleanJson[MaxDepth - depth] => C[h][v][depth] = v
             G == {h \in 0..Height : Good(h)}
  <1>0. Height \in Nat /\ MaxDepth \in Nat /\ ListCap \in Nat
    BY CleaningConstants
  <1>1. ASSUME NEW h \in 0..Height, h = 0 \/ Good(h - 1)
        PROVE  Good(h)
    <2> SUFFICES ASSUME NEW v \in Json[h], NEW depth \in 0..MaxDepth,
                        v \in CleanJson[MaxDepth - depth]
                 PROVE  C[h][v][depth] = v
      OBVIOUS
    <2> DEFINE n == MaxDepth - depth
    <2>0. n \in 0..MaxDepth /\ depth \in Nat
      BY <1>0
    <2>1. C[h][v][depth] = CleanValue(ListCap, C[h - 1], v, depth)
      BY <2>0, CleanCases
    <2> HIDE DEF C
    <2>2. /\ v.type = "leaf" => ~v.blob
          /\ v.type = "list" => n \in 1..MaxDepth /\ v.items \in ShortLists(CleanJson[n - 1])
          /\ v.type = "dict" => n \in 1..MaxDepth /\ v.items \in Seq(CleanEntries(CleanJson[n - 1]))
      BY <2>0, CleanJsonCases
    <2>3. CASE v.type = "leaf"
      BY <2>1, <2>2, <2>3 DEF CleanValue, TooDeep, IsContainer
    <2>4. v.type \in {"list", "dict"} =>
              /\ ~TooDeep(v, depth) /\ depth + 1 \in 0..MaxDepth /\ n - 1 = MaxDepth - (depth + 1)
      BY <1>0, <2>2 DEF TooDeep
    <2>5. h \in 1..Height /\ v.type \in {"list", "dict"} =>
              \A x \in Json[h - 1] : x \in CleanJson[n - 1] => C[h - 1][x][depth + 1] = x
      <3>1. HAVE h \in 1..Height /\ v.type \in {"list", "dict"}
      <3>2. depth + 1 \in 0..MaxDepth /\ n - 1 = MaxDepth - (depth + 1) /\ Good(h - 1)
        BY <1>1, <2>4, <3>1
      <3> HIDE DEF n
      <3> QED
        BY <3>2
    <2>6. CASE v.type = "list" /\ h \in 1..Height /\ v = List(v.items) /\ v.items \in Seq(Json[h - 1])
      <3> DEFINE cleaned == CleanedItems(C[h - 1], depth, v.items)
      <3>1. \A i \in DOMAIN v.items : v.items[i] \in Json[h - 1] /\ v.items[i] \in CleanJson[n - 1]
        BY <2>2, <2>6 DEF ShortLists
      <3>2. \A i \in DOMAIN v.items : C[h - 1][v.items[i]][depth + 1] = v.items[i]
        BY <2>5, <2>6, <3>1
      <3>3. cleaned = v.items
        BY <2>6, <3>2 DEF CleanedItems
      <3>4. Without(v.items, Dropped) = v.items
        <4>1. h - 1 \in 0..Height
          BY <1>0, <2>6
        <4>2. Json[h - 1] = Json[h - 1] \ {Dropped}
          BY <4>1, JsonNotDropped
        <4>3. v.items \in Seq(Json[h - 1] \ {Dropped})
          BY <2>6, <4>2
        <4> QED
          BY <4>3, WithoutKeeps
      <3>5. CapList(v.items, ListCap) = v.items
        <4>1. Len(v.items) <= ListCap
          BY <2>2, <2>6 DEF ShortLists
        <4> QED
          BY <1>0, <2>6, <4>1, CapListFields
      <3>6. C[h][v][depth] = List(CapList(Without(cleaned, Dropped), ListCap))
        BY <2>1, <2>4, <2>6 DEF CleanValue
      <3> HIDE DEF cleaned
      <3> QED
        BY <2>6, <3>3, <3>4, <3>5, <3>6
    <2>7. CASE /\ v.type = "dict" /\ h \in 1..Height
               /\ v = Dict(v.items) /\ v.items \in Seq(Entries(Json[h - 1]))
      <3> DEFINE cleaned == CleanedEntries(C[h - 1], depth, v.items)
      <3>0. h - 1 \in 0..Height
        BY <1>0, <2>7
      <3>1. ASSUME NEW e \in Entries(Json[h - 1]), e \in CleanEntries(CleanJson[n - 1])
            PROVE  CleanedEntry(C[h - 1], depth, e) = e
        <4>1. /\ e.value \in Json[h - 1] /\ e.value \in CleanJson[n - 1] /\ e.trash = FALSE
              /\ e = Entry(FALSE, e.value)
          BY <3>1 DEF Entries, CleanEntries, Entry
        <4>2. C[h - 1][e.value][depth + 1] = e.value
          BY <2>5, <2>7, <4>1
        <4>3. e.value # Dropped
          BY <3>0, <4>1, JsonNotDropped
        <4> QED
          BY <4>1, <4>2, <4>3 DEF CleanedEntry
      <3>2. \A i \in DOMAIN v.items : CleanedEntry(C[h - 1], depth, v.items[i]) = v.items[i]
        <4>1. \A i \in DOMAIN v.items :
                  /\ v.items[i] \in Entries(Json[h - 1])
                  /\ v.items[i] \in CleanEntries(CleanJson[n - 1])
          BY <2>2, <2>7
        <4> QED
          BY <3>1, <4>1
      <3>3. cleaned = v.items
        BY <2>7, <3>2 DEF CleanedEntries
      <3>4. Without(v.items, Dropped) = v.items
        <4>1. Entries(Json[h - 1]) = Entries(Json[h - 1]) \ {Dropped}
          BY JsonNotDropped
        <4>2. v.items \in Seq(Entries(Json[h - 1]) \ {Dropped})
          BY <2>7, <4>1
        <4> QED
          BY <4>2, WithoutKeeps
      <3>5. C[h][v][depth] = Dict(Without(cleaned, Dropped))
        BY <2>1, <2>4, <2>7 DEF CleanValue
      <3> HIDE DEF cleaned
      <3> QED
        BY <2>7, <3>3, <3>4, <3>5
    <2> QED
      BY <2>3, <2>6, <2>7, JsonCases
  <1>2. 0 \in G /\ \A h \in 1..Height : h - 1 \in G => h \in G
    <2> HIDE DEF Good
    <2>1. 0 \in 0..Height /\ \A h \in 1..Height : h \in 0..Height
      BY <1>0
    <2> QED
      BY <1>1, <2>1
  <1>3. \A h \in 0..Height : h \in G
    <2> HIDE DEF G
    <2> QED
      BY <1>0, <1>2, UpToInduction
  <1> QED
    BY <1>3

-------------------------------------------------------------------------------
(* A smaller cap leaves less, and drops the same.                              *)

LEMMA ItemSizesType ==
    ASSUME NEW h \in 1..Height, NEW s \in Seq(Json[h - 1])
    PROVE  /\ ItemSizes(h, s) \in Seq(Nat) /\ Len(ItemSizes(h, s)) = Len(s)
           /\ \A i \in 1..Len(s) :
                  ItemSizes(h, s)[i] = 1 + SizeUpTo[h - 1][s[i]] /\ SizeUpTo[h - 1][s[i]] \in Nat
  <1>1. h - 1 \in 0..Height
    BY CleaningConstants
  <1>2. \A v \in Json[h - 1] : SizeUpTo[h - 1][v] \in Nat
    BY <1>1, SizeType
  <1>3. \A i \in DOMAIN s : SizeUpTo[h - 1][s[i]] \in Nat
    BY <1>2
  <1>4. ItemSizes(h, s) \in [1..Len(s) -> Nat] /\ Len(s) \in Nat
    BY <1>3 DEF ItemSizes
  <1> QED
    BY <1>3, <1>4 DEF ItemSizes

LEMMA ListsGrow ==
    ASSUME NEW h \in 1..Height, NEW a \in Seq(Json[h - 1]), NEW b \in Seq(Json[h - 1]),
           Len(a) <= Len(b),
           \A i \in 1..Len(a) : SizeUpTo[h - 1][a[i]] <= SizeUpTo[h - 1][b[i]]
    PROVE  SizeUpTo[h][List(a)] <= SizeUpTo[h][List(b)]
  <1> DEFINE s == ItemSizes(h, a)
             t == ItemSizes(h, b)
  <1>1. /\ s \in Seq(Nat) /\ Len(s) = Len(a) /\ t \in Seq(Nat) /\ Len(t) = Len(b)
        /\ \A i \in 1..Len(a) :
               s[i] = 1 + SizeUpTo[h - 1][a[i]] /\ SizeUpTo[h - 1][a[i]] \in Nat
        /\ \A i \in 1..Len(b) :
               t[i] = 1 + SizeUpTo[h - 1][b[i]] /\ SizeUpTo[h - 1][b[i]] \in Nat
    BY ItemSizesType
  <1>2. /\ SizeUpTo[h][List(a)] = 2 + Sum(s) /\ SizeUpTo[h][List(b)] = 2 + Sum(t)
    <2>1. h \in 0..Height /\ h # 0
      BY CleaningConstants
    <2>2. List(a) \in Json[h] /\ List(b) \in Json[h]
      BY <2>1, JsonBuilds
    <2>3. /\ List(a).type = "list" /\ List(a).items = a
          /\ List(b).type = "list" /\ List(b).items = b
      BY DEF List
    <2> QED
      BY <2>1, <2>2, <2>3, SizeCases
  <1> HIDE DEF s, t
  <1>3. \A i \in 1..Len(s) : s[i] <= t[i]
    <2> SUFFICES ASSUME NEW i \in 1..Len(s)
                 PROVE  s[i] <= t[i]
      OBVIOUS
    <2> DEFINE x == SizeUpTo[h - 1][a[i]]
               y == SizeUpTo[h - 1][b[i]]
    <2>1. i \in 1..Len(a) /\ i \in 1..Len(b)
      BY <1>1
    <2>2. s[i] = 1 + x /\ t[i] = 1 + y /\ x \in Nat /\ y \in Nat /\ x <= y
      BY <1>1, <2>1
    <2> HIDE DEF x, y
    <2> QED
      BY <2>2
  <1>4. Sum(s) <= Sum(t) /\ Sum(s) \in Nat /\ Sum(t) \in Nat
    BY <1>1, <1>3, SumGrows, SumType
  <1> QED
    BY <1>2, <1>4

LEMMA EntrySizesType ==
    ASSUME NEW h \in 1..Height, NEW s \in Seq(Entries(Json[h - 1]))
    PROVE  /\ EntrySizes(h, s) \in Seq(Nat) /\ Len(EntrySizes(h, s)) = Len(s)
           /\ \A i \in 1..Len(s) :
                  EntrySizes(h, s)[i] = 2 + SizeUpTo[h - 1][s[i].value] /\ SizeUpTo[h - 1][s[i].value] \in Nat
  <1>1. h - 1 \in 0..Height
    BY CleaningConstants
  <1>2. \A v \in Json[h - 1] : SizeUpTo[h - 1][v] \in Nat
    BY <1>1, SizeType
  <1>3. \A i \in DOMAIN s : SizeUpTo[h - 1][s[i].value] \in Nat
    <2>1. \A e \in Entries(Json[h - 1]) : e.value \in Json[h - 1]
      BY DEF Entries
    <2>2. \A i \in DOMAIN s : s[i] \in Entries(Json[h - 1])
      OBVIOUS
    <2> QED
      BY <1>2, <2>1, <2>2
  <1>4. EntrySizes(h, s) \in [1..Len(s) -> Nat] /\ Len(s) \in Nat
    BY <1>3 DEF EntrySizes
  <1> QED
    BY <1>3, <1>4 DEF EntrySizes

LEMMA DictsGrow ==
    ASSUME NEW h \in 1..Height, NEW a \in Seq(Entries(Json[h - 1])), NEW b \in Seq(Entries(Json[h - 1])),
           Len(a) <= Len(b),
           \A i \in 1..Len(a) : SizeUpTo[h - 1][a[i].value] <= SizeUpTo[h - 1][b[i].value]
    PROVE  SizeUpTo[h][Dict(a)] <= SizeUpTo[h][Dict(b)]
  <1> DEFINE s == EntrySizes(h, a)
             t == EntrySizes(h, b)
  <1>1. /\ s \in Seq(Nat) /\ Len(s) = Len(a) /\ t \in Seq(Nat) /\ Len(t) = Len(b)
        /\ \A i \in 1..Len(a) :
               s[i] = 2 + SizeUpTo[h - 1][a[i].value] /\ SizeUpTo[h - 1][a[i].value] \in Nat
        /\ \A i \in 1..Len(b) :
               t[i] = 2 + SizeUpTo[h - 1][b[i].value] /\ SizeUpTo[h - 1][b[i].value] \in Nat
    BY EntrySizesType
  <1>2. /\ SizeUpTo[h][Dict(a)] = 2 + Sum(s) /\ SizeUpTo[h][Dict(b)] = 2 + Sum(t)
    <2>1. h \in 0..Height /\ h # 0
      BY CleaningConstants
    <2>2. Dict(a) \in Json[h] /\ Dict(b) \in Json[h]
      BY <2>1, JsonBuilds
    <2>3. /\ Dict(a).type = "dict" /\ Dict(a).items = a
          /\ Dict(b).type = "dict" /\ Dict(b).items = b
      BY DEF Dict
    <2> QED
      BY <2>1, <2>2, <2>3, SizeCases
  <1> HIDE DEF s, t
  <1>3. \A i \in 1..Len(s) : s[i] <= t[i]
    <2> SUFFICES ASSUME NEW i \in 1..Len(s)
                 PROVE  s[i] <= t[i]
      OBVIOUS
    <2> DEFINE x == SizeUpTo[h - 1][a[i].value]
               y == SizeUpTo[h - 1][b[i].value]
    <2>1. i \in 1..Len(a) /\ i \in 1..Len(b)
      BY <1>1
    <2>2. s[i] = 2 + x /\ t[i] = 2 + y /\ x \in Nat /\ y \in Nat /\ x <= y
      BY <1>1, <2>1
    <2> HIDE DEF x, y
    <2> QED
      BY <2>2
  <1>4. Sum(s) <= Sum(t) /\ Sum(s) \in Nat /\ Sum(t) \in Nat
    BY <1>1, <1>3, SumGrows, SumType
  <1> QED
    BY <1>2, <1>4

(* The two results for a value: both dropped, or the second as large as the first. *)
Grows(h, p, q) ==
    /\ p = Dropped <=> q = Dropped
    /\ p # Dropped => p \in Json[h] /\ q \in Json[h] /\ SizeUpTo[h][p] <= SizeUpTo[h][q]

LEMMA CleanGrows ==
    ASSUME NEW cap \in Nat \ {0}
    PROVE  \A h \in 0..Height : \A v \in Json[h] : \A depth \in Nat :
               Grows(h, CleanUpTo(1)[h][v][depth], CleanUpTo(cap)[h][v][depth])
  <1> DEFINE C == CleanUpTo(1)
             D == CleanUpTo(cap)
             Good(h) == \A v \in Json[h] : \A depth \in Nat : Grows(h, C[h][v][depth], D[h][v][depth])
             G == {h \in 0..Height : Good(h)}
  <1>0. Height \in Nat
    BY CleaningConstants
  <1>1. ASSUME NEW h \in 0..Height, h = 0 \/ Good(h - 1)
        PROVE  Good(h)
    <2> SUFFICES ASSUME NEW v \in Json[h], NEW depth \in Nat
                 PROVE  Grows(h, C[h][v][depth], D[h][v][depth])
      OBVIOUS
    <2>1. /\ C[h][v][depth] = CleanValue(1, C[h - 1], v, depth)
          /\ D[h][v][depth] = CleanValue(cap, D[h - 1], v, depth)
      BY CleanCases
    <2>2. C[h][v][depth] \in Json[h] \cup {Dropped} /\ D[h][v][depth] \in Json[h] \cup {Dropped}
      BY CleanIsJson
    <2> HIDE DEF C, D
    <2>3. CASE TooDeep(v, depth)
      BY <2>1, <2>3 DEF CleanValue, Grows
    <2>4. CASE ~TooDeep(v, depth) /\ v.type = "leaf"
      <3>1. C[h][v][depth] = D[h][v][depth]
        BY <2>1, <2>4 DEF CleanValue
      <3>2. C[h][v][depth] # Dropped => SizeUpTo[h][C[h][v][depth]] \in Nat
        BY <2>2, SizeType
      <3> QED
        BY <2>2, <3>1, <3>2 DEF Grows
    <2>5. ASSUME h \in 1..Height
          PROVE  \A x \in Json[h - 1] :
                     Grows(h - 1, C[h - 1][x][depth + 1], D[h - 1][x][depth + 1])
      <3>1. Good(h - 1) /\ depth + 1 \in Nat
        BY <1>1, <2>5
      <3> QED
        BY <3>1
    <2>6. CASE /\ ~TooDeep(v, depth) /\ v.type = "list" /\ h \in 1..Height
               /\ v.items \in Seq(Json[h - 1])
      <3> DEFINE V == Json[h - 1]
                 s == CleanedItems(C[h - 1], depth, v.items)
                 t == CleanedItems(D[h - 1], depth, v.items)
                 R == {pair \in V \X V : SizeUpTo[h - 1][pair[1]] <= SizeUpTo[h - 1][pair[2]]}
                 p == Without(s, Dropped)
                 q == Without(t, Dropped)
      <3>1. ASSUME NEW x \in V
            PROVE  /\ C[h - 1][x][depth + 1] \in V \cup {Dropped}
                   /\ D[h - 1][x][depth + 1] \in V \cup {Dropped}
        BY <2>5, <2>6 DEF Grows
      <3>2. /\ s \in Seq(V \cup {Dropped}) /\ t \in Seq(V \cup {Dropped})
            /\ p \in Seq(V) /\ q \in Seq(V)
        BY <2>6, <3>1, CleanedItemsType
      <3>3. /\ Len(s) = Len(t)
            /\ \A i \in 1..Len(s) :
                   (s[i] = Dropped <=> t[i] = Dropped) /\ (s[i] # Dropped => <<s[i], t[i]>> \in R)
        <4>1. Len(s) = Len(v.items) /\ Len(t) = Len(v.items)
          BY <2>6 DEF CleanedItems
        <4>2. ASSUME NEW i \in 1..Len(v.items)
              PROVE  (s[i] = Dropped <=> t[i] = Dropped) /\ (s[i] # Dropped => <<s[i], t[i]>> \in R)
          <5>1. i \in DOMAIN v.items /\ v.items[i] \in V
            BY <2>6
          <5>2. Grows(h - 1, C[h - 1][v.items[i]][depth + 1], D[h - 1][v.items[i]][depth + 1])
            BY <2>5, <2>6, <5>1
          <5>3. /\ s[i] = C[h - 1][v.items[i]][depth + 1]
                /\ t[i] = D[h - 1][v.items[i]][depth + 1]
            BY <5>1 DEF CleanedItems
          <5>4. Grows(h - 1, s[i], t[i])
            BY <5>2, <5>3
          <5> HIDE DEF s, t
          <5> QED
            BY <5>4 DEF Grows
        <4> QED
          BY <4>1, <4>2
      <3> HIDE DEF s, t, R
      <3>4. Len(p) = Len(q) /\ \A i \in 1..Len(p) : <<p[i], q[i]>> \in R
        <4> DEFINE T == V \cup {Dropped}
        <4>1. s \in Seq(T) /\ t \in Seq(T)
          BY <3>2
        <4> HIDE DEF T, V
        <4> QED
          BY <3>3, <4>1, WithoutPairs
      <3> HIDE DEF p, q
      <3> DEFINE a == CapList(p, 1)
                 b == CapList(q, cap)
      <3>5. /\ a \in Seq(V) /\ b \in Seq(V) /\ Len(a) <= Len(b)
            /\ \A i \in 1..Len(a) : i \in 1..Len(p) /\ a[i] = p[i] /\ b[i] = q[i]
        <4> HIDE DEF V
        <4>1. p \in Seq(V) /\ q \in Seq(V)
          BY <3>2
        <4>2. cap \in Nat \ {0}
          BY CleaningConstants
        <4> QED
          BY ONLY <3>4, <4>1, <4>2, CapsGrow
      <3> HIDE DEF a, b
      <3>6. \A i \in 1..Len(a) : SizeUpTo[h - 1][a[i]] <= SizeUpTo[h - 1][b[i]]
        BY <3>4, <3>5 DEF R
      <3>7. SizeUpTo[h][List(a)] <= SizeUpTo[h][List(b)]
        BY <2>6, <3>5, <3>6, ListsGrow
      <3>8. C[h][v][depth] = List(a) /\ D[h][v][depth] = List(b)
        BY <2>1, <2>6 DEF CleanValue, a, b, p, q, s, t
      <3>9. List(a) # Dropped /\ List(b) # Dropped
        BY DEF List, Dropped
      <3> QED
        BY <2>2, <3>7, <3>8, <3>9 DEF Grows
    <2>7. CASE /\ ~TooDeep(v, depth) /\ v.type = "dict" /\ h \in 1..Height
               /\ v.items \in Seq(Entries(Json[h - 1]))
      <3> DEFINE V == Json[h - 1]
                 s == CleanedEntries(C[h - 1], depth, v.items)
                 t == CleanedEntries(D[h - 1], depth, v.items)
                 R == {pair \in Entries(V) \X Entries(V) :
                           SizeUpTo[h - 1][pair[1].value] <= SizeUpTo[h - 1][pair[2].value]}
                 p == Without(s, Dropped)
                 q == Without(t, Dropped)
      <3>1. ASSUME NEW x \in V
            PROVE  /\ C[h - 1][x][depth + 1] \in V \cup {Dropped}
                   /\ D[h - 1][x][depth + 1] \in V \cup {Dropped}
        BY <2>5, <2>7 DEF Grows
      <3>2. /\ s \in Seq(CleanEntries(V) \cup {Dropped}) /\ t \in Seq(CleanEntries(V) \cup {Dropped})
            /\ p \in Seq(CleanEntries(V)) /\ q \in Seq(CleanEntries(V))
        BY <2>7, <3>1, CleanedEntriesType
      <3>3. ASSUME NEW e \in Entries(V)
            PROVE  LET c == CleanedEntry(C[h - 1], depth, e)
                       d == CleanedEntry(D[h - 1], depth, e)
                   IN  (c = Dropped <=> d = Dropped) /\ (c # Dropped => <<c, d>> \in R)
        <4> DEFINE x == C[h - 1][e.value][depth + 1]
                   y == D[h - 1][e.value][depth + 1]
        <4>1. e.value \in V
          BY DEF Entries
        <4>2. Grows(h - 1, x, y)
          BY <2>5, <2>7, <4>1
        <4> HIDE DEF x, y
        <4>3. CASE e.trash \/ x = Dropped
          <5>1. CleanedEntry(C[h - 1], depth, e) = Dropped /\ CleanedEntry(D[h - 1], depth, e) = Dropped
            BY <4>2, <4>3 DEF CleanedEntry, Grows, x, y
          <5> QED
            BY <5>1
        <4>4. CASE ~(e.trash \/ x = Dropped)
          <5>1. x \in V /\ y \in V /\ y # Dropped /\ SizeUpTo[h - 1][x] <= SizeUpTo[h - 1][y]
            BY <4>2, <4>4 DEF Grows
          <5>2. /\ CleanedEntry(C[h - 1], depth, e) = Entry(FALSE, x)
                /\ CleanedEntry(D[h - 1], depth, e) = Entry(FALSE, y)
            BY <4>4, <5>1 DEF CleanedEntry, x, y
          <5>3. /\ Entry(FALSE, x) \in Entries(V) /\ Entry(FALSE, y) \in Entries(V)
                /\ Entry(FALSE, x).value = x /\ Entry(FALSE, y).value = y
            BY <5>1 DEF Entries, Entry
          <5>4. Entry(FALSE, x) # Dropped /\ Entry(FALSE, y) # Dropped
            BY <5>3, JsonNotDropped
          <5> QED
            BY <5>1, <5>2, <5>3, <5>4
        <4> QED
          BY <4>3, <4>4
      <3>4. /\ Len(s) = Len(t)
            /\ \A i \in 1..Len(s) :
                   (s[i] = Dropped <=> t[i] = Dropped) /\ (s[i] # Dropped => <<s[i], t[i]>> \in R)
        <4>1. Len(s) = Len(v.items) /\ Len(t) = Len(v.items)
          BY <2>7 DEF CleanedEntries
        <4>2. ASSUME NEW i \in 1..Len(v.items)
              PROVE  (s[i] = Dropped <=> t[i] = Dropped) /\ (s[i] # Dropped => <<s[i], t[i]>> \in R)
          <5>1. i \in DOMAIN v.items /\ v.items[i] \in Entries(V)
            BY <2>7
          <5>2. /\ s[i] = CleanedEntry(C[h - 1], depth, v.items[i])
                /\ t[i] = CleanedEntry(D[h - 1], depth, v.items[i])
            BY <5>1 DEF CleanedEntries
          <5> HIDE DEF s, t, R
          <5> QED
            BY <3>3, <5>1, <5>2
        <4> QED
          BY <4>1, <4>2
      <3> HIDE DEF s, t, R
      <3>5. Len(p) = Len(q) /\ \A i \in 1..Len(p) : <<p[i], q[i]>> \in R
        <4> DEFINE T == CleanEntries(V) \cup {Dropped}
        <4>1. s \in Seq(T) /\ t \in Seq(T)
          BY <3>2
        <4> HIDE DEF T, V
        <4> QED
          BY <3>4, <4>1, WithoutPairs
      <3> HIDE DEF p, q
      <3>6. /\ p \in Seq(Entries(V)) /\ q \in Seq(Entries(V)) /\ Len(p) <= Len(q)
            /\ \A i \in 1..Len(p) : SizeUpTo[h - 1][p[i].value] <= SizeUpTo[h - 1][q[i].value]
        <4>1. CleanEntries(V) \subseteq Entries(V)
          BY DEF CleanEntries, Entries
        <4>2. p \in Seq(Entries(V)) /\ q \in Seq(Entries(V))
          BY <3>2, <4>1
        <4>3. Len(p) <= Len(q)
          BY <3>5, <4>2
        <4>4. \A i \in 1..Len(p) : SizeUpTo[h - 1][p[i].value] <= SizeUpTo[h - 1][q[i].value]
          BY <3>5 DEF R
        <4> QED
          BY <4>2, <4>3, <4>4
      <3>7. SizeUpTo[h][Dict(p)] <= SizeUpTo[h][Dict(q)]
        BY <2>7, <3>6, DictsGrow
      <3>8. C[h][v][depth] = Dict(p) /\ D[h][v][depth] = Dict(q)
        BY <2>1, <2>7 DEF CleanValue, p, q, s, t
      <3>9. Dict(p) # Dropped /\ Dict(q) # Dropped
        BY DEF Dict, Dropped
      <3> QED
        BY <2>2, <3>7, <3>8, <3>9 DEF Grows
    <2> QED
      BY <2>3, <2>4, <2>6, <2>7, JsonCases
  <1>2. 0 \in G /\ \A h \in 1..Height : h - 1 \in G => h \in G
    <2> HIDE DEF Good
    <2>1. 0 \in 0..Height /\ \A h \in 1..Height : h \in 0..Height
      BY <1>0
    <2> QED
      BY <1>1, <2>1
  <1>3. \A h \in 0..Height : h \in G
    <2> HIDE DEF G
    <2> QED
      BY <1>0, <1>2, UpToInduction
  <1> QED
    BY <1>3

-------------------------------------------------------------------------------
(* The loop of clean_snapshot.                                                 *)

LEMMA SnapshotClean ==
    ASSUME NEW s \in Snapshots, NEW cap \in 1..ListCap
    PROVE  /\ s \in Json[Height] /\ Clean(s, 0, cap) \in Json[Height] /\ IsClean(Clean(s, 0, cap))
           /\ Clean(s, 0, cap).type = "dict" /\ JsonSize(Clean(s, 0, cap)) \in Nat
           /\ Clean(s, 0, cap) \notin {NotYet, Refused}
  <1> DEFINE v == Clean(s, 0, cap)
  <1>1. /\ s \in Json[Height] /\ s.type = "dict" /\ Height \in 0..Height
        /\ MaxDepth \in Nat /\ 0 \in 0..MaxDepth /\ MaxDepth > 0 /\ MaxDepth - 0 = MaxDepth
        /\ cap \in Nat /\ 0 \in Nat
    BY CleaningConstants
  <1>2. v = CleanValue(cap, CleanUpTo(cap)[Height - 1], s, 0)
    BY <1>1, CleanCases DEF Clean
  <1>3. v.type = "dict" /\ v # Dropped
    <2>1. ~TooDeep(s, 0)
      BY <1>1 DEF TooDeep
    <2>2. v = Dict(Without(CleanedEntries(CleanUpTo(cap)[Height - 1], 0, s.items), Dropped))
      BY <1>1, <1>2, <2>1 DEF CleanValue
    <2> QED
      BY <2>2 DEF Dict, Dropped
  <1>4. v \in Json[Height] /\ v \in CleanJson[MaxDepth]
    <2>1. v \in Json[Height] \cup {Dropped}
      BY <1>1, CleanIsJson DEF Clean
    <2>2. v \in CleanJson[MaxDepth - 0] \cup {Dropped}
      BY <1>1, CleanIsClean DEF Clean
    <2> HIDE DEF v
    <2> QED
      BY <1>1, <1>3, <2>1, <2>2
  <1>5. JsonSize(v) \in Nat
    BY <1>1, <1>4, SizeType DEF JsonSize
  <1>6. v \notin {NotYet, Refused}
    <2>1. NotYet.type = "not yet" /\ Refused.type = "refused"
      BY DEF NotYet, Refused
    <2> HIDE DEF v
    <2> QED
      BY <1>3, <2>1
  <1> QED
    BY <1>1, <1>3, <1>4, <1>5, <1>6 DEF IsClean

(* What the round of a cap makes of the snapshot. *)
Attempt(a) == Clean(snapshot, 0, ListCaps[a])
TooLarge(a) == JsonSize(Attempt(a)) >= SizeLimit

(* Every round before was in vain, and what is stored is what the last one made. *)
CleaningInv ==
    /\ snapshot \in Snapshots /\ attempt \in 1..3
    /\ stored = NotYet => \A a \in 1..2 : a < attempt => TooLarge(a)
    /\ stored = Refused => TooLarge(1) /\ TooLarge(2)
    /\ stored \notin {NotYet, Refused} =>
           /\ JsonSize(stored) < SizeLimit
           /\ \/ stored = Attempt(1)
              \/ stored = Attempt(2) /\ TooLarge(1)

LEMMA Attempts ==
    ASSUME snapshot \in Snapshots, NEW a \in 1..2
    PROVE  /\ ListCaps[a] \in 1..ListCap /\ Attempt(a) \notin {NotYet, Refused}
           /\ IsClean(Attempt(a)) /\ JsonSize(Attempt(a)) \in Nat
  <1>1. ListCaps[a] \in 1..ListCap
    BY CleaningConstants DEF ListCaps
  <1> QED
    BY <1>1, SnapshotClean DEF Attempt

LEMMA CleaningInvariance == CleaningSpec => []CleaningInv
  <1>1. CleaningInit(Snapshots) => CleaningInv
    <2>1. NotYet # Refused
      BY DEF NotYet, Refused
    <2>2. \A a \in 1..2 : ~(a < 1)
      OBVIOUS
    <2>3. 1 \in 1..3
      OBVIOUS
    <2> QED
      BY <2>1, <2>2, <2>3 DEF CleaningInit, CleaningInv
  <1>2. CleaningInv /\ [CleaningStep]_cleaningVars => CleaningInv'
    <2> SUFFICES ASSUME CleaningInv, [CleaningStep]_cleaningVars
                 PROVE  CleaningInv'
      OBVIOUS
    <2>0. NotYet # Refused
      BY DEF NotYet, Refused
    <2>1. CASE TryListCap
      <3>1. /\ attempt \in 1..2 /\ attempt' = attempt + 1 /\ snapshot' = snapshot /\ stored = NotYet
            /\ stored' = IF JsonSize(Attempt(attempt)) < SizeLimit THEN Attempt(attempt) ELSE NotYet
        BY <2>1 DEF TryListCap, CleaningInv, ListCaps, Attempt
      <3>2. \A a : Attempt(a)' = Attempt(a) /\ (TooLarge(a)' <=> TooLarge(a))
        BY <3>1 DEF Attempt, TooLarge
      <3>3. /\ snapshot \in Snapshots /\ \A a \in 1..2 : a < attempt => TooLarge(a)
            /\ JsonSize(Attempt(attempt)) \in Nat /\ SizeLimit \in Nat
            /\ Attempt(attempt) \notin {NotYet, Refused}
        BY <3>1, Attempts, CleaningConstants DEF CleaningInv
      <3>4. CASE JsonSize(Attempt(attempt)) < SizeLimit
        <4>1. stored' = Attempt(attempt)
          BY <3>1, <3>4
        <4>2. JsonSize(stored)' < SizeLimit
          BY <3>4, <4>1
        <4>3. \/ stored' = Attempt(1)'
              \/ stored' = Attempt(2)' /\ TooLarge(1)'
          <5>1. CASE attempt = 1
            BY <3>2, <4>1, <5>1
          <5>2. CASE attempt = 2
            <6>1. 1 \in 1..2 /\ 1 < attempt
              BY <5>2
            <6>2. TooLarge(1)
              BY <3>3, <6>1
            <6> QED
              BY <3>2, <4>1, <5>2, <6>2
          <5>3. attempt = 1 \/ attempt = 2
            BY <3>1
          <5> QED
            BY <5>1, <5>2, <5>3
        <4> QED
          BY <3>1, <3>3, <4>1, <4>2, <4>3 DEF CleaningInv
      <3>5. CASE ~(JsonSize(Attempt(attempt)) < SizeLimit)
        <4>1. stored' = NotYet /\ TooLarge(attempt)
          BY <3>1, <3>3, <3>5 DEF TooLarge
        <4>2. \A a \in 1..2 : a < attempt' => TooLarge(a)'
          <5>1. \A a \in 1..2 : a < attempt + 1 => a < attempt \/ a = attempt
            BY <3>1
          <5> QED
            BY <3>1, <3>2, <3>3, <4>1, <5>1
        <4> QED
          BY <2>0, <3>1, <3>3, <4>1, <4>2 DEF CleaningInv
      <3> QED
        BY <3>4, <3>5
    <2>2. CASE Refuse
      <3>1. /\ attempt = 3 /\ attempt' = attempt /\ snapshot' = snapshot
            /\ stored = NotYet /\ stored' = Refused
        BY <2>2 DEF Refuse, CleaningInv, ListCaps
      <3>2. \A a : Attempt(a)' = Attempt(a) /\ (TooLarge(a)' <=> TooLarge(a))
        BY <3>1 DEF Attempt, TooLarge
      <3>3. TooLarge(1) /\ TooLarge(2)
        BY <3>1 DEF CleaningInv
      <3> QED
        BY <2>0, <3>1, <3>2, <3>3 DEF CleaningInv
    <2>3. CASE UNCHANGED cleaningVars
      BY <2>3 DEF CleaningInv, cleaningVars, Attempt, TooLarge
    <2> QED
      BY <2>1, <2>2, <2>3 DEF CleaningStep
  <1> QED
    BY <1>1, <1>2, PTL DEF CleaningSpec

(* What is stored is clean and below the limit. *)
THEOREM StoredClean == CleaningSpec => []StoredIsClean
  <1>1. CleaningInv => StoredIsClean
    <2> SUFFICES ASSUME CleaningInv, stored \notin {NotYet, Refused}
                 PROVE  IsClean(stored) /\ JsonSize(stored) < SizeLimit
      BY DEF StoredIsClean
    <2>1. IsClean(Attempt(1)) /\ IsClean(Attempt(2))
      BY Attempts DEF CleaningInv
    <2> QED
      BY <2>1 DEF CleaningInv
  <1> QED
    BY <1>1, CleaningInvariance, PTL

(* A snapshot that is clean and below the limit is stored as it is. *)
THEOREM CleanUnchanged == CleaningSpec => []CleanIsUnchanged
  <1>1. CleaningInv => CleanIsUnchanged
    <2> SUFFICES ASSUME CleaningInv, stored # NotYet, IsClean(snapshot), JsonSize(snapshot) < SizeLimit
                 PROVE  stored = snapshot
      BY DEF CleanIsUnchanged
    <2>1. snapshot \in Json[Height] /\ Height \in 0..Height /\ 0 \in 0..MaxDepth /\ MaxDepth - 0 = MaxDepth
      BY CleaningConstants DEF CleaningInv
    <2>2. Attempt(1) = snapshot
      <3>1. snapshot \in CleanJson[MaxDepth - 0]
        BY <2>1 DEF IsClean
      <3>2. CleanUpTo(ListCap)[Height][snapshot][0] = snapshot
        BY <2>1, <3>1, CleanKeeps
      <3>3. ListCaps[1] = ListCap
        BY DEF ListCaps
      <3> QED
        BY <3>2, <3>3 DEF Attempt, Clean
    <2>3. ~TooLarge(1)
      <3>1. JsonSize(snapshot) \in Nat /\ SizeLimit \in Nat
        BY <2>1, SizeType, CleaningConstants DEF JsonSize
      <3> QED
        BY <2>2, <3>1 DEF TooLarge
    <2> QED
      BY <2>2, <2>3 DEF CleaningInv
  <1> QED
    BY <1>1, CleaningInvariance, PTL

(* A snapshot is refused only when no cap on its lists makes it fit. *)
THEOREM RefusedHopeless == CleaningSpec => []RefusedIsHopeless
  <1>1. CleaningInv => RefusedIsHopeless
    <2> SUFFICES ASSUME CleaningInv, stored = Refused, NEW cap \in 1..ListCap
                 PROVE  JsonSize(Clean(snapshot, 0, cap)) >= SizeLimit
      BY DEF RefusedIsHopeless
    <2> DEFINE least == Clean(snapshot, 0, 1)
               other == Clean(snapshot, 0, cap)
    <2>1. /\ snapshot \in Snapshots /\ 1 \in 1..ListCap /\ cap \in Nat \ {0}
          /\ Height \in 0..Height /\ SizeLimit \in Nat
      BY CleaningConstants DEF CleaningInv
    <2>2. JsonSize(least) >= SizeLimit
      BY DEF CleaningInv, TooLarge, Attempt, ListCaps
    <2>3. /\ least \in Json[Height] /\ JsonSize(least) \in Nat /\ JsonSize(other) \in Nat
          /\ snapshot \in Json[Height]
      BY <2>1, SnapshotClean
    <2>4. least # Dropped
      BY <2>1, <2>3, JsonNotDropped
    <2>5. Grows(Height, least, other)
      BY <2>1, <2>3, CleanGrows DEF Clean
    <2>6. JsonSize(least) <= JsonSize(other)
      BY <2>4, <2>5 DEF Grows, JsonSize
    <2> HIDE DEF least, other
    <2>7. JsonSize(other) >= SizeLimit
      BY <2>1, <2>2, <2>3, <2>6
    <2> QED
      BY <2>7 DEF other
  <1> QED
    BY <1>1, CleaningInvariance, PTL
===============================================================================
