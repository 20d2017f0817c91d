--------------------------- MODULE WeightedSumProofs ---------------------------
(***************************************************************************)
(* Proof that the WeightedIntegral algebra implements the linear forms of  *)
(* module LinearForm under the handler's merge by identity, for every set  *)
(* of Integrals, Sum variables, coefficients and factors.                  *)
(*                                                                         *)
(* NetCoefficients is a recursive function over the positions of a term    *)
(* sequence.  What it returns is pinned down without an induction rule     *)
(* with an operator parameter: NetUpTo states its recursion equations up   *)
(* to a position, a least counterexample over the positions (the          *)
(* well-foundedness of < on Nat) shows that a solution exists and that it *)
(* is unique, and each operation of the algebra is then matched by a       *)
(* solution written down explicitly.                                       *)
(***************************************************************************)
EXTENDS WeightedSum, WellFoundedInduction, TLAPS

USE WeightedSumAssumption

(* A merged Sum: one integer coefficient per Integral. *)
Coefs == [Integrals -> Int]

NoCoef == [i \in Integrals |-> 0]

(* The merge of term n into the coefficients g: the body of the recursion  *)
(* of NetCoefficients.                                                     *)
Merged(terms, g, n) == [g EXCEPT ![terms[n].integral] = @ + terms[n].coefficient]

NetBody(terms, g) ==
    [k \in 0..Len(terms) |-> IF k = 0 THEN [i \in Integrals |-> 0]
                             ELSE [g[k - 1] EXCEPT ![terms[k].integral] = @ + terms[k].coefficient]]

(* g satisfies the recursion of NetCoefficients on the positions 0..n. *)
NetUpTo(terms, g, n) ==
    /\ g[0] = NoCoef
    /\ \A k \in 1..n : g[k] = Merged(terms, g[k - 1], k)

(* Every non-empty set of naturals has a least element. *)
LEMMA LeastNat ==
    ASSUME NEW S \in SUBSET Nat, S # {}
    PROVE  \E m \in S : \A n \in S : m <= n
<1>1. PICK x \in S : \A y \in S : ~(<<y, x>> \in OpToRel(<, Nat))
  BY NatLessThanWellFounded, WFMin
<1>2. \A y \in S : ~(y < x)
  BY <1>1 DEF OpToRel
<1>. QED  BY <1>2

(* NetCoefficients is the CHOOSE its recursive definition stands for. *)
LEMMA NetIsChoose ==
    ASSUME NEW terms
    PROVE  NetCoefficients(terms) = (CHOOSE g : g = NetBody(terms, g))[Len(terms)]
BY DEF NetCoefficients, NetBody

(* The recursion has a solution on the positions of every term sequence. *)
LEMMA NetWitness ==
    ASSUME NEW terms \in Seq(Terms)
    PROVE  \E g \in [0..Len(terms) -> Coefs] : NetUpTo(terms, g, Len(terms))
<1> DEFINE Ext(n) == \E g \in [0..n -> Coefs] : NetUpTo(terms, g, n)
           Bad == {n \in 0..Len(terms) : ~Ext(n)}
<1>1. SUFFICES Bad = {}
  OBVIOUS
<1>2. SUFFICES ASSUME Bad # {} PROVE FALSE
  OBVIOUS
<1>6. Bad \in SUBSET Nat
  OBVIOUS
<1>3. PICK m \in Bad : \A n \in Bad : m <= n
  <2> HIDE DEF Bad
  <2>. QED  BY <1>2, <1>6, LeastNat
<1>4. CASE m = 0
  <2> DEFINE g0 == [k \in 0..0 |-> NoCoef]
  <2>1. g0 \in [0..0 -> Coefs] /\ NetUpTo(terms, g0, 0)
    BY DEF Coefs, NoCoef, NetUpTo
  <2>2. Ext(0)
    BY <2>1
  <2>. QED  BY <1>3, <1>4, <2>2
<1>5. CASE m # 0
  <2>1. m - 1 \in 0..Len(terms) /\ m - 1 \notin Bad
    BY <1>3, <1>5
  <2>2. PICK g \in [0..m - 1 -> Coefs] : NetUpTo(terms, g, m - 1)
    BY <2>1
  <2>3. m \in 1..Len(terms)
    BY <1>3, <1>5
  <2>4. terms[m] \in Terms
    BY <2>3
  <2> DEFINE h == [k \in 0..m |-> IF k < m THEN g[k] ELSE Merged(terms, g[m - 1], m)]
  <2>5. Merged(terms, g[m - 1], m) \in Coefs
    BY <2>2, <2>3, <2>4 DEF Merged, Coefs, Terms
  <2>6. h \in [0..m -> Coefs]
    BY <2>2, <2>3, <2>5
  <2>7. NetUpTo(terms, h, m)
    <3>1. h[0] = NoCoef
      BY <2>2, <2>3 DEF NetUpTo
    <3>2. ASSUME NEW k \in 1..m PROVE h[k] = Merged(terms, h[k - 1], k)
      <4>1. CASE k < m
        BY <2>2, <2>3, <4>1 DEF NetUpTo
      <4>2. CASE k = m
        BY <2>3, <4>2
      <4>. QED  BY <4>1, <4>2, <2>3
    <3>. QED  BY <3>1, <3>2 DEF NetUpTo
  <2>8. Ext(m)
    BY <2>6, <2>7
  <2>. QED  BY <1>3, <2>8
<1>. QED  BY <1>4, <1>5

(* Two solutions of the recursion up to n agree on every position up to n. *)
LEMMA NetUnique ==
    ASSUME NEW terms, NEW n \in Nat, NEW g, NEW h,
           NetUpTo(terms, g, n), NetUpTo(terms, h, n)
    PROVE  \A k \in 0..n : g[k] = h[k]
<1> DEFINE Bad == {k \in 0..n : g[k] # h[k]}
<1>1. SUFFICES ASSUME Bad # {} PROVE FALSE
  OBVIOUS
<1>2. Bad \in SUBSET Nat
  OBVIOUS
<1>3. PICK m \in Bad : \A k \in Bad : m <= k
  <2> HIDE DEF Bad
  <2>. QED  BY <1>1, <1>2, LeastNat
<1>4. CASE m = 0
  BY <1>3, <1>4 DEF NetUpTo
<1>5. CASE m # 0
  <2>1. m - 1 \in 0..n /\ m - 1 \notin Bad
    BY <1>3, <1>5
  <2>2. g[m - 1] = h[m - 1]
    BY <2>1
  <2>3. m \in 1..n
    BY <1>3, <1>5
  <2>4. g[m] = Merged(terms, g[m - 1], m) /\ h[m] = Merged(terms, h[m - 1], m)
    BY <2>3 DEF NetUpTo
  <2>. QED  BY <1>3, <2>2, <2>4
<1>. QED  BY <1>4, <1>5

(* NetCoefficients returns the last position of any solution of its       *)
(* recursion.                                                              *)
LEMMA NetIs ==
    ASSUME NEW terms \in Seq(Terms), NEW g, NetUpTo(terms, g, Len(terms))
    PROVE  NetCoefficients(terms) = g[Len(terms)]
<1> DEFINE L == Len(terms)
           c == CHOOSE f : f = NetBody(terms, f)
<1>1. PICK w \in [0..L -> Coefs] : NetUpTo(terms, w, L)
  BY NetWitness
<1>0. L \in Nat
  OBVIOUS
<1>2. w = NetBody(terms, w)
  <2>1. ASSUME NEW k \in 0..L PROVE w[k] = NetBody(terms, w)[k]
    <3>1. CASE k = 0
      <4>1. w[0] = NoCoef
        BY <1>1 DEF NetUpTo
      <4>2. NetBody(terms, w)[0] = NoCoef
        BY <1>0 DEF NetBody, NoCoef
      <4>. QED  BY <3>1, <4>1, <4>2
    <3>2. CASE k # 0
      <4>1. k \in 1..L
        BY <3>2, <1>0
      <4>2. w[k] = Merged(terms, w[k - 1], k)
        BY <1>1, <4>1 DEF NetUpTo
      <4>3. NetBody(terms, w)[k] = Merged(terms, w[k - 1], k)
        BY <4>1, <1>0 DEF NetBody, Merged
      <4>. QED  BY <4>2, <4>3
    <3>. QED  BY <3>1, <3>2
  <2>. QED  BY <1>1, <2>1 DEF NetBody
<1>3. c = NetBody(terms, c)
  BY <1>2
<1> HIDE DEF c
<1>4. NetUpTo(terms, c, L)
  <2>1. c[0] = NoCoef
    BY <1>0, <1>3 DEF NetBody, NoCoef
  <2>2. ASSUME NEW k \in 1..L PROVE c[k] = Merged(terms, c[k - 1], k)
    <3>1. c[k] = NetBody(terms, c)[k]
      BY <1>3
    <3>. QED  BY <1>0, <3>1 DEF NetBody, Merged
  <2>. QED  BY <2>1, <2>2 DEF NetUpTo
<1>5. c[L] = g[L]
  BY <1>4, NetUnique
<1>. QED  BY <1>5, NetIsChoose DEF c

(* A solution of the recursion whose last position is NetCoefficients. *)
LEMMA NetSolution ==
    ASSUME NEW terms \in Seq(Terms)
    PROVE  \E g \in [0..Len(terms) -> Coefs] :
               /\ NetUpTo(terms, g, Len(terms))
               /\ NetCoefficients(terms) = g[Len(terms)]
<1>1. PICK g \in [0..Len(terms) -> Coefs] : NetUpTo(terms, g, Len(terms))
  BY NetWitness
<1>. QED  BY <1>1, NetIs

(* The merge of a term sequence has one integer coefficient per Integral. *)
LEMMA NetType ==
    ASSUME NEW terms \in Seq(Terms)
    PROVE  NetCoefficients(terms) \in Coefs
<1>1. PICK g \in [0..Len(terms) -> Coefs] :
          /\ NetUpTo(terms, g, Len(terms))
          /\ NetCoefficients(terms) = g[Len(terms)]
  BY NetSolution
<1>. QED  BY <1>1

(* An empty Sum merges to no coefficient at all. *)
LEMMA NetEmpty == NetCoefficients(<< >>) = NoCoef
<1> DEFINE g == [k \in 0..0 |-> NoCoef]
<1>1. NetUpTo(<< >>, g, Len(<< >>))
  BY DEF NetUpTo
<1>. QED  BY <1>1, NetIs

(* A single WeightedIntegral merges to its coefficient on its Integral. *)
LEMMA NetSingle ==
    ASSUME NEW i \in Integrals, NEW c \in Int
    PROVE  NetCoefficients(<< [integral |-> i, coefficient |-> c] >>) = [NoCoef EXCEPT ![i] = c]
<1> DEFINE t == << [integral |-> i, coefficient |-> c] >>
           g == [k \in 0..1 |-> IF k = 0 THEN NoCoef ELSE [NoCoef EXCEPT ![i] = c]]
<1>1. t \in Seq(Terms)
  BY DEF Terms
<1>2. Len(t) = 1 /\ t[1].integral = i /\ t[1].coefficient = c
  OBVIOUS
<1>3. Merged(t, g[0], 1) = g[1]
  <2>1. g[0] = NoCoef /\ g[1] = [NoCoef EXCEPT ![i] = c]
    OBVIOUS
  <2>2. i \in DOMAIN NoCoef /\ NoCoef[i] + c = c
    BY DEF NoCoef
  <2>. QED  BY <1>2, <2>1, <2>2 DEF Merged
<1>4. NetUpTo(t, g, Len(t))
  BY <1>2, <1>3 DEF NetUpTo
<1>5. NetCoefficients(t) = g[1]
  BY <1>1, <1>2, <1>4, NetIs
<1>. QED  BY <1>5

(* s + t appends the terms of t to those of s (operator+ of              *)
(* WeightedIntegral): the merge of the result adds the two merges.         *)
LEMMA NetConcat ==
    ASSUME NEW s \in Seq(Terms), NEW t \in Seq(Terms)
    PROVE  NetCoefficients(s \o t)
             = [i \in Integrals |-> NetCoefficients(s)[i] + NetCoefficients(t)[i]]
<1> DEFINE Ls == Len(s)
           Lt == Len(t)
<1>0. Ls \in Nat /\ Lt \in Nat
  OBVIOUS
<1>1. PICK gs \in [0..Ls -> Coefs] : NetUpTo(s, gs, Ls) /\ NetCoefficients(s) = gs[Ls]
  BY NetSolution
<1>2. PICK gt \in [0..Lt -> Coefs] : NetUpTo(t, gt, Lt) /\ NetCoefficients(t) = gt[Lt]
  BY NetSolution
<1> DEFINE Shifted(j) == [i \in Integrals |-> gs[Ls][i] + gt[j][i]]
           h == [k \in 0..Ls + Lt |-> IF k <= Ls THEN gs[k] ELSE Shifted(k - Ls)]
<1>3. s \o t \in Seq(Terms) /\ Len(s \o t) = Ls + Lt
  OBVIOUS
<1>4. Shifted(0) = gs[Ls]
  <2>1. gt[0] = NoCoef /\ gs[Ls] \in Coefs
    BY <1>0, <1>1, <1>2 DEF NetUpTo
  <2>. QED  BY <2>1 DEF NoCoef, Coefs
<1>5. \A k \in Ls..Ls + Lt : h[k] = Shifted(k - Ls)
  BY <1>0, <1>4
<1>6. NetUpTo(s \o t, h, Ls + Lt)
  <2>1. h[0] = NoCoef
    BY <1>0, <1>1 DEF NetUpTo
  <2>2. ASSUME NEW k \in 1..Ls + Lt PROVE h[k] = Merged(s \o t, h[k - 1], k)
    <3>1. CASE k <= Ls
      <4>1. h[k] = gs[k] /\ h[k - 1] = gs[k - 1] /\ (s \o t)[k] = s[k]
        BY <1>0, <3>1
      <4>2. gs[k] = Merged(s, gs[k - 1], k)
        BY <1>0, <1>1, <3>1 DEF NetUpTo
      <4>. QED  BY <4>1, <4>2 DEF Merged
    <3>2. CASE k > Ls
      <4> DEFINE j == k - Ls
      <4>1. j \in 1..Lt /\ (s \o t)[k] = t[j]
        BY <1>0, <3>2
      <4>2. h[k] = Shifted(j) /\ h[k - 1] = Shifted(j - 1)
        <5>1. k - 1 \in Ls..Ls + Lt /\ k - 1 - Ls = j - 1
          BY <1>0, <3>2
        <5>2. h[k - 1] = Shifted(j - 1)
          BY <5>1, <1>5
        <5>. QED  BY <1>0, <3>2, <5>2
      <4>3. gt[j] = Merged(t, gt[j - 1], j)
        BY <4>1, <1>2 DEF NetUpTo
      <4>4. gs[Ls] \in Coefs /\ gt[j - 1] \in Coefs /\ t[j] \in Terms
        BY <1>0, <1>1, <1>2, <4>1
      <4> DEFINE a == t[j].integral
                 b == t[j].coefficient
      <4>5. a \in Integrals /\ b \in Int
        BY <4>4 DEF Terms
      <4>6. Shifted(j) = [Shifted(j - 1) EXCEPT ![a] = @ + b]
        <5>1. gt[j] = [gt[j - 1] EXCEPT ![a] = @ + b]
          BY <4>3 DEF Merged
        <5>2. ASSUME NEW i \in Integrals
              PROVE  Shifted(j)[i] = [Shifted(j - 1) EXCEPT ![a] = @ + b][i]
          <6>1. CASE i = a
            BY <4>4, <4>5, <5>1, <6>1 DEF Coefs
          <6>2. CASE i # a
            BY <4>4, <4>5, <5>1, <6>2 DEF Coefs
          <6>. QED  BY <6>1, <6>2
        <5>. QED  BY <5>2, <4>5
      <4>. QED  BY <4>1, <4>2, <4>6 DEF Merged
    <3>. QED  BY <3>1, <3>2, <1>0
  <2>. QED  BY <2>1, <2>2 DEF NetUpTo
<1>7. NetCoefficients(s \o t) = h[Ls + Lt]
  BY <1>3, <1>6, NetIs
<1>8. h[Ls + Lt] = Shifted(Lt)
  <2>1. Ls + Lt \in Ls..Ls + Lt /\ (Ls + Lt) - Ls = Lt
    BY <1>0
  <2>. QED  BY <2>1, <1>5
<1>. QED  BY <1>1, <1>2, <1>7, <1>8

(* s *= k keeps a term sequence of the same length and Integrals. *)
LEMMA ScaledType ==
    ASSUME NEW s \in Seq(Terms), NEW c \in Int
    PROVE  /\ Scaled(s, c) \in Seq(Terms)
           /\ Len(Scaled(s, c)) = Len(s)
           /\ \A n \in 1..Len(s) : /\ Scaled(s, c)[n].integral = s[n].integral
                                  /\ Scaled(s, c)[n].coefficient = s[n].coefficient * c
<1>1. ASSUME NEW n \in 1..Len(s)
      PROVE  [s[n] EXCEPT !.coefficient = @ * c] \in Terms
  <2>1. s[n] \in Terms
    OBVIOUS
  <2>2. s[n].integral \in Integrals /\ s[n].coefficient * c \in Int
    BY <2>1 DEF Terms
  <2>. QED  BY <2>1, <2>2 DEF Terms
<1>2. DOMAIN Scaled(s, c) = 1..Len(s)
  BY DEF Scaled
<1>3. \A n \in 1..Len(s) : Scaled(s, c)[n] = [s[n] EXCEPT !.coefficient = @ * c]
  BY DEF Scaled
<1>4. Scaled(s, c) \in Seq(Terms)
  <2>1. Scaled(s, c) \in [1..Len(s) -> Terms]
    BY <1>1 DEF Scaled
  <2>2. Len(s) \in Nat
    OBVIOUS
  <2>. QED  BY <2>1, <2>2
<1>5. ASSUME NEW n \in 1..Len(s)
      PROVE  /\ Scaled(s, c)[n].integral = s[n].integral
             /\ Scaled(s, c)[n].coefficient = s[n].coefficient * c
  <2>1. s[n] \in Terms
    OBVIOUS
  <2>2. Scaled(s, c)[n] = [s[n] EXCEPT !.coefficient = @ * c]
    BY <1>3
  <2>. QED  BY <2>1, <2>2 DEF Terms
<1>6. Len(Scaled(s, c)) = Len(s)
  <2>1. Len(s) \in Nat
    OBVIOUS
  <2>. QED  BY <1>2, <1>4, <2>1
<1>. QED  BY <1>4, <1>5, <1>6

(* s *= k multiplies every coefficient by k (operator*= of               *)
(* WeightedIntegral): the merge of the result is the merge scaled by k.    *)
LEMMA NetScaled ==
    ASSUME NEW s \in Seq(Terms), NEW c \in Int
    PROVE  NetCoefficients(Scaled(s, c)) = [i \in Integrals |-> NetCoefficients(s)[i] * c]
<1> DEFINE L == Len(s)
           u == Scaled(s, c)
<1>0. L \in Nat
  OBVIOUS
<1>1. PICK g \in [0..L -> Coefs] : NetUpTo(s, g, L) /\ NetCoefficients(s) = g[L]
  BY NetSolution
<1>2. u \in Seq(Terms) /\ Len(u) = L
  BY ScaledType
<1> DEFINE h == [k \in 0..L |-> [i \in Integrals |-> g[k][i] * c]]
<1>3. NetUpTo(u, h, L)
  <2>1. h[0] = NoCoef
    BY <1>0, <1>1 DEF NetUpTo, NoCoef
  <2>2. ASSUME NEW k \in 1..L PROVE h[k] = Merged(u, h[k - 1], k)
    <3> DEFINE a == s[k].integral
               b == s[k].coefficient
    <3>0. s[k] \in Terms
      BY <1>0
    <3>1. a \in Integrals /\ b \in Int
      BY <3>0 DEF Terms
    <3>2. u[k].integral = a /\ u[k].coefficient = b * c
      BY ScaledType
    <3>3. g[k] = [g[k - 1] EXCEPT ![a] = @ + b]
      BY <1>1 DEF NetUpTo, Merged
    <3>4. g[k] \in Coefs /\ g[k - 1] \in Coefs /\ h[k] = [i \in Integrals |-> g[k][i] * c]
          /\ h[k - 1] = [i \in Integrals |-> g[k - 1][i] * c]
      <4>1. k \in 0..L /\ k - 1 \in 0..L
        BY <1>0
      <4>. QED  BY <4>1, <1>1
    <3>5. ASSUME NEW i \in Integrals
          PROVE  h[k][i] = [h[k - 1] EXCEPT ![a] = @ + b * c][i]
      <4>1. CASE i = a
        BY <3>1, <3>3, <3>4, <4>1 DEF Coefs
      <4>2. CASE i # a
        BY <3>1, <3>3, <3>4, <4>2 DEF Coefs
      <4>. QED  BY <4>1, <4>2
    <3>6. h[k] = [h[k - 1] EXCEPT ![a] = @ + b * c]
      BY <3>1, <3>4, <3>5
    <3>. QED  BY <3>2, <3>6 DEF Merged
  <2>. QED  BY <2>1, <2>2 DEF NetUpTo
<1>. QED  BY <1>0, <1>1, <1>2, <1>3, NetIs

-----------------------------------------------------------------------------
(* Every Sum variable always holds a sequence of weighted Integrals. *)
LEMMA InitTypeOK == Init => TypeOK
BY DEF Init, TypeOK

LEMMA NextTypeOK == TypeOK /\ [Next]_sums => TypeOK'
<1> SUFFICES ASSUME TypeOK, [Next]_sums PROVE TypeOK'
  OBVIOUS
<1>1. ASSUME NEW s \in SumIds, NEW i \in Integrals, NEW c \in Coefficients,
             MakeWeighted(s, i, c)
      PROVE  TypeOK'
  <2>1. << [integral |-> i, coefficient |-> c] >> \in Seq(Terms)
    BY DEF Terms
  <2>. QED  BY <1>1, <2>1 DEF MakeWeighted, TypeOK
<1>2. ASSUME NEW s \in SumIds, NEW t \in SumIds, NEW d \in SumIds, Plus(s, t, d)
      PROVE  TypeOK'
  <2>1. sums[s] \o sums[t] \in Seq(Terms)
    BY DEF TypeOK
  <2>. QED  BY <1>2, <2>1 DEF Plus, TypeOK
<1>3. ASSUME NEW s \in SumIds, NEW k \in Factors, Times(s, k)
      PROVE  TypeOK'
  <2>1. Scaled(sums[s], k) \in Seq(Terms)
    BY ScaledType DEF TypeOK
  <2>. QED  BY <1>3, <2>1 DEF Times, TypeOK
<1>4. CASE UNCHANGED sums
  BY <1>4 DEF TypeOK
<1>. QED  BY <1>1, <1>2, <1>3, <1>4 DEF Next

(* The linear form each Sum stands for: its terms merged by identity. *)
Mapped == [s \in SumIds |-> NetCoefficients(sums[s])]

(* A Sum variable starts empty, so it stands for the zero form. *)
LEMMA InitRefines == Init => LF!Init
<1> SUFFICES ASSUME Init PROVE LF!Init
  OBVIOUS
<1>1. \A s \in SumIds : NetCoefficients(sums[s]) = NoCoef
  BY NetEmpty DEF Init
<1>. QED  BY <1>1 DEF LF!Init, LF!Zero, NoCoef

(* Each operation on Sums is the operation on the forms they stand for:   *)
(* WeightedIntegral(i, c) is Make, + and += are Add, *= is ScaleBy.        *)
LEMMA NextRefines == TypeOK /\ [Next]_sums => [LF!Next]_Mapped
<1> SUFFICES ASSUME TypeOK, [Next]_sums PROVE [LF!Next]_Mapped
  OBVIOUS
<1>1. ASSUME NEW s \in SumIds, NEW i \in Integrals, NEW c \in Coefficients,
             MakeWeighted(s, i, c)
      PROVE  LF!Make(s, i, c)
  <2>1. NetCoefficients(sums'[s]) = [LF!Zero EXCEPT ![i] = c]
    BY <1>1, NetSingle DEF MakeWeighted, TypeOK, LF!Zero, NoCoef
  <2>2. \A x \in SumIds \ {s} : sums'[x] = sums[x]
    BY <1>1 DEF MakeWeighted, TypeOK
  <2>3. Mapped' = [Mapped EXCEPT ![s] = [LF!Zero EXCEPT ![i] = c]]
    BY <2>1, <2>2 DEF Mapped
  <2>. QED  BY <2>3 DEF LF!Make, Mapped
<1>2. ASSUME NEW s \in SumIds, NEW t \in SumIds, NEW d \in SumIds, Plus(s, t, d)
      PROVE  LF!Add(s, t, d)
  <2> DEFINE sum == [i \in Integrals |-> Mapped[s][i] + Mapped[t][i]]
  <2>1. NetCoefficients(sums'[d]) = sum
    BY <1>2, NetConcat DEF Plus, TypeOK, Mapped
  <2>2. \A x \in SumIds \ {d} : sums'[x] = sums[x]
    BY <1>2 DEF Plus, TypeOK
  <2>3. Mapped' = [Mapped EXCEPT ![d] = sum]
    BY <2>1, <2>2 DEF Mapped
  <2>. QED  BY <2>3 DEF LF!Add, Mapped
<1>3. ASSUME NEW s \in SumIds, NEW k \in Factors, Times(s, k)
      PROVE  LF!ScaleBy(s, k)
  <2> DEFINE scaled == [i \in Integrals |-> Mapped[s][i] * k]
  <2>1. NetCoefficients(sums'[s]) = scaled
    BY <1>3, NetScaled DEF Times, TypeOK, Mapped
  <2>2. \A x \in SumIds \ {s} : sums'[x] = sums[x]
    BY <1>3 DEF Times, TypeOK
  <2>3. Mapped' = [Mapped EXCEPT ![s] = scaled]
    BY <2>1, <2>2 DEF Mapped
  <2>. QED  BY <2>3 DEF LF!ScaleBy, Mapped
<1>4. CASE UNCHANGED sums
  BY <1>4 DEF Mapped
<1>. QED  BY <1>1, <1>2, <1>3, <1>4 DEF Next, LF!Next

(* Whatever sequence of WeightedIntegral constructions, +, += and *= a    *)
(* program performs, every Sum, merged by identity as the handler does,    *)
(* is the linear form the algebra promises: ImplementsLinearForm, for     *)
(* every set of Integrals, Sum variables, coefficients and factors.        *)
THEOREM ImplementsLinearFormHolds == Spec => ImplementsLinearForm
<1>1. Spec => []TypeOK
  BY InitTypeOK, NextTypeOK, PTL DEF Spec
<1>. QED  BY <1>1, InitRefines, NextRefines, PTL DEF Spec, ImplementsLinearForm, LF!Spec, Mapped
=============================================================================
