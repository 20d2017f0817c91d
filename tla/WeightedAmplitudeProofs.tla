------------------------ MODULE WeightedAmplitudeProofs ------------------------
(***************************************************************************)
(* Proof that make_weighted_integral returns, for every sub-integral with *)
(* at least one sector, the weighted sum of its sectors: at every order k  *)
(* and for every Integral i, the merged amplitude has the net coefficient  *)
(* sum over j <= k of factor[j] * (sum over the sectors s of the net       *)
(* coefficient of i at order k - j of s), for every highest order, number *)
(* of sectors, sector sums and factors.                                    *)
(*                                                                         *)
(* The three recursive functions of the code (std::accumulate over the     *)
(* sectors, the truncated series product, and the two sums of the          *)
(* reference) are each matched with a solution of their recursion that is  *)
(* shown to exist by a least counterexample; the facts about the merge of  *)
(* a concatenation and of a scaled sum are those of WeightedSumProofs.     *)
(***************************************************************************)
EXTENDS WeightedAmplitude, TLAPS

USE WeightedAmplitudeAssumption

(* The merge lemmas of WeightedSumProofs, which hold for every set of Sum  *)
(* variables and bounds; only the Integrals are shared with this module.   *)
WSP == INSTANCE WeightedSumProofs
         WITH SumIds <- {}, Coefficients <- {}, Factors <- {},
              MaxTerms <- 0, MaxCoef <- 0, sums <- [s \in {} |-> << >>]

LEMMA NetEmpty == \A i \in Integrals : NetCoefficients(<< >>)[i] = 0
BY WSP!NetEmpty DEF WSP!NetCoefficients, NetCoefficients, WSP!NoCoef

LEMMA NetConcat ==
    ASSUME NEW s \in Seq(Terms), NEW t \in Seq(Terms), NEW i \in Integrals
    PROVE  NetCoefficients(s \o t)[i] = NetCoefficients(s)[i] + NetCoefficients(t)[i]
<1>1. NetCoefficients(s \o t)
        = [j \in Integrals |-> NetCoefficients(s)[j] + NetCoefficients(t)[j]]
  BY WSP!NetConcat DEF WSP!NetCoefficients, NetCoefficients, WSP!Terms, Terms
<1>. QED  BY <1>1

LEMMA NetScaled ==
    ASSUME NEW s \in Seq(Terms), NEW c \in Int, NEW i \in Integrals
    PROVE  NetCoefficients(Scaled(s, c))[i] = NetCoefficients(s)[i] * c
<1>1. NetCoefficients(Scaled(s, c)) = [j \in Integrals |-> NetCoefficients(s)[j] * c]
  BY WSP!NetScaled DEF WSP!NetCoefficients, NetCoefficients, WSP!Terms, Terms,
                       WSP!Scaled, Scaled
<1>. QED  BY <1>1

LEMMA NetInt ==
    ASSUME NEW s \in Seq(Terms), NEW i \in Integrals
    PROVE  NetCoefficients(s)[i] \in Int
BY WSP!NetType DEF WSP!NetCoefficients, NetCoefficients, WSP!Terms, Terms, WSP!Coefs

LEMMA ScaledSeq ==
    ASSUME NEW s \in Seq(Terms), NEW c \in Int
    PROVE  Scaled(s, c) \in Seq(Terms)
BY WSP!ScaledType DEF WSP!Terms, Terms, WSP!Scaled, Scaled

-----------------------------------------------------------------------------
(* Induction over lo..N, stated for a set so that no operator parameter    *)
(* is needed: a set that holds lo and is closed under successor up to N    *)
(* holds all of lo..N.                                                     *)
LEMMA UpToInduction ==
    ASSUME NEW lo \in Nat, NEW N \in Nat, NEW S, lo \in S,
           \A n \in (lo + 1)..N : n - 1 \in S => n \in S
    PROVE  lo..N \subseteq S
<1> DEFINE Bad == (lo..N) \ S
<1>1. SUFFICES ASSUME Bad # {} PROVE FALSE
  OBVIOUS
<1>2. Bad \in SUBSET Nat
  OBVIOUS
<1>3. PICK m \in Bad : \A n \in Bad : m <= n
  <2> HIDE DEF Bad
  <2>. QED  BY <1>1, <1>2, WSP!LeastNat
<1>4. m \in (lo + 1)..N /\ m - 1 \in lo..N
  BY <1>3
<1>5. m - 1 \in S
  BY <1>3, <1>4
<1>. QED  BY <1>3, <1>4, <1>5

(* g solves the recursion g[lo] = b, g[n] = F[n][g[n - 1]] on lo..N with *)
(* values in T; F maps T into T at every step.                             *)
IsRecSol(g, lo, N, T, b, F) ==
    /\ g \in [lo..N -> T]
    /\ g[lo] = b
    /\ \A n \in (lo + 1)..N : g[n] = F[n][g[n - 1]]

StepInto(F, lo, N, T) == \A n \in (lo + 1)..N, x \in T : F[n][x] \in T

(* A recursion whose step maps T into T has a solution with values in T. *)
LEMMA RecSolution ==
    ASSUME NEW lo \in Nat, NEW N \in Nat, lo <= N, NEW T, NEW b \in T,
           NEW F, StepInto(F, lo, N, T)
    PROVE  \E g : IsRecSol(g, lo, N, T, b, F)
<1> DEFINE S == {n \in lo..N : \E g : IsRecSol(g, lo, n, T, b, F)}
<1>1. lo \in S
  <2> DEFINE g0 == [m \in lo..lo |-> b]
  <2>1. IsRecSol(g0, lo, lo, T, b, F)
    BY DEF IsRecSol
  <2>. QED  BY <2>1
<1>2. ASSUME NEW n \in (lo + 1)..N, n - 1 \in S PROVE n \in S
  <2>1. PICK g : IsRecSol(g, lo, n - 1, T, b, F)
    BY <1>2
  <2>2. g[n - 1] \in T /\ F[n][g[n - 1]] \in T
    BY <2>1 DEF IsRecSol, StepInto
  <2> DEFINE h == [m \in lo..n |-> IF m < n THEN g[m] ELSE F[n][g[n - 1]]]
  <2>3. h \in [lo..n -> T]
    BY <2>1, <2>2 DEF IsRecSol
  <2>4. h[lo] = b
    BY <2>1 DEF IsRecSol
  <2>5. ASSUME NEW m \in (lo + 1)..n PROVE h[m] = F[m][h[m - 1]]
    <3>1. CASE m < n
      BY <2>1, <3>1 DEF IsRecSol
    <3>2. CASE m = n
      <4>1. h[n - 1] = g[n - 1] /\ h[n] = F[n][g[n - 1]]
        OBVIOUS
      <4>. QED  BY <3>2, <4>1
    <3>. QED  BY <3>1, <3>2
  <2>6. IsRecSol(h, lo, n, T, b, F)
    BY <2>3, <2>4, <2>5 DEF IsRecSol
  <2>. QED  BY <2>6
<1>3. lo..N \subseteq S
  <2> HIDE DEF S
  <2>. QED  BY <1>1, <1>2, UpToInduction
<1>4. N \in S
  BY <1>3
<1>. QED  BY <1>4

-----------------------------------------------------------------------------
(* A series of sums of weighted Integrals, one per order. *)
TermSeries == [Orders -> Seq(Terms)]

(* The recursion of Accumulated: std::accumulate starting from the first  *)
(* sector and appending the orders of each later one.                      *)
AccBody(g) ==
    [n \in 1..Len(integrals) |->
        IF n = 1 THEN integrals[1]
        ELSE [o \in Orders |-> g[n - 1][o] \o integrals[n][o]]]

LEMMA AccIsChoose == Accumulated = (CHOOSE g : g = AccBody(g))[Len(integrals)]
BY DEF Accumulated, AccBody

(* The sectors are series of term sequences. *)
LEMMA SectorTerms ==
    ASSUME integrals \in Seq(Series), NEW n \in 1..Len(integrals)
    PROVE  integrals[n] \in TermSeries
BY DEF Series, TermSeries

(* Accumulated is the last position of a solution of its recursion with   *)
(* values in TermSeries.                                                   *)
LEMMA AccValue ==
    ASSUME integrals \in Seq(Series), Len(integrals) > 0
    PROVE  \E w \in [1..Len(integrals) -> TermSeries] :
               /\ w[1] = integrals[1]
               /\ \A n \in 2..Len(integrals) :
                      w[n] = [o \in Orders |-> w[n - 1][o] \o integrals[n][o]]
               /\ Accumulated = w[Len(integrals)]
<1> DEFINE L == Len(integrals)
           F == [n \in 2..L |-> [x \in TermSeries |->
                                    [o \in Orders |-> x[o] \o integrals[n][o]]]]
<1>0. L \in Nat /\ 1 <= L
  OBVIOUS
<1>1. integrals[1] \in TermSeries /\ StepInto(F, 1, L, TermSeries)
  <2>1. integrals[1] \in TermSeries
    BY <1>0, SectorTerms
  <2>2. ASSUME NEW n \in (1 + 1)..L, NEW x \in TermSeries
        PROVE  F[n][x] \in TermSeries
    <3>0. integrals[n] \in TermSeries
      BY <1>0, SectorTerms
    <3>1. \A o \in Orders : integrals[n][o] \in Seq(Terms) /\ x[o] \in Seq(Terms)
      BY <3>0 DEF TermSeries
    <3>. QED  BY <3>1 DEF TermSeries
  <2>. QED  BY <2>1, <2>2 DEF StepInto
<1> HIDE DEF F
<1>2. PICK w \in [1..L -> TermSeries] :
          w[1] = integrals[1] /\ \A n \in (1 + 1)..L : w[n] = F[n][w[n - 1]]
  <2>1. PICK g : IsRecSol(g, 1, L, TermSeries, integrals[1], F)
    BY <1>0, <1>1, RecSolution
  <2>. QED  BY <2>1 DEF IsRecSol
<1>3. \A n \in 2..L : w[n] = [o \in Orders |-> w[n - 1][o] \o integrals[n][o]]
  <2>1. ASSUME NEW n \in 2..L
        PROVE  w[n] = [o \in Orders |-> w[n - 1][o] \o integrals[n][o]]
    <3>1. w[n - 1] \in TermSeries /\ w[n] = F[n][w[n - 1]]
      BY <1>0, <1>2
    <3>. QED  BY <3>1 DEF F
  <2>. QED  BY <2>1
<1>4. w = AccBody(w)
  <2>1. ASSUME NEW n \in 1..L PROVE w[n] = AccBody(w)[n]
    <3>1. CASE n = 1
      BY <1>2, <3>1 DEF AccBody
    <3>2. CASE n # 1
      <4>1. n \in 2..L
        BY <1>0, <3>2
      <4>. QED  BY <4>1, <3>2, <1>3 DEF AccBody
    <3>. QED  BY <3>1, <3>2
  <2>. QED  BY <1>2, <2>1 DEF AccBody
<1> DEFINE c == CHOOSE g : g = AccBody(g)
<1>5. c = AccBody(c)
  BY <1>4
<1> HIDE DEF c
<1> DEFINE Agree == {j \in 1..L : c[j] = w[j]}
<1>6. 1..L \subseteq Agree
  <2>1. 1 \in Agree
    BY <1>0, <1>2, <1>5 DEF AccBody
  <2>2. ASSUME NEW n \in (1 + 1)..L, n - 1 \in Agree PROVE n \in Agree
    <3>0. n \in 2..L
      BY <1>0
    <3>2. c[n - 1] = w[n - 1]
      BY <2>2
    <3>1. c[n] = [o \in Orders |-> c[n - 1][o] \o integrals[n][o]]
      <4>1. c[n] = AccBody(c)[n]
        BY <1>5
      <4>2. AccBody(c)[n] = [o \in Orders |-> c[n - 1][o] \o integrals[n][o]]
        BY <3>0 DEF AccBody
      <4>. QED  BY <4>1, <4>2
    <3>3. w[n] = [o \in Orders |-> w[n - 1][o] \o integrals[n][o]]
      BY <3>0, <1>3
    <3>. QED  BY <3>0, <3>1, <3>2, <3>3
  <2> HIDE DEF Agree
  <2>. QED  BY <1>0, <2>1, <2>2, UpToInduction
<1>7. Accumulated = w[L]
  BY <1>0, <1>6, AccIsChoose DEF c, Agree
<1>. QED  BY <1>2, <1>3, <1>7

(* The recursion of OrderNet: the net coefficient of Integral i at order o *)
(* summed over the sectors.                                                *)
OrderBody(o, i, g) ==
    [n \in 0..Len(integrals) |->
        IF n = 0 THEN 0 ELSE g[n - 1] + NetCoefficients(integrals[n][o])[i]]

LEMMA OrderNetIsChoose ==
    ASSUME NEW o, NEW i
    PROVE  OrderNet(o, i) = (CHOOSE g : g = OrderBody(o, i, g))[Len(integrals)]
BY DEF OrderNet, OrderBody

LEMMA OrderNetValue ==
    ASSUME integrals \in Seq(Series), NEW o \in Orders, NEW i \in Integrals
    PROVE  \E t \in [0..Len(integrals) -> Int] :
               /\ t[0] = 0
               /\ \A n \in 1..Len(integrals) :
                      t[n] = t[n - 1] + NetCoefficients(integrals[n][o])[i]
               /\ OrderNet(o, i) = t[Len(integrals)]
<1> DEFINE L == Len(integrals)
           F == [n \in 1..L |-> [x \in Int |-> x + NetCoefficients(integrals[n][o])[i]]]
<1>0. L \in Nat
  OBVIOUS
<1>1. \A n \in 1..L : NetCoefficients(integrals[n][o])[i] \in Int
  <2>1. ASSUME NEW n \in 1..L PROVE NetCoefficients(integrals[n][o])[i] \in Int
    <3>1. integrals[n] \in TermSeries
      BY SectorTerms
    <3>2. integrals[n][o] \in Seq(Terms)
      BY <3>1 DEF TermSeries
    <3>. QED  BY <3>2, NetInt
  <2>. QED  BY <2>1
<1>2. StepInto(F, 0, L, Int)
  BY <1>1 DEF StepInto
<1> HIDE DEF F
<1>3. PICK t \in [0..L -> Int] : t[0] = 0 /\ \A n \in (0 + 1)..L : t[n] = F[n][t[n - 1]]
  <2>0. 0 \in Nat /\ 0 <= L /\ 0 \in Int
    BY <1>0
  <2>1. PICK g : IsRecSol(g, 0, L, Int, 0, F)
    BY <2>0, <1>0, <1>2, RecSolution
  <2>. QED  BY <2>1 DEF IsRecSol
<1>4. \A n \in 1..L : t[n] = t[n - 1] + NetCoefficients(integrals[n][o])[i]
  <2>1. ASSUME NEW n \in 1..L
        PROVE  t[n] = t[n - 1] + NetCoefficients(integrals[n][o])[i]
    <3>1. t[n - 1] \in Int /\ t[n] = F[n][t[n - 1]]
      BY <1>0, <1>3
    <3>. QED  BY <3>1 DEF F
  <2>. QED  BY <2>1
<1>5. t = OrderBody(o, i, t)
  <2>1. ASSUME NEW n \in 0..L PROVE t[n] = OrderBody(o, i, t)[n]
    <3>1. CASE n = 0
      BY <1>3, <3>1 DEF OrderBody
    <3>2. CASE n # 0
      <4>1. n \in 1..L
        BY <1>0, <3>2
      <4>. QED  BY <4>1, <3>2, <1>4 DEF OrderBody
    <3>. QED  BY <3>1, <3>2
  <2>. QED  BY <1>3, <2>1 DEF OrderBody
<1> DEFINE c == CHOOSE g : g = OrderBody(o, i, g)
<1>6. c = OrderBody(o, i, c)
  BY <1>5
<1> HIDE DEF c
<1> DEFINE Agree == {j \in 0..L : c[j] = t[j]}
<1>7. 0..L \subseteq Agree
  <2>1. 0 \in Agree
    <3>1. c[0] = OrderBody(o, i, c)[0]
      BY <1>6
    <3>2. OrderBody(o, i, c)[0] = 0
      BY <1>0 DEF OrderBody
    <3>. QED  BY <1>0, <1>3, <3>1, <3>2
  <2>2. ASSUME NEW n \in (0 + 1)..L, n - 1 \in Agree PROVE n \in Agree
    <3>0. n \in 1..L
      BY <1>0
    <3>1. c[n - 1] = t[n - 1]
      BY <2>2
    <3>2. c[n] = c[n - 1] + NetCoefficients(integrals[n][o])[i]
      <4>1. c[n] = OrderBody(o, i, c)[n]
        BY <1>6
      <4>2. OrderBody(o, i, c)[n] = c[n - 1] + NetCoefficients(integrals[n][o])[i]
        BY <3>0 DEF OrderBody
      <4>. QED  BY <4>1, <4>2
    <3>3. t[n] = t[n - 1] + NetCoefficients(integrals[n][o])[i]
      BY <3>0, <1>4
    <3>. QED  BY <3>0, <3>1, <3>2, <3>3
  <2> HIDE DEF Agree
  <2>. QED  BY <1>0, <2>1, <2>2, UpToInduction
<1>8. OrderNet(o, i) = t[L]
  <2>1. OrderNet(o, i) = c[L]
    BY OrderNetIsChoose DEF c
  <2>2. c[L] = t[L]
    BY <1>0, <1>7 DEF Agree
  <2>. QED  BY <2>1, <2>2
<1>. QED  BY <1>3, <1>4, <1>8

(* Accumulating the sectors gives a series of term sequences. *)
LEMMA AccType ==
    ASSUME integrals \in Seq(Series), Len(integrals) > 0
    PROVE  Accumulated \in TermSeries
<1>1. PICK w \in [1..Len(integrals) -> TermSeries] : Accumulated = w[Len(integrals)]
  BY AccValue
<1>. QED  BY <1>1

(* Accumulating the sectors keeps every order a term sequence, and its     *)
(* merge is the sum over the sectors of their merges at that order: each  *)
(* sector is counted once, the first one included.                         *)
LEMMA AccNet ==
    ASSUME integrals \in Seq(Series), Len(integrals) > 0,
           NEW o \in Orders, NEW i \in Integrals
    PROVE  /\ Accumulated[o] \in Seq(Terms)
           /\ NetCoefficients(Accumulated[o])[i] = OrderNet(o, i)
<1> DEFINE L == Len(integrals)
<1>0. L \in Nat /\ 1 <= L
  OBVIOUS
<1>1. PICK w \in [1..L -> TermSeries] :
          /\ w[1] = integrals[1]
          /\ \A n \in 2..L : w[n] = [p \in Orders |-> w[n - 1][p] \o integrals[n][p]]
          /\ Accumulated = w[L]
  BY AccValue
<1>2. PICK t \in [0..L -> Int] :
          /\ t[0] = 0
          /\ \A n \in 1..L : t[n] = t[n - 1] + NetCoefficients(integrals[n][o])[i]
          /\ OrderNet(o, i) = t[L]
  BY OrderNetValue
<1>3. \A n \in 1..L : w[n][o] \in Seq(Terms) /\ integrals[n][o] \in Seq(Terms)
  <2>1. ASSUME NEW n \in 1..L PROVE w[n][o] \in Seq(Terms) /\ integrals[n][o] \in Seq(Terms)
    <3>1. w[n] \in TermSeries /\ integrals[n] \in TermSeries
      BY <1>1, SectorTerms
    <3>. QED  BY <3>1 DEF TermSeries
  <2>. QED  BY <2>1
<1> DEFINE Agree == {j \in 1..L : NetCoefficients(w[j][o])[i] = t[j]}
<1>4. 1..L \subseteq Agree
  <2>1. 1 \in Agree
    <3>1. NetCoefficients(integrals[1][o])[i] \in Int
      BY <1>0, <1>3, NetInt
    <3>2. t[1] = 0 + NetCoefficients(integrals[1][o])[i]
      BY <1>0, <1>2
    <3>. QED  BY <1>0, <1>1, <3>1, <3>2
  <2>2. ASSUME NEW n \in (1 + 1)..L, n - 1 \in Agree PROVE n \in Agree
    <3>0. n \in 2..L
      BY <1>0
    <3>1. NetCoefficients(w[n - 1][o])[i] = t[n - 1]
      BY <2>2
    <3>2. w[n][o] = w[n - 1][o] \o integrals[n][o]
      BY <3>0, <1>1
    <3>3. NetCoefficients(w[n][o])[i]
            = NetCoefficients(w[n - 1][o])[i] + NetCoefficients(integrals[n][o])[i]
      <4>1. w[n - 1][o] \in Seq(Terms) /\ integrals[n][o] \in Seq(Terms)
        BY <3>0, <1>3
      <4>. QED  BY <3>2, <4>1, NetConcat
    <3>4. t[n] = t[n - 1] + NetCoefficients(integrals[n][o])[i]
      BY <3>0, <1>2
    <3>. QED  BY <3>0, <3>1, <3>3, <3>4
  <2> HIDE DEF Agree
  <2>. QED  BY <1>0, <2>1, <2>2, UpToInduction
<1>5. NetCoefficients(w[L][o])[i] = t[L]
  BY <1>0, <1>4 DEF Agree
<1>. QED  BY <1>0, <1>1, <1>2, <1>3, <1>5

-----------------------------------------------------------------------------
(* The recursion of order k of Weighted(a, f): the partial products        *)
(* a[k - j] * f[j] for j < n, concatenated.                                *)
PBody(a, f, k, g) ==
    [n \in 0..k + 1 |->
        IF n = 0 THEN << >> ELSE g[n - 1] \o Scaled(a[k - (n - 1)], f[n - 1])]

LEMMA WeightedIsChoose ==
    ASSUME NEW a, NEW f, NEW k \in Orders
    PROVE  Weighted(a, f)[k] = (CHOOSE g : g = PBody(a, f, k, g))[k + 1]
BY DEF Weighted, PBody

(* The recursion of ExpectedNet(k, i). *)
ExpBody(k, i, g) ==
    [j \in 0..k + 1 |->
        IF j = 0 THEN 0 ELSE g[j - 1] + factor[j - 1] * OrderNet(k - (j - 1), i)]

LEMMA ExpectedNetIsChoose ==
    ASSUME NEW k, NEW i
    PROVE  ExpectedNet(k, i) = (CHOOSE g : g = ExpBody(k, i, g))[k + 1]
BY DEF ExpectedNet, ExpBody

(* Orders are naturals up to Hi; the orders k - (n - 1) and n - 1 that     *)
(* order k of a product reads are orders.                                  *)
LEMMA OrderIndex ==
    ASSUME NEW k \in Orders, NEW n \in 1..k + 1
    PROVE  k - (n - 1) \in Orders /\ n - 1 \in Orders /\ k + 1 \in Nat
BY DEF Orders

(* Order k of the weighted amplitude is the last position of a solution   *)
(* of its recursion with term-sequence values.                             *)
LEMMA PValue ==
    ASSUME integrals \in Seq(Series), Len(integrals) > 0,
           factor \in [Orders -> Factors], NEW k \in Orders
    PROVE  \E p \in [0..k + 1 -> Seq(Terms)] :
               /\ p[0] = << >>
               /\ \A n \in 1..k + 1 :
                      p[n] = p[n - 1] \o Scaled(Accumulated[k - (n - 1)], factor[n - 1])
               /\ Weighted(Accumulated, factor)[k] = p[k + 1]
<1> DEFINE N == k + 1
           Term(n) == Scaled(Accumulated[k - (n - 1)], factor[n - 1])
           F == [n \in 1..N |-> [x \in Seq(Terms) |-> x \o Term(n)]]
<1>0. N \in Nat
  BY DEF Orders
<1>1. \A n \in 1..N : Term(n) \in Seq(Terms)
  <2>1. ASSUME NEW n \in 1..N PROVE Term(n) \in Seq(Terms)
    <3>1. k - (n - 1) \in Orders /\ n - 1 \in Orders
      BY OrderIndex
    <3>2. Accumulated[k - (n - 1)] \in Seq(Terms)
      BY <3>1, AccType DEF TermSeries
    <3>3. factor[n - 1] \in Int
      BY <3>1
    <3>. QED  BY <3>2, <3>3, ScaledSeq
  <2>. QED  BY <2>1
<1>2. StepInto(F, 0, N, Seq(Terms))
  BY <1>1 DEF StepInto
<1> HIDE DEF F, Term
<1>3. PICK p \in [0..N -> Seq(Terms)] :
          p[0] = << >> /\ \A n \in (0 + 1)..N : p[n] = F[n][p[n - 1]]
  <2>0. 0 \in Nat /\ 0 <= N /\ << >> \in Seq(Terms)
    BY <1>0
  <2>1. PICK g : IsRecSol(g, 0, N, Seq(Terms), << >>, F)
    BY <2>0, <1>0, <1>2, RecSolution
  <2>. QED  BY <2>1 DEF IsRecSol
<1>4. \A n \in 1..N : p[n] = p[n - 1] \o Term(n)
  <2>1. ASSUME NEW n \in 1..N PROVE p[n] = p[n - 1] \o Term(n)
    <3>1. p[n - 1] \in Seq(Terms) /\ p[n] = F[n][p[n - 1]]
      BY <1>0, <1>3
    <3>. QED  BY <3>1 DEF F
  <2>. QED  BY <2>1
<1>5. p = PBody(Accumulated, factor, k, p)
  <2>1. ASSUME NEW n \in 0..N PROVE p[n] = PBody(Accumulated, factor, k, p)[n]
    <3>1. CASE n = 0
      BY <1>3, <3>1 DEF PBody
    <3>2. CASE n # 0
      <4>1. n \in 1..N
        BY <1>0, <3>2
      <4>. QED  BY <4>1, <3>2, <1>4 DEF PBody, Term
    <3>. QED  BY <3>1, <3>2
  <2>. QED  BY <1>3, <2>1 DEF PBody
<1> DEFINE c == CHOOSE g : g = PBody(Accumulated, factor, k, g)
<1>6. c = PBody(Accumulated, factor, k, c)
  BY <1>5
<1> HIDE DEF c
<1> DEFINE Agree == {j \in 0..N : c[j] = p[j]}
<1>7. 0..N \subseteq Agree
  <2>1. 0 \in Agree
    <3>1. c[0] = PBody(Accumulated, factor, k, c)[0]
      BY <1>6
    <3>2. PBody(Accumulated, factor, k, c)[0] = << >>
      BY <1>0 DEF PBody
    <3>. QED  BY <1>0, <1>3, <3>1, <3>2
  <2>2. ASSUME NEW n \in (0 + 1)..N, n - 1 \in Agree PROVE n \in Agree
    <3>0. n \in 1..N
      BY <1>0
    <3>1. c[n - 1] = p[n - 1]
      BY <2>2
    <3>2. c[n] = c[n - 1] \o Term(n)
      <4>1. c[n] = PBody(Accumulated, factor, k, c)[n]
        BY <1>6
      <4>0. n \in 0..k + 1 /\ n # 0
        BY <1>0, <3>0
      <4>2. PBody(Accumulated, factor, k, c)[n] = c[n - 1] \o Term(n)
        BY <4>0 DEF PBody, Term
      <4>. QED  BY <4>1, <4>2
    <3>3. p[n] = p[n - 1] \o Term(n)
      BY <3>0, <1>4
    <3>4. c[n] = p[n]
      BY <3>1, <3>2, <3>3, Zenon
    <3>. QED  BY <1>0, <3>0, <3>4
  <2> HIDE DEF Agree
  <2>. QED  BY <1>0, <2>1, <2>2, UpToInduction
<1>8. Weighted(Accumulated, factor)[k] = p[N]
  <2>1. Weighted(Accumulated, factor)[k] = c[N]
    BY WeightedIsChoose DEF c
  <2>2. c[N] = p[N]
    BY <1>0, <1>7 DEF Agree
  <2>. QED  BY <2>1, <2>2
<1>. QED  BY <1>3, <1>4, <1>8 DEF Term

(* The sum over the sectors at an order is an integer. *)
LEMMA OrderNetInt ==
    ASSUME integrals \in Seq(Series), NEW o \in Orders, NEW i \in Integrals
    PROVE  OrderNet(o, i) \in Int
<1>1. PICK t \in [0..Len(integrals) -> Int] : OrderNet(o, i) = t[Len(integrals)]
  BY OrderNetValue
<1>. QED  BY <1>1

(* ExpectedNet(k, i) is the last position of a solution of its recursion. *)
LEMMA ExpValue ==
    ASSUME integrals \in Seq(Series), factor \in [Orders -> Factors],
           NEW k \in Orders, NEW i \in Integrals
    PROVE  \E e \in [0..k + 1 -> Int] :
               /\ e[0] = 0
               /\ \A n \in 1..k + 1 :
                      e[n] = e[n - 1] + factor[n - 1] * OrderNet(k - (n - 1), i)
               /\ ExpectedNet(k, i) = e[k + 1]
<1> DEFINE N == k + 1
           Term(n) == factor[n - 1] * OrderNet(k - (n - 1), i)
           F == [n \in 1..N |-> [x \in Int |-> x + Term(n)]]
<1>0. N \in Nat
  BY DEF Orders
<1>1. \A n \in 1..N : Term(n) \in Int
  <2>1. ASSUME NEW n \in 1..N PROVE Term(n) \in Int
    <3>1. k - (n - 1) \in Orders /\ n - 1 \in Orders
      BY OrderIndex
    <3>2. OrderNet(k - (n - 1), i) \in Int /\ factor[n - 1] \in Int
      BY <3>1, OrderNetInt
    <3>. QED  BY <3>2
  <2>. QED  BY <2>1
<1>2. StepInto(F, 0, N, Int)
  BY <1>1 DEF StepInto
<1> HIDE DEF F, Term
<1>3. PICK e \in [0..N -> Int] : e[0] = 0 /\ \A n \in (0 + 1)..N : e[n] = F[n][e[n - 1]]
  <2>0. 0 \in Nat /\ 0 <= N /\ 0 \in Int
    BY <1>0
  <2>1. PICK g : IsRecSol(g, 0, N, Int, 0, F)
    BY <2>0, <1>0, <1>2, RecSolution
  <2>. QED  BY <2>1 DEF IsRecSol
<1>4. \A n \in 1..N : e[n] = e[n - 1] + Term(n)
  <2>1. ASSUME NEW n \in 1..N PROVE e[n] = e[n - 1] + Term(n)
    <3>1. e[n - 1] \in Int /\ e[n] = F[n][e[n - 1]]
      BY <1>0, <1>3
    <3>. QED  BY <3>1 DEF F
  <2>. QED  BY <2>1
<1>5. e = ExpBody(k, i, e)
  <2>1. ASSUME NEW n \in 0..N PROVE e[n] = ExpBody(k, i, e)[n]
    <3>1. CASE n = 0
      BY <1>3, <3>1 DEF ExpBody
    <3>2. CASE n # 0
      <4>1. n \in 1..N
        BY <1>0, <3>2
      <4>. QED  BY <4>1, <3>2, <1>4 DEF ExpBody, Term
    <3>. QED  BY <3>1, <3>2
  <2>. QED  BY <1>3, <2>1 DEF ExpBody
<1> DEFINE c == CHOOSE g : g = ExpBody(k, i, g)
<1>6. c = ExpBody(k, i, c)
  BY <1>5
<1> HIDE DEF c
<1> DEFINE Agree == {j \in 0..N : c[j] = e[j]}
<1>7. 0..N \subseteq Agree
  <2>1. 0 \in Agree
    <3>1. c[0] = ExpBody(k, i, c)[0]
      BY <1>6
    <3>2. ExpBody(k, i, c)[0] = 0
      BY <1>0 DEF ExpBody
    <3>. QED  BY <1>0, <1>3, <3>1, <3>2
  <2>2. ASSUME NEW n \in (0 + 1)..N, n - 1 \in Agree PROVE n \in Agree
    <3>0. n \in 1..N
      BY <1>0
    <3>1. c[n - 1] = e[n - 1]
      BY <2>2
    <3>2. c[n] = c[n - 1] + Term(n)
      <4>0. n \in 0..k + 1 /\ n # 0
        BY <1>0, <3>0
      <4>1. c[n] = ExpBody(k, i, c)[n]
        BY <1>6
      <4>2. ExpBody(k, i, c)[n] = c[n - 1] + Term(n)
        BY <4>0 DEF ExpBody, Term
      <4>. QED  BY <4>1, <4>2
    <3>3. e[n] = e[n - 1] + Term(n)
      BY <3>0, <1>4
    <3>4. c[n] = e[n]
      BY <3>1, <3>2, <3>3, Zenon
    <3>. QED  BY <1>0, <3>0, <3>4
  <2> HIDE DEF Agree
  <2>. QED  BY <1>0, <2>1, <2>2, UpToInduction
<1>8. ExpectedNet(k, i) = e[N]
  <2>1. ExpectedNet(k, i) = c[N]
    BY ExpectedNetIsChoose DEF c
  <2>2. c[N] = e[N]
    BY <1>0, <1>7 DEF Agree
  <2>. QED  BY <2>1, <2>2
<1>. QED  BY <1>3, <1>4, <1>8 DEF Term

(* Order k of the amplitude make_weighted_integral returns merges to the  *)
(* reference: the product of the accumulated sectors with the factor      *)
(* series, truncated at order k, nets out to ExpectedNet(k, i).            *)
LEMMA WeightedNet ==
    ASSUME integrals \in Seq(Series), Len(integrals) > 0,
           factor \in [Orders -> Factors], NEW k \in Orders, NEW i \in Integrals
    PROVE  NetCoefficients(Weighted(Accumulated, factor)[k])[i] = ExpectedNet(k, i)
<1> DEFINE N == k + 1
<1>0. N \in Nat
  BY DEF Orders
<1>1. PICK p \in [0..N -> Seq(Terms)] :
          /\ p[0] = << >>
          /\ \A n \in 1..N :
                 p[n] = p[n - 1] \o Scaled(Accumulated[k - (n - 1)], factor[n - 1])
          /\ Weighted(Accumulated, factor)[k] = p[N]
  BY PValue
<1>2. PICK e \in [0..N -> Int] :
          /\ e[0] = 0
          /\ \A n \in 1..N : e[n] = e[n - 1] + factor[n - 1] * OrderNet(k - (n - 1), i)
          /\ ExpectedNet(k, i) = e[N]
  BY ExpValue
<1> DEFINE Agree == {j \in 0..N : NetCoefficients(p[j])[i] = e[j]}
<1>3. 0..N \subseteq Agree
  <2>1. 0 \in Agree
    BY <1>0, <1>1, <1>2, NetEmpty
  <2>2. ASSUME NEW n \in (0 + 1)..N, n - 1 \in Agree PROVE n \in Agree
    <3>0. n \in 1..N /\ k - (n - 1) \in Orders /\ n - 1 \in Orders
      BY <1>0, OrderIndex
    <3> DEFINE a == Accumulated[k - (n - 1)]
               f == factor[n - 1]
    <3>1. a \in Seq(Terms) /\ NetCoefficients(a)[i] = OrderNet(k - (n - 1), i)
      BY <3>0, AccNet
    <3>2. f \in Int /\ NetCoefficients(a)[i] \in Int
      BY <3>0, <3>1, NetInt
    <3>3. p[n - 1] \in Seq(Terms) /\ Scaled(a, f) \in Seq(Terms)
      <4>1. n - 1 \in 0..N
        BY <1>0, <3>0
      <4>2. p[n - 1] \in Seq(Terms)
        BY <4>1, <1>1
      <4>3. Scaled(a, f) \in Seq(Terms)
        BY <3>1, <3>2, ScaledSeq
      <4>. QED  BY <4>2, <4>3
    <3>4. NetCoefficients(p[n])[i]
            = NetCoefficients(p[n - 1])[i] + NetCoefficients(Scaled(a, f))[i]
      <4>1. p[n] = p[n - 1] \o Scaled(a, f)
        BY <3>0, <1>1
      <4>. QED  BY <3>3, <4>1, NetConcat
    <3>5. NetCoefficients(Scaled(a, f))[i] = f * OrderNet(k - (n - 1), i)
      <4>1. NetCoefficients(Scaled(a, f))[i] = NetCoefficients(a)[i] * f
        BY <3>1, <3>2, NetScaled
      <4>. QED  BY <3>1, <3>2, <4>1
    <3>6. NetCoefficients(p[n - 1])[i] = e[n - 1]
      BY <2>2
    <3>7. e[n] = e[n - 1] + f * OrderNet(k - (n - 1), i)
      BY <3>0, <1>2
    <3>. QED  BY <3>0, <3>4, <3>5, <3>6, <3>7
  <2> HIDE DEF Agree
  <2>. QED  BY <1>0, <2>1, <2>2, UpToInduction
<1>. QED  BY <1>0, <1>1, <1>2, <1>3

-----------------------------------------------------------------------------
(* The inductive invariant: the type, and the promise itself.  The        *)
(* promise is inductive once the types are known, since the sectors and    *)
(* the factor never change after Init and the amplitude is written once.   *)
IInv == TypeOK /\ WeightedSumWhenSectors

LEMMA InitIInv == Init => IInv
<1> SUFFICES ASSUME Init PROVE IInv
  OBVIOUS
<1>1. PICK n \in 0..MaxSectors : integrals \in [1..n -> Series]
  BY DEF Init
<1>2. integrals \in Seq(Series) /\ Len(integrals) <= MaxSectors
  BY <1>1
<1>3. pc = "start" /\ factor \in [Orders -> Factors] /\ amplitude = [o \in Orders |-> << >>]
  BY DEF Init
<1>. QED  BY <1>2, <1>3 DEF IInv, TypeOK, WeightedSumWhenSectors,
                            AmplitudeIsWeightedSumOfSectors

LEMMA NextIInv == IInv /\ [Next]_vars => IInv'
<1> SUFFICES ASSUME IInv, [Next]_vars PROVE IInv'
  OBVIOUS
<1>0. integrals \in Seq(Series) /\ factor \in [Orders -> Factors]
  BY DEF IInv, TypeOK
<1>1. CASE MakeWeightedIntegral
  <2>1. Len(integrals) > 0 /\ pc' = "done"
        /\ amplitude' = Weighted(Accumulated, factor)
        /\ UNCHANGED <<integrals, factor>>
    BY <1>1 DEF MakeWeightedIntegral
  <2>2. \A k \in Orders : Weighted(Accumulated, factor)[k] \in Seq(Terms)
    <3>1. ASSUME NEW k \in Orders PROVE Weighted(Accumulated, factor)[k] \in Seq(Terms)
      <4>1. PICK p \in [0..k + 1 -> Seq(Terms)] : Weighted(Accumulated, factor)[k] = p[k + 1]
        BY <1>0, <2>1, PValue
      <4>2. k + 1 \in 0..k + 1
        BY DEF Orders
      <4>. QED  BY <4>1, <4>2
    <3>. QED  BY <3>1
  <2>3. amplitude' \in [Orders -> Seq(Terms)]
    BY <2>1, <2>2 DEF Weighted
  <2>4. ASSUME NEW k \in Orders, NEW i \in Integrals
        PROVE  NetCoefficients(amplitude'[k])[i] = ExpectedNet(k, i)'
    <3>1. ExpectedNet(k, i)' = ExpectedNet(k, i)
      BY <2>1 DEF ExpectedNet, OrderNet
    <3>2. NetCoefficients(amplitude'[k])[i] = ExpectedNet(k, i)
      BY <1>0, <2>1, WeightedNet
    <3>. QED  BY <3>1, <3>2
  <2>5. TypeOK'
    BY <2>1, <2>3 DEF IInv, TypeOK
  <2>. QED  BY <2>1, <2>4, <2>5 DEF IInv, WeightedSumWhenSectors, AmplitudeIsWeightedSumOfSectors
<1>2. CASE MakeWeightedIntegralEmpty
  <2>1. Len(integrals) = 0 /\ pc' \in {"crashed", "done"}
        /\ (amplitude' = amplitude \/ amplitude' \in Series)
        /\ UNCHANGED <<integrals, factor>>
    BY <1>2 DEF MakeWeightedIntegralEmpty
  <2>2. amplitude' \in [Orders -> Seq(Terms)]
    BY <2>1 DEF IInv, TypeOK, Series
  <2>. QED  BY <2>1, <2>2 DEF IInv, TypeOK, WeightedSumWhenSectors
<1>3. CASE UNCHANGED vars
  <2>1. UNCHANGED <<integrals, factor, amplitude, pc>>
    BY <1>3 DEF vars
  <2>2. \A k \in Orders, i \in Integrals : ExpectedNet(k, i)' = ExpectedNet(k, i)
    BY <2>1 DEF ExpectedNet, OrderNet
  <2>3. TypeOK'
    BY <2>1 DEF IInv, TypeOK
  <2>. QED  BY <2>1, <2>2, <2>3 DEF IInv, WeightedSumWhenSectors,
                                    AmplitudeIsWeightedSumOfSectors
<1>. QED  BY <1>1, <1>2, <1>3 DEF Next

(* Whenever the sub-integral has at least one sector, make_weighted_integral *)
(* returns, and at every order its amplitude merges to the weighted sum of   *)
(* all sectors, each counted once: WeightedSumWhenSectors, for every highest *)
(* order, number of sectors, sector sums and factor series.                  *)
THEOREM WeightedSumWhenSectorsHolds == Spec => []WeightedSumWhenSectors
<1>1. Spec => []IInv
  BY InitIInv, NextIInv, PTL DEF Spec
<1>. QED  BY <1>1, PTL DEF IInv
=============================================================================
