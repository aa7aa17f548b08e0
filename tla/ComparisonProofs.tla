--------------------------- MODULE ComparisonProofs ---------------------------
(***************************************************************************)
(* Integers, versions and addresses compare by what they stand for, for    *)
(* all widths of the types and all values.                                 *)
(***************************************************************************)
EXTENDS ValueComparison, ProofLemmas

-----------------------------------------------------------------------------
(***************************************************************************)
(* A call returns one of the outcomes of its method.                       *)
(***************************************************************************)
Asked == \E kind \in DOMAIN Requests : request \in Requests[kind]

Answered ==
  request.call = "entity" /\ result # NoResult => result \in AnalyzeEntity(request)

ComparisonInv == Asked /\ Answered

LEMMA CallsAnswer == Init /\ [][Next]_vars => []ComparisonInv
<1>1. Init => ComparisonInv
  BY DEF Init, ComparisonInv, Asked, Answered
<1>2. ComparisonInv /\ [Next]_vars => ComparisonInv'
  <2>1. CASE UNCHANGED vars
    BY <2>1 DEF vars, ComparisonInv, Asked, Answered
  <2>2. CASE Entity
    BY <2>2 DEF Entity, Return, ComparisonInv, Asked, Answered
  <2>3. CASE Restriction
    BY <2>3 DEF Restriction, Return, ComparisonInv, Asked, Answered
  <2>4. CASE PossibleValue
    BY <2>4 DEF PossibleValue, Return, ComparisonInv, Asked, Answered
  <2> QED
    BY <2>1, <2>2, <2>3, <2>4 DEF Next
<1> QED
  BY <1>1, <1>2, PTL

\* What a comparison with a literal came to.
LEMMA LiteralCompared ==
  ASSUME ComparisonInv, NEW datatype, datatype # "record", Compared(datatype)
  PROVE  /\ result \in Caught(Compare(datatype, request.op, def, request.sc))
         /\ IsLiteral(datatype, def) /\ IsLiteral(datatype, request.sc)
<1>1. /\ request.call = "entity" /\ request.datatype = datatype /\ result # NoResult
      /\ ~request.variable /\ request.status = "exists"
  BY DEF Compared
<1>2. AnalyzeEntity(request) = Caught(Compare(datatype, request.op, def, request.sc))
  BY <1>1 DEF AnalyzeEntity, ByStatus, def
<1> QED
  BY <1>1, <1>2, RequestsAssumption DEF ComparisonInv, Asked, Answered, def

LEMMA Truths ==
  /\ \A b \in BOOLEAN : Truth(b) \in {"true", "false"}
  /\ "true" # Throws /\ "false" # Throws
BY ComparisonAssumption DEF Truth, ResultEnumeration

LEMMA SixOrders ==
  ASSUME NEW op \in Orders
  PROVE  \/ op = "equals" \/ op = "not equal" \/ op = "less than"
         \/ op = "less than or equal" \/ op = "greater than" \/ op = "greater than or equal"
BY DEF Orders

LEMMA OrdersAreTruths ==
  ASSUME NEW op \in Orders, NEW sense
  PROVE  BySense(op, sense) \in {"true", "false"} /\ BySense(op, sense) # Throws
BY Truths, SixOrders DEF BySense, Truth

-----------------------------------------------------------------------------
(***************************************************************************)
(* Integers.                                                               *)
(***************************************************************************)
LEMMA RestOfSmaller ==
  ASSUME NEW m \in Nat, NEW n \in 0..(m - 1)
  PROVE  n % m = n
OBVIOUS

\* The smaller one is signed, the larger one is not.
LEMMA MixedOrder ==
  ASSUME NEW op \in Orders, NEW d \in Int, NEW s \in Int,
         \/ FitsSigned(s) /\ s < d
         \/ ~FitsSigned(s) /\ s > d
  PROVE  CompareMixed(op, d, s) = BySense(op, Sense(s, d))
<1>1. /\ CompareMixed("equals", d, s) = "false"
      /\ CompareMixed("not equal", d, s) = "true"
      /\ CompareMixed("less than", d, s) = Truth(FitsSigned(s))
      /\ CompareMixed("less than or equal", d, s) = Truth(FitsSigned(s))
      /\ CompareMixed("greater than", d, s) = Truth(~FitsSigned(s))
      /\ CompareMixed("greater than or equal", d, s) = Truth(~FitsSigned(s))
  BY DEF CompareMixed
<1>2. Sense(s, d) = IF s < d THEN -1 ELSE 1
  BY DEF Sense
<1>3. CASE FitsSigned(s) /\ s < d
  <2>1. Sense(s, d) = -1
    BY <1>2, <1>3
  <2>2. Truth(FitsSigned(s)) = "true" /\ Truth(~FitsSigned(s)) = "false"
    BY <1>3 DEF Truth
  <2>3. -1 < 0 /\ -1 <= 0 /\ ~(-1 = 0) /\ ~(-1 > 0) /\ ~(-1 >= 0)
    OBVIOUS
  <2>4. /\ BySense("equals", -1) = "false"
        /\ BySense("not equal", -1) = "true"
        /\ BySense("less than", -1) = "true"
        /\ BySense("less than or equal", -1) = "true"
        /\ BySense("greater than", -1) = "false"
        /\ BySense("greater than or equal", -1) = "false"
    BY <2>3 DEF BySense, Truth
  <2> QED
    BY <1>1, <2>1, <2>2, <2>4, SixOrders
<1>4. CASE ~FitsSigned(s) /\ s > d
  <2>1. Sense(s, d) = 1
    BY <1>2, <1>4
  <2>2. Truth(FitsSigned(s)) = "false" /\ Truth(~FitsSigned(s)) = "true"
    BY <1>4 DEF Truth
  <2>3. 1 > 0 /\ 1 >= 0 /\ ~(1 = 0) /\ ~(1 < 0) /\ ~(1 <= 0)
    OBVIOUS
  <2>4. /\ BySense("equals", 1) = "false"
        /\ BySense("not equal", 1) = "true"
        /\ BySense("less than", 1) = "false"
        /\ BySense("less than or equal", 1) = "false"
        /\ BySense("greater than", 1) = "true"
        /\ BySense("greater than or equal", 1) = "true"
    BY <2>3 DEF BySense, Truth
  <2> QED
    BY <1>1, <2>1, <2>2, <2>4, SixOrders
<1> QED
  BY <1>3, <1>4

LEMMA IntegerOrder ==
  ASSUME NEW d \in (-(Modulus \div 2))..(Modulus - 1), NEW s \in (-(Modulus \div 2))..(Modulus - 1),
         NEW op \in Orders, Malformed \notin {d, s},
         \/ Build = "windows"
         \/ FitsSigned(d) /\ FitsSigned(s)
         \/ d >= 0 /\ s >= 0
  PROVE  CompareInteger(op, d, s) = BySense(op, Sense(s, d))
<1> DEFINE half == Modulus \div 2
<1>1. Modulus \in Nat /\ Modulus > 0 /\ half \in Nat /\ half <= Modulus
  BY WidthAssumption
<1>2. CompareIntOperation(op, d, s) = BySense(op, Sense(s, d))
  BY DEF CompareIntOperation, Orders
<1>3. CASE FitsSigned(d) /\ FitsSigned(s)
  BY <1>2, <1>3 DEF CompareInteger
<1>4. CASE d >= 0 /\ s >= 0 /\ ~(FitsSigned(d) /\ FitsSigned(s))
  <2>1. d \in 0..(Modulus - 1) /\ s \in 0..(Modulus - 1)
    BY <1>1, <1>4
  <2>2. FitsUnsigned(d) /\ FitsUnsigned(s)
    BY <2>1, <1>1 DEF FitsUnsigned
  <2>3. ToUnsigned(d) = d /\ ToUnsigned(s) = s
    BY <2>1, <1>1, RestOfSmaller DEF ToUnsigned
  <2> QED
    BY <1>4, <1>2, <2>2, <2>3 DEF CompareInteger
<1>5. CASE ~(d >= 0 /\ s >= 0) /\ ~(FitsSigned(d) /\ FitsSigned(s))
  <2>1. Build = "windows"
    BY <1>5
  <2> HIDE DEF half
  <2>2. \/ d < 0 /\ s >= half
        \/ s < 0 /\ d >= half
    BY <1>1, <1>5 DEF FitsSigned, half
  <2>3. CASE d < 0 /\ s >= half
    <3>1. FitsSigned(d) /\ ~FitsUnsigned(d) /\ ~FitsSigned(s) /\ FitsUnsigned(s)
      BY <1>1, <2>1, <2>3 DEF FitsSigned, FitsUnsigned, half
    <3>2. CompareInteger(op, d, s) = CompareMixed(op, d, s)
      BY <3>1 DEF CompareInteger
    <3> QED
      BY <1>1, <2>3, <3>1, <3>2, MixedOrder DEF half
  <2>4. CASE s < 0 /\ d >= half
    <3>1. FitsSigned(s) /\ ~FitsUnsigned(s) /\ ~FitsSigned(d) /\ FitsUnsigned(d)
      BY <1>1, <2>1, <2>4 DEF FitsSigned, FitsUnsigned, half
    <3>2. CompareInteger(op, d, s) = CompareMixed(op, d, s)
      BY <3>1 DEF CompareInteger
    <3> QED
      BY <1>1, <2>4, <3>1, <3>2, MixedOrder DEF half
  <2> QED
    BY <2>2, <2>3, <2>4
<1> QED
  BY <1>3, <1>4, <1>5

\* Integers of any width compare by their value, with the type that holds each
\* of them, as signed, as unsigned, or as one of each (CompareInteger).
THEOREM IntegersByValue == Spec => []IntegersCompareByValue
<1>1. ComparisonInv => IntegersCompareByValue
  <2> SUFFICES ASSUME ComparisonInv, Compared("integer"), Malformed \notin {def, request.sc},
                      {def, request.sc} \subseteq (-(Modulus \div 2))..(Modulus - 1),
                      \/ Build = "windows"
                      \/ FitsSigned(def) /\ FitsSigned(request.sc)
                      \/ def >= 0 /\ request.sc >= 0,
                      request.op \in Orders
               PROVE  result = BySense(request.op, Sense(request.sc, def))
    BY DEF IntegersCompareByValue
  <2>1. result \in Caught({CompareInteger(request.op, def, request.sc)})
    BY LiteralCompared DEF Compare
  <2>2. CompareInteger(request.op, def, request.sc) = BySense(request.op, Sense(request.sc, def))
    BY IntegerOrder
  <2> QED
    BY <2>1, <2>2, OrdersAreTruths DEF Caught
<1> QED
  BY <1>1, CallsAnswer, PTL DEF Spec

-----------------------------------------------------------------------------
(***************************************************************************)
(* Versions: the first component that differs decides which of the numbers *)
(* is larger that have the components for digits.                          *)
(***************************************************************************)
\* The number of the first i digits, from that of those before.
NumberAt(a, f, i) == IF i = 0 THEN 0 ELSE Modulus * f[i - 1] + a[i]

Digit == 0..(Modulus - 1)

\* The numbers of the first digits, up to n.
Numbers(a, n, f) == \A i \in 0..n : f[i] = NumberAt(a, f, i)

SameUpTo(a, b, k) == \A i \in 1..k : a[i] = b[i]

LEMMA NextNumber ==
  ASSUME NEW n \in Nat, NEW a, NEW f, Numbers(a, n, f), NEW i \in 0..(n - 1)
  PROVE  f[i + 1] = Modulus * f[i] + a[i + 1]
<1>1. i + 1 \in 0..n /\ i + 1 # 0 /\ (i + 1) - 1 = i
  OBVIOUS
<1>2. f[i + 1] = NumberAt(a, f, i + 1)
  BY <1>1 DEF Numbers
<1> QED
  BY <1>1, <1>2 DEF NumberAt

LEMMA ProductsAreNatural ==
  ASSUME NEW x \in Nat, NEW y \in Nat
  PROVE  x * y \in Nat
OBVIOUS

LEMMA NumbersExist ==
  ASSUME NEW n \in Nat, NEW a \in [1..n -> Digit]
  PROVE  \E f \in [0..n -> Nat] : f = [i \in 0..n |-> NumberAt(a, f, i)]
<1> DEFINE N == 0..n
           h == [i \in N |-> i]
           G == [i \in N |-> [f \in [N -> Nat] |-> NumberAt(a, f, i)]]
<1>1. Modulus \in Nat
  BY WidthAssumption
<1>2. ASSUME NEW i \in N, NEW f \in [N -> Nat] PROVE NumberAt(a, f, i) \in Nat
  <2>1. CASE i = 0
    BY <2>1 DEF NumberAt
  <2>2. CASE i # 0
    <3>1. f[i - 1] \in Nat /\ a[i] \in Nat
      BY <2>2, <1>1 DEF Digit
    <3>2. Modulus * f[i - 1] \in Nat
      BY <3>1, <1>1, ProductsAreNatural
    <3> QED
      BY <3>1, <3>2, <2>2 DEF NumberAt
  <2> QED
    BY <2>1, <2>2
<1>3. Nat # {} /\ h \in [N -> Nat] /\ G \in [N -> [[N -> Nat] -> Nat]]
  <2>1. Nat # {} /\ h \in [N -> Nat]
    OBVIOUS
  <2>2. ASSUME NEW i \in N PROVE [f \in [N -> Nat] |-> NumberAt(a, f, i)] \in [[N -> Nat] -> Nat]
    <3> HIDE DEF N, h
    <3> QED
      BY <1>2
  <2> HIDE DEF N, h
  <2> QED
    BY <2>1, <2>2
<1>4. ReadsBelow(N, Nat, h, G)
  <2> SUFFICES ASSUME NEW i \in N, NEW f \in [N -> Nat], NEW g \in [N -> Nat],
                      \A j \in N : h[j] < h[i] => f[j] = g[j]
               PROVE  G[i][f] = G[i][g]
    BY DEF ReadsBelow
  <2>1. i # 0 => i - 1 \in N /\ h[i - 1] < h[i]
    OBVIOUS
  <2>2. NumberAt(a, f, i) = NumberAt(a, g, i)
    <3> HIDE DEF h
    <3> QED
      BY <2>1 DEF NumberAt
  <2> QED
    BY <2>2
<1>5. PICK f \in [N -> Nat] : \A i \in N : f[i] = G[i][f]
  <2> HIDE DEF N, h, G
  <2>1. Recursion(N, Nat, h, G)
    BY <1>3, <1>4 DEF Recursion
  <2> QED
    BY <2>1, RecursionByHeight
<1>6. f = [i \in 0..n |-> NumberAt(a, f, i)]
  BY <1>5
<1> QED
  BY <1>6

\* A larger digit outweighs all that follow.
LEMMA DigitsOutweigh ==
  ASSUME NEW x \in Nat, NEW y \in Nat, x < y, NEW u \in Digit, NEW v \in Digit
  PROVE  Modulus * x + u < Modulus * y + v
<1> DEFINE M == Modulus
           c == y - x - 1
<1>1. M \in Nat /\ u \in Nat /\ v \in Nat /\ u < M
  BY WidthAssumption DEF Digit
<1>2. c \in Nat /\ y = x + 1 + c
  OBVIOUS
<1> HIDE DEF M, c
<1>3. M * c \in Nat /\ M * x \in Nat
  BY <1>1, <1>2, ProductsAreNatural
<1>4. M * (x + 1 + c) = M * x + M + M * c
  BY <1>1, <1>2
<1>5. M * x + u < M * y + v
  BY <1>1, <1>2, <1>3, <1>4
<1> QED
  BY <1>5 DEF M

\* Numbers with the same digits up to k.
LEMMA SameDigits ==
  ASSUME NEW n \in Nat, NEW a, NEW b, NEW f, NEW g, Numbers(a, n, f), Numbers(b, n, g),
         NEW k \in 0..n, SameUpTo(a, b, k)
  PROVE  f[k] = g[k]
<1> DEFINE Q == {i \in 0..k : f[i] = g[i]}
<1>1. 0 \in Q
  BY DEF Numbers, NumberAt
<1>2. ASSUME NEW i \in 0..(k - 1), i \in Q PROVE i + 1 \in Q
  <2>1. i \in 0..(n - 1) /\ i + 1 \in 1..k /\ f[i] = g[i]
    BY <1>2
  <2>2. f[i + 1] = Modulus * f[i] + a[i + 1] /\ g[i + 1] = Modulus * g[i] + b[i + 1]
    BY <2>1, NextNumber
  <2> QED
    BY <2>1, <2>2 DEF SameUpTo
<1>3. 0..k \subseteq Q
  <2> HIDE DEF Q
  <2> QED
    BY <1>1, <1>2, UpTo
<1> QED
  BY <1>3

\* The first digit that differs decides.
LEMMA FirstDigitDecides ==
  ASSUME NEW n \in Nat, NEW a \in [1..n -> Digit], NEW b \in [1..n -> Digit],
         NEW f, NEW g, \A i \in 0..n : f[i] \in Nat /\ g[i] \in Nat,
         Numbers(a, n, f), Numbers(b, n, g),
         NEW k \in 1..n, SameUpTo(a, b, k - 1), a[k] < b[k]
  PROVE  f[n] < g[n]
<1> DEFINE Q == {i \in 0..n : i >= k => f[i] < g[i]}
<1>1. 0 \in Q
  OBVIOUS
<1>2. ASSUME NEW i \in 0..(n - 1), i \in Q PROVE i + 1 \in Q
  <2>1. i + 1 \in 1..n /\ f[i] \in Nat /\ g[i] \in Nat /\ a[i + 1] \in Digit /\ b[i + 1] \in Digit
    <3>1. i + 1 \in 1..n /\ i \in 0..n
      OBVIOUS
    <3> QED
      BY <3>1
  <2>2. f[i + 1] = Modulus * f[i] + a[i + 1] /\ g[i + 1] = Modulus * g[i] + b[i + 1]
    BY <2>1, NextNumber
  <2>3. CASE i >= k
    <3>1. f[i] < g[i]
      BY <1>2, <2>3
    <3>2. Modulus * f[i] + a[i + 1] < Modulus * g[i] + b[i + 1]
      BY <3>1, <2>1, DigitsOutweigh
    <3> QED
      BY <2>1, <2>2, <3>2
  <2>4. CASE i + 1 = k
    <3>1. f[i] = g[i]
      <4>1. k - 1 = i /\ i \in 0..n
        BY <2>4
      <4>2. SameUpTo(a, b, i)
        BY <4>1
      <4> QED
        BY <4>1, <4>2, SameDigits
    <3>2. /\ Modulus * f[i] \in Nat /\ a[i + 1] \in Nat /\ b[i + 1] \in Nat
          /\ a[i + 1] < b[i + 1]
      <4>1. Modulus \in Nat /\ a[i + 1] \in Nat /\ b[i + 1] \in Nat
        BY <2>1, WidthAssumption DEF Digit
      <4>2. a[i + 1] < b[i + 1]
        BY <2>4
      <4> QED
        BY <2>1, <4>1, <4>2, ProductsAreNatural
    <3> DEFINE x == Modulus * f[i]
    <3>3. f[i + 1] = x + a[i + 1] /\ g[i + 1] = x + b[i + 1] /\ x \in Nat
      BY <2>2, <3>1, <3>2
    <3> HIDE DEF x
    <3>4. f[i + 1] < g[i + 1]
      BY <3>2, <3>3
    <3> QED
      BY <2>1, <3>4
  <2>5. CASE i + 1 < k
    BY <2>1, <2>5
  <2> QED
    BY <2>3, <2>4, <2>5
<1>3. 0..n \subseteq Q
  <2> HIDE DEF Q
  <2> QED
    BY <1>1, <1>2, UpTo
<1> QED
  BY <1>3

LEMMA VersionOrder ==
  ASSUME NEW n \in Nat, NEW m \in 0..n, NEW d, NEW s,
         Padded(d, n) \in [1..n -> Digit], Padded(s, n) \in [1..n -> Digit],
         \A i \in (m + 1)..n : i \notin DOMAIN d /\ i \notin DOMAIN s
  PROVE  FirstDifference(Padded(d, m), Padded(s, m)) = Sense(AsNumber(s, n), AsNumber(d, n))
<1> DEFINE a == Padded(d, n)
           b == Padded(s, n)
           F(v) == CHOOSE f : f = [i \in 0..n |-> NumberAt(Padded(v, n), f, i)]
           f == F(d)
           g == F(s)
           differ == {i \in 1..m : a[i] # b[i]}
<1>1. AsNumber(d, n) = f[n] /\ AsNumber(s, n) = g[n]
  BY DEF AsNumber, NumberAt
<1>2. /\ \A i \in 0..n : f[i] \in Nat /\ g[i] \in Nat
      /\ Numbers(a, n, f) /\ Numbers(b, n, g)
  <2>1. ASSUME NEW v, Padded(v, n) \in [1..n -> Digit]
        PROVE  F(v) = [i \in 0..n |-> NumberAt(Padded(v, n), F(v), i)]
    <3>1. PICK x \in [0..n -> Nat] : x = [i \in 0..n |-> NumberAt(Padded(v, n), x, i)]
      BY <2>1, NumbersExist
    <3> QED
      BY <3>1
  <2>2. ASSUME NEW v, Padded(v, n) \in [1..n -> Digit]
        PROVE  F(v) \in [0..n -> Nat]
    <3>1. PICK x \in [0..n -> Nat] : x = [i \in 0..n |-> NumberAt(Padded(v, n), x, i)]
      BY <2>2, NumbersExist
    <3> DEFINE y == F(v)
               p == Padded(v, n)
    <3>2. Numbers(p, n, x) /\ Numbers(p, n, y)
      BY <3>1, <2>1, <2>2 DEF Numbers
    <3> HIDE DEF y, p
    <3>3. \A k \in 0..n : x[k] = y[k]
      BY <3>2, SameDigits DEF SameUpTo
    <3>4. y = [i \in 0..n |-> NumberAt(p, y, i)]
      BY <2>1, <2>2 DEF y, p
    <3>5. y \in [0..n -> Nat]
      <4>1. DOMAIN y = 0..n /\ y = [i \in DOMAIN y |-> y[i]]
        BY <3>4
      <4> QED
        BY <3>1, <3>3, <4>1
    <3> QED
      BY <3>5 DEF y
  <2> HIDE DEF F
  <2> QED
    BY <2>1, <2>2 DEF Numbers
<1> HIDE DEF f, g, F
<1>3. \A i \in 1..m : Padded(d, m)[i] = a[i] /\ Padded(s, m)[i] = b[i]
  BY DEF Padded
<1>4. \A i \in (m + 1)..n : a[i] = 0 /\ b[i] = 0
  BY DEF Padded
<1>5. {i \in DOMAIN Padded(d, m) : Padded(d, m)[i] # Padded(s, m)[i]} = differ
  BY <1>3 DEF Padded
<1>6. CASE differ = {}
  <2>1. n \in 0..n /\ SameUpTo(a, b, n)
    BY <1>4, <1>6 DEF SameUpTo
  <2>2. f[n] = g[n]
    <3> HIDE DEF a, b
    <3> QED
      BY <2>1, <1>2, SameDigits
  <2>3. FirstDifference(Padded(d, m), Padded(s, m)) = 0
    BY <1>5, <1>6 DEF FirstDifference
  <2> QED
    BY <2>2, <2>3, <1>1, <1>2 DEF Sense
<1>7. CASE differ # {}
  <2>1. \E j \in differ : \A k \in differ : j <= k
    <3>1. differ \subseteq Nat
      OBVIOUS
    <3> HIDE DEF differ
    <3> QED
      BY <3>1, <1>7, LeastNatural
  <2> DEFINE k == CHOOSE j \in differ : \A l \in differ : j <= l
  <2>2. k \in differ /\ \A l \in differ : k <= l
    BY <2>1
  <2>3. FirstDifference(Padded(d, m), Padded(s, m)) = Sense(b[k], a[k])
    <3>1. FirstDifference(Padded(d, m), Padded(s, m)) = Sense(Padded(s, m)[k], Padded(d, m)[k])
      BY <1>5, <1>7 DEF FirstDifference
    <3> HIDE DEF a, b, k
    <3> QED
      BY <3>1, <2>2, <1>3
  <2> HIDE DEF k
  <2>4. k \in 1..n /\ a[k] \in Nat /\ b[k] \in Nat /\ a[k] # b[k]
    BY <2>2, WidthAssumption DEF Digit
  <2>5. SameUpTo(a, b, k - 1) /\ SameUpTo(b, a, k - 1)
    <3> SUFFICES ASSUME NEW i \in 1..(k - 1), a[i] # b[i] PROVE FALSE
      BY DEF SameUpTo
    <3> HIDE DEF a, b
    <3> QED
      BY <2>2, <2>4
  <2> HIDE DEF a, b
  <2>6. a \in [1..n -> Digit] /\ b \in [1..n -> Digit]
    BY DEF a, b
  <2>7. CASE a[k] < b[k]
    <3>1. f[n] < g[n]
      BY <1>2, <2>4, <2>5, <2>6, <2>7, FirstDigitDecides
    <3> QED
      BY <1>1, <1>2, <2>3, <2>4, <2>7, <3>1 DEF Sense
  <2>8. CASE b[k] < a[k]
    <3>1. g[n] < f[n]
      BY <1>2, <2>4, <2>5, <2>6, <2>8, FirstDigitDecides
    <3> QED
      BY <1>1, <1>2, <2>3, <2>4, <2>8, <3>1 DEF Sense
  <2> QED
    BY <2>4, <2>7, <2>8
<1> QED
  BY <1>6, <1>7

\* A version whose components fit is read as it is.
LEMMA VersionsAreRead ==
  ASSUME NEW v \in Seq(Nat), \A i \in DOMAIN v : FitsSigned(v[i])
  PROVE  ParseVersionStr(v) = {v}
<1>1. Modulus \in Nat /\ v \in [DOMAIN v -> Nat]
  BY WidthAssumption
<1>2. v \in [DOMAIN v -> 0..((Modulus \div 2) - 1)]
  BY <1>1 DEF FitsSigned
<1> QED
  BY <1>2 DEF ParseVersionStr

\* How many components are compared, and what one comparison comes to.
Longer(d, s) == IF Len(d) > Len(s) THEN Len(d) ELSE Len(s)

Outcome(op, m, d, s) ==
  LET r == BySense(op, FirstDifference(Padded(d, m), Padded(s, m)))
  IN  IF r = Throws THEN "error" ELSE r

\* What makes CompareVersion throw.
Refused(op, d, s) ==
  Malformed \in {d, s} \/ op \in {"pattern match", "bitwise and", "bitwise or"}

LEMMA VersionOutcomes ==
  ASSUME NEW op, NEW d, NEW s
  PROVE  CompareVersion(op, d, s)
           = IF Refused(op, d, s) THEN {Throws}
             ELSE {Outcome(op, Longer(d, s), x, y) :
                     x \in ParseVersionStr(d), y \in ParseVersionStr(s)}
BY DEF CompareVersion, Refused, Longer, Outcome

LEMMA FittingAreDigits ==
  ASSUME NEW x \in Nat, FitsSigned(x)
  PROVE  x \in Digit
BY WidthAssumption DEF FitsSigned, Digit

\* Versions with components of any number compare as the numbers that have the
\* components for digits (CompareVersion).
THEOREM VersionsByComponents == Spec => []VersionsOrder
<1>1. ComparisonInv => VersionsOrder
  <2> DEFINE sc == request.sc
             n == Len(def) + Len(sc)
             m == Longer(def, sc)
             sense == FirstDifference(Padded(def, m), Padded(sc, m))
  <2> SUFFICES ASSUME ComparisonInv, Compared("version"), Malformed \notin {def, sc},
                      \A v \in {def, sc} : \A i \in DOMAIN v : FitsSigned(v[i]),
                      request.op \in Orders
               PROVE  result = BySense(request.op, Sense(AsNumber(sc, n), AsNumber(def, n)))
    BY DEF VersionsOrder
  <2>1. /\ result \in Caught(CompareVersion(request.op, def, sc))
        /\ def \in Seq(Nat) /\ sc \in Seq(Nat)
    BY LiteralCompared DEF Compare, IsLiteral
  <2>2. ParseVersionStr(def) = {def} /\ ParseVersionStr(sc) = {sc}
    BY <2>1, VersionsAreRead
  <2>3. ~Refused(request.op, def, sc)
    BY DEF Orders, Refused
  <2>4. CompareVersion(request.op, def, sc) = {BySense(request.op, sense)}
    <3>1. BySense(request.op, sense) # Throws
      BY OrdersAreTruths
    <3>2. Outcome(request.op, m, def, sc) = BySense(request.op, sense)
      BY <3>1 DEF Outcome
    <3>3. CompareVersion(request.op, def, sc)
            = {Outcome(request.op, m, x, y) : x \in {def}, y \in {sc}}
      BY <2>2, <2>3, VersionOutcomes
    <3> HIDE DEF sense, m
    <3> QED
      BY <3>2, <3>3
  <2>5. sense = Sense(AsNumber(sc, n), AsNumber(def, n))
    <3>1. n \in Nat /\ m \in 0..n /\ Modulus \in Nat
      BY <2>1, WidthAssumption DEF Longer
    <3>2. ASSUME NEW v \in {def, sc} PROVE Padded(v, n) \in [1..n -> Digit]
      <4>1. ASSUME NEW i \in DOMAIN v PROVE v[i] \in Digit
        <5>1. v[i] \in Nat
          BY <2>1
        <5>2. FitsSigned(v[i])
          OBVIOUS
        <5> QED
          BY <5>1, <5>2, FittingAreDigits
      <4>2. 0 \in Digit
        BY WidthAssumption DEF Digit
      <4> HIDE DEF n
      <4> QED
        BY <4>1, <4>2 DEF Padded
    <3>3. \A i \in (m + 1)..n : i \notin DOMAIN def /\ i \notin DOMAIN sc
      BY <2>1 DEF Longer
    <3> HIDE DEF n, m
    <3> QED
      BY <3>1, <3>2, <3>3, VersionOrder
  <2> QED
    BY <2>1, <2>4, <2>5, OrdersAreTruths DEF Caught
<1> QED
  BY <1>1, CallsAnswer, PTL DEF Spec

-----------------------------------------------------------------------------
(***************************************************************************)
(* Addresses: a prefix and an address under it stand for the sets of bits  *)
(* that agree with the address where the mask of the prefix has ones.      *)
(***************************************************************************)
Masked4(a) == a.netmask \in SUBSET Bits /\ a.addr \in SUBSET a.netmask

\* What is fixed by b is fixed by a, and to the same bits.
Under4(a, b) == b.netmask \subseteq a.netmask /\ a.addr \cap b.netmask = b.addr

\* The more the mask has, the fewer agree.
LEMMA HostsIncluded ==
  ASSUME NEW a, NEW b, Masked4(a), Masked4(b)
  PROVE  Hosts4(a) \subseteq Hosts4(b) <=> Under4(a, b)
<1>1. ASSUME Under4(a, b), NEW h \in Hosts4(a)
      PROVE  h \in Hosts4(b)
  <2>1. h \in SUBSET Bits /\ h \cap a.netmask = a.addr
    BY <1>1 DEF Hosts4
  <2>2. h \cap b.netmask = b.addr
    BY <1>1, <2>1 DEF Under4
  <2> QED
    BY <2>1, <2>2 DEF Hosts4
<1>2. ASSUME Hosts4(a) \subseteq Hosts4(b)
      PROVE  Under4(a, b)
  <2>1. a.addr \in Hosts4(b)
    BY <1>2 DEF Hosts4, Masked4
  <2> DEFINE most == a.addr \cup (Bits \ a.netmask)
  <2>2. most \in Hosts4(a)
    BY DEF Hosts4, Masked4
  <2>3. most \cap b.netmask = b.addr /\ a.addr \cap b.netmask = b.addr
    BY <1>2, <2>1, <2>2 DEF Hosts4
  <2> QED
    BY <2>3 DEF Under4, Masked4
<1> QED
  BY <1>1, <1>2

\* The masks of prefixes.
LEMMA PrefixMasks ==
  ASSUME NEW p \in 0..AddressBits, NEW q \in 0..AddressBits
  PROVE  /\ PrefixMask(p) \subseteq Bits
         /\ PrefixMask(q) \subseteq PrefixMask(p) <=> q <= p
         /\ PrefixMask(p) = PrefixMask(q) <=> p = q
<1>1. AddressBits \in Nat
  BY AddressAssumption
<1>2. ASSUME NEW x \in 0..AddressBits, NEW y \in 0..AddressBits, PrefixMask(y) \subseteq PrefixMask(x)
      PROVE  y <= x
  <2> SUFFICES ASSUME x < y PROVE FALSE
    OBVIOUS
  <2>1. AddressBits - y \in PrefixMask(y) /\ AddressBits - y \notin PrefixMask(x)
    BY <1>1 DEF PrefixMask
  <2> QED
    BY <2>1, <1>2
<1>3. ASSUME NEW x \in 0..AddressBits, NEW y \in 0..AddressBits, y <= x
      PROVE  PrefixMask(y) \subseteq PrefixMask(x)
  BY <1>1, <1>3 DEF PrefixMask
<1>4. PrefixMask(p) \subseteq Bits
  BY <1>1 DEF PrefixMask, Bits
<1> QED
  BY <1>2, <1>3, <1>4

\* A netmask all of whose ones are at the front is that of the prefix found.
LEMMA MasksOfPrefixes ==
  ASSUME NEW mask \in SUBSET Bits, IsPrefixMask(mask)
  PROVE  PrefixOfMask(mask) \in 0..AddressBits /\ PrefixMask(PrefixOfMask(mask)) = mask
<1> DEFINE ones == mask \cap (0..(AddressBits - 2))
           p == PrefixOfMask(mask)
<1>1. AddressBits \in Nat /\ AddressBits > 0
  BY AddressAssumption
<1>2. CASE ones # {}
  <2> DEFINE least == CHOOSE i \in ones : \A j \in ones : i <= j
  <2>1. least \in ones /\ \A j \in ones : least <= j
    <3>1. ones \subseteq Nat
      OBVIOUS
    <3> HIDE DEF ones
    <3> QED
      BY <3>1, <1>2, LeastNatural
  <2>2. p = AddressBits - least
    BY <1>2 DEF PrefixOfMask
  <2> HIDE DEF least, p
  <2>3. p \in 0..AddressBits /\ PrefixMask(p) = least..(AddressBits - 1)
    BY <1>1, <2>1, <2>2 DEF PrefixMask
  <2>4. mask \subseteq least..(AddressBits - 1)
    BY <1>1, <2>1 DEF Bits
  <2>5. least..(AddressBits - 1) \subseteq mask
    <3> DEFINE n == AddressBits - 1 - least
               Q == {k \in 0..n : least + k \in mask}
    <3>1. n \in Nat /\ least \in Nat
      BY <1>1, <2>1
    <3>2. 0 \in Q
      BY <2>1, <3>1
    <3>3. \A k \in 0..(n - 1) : k \in Q => k + 1 \in Q
      <4> SUFFICES ASSUME NEW k \in 0..(n - 1), k \in Q PROVE k + 1 \in Q
        OBVIOUS
      <4>1. least + k \in 0..(AddressBits - 2) /\ least + k \in mask
        BY <1>1, <3>1
      <4>2. (least + k) + 1 \in mask
        BY <4>1 DEF IsPrefixMask
      <4> QED
        BY <4>2, <3>1
    <3>4. 0..n \subseteq Q
      <4> HIDE DEF Q, n
      <4> QED
        BY <3>1, <3>2, <3>3, UpTo
    <3> SUFFICES ASSUME NEW j \in least..(AddressBits - 1) PROVE j \in mask
      OBVIOUS
    <3>5. j - least \in 0..n /\ least + (j - least) = j
      BY <1>1, <3>1
    <3> QED
      BY <3>4, <3>5
  <2> QED
    BY <2>3, <2>4, <2>5 DEF p
<1>3. CASE ones = {} /\ AddressBits - 1 \in mask
  <2>1. p = 1
    BY <1>3 DEF PrefixOfMask
  <2>2. ASSUME NEW j \in mask PROVE j = AddressBits - 1
    BY <1>1, <1>3 DEF Bits
  <2>3. (AddressBits - 1)..(AddressBits - 1) = {AddressBits - 1}
    BY <1>1
  <2>4. mask = {AddressBits - 1}
    BY <1>3, <2>2
  <2> QED
    BY <1>1, <2>1, <2>3, <2>4 DEF PrefixMask
<1>4. CASE ones = {} /\ AddressBits - 1 \notin mask
  <2>1. p = 0
    BY <1>4 DEF PrefixOfMask
  <2>2. mask = {}
    BY <1>1, <1>4 DEF Bits
  <2> QED
    BY <1>1, <2>1, <2>2 DEF PrefixMask
<1> QED
  BY <1>2, <1>3, <1>4

LEMMA Ipv4Addresses ==
  ASSUME NEW x, IsLiteral("ipv4_address", x), Ipv4Address(x) # Throws
  PROVE  LET a == Ipv4Address(x)
         IN  /\ a.prefixSize \in 0..AddressBits
             /\ a.netmask = PrefixMask(a.prefixSize) /\ Masked4(a)
<1> DEFINE made(netmask, prefixSize) ==
             [addr |-> x.quad \cap netmask, netmask |-> netmask, prefixSize |-> prefixSize]
<1>1. AddressBits \in Nat
  BY AddressAssumption
<1>2. x.quad # Malformed
  BY DEF Ipv4Address
<1>3. ASSUME NEW p \in 0..AddressBits, Ipv4Address(x) = made(PrefixMask(p), p)
      PROVE  LET a == Ipv4Address(x)
             IN  /\ a.prefixSize \in 0..AddressBits
                 /\ a.netmask = PrefixMask(a.prefixSize) /\ Masked4(a)
  BY <1>3, PrefixMasks DEF Masked4
<1>4. CASE x.kind = "none"
  <2>1. Ipv4Address(x) = made(Bits, AddressBits)
    BY <1>2, <1>4 DEF Ipv4Address
  <2>2. Bits = PrefixMask(AddressBits) /\ AddressBits \in 0..AddressBits
    BY <1>1 DEF Bits, PrefixMask
  <2> HIDE DEF made
  <2> QED
    BY <2>1, <2>2, <1>3
<1>5. CASE x.kind = "prefix" /\ x.prefix \in Nat
  <2>1. x.prefix <= AddressBits
    BY <1>1, <1>2, <1>5 DEF Ipv4Address
  <2>2. Ipv4Address(x) = made(PrefixMask(x.prefix), x.prefix)
    BY <1>2, <1>5, <2>1 DEF Ipv4Address
  <2> HIDE DEF made
  <2> QED
    BY <1>1, <1>3, <1>5, <2>1, <2>2
<1>6. CASE x.kind = "mask" /\ x.mask \subseteq Bits
  <2>1. IsPrefixMask(x.mask)
    BY <1>2, <1>6 DEF Ipv4Address
  <2>2. Ipv4Address(x) = made(x.mask, PrefixOfMask(x.mask))
    BY <1>2, <1>6, <2>1 DEF Ipv4Address
  <2> HIDE DEF made
  <2> QED
    BY <1>3, <1>6, <2>1, <2>2, MasksOfPrefixes
<1> QED
  BY <1>4, <1>5, <1>6 DEF IsLiteral

\* A comparison that came to this, with prefixes of these sizes.
ComparedAs(r, dSize, sSize, hostsDef, hostsSc) ==
  /\ request.op = "equals" => r = Truth(hostsSc = hostsDef)
  /\ request.op = "subset of" => r = Truth(hostsSc \subseteq hostsDef)
  /\ request.op = "superset of" => r = Truth(hostsDef \subseteq hostsSc)
  /\ request.op \in Orders \ {"equals", "not equal"} => (r = "error") = (dSize # sSize)

LEMMA SetsAreCompared ==
  ASSUME NEW dSize, NEW sSize, NEW Hd, NEW Hs, NEW r, result \in Caught({r}),
         ComparedAs(r, dSize, sSize, Hd, Hs), request.op \in Orders => r # Throws
  PROVE  SetsCompare({dSize, sSize}, Hd, Hs)
<1>1. result = IF r = Throws THEN "error" ELSE r
  BY DEF Caught
<1>2. Cardinality({dSize, sSize}) # 1 <=> dSize # sSize
  <2>1. CASE dSize = sSize
    <3>1. {dSize, sSize} = {dSize}
      BY <2>1
    <3> QED
      BY <2>1, <3>1, FS_Singleton
  <2>2. CASE dSize # sSize
    <3>1. IsFiniteSet({dSize}) /\ Cardinality({dSize}) = 1
      BY FS_Singleton
    <3>2. {dSize, sSize} = {dSize} \cup {sSize} /\ sSize \notin {dSize}
      BY <2>2
    <3>3. Cardinality({dSize} \cup {sSize}) = 2
      BY <3>1, <3>2, FS_AddElement
    <3> QED
      BY <2>2, <3>2, <3>3
  <2> QED
    BY <2>1, <2>2
<1>3. "true" # "false"
  OBVIOUS
<1>4. ASSUME NEW b \in BOOLEAN PROVE Truth(b) # Throws /\ (Truth(b) = "true") = b
  BY <1>3, Truths DEF Truth
<1>5. request.op = "equals" => (result = "true") = (Hs = Hd)
  BY <1>1, <1>4 DEF ComparedAs
<1>6. request.op = "subset of" => (result = "true") = (Hs \subseteq Hd)
  <2> HIDE DEF Truth
  <2>1. (Hs \subseteq Hd) \in BOOLEAN
    OBVIOUS
  <2> QED
    BY <1>1, <1>4, <2>1, Zenon DEF ComparedAs
<1>7. request.op = "superset of" => (result = "true") = (Hd \subseteq Hs)
  <2>1. (Hd \subseteq Hs) \in BOOLEAN
    OBVIOUS
  <2> QED
    BY <1>1, <1>4, <2>1, Zenon DEF ComparedAs
<1>8. request.op \in Orders \ {"equals", "not equal"} => r # Throws
  BY Zenon
<1>9. request.op \in Orders \ {"equals", "not equal"} =>
        (result = "error") = (Cardinality({dSize, sSize}) # 1)
  BY <1>1, <1>2, <1>8, Zenon DEF ComparedAs
<1> QED
  BY <1>5, <1>6, <1>7, <1>9, Zenon DEF SetsCompare

LEMMA Ipv4SetsCompare ==
  ASSUME NEW x, NEW y, IsLiteral("ipv4_address", x), IsLiteral("ipv4_address", y),
         Ipv4Address(x) # Throws, Ipv4Address(y) # Throws
  PROVE  LET d == Ipv4Address(x)
             s == Ipv4Address(y)
             r == CompareIpv4Address(request.op, x, y)
         IN  /\ ComparedAs(r, d.prefixSize, s.prefixSize, Hosts4(d), Hosts4(s))
             /\ request.op \in Orders => r # Throws
<1> DEFINE d == Ipv4Address(x)
           s == Ipv4Address(y)
           r == CompareIpv4Address(request.op, x, y)
           equal == s.addr = d.addr /\ s.netmask = d.netmask
<1>1. ASSUME NEW a \in {d, s}
      PROVE  /\ a.prefixSize \in 0..AddressBits
             /\ a.netmask = PrefixMask(a.prefixSize) /\ Masked4(a)
  BY Ipv4Addresses
<1>2. ASSUME NEW a \in {d, s}, NEW b \in {d, s} PROVE Hosts4(a) \subseteq Hosts4(b) <=> Under4(a, b)
  BY <1>1, HostsIncluded
<1>3. ASSUME NEW a \in {d, s}, NEW b \in {d, s}
      PROVE  (Hosts4(a) \subseteq Hosts4(b)) = Ipv4Subset(a, b)
  <2> HIDE DEF d, s
  <2>1. b.netmask \subseteq a.netmask <=> b.prefixSize <= a.prefixSize
    BY <1>1, PrefixMasks
  <2>2. b.addr \cap b.netmask = b.addr
    BY <1>1 DEF Masked4
  <2>3. a.prefixSize >= b.prefixSize <=> b.prefixSize <= a.prefixSize
    BY <1>1
  <2>4. Hosts4(a) \subseteq Hosts4(b) <=> Under4(a, b)
    BY <1>2
  <2> QED
    BY <2>1, <2>2, <2>3, <2>4 DEF Ipv4Subset, Under4
<1>4. (Hosts4(s) = Hosts4(d)) = equal
  <2>1. Hosts4(s) = Hosts4(d) <=> Hosts4(s) \subseteq Hosts4(d) /\ Hosts4(d) \subseteq Hosts4(s)
    OBVIOUS
  <2>2. Under4(s, d) /\ Under4(d, s) <=> equal
    <3>1. d.addr \subseteq d.netmask /\ s.addr \subseteq s.netmask
      BY <1>1 DEF Masked4
    <3> HIDE DEF d, s
    <3> QED
      BY <3>1 DEF Under4
  <2> HIDE DEF d, s
  <2> QED
    BY <1>2, <2>1, <2>2
<1>5. (s.netmask # d.netmask) = (d.prefixSize # s.prefixSize)
  <2> HIDE DEF d, s
  <2> QED
    BY <1>1, PrefixMasks
<1>6. /\ request.op = "equals" => r = Truth(equal)
      /\ request.op = "not equal" => r = Truth(~equal)
      /\ request.op = "subset of" => r = Truth(Ipv4Subset(s, d))
      /\ request.op = "superset of" => r = Truth(Ipv4Subset(d, s))
      /\ request.op \in Orders \ {"equals", "not equal"} =>
           r = IF s.netmask # d.netmask THEN "error"
               ELSE BySense(request.op, BitsSense(s.addr, d.addr))
  BY Zenon DEF CompareIpv4Address, ByEquality, Orders
<1>7. equal \in BOOLEAN /\ (~equal) \in BOOLEAN
  OBVIOUS
<1>8. "error" # Throws /\ "error" # "true" /\ "error" # "false"
  BY ComparisonAssumption DEF ResultEnumeration
<1> HIDE DEF d, s, r, equal
<1>9. request.op \in Orders \ {"equals", "not equal"} =>
        (r = "error") = (d.prefixSize # s.prefixSize) /\ r # Throws
  BY <1>5, <1>6, <1>8, OrdersAreTruths, Zenon
<1>10. ComparedAs(r, d.prefixSize, s.prefixSize, Hosts4(d), Hosts4(s))
  BY <1>3, <1>4, <1>6, <1>9, Zenon DEF ComparedAs
<1>11. request.op \in Orders => r # Throws
  BY <1>6, <1>7, <1>9, Truths, Zenon DEF Orders
<1> QED
  BY <1>10, <1>11 DEF d, s, r

-----------------------------------------------------------------------------
(***************************************************************************)
(* A prefix of an ipv6 address is so many whole bytes and bits of the next *)
(* one, and prefixes have the order of these pairs.                        *)
(***************************************************************************)
LEMMA WholeAndRest ==
  ASSUME NEW p \in Nat
  PROVE  /\ p \div ByteBits \in Nat /\ p % ByteBits \in 0..(ByteBits - 1)
         /\ p = ByteBits * (p \div ByteBits) + (p % ByteBits)
BY AddressAssumption

LEMMA BytesOutweigh ==
  ASSUME NEW p \in Nat, NEW q \in Nat, p < q
  PROVE  \/ p \div ByteBits < q \div ByteBits
         \/ p \div ByteBits = q \div ByteBits /\ p % ByteBits < q % ByteBits
<1> DEFINE B == ByteBits
           P == p \div B
           Q == q \div B
           u == p % B
           v == q % B
<1>1. P \in Nat /\ u \in 0..(B - 1) /\ p = B * P + u
  BY WholeAndRest, Zenon
<1>2. Q \in Nat /\ v \in 0..(B - 1) /\ q = B * Q + v
  BY WholeAndRest, Zenon
<1>3. B \in Nat
  BY AddressAssumption
<1> HIDE DEF B, P, Q, u, v
<1>4. B * P \in Nat /\ B * Q \in Nat
  BY <1>1, <1>2, <1>3, ProductsAreNatural
<1>5. ASSUME P > Q PROVE FALSE
  <2> DEFINE c == P - Q - 1
  <2>1. c \in Nat /\ P = Q + 1 + c
    BY <1>1, <1>2, <1>5
  <2> HIDE DEF c
  <2>2. B * c \in Nat
    BY <1>3, <2>1, ProductsAreNatural
  <2>3. B * (Q + 1 + c) = B * Q + B + B * c
    BY <1>2, <1>3, <2>1
  <2> QED
    BY <1>1, <1>2, <1>3, <1>4, <2>1, <2>2, <2>3
<1>6. ASSUME P = Q PROVE u < v
  BY <1>1, <1>2, <1>3, <1>4, <1>6
<1>7. P < Q \/ (P = Q /\ u < v)
  <2>1. P < Q \/ P = Q \/ P > Q
    BY <1>1, <1>2
  <2> QED
    BY <2>1, <1>5, <1>6, Zenon
<1> QED
  BY <1>7 DEF B, P, Q, u, v

LEMMA NoMoreBytes ==
  ASSUME NEW p \in Nat
  PROVE  /\ p <= Bytes * ByteBits => p \div ByteBits \in 0..Bytes
         /\ p < Bytes * ByteBits => p \div ByteBits \in 0..(Bytes - 1)
<1> DEFINE B == ByteBits
           P == p \div B
           u == p % B
           c == P - Bytes
<1>1. P \in Nat /\ u \in 0..(B - 1) /\ p = B * P + u
  BY WholeAndRest, Zenon
<1>2. Bytes \in Nat /\ B \in Nat /\ B > 0 /\ B * Bytes \in Nat /\ Bytes * B = B * Bytes
  BY AddressAssumption, ProductsAreNatural
<1> HIDE DEF B, P, u
<1>3. ASSUME P >= Bytes PROVE p >= B * Bytes /\ (P # Bytes => p > B * Bytes)
  <2>1. c \in Nat /\ P = Bytes + c /\ (P # Bytes => c > 0)
    BY <1>1, <1>2, <1>3
  <2> HIDE DEF c
  <2>2. B * (Bytes + c) = B * Bytes + B * c /\ B * c \in Nat /\ (c > 0 => B * c > 0)
    BY <1>2, <2>1, ProductsAreNatural
  <2> QED
    BY <1>1, <1>2, <2>1, <2>2
<1>4. /\ p <= B * Bytes => P \in 0..Bytes
      /\ p < B * Bytes => P \in 0..(Bytes - 1)
  BY <1>1, <1>2, <1>3
<1> QED
  BY <1>2, <1>4 DEF B, P

LEMMA NetmaskBytes ==
  ASSUME NEW p \in Nat, NEW i \in 0..(Bytes - 1)
  PROVE  /\ Netmask(p)[i] \subseteq ByteMask
         /\ i < p \div ByteBits => Netmask(p)[i] = ByteMask
         /\ i > p \div ByteBits => Netmask(p)[i] = {}
         /\ i = p \div ByteBits =>
              Netmask(p)[i] = (ByteBits - (p % ByteBits))..(ByteBits - 1)
<1>1. p \div ByteBits \in Nat /\ p % ByteBits \in 0..(ByteBits - 1) /\ ByteBits \in Nat
  BY WholeAndRest, AddressAssumption
<1>2. /\ i < p \div ByteBits => Netmask(p)[i] = ByteMask
      /\ i > p \div ByteBits => Netmask(p)[i] = {}
      /\ i = p \div ByteBits =>
              Netmask(p)[i] = (ByteBits - (p % ByteBits))..(ByteBits - 1)
  <2>1. /\ i < p \div ByteBits => i # p \div ByteBits
        /\ i > p \div ByteBits => i # p \div ByteBits /\ ~(i < p \div ByteBits)
        /\ i = p \div ByteBits => ~(i < p \div ByteBits)
    BY <1>1
  <2> QED
    BY <2>1, Zenon DEF Netmask
<1>3. i < p \div ByteBits \/ i = p \div ByteBits \/ i > p \div ByteBits
  BY <1>1
<1>4. (ByteBits - (p % ByteBits))..(ByteBits - 1) \subseteq ByteMask
  BY <1>1 DEF ByteMask
<1> QED
  BY <1>2, <1>3, <1>4

\* The masks of prefixes, byte by byte.
LEMMA NetmaskOrder ==
  ASSUME NEW p \in 0..(Bytes * ByteBits), NEW q \in 0..(Bytes * ByteBits)
  PROVE  (\A i \in 0..(Bytes - 1) : Netmask(q)[i] \subseteq Netmask(p)[i]) <=> q <= p
<1>1. Bytes \in Nat /\ ByteBits \in Nat /\ ByteBits > 0 /\ Bytes * ByteBits \in Nat
  BY AddressAssumption, ProductsAreNatural
<1>2. p \in Nat /\ q \in Nat
  BY <1>1
<1> DEFINE P == p \div ByteBits
           Q == q \div ByteBits
           u == p % ByteBits
           v == q % ByteBits
<1>3. P \in Nat /\ Q \in Nat /\ u \in 0..(ByteBits - 1) /\ v \in 0..(ByteBits - 1)
  BY <1>2, WholeAndRest
<1>4. ASSUME q <= p, NEW i \in 0..(Bytes - 1)
      PROVE  Netmask(q)[i] \subseteq Netmask(p)[i]
  <2>1. Q < P \/ (Q = P /\ v <= u)
    <3>1. CASE q = p
      <4>1. Q = P /\ v = u /\ u \in Int
        BY <3>1, <1>3
      <4> HIDE DEF P, Q, u, v
      <4> QED
        BY <4>1
    <3>2. CASE q < p
      <4>1. Q < P \/ (Q = P /\ v < u)
        BY <3>2, <1>2, BytesOutweigh, Zenon
      <4> HIDE DEF P, Q, u, v
      <4> QED
        BY <1>3, <4>1
    <3> QED
      BY <1>2, <1>4, <3>1, <3>2
  <2>2. CASE i < P
    BY <1>2, <2>2, NetmaskBytes
  <2>3. CASE i >= P /\ i > Q
    BY <1>2, <2>3, NetmaskBytes
  <2>4. CASE i >= P /\ ~(i > Q)
    <3>1. i = P /\ i = Q /\ v <= u
      BY <1>3, <2>1, <2>4
    <3>2. Netmask(p)[i] = (ByteBits - u)..(ByteBits - 1) /\ Netmask(q)[i] = (ByteBits - v)..(ByteBits - 1)
      BY <1>2, <3>1, NetmaskBytes
    <3> HIDE DEF u, v, P, Q
    <3> QED
      BY <1>1, <1>3, <3>1, <3>2
  <2> QED
    BY <1>3, <2>2, <2>3, <2>4
<1>5. ASSUME p < q, \A i \in 0..(Bytes - 1) : Netmask(q)[i] \subseteq Netmask(p)[i]
      PROVE  FALSE
  <2>1. P < Q \/ (P = Q /\ u < v)
    BY <1>2, <1>5, BytesOutweigh, Zenon
  <2>2. P \in 0..(Bytes - 1)
    BY <1>1, <1>2, <1>5, NoMoreBytes
  <2> DEFINE k == ByteBits - 1 - u
  <2>3. k \in ByteMask /\ k \notin (ByteBits - u)..(ByteBits - 1)
    BY <1>1, <1>3 DEF ByteMask
  <2>4. k \notin Netmask(p)[P]
    BY <1>2, <2>2, <2>3, NetmaskBytes
  <2>5. k \in Netmask(q)[P]
    <3>1. CASE P < Q
      BY <1>2, <2>2, <2>3, <3>1, NetmaskBytes
    <3>2. CASE P = Q /\ u < v
      <4>1. Netmask(q)[P] = (ByteBits - v)..(ByteBits - 1)
        BY <1>2, <2>2, <3>2, NetmaskBytes
      <4> HIDE DEF u, v, P, Q
      <4> QED
        BY <1>1, <1>3, <3>2, <4>1
    <3> QED
      BY <2>1, <3>1, <3>2
  <2> QED
    BY <1>5, <2>2, <2>4, <2>5
<1> QED
  BY <1>2, <1>4, <1>5

\* What reading the string of an ipv6 address makes.
IsAddress6(a) ==
  /\ a.prefixSize \in 0..(Bytes * ByteBits)
  /\ a = [addr |-> a.addr, prefixSize |-> a.prefixSize]
  /\ a.addr = [i \in 0..(Bytes - 1) |-> a.addr[i]]
  /\ \A i \in 0..(Bytes - 1) : a.addr[i] \subseteq Netmask(a.prefixSize)[i]

\* As for ipv4, byte by byte.
Under6(a, b) ==
  \A i \in 0..(Bytes - 1) : /\ Netmask(b.prefixSize)[i] \subseteq Netmask(a.prefixSize)[i]
                            /\ a.addr[i] \cap Netmask(b.prefixSize)[i] = b.addr[i]

LEMMA Ipv6Addresses ==
  ASSUME NEW x, IsLiteral("ipv6_address", x), Ipv6Address(x) # Throws
  PROVE  IsAddress6(Ipv6Address(x))
<1> DEFINE address == IF Build = "windows" THEN toIn6Addr(x.address) ELSE inet_pton(x.address)
           size == IF x.prefix = None THEN Bytes * ByteBits ELSE x.prefix
           masked == [i \in 0..(Bytes - 1) |-> address[i] \cap Netmask(size)[i]]
<1>1. Ipv6Address(x) = [addr |-> masked, prefixSize |-> size] /\ ~(size > Bytes * ByteBits)
  BY DEF Ipv6Address
<1>2. x.prefix \in Nat \cup {None}
  BY DEF IsLiteral
<1>3. Bytes * ByteBits \in Nat
  BY AddressAssumption, ProductsAreNatural
<1>4. size \in 0..(Bytes * ByteBits)
  BY <1>1, <1>2, <1>3
<1> HIDE DEF address, size
<1> QED
  BY <1>1, <1>4 DEF IsAddress6

LEMMA HostsIncluded6 ==
  ASSUME NEW a, NEW b, IsAddress6(a), IsAddress6(b)
  PROVE  Hosts6(a) \subseteq Hosts6(b) <=> Under6(a, b)
<1> DEFINE I == 0..(Bytes - 1)
           aN(i) == Netmask(a.prefixSize)[i]
           bN(i) == Netmask(b.prefixSize)[i]
<1>1. Bytes * ByteBits \in Nat
  BY AddressAssumption, ProductsAreNatural
<1>2. a.prefixSize \in Nat /\ b.prefixSize \in Nat
  BY <1>1 DEF IsAddress6
<1>3. ASSUME NEW i \in I
      PROVE  aN(i) \subseteq ByteMask /\ bN(i) \subseteq ByteMask /\ a.addr[i] \subseteq aN(i) /\ b.addr[i] \subseteq bN(i)
  BY <1>2, NetmaskBytes DEF IsAddress6
<1> HIDE DEF aN, bN
<1>4. Under6(a, b) <=> \A i \in I : bN(i) \subseteq aN(i) /\ a.addr[i] \cap bN(i) = b.addr[i]
  BY DEF Under6, aN, bN
<1>5. \A h : /\ h \in Hosts6(a) <=> h \in [I -> SUBSET ByteMask] /\ \A i \in I : h[i] \cap aN(i) = a.addr[i]
             /\ h \in Hosts6(b) <=> h \in [I -> SUBSET ByteMask] /\ \A i \in I : h[i] \cap bN(i) = b.addr[i]
  BY DEF Hosts6, aN, bN
<1> HIDE DEF I
<1>6. ASSUME \A i \in I : bN(i) \subseteq aN(i) /\ a.addr[i] \cap bN(i) = b.addr[i],
             NEW h \in Hosts6(a)
      PROVE  h \in Hosts6(b)
  <2>1. h \in [I -> SUBSET ByteMask] /\ \A i \in I : h[i] \cap aN(i) = a.addr[i]
    BY <1>5
  <2>2. ASSUME NEW i \in I PROVE h[i] \cap bN(i) = b.addr[i]
    <3>1. h[i] \cap aN(i) = a.addr[i] /\ bN(i) \subseteq aN(i) /\ a.addr[i] \cap bN(i) = b.addr[i]
      BY <1>6, <2>1
    <3> QED
      BY <3>1
  <2> QED
    BY <1>5, <2>1, <2>2
<1>7. ASSUME Hosts6(a) \subseteq Hosts6(b), NEW i \in I
      PROVE  bN(i) \subseteq aN(i) /\ a.addr[i] \cap bN(i) = b.addr[i]
  <2> DEFINE least == [j \in I |-> a.addr[j]]
             most == [j \in I |-> a.addr[j] \cup (ByteMask \ aN(j))]
  <2>1. least \in Hosts6(a) /\ most \in Hosts6(a)
    <3>1. least \in [I -> SUBSET ByteMask] /\ most \in [I -> SUBSET ByteMask]
      BY <1>3
    <3>2. ASSUME NEW j \in I PROVE least[j] \cap aN(j) = a.addr[j] /\ most[j] \cap aN(j) = a.addr[j]
      BY <1>3
    <3> HIDE DEF least, most
    <3> QED
      BY <1>5, <3>1, <3>2
  <2>2. least[i] \cap bN(i) = b.addr[i] /\ most[i] \cap bN(i) = b.addr[i]
    <3> HIDE DEF least, most
    <3> QED
      BY <1>5, <1>7, <2>1
  <2>3. a.addr[i] \cap bN(i) = b.addr[i] /\ (a.addr[i] \cup (ByteMask \ aN(i))) \cap bN(i) = b.addr[i]
    BY <2>2
  <2> HIDE DEF least, most
  <2> QED
    BY <1>3, <2>3
<1> QED
  BY <1>4, <1>6, <1>7

\* The prefix decides where the addresses have to agree.
LEMMA SubsetOfHosts6 ==
  ASSUME NEW a, NEW b, IsAddress6(a), IsAddress6(b)
  PROVE  Under6(a, b) <=> Ipv6Subset(a, b)
<1> DEFINE bytes == b.prefixSize \div ByteBits
           bits == b.prefixSize % ByteBits
           bN(i) == Netmask(b.prefixSize)[i]
           I == 0..(Bytes - 1)
<1>1. Bytes \in Nat /\ ByteBits \in Nat /\ Bytes * ByteBits \in Nat
  BY AddressAssumption, ProductsAreNatural
<1>2. a.prefixSize \in Nat /\ b.prefixSize \in Nat
  BY <1>1 DEF IsAddress6
<1>3. (\A i \in I : bN(i) \subseteq Netmask(a.prefixSize)[i]) <=> a.prefixSize >= b.prefixSize
  <2>1. (\A i \in I : bN(i) \subseteq Netmask(a.prefixSize)[i]) <=> b.prefixSize <= a.prefixSize
    BY NetmaskOrder DEF IsAddress6
  <2> QED
    BY <1>2, <2>1
<1>4. bytes \in 0..Bytes /\ bits \in 0..(ByteBits - 1)
  BY <1>2, WholeAndRest, NoMoreBytes DEF IsAddress6
<1>5. ASSUME NEW i \in I
      PROVE  /\ a.addr[i] \subseteq ByteMask /\ b.addr[i] \subseteq bN(i)
             /\ i < bytes => bN(i) = ByteMask
             /\ i > bytes => bN(i) = {}
             /\ i = bytes => bN(i) = (ByteBits - bits)..(ByteBits - 1)
  <2>1. a.addr[i] \subseteq Netmask(a.prefixSize)[i] /\ Netmask(a.prefixSize)[i] \subseteq ByteMask
    BY <1>2, NetmaskBytes DEF IsAddress6
  <2>2. b.addr[i] \subseteq bN(i)
    BY DEF IsAddress6
  <2> QED
    BY <1>2, <2>1, <2>2, NetmaskBytes
<1> HIDE DEF bytes, bits, bN
<1>6. bits = 0 => (ByteBits - bits)..(ByteBits - 1) = {}
  BY <1>1
<1>7. ASSUME NEW i \in I
      PROVE  a.addr[i] \cap bN(i) = b.addr[i]
               <=> /\ i < bytes => a.addr[i] = b.addr[i]
                   /\ i = bytes /\ bits # 0 => a.addr[i] \cap bN(i) = b.addr[i] \cap bN(i)
  <2>1. CASE i < bytes
    <3>1. i # bytes /\ bN(i) = ByteMask
      BY <1>4, <1>5, <2>1
    <3> QED
      BY <1>5, <2>1, <3>1
  <2>2. CASE i > bytes
    <3>1. i # bytes /\ ~(i < bytes) /\ bN(i) = {}
      BY <1>4, <1>5, <2>2
    <3> QED
      BY <1>5, <3>1
  <2>3. CASE i = bytes
    <3>1. ~(i < bytes)
      BY <1>4, <2>3
    <3>2. bits = 0 => bN(i) = {}
      BY <1>5, <1>6, <2>3, Zenon
    <3> QED
      BY <1>5, <2>3, <3>1, <3>2
  <2> QED
    BY <1>4, <2>1, <2>2, <2>3
<1>8. (\A i \in I : a.addr[i] \cap bN(i) = b.addr[i])
        <=> /\ \A i \in 0..(bytes - 1) : a.addr[i] = b.addr[i]
            /\ bytes < Bytes /\ bits # 0 => a.addr[bytes] \cap bN(bytes) = b.addr[bytes] \cap bN(bytes)
  <2>1. bytes < Bytes <=> bytes \in I
    BY <1>1, <1>4
  <2>2. ASSUME NEW i PROVE i \in 0..(bytes - 1) <=> i \in I /\ i < bytes
    BY <1>1, <1>4
  <2> QED
    BY <1>7, <2>1, <2>2
<1>9. Under6(a, b) <=> /\ \A i \in I : bN(i) \subseteq Netmask(a.prefixSize)[i]
                       /\ \A i \in I : a.addr[i] \cap bN(i) = b.addr[i]
  BY DEF Under6, bN
<1> QED
  BY <1>3, <1>8, <1>9 DEF Ipv6Subset, bytes, bits, bN

LEMMA Ipv6SetsCompare ==
  ASSUME NEW x, NEW y, IsLiteral("ipv6_address", x), IsLiteral("ipv6_address", y),
         Ipv6Address(x) # Throws, Ipv6Address(y) # Throws,
         NEW r \in CompareIpv6Address(request.op, x, y)
  PROVE  LET d == Ipv6Address(x)
             s == Ipv6Address(y)
         IN  /\ ComparedAs(r, d.prefixSize, s.prefixSize, Hosts6(d), Hosts6(s))
             /\ request.op \in Orders => r # Throws
<1> DEFINE d == Ipv6Address(x)
           s == Ipv6Address(y)
<1>1. IsAddress6(d) /\ IsAddress6(s)
  BY Ipv6Addresses
<1>2. r = CompareAddresses(request.op, d, s)
  BY DEF CompareIpv6Address
<1>3. /\ request.op = "equals" => r = Truth(s = d)
      /\ request.op = "not equal" => r = Truth(~(s = d))
      /\ request.op = "subset of" => r = Truth(Ipv6Subset(s, d))
      /\ request.op = "superset of" => r = Truth(Ipv6Subset(d, s))
      /\ request.op \in Orders \ {"equals", "not equal"} =>
           r = IF s.prefixSize # d.prefixSize THEN "error"
               ELSE BySense(request.op, In6Sense(s.addr, d.addr))
  BY <1>2, Zenon DEF CompareAddresses, ByEquality, Orders
<1> HIDE DEF d, s
<1>4. ASSUME NEW a \in {d, s}, NEW b \in {d, s}
      PROVE  /\ (Hosts6(a) \subseteq Hosts6(b)) = Under6(a, b)
             /\ (Hosts6(a) \subseteq Hosts6(b)) = Ipv6Subset(a, b)
  <2>1. IsAddress6(a) /\ IsAddress6(b)
    BY <1>1
  <2>2. Hosts6(a) \subseteq Hosts6(b) <=> Under6(a, b)
    BY <2>1, HostsIncluded6
  <2>3. Under6(a, b) <=> Ipv6Subset(a, b)
    BY <2>1, SubsetOfHosts6
  <2>4. Under6(a, b) \in BOOLEAN /\ Ipv6Subset(a, b) \in BOOLEAN
    BY DEF Under6, Ipv6Subset
  <2> QED
    BY <2>2, <2>3, <2>4
<1>5. (Hosts6(s) = Hosts6(d)) = (s = d)
  <2>1. SUFFICES ASSUME Hosts6(s) = Hosts6(d) PROVE s = d
    OBVIOUS
  <2>2. Under6(s, d) /\ Under6(d, s)
    BY <1>4, <2>1
  <2>3. s.prefixSize = d.prefixSize
    <3>1. s.prefixSize <= d.prefixSize /\ d.prefixSize <= s.prefixSize
      BY <1>1, <2>2, NetmaskOrder DEF Under6, IsAddress6
    <3>2. s.prefixSize \in Nat /\ d.prefixSize \in Nat
      BY <1>1, AddressAssumption, ProductsAreNatural DEF IsAddress6
    <3> QED
      BY <3>1, <3>2
  <2>4. ASSUME NEW i \in 0..(Bytes - 1) PROVE s.addr[i] = d.addr[i]
    BY <1>1, <2>2, <2>3 DEF Under6, IsAddress6
  <2>5. s.addr = d.addr
    BY <1>1, <2>4, Zenon DEF IsAddress6
  <2> QED
    BY <1>1, <2>3, <2>5, Zenon DEF IsAddress6
<1>6. (s = d) \in BOOLEAN /\ (~(s = d)) \in BOOLEAN
  OBVIOUS
<1>7. "error" # Throws /\ "error" # "true" /\ "error" # "false"
  BY ComparisonAssumption DEF ResultEnumeration
<1>8. (s.prefixSize # d.prefixSize) = (d.prefixSize # s.prefixSize)
  OBVIOUS
<1>9. request.op \in Orders \ {"equals", "not equal"} =>
        (r = "error") = (d.prefixSize # s.prefixSize) /\ r # Throws
  BY <1>3, <1>7, <1>8, OrdersAreTruths, Zenon
<1>10. ComparedAs(r, d.prefixSize, s.prefixSize, Hosts6(d), Hosts6(s))
  BY <1>3, <1>4, <1>5, <1>9, Zenon DEF ComparedAs
<1>11. request.op \in Orders => r # Throws
  BY <1>3, <1>6, <1>9, Truths, Zenon DEF Orders
<1> QED
  BY <1>10, <1>11 DEF d, s

\* Addresses of any length compare as the sets of addresses they stand for:
\* the loop over the netmask finds the prefix that is its own mask, and the
\* whole bytes and the bits after them are where the addresses of a larger set
\* agree (Ipv4Address, Ipv6Address and their comparison).
THEOREM AddressesByTheirSets == Spec => []AddressesAreSets
<1>1. ComparisonInv => AddressesAreSets
  <2> SUFFICES ASSUME ComparisonInv PROVE AddressesAreSets
    OBVIOUS
  <2>1. ASSUME Compared("ipv4_address"), Ipv4Address(def) # Throws, Ipv4Address(request.sc) # Throws
        PROVE  SetsCompare({Ipv4Address(def).prefixSize, Ipv4Address(request.sc).prefixSize},
                           Hosts4(Ipv4Address(def)), Hosts4(Ipv4Address(request.sc)))
    <3>1. result \in Caught({CompareIpv4Address(request.op, def, request.sc)})
      BY <2>1, LiteralCompared DEF Compare
    <3> QED
      BY <2>1, <3>1, LiteralCompared, Ipv4SetsCompare, SetsAreCompared
  <2>2. ASSUME Compared("ipv6_address"), Ipv6Address(def) # Throws, Ipv6Address(request.sc) # Throws
        PROVE  SetsCompare({Ipv6Address(def).prefixSize, Ipv6Address(request.sc).prefixSize},
                           Hosts6(Ipv6Address(def)), Hosts6(Ipv6Address(request.sc)))
    <3>1. result \in Caught(CompareIpv6Address(request.op, def, request.sc))
      BY <2>2, LiteralCompared DEF Compare
    <3>2. PICK r \in CompareIpv6Address(request.op, def, request.sc) : result \in Caught({r})
      BY <3>1 DEF Caught
    <3> QED
      BY <2>2, <3>2, LiteralCompared, Ipv6SetsCompare, SetsAreCompared
  <2> QED
    BY <2>1, <2>2 DEF AddressesAreSets
<1> QED
  BY <1>1, CallsAnswer, PTL DEF Spec
=============================================================================
