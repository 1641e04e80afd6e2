-------------------------- MODULE QuidGetopt_proofs --------------------------
(***************************************************************************)
(* The option parser, for every command line and every table of options:   *)
(* permute_args exchanges two blocks of any length; the vector stays a     *)
(* permutation in which options and operands keep their order; what is     *)
(* returned fits the table; and each step is one of a parser that reads    *)
(* its arguments once.                                                     *)
(***************************************************************************)
EXTENDS QuidGetopt, SequenceTheorems, WellFoundedInduction, TLAPS

------------------------------------------------------------------------------
\* Numbers: the greatest common divisor, and the walk through s + o positions in
\* strides of o.

\* A set of numbers that is not empty has a least one.
LEMMA LeastNumber ==
    ASSUME NEW T \in SUBSET Nat, T # {}
    PROVE  \E x \in T : \A y \in T : x <= y
<1> DEFINE R == OpToRel(<, Nat)
<1>1. IsWellFoundedOn(R, Nat)
    BY NatLessThanWellFounded, Zenon
<1>2. \A x, y \in Nat : <<y, x>> \in R <=> y < x
    BY DEF OpToRel
<1> HIDE DEF R
<1>3. PICK x \in T : \A y \in T : ~(<<y, x>> \in R)
    BY <1>1, WFMin
<1>4. ASSUME NEW y \in T PROVE x <= y
    <2>1. x \in Nat /\ y \in Nat
        OBVIOUS
    <2>2. ~(y < x)
        BY <1>2, <1>3, <2>1
    <2> QED BY <2>1, <2>2
<1> QED BY <1>4

\* A set of numbers that has 0, and the next of each it has, has all of them.
LEMMA Induction ==
    ASSUME NEW S, 0 \in S, \A n \in Nat : n \in S => n + 1 \in S
    PROVE  Nat \subseteq S
<1> SUFFICES ASSUME Nat \ S # {} PROVE FALSE
    OBVIOUS
<1>1. PICK x \in Nat \ S : \A y \in Nat \ S : x <= y
    BY LeastNumber
<1>2. x # 0 /\ x - 1 \in Nat /\ x - 1 \in S
    BY <1>1
<1> QED BY <1>1, <1>2

Pos == Nat \ {0}

\* The common divisors of a and b that are sums of multiples of them: only the
\* greatest is.
Gcds(a, b) == {g \in Pos : /\ \E k \in Nat : a = g * k
                           /\ \E k \in Nat : b = g * k
                           /\ \E x, y \in Int : g = x * a + y * b}

\* What the remainder and the quotient are.
LEMMA ModuloIs ==
    ASSUME NEW a \in Nat, NEW b \in Pos
    PROVE  /\ a % b \in 0..(b - 1)
           /\ a \div b \in Nat
           /\ a = b * (a \div b) + (a % b)
BY DEF Pos

\* What it takes to be a greatest common divisor.
LEMMA GcdIntro ==
    ASSUME NEW a, NEW b, NEW g \in Pos, NEW k \in Nat, NEW l \in Nat, NEW x \in Int, NEW y \in Int,
           a = g * k, b = g * l, g = x * a + y * b
    PROVE  g \in Gcds(a, b)
<1>1. \E m \in Nat : a = g * m
    OBVIOUS
<1>2. \E m \in Nat : b = g * m
    OBVIOUS
<1>3. \E u, v \in Int : g = u * a + v * b
    OBVIOUS
<1> QED BY <1>1, <1>2, <1>3 DEF Gcds

\* Two numbers have one greatest common divisor.
LEMMA GcdUnique ==
    ASSUME NEW a \in Nat, NEW b \in Pos, NEW g \in Gcds(a, b), NEW h \in Gcds(a, b)
    PROVE  g = h
<1>1. ASSUME NEW u \in Gcds(a, b), NEW v \in Gcds(a, b) PROVE u <= v
    <2>1. PICK k \in Nat, l \in Nat : a = u * k /\ b = u * l
        BY <1>1 DEF Gcds
    <2>2. PICK x \in Int, y \in Int : v = x * a + y * b
        BY DEF Gcds
    <2> DEFINE z == x * k + y * l
    <2>3. u \in Pos /\ v \in Pos /\ z \in Int
        BY DEF Gcds
    <2>4. v = u * z
        <3>1. v = x * (u * k) + y * (u * l)
            BY <2>1, <2>2
        <3>2. x * (u * k) = u * (x * k) /\ y * (u * l) = u * (y * l)
            BY <2>1, <2>2, <2>3 DEF Pos
        <3>3. u * z = u * (x * k) + u * (y * l)
            BY <2>3 DEF Pos
        <3> QED BY <3>1, <3>2, <3>3
    <2> HIDE DEF z
    <2>5. z >= 1
        BY <2>3, <2>4 DEF Pos
    <2> QED BY <2>3, <2>4, <2>5 DEF Pos
<1>2. g <= h /\ h <= g
    BY <1>1
<1> QED BY <1>2 DEF Gcds, Pos

\* Euclid's step keeps the greatest common divisor.
LEMMA GcdSteps ==
    ASSUME NEW a \in Nat, NEW b \in Pos
    PROVE  /\ a % b = 0 => b \in Gcds(a, b)
           /\ a % b # 0 => a % b \in Pos /\ Gcds(b, a % b) = Gcds(a, b)
<1> DEFINE q == a \div b
           r == a % b
<1>1. q \in Nat /\ r \in 0..(b - 1) /\ a = b * q + r
    BY ModuloIs
<1> HIDE DEF q, r
<1>2. CASE r = 0
    <2>1. a = b * q /\ b = b * 1 /\ b = 0 * a + 1 * b
        BY <1>1, <1>2 DEF Pos
    <2>2. b \in Gcds(a, b)
        BY <2>1, <1>1, GcdIntro
    <2> QED BY <2>2, <1>2 DEF r
<1>3. CASE r # 0
    <2>1. r \in Pos
        BY <1>1, <1>3 DEF Pos
    <2>2. ASSUME NEW g \in Gcds(b, r) PROVE g \in Gcds(a, b)
        <3>1. PICK k \in Nat, l \in Nat, x \in Int, y \in Int :
                b = g * k /\ r = g * l /\ g = x * b + y * r
            BY DEF Gcds
        <3>2. g \in Pos
            BY DEF Gcds
        <3>3. a = g * (k * q + l) /\ k * q + l \in Nat
            <4>1. g * (k * q + l) = g * (k * q) + g * l
                BY <3>1, <3>2, <1>1 DEF Pos
            <4>2. g * (k * q) = (g * k) * q
                BY <3>1, <3>2, <1>1 DEF Pos
            <4> QED BY <4>1, <4>2, <1>1, <3>1
        <3>4. g = y * a + (x - y * q) * b
            <4>1. (x - y * q) * b = x * b - y * (b * q)
                BY <3>1, <1>1 DEF Pos
            <4>2. y * a = y * (b * q) + y * r
                BY <3>1, <1>1 DEF Pos
            <4> QED BY <4>1, <4>2, <3>1, <1>1, <2>1 DEF Pos
        <3>5. x - y * q \in Int
            BY <3>1, <1>1
        <3> QED BY <3>1, <3>2, <3>3, <3>4, <3>5, GcdIntro
    <2>3. ASSUME NEW g \in Gcds(a, b) PROVE g \in Gcds(b, r)
        <3>1. PICK k \in Nat, l \in Nat, x \in Int, y \in Int :
                a = g * k /\ b = g * l /\ g = x * a + y * b
            BY DEF Gcds
        <3>2. g \in Pos
            BY DEF Gcds
        <3>3. r = g * (k - l * q) /\ k - l * q \in Int
            <4>1. g * (k - l * q) = g * k - g * (l * q)
                BY <3>1, <3>2, <1>1 DEF Pos
            <4>2. g * (l * q) = (g * l) * q
                BY <3>1, <3>2, <1>1 DEF Pos
            <4> QED BY <4>1, <4>2, <1>1, <3>1, <3>2 DEF Pos
        <3>4. k - l * q \in Nat
            BY <3>2, <3>3, <2>1 DEF Pos
        <3>5. g = (x * q + y) * b + x * r
            <4>1. (x * q + y) * b = x * (b * q) + y * b
                BY <3>1, <1>1 DEF Pos
            <4>2. x * a = x * (b * q) + x * r
                BY <3>1, <1>1 DEF Pos
            <4> QED BY <4>1, <4>2, <3>1, <1>1, <2>1 DEF Pos
        <3>6. x * q + y \in Int
            BY <3>1, <1>1
        <3> QED BY <3>1, <3>2, <3>3, <3>4, <3>5, <3>6, GcdIntro
    <2>4. Gcds(b, r) = Gcds(a, b)
        BY <2>2, <2>3
    <2> QED BY <2>1, <2>4, <1>3 DEF r
<1> QED BY <1>2, <1>3 DEF r

\* The recursion in gcd defines a function.
LEMMA GcdEquation ==
    ASSUME NEW a \in Nat, NEW b \in Pos
    PROVE  gcd[<<a, b>>] = IF a % b = 0 THEN b ELSE gcd[<<b, a % b>>]
<1> DEFINE D == Nat \X (Nat \ {0})
           C(x, y) == CHOOSE g : g \in Gcds(x, y)
           F == [ab \in D |-> C(ab[1], ab[2])]
           E(f) == f = [ab \in D |-> IF ab[1] % ab[2] = 0 THEN ab[2]
                                     ELSE f[<<ab[2], ab[1] % ab[2]>>]]
<1>1. ASSUME NEW x \in Nat, NEW y \in Pos
      PROVE  C(x, y) = IF x % y = 0 THEN y ELSE C(y, x % y)
    <2>1. CASE x % y = 0
        <3>1. y \in Gcds(x, y)
            BY <2>1, GcdSteps
        <3>2. C(x, y) \in Gcds(x, y)
            BY <3>1
        <3> QED BY <2>1, <3>1, <3>2, GcdUnique
    <2>2. CASE x % y # 0
        <3>1. Gcds(y, x % y) = Gcds(x, y)
            BY <2>2, GcdSteps
        <3> QED BY <3>1, <2>2
    <2> QED BY <2>1, <2>2
<1>2. E(F)
    <2> SUFFICES ASSUME NEW ab \in D
                 PROVE  F[ab] = IF ab[1] % ab[2] = 0 THEN ab[2]
                                ELSE F[<<ab[2], ab[1] % ab[2]>>]
        BY Zenon
    <2>1. PICK x \in Nat, y \in Pos : ab = <<x, y>>
        BY DEF Pos
    <2>2. F[ab] = C(x, y)
        BY <2>1
    <2>3. CASE x % y = 0
        BY <2>1, <2>2, <2>3, <1>1
    <2>4. CASE x % y # 0
        <3>1. y \in Nat /\ x % y \in Nat \ {0}
            BY <2>4, ModuloIs DEF Pos
        <3>2. F[<<y, x % y>>] = C(y, x % y)
            BY <3>1
        <3> QED BY <2>1, <2>2, <2>4, <3>2, <1>1
    <2> QED BY <2>3, <2>4
<1>3. gcd = CHOOSE f : E(f)
    BY DEF gcd
<1> HIDE DEF E
<1>4. E(gcd)
    BY <1>2, <1>3
<1>5. <<a, b>> \in D
    BY DEF Pos
<1>6. gcd[<<a, b>>] = IF <<a, b>>[1] % <<a, b>>[2] = 0 THEN <<a, b>>[2]
                      ELSE gcd[<< <<a, b>>[2], <<a, b>>[1] % <<a, b>>[2]>>]
    <2> HIDE DEF D
    <2> QED BY <1>4, <1>5 DEF E
<1> QED BY <1>6

\* gcd returns the greatest common divisor, for all numbers.
LEMMA GcdIsGcd ==
    ASSUME NEW m \in Nat, NEW n \in Pos
    PROVE  gcd[<<m, n>>] \in Gcds(m, n)
<1> DEFINE T == {b \in Pos : \E a \in Nat : gcd[<<a, b>>] \notin Gcds(a, b)}
<1>1. ASSUME NEW b \in T, \A c \in T : b <= c PROVE FALSE
    <2>1. b \in Pos /\ \E a \in Nat : gcd[<<a, b>>] \notin Gcds(a, b)
        OBVIOUS
    <2>2. PICK a \in Nat : gcd[<<a, b>>] \notin Gcds(a, b)
        BY <2>1
    <2> DEFINE r == a % b
    <2>3. r \in 0..(b - 1)
        BY <2>1, ModuloIs
    <2>4. CASE r = 0
        BY <2>1, <2>2, <2>4, GcdSteps, GcdEquation
    <2>5. CASE r # 0
        <3>1. r \in Pos /\ Gcds(b, r) = Gcds(a, b)
            BY <2>1, <2>5, GcdSteps
        <3>2. gcd[<<b, r>>] \notin Gcds(b, r)
            BY <2>1, <2>2, <2>5, <3>1, GcdEquation
        <3>3. b \in Nat /\ r < b
            BY <2>1, <2>3 DEF Pos
        <3> HIDE DEF r
        <3>4. r \in T
            BY <3>1, <3>2, <3>3
        <3> QED BY <1>1, <3>3, <3>4, <2>3
    <2> QED BY <2>4, <2>5
<1>2. T \in SUBSET Nat
    BY DEF Pos
<1>3. T = {}
    <2> HIDE DEF T
    <2> QED BY <1>1, <1>2, LeastNumber
<1> QED BY <1>3

\* A multiple of m smaller than m is 0.
LEMMA Multiple ==
    ASSUME NEW n \in Pos, NEW k \in Int, n * k \in (-n + 1)..(n - 1)
    PROVE  k = 0
<1>1. CASE k >= 1
    <2>1. n * k >= n
        BY <1>1 DEF Pos
    <2> QED BY <2>1 DEF Pos
<1>2. CASE k <= -1
    <2>1. n * k <= -n
        BY <1>2 DEF Pos
    <2> QED BY <2>1 DEF Pos
<1> QED BY <1>1, <1>2

\* A remainder is known by its range.
LEMMA ModuloUnique ==
    ASSUME NEW n \in Pos, NEW u \in Nat, NEW q \in Int, NEW r \in 0..(n - 1), u = n * q + r
    PROVE  u % n = r
<1>1. u % n \in 0..(n - 1) /\ u \div n \in Nat /\ u = n * (u \div n) + (u % n)
    BY ModuloIs
<1> DEFINE m == u % n
           d == u \div n
<1> HIDE DEF m, d
<1>2. n * (q - d) = m - r
    BY <1>1 DEF m, d, Pos
<1>3. q - d = 0
    <2>1. n * (q - d) \in (-n + 1)..(n - 1) /\ q - d \in Int
        BY <1>1, <1>2 DEF m, d, Pos
    <2> QED BY <2>1, Multiple
<1> QED BY <1>1, <1>2, <1>3 DEF m, Pos

\* Numbers with one remainder are a multiple apart.
LEMMA SameModulo ==
    ASSUME NEW n \in Pos, NEW u \in Nat, NEW v \in Nat
    PROVE  u % n = v % n <=> \E k \in Int : u - v = n * k
<1> DEFINE m == u % n
           d == u \div n
           e == v \div n
           w == v % n
<1>1. m \in 0..(n - 1) /\ d \in Nat /\ u = n * d + m
    BY ModuloIs
<1>2. w \in 0..(n - 1) /\ e \in Nat /\ v = n * e + w
    BY ModuloIs
<1> HIDE DEF m, d, e, w
<1>3. ASSUME m = w PROVE \E k \in Int : u - v = n * k
    <2>1. u - v = n * (d - e) /\ d - e \in Int
        BY <1>1, <1>2, <1>3 DEF Pos
    <2> QED BY <2>1
<1>4. ASSUME NEW k \in Int, u - v = n * k PROVE m = w
    <2>1. u = n * (k + e) + w /\ k + e \in Int
        BY <1>2, <1>4 DEF Pos
    <2> QED BY <1>2, <2>1, ModuloUnique DEF m
<1> QED BY <1>3, <1>4 DEF m, w

\* Blocks of s and o arguments, and a greatest common divisor of s and o.
At(s, o, i, j) == (s + i + o * j) % (s + o)
CycleLen(s, o, g) == (s + o) \div g

\* What the divisor g says of the length of a cycle.
LEMMA Divides ==
    ASSUME NEW s \in Pos, NEW o \in Pos, NEW g \in Gcds(s, o)
    PROVE  /\ g \in Pos /\ s + o \in Pos
           /\ CycleLen(s, o, g) \in Pos
           /\ s + o = g * CycleLen(s, o, g)
           /\ g <= o
           /\ \E k \in Pos : o = g * k
           /\ \E k \in Pos : s = g * k
<1>1. PICK k \in Nat, l \in Nat : s = g * k /\ o = g * l
    BY DEF Gcds
<1>2. g \in Pos
    BY DEF Gcds
<1>3. k \in Pos /\ l \in Pos /\ s + o \in Pos
    BY <1>1, <1>2 DEF Pos
<1>4. s + o = g * (k + l)
    BY <1>1, <1>2 DEF Pos
<1>5. CycleLen(s, o, g) = k + l
    <2> DEFINE n == s + o
               d == n \div g
    <2>1. n \in Nat
        BY DEF Pos
    <2>2. n % g \in 0..(g - 1) /\ d \in Nat /\ n = g * d + (n % g)
        BY <1>2, <2>1, ModuloIs
    <2>3. n % g = 0
        <3>1. n = g * (k + l) + 0 /\ 0 \in 0..(g - 1) /\ k + l \in Int
            BY <1>2, <1>3, <1>4 DEF Pos
        <3> QED BY <1>2, <2>1, <3>1, ModuloUnique
    <2> HIDE DEF n
    <2>4. g * (d - (k + l)) = 0
        BY <2>2, <2>3, <1>4, <1>2, <1>3 DEF n, Pos
    <2> HIDE DEF d
    <2>5. d - (k + l) = 0
        BY <2>2, <2>4, <1>2, <1>3, Multiple DEF Pos
    <2> QED BY <2>2, <2>5, <1>3 DEF CycleLen, d, n, Pos
<1>6. k + l \in Pos
    BY <1>3 DEF Pos
<1>7. g <= o
    BY <1>1, <1>2, <1>3 DEF Pos
<1> QED BY <1>1, <1>2, <1>3, <1>4, <1>5, <1>6, <1>7

\* The walk of cycle i visits the positions that are i modulo g.
LEMMA AtIs ==
    ASSUME NEW s \in Pos, NEW o \in Pos, NEW g \in Gcds(s, o), NEW i \in 0..(g - 1)
    PROVE  /\ At(s, o, i, 0) = s + i
           /\ At(s, o, i, CycleLen(s, o, g)) = s + i
           /\ \A j \in Nat : /\ At(s, o, i, j) \in 0..(s + o - 1)
                             /\ At(s, o, i, j + 1) =
                                   IF At(s, o, i, j) >= s THEN At(s, o, i, j) - s
                                   ELSE At(s, o, i, j) + o
<1> DEFINE n == s + o
           l == CycleLen(s, o, g)
<1>1. g \in Pos /\ n \in Pos /\ l \in Pos /\ n = g * l /\ g <= o
    BY Divides
<1>2. PICK k \in Pos : o = g * k
    BY Divides
<1>3. i \in Nat /\ i < o /\ s \in Nat /\ o \in Nat
    BY <1>1 DEF Pos
<1>4. At(s, o, i, 0) = s + i
    <2>1. s + i + o * 0 = n * 0 + (s + i) /\ s + i \in 0..(n - 1) /\ s + i + o * 0 \in Nat
        BY <1>3 DEF Pos
    <2> QED BY <2>1, <1>1, ModuloUnique DEF At
<1>5. At(s, o, i, l) = s + i
    <2> HIDE DEF l
    <2>1. o * l = n * k
        BY <1>1, <1>2 DEF Pos
    <2>2. /\ s + i + o * l = n * k + (s + i) /\ s + i \in 0..(n - 1)
          /\ s + i + o * l \in Nat /\ k \in Int
        BY <1>1, <1>2, <1>3, <2>1 DEF Pos
    <2> QED BY <2>2, <1>1, ModuloUnique DEF At
<1>6. ASSUME NEW j \in Nat
      PROVE  /\ At(s, o, i, j) \in 0..(s + o - 1)
             /\ At(s, o, i, j + 1) =
                   IF At(s, o, i, j) >= s THEN At(s, o, i, j) - s ELSE At(s, o, i, j) + o
    <2> DEFINE u == s + i + o * j
               r == u % n
               q == u \div n
    <2>1. u \in Nat
        BY <1>3
    <2>2. r \in 0..(n - 1) /\ q \in Nat /\ u = n * q + r
        BY <2>1, <1>1, ModuloIs
    <2>3. s + i + o * (j + 1) = u + o /\ u + o \in Nat
        BY <1>3
    <2> HIDE DEF u, q, r
    <2>4. CASE r >= s
        <3>1. u + o = n * (q + 1) + (r - s) /\ r - s \in 0..(n - 1) /\ q + 1 \in Int
            BY <2>2, <2>4, <1>3
        <3>2. (u + o) % n = r - s
            BY <3>1, <2>3, <1>1, ModuloUnique
        <3> QED BY <3>2, <2>2, <2>3, <2>4, <1>3 DEF At, u, r
    <2>5. CASE r < s
        <3>1. u + o = n * q + (r + o) /\ r + o \in 0..(n - 1) /\ q \in Int
            BY <2>2, <2>5, <1>3
        <3>2. (u + o) % n = r + o
            BY <3>1, <2>3, <1>1, ModuloUnique
        <3> QED BY <3>2, <2>2, <2>3, <2>5, <1>3 DEF At, u, r
    <2> QED BY <2>2, <2>4, <2>5, <1>3
<1> QED BY <1>4, <1>5, <1>6

\* What the remainder and the quotient of an integer are.
LEMMA IntModulo ==
    ASSUME NEW a \in Int, NEW b \in Pos
    PROVE  /\ a % b \in 0..(b - 1)
           /\ a \div b \in Int
           /\ a = b * (a \div b) + (a % b)
BY DEF Pos

\* No position is visited twice.
LEMMA AtDistinct ==
    ASSUME NEW s \in Pos, NEW o \in Pos, NEW g \in Gcds(s, o),
           NEW i \in 0..(g - 1), NEW h \in 0..(g - 1),
           NEW j \in 1..CycleLen(s, o, g), NEW m \in 1..CycleLen(s, o, g),
           At(s, o, i, j) = At(s, o, h, m)
    PROVE  i = h /\ j = m
<1> DEFINE n == s + o
           l == CycleLen(s, o, g)
<1>1. g \in Pos /\ n \in Pos /\ l \in Pos /\ n = g * l
    BY Divides
<1>2. PICK k \in Pos : o = g * k
    BY Divides
<1>3. PICK x \in Int, y \in Int : g = x * s + y * o
    BY DEF Gcds
<1>4. i \in Int /\ h \in Int /\ j \in Int /\ m \in Int /\ s \in Int /\ o \in Int /\ k \in Int
      /\ g \in Int /\ l \in Int /\ n \in Int
    BY <1>1, <1>2 DEF Pos
<1>5. PICK z \in Int : (s + i + o * j) - (s + h + o * m) = n * z
    <2>1. s + i + o * j \in Nat /\ s + h + o * m \in Nat
        <3>1. o * j \in Nat /\ o * m \in Nat
            BY <1>1 DEF Pos
        <3> QED BY <3>1 DEF Pos
    <2> QED BY <2>1, <1>1, SameModulo DEF At
<1> HIDE DEF l
<1>6. i = h
    <2> DEFINE w == l * z - k * (j - m)
    <2>1. i - h = n * z - o * (j - m)
        BY <1>4, <1>5
    <2>2. n * z = g * (l * z) /\ o * (j - m) = g * (k * (j - m))
        BY <1>1, <1>2, <1>4
    <2>3. i - h = g * w /\ w \in Int
        BY <2>1, <2>2, <1>4
    <2> HIDE DEF w
    <2>4. g * w \in (-g + 1)..(g - 1)
        BY <2>3, <1>1 DEF Pos
    <2>5. w = 0
        BY <2>3, <2>4, <1>1, Multiple
    <2> QED BY <2>3, <2>5, <1>4
<1>7. j = m
    <2> DEFINE d == j - m
               w == x * d + (y - x) * z
    <2>1. o * d = n * z /\ d \in Int
        BY <1>4, <1>5, <1>6
    <2>2. g = x * n + (y - x) * o
        BY <1>3, <1>4
    <2> HIDE DEF d
    <2>3. g * d = n * w
        <3>1. g * d = (x * n) * d + (y - x) * (o * d)
            BY <2>1, <2>2, <1>3, <1>4
        <3>2. (x * n) * d = n * (x * d) /\ (y - x) * (n * z) = n * ((y - x) * z)
            BY <2>1, <1>3, <1>4
        <3>3. n * w = n * (x * d) + n * ((y - x) * z)
            BY <2>1, <1>3, <1>4
        <3> QED BY <3>1, <3>2, <3>3, <2>1
    <2>4. w \in Int
        BY <2>1, <1>3
    <2> HIDE DEF w
    <2>5. g * (d - l * w) = 0
        <3>1. n * w = g * (l * w)
            BY <1>1, <1>4, <2>4
        <3>2. g * (d - l * w) = g * d - g * (l * w)
            BY <1>4, <2>1, <2>4
        <3> QED BY <3>1, <3>2, <2>3, <2>1, <1>4
    <2>6. d - l * w = 0
        <3>1. d - l * w \in Int /\ g * (d - l * w) \in (-g + 1)..(g - 1)
            BY <2>5, <2>1, <2>4, <1>1, <1>4 DEF Pos
        <3> QED BY <3>1, <1>1, Multiple
    <2>7. w = 0
        <3>1. l * w = d /\ d \in (-l + 1)..(l - 1)
            BY <2>6, <2>1, <2>4, <1>1, <1>4 DEF d, l, Pos
        <3> QED BY <3>1, <2>4, <1>1, Multiple
    <2> QED BY <2>6, <2>7, <1>4 DEF d
<1> QED BY <1>6, <1>7

\* Every position is visited.
LEMMA AtCovers ==
    ASSUME NEW s \in Pos, NEW o \in Pos, NEW g \in Gcds(s, o), NEW r \in 0..(s + o - 1)
    PROVE  \E i \in 0..(g - 1) : \E j \in 1..CycleLen(s, o, g) : At(s, o, i, j) = r
<1> DEFINE n == s + o
           l == CycleLen(s, o, g)
<1>1. g \in Pos /\ n \in Pos /\ l \in Pos /\ n = g * l
    BY Divides
<1>2. PICK k \in Pos : o = g * k
    BY Divides
<1>3. PICK b \in Pos : s = g * b
    BY Divides
<1>4. PICK x \in Int, y \in Int : g = x * s + y * o
    BY DEF Gcds
<1> DEFINE q == r \div g
           i == r % g
<1>5. i \in 0..(g - 1) /\ q \in Int /\ r = g * q + i
    <2>1. r \in Int
        BY <1>1 DEF Pos
    <2> QED BY <2>1, <1>1, IntModulo
<1>6. s \in Int /\ o \in Int /\ k \in Int /\ g \in Int /\ l \in Int /\ n \in Int /\ b \in Int
      /\ r \in Int
    BY <1>1, <1>2, <1>3 DEF Pos
<1> HIDE DEF l, q, i
<1> DEFINE h == q - b
           e == (y - x) * h
           d == (e - 1) \div l
           j == ((e - 1) % l) + 1
<1>7. h \in Int /\ e \in Int
    BY <1>4, <1>5, <1>6
<1>8. j \in 1..l /\ d \in Int /\ e = l * d + j
    <2>1. e - 1 \in Int
        BY <1>7
    <2> HIDE DEF e
    <2>2. (e - 1) % l \in 0..(l - 1) /\ (e - 1) \div l \in Int
          /\ e - 1 = l * ((e - 1) \div l) + ((e - 1) % l)
        BY <2>1, <1>1, IntModulo
    <2> QED BY <2>2, <2>1, <1>6, <1>7
<1> HIDE DEF d, j
<1>9. o * j = g * h - n * (x * h + k * d)
    <2>1. o * e = g * h - n * (x * h)
        <3>1. (y - x) * o = g - x * n
            BY <1>4, <1>6
        <3>2. o * e = ((y - x) * o) * h
            BY <1>4, <1>6, <1>7
        <3>3. (g - x * n) * h = g * h - n * (x * h)
            BY <1>4, <1>6, <1>7
        <3> QED BY <3>1, <3>2, <3>3
    <2>2. o * (l * d) = n * (k * d)
        BY <1>1, <1>2, <1>6, <1>8
    <2> HIDE DEF e, h
    <2>3. o * e = o * (l * d) + o * j
        BY <1>6, <1>7, <1>8
    <2>4. n * (x * h + k * d) = n * (x * h) + n * (k * d)
        BY <1>4, <1>6, <1>7, <1>8
    <2> QED BY <2>1, <2>2, <2>3, <2>4, <1>4, <1>6, <1>7, <1>8
<1>10. s + i + o * j = n * (-(x * h + k * d)) + r
    <2>1. g * h = r - i - s
        BY <1>3, <1>5, <1>6
    <2> HIDE DEF h
    <2> QED BY <2>1, <1>9, <1>4, <1>5, <1>6, <1>7, <1>8
<1>11. (s + i + o * j) % n = r
    <2>1. s + i + o * j \in Nat
        <3>1. o * j \in Nat
            BY <1>1, <1>8 DEF Pos
        <3> QED BY <3>1, <1>5, <1>6 DEF Pos
    <2> DEFINE c == -(x * h + k * d)
    <2>2. c \in Int /\ s + i + o * j = n * c + r
        BY <1>4, <1>6, <1>7, <1>8, <1>10
    <2> HIDE DEF c, n
    <2>3. r \in 0..(n - 1)
        BY <1>6 DEF n
    <2> QED BY <2>1, <2>2, <2>3, <1>1, ModuloUnique
<1> QED BY <1>5, <1>8, <1>11 DEF At, l

------------------------------------------------------------------------------
\* Any swaps that walk through a vector in cycles of the same length.

\* A quotient is known with its remainder.
LEMMA DivModUnique ==
    ASSUME NEW n \in Pos, NEW u \in Nat, NEW q \in Int, NEW r \in 0..(n - 1), u = n * q + r
    PROVE  u % n = r /\ u \div n = q
<1>1. u % n = r
    BY ModuloUnique
<1> DEFINE d == u \div n
<1>2. d \in Nat /\ u = n * d + r
    BY <1>1, ModuloIs
<1> HIDE DEF d
<1>3. n * (d - q) = 0 /\ d - q \in Int
    BY <1>2 DEF Pos
<1>4. d - q = 0
    BY <1>3, Multiple DEF Pos
<1> QED BY <1>1, <1>2, <1>4 DEF d

\* The swaps of permute_args: swap t visits P[t], its cycle begins at C[t], and
\* R[x] is where what belongs at x comes from.
Cycles(D, N, l, P, C, R) ==
    /\ P \in [1..N -> D] /\ C \in [1..N -> D]
    /\ \A t, u \in 1..N : P[t] = P[u] => t = u
    /\ \A t \in 1..N : R[P[t]] = IF (t - 1) % l = 0 THEN C[t] ELSE P[t - 1]
    /\ \A t \in 1..N : t % l = 0 <=> P[t] = C[t]
    /\ \A t \in 1..N : \A u \in 1..N : u < t => P[u] # C[t]
    /\ \A t \in 1..N : (t - 1) % l # 0 => C[t - 1] = C[t]
    /\ N % l = 0

\* The vector after swap t: what was visited is where it belongs, and what began
\* the cycle is on its way.
After(D, l, P, C, R, v, t) ==
    [x \in D |-> IF \E u \in 1..t : P[u] = x THEN v[R[x]]
                 ELSE IF t % l # 0 /\ x = C[t] THEN v[P[t]] ELSE v[x]]

\* A swap takes the vector after t - 1 swaps to the one after t.
LEMMA SwapStep ==
    ASSUME NEW D, NEW N \in Nat, NEW l \in Pos, NEW P, NEW C, NEW R, NEW v,
           Cycles(D, N, l, P, C, R), NEW t \in 1..N, NEW x \in D
    PROVE  After(D, l, P, C, R, v, t)[x] =
           After(D, l, P, C, R, v, t - 1)[Swapped(x, P[t], C[t])]
<1> DEFINE p == P[t]
           c == C[t]
           last == IF (t - 1) % l = 0 THEN c ELSE P[t - 1]
           W(k) == After(D, l, P, C, R, v, k)
           Seen(k, y) == \E u \in 1..k : P[u] = y
<1>1. /\ p \in D /\ c \in D /\ R[p] = last
      /\ t % l = 0 <=> p = c
      /\ \A u \in 1..(t - 1) : P[u] # c /\ P[u] # p
      /\ (t - 1) % l # 0 => C[t - 1] = c
    <2>1. /\ p \in D /\ c \in D
          /\ t % l = 0 <=> p = c
          /\ (t - 1) % l # 0 => C[t - 1] = c
        BY DEF Cycles
    <2>2. R[p] = last
        BY DEF Cycles
    <2>3. ASSUME NEW u \in 1..(t - 1) PROVE P[u] # c /\ P[u] # p
        <3>1. u \in 1..N /\ u < t
            OBVIOUS
        <3> QED BY <3>1 DEF Cycles
    <2> QED BY <2>1, <2>2, <2>3
<1>2. ASSUME NEW y \in D, NEW k \in 0..N
      PROVE  W(k)[y] = IF Seen(k, y) THEN v[R[y]]
                       ELSE IF k % l # 0 /\ y = C[k] THEN v[P[k]] ELSE v[y]
    BY DEF After
<1>3. Seen(t, p) /\ ~Seen(t - 1, c) /\ ~Seen(t - 1, p)
    BY <1>1
<1>4. \A y \in D : y # p => (Seen(t, y) <=> Seen(t - 1, y))
    <2> SUFFICES ASSUME NEW y \in D, y # p PROVE Seen(t, y) <=> Seen(t - 1, y)
        OBVIOUS
    <2>1. \A u \in 1..t : u = t \/ u \in 1..(t - 1)
        OBVIOUS
    <2>2. 1..(t - 1) \subseteq 1..t
        OBVIOUS
    <2> QED BY <2>1, <2>2
<1> HIDE DEF Seen, W
<1>5. t \in 0..N /\ t - 1 \in 0..N
    OBVIOUS
<1>6. W(t - 1)[c] = v[last]
    <2>1. CASE (t - 1) % l = 0
        BY <2>1, <1>1, <1>2, <1>3, <1>5
    <2>2. CASE (t - 1) % l # 0
        BY <2>2, <1>1, <1>2, <1>3, <1>5
    <2> QED BY <2>1, <2>2
<1>7. CASE x = p
    <2>1. Swapped(x, p, c) = c
        BY <1>7 DEF Swapped
    <2>2. W(t)[x] = v[last]
        BY <1>1, <1>2, <1>3, <1>5, <1>7
    <2> QED BY <2>1, <2>2, <1>6 DEF W
<1>8. CASE x = c /\ c # p
    <2>1. Swapped(x, p, c) = p
        BY <1>8 DEF Swapped
    <2>2. W(t)[c] = v[p]
        <3>1. ~Seen(t, c)
            BY <1>1, <1>3, <1>4, <1>8
        <3> QED BY <3>1, <1>1, <1>2, <1>5, <1>8
    <2>3. W(t - 1)[p] = v[p]
        BY <1>1, <1>2, <1>3, <1>5, <1>8
    <2> QED BY <2>1, <2>2, <2>3, <1>8 DEF W
<1>9. CASE x # p /\ x # c
    <2>1. Swapped(x, p, c) = x
        BY <1>9 DEF Swapped
    <2>2. W(t)[x] = W(t - 1)[x]
        BY <1>1, <1>2, <1>4, <1>5, <1>9
    <2> QED BY <2>1, <2>2 DEF W
<1> QED BY <1>7, <1>8, <1>9

\* A swap of what is at P[t] and at C[t] in w.
Turned(v, P, C, t, w) == [x \in DOMAIN v |-> w[Swapped(x, P[t], C[t])]]

\* v is a function on D.
HasDomain(v, D) == v = [x \in D |-> v[x]]

\* The recursion that nargv of permute_args is: f[t] is the vector after swap t.
Swapping(N, P, C, v, f) ==
    f = [t \in 0..N |-> IF t = 0 THEN v
                        ELSE Turned(v, P, C, t, f[t - 1])]

\* The recursion in permute_args gives the vector after each swap.
LEMMA AfterSwap ==
    ASSUME NEW D, NEW N \in Nat, NEW l \in Pos, NEW P, NEW C, NEW R, NEW v,
           HasDomain(v, D), Cycles(D, N, l, P, C, R)
    PROVE  /\ After(D, l, P, C, R, v, 0) = v
           /\ \A t \in 1..N : After(D, l, P, C, R, v, t) =
                              Turned(v, P, C, t, After(D, l, P, C, R, v, t - 1))
<1> DEFINE W(t) == After(D, l, P, C, R, v, t)
<1>1. W(0) = v
    <2>1. 0 % l = 0
        BY DEF Pos
    <2>2. ~\E u \in 1..0 : TRUE
        OBVIOUS
    <2> QED BY <2>1, <2>2 DEF After, HasDomain
<1>2. ASSUME NEW t \in 1..N PROVE W(t) = Turned(v, P, C, t, W(t - 1))
    <2>1. \A x \in D : W(t)[x] = W(t - 1)[Swapped(x, P[t], C[t])]
        BY SwapStep
    <2>2. W(t) = [x \in D |-> W(t)[x]] /\ DOMAIN v = D
        BY DEF After, HasDomain
    <2> HIDE DEF W
    <2> QED BY <2>1, <2>2 DEF Turned
<1> QED BY <1>1, <1>2

\* The recursion in permute_args defines a function.
LEMMA SwapsExist ==
    ASSUME NEW D, NEW N \in Nat, NEW l \in Pos, NEW P, NEW C, NEW R, NEW v,
           HasDomain(v, D), Cycles(D, N, l, P, C, R)
    PROVE  \E f : Swapping(N, P, C, v, f)
<1> DEFINE W(t) == After(D, l, P, C, R, v, t)
           F == [t \in 0..N |-> W(t)]
<1>1. W(0) = v /\ \A t \in 1..N : W(t) = Turned(v, P, C, t, W(t - 1))
    BY AfterSwap
<1> HIDE DEF W
<1>2. \A t \in 0..N : W(t) = IF t = 0 THEN v ELSE Turned(v, P, C, t, F[t - 1])
    <2>1. \A t \in 1..N : t - 1 \in 0..N
        OBVIOUS
    <2> QED BY <1>1, <2>1
<1>3. F = [t \in 0..N |-> IF t = 0 THEN v ELSE Turned(v, P, C, t, F[t - 1])]
    BY <1>2, Zenon
<1> HIDE DEF F
<1>4. Swapping(N, P, C, v, F)
    BY <1>3, Zenon DEF Swapping
<1> QED BY <1>4

\* After the last swap everything is where it belongs.
LEMMA SwapsDone ==
    ASSUME NEW D, NEW N \in Nat, NEW l \in Pos, NEW P, NEW C, NEW R, NEW v,
           HasDomain(v, D),
           Cycles(D, N, l, P, C, R),
           NEW f, Swapping(N, P, C, v, f)
    PROVE  f[N] = [x \in D |-> IF \E u \in 1..N : P[u] = x THEN v[R[x]] ELSE v[x]]
<1> DEFINE W(t) == After(D, l, P, C, R, v, t)
           next(w, t) == Turned(v, P, C, t, w)
           T == {t \in Nat : t \in 0..N => f[t] = W(t)}
<1>1. W(0) = v /\ \A t \in 1..N : W(t) = next(W(t - 1), t)
    BY AfterSwap
<1>2. f = [t \in 0..N |-> IF t = 0 THEN v ELSE next(f[t - 1], t)]
    BY DEF Swapping
<1>3. W(N) = [x \in D |-> IF \E u \in 1..N : P[u] = x THEN v[R[x]] ELSE v[x]]
    BY DEF After, Cycles
<1> HIDE DEF W, next
<1>4. f[0] = v /\ \A t \in 1..N : f[t] = next(f[t - 1], t)
    BY <1>2
<1>5. 0 \in T
    BY <1>1, <1>4
<1>6. ASSUME NEW t \in Nat, t \in T PROVE t + 1 \in T
    <2>1. CASE t + 1 \in 0..N
        <3>1. f[t] = W(t) /\ t + 1 \in 1..N /\ (t + 1) - 1 = t
            BY <1>6, <2>1
        <3> QED BY <3>1, <1>1, <1>4
    <2> QED BY <2>1
<1> HIDE DEF T
<1>7. Nat \subseteq T
    BY <1>5, <1>6, Induction
<1>8. f[N] = W(N)
    BY <1>7 DEF T
<1> QED BY <1>3, <1>8

------------------------------------------------------------------------------
\* The swaps of permute_args are such cycles.

\* Swap t of permute_args, counted from 1, is swap j of cycle i.
LEMMA SwapOfCycle ==
    ASSUME NEW l \in Pos, NEW g \in Pos, NEW t \in 1..(g * l)
    PROVE  LET i == (t - 1) \div l
               j == ((t - 1) % l) + 1
           IN  /\ i \in 0..(g - 1) /\ j \in 1..l /\ t = l * i + j
               /\ t % l = 0 <=> j = l
               /\ j > 1 => /\ (t - 2) \div l = i
                           /\ ((t - 2) % l) + 1 = j - 1
<1> DEFINE i == (t - 1) \div l
           j == ((t - 1) % l) + 1
<1>1. g * l \in Nat /\ t \in Nat /\ t - 1 \in Nat /\ t <= g * l
    BY DEF Pos
<1>2. i \in Nat /\ j \in 1..l /\ t = l * i + j
    <2> DEFINE u == t - 1
    <2>1. u \in Nat
        BY <1>1
    <2>2. u = l * (u \div l) + (u % l) /\ u % l \in 0..(l - 1) /\ u \div l \in Nat
        <3> HIDE DEF u
        <3> QED BY <2>1, ModuloIs
    <2>3. u % l \in 0..(l - 1) => (u % l) + 1 \in 1..l
        <3> DEFINE w == u % l
        <3> HIDE DEF w
        <3> QED BY DEF Pos
    <2>4. t = u + 1
        BY <1>1
    <2> DEFINE w == u % l
               d == u \div l
    <2>5. l * d \in Int /\ w \in Int
        BY <2>2 DEF Pos
    <2>6. j = w + 1 /\ i = d
        OBVIOUS
    <2>7. u = l * d + w
        BY <2>2
    <2> HIDE DEF w, d, i, j, u
    <2>8. t = l * d + (w + 1)
        BY <2>4, <2>5, <2>7
    <2> QED BY <2>2, <2>3, <2>8, <2>6 DEF w, d
<1> HIDE DEF i, j
<1>3. i \in 0..(g - 1)
    <2>1. CASE i >= g
        <3>1. l * i >= g * l
            BY <1>2, <2>1 DEF Pos
        <3>2. l * i \in Int /\ g * l \in Int
            BY <1>1, <1>2 DEF Pos
        <3> QED BY <1>1, <1>2, <3>1, <3>2 DEF Pos
    <2> QED BY <1>2, <2>1 DEF Pos
<1>4. t % l = 0 <=> j = l
    <2>1. CASE j = l
        <3>1. t = l * (i + 1) + 0 /\ i + 1 \in Int /\ 0 \in 0..(l - 1)
            BY <1>2, <2>1 DEF Pos
        <3> QED BY <1>1, <2>1, <3>1, ModuloUnique
    <2>2. CASE j # l
        <3>1. j \in 0..(l - 1) /\ i \in Int /\ j # 0
            BY <1>2, <2>2 DEF Pos
        <3>2. t % l = j
            BY <1>1, <1>2, <3>1, ModuloUnique
        <3> QED BY <2>2, <3>1, <3>2
    <2> QED BY <2>1, <2>2
<1>5. ASSUME j > 1 PROVE (t - 2) \div l = i /\ ((t - 2) % l) + 1 = j - 1
    <2> DEFINE u == t - 2
    <2>1. l * i \in Nat
        BY <1>2 DEF Pos
    <2>2. u \in Nat /\ u = l * i + (j - 2) /\ j - 2 \in 0..(l - 1) /\ i \in Int
        BY <1>2, <1>5, <2>1 DEF Pos
    <2> HIDE DEF u
    <2>3. u % l = j - 2 /\ u \div l = i
        BY <2>2, DivModUnique
    <2> QED BY <2>2, <2>3, <1>2 DEF u
<1> QED BY <1>2, <1>3, <1>4, <1>5 DEF i, j

\* Where the argument at x is before the blocks are exchanged.
Source(start, end, opt_end, x) ==
    IF x < start + (opt_end - end) THEN x + (end - start) ELSE x - (opt_end - end)

\* The positions that the swaps visit, and where their cycles begin.
Visits(start, end, opt_end, l) ==
    [t \in 1..(opt_end - start) |->
        start + At(end - start, opt_end - end, (t - 1) \div l, ((t - 1) % l) + 1)]

Starts(start, end, opt_end, l) == [t \in 1..(opt_end - start) |-> end + ((t - 1) \div l)]

\* What these two say of the loops in permute_args, for blocks that have the
\* greatest common divisor g and cycles of length l.
PermuteLoops(start, end, opt_end, D, g, l) ==
    LET N == opt_end - start
        P == Visits(start, end, opt_end, l)
        C == Starts(start, end, opt_end, l)
    IN  /\ l \in Pos /\ g * l = N
        /\ Cycles(D, N, l, P, C, [x \in D |-> Source(start, end, opt_end, x)])
        /\ \A x \in D : x \in start..(opt_end - 1) <=> \E t \in 1..N : P[t] = x
        /\ \A t \in 1..N : P[t] = NextPos(start, end, opt_end,
                                          IF (t - 1) % l = 0 THEN C[t] ELSE P[t - 1])

\* The loops of permute_args are cycles that visit each position once.
LEMMA PermuteCycles ==
    ASSUME NEW start \in Int, NEW end \in Int, NEW opt_end \in Int, start < end, end < opt_end,
           NEW D, start..(opt_end - 1) \subseteq D,
           NEW g \in Gcds(end - start, opt_end - end)
    PROVE  PermuteLoops(start, end, opt_end, D, g, (opt_end - start) \div g)
<1> DEFINE s == end - start
           o == opt_end - end
           N == opt_end - start
           l == N \div g
           P == Visits(start, end, opt_end, l)
           C == Starts(start, end, opt_end, l)
           R == [x \in D |-> Source(start, end, opt_end, x)]
           i(t) == (t - 1) \div l
           j(t) == ((t - 1) % l) + 1
<1>1. s \in Pos /\ o \in Pos /\ N = s + o
    BY DEF Pos
<1>2. /\ g \in Pos /\ N \in Pos /\ l \in Pos /\ N = g * l /\ g <= o
      /\ l = CycleLen(s, o, g)
    <2> HIDE DEF s, o
    <2>1. /\ g \in Pos /\ s + o \in Pos /\ CycleLen(s, o, g) \in Pos
          /\ s + o = g * CycleLen(s, o, g) /\ g <= o
        BY <1>1, Divides DEF s, o
    <2> QED BY <2>1, <1>1 DEF CycleLen
<1>3. /\ \A t \in 1..N : P[t] = start + At(s, o, i(t), j(t))
      /\ \A t \in 1..N : C[t] = end + i(t)
    BY DEF Visits, Starts
<1> HIDE DEF P, C
<1>4. ASSUME NEW t \in 1..N
      PROVE  /\ i(t) \in 0..(g - 1) /\ j(t) \in 1..l /\ t = l * i(t) + j(t)
             /\ t % l = 0 <=> j(t) = l
             /\ j(t) > 1 => i(t - 1) = i(t) /\ j(t - 1) = j(t) - 1
    <2>1. t \in 1..(g * l)
        BY <1>2
    <2>2. (t - 1) - 1 = t - 2
        BY <1>2 DEF Pos
    <2> HIDE DEF l
    <2>3. LET ii == (t - 1) \div l
              jj == ((t - 1) % l) + 1
          IN  /\ ii \in 0..(g - 1) /\ jj \in 1..l /\ t = l * ii + jj
              /\ t % l = 0 <=> jj = l
              /\ jj > 1 => /\ (t - 2) \div l = ii
                           /\ ((t - 2) % l) + 1 = jj - 1
        BY <1>2, <2>1, SwapOfCycle
    <2> QED BY <2>2, <2>3
<1>5. ASSUME NEW a \in 0..(g - 1)
      PROVE  /\ At(s, o, a, 0) = s + a /\ At(s, o, a, l) = s + a
             /\ \A k \in Nat : /\ At(s, o, a, k) \in 0..(s + o - 1)
                               /\ At(s, o, a, k + 1) =
                                   IF At(s, o, a, k) >= s THEN At(s, o, a, k) - s
                                   ELSE At(s, o, a, k) + o
    <2> HIDE DEF s, o, l
    <2> QED BY <1>1, <1>2, AtIs DEF s, o
<1>6. ASSUME NEW t \in 1..N
      PROVE  /\ P[t] \in start..(opt_end - 1) /\ C[t] \in end..(opt_end - 1)
             /\ P[t] = NextPos(start, end, opt_end, IF (t - 1) % l = 0 THEN C[t] ELSE P[t - 1])
             /\ t % l = 0 <=> P[t] = C[t]
    <2> DEFINE a == i(t)
               b == j(t)
               A(k) == At(s, o, a, k)
    <2>1. /\ a \in 0..(g - 1) /\ b \in 1..l
          /\ t % l = 0 <=> b = l
          /\ b > 1 => i(t - 1) = a /\ j(t - 1) = b - 1
        BY <1>4
    <2>2. (t - 1) % l = 0 <=> b = 1
        <3> DEFINE m == (t - 1) % l
        <3>1. m + 1 \in 1..l
            BY <2>1
        <3>2. m \in Int
            <4>1. t - 1 \in Int
                BY <1>2 DEF Pos
            <4> HIDE DEF l
            <4> QED BY <4>1, <1>2, IntModulo
        <3>3. b = m + 1
            OBVIOUS
        <3> HIDE DEF m
        <3> QED BY <3>1, <3>2, <3>3 DEF m
    <2>3. P[t] = start + A(b) /\ C[t] = end + a
        BY <1>3
    <2>4. b > 1 => P[t - 1] = start + A(b - 1)
        <3> SUFFICES ASSUME b > 1 PROVE P[t - 1] = start + A(b - 1)
            OBVIOUS
        <3>1. t # 1
            <4>1. ASSUME t = 1 PROVE FALSE
                <5>1. 0 % l = 0
                    BY <1>2 DEF Pos
                <5>2. b = 1
                    BY <5>1, <4>1
                <5> QED BY <5>2
            <4> QED BY <4>1
        <3>2. t - 1 \in 1..N
            BY <3>1
        <3>3. P[t - 1] = start + At(s, o, i(t - 1), j(t - 1))
            BY <1>3, <3>2
        <3> QED BY <2>1, <3>3
    <2>5. /\ A(0) = s + a /\ A(l) = s + a
          /\ \A k \in Nat : /\ A(k) \in 0..(s + o - 1)
                            /\ A(k + 1) = IF A(k) >= s THEN A(k) - s ELSE A(k) + o
        BY <2>1, <1>5
    <2>6. A(b) = A(l) <=> b = l
        <3>1. ASSUME A(b) = A(l) PROVE b = l
            <4>1. b \in 1..CycleLen(s, o, g) /\ l \in 1..CycleLen(s, o, g)
                BY <2>1, <1>2 DEF Pos
            <4> HIDE DEF a, b, l, s, o
            <4> QED BY <3>1, <4>1, <1>1, <1>2, <2>1, AtDistinct DEF s, o
        <3> QED BY <3>1
    <2> HIDE DEF a, b, l, i, j, A
    <2>7. /\ b \in Nat /\ a \in Nat /\ b - 1 \in Nat /\ (b - 1) + 1 = b
          /\ A(b) \in 0..(s + o - 1) /\ A(b - 1) \in 0..(s + o - 1)
        <3>1. b \in Nat /\ a \in Nat /\ b - 1 \in Nat /\ (b - 1) + 1 = b
            BY <2>1, <1>2 DEF Pos
        <3> QED BY <3>1, <2>5
    <2>8. A(b) = IF A(b - 1) >= s THEN A(b - 1) - s ELSE A(b - 1) + o
        BY <2>5, <2>7
    <2>9. P[t] \in start..(opt_end - 1) /\ C[t] \in end..(opt_end - 1)
        <3>1. a < o
            <4> HIDE DEF s, N
            <4> QED BY <1>1, <1>2, <2>1 DEF Pos
        <3> QED BY <2>3, <2>7, <3>1
    <2>10. P[t] = NextPos(start, end, opt_end, start + A(b - 1))
        BY <2>3, <2>7, <2>8 DEF NextPos
    <2>11. (IF (t - 1) % l = 0 THEN C[t] ELSE P[t - 1]) = start + A(b - 1)
        <3>1. CASE b = 1
            BY <3>1, <2>2, <2>3, <2>5, <2>7
        <3>2. CASE b # 1
            BY <3>2, <2>1, <2>2, <2>4, <2>7
        <3> QED BY <3>1, <3>2
    <2>12. P[t] = C[t] <=> A(b) = A(l)
        BY <2>3, <2>5, <2>7
    <2> QED BY <2>1, <2>6, <2>9, <2>10, <2>11, <2>12
<1>7. \A t, u \in 1..N : P[t] = P[u] => t = u
    <2> SUFFICES ASSUME NEW t \in 1..N, NEW u \in 1..N, P[t] = P[u] PROVE t = u
        OBVIOUS
    <2>1. /\ i(t) \in 0..(g - 1) /\ j(t) \in 1..l /\ t = l * i(t) + j(t)
          /\ i(u) \in 0..(g - 1) /\ j(u) \in 1..l /\ u = l * i(u) + j(u)
        BY <1>4
    <2>2. P[t] = start + At(s, o, i(t), j(t)) /\ P[u] = start + At(s, o, i(u), j(u))
        BY <1>3
    <2>3. At(s, o, i(t), j(t)) \in Int /\ At(s, o, i(u), j(u)) \in Int
        <3>1. j(t) \in Nat /\ j(u) \in Nat
            <4> HIDE DEF i, j, l
            <4> QED BY <2>1, <1>2 DEF Pos
        <3> HIDE DEF i, j, s, o
        <3> QED BY <3>1, <2>1, <1>5, <1>1 DEF Pos
    <2>4. At(s, o, i(t), j(t)) = At(s, o, i(u), j(u))
        <3> DEFINE x == At(s, o, i(t), j(t))
                   y == At(s, o, i(u), j(u))
        <3>1. start + x = start + y /\ x \in Int /\ y \in Int
            BY <2>2, <2>3
        <3> HIDE DEF x, y
        <3>2. x = y
            BY <3>1
        <3> QED BY <3>2 DEF x, y
    <2>5. i(t) = i(u) /\ j(t) = j(u)
        <3>1. l = CycleLen(s, o, g)
            BY <1>2
        <3> HIDE DEF i, j, s, o, l
        <3> QED BY <2>1, <2>4, <3>1, <1>1, AtDistinct DEF s, o
    <2> HIDE DEF i, j, l
    <2> QED BY <2>1, <2>5
<1>8. \A t \in 1..N : \A u \in 1..N : u < t => P[u] # C[t]
    <2> SUFFICES ASSUME NEW t \in 1..N, NEW u \in 1..N, u < t, P[u] = C[t] PROVE FALSE
        OBVIOUS
    <2> DEFINE a == i(t)
               e == l * a + l
    <2>1. a \in 0..(g - 1) /\ j(t) \in 1..l /\ t = l * a + j(t)
        BY <1>4
    <2>2. e \in 1..N /\ t <= e
        <3> HIDE DEF a, j, l
        <3>1. l * (a + 1) <= l * g
            BY <2>1, <1>2 DEF Pos
        <3>2. l * (a + 1) = e /\ l * g = N /\ e \in Int
            BY <2>1, <1>2 DEF Pos
        <3>3. l * a \in Nat
            BY <2>1, <1>2 DEF Pos
        <3>4. l \in Pos
            BY <1>2
        <3> DEFINE la == l * a
        <3> HIDE DEF N, la
        <3>5. e = la + l /\ la \in Nat
            BY <3>3 DEF la
        <3>6. t = la + j(t)
            BY <2>1 DEF la
        <3> HIDE DEF e
        <3> QED BY <2>1, <3>1, <3>2, <3>4, <3>5, <3>6 DEF Pos
    <2>3. i(e) = a /\ j(e) = l
        <3> HIDE DEF a, l
        <3>1. e - 1 = l * a + (l - 1) /\ e - 1 \in Nat /\ l - 1 \in 0..(l - 1)
            BY <2>1, <2>2, <1>2 DEF Pos
        <3>2. (e - 1) % l = l - 1 /\ (e - 1) \div l = a
            <4> HIDE DEF e
            <4> QED BY <3>1, <2>1, <1>2, DivModUnique
        <3> QED BY <3>2, <1>2 DEF Pos
    <2>4. e % l = 0
        BY <1>4, <2>2, <2>3
    <2>5. P[e] = C[e] /\ C[e] = end + a
        <3> HIDE DEF a, l, e, i
        <3> QED BY <1>3, <1>6, <2>2, <2>3, <2>4
    <2>6. C[t] = end + a
        BY <1>3
    <2>7. u = e
        <3> HIDE DEF a, l, e
        <3> QED BY <1>7, <2>2, <2>5, <2>6
    <2> HIDE DEF e
    <2> QED BY <2>2, <2>7
<1>9. \A t \in 1..N : (t - 1) % l # 0 => C[t - 1] = C[t]
    <2> SUFFICES ASSUME NEW t \in 1..N, (t - 1) % l # 0 PROVE C[t - 1] = C[t]
        OBVIOUS
    <2>1. t # 1
        <3>1. 0 % l = 0
            BY <1>2 DEF Pos
        <3> QED BY <3>1
    <2>2. t - 1 \in 1..N
        BY <2>1
    <2>3. j(t) > 1
        <3> DEFINE m == (t - 1) % l
        <3>1. m \in 0..(l - 1)
            <4>1. t - 1 \in Int
                BY <1>2 DEF Pos
            <4> HIDE DEF l
            <4> QED BY <4>1, <1>2, IntModulo
        <3>2. m # 0 /\ j(t) = m + 1
            OBVIOUS
        <3> HIDE DEF m, j
        <3> QED BY <3>1, <3>2
    <2>4. i(t - 1) = i(t)
        BY <1>4, <2>3
    <2> QED BY <1>3, <2>2, <2>4
<1>10. N % l = 0
    <2>1. N = l * g + 0 /\ g \in Int /\ 0 \in 0..(l - 1) /\ N \in Nat
        BY <1>2 DEF Pos
    <2> HIDE DEF N, l
    <2> QED BY <2>1, <1>2, ModuloUnique
<1>11. \A x \in D : x \in start..(opt_end - 1) <=> \E t \in 1..N : P[t] = x
    <2> SUFFICES ASSUME NEW x \in start..(opt_end - 1) PROVE \E t \in 1..N : P[t] = x
        <3> HIDE DEF N, l, s, o
        <3> QED BY <1>6
    <2> DEFINE r == x - start
    <2>1. r \in 0..(s + o - 1) /\ x = start + r
        OBVIOUS
    <2>2. PICK a \in 0..(g - 1), b \in 1..l : At(s, o, a, b) = r
        <3>1. l = CycleLen(s, o, g)
            BY <1>2
        <3> HIDE DEF s, o, l, r
        <3>2. \E a \in 0..(g - 1) : \E b \in 1..CycleLen(s, o, g) : At(s, o, a, b) = r
            BY <1>1, <2>1, AtCovers DEF s, o
        <3> QED BY <3>1, <3>2
    <2> DEFINE t == l * a + b
    <2>3. t \in 1..N /\ i(t) = a /\ j(t) = b
        <3> HIDE DEF l
        <3>1. l * (a + 1) <= l * g
            BY <2>2, <1>2 DEF Pos
        <3>2. l * a \in Nat /\ l * (a + 1) = l * a + l /\ l * g = N
            BY <1>2, <2>2 DEF Pos
        <3>3. t \in 1..N
            BY <3>1, <3>2, <2>2, <1>2 DEF Pos
        <3>4. t - 1 = l * a + (b - 1) /\ t - 1 \in Nat /\ b - 1 \in 0..(l - 1) /\ a \in Int
            BY <3>2, <3>3, <2>2, <1>2 DEF Pos
        <3>5. (t - 1) % l = b - 1 /\ (t - 1) \div l = a
            <4> HIDE DEF t
            <4> QED BY <3>4, <1>2, DivModUnique
        <3> QED BY <3>3, <3>5, <2>2, <1>2 DEF Pos
    <2>4. P[t] = start + At(s, o, i(t), j(t))
        BY <1>3, <2>3
    <2>5. P[t] = x
        BY <2>1, <2>2, <2>3, <2>4
    <2> QED BY <2>3, <2>5
<1>12. P \in [1..N -> D] /\ C \in [1..N -> D]
    <2>1. \A t \in 1..N : P[t] \in D /\ C[t] \in D
        <3>1. end..(opt_end - 1) \subseteq D
            OBVIOUS
        <3> HIDE DEF N, l
        <3> QED BY <1>6, <3>1
    <2>2. P = [t \in 1..N |-> P[t]] /\ C = [t \in 1..N |-> C[t]]
        BY DEF P, C, Visits, Starts
    <2> HIDE DEF N
    <2> QED BY <2>1, <2>2
<1>13. \A t \in 1..N : R[P[t]] = IF (t - 1) % l = 0 THEN C[t] ELSE P[t - 1]
    <2> SUFFICES ASSUME NEW t \in 1..N
                 PROVE  R[P[t]] = IF (t - 1) % l = 0 THEN C[t] ELSE P[t - 1]
        OBVIOUS
    <2> DEFINE last == IF (t - 1) % l = 0 THEN C[t] ELSE P[t - 1]
    <2>1. P[t] \in D /\ P[t] = NextPos(start, end, opt_end, last)
        <3> HIDE DEF N, l
        <3> QED BY <1>6, <1>12
    <2>2. last \in start..(opt_end - 1)
        <3>1. CASE (t - 1) % l = 0
            BY <1>6, <3>1
        <3>2. CASE (t - 1) % l # 0
            <4>1. t # 1
                <5>1. 0 % l = 0
                    BY <1>2 DEF Pos
                <5> QED BY <5>1, <3>2
            <4>2. t - 1 \in 1..N
                BY <4>1
            <4> HIDE DEF N, l
            <4> QED BY <1>6, <3>2, <4>2
        <3> QED BY <3>1, <3>2
    <2>3. Source(start, end, opt_end, NextPos(start, end, opt_end, last)) = last
        <3> HIDE DEF last
        <3> QED BY <2>2 DEF Source, NextPos
    <2> QED BY <2>1, <2>3
<1>14. Cycles(D, N, l, P, C, R)
    <2>1. \A t \in 1..N : t % l = 0 <=> P[t] = C[t]
        BY <1>6
    <2> HIDE DEF N, l, R
    <2> QED BY <1>7, <1>8, <1>9, <1>10, <1>12, <1>13, <2>1 DEF Cycles
<1>15. \A t \in 1..N : P[t] = NextPos(start, end, opt_end,
                                        IF (t - 1) % l = 0 THEN C[t] ELSE P[t - 1])
    BY <1>6
<1> HIDE DEF N, l
<1> QED BY <1>2, <1>11, <1>14, <1>15 DEF P, C, N, l, R, PermuteLoops

\* The blocks start..end-1 and end..opt_end-1 of v exchanged, each in its order.
BlocksExchanged(start, end, opt_end, v) ==
    [x \in DOMAIN v |-> IF x \in start..(opt_end - 1) THEN v[Source(start, end, opt_end, x)]
                        ELSE v[x]]

\* permute_args exchanges two blocks of any length and keeps the order in each.
THEOREM PermuteArgs ==
    ASSUME NEW start \in Int, NEW end \in Int, NEW opt_end \in Int, start < end, end < opt_end,
           NEW D, start..(opt_end - 1) \subseteq D, NEW S, NEW v \in [D -> S]
    PROVE  permute_args(start, end, opt_end, v) = BlocksExchanged(start, end, opt_end, v)
<1> DEFINE g == ncycle(end - start, opt_end - end)
           N == opt_end - start
           l == N \div g
           P == Visits(start, end, opt_end, l)
           C == Starts(start, end, opt_end, l)
           R == [x \in D |-> Source(start, end, opt_end, x)]
           cstart(t) == end + ((t - 1) \div l)
           E(p) == p = [t \in 1..(g * l) |->
                           NextPos(start, end, opt_end,
                                   IF (t - 1) % l = 0 THEN cstart(t) ELSE p[t - 1])]
           pos == CHOOSE p : E(p)
           nargv[t \in 0..(g * l)] ==
               IF t = 0 THEN v
               ELSE [x \in DOMAIN v |-> nargv[t - 1][Swapped(x, pos[t], cstart(t))]]
<1>1. g \in Gcds(end - start, opt_end - end)
    <2>1. end - start \in Nat /\ opt_end - end \in Pos
        BY DEF Pos
    <2> QED BY <2>1, GcdIsGcd DEF ncycle
<1>2. /\ l \in Pos /\ g * l = N
      /\ Cycles(D, N, l, P, C, R)
      /\ \A x \in D : x \in start..(opt_end - 1) <=> \E t \in 1..N : P[t] = x
      /\ \A t \in 1..N : P[t] = NextPos(start, end, opt_end,
                                        IF (t - 1) % l = 0 THEN C[t] ELSE P[t - 1])
    <2>1. PermuteLoops(start, end, opt_end, D, g, l)
        <3> HIDE DEF g
        <3> QED BY <1>1, PermuteCycles
    <2> HIDE DEF g, l
    <2> QED BY <2>1 DEF PermuteLoops
<1>3. permute_args(start, end, opt_end, v) = nargv[g * l]
    BY DEF permute_args
<1>4. N \in Nat /\ l \in Pos
    BY <1>2
<1>5. \A t \in 1..N : C[t] = cstart(t)
    BY DEF Starts
<1> HIDE DEF g, l, C
<1>6. E(P)
    <2>1. P = [t \in 1..N |-> P[t]]
        BY DEF Visits
    <2> HIDE DEF N, P
    <2>2. \A t \in 1..N : P[t] = NextPos(start, end, opt_end,
                                   IF (t - 1) % l = 0 THEN cstart(t) ELSE P[t - 1])
        BY <1>2, <1>5
    <2> QED BY <2>1, <2>2, <1>2
<1>7. pos = P
    <2>1. E(pos)
        <3> HIDE DEF E
        <3> QED BY <1>6
    <2> DEFINE T == {t \in Nat : t \in 1..N => pos[t] = P[t]}
    <2> HIDE DEF pos, P, N, cstart
    <2>2. \A t \in 1..N : pos[t] = NextPos(start, end, opt_end,
                                     IF (t - 1) % l = 0 THEN cstart(t) ELSE pos[t - 1])
        BY <2>1, <1>2
    <2>3. \A t \in 1..N : P[t] = NextPos(start, end, opt_end,
                                     IF (t - 1) % l = 0 THEN cstart(t) ELSE P[t - 1])
        BY <1>2, <1>5
    <2>4. 0 \in T
        BY <1>4
    <2>5. ASSUME NEW t \in Nat, t \in T PROVE t + 1 \in T
        <3>1. CASE t + 1 \in 1..N /\ t = 0
            <4>1. ((t + 1) - 1) % l = 0
                BY <3>1, <1>4 DEF Pos
            <4> QED BY <3>1, <4>1, <2>2, <2>3
        <3>2. CASE t + 1 \in 1..N /\ t # 0
            <4>1. t \in 1..N /\ (t + 1) - 1 = t
                BY <3>2, <1>4
            <4>2. pos[t] = P[t]
                BY <4>1, <2>5
            <4>3. pos[(t + 1) - 1] = P[(t + 1) - 1]
                BY <4>1, <4>2
            <4> QED BY <3>2, <4>3, <2>2, <2>3
        <3>3. CASE t + 1 \notin 1..N
            BY <3>3
        <3> QED BY <3>1, <3>2, <3>3
    <2> HIDE DEF T
    <2>6. Nat \subseteq T
        BY <2>4, <2>5, Induction
    <2>7. \A t \in 1..N : pos[t] = P[t]
        BY <2>6, <1>4 DEF T
    <2>8. pos = [t \in 1..N |-> pos[t]]
        BY <2>1, <1>2
    <2>9. P = [t \in 1..N |-> P[t]]
        BY DEF P, Visits, N
    <2> QED BY <2>7, <2>8, <2>9
<1> HIDE DEF pos, P, R, N
<1>8. HasDomain(v, D)
    BY DEF HasDomain
<1>9. Swapping(N, P, C, v, nargv)
    <2> DEFINE G(f) == f = [t \in 0..(g * l) |-> IF t = 0 THEN v
                               ELSE [x \in DOMAIN v |-> f[t - 1][Swapped(x, pos[t], cstart(t))]]]
    <2>1. \A t \in 0..N : t # 0 => t \in 1..N
        BY <1>4
    <2>2. ASSUME NEW f PROVE G(f) <=> Swapping(N, P, C, v, f)
        <3> DEFINE a(t) == IF t = 0 THEN v
                           ELSE [x \in DOMAIN v |-> f[t - 1][Swapped(x, pos[t], cstart(t))]]
                   b(t) == IF t = 0 THEN v
                           ELSE [x \in DOMAIN v |-> f[t - 1][Swapped(x, P[t], C[t])]]
        <3>1. \A t \in 0..N : a(t) = b(t)
            BY <2>1, <1>5, <1>7
        <3>2. G(f) <=> f = [t \in 0..N |-> a(t)]
            BY <1>2, Zenon
        <3>3. Swapping(N, P, C, v, f) <=> f = [t \in 0..N |-> b(t)]
            BY Zenon DEF Swapping, Turned
        <3> HIDE DEF a, b, G
        <3> QED BY <3>1, <3>2, <3>3
    <2>3. \E f : Swapping(N, P, C, v, f)
        BY <1>2, <1>4, <1>8, SwapsExist
    <2>4. nargv = CHOOSE f : G(f)
        OBVIOUS
    <2> HIDE DEF G, nargv
    <2> QED BY <2>2, <2>3, <2>4
<1> HIDE DEF nargv
<1>10. nargv[N] = [x \in D |-> IF \E t \in 1..N : P[t] = x THEN v[R[x]] ELSE v[x]]
    BY <1>2, <1>4, <1>9, <1>8, SwapsDone
<1>11. \A x \in D : R[x] = Source(start, end, opt_end, x)
    BY DEF R
<1> QED BY <1>2, <1>3, <1>10, <1>11 DEF BlocksExchanged

------------------------------------------------------------------------------
\* What a step does to a vector of positions.

\* Vectors of n arguments; in order on a set of indices; not moved from k on.
Vectors(n) == {v \in [1..n -> 1..n] : \A x, y \in 1..n : v[x] = v[y] => x = y}
Increasing(v, T) == \A x, y \in T : x < y => v[x] < v[y]
Unread(v, n, k) == \A x \in k..n : v[x] = x

\* If nothing from k on has moved, what is before k is from there.
LEMMA ReadBelow ==
    ASSUME NEW n \in Nat, NEW v \in Vectors(n), NEW k \in 1..(n + 1), Unread(v, n, k)
    PROVE  \A x \in 1..(k - 1) : v[x] \in 1..(k - 1)
<1> SUFFICES ASSUME NEW x \in 1..(k - 1) PROVE v[x] < k
    BY DEF Vectors
<1>1. x \in 1..n /\ v[x] \in 1..n
    BY DEF Vectors
<1>2. CASE v[x] >= k
    <2>1. v[v[x]] = v[x]
        BY <1>1, <1>2 DEF Unread
    <2>2. v[x] = x
        BY <1>1, <2>1 DEF Vectors
    <2> QED BY <1>2, <2>2
<1> QED BY <1>1, <1>2

\* The vector after permute_args, index by index.
LEMMA PermutedIs ==
    ASSUME NEW n \in Nat, NEW v \in Vectors(n),
           NEW start \in 1..n, NEW end \in 1..n, NEW k \in 1..(n + 1), start < end, end < k
    PROVE  LET w == permute_args(start, end, k, v)
               m == start + (k - end)
           IN  /\ w \in Vectors(n)
               /\ \A x \in 1..(start - 1) : w[x] = v[x]
               /\ \A x \in start..(m - 1) : w[x] = v[x + (end - start)]
               /\ \A x \in m..(k - 1) : w[x] = v[x - (k - end)]
               /\ \A x \in k..n : w[x] = v[x]
<1> DEFINE w == permute_args(start, end, k, v)
           m == start + (k - end)
           f(x) == IF x \in start..(k - 1) THEN Source(start, end, k, x) ELSE x
<1>1. v \in [1..n -> 1..n]
    BY DEF Vectors
<1>2. w = [x \in 1..n |-> IF x \in start..(k - 1) THEN v[Source(start, end, k, x)] ELSE v[x]]
    <2>1. start..(k - 1) \subseteq 1..n
        OBVIOUS
    <2>2. w = BlocksExchanged(start, end, k, v)
        <3>1. start \in Int /\ end \in Int /\ k \in Int
            OBVIOUS
        <3> DEFINE D == 1..n
        <3>2. v \in [D -> D] /\ start..(k - 1) \subseteq D
            BY <1>1, <2>1
        <3> HIDE DEF D
        <3> QED BY <3>1, <3>2, PermuteArgs
    <2> HIDE DEF w
    <2> QED BY <1>1, <2>2 DEF BlocksExchanged
<1>3. w = [x \in 1..n |-> v[f(x)]]
    BY <1>2
<1>4. \A x \in 1..n : f(x) \in 1..n
    BY DEF Source
<1>5. \A x, y \in 1..n : f(x) = f(y) => x = y
    BY DEF Source
<1>6. /\ \A x \in 1..(start - 1) : x \in 1..n /\ f(x) = x
      /\ \A x \in start..(m - 1) : x \in 1..n /\ f(x) = x + (end - start)
      /\ \A x \in m..(k - 1) : x \in 1..n /\ f(x) = x - (k - end)
      /\ \A x \in k..n : x \in 1..n /\ f(x) = x
    BY DEF Source
<1> HIDE DEF w, f
<1>7. w \in Vectors(n)
    <2>1. w \in [1..n -> 1..n]
        BY <1>1, <1>3, <1>4
    <2>2. ASSUME NEW x \in 1..n, NEW y \in 1..n, w[x] = w[y] PROVE x = y
        <3>1. v[f(x)] = v[f(y)]
            BY <1>3, <2>2
        <3>2. f(x) = f(y)
            BY <1>4, <3>1 DEF Vectors
        <3> QED BY <1>5, <3>2
    <2> QED BY <2>1, <2>2 DEF Vectors
<1>8. \A x \in 1..n : w[x] = v[f(x)]
    BY <1>3
<1>9. /\ \A x \in 1..(start - 1) : w[x] = v[x]
      /\ \A x \in start..(m - 1) : w[x] = v[x + (end - start)]
      /\ \A x \in m..(k - 1) : w[x] = v[x - (k - end)]
      /\ \A x \in k..n : w[x] = v[x]
    <2> HIDE DEF m
    <2> QED BY <1>6, <1>8
<1> QED BY <1>7, <1>9 DEF w

\* Where the words of a block and the options around it are in order, they stay
\* so, the options now before m and the words behind it.
LEMMA PermutedOrder ==
    ASSUME NEW n \in Nat, NEW v \in Vectors(n),
           NEW start \in 1..n, NEW end \in 1..n, NEW k \in 1..(n + 1), start < end, end < k,
           Increasing(v, start..(end - 1)),
           Increasing(v, 1..(start - 1) \cup end..(k - 1)),
           Unread(v, n, k)
    PROVE  LET w == permute_args(start, end, k, v)
               m == start + (k - end)
           IN  /\ w \in Vectors(n)
               /\ Unread(w, n, k)
               /\ Increasing(w, 1..(m - 1))
               /\ Increasing(w, m..n)
<1> DEFINE w == permute_args(start, end, k, v)
           m == start + (k - end)
<1>1. /\ w \in Vectors(n)
      /\ \A x \in 1..(start - 1) : w[x] = v[x]
      /\ \A x \in start..(m - 1) : w[x] = v[x + (end - start)]
      /\ \A x \in m..(k - 1) : w[x] = v[x - (k - end)]
      /\ \A x \in k..n : w[x] = v[x]
    BY PermutedIs
<1> HIDE DEF w
<1>2. Unread(w, n, k)
    BY <1>1 DEF Unread
<1>3. Increasing(w, 1..(m - 1))
    <2> SUFFICES ASSUME NEW x \in 1..(m - 1), NEW y \in 1..(m - 1), x < y PROVE w[x] < w[y]
        BY DEF Increasing
    <2> DEFINE f(z) == IF z < start THEN z ELSE z + (end - start)
               T == 1..(start - 1) \cup end..(k - 1)
    <2>1. f(x) \in T /\ f(y) \in T /\ f(x) < f(y)
        OBVIOUS
    <2>2. w[x] = v[f(x)] /\ w[y] = v[f(y)]
        BY <1>1
    <2> HIDE DEF f
    <2> QED BY <2>1, <2>2 DEF Increasing
<1>4. Increasing(w, m..n)
    <2> SUFFICES ASSUME NEW x \in m..n, NEW y \in m..n, x < y PROVE w[x] < w[y]
        BY DEF Increasing
    <2>1. CASE y < k
        <3>1. w[x] = v[x - (k - end)] /\ w[y] = v[y - (k - end)]
            BY <1>1, <2>1
        <3>2. x - (k - end) \in start..(end - 1) /\ y - (k - end) \in start..(end - 1)
              /\ x - (k - end) < y - (k - end)
            BY <2>1
        <3> QED BY <3>1, <3>2 DEF Increasing
    <2>2. CASE y >= k
        <3>1. w[y] = y /\ x \in 1..n /\ m >= 1
            BY <1>2, <2>2 DEF Unread
        <3>2. CASE x >= k
            BY <1>2, <3>1, <3>2 DEF Unread
        <3>3. CASE x < k
            <4>1. w[x] < k
                <5>1. \A z \in 1..(k - 1) : w[z] \in 1..(k - 1)
                    BY <1>1, <1>2, ReadBelow
                <5>2. w[x] \in 1..(k - 1)
                    BY <5>1, <3>1, <3>3
                <5> QED BY <5>2
            <4>2. w[x] \in Int
                BY <1>1, <3>1 DEF Vectors
            <4> QED BY <4>1, <4>2, <3>1, <2>2
        <3> QED BY <3>2, <3>3
    <2> QED BY <2>1, <2>2
<1> QED BY <1>1, <1>2, <1>3, <1>4 DEF w

------------------------------------------------------------------------------
\* The indices and the order.

\* optind and the ends of the block are indices, and an argument of which
\* something is left is before the end.
IndicesOK ==
    /\ optind \in 1..Nargc
    /\ nonopt_start \in 1..Len(line) \cup {-1}
    /\ nonopt_end \in 1..Len(line) \cup {-1}
    /\ ~done /\ place # EMSG => optind < Nargc

LinesAreSequences == line \in Lines /\ Len(line) \in Nat

IndexInv == LinesAreSequences /\ IndicesOK /\ BlocksInOrder

\* Reading an option passes over at most its argument and one more, which is
\* there; if it passes over none, something of the argument is left.
LEMMA OptionUses ==
    ASSUME NEW o, NEW more \in BOOLEAN
    PROVE  LET r == ReadOption(o, more)
           IN  /\ r.used \in 0..2
               /\ r.used = 2 => more
               /\ r.used = 0 <=> r.place # EMSG
<1> DEFINE Uses(r) == /\ r.used \in 0..2
                      /\ r.used = 2 => more
                      /\ r.used = 0 <=> r.place # EMSG
<1>1. \A opt, entry, arg : /\ Uses(Found(opt, entry, arg, 1, EMSG))
                           /\ more => Uses(Found(opt, entry, arg, 2, EMSG))
    BY DEF Found
<1>2. Uses(BadOption(1, EMSG))
    BY <1>1 DEF BadOption
<1>3. ASSUME NEW l PROVE Uses(parse_long_options(l, more))
    BY <1>1, <1>2 DEF parse_long_options
<1>4. Uses(parse_letter(o, more))
    <2> DEFINE rest == Option(Tail(o.letters), o.long)
               used == IF rest = EMSG THEN 1 ELSE 0
    <2>1. \A opt, entry, arg : Uses(Found(opt, entry, arg, used, rest))
        BY DEF Found
    <2>2. Uses(BadOption(used, rest))
        BY <2>1 DEF BadOption
    <2> QED BY <1>1, <1>2, <2>1, <2>2 DEF parse_letter
<1> QED BY <1>3, <1>4 DEF ReadOption

\* A parser begins with indices that fit.
LEMMA IndexInit == Init => IndexInv
    BY LinesAssumption DEF Init, IndexInv, LinesAreSequences, IndicesOK, BlocksInOrder, Nargc

\* Every step keeps the indices.
LEMMA IndexStep == IndexInv /\ [Next]_vars => IndexInv'
<1> SUFFICES ASSUME IndexInv, [Next]_vars
             PROVE  IndexInv'
    OBVIOUS
<1> USE DEF IndexInv, LinesAreSequences, IndicesOK, BlocksInOrder, Nargc
<1>1. CASE EndOfVector
    BY <1>1 DEF EndOfVector, Scan, Return
<1>2. CASE PassWord
    <2>1. /\ place = EMSG /\ ~done /\ optind < Len(line) + 1
          /\ optind' = optind + 1
          /\ UNCHANGED <<line, place, done>>
        BY <1>2 DEF PassWord, Scan, AfterWord
    <2>2. CASE nonopt_start = -1
        BY <1>2, <2>1, <2>2 DEF PassWord
    <2>3. CASE nonopt_start # -1 /\ nonopt_end = -1
        BY <1>2, <2>1, <2>3 DEF PassWord
    <2>4. CASE nonopt_start # -1 /\ nonopt_end # -1
        <3>1. nonopt_start' = optind - (nonopt_end - nonopt_start) /\ nonopt_end' = -1
            BY <1>2, <2>4 DEF PassWord, BlockStart
        <3> QED BY <2>1, <2>4, <3>1
    <2> QED BY <2>2, <2>3, <2>4
<1>3. CASE StopAtWord
    BY <1>3 DEF StopAtWord, Scan
<1>4. CASE StopAtDashes
    <2> DEFINE end == ClosedAt(optind)
    <2>1. Return(optind + 1, end) /\ place = EMSG /\ ~done /\ optind < Len(line) + 1
        BY <1>4 DEF StopAtDashes, Scan
    <2>2. end \in 1..Len(line) \cup {-1}
          /\ (end # -1 => nonopt_start # -1 /\ nonopt_start < end /\ end <= optind)
        BY <2>1 DEF ClosedAt
    <2> HIDE DEF end
    <2>3. /\ done' = TRUE /\ nonopt_start' = -1 /\ nonopt_end' = -1
          /\ UNCHANGED <<line, place>>
        BY <2>1 DEF Return
    <2>4. CASE end # -1
        <3>1. optind' = optind + 1 - (end - nonopt_start)
            BY <2>1, <2>2, <2>4 DEF Return
        <3> QED BY <2>1, <2>2, <2>3, <2>4, <3>1
    <2>5. CASE end = -1
        <3>1. optind' = IF nonopt_start # -1 THEN nonopt_start ELSE optind + 1
            BY <2>1, <2>5 DEF Return
        <3> QED BY <2>1, <2>3, <3>1
    <2> QED BY <2>4, <2>5
<1>5. CASE TakeOption
    <2> DEFINE more == optind + 1 < Nargc
               r == ReadOption(IF place = EMSG THEN Current ELSE place, more)
    <2>1. /\ ~done /\ optind < Len(line) + 1
          /\ nonopt_end' = IF place = EMSG THEN ClosedAt(optind) ELSE nonopt_end
          /\ optind' = optind + r.used
          /\ place' = r.place
          /\ UNCHANGED <<line, nonopt_start, done>>
        BY <1>5 DEF TakeOption
    <2>2. /\ r.used \in 0..2
          /\ r.used = 2 => optind + 1 < Len(line) + 1
          /\ r.used = 0 <=> r.place # EMSG
        <3> DEFINE o == IF place = EMSG THEN Current ELSE place
        <3>1. more \in BOOLEAN
            OBVIOUS
        <3> HIDE DEF o, more
        <3>2. LET s == ReadOption(o, more)
              IN  /\ s.used \in 0..2
                  /\ s.used = 2 => more
                  /\ s.used = 0 <=> s.place # EMSG
            BY <3>1, OptionUses
        <3> QED BY <3>2 DEF more, o
    <2>3. /\ nonopt_end' \in 1..Len(line) \cup {-1}
          /\ nonopt_end' # -1 =>
                nonopt_start # -1 /\ nonopt_start < nonopt_end' /\ nonopt_end' <= optind
        BY <2>1 DEF ClosedAt
    <2> HIDE DEF r
    <2>4. optind' \in 1..(Len(line) + 1) /\ (place' # EMSG => optind' = optind)
        BY <2>1, <2>2
    <2>5. place' = EMSG => optind < optind'
        BY <2>1, <2>2
    <2> QED BY <2>1, <2>3, <2>4, <2>5
<1>6. CASE UNCHANGED vars
    BY <1>6 DEF vars
<1> QED BY <1>1, <1>2, <1>3, <1>4, <1>5, <1>6 DEF Next

\* permute_args gets blocks that are in order, whatever the command line is: the
\* first is not empty and ends before the second, of what was read.
THEOREM BlocksStayInOrder == Spec => []BlocksInOrder
<1>1. IndexInv => BlocksInOrder
    BY DEF IndexInv
<1> QED BY <1>1, IndexInit, IndexStep, PTL DEF Spec

\* Where the block of words passed over ends.
BlockEnd == IF nonopt_end = -1 THEN optind ELSE nonopt_end

\* While options are read: nothing from optind on has moved, and nothing at all if
\* there is no block; the words of the block, and the arguments around it that have
\* been read, are in the order given.
InProgress ==
    /\ Unread(argv, Len(line), optind)
    /\ nonopt_start = -1 => Unread(argv, Len(line), 1)
    /\ nonopt_start # -1 =>
          /\ place # EMSG => nonopt_end # -1
          /\ Increasing(argv, nonopt_start..(BlockEnd - 1))
          /\ Increasing(argv, 1..(nonopt_start - 1) \cup BlockEnd..(optind - 1))

OrderInv ==
    /\ argv \in Vectors(Len(line))
    /\ posix \in BOOLEAN /\ done \in BOOLEAN
    /\ posix => nonopt_start = -1
    /\ ~done => InProgress
    /\ done => Increasing(argv, 1..(optind - 1)) /\ Increasing(argv, optind..Len(line))

\* A parser begins with the vector as it was given.
LEMMA OrderInit == Init => OrderInv
<1> SUFFICES ASSUME Init PROVE OrderInv
    OBVIOUS
<1>1. Len(line) \in Nat /\ argv = [k \in 1..Len(line) |-> k]
    BY LinesAssumption DEF Init
<1>2. argv \in Vectors(Len(line)) /\ Unread(argv, Len(line), 1)
    BY <1>1 DEF Vectors, Unread
<1> QED BY <1>1, <1>2 DEF Init, OrderInv, InProgress

\* The end of a call that returns -1.
LEMMA ReturnKeepsOrder ==
    ASSUME IndexInv, OrderInv, ~done, place = EMSG,
           NEW k \in 1..Nargc, NEW end \in 1..Len(line) \cup {-1},
           k \in {optind, optind + 1},
           end # -1 => nonopt_start # -1 /\ nonopt_start < end /\ end < k /\ end = BlockEnd,
           end = -1 => nonopt_start = -1 \/ (nonopt_end = -1 /\ k = optind /\ k = Nargc),
           Return(k, end)
    PROVE  OrderInv'
<1> DEFINE n == Len(line)
<1>1. /\ n \in Nat /\ Nargc = n + 1
      /\ argv \in Vectors(n)
      /\ optind \in 1..(n + 1) /\ nonopt_start \in 1..n \cup {-1}
      /\ nonopt_start # -1 => nonopt_start < optind
      /\ Unread(argv, n, optind)
      /\ nonopt_start = -1 => Unread(argv, n, 1)
    BY DEF IndexInv, LinesAreSequences, IndicesOK, OrderInv, InProgress, Nargc, BlocksInOrder
<1>2. /\ done' = TRUE /\ nonopt_start' = -1 /\ nonopt_end' = -1
      /\ UNCHANGED <<line, posix>>
      /\ posix \in BOOLEAN
    BY DEF Return, OrderInv
<1>3. Increasing(argv', 1..(optind' - 1)) /\ Increasing(argv', optind'..n) /\ argv' \in Vectors(n)
    <2>1. CASE end # -1
        <3> DEFINE start == nonopt_start
                   m == start + (k - end)
        <3>1. /\ start \in 1..n /\ end \in 1..n /\ k \in 1..(n + 1) /\ start < end /\ end < k
              /\ BlockEnd = end
            BY <1>1, <2>1
        <3>2. Increasing(argv, start..(end - 1))
              /\ Increasing(argv, 1..(start - 1) \cup end..(optind - 1))
            BY <2>1, <3>1 DEF OrderInv, InProgress
        <3>3. Unread(argv, n, k)
            BY <1>1 DEF Unread
        <3>4. Increasing(argv, 1..(start - 1) \cup end..(k - 1))
            <4>1. CASE k = optind
                BY <3>2, <4>1
            <4>2. CASE k = optind + 1
                <5>1. optind \in 1..n /\ argv[optind] = optind
                    BY <1>1, <3>1, <4>2 DEF Unread
                <5>2. \A x \in 1..(optind - 1) : argv[x] \in 1..(optind - 1)
                    BY <1>1, ReadBelow
                <5> DEFINE T == 1..(start - 1) \cup end..(optind - 1)
                <5>3. 1..(start - 1) \cup end..(k - 1) \subseteq T \cup {optind}
                    BY <4>2, <3>1, <1>1
                <5>4. T \subseteq 1..(optind - 1)
                    BY <4>2, <3>1, <1>1
                <5>5. \A x, y \in T \cup {optind} : x < y => argv[x] < argv[y]
                    <6> SUFFICES ASSUME NEW x \in T \cup {optind}, NEW y \in T \cup {optind}, x < y
                                 PROVE  argv[x] < argv[y]
                        OBVIOUS
                    <6>1. CASE x \in T /\ y \in T
                        <7> HIDE DEF T
                        <7> QED BY <6>1, <3>2 DEF Increasing, T
                    <6>2. CASE x \in T /\ y = optind
                        <7>1. argv[x] \in 1..(optind - 1)
                            BY <5>2, <5>4, <6>2
                        <7> QED BY <5>1, <7>1, <6>2
                    <6>3. CASE x = optind
                        <7>1. y \in 1..optind
                            <8> HIDE DEF T
                            <8> QED BY <5>4, <5>1
                        <7> QED BY <6>3, <7>1, <5>1
                    <6> QED BY <6>1, <6>2, <6>3
                <5> HIDE DEF T
                <5> QED BY <5>3, <5>5 DEF Increasing
            <4> QED BY <4>1, <4>2
        <3>5. argv' = permute_args(start, end, k, argv) /\ optind' = m
            <4>1. argv' = permute_args(start, end, k, argv) /\ optind' = k - (end - start)
                BY <2>1 DEF Return
            <4>2. k - (end - start) = m
                BY <3>1
            <4> QED BY <4>1, <4>2
        <3>6. LET w == permute_args(start, end, k, argv)
                  mm == start + (k - end)
              IN  /\ w \in Vectors(n)
                  /\ Unread(w, n, k)
                  /\ Increasing(w, 1..(mm - 1))
                  /\ Increasing(w, mm..n)
            <4> HIDE DEF n, start
            <4> QED BY <1>1, <3>1, <3>2, <3>3, <3>4, PermutedOrder
        <3> QED BY <3>5, <3>6
    <2>2. CASE end = -1
        <3>1. argv' = argv /\ optind' = IF nonopt_start # -1 THEN nonopt_start ELSE k
            BY <2>2 DEF Return
        <3>2. CASE nonopt_start = -1
            BY <1>1, <3>1, <3>2 DEF Unread, Increasing
        <3>3. CASE nonopt_start # -1
            <4>1. /\ BlockEnd = n + 1 /\ optind' = nonopt_start /\ optind = n + 1
                BY <1>1, <2>2, <3>1, <3>3 DEF BlockEnd
            <4>2. Increasing(argv, nonopt_start..n)
                  /\ Increasing(argv, 1..(nonopt_start - 1) \cup (n + 1)..n)
                <5>1. (n + 1) - 1 = n
                    BY <1>1
                <5> QED BY <3>3, <4>1, <5>1 DEF OrderInv, InProgress
            <4>3. Increasing(argv, 1..(nonopt_start - 1))
                BY <4>2 DEF Increasing
            <4> QED BY <1>1, <3>1, <4>1, <4>2, <4>3
        <3> QED BY <3>2, <3>3
    <2> QED BY <2>1, <2>2
<1> QED BY <1>1, <1>2, <1>3 DEF OrderInv

\* The block grows by an argument at its end, or what is around it does.
LEMMA IncreasingMore ==
    ASSUME NEW n \in Nat, NEW v \in Vectors(n), NEW k \in 1..n, Unread(v, n, k),
           NEW T \in SUBSET (1..(k - 1)), Increasing(v, T),
           NEW m \in k..n
    PROVE  Increasing(v, T \cup k..m)
<1>1. \A x \in 1..(k - 1) : v[x] \in 1..(k - 1)
    <2>1. k \in 1..(n + 1)
        OBVIOUS
    <2> QED BY <2>1, ReadBelow
<1> SUFFICES ASSUME NEW x \in T \cup k..m, NEW y \in T \cup k..m, x < y PROVE v[x] < v[y]
    BY DEF Increasing
<1>2. CASE x \in T /\ y \in T
    BY <1>2 DEF Increasing
<1>3. CASE x \in T /\ y \in k..m
    <2>1. v[x] \in 1..(k - 1)
        BY <1>1, <1>3
    <2>2. v[y] = y
        BY <1>3 DEF Unread
    <2> QED BY <2>1, <2>2, <1>3
<1>4. CASE x \in k..m
    <2>1. y \in k..m
        BY <1>4
    <2> QED BY <1>4, <2>1 DEF Unread
<1> QED BY <1>2, <1>3, <1>4

\* Every step keeps the order.
LEMMA OrderStep == IndexInv /\ OrderInv /\ [Next]_vars => OrderInv'
<1> SUFFICES ASSUME IndexInv, OrderInv, [Next]_vars PROVE OrderInv'
    OBVIOUS
<1> DEFINE n == Len(line)
<1>1. /\ n \in Nat /\ Nargc = n + 1
      /\ argv \in Vectors(n)
      /\ optind \in 1..(n + 1)
      /\ nonopt_start \in 1..n \cup {-1} /\ nonopt_end \in 1..n \cup {-1}
      /\ posix \in BOOLEAN /\ done \in BOOLEAN
      /\ posix => nonopt_start = -1
    BY DEF IndexInv, LinesAreSequences, IndicesOK, OrderInv, Nargc
<1>2. ASSUME ~done
      PROVE  /\ Unread(argv, n, optind)
             /\ nonopt_start = -1 => Unread(argv, n, 1) /\ nonopt_end = -1
             /\ nonopt_start # -1 =>
                    /\ nonopt_start < optind
                    /\ place # EMSG => nonopt_end # -1
                    /\ BlockEnd \in 1..(n + 1) /\ nonopt_start < BlockEnd /\ BlockEnd <= optind
                    /\ place = EMSG /\ nonopt_end # -1 => nonopt_end < optind
                    /\ Increasing(argv, nonopt_start..(BlockEnd - 1))
                    /\ Increasing(argv, 1..(nonopt_start - 1) \cup BlockEnd..(optind - 1))
    BY <1>1, <1>2 DEF IndexInv, BlocksInOrder, OrderInv, InProgress, BlockEnd
<1>3. CASE EndOfVector
    <2>1. ~done /\ place = EMSG /\ optind = Nargc /\ Return(optind, nonopt_end)
        BY <1>1, <1>3 DEF EndOfVector, Scan
    <2>2. optind \in 1..Nargc /\ nonopt_end \in 1..Len(line) \cup {-1}
        BY <1>1
    <2>3. nonopt_end # -1 => nonopt_start # -1 /\ nonopt_start < nonopt_end
                             /\ nonopt_end < optind /\ nonopt_end = BlockEnd
        BY <1>2, <2>1 DEF BlockEnd
    <2> QED BY <2>1, <2>2, <2>3, ReturnKeepsOrder
<1>4. CASE StopAtDashes
    <2> DEFINE k == optind + 1
               end == ClosedAt(optind)
    <2>1. ~done /\ place = EMSG /\ optind < Nargc /\ Return(k, end)
        BY <1>4 DEF StopAtDashes, Scan
    <2>2. k \in 1..Nargc /\ k \in {optind, optind + 1}
        BY <1>1, <2>1
    <2>3. end \in 1..Len(line) \cup {-1}
        BY <1>1, <2>1 DEF ClosedAt
    <2>4. end # -1 => nonopt_start # -1 /\ nonopt_start < end /\ end < k /\ end = BlockEnd
        BY <1>1, <1>2, <2>1 DEF BlockEnd, ClosedAt
    <2>5. end = -1 => nonopt_start = -1
        BY <1>1 DEF ClosedAt
    <2> HIDE DEF k, end
    <2> QED BY <2>1, <2>2, <2>3, <2>4, <2>5, ReturnKeepsOrder
<1>5. CASE StopAtWord
    <2>1. /\ ~done /\ nonopt_start = -1 /\ done' = TRUE
          /\ UNCHANGED <<line, argv, posix, optind, nonopt_start, nonopt_end>>
        BY <1>1, <1>5 DEF StopAtWord, Scan
    <2> QED BY <1>1, <1>2, <2>1 DEF OrderInv, Unread, Increasing
<1>6. CASE PassWord
    <2>1. /\ ~done /\ place = EMSG /\ optind \in 1..n /\ ~posix
          /\ optind' = optind + 1
          /\ UNCHANGED <<line, posix, place, done>>
        BY <1>1, <1>6 DEF PassWord, Scan, AfterWord
    <2>2. CASE nonopt_start = -1
        <3>1. nonopt_start' = optind /\ UNCHANGED <<argv, nonopt_end>> /\ nonopt_end = -1
            BY <1>2, <1>6, <2>1, <2>2 DEF PassWord
        <3>2. BlockEnd' = optind + 1
            BY <2>1, <3>1 DEF BlockEnd
        <3>3. Unread(argv, n, 1)
            BY <1>2, <2>1, <2>2
        <3>4. \A T \in SUBSET (1..n) : Increasing(argv, T)
            BY <3>3 DEF Increasing, Unread
        <3>5. /\ optind..((optind + 1) - 1) \subseteq 1..n
              /\ 1..(optind - 1) \cup (optind + 1)..((optind + 1) - 1) \subseteq 1..n
            BY <2>1
        <3>6. /\ Increasing(argv, optind..((optind + 1) - 1))
              /\ Increasing(argv, 1..(optind - 1) \cup (optind + 1)..((optind + 1) - 1))
            BY <3>4, <3>5
        <3>7. Unread(argv, n, optind + 1)
            BY <2>1, <3>3 DEF Unread
        <3>8. InProgress'
            BY <2>1, <3>1, <3>2, <3>6, <3>7 DEF InProgress
        <3> QED BY <1>1, <2>1, <3>1, <3>8 DEF OrderInv
    <2>3. CASE nonopt_start # -1 /\ nonopt_end # -1
        <3> DEFINE start == nonopt_start
                   end == nonopt_end
                   m == start + (optind - end)
        <3>1. /\ start \in 1..n /\ end \in 1..n /\ start < end /\ end < optind
              /\ BlockEnd = end
            BY <1>1, <1>2, <2>1, <2>3 DEF BlockEnd
        <3>2. /\ argv' = permute_args(start, end, optind, argv)
              /\ nonopt_start' = m /\ nonopt_end' = -1
            <4>1. /\ argv' = permute_args(start, end, optind, argv)
                  /\ nonopt_start' = optind - (end - start) /\ nonopt_end' = -1
                BY <1>6, <2>3 DEF PassWord, BlockStart
            <4>2. optind - (end - start) = m
                BY <2>1, <3>1
            <4> QED BY <4>1, <4>2
        <3>3. /\ Increasing(argv, start..(end - 1))
              /\ Increasing(argv, 1..(start - 1) \cup end..(optind - 1))
              /\ Unread(argv, n, optind)
            BY <1>2, <2>1, <2>3, <3>1
        <3>4. LET w == permute_args(start, end, optind, argv)
                  mm == start + (optind - end)
              IN  /\ w \in Vectors(n)
                  /\ Unread(w, n, optind)
                  /\ Increasing(w, 1..(mm - 1))
                  /\ Increasing(w, mm..n)
            <4>1. optind \in 1..(n + 1)
                BY <1>1
            <4> HIDE DEF n, start, end
            <4> QED BY <1>1, <4>1, <3>1, <3>3, PermutedOrder
        <3>5. /\ argv' \in Vectors(n) /\ Unread(argv', n, optind)
              /\ Increasing(argv', 1..(m - 1)) /\ Increasing(argv', m..n)
            BY <3>2, <3>4
        <3>6. m \in 1..n /\ m < optind + 1
            BY <2>1, <3>1
        <3> HIDE DEF m, start, end
        <3>7. BlockEnd' = optind + 1
            BY <2>1, <3>2 DEF BlockEnd
        <3>8. /\ Increasing(argv', m..((optind + 1) - 1))
              /\ Increasing(argv', 1..(m - 1) \cup (optind + 1)..((optind + 1) - 1))
              /\ Unread(argv', n, optind + 1)
            <4>1. m..((optind + 1) - 1) \subseteq m..n
                BY <2>1, <3>6
            <4>2. 1..(m - 1) \cup (optind + 1)..((optind + 1) - 1) \subseteq 1..(m - 1)
                BY <2>1
            <4>3. (optind + 1)..n \subseteq optind..n
                BY <2>1
            <4> QED BY <3>5, <4>1, <4>2, <4>3 DEF Increasing, Unread
        <3>9. InProgress'
            <4>1. m # -1
                BY <3>6
            <4> QED BY <2>1, <3>2, <3>7, <3>8, <4>1 DEF InProgress
        <3> QED BY <1>1, <2>1, <3>2, <3>5, <3>9 DEF OrderInv
    <2>4. CASE nonopt_start # -1 /\ nonopt_end = -1
        <3>1. UNCHANGED <<argv, nonopt_start, nonopt_end>>
            BY <1>6, <2>4 DEF PassWord
        <3>2. BlockEnd = optind /\ BlockEnd' = optind + 1
            BY <2>1, <2>4, <3>1 DEF BlockEnd
        <3>3. nonopt_start \in 1..(optind - 1) /\ Unread(argv, n, optind)
            BY <1>1, <1>2, <2>1, <2>4
        <3>4. Increasing(argv, nonopt_start..(optind - 1))
              /\ Increasing(argv, 1..(nonopt_start - 1) \cup optind..(optind - 1))
            BY <1>2, <2>1, <2>4, <3>2
        <3>5. Increasing(argv, nonopt_start..((optind + 1) - 1))
            <4>1. nonopt_start..((optind + 1) - 1) = nonopt_start..(optind - 1) \cup optind..optind
                BY <2>1, <3>3
            <4>2. nonopt_start..(optind - 1) \in SUBSET (1..(optind - 1))
                BY <2>1, <3>3
            <4>3. optind \in optind..n
                BY <2>1
            <4> DEFINE T == nonopt_start..(optind - 1)
            <4>4. Increasing(argv, T \cup optind..optind)
                <5> HIDE DEF T, n
                <5> QED BY <1>1, <2>1, <3>3, <3>4, <4>2, <4>3, IncreasingMore DEF T
            <4> QED BY <4>1, <4>4
        <3>6. Increasing(argv, 1..(nonopt_start - 1) \cup (optind + 1)..((optind + 1) - 1))
            <4>1. 1..(nonopt_start - 1) \cup (optind + 1)..((optind + 1) - 1)
                  \subseteq 1..(nonopt_start - 1) \cup optind..(optind - 1)
                BY <2>1
            <4> QED BY <3>4, <4>1 DEF Increasing
        <3>7. Unread(argv, n, optind + 1)
            BY <2>1, <3>3 DEF Unread
        <3>8. InProgress'
            BY <2>1, <2>4, <3>1, <3>2, <3>5, <3>6, <3>7 DEF InProgress
        <3> QED BY <1>1, <2>1, <3>1, <3>8 DEF OrderInv
    <2> QED BY <2>2, <2>3, <2>4
<1>7. CASE TakeOption
    <2>1. /\ ~done /\ optind < Nargc
          /\ UNCHANGED <<line, argv, posix, nonopt_start, done>>
          /\ nonopt_end' = IF place = EMSG THEN ClosedAt(optind) ELSE nonopt_end
        BY <1>7 DEF TakeOption, IndexInv, IndicesOK
    <2>2. optind' \in optind..(n + 1)
        <3>1. optind' \in 1..(n + 1)
            <4>1. IndexInv'
                BY IndexStep
            <4> QED BY <2>1, <4>1 DEF IndexInv, IndicesOK, Nargc
        <3> DEFINE o == IF place = EMSG THEN Current ELSE place
                   more == optind + 1 < Nargc
        <3>2. optind' = optind + ReadOption(o, more).used
            BY <1>7 DEF TakeOption
        <3>3. more \in BOOLEAN
            OBVIOUS
        <3> HIDE DEF o, more
        <3>4. ReadOption(o, more).used \in Nat
            BY <3>3, OptionUses
        <3> QED BY <1>1, <3>1, <3>2, <3>4
    <2>3. CASE nonopt_start = -1
        <3>1. Unread(argv, n, 1) /\ nonopt_end = -1 /\ nonopt_start' = -1
            BY <1>2, <2>1, <2>3
        <3>2. Unread(argv, n, optind')
            BY <1>1, <2>2, <3>1 DEF Unread
        <3>3. InProgress'
            BY <2>1, <3>1, <3>2 DEF InProgress
        <3> QED BY <1>1, <2>1, <3>3 DEF OrderInv
    <2>4. CASE nonopt_start # -1
        <3>1. /\ nonopt_start \in 1..(optind - 1) /\ Unread(argv, n, optind)
              /\ BlockEnd \in 1..(n + 1) /\ nonopt_start < BlockEnd /\ BlockEnd <= optind
              /\ Increasing(argv, nonopt_start..(BlockEnd - 1))
              /\ Increasing(argv, 1..(nonopt_start - 1) \cup BlockEnd..(optind - 1))
            BY <1>1, <1>2, <2>1, <2>4
        <3>2. nonopt_end' = BlockEnd /\ BlockEnd' = BlockEnd /\ nonopt_end' # -1
            <4>1. nonopt_end' = BlockEnd
                BY <1>2, <2>1, <2>4 DEF BlockEnd, ClosedAt
            <4> QED BY <3>1, <4>1 DEF BlockEnd
        <3> DEFINE T == 1..(nonopt_start - 1) \cup BlockEnd..(optind - 1)
        <3>3. T \in SUBSET (1..(optind - 1))
            BY <1>1, <3>1
        <3>4. Increasing(argv, 1..(nonopt_start - 1) \cup BlockEnd..(optind' - 1))
            <4>1. CASE optind' = optind
                BY <3>1, <4>1
            <4>2. CASE optind' # optind
                <5>1. PICK j \in optind..n : optind' = j + 1
                    <6>1. optind' \in (optind + 1)..(n + 1) /\ n \in Nat /\ optind \in Int
                        BY <1>1, <2>2, <4>2
                    <6>2. \A k \in (optind + 1)..(n + 1) : k - 1 \in optind..n /\ k = (k - 1) + 1
                        BY <6>1
                    <6> QED BY <6>1, <6>2
                <5>2. optind \in 1..n /\ optind' - 1 = j
                    BY <1>1, <2>1, <5>1
                <5>3. 1..(nonopt_start - 1) \cup BlockEnd..j = T \cup optind..j
                    BY <1>1, <3>1, <5>1
                <5>4. Increasing(argv, T \cup optind..j)
                    <6> HIDE DEF T, n
                    <6> QED BY <1>1, <3>1, <3>3, <5>1, <5>2, IncreasingMore DEF T
                <5> QED BY <5>2, <5>3, <5>4
            <4> QED BY <4>1, <4>2
        <3>5. Unread(argv, n, optind')
            BY <1>1, <2>2, <3>1 DEF Unread
        <3>6. InProgress'
            BY <2>1, <3>1, <3>2, <3>4, <3>5 DEF InProgress
        <3> QED BY <1>1, <2>1, <3>6 DEF OrderInv
    <2> QED BY <2>3, <2>4
<1>8. CASE UNCHANGED vars
    BY <1>8 DEF vars, OrderInv, InProgress, BlockEnd
<1> QED BY <1>3, <1>4, <1>5, <1>6, <1>7, <1>8 DEF Next

\* No argument is lost or doubled by the exchanges, and when -1 is returned the
\* options and the operands are each in the order given, whatever the arguments
\* and however many are exchanged.
THEOREM OrderStays == Spec => []OrderIsKept
<1>1. IndexInv /\ OrderInv => OrderIsKept
    <2> SUFFICES ASSUME IndexInv, OrderInv PROVE OrderIsKept
        OBVIOUS
    <2>1. IsInjective(argv)
        BY DEF OrderInv, Vectors, IsInjective
    <2>2. ASSUME done, NEW x \in 1..Len(line), NEW y \in 1..Len(line), x < y,
                 y < optind \/ optind <= x
          PROVE  argv[x] < argv[y]
        <3>1. Increasing(argv, 1..(optind - 1)) /\ Increasing(argv, optind..Len(line))
            BY <2>2 DEF OrderInv
        <3>2. optind \in Int /\ Len(line) \in Int
            BY DEF IndexInv, IndicesOK, LinesAreSequences, Nargc
        <3>3. CASE y < optind
            <4>1. x \in 1..(optind - 1) /\ y \in 1..(optind - 1)
                BY <2>2, <3>3, <3>2
            <4> QED BY <2>2, <3>1, <4>1 DEF Increasing
        <3>4. CASE optind <= x
            <4>1. x \in optind..Len(line) /\ y \in optind..Len(line)
                BY <2>2, <3>4, <3>2
            <4> QED BY <2>2, <3>1, <4>1 DEF Increasing
        <3> QED BY <2>2, <3>3, <3>4
    <2> QED BY <2>1, <2>2 DEF OrderIsKept
<1> QED BY <1>1, IndexInit, IndexStep, OrderInit, OrderStep, PTL DEF Spec

------------------------------------------------------------------------------
\* What the calls return.

\* A long option as LinesAssumption has it, and the entries it may be.
IsLong(l) == l.matches \subseteq DOMAIN Table /\ l.exact \in {0} \cup DOMAIN Table

Candidates(l) == IF l.exact # 0 THEN {l.exact} ELSE l.matches

\* What Match finds is one of the candidates, and all of them have its value.
LEMMA MatchFits ==
    ASSUME NEW l, IsLong(l), Match(l) # 0
    PROVE  /\ Match(l) \in DOMAIN Table
           /\ Match(l) \in Candidates(l)
           /\ \A j \in Candidates(l) : Table[j].val = Table[Match(l)].val
<1>1. CASE l.exact # 0
    BY <1>1 DEF Match, Candidates, IsLong
<1>2. CASE l.exact = 0
    <2> DEFINE first == Min(l.matches)
    <2>1. l.matches # {} /\ Match(l) = first /\ \A j \in l.matches : Identical(j, first)
        BY <1>2 DEF Match
    <2>2. l.matches \in SUBSET Nat
        <3>1. DOMAIN Table \subseteq Nat
            BY TableAssumption
        <3> QED BY <3>1 DEF IsLong
    <2>3. \E x \in l.matches : \A y \in l.matches : x <= y
        BY <2>1, <2>2, LeastNumber
    <2>4. first \in l.matches
        BY <2>3 DEF Min
    <2> HIDE DEF first
    <2> QED BY <1>2, <2>1, <2>4 DEF Candidates, Identical, IsLong
<1> QED BY <1>1, <1>2

\* What a call may return for an option.
Opts == Letters \cup ArgLetters \cup {"0", "?"}

\* The next argument is taken only if there is one.
LEMMA NextNeedsMore ==
    ASSUME NEW o, NEW more \in BOOLEAN
    PROVE  ReadOption(o, more).arg = "next" => more
BY DEF ReadOption, parse_long_options, parse_letter, BadOption, Found

\* What reading an option finds fits it.
LEMMA OptionFits ==
    ASSUME NEW o, NEW more \in BOOLEAN, o.letters = <<>> => IsLong(o.long)
    PROVE  LET r == ReadOption(o, more)
           IN  /\ r.opt \in Opts /\ r.entry \in 0..Len(Table)
               /\ r.arg \in {"none", "attached", "next"}
               /\ r.arg = "next" => more
               /\ r.place # EMSG => r.place = Option(r.place.letters, o.long)
               /\ r.entry # 0 =>
                     /\ o.letters = <<>>
                     /\ r.entry \in Candidates(o.long)
                     /\ \A j \in Candidates(o.long) : Table[j].val = r.opt
                     /\ Table[r.entry].has_arg = "required" <=> r.arg # "none"
<1> DEFINE Fits(r) == /\ r.opt \in Opts /\ r.entry \in 0..Len(Table)
                      /\ r.arg \in {"none", "attached", "next"}
                      /\ r.arg = "next" => more
                      /\ r.place # EMSG => r.place = Option(r.place.letters, o.long)
                      /\ r.entry # 0 =>
                            /\ o.letters = <<>>
                            /\ r.entry \in Candidates(o.long)
                            /\ \A j \in Candidates(o.long) : Table[j].val = r.opt
                            /\ Table[r.entry].has_arg = "required" <=> r.arg # "none"
<1>1. Len(Table) \in Nat /\ DOMAIN Table = 1..Len(Table)
    BY TableAssumption
<1>2. Fits(BadOption(1, EMSG))
    BY <1>1 DEF BadOption, Found, Opts
<1>3. CASE o.letters = <<>>
    <2> DEFINE l == o.long
               m == Match(l)
               takes == m # 0 /\ Table[m].has_arg = "required"
               Entry(arg, used) == Found(Table[m].val, m, arg, used, EMSG)
    <2>1. m # 0 =>
             /\ m \in DOMAIN Table /\ m \in Candidates(l)
             /\ \A j \in Candidates(l) : Table[j].val = Table[m].val
             /\ Table[m].val \in Opts
        <3> SUFFICES ASSUME m # 0
                     PROVE  /\ m \in DOMAIN Table /\ m \in Candidates(l)
                            /\ \A j \in Candidates(l) : Table[j].val = Table[m].val
                            /\ Table[m].val \in Opts
            OBVIOUS
        <3>1. /\ m \in DOMAIN Table /\ m \in Candidates(l)
              /\ \A j \in Candidates(l) : Table[j].val = Table[m].val
            BY <1>3, MatchFits
        <3>2. Table[m].val \in Letters \cup {"0"}
            <4> DEFINE E == [has_arg : {"no", "required"}, val : Letters \cup {"0"}]
            <4> HIDE DEF m, E
            <4>1. Table \in Seq(E)
                BY TableAssumption DEF E
            <4>2. Table[m] \in E
                BY <3>1, <4>1
            <4> QED BY <4>2 DEF E
        <3> QED BY <3>1, <3>2 DEF Opts
    <2> HIDE DEF m, l
    <2>2. CASE takes
        <3>1. /\ Fits(Entry("attached", 1))
              /\ more => Fits(Entry("next", 2))
            BY <1>1, <1>3, <2>1, <2>2 DEF Found, l
        <3> QED BY <1>2, <1>3, <2>2, <3>1 DEF ReadOption, parse_long_options, m, l
    <2>3. CASE ~takes
        <3>1. m # 0 => Fits(Entry("none", 1))
            BY <1>1, <1>3, <2>1, <2>3 DEF Found, l
        <3> QED BY <1>2, <1>3, <2>3, <3>1 DEF ReadOption, parse_long_options, m, l
    <2> QED BY <2>2, <2>3
<1>4. CASE o.letters # <<>>
    <2> DEFINE h == Head(o.letters)
               rest == Option(Tail(o.letters), o.long)
               used == IF rest = EMSG THEN 1 ELSE 0
    <2>1. rest = Option(rest.letters, o.long)
        BY DEF Option
    <2> HIDE DEF rest, h
    <2>2. \A p, u : p \in {EMSG, rest} =>
             /\ Fits(Found("?", 0, "none", u, p))
             /\ h \in Letters \cup ArgLetters =>
                   /\ Fits(Found(h, 0, "none", u, p))
                   /\ Fits(Found(h, 0, "attached", u, p))
                   /\ more => Fits(Found(h, 0, "next", u, p))
        BY <1>1, <2>1 DEF Found, Opts
    <2> HIDE DEF Fits, used
    <2>3. Fits(parse_letter(o, more))
        BY <2>2 DEF parse_letter, BadOption, rest, h, used
    <2> QED BY <1>4, <2>3 DEF ReadOption, Fits
<1> QED BY <1>3, <1>4

\* Every result fits, is from an argument that was read, and what is left of an
\* argument ends as the argument does.
ResultSet == [opt : Opts, entry : 0..Len(Table), from : 1..Len(line), arg : 0..Len(line)]

LongFits(r) ==
    r.entry # 0 =>
        /\ r.entry \in Candidates(line[r.from].long)
        /\ \A j \in Candidates(line[r.from].long) : Table[j].val = r.opt
        /\ Table[r.entry].has_arg = "required" <=> r.arg # 0

LongInv ==
    /\ results \in Seq(ResultSet)
    /\ \A k \in 1..Len(results) : LongFits(results[k])
    /\ ~done /\ place # EMSG =>
          Current.kind = "option" /\ place = Option(place.letters, Current.long)

\* A parser begins with no result.
LEMMA LongInit == Init => LongInv
    BY DEF Init, LongInv

\* What a sequence has at each index when an element is appended.
LEMMA AppendAll ==
    ASSUME NEW S, NEW s \in Seq(S), NEW e \in S
    PROVE  /\ Append(s, e) \in Seq(S) /\ Len(Append(s, e)) = Len(s) + 1
           /\ \A k \in 1..(Len(s) + 1) :
                 Append(s, e)[k] = IF k = Len(s) + 1 THEN e ELSE s[k]
OBVIOUS

\* Every step keeps the results fitting.
LEMMA LongStep == IndexInv /\ OrderInv /\ LongInv /\ [Next]_vars => LongInv'
<1> SUFFICES ASSUME IndexInv, OrderInv, LongInv, [Next]_vars PROVE LongInv'
    OBVIOUS
<1> DEFINE n == Len(line)
<1>1. CASE UNCHANGED <<line, results>> /\ (done' \/ place' = EMSG)
    BY <1>1 DEF LongInv, ResultSet, LongFits
<1>2. CASE EndOfVector \/ StopAtWord \/ StopAtDashes \/ PassWord
    BY <1>1, <1>2 DEF EndOfVector, StopAtWord, StopAtDashes, PassWord, Return, Scan
<1>3. CASE TakeOption
    <2> DEFINE o == IF place = EMSG THEN Current ELSE place
               more == optind + 1 < Nargc
               r == ReadOption(o, more)
               a == IF more THEN argv[optind + 1] ELSE 0
               e == Result(r, argv[optind], a)
    <2>1. /\ ~done
          /\ Current.kind = "option"
          /\ results' = Append(results, e)
          /\ optind' = optind + r.used /\ place' = r.place
          /\ UNCHANGED <<line, argv, posix, done>>
        BY <1>3 DEF TakeOption, LongInv
    <2>2. /\ n \in Nat /\ Nargc = n + 1 /\ optind \in 1..n /\ argv \in [1..n -> 1..n]
          /\ argv[optind] \in 1..n
        BY <1>3 DEF TakeOption, IndexInv, LinesAreSequences, IndicesOK, OrderInv, Vectors, Nargc
    <2>3. o.long = Current.long /\ (o.letters = <<>> => IsLong(o.long))
        <3>1. IsArgument(Current)
            <4>1. line \in Lines
                BY DEF IndexInv, LinesAreSequences
            <4> QED BY <2>2, <4>1, LinesAssumption DEF Current
        <3>2. /\ Current = Option(Current.letters, Current.long) /\ Current # EMSG
              /\ Current.long # NoLong => IsLong(Current.long)
            <4>1. Current # Word /\ Current # DashDash
                BY <2>1 DEF Word, DashDash
            <4> QED BY <3>1, <4>1 DEF IsArgument, IsLong
        <3>3. o # EMSG /\ o = Option(o.letters, Current.long)
            BY <2>1, <3>2 DEF LongInv
        <3> HIDE DEF o, Current
        <3>4. o.long = Current.long /\ (o.letters = <<>> => Current.long # NoLong)
            BY <3>3 DEF Option, EMSG
        <3> QED BY <3>2, <3>4
    <2>4. more \in BOOLEAN
        OBVIOUS
    <2>5. /\ r.opt \in Opts /\ r.entry \in 0..Len(Table)
          /\ r.arg \in {"none", "attached", "next"}
          /\ r.arg = "next" => more
          /\ r.place # EMSG => r.place = Option(r.place.letters, o.long)
          /\ r.entry # 0 =>
                /\ o.letters = <<>>
                /\ r.entry \in Candidates(o.long)
                /\ \A j \in Candidates(o.long) : Table[j].val = r.opt
                /\ Table[r.entry].has_arg = "required" <=> r.arg # "none"
        <3> HIDE DEF o, more
        <3> QED BY <2>3, <2>4, OptionFits
    <2>6. r.used = 0 <=> r.place # EMSG
        <3> HIDE DEF o, more
        <3> QED BY <2>4, OptionUses
    <2>7. r.used \in 0..2
        <3> HIDE DEF o, more
        <3> QED BY <2>4, OptionUses
    <2>8. more => a \in 1..n
        BY <2>2
    <2> HIDE DEF o, more, r, a, e
    <2>9. /\ e.opt = r.opt /\ e.entry = r.entry /\ e.from = argv[optind]
          /\ e.arg = IF r.arg = "next" THEN a ELSE IF r.arg = "attached" THEN argv[optind] ELSE 0
          /\ e \in ResultSet
        <3>1. (IF r.arg = "next" THEN a
               ELSE IF r.arg = "attached" THEN argv[optind] ELSE 0) \in 0..n
            BY <2>2, <2>5, <2>8
        <3> QED BY <2>2, <2>5, <3>1 DEF e, Result, ResultSet
    <2>10. LongFits(e)
        <3> SUFFICES ASSUME e.entry # 0 PROVE LongFits(e)
            BY DEF LongFits
        <3>1. line[e.from].long = o.long
            BY <2>3, <2>9 DEF Current
        <3>2. e.arg # 0 <=> r.arg # "none"
            BY <2>2, <2>5, <2>8, <2>9
        <3> QED BY <2>5, <2>9, <3>1, <3>2 DEF LongFits
    <2>11. results' \in Seq(ResultSet) /\ \A k \in 1..Len(results') : LongFits(results'[k])
        <3>1. results \in Seq(ResultSet) /\ \A k \in 1..Len(results) : LongFits(results[k])
            BY DEF LongInv
        <3> DEFINE S == ResultSet
        <3>2. /\ Append(results, e) \in Seq(S) /\ Len(Append(results, e)) = Len(results) + 1
              /\ \A k \in 1..(Len(results) + 1) :
                    Append(results, e)[k] = IF k = Len(results) + 1 THEN e ELSE results[k]
            <4> HIDE DEF S
            <4> QED BY <2>9, <3>1, AppendAll DEF S
        <3>3. Len(results) \in Nat
            BY <3>1
        <3>4. \A k \in 1..(Len(results) + 1) : k = Len(results) + 1 \/ k \in 1..Len(results)
            BY <3>3
        <3> QED BY <2>1, <2>10, <3>1, <3>2, <3>4
    <2>12. place' # EMSG =>
               Current'.kind = "option" /\ place' = Option(place'.letters, Current'.long)
        <3> SUFFICES ASSUME place' # EMSG
                     PROVE  Current'.kind = "option"
                            /\ place' = Option(place'.letters, Current'.long)
            OBVIOUS
        <3>1. r.used = 0 /\ optind' = optind
            BY <2>1, <2>2, <2>6
        <3>2. Current' = Current
            BY <2>1, <3>1 DEF Current
        <3> QED BY <2>1, <2>3, <2>5, <3>2
    <2>13. ResultSet' = ResultSet /\ \A x : LongFits(x)' <=> LongFits(x)
        BY <2>1 DEF ResultSet, LongFits
    <2> QED BY <2>11, <2>12, <2>13 DEF LongInv, LongFits
<1>4. CASE UNCHANGED vars
    BY <1>4 DEF vars, LongInv, LongFits, ResultSet, Current
<1> QED BY <1>2, <1>3, <1>4 DEF Next

\* A long option is returned as an entry that it names or abbreviates, with an
\* argument if and only if the entry takes one, for every table and command line.
THEOREM LongOptionsStayFit == Spec => []LongOptionsFit
<1>1. LongInv => LongOptionsFit
    BY DEF LongInv, LongOptionsFit, LongFits, Candidates
<1> QED BY <1>1, IndexInit, IndexStep, OrderInit, OrderStep, LongInit, LongStep, PTL DEF Spec

\* The state keeps its types, for every table and command line.
THEOREM TypeStays == Spec => []TypeOK
<1>1. IndexInv /\ OrderInv /\ LongInv => TypeOK
    BY DEF OrderInv, IndexInv, LinesAreSequences, IndicesOK, TypeOK, Vectors, LongInv,
           ResultSet, Opts
<1> QED BY <1>1, IndexInit, IndexStep, OrderInit, OrderStep, LongInit, LongStep, PTL DEF Spec

------------------------------------------------------------------------------
\* Parts of sequences.

\* Parts of two sequences that agree are equal.
LEMMA SameParts ==
    ASSUME NEW S, NEW v, NEW w, NEW a \in Int, NEW b \in Int, NEW c \in Int, NEW d \in Int,
           b - a = d - c,
           \A x \in a..b : v[x] \in S /\ w[x + (c - a)] = v[x]
    PROVE  SubSeq(v, a, b) = SubSeq(w, c, d)
<1> DEFINE s == SubSeq(v, a, b)
           t == SubSeq(w, c, d)
<1>1. \A x \in c..d : w[x] \in S
    <2> SUFFICES ASSUME NEW x \in c..d PROVE w[x] \in S
        OBVIOUS
    <2> DEFINE y == x - (c - a)
    <2>1. y \in a..b /\ y + (c - a) = x
        OBVIOUS
    <2> HIDE DEF y
    <2> QED BY <2>1
<1>2. /\ s \in Seq(S) /\ Len(s) = IF a <= b THEN b - a + 1 ELSE 0
      /\ \A i \in 1..(b - a + 1) : s[i] = v[a + i - 1]
    BY SubSeqProperties
<1>3. /\ t \in Seq(S) /\ Len(t) = IF c <= d THEN d - c + 1 ELSE 0
      /\ \A i \in 1..(d - c + 1) : t[i] = w[c + i - 1]
    BY <1>1, SubSeqProperties
<1> HIDE DEF s, t
<1>4. ASSUME NEW i \in 1..Len(s) PROVE s[i] = t[i]
    <2>1. i \in 1..(b - a + 1) /\ i \in 1..(d - c + 1)
        BY <1>2
    <2> DEFINE x == a + i - 1
    <2>2. x \in a..b /\ x + (c - a) = c + i - 1
        BY <2>1
    <2>3. s[i] = v[x] /\ t[i] = w[c + i - 1]
        BY <1>2, <1>3, <2>1
    <2> HIDE DEF x
    <2> QED BY <2>2, <2>3
<1>5. Len(s) = Len(t)
    BY <1>2, <1>3
<1>6. s = t
    BY <1>2, <1>3, <1>4, <1>5, SeqEqual
<1> QED BY <1>6 DEF s, t

\* Two parts that meet make one.
LEMMA JoinedParts ==
    ASSUME NEW S, NEW v, NEW a \in Int, NEW b \in Int, NEW c \in Int, a <= b + 1, b <= c,
           \A x \in a..c : v[x] \in S
    PROVE  SubSeq(v, a, c) = SubSeq(v, a, b) \o SubSeq(v, b + 1, c)
<1> DEFINE s == SubSeq(v, a, b)
           t == SubSeq(v, b + 1, c)
           u == SubSeq(v, a, c)
<1>1. /\ s \in Seq(S) /\ Len(s) = b - a + 1
      /\ \A i \in 1..(b - a + 1) : s[i] = v[a + i - 1]
    <2>1. \A x \in a..b : v[x] \in S
        OBVIOUS
    <2>2. /\ s \in Seq(S) /\ Len(s) = IF a <= b THEN b - a + 1 ELSE 0
          /\ \A i \in 1..(b - a + 1) : s[i] = v[a + i - 1]
        BY <2>1, SubSeqProperties
    <2> QED BY <2>2
<1>2. /\ t \in Seq(S) /\ Len(t) = c - b
      /\ \A i \in 1..(c - b) : t[i] = v[b + i]
    <2>1. \A x \in (b + 1)..c : v[x] \in S
        OBVIOUS
    <2>2. /\ t \in Seq(S) /\ Len(t) = IF b + 1 <= c THEN c - (b + 1) + 1 ELSE 0
          /\ \A i \in 1..(c - (b + 1) + 1) : t[i] = v[(b + 1) + i - 1]
        <3> DEFINE d == b + 1
        <3>1. d \in Int
            OBVIOUS
        <3> HIDE DEF d
        <3> QED BY <2>1, <3>1, SubSeqProperties DEF d
    <2>3. c - (b + 1) + 1 = c - b /\ \A i \in 1..(c - b) : (b + 1) + i - 1 = b + i
        OBVIOUS
    <2> HIDE DEF t
    <2> QED BY <2>2, <2>3
<1>3. /\ u \in Seq(S) /\ Len(u) = c - a + 1
      /\ \A i \in 1..(c - a + 1) : u[i] = v[a + i - 1]
    <2>1. /\ u \in Seq(S) /\ Len(u) = IF a <= c THEN c - a + 1 ELSE 0
          /\ \A i \in 1..(c - a + 1) : u[i] = v[a + i - 1]
        BY SubSeqProperties
    <2> QED BY <2>1
<1> HIDE DEF s, t, u
<1>4. /\ s \o t \in Seq(S)
      /\ Len(s \o t) = Len(s) + Len(t)
      /\ \A i \in 1..(Len(s) + Len(t)) :
            (s \o t)[i] = IF i <= Len(s) THEN s[i] ELSE t[i - Len(s)]
    BY <1>1, <1>2, ConcatProperties
<1>5. ASSUME NEW i \in 1..Len(u) PROVE u[i] = (s \o t)[i]
    <2>1. i \in 1..(c - a + 1)
        BY <1>3
    <2>2. CASE i <= Len(s)
        BY <1>1, <1>2, <1>3, <1>4, <2>1, <2>2
    <2>3. CASE i > Len(s)
        <3>1. i - Len(s) \in 1..(c - b) /\ b + (i - Len(s)) = a + i - 1
            BY <1>1, <2>1, <2>3
        <3>2. (s \o t)[i] = t[i - Len(s)]
            BY <1>1, <1>2, <1>4, <2>1, <2>3
        <3> QED BY <1>2, <1>3, <2>1, <3>1, <3>2
    <2>4. i <= Len(s) \/ i > Len(s)
        BY <1>1, <2>1
    <2> QED BY <2>2, <2>3, <2>4
<1>6. Len(u) = Len(s \o t)
    BY <1>1, <1>2, <1>3, <1>4
<1>7. u = s \o t
    BY <1>3, <1>4, <1>5, <1>6, SeqEqual
<1> QED BY <1>7 DEF s, t, u

\* A part with the element behind it.
LEMMA LongerPart ==
    ASSUME NEW S, NEW v, NEW a \in Int, NEW b \in Int, a <= b + 1,
           \A x \in a..(b + 1) : v[x] \in S
    PROVE  SubSeq(v, a, b + 1) = Append(SubSeq(v, a, b), v[b + 1])
<1> DEFINE s == SubSeq(v, a, b)
           t == SubSeq(v, b + 1, b + 1)
<1>1. SubSeq(v, a, b + 1) = s \o t
    <2>1. b + 1 \in Int /\ b <= b + 1
        OBVIOUS
    <2> QED BY <2>1, JoinedParts
<1>2. t \in Seq(S) /\ Len(t) = 1 /\ t[1] = v[b + 1]
    <2> DEFINE d == b + 1
    <2>1. \A x \in d..d : v[x] \in S
        OBVIOUS
    <2>2. d \in Int
        OBVIOUS
    <2> HIDE DEF d
    <2>3. /\ SubSeq(v, d, d) \in Seq(S) /\ Len(SubSeq(v, d, d)) = IF d <= d THEN d - d + 1 ELSE 0
          /\ \A i \in 1..(d - d + 1) : SubSeq(v, d, d)[i] = v[d + i - 1]
        BY <2>1, <2>2, SubSeqProperties
    <2>4. d - d + 1 = 1 /\ d + 1 - 1 = d /\ d <= d
        BY <2>2
    <2> QED BY <2>3, <2>4 DEF d
<1>3. s \in Seq(S)
    <2>1. \A x \in a..b : v[x] \in S
        OBVIOUS
    <2> QED BY <2>1, SubSeqProperties
<1> HIDE DEF s, t
<1>4. t = <<v[b + 1]>>
    BY <1>2
<1>5. s \o <<v[b + 1]>> = Append(s, v[b + 1])
    <2>1. v[b + 1] \in S
        OBVIOUS
    <2> QED BY <1>3, <2>1, AppendIsConcat
<1> QED BY <1>1, <1>4, <1>5 DEF s

------------------------------------------------------------------------------
\* The parser reads a stream.

\* What the specification of the stream reads in an argument is what the parser does.
LEMMA SameReading ==
    /\ Stream!EMSG = EMSG /\ Stream!Word = Word /\ Stream!DashDash = DashDash
    /\ \A o, more : Stream!ReadOption(o, more) = ReadOption(o, more)
    /\ \A r, k, a : Stream!Result(r, k, a) = Result(r, k, a)
<1>1. \A letters, long : Stream!Option(letters, long) = Option(letters, long)
    BY DEF Stream!Option, Option
<1>2. Stream!EMSG = EMSG /\ Stream!Word = Word /\ Stream!DashDash = DashDash
    BY <1>1 DEF Stream!EMSG, EMSG, Stream!Word, Word, Stream!DashDash, DashDash
<1>3. \A o, e, a, u, p : Stream!Found(o, e, a, u, p) = Found(o, e, a, u, p)
    BY DEF Stream!Found, Found
<1>4. \A u, p : Stream!BadOption(u, p) = BadOption(u, p)
    BY <1>3 DEF Stream!BadOption, BadOption
<1>5. \A l : Stream!Match(l) = Match(l)
    BY DEF Stream!Match, Match, Stream!Identical, Identical, Stream!Min, Min
<1>6. \A l, more : Stream!parse_long_options(l, more) = parse_long_options(l, more)
    BY <1>2, <1>3, <1>4, <1>5 DEF Stream!parse_long_options, parse_long_options
<1>7. \A o, more : Stream!parse_letter(o, more) = parse_letter(o, more)
    BY <1>1, <1>2, <1>3, <1>4 DEF Stream!parse_letter, parse_letter
<1>8. \A o, more : Stream!ReadOption(o, more) = ReadOption(o, more)
    BY <1>6, <1>7 DEF Stream!ReadOption, ReadOption
<1>9. \A r, k, a : Stream!Result(r, k, a) = Result(r, k, a)
    BY DEF Stream!Result, Result
<1> QED BY <1>2, <1>8, <1>9

\* All that the steps need of the invariants, for the n arguments of line.
LEMMA StreamFacts ==
    ASSUME IndexInv, OrderInv, ~done
    PROVE  /\ Len(line) \in Nat /\ Nargc = Len(line) + 1
           /\ argv \in Vectors(Len(line)) /\ argv \in [1..Len(line) -> 1..Len(line)]
           /\ optind \in 1..(Len(line) + 1)
           /\ nonopt_start \in 1..Len(line) \cup {-1} /\ nonopt_end \in 1..Len(line) \cup {-1}
           /\ place # EMSG => optind <= Len(line)
           /\ Unread(argv, Len(line), optind)
           /\ posix => nonopt_start = -1
           /\ nonopt_start = -1 => nonopt_end = -1
           /\ nonopt_start # -1 =>
                 /\ BlockEnd \in 1..(Len(line) + 1)
                 /\ nonopt_start < BlockEnd /\ BlockEnd <= optind
                 /\ place # EMSG => nonopt_end # -1
                 /\ place = EMSG /\ nonopt_end # -1 => nonopt_end < optind
BY DEF IndexInv, LinesAreSequences, IndicesOK, BlocksInOrder, OrderInv, InProgress, BlockEnd,
       Nargc, Vectors

\* The operands while options are read.
LEMMA SkippedIs ==
    ASSUME ~done
    PROVE  Skipped = IF nonopt_start = -1 THEN <<>> ELSE SubSeq(argv, nonopt_start, BlockEnd - 1)
BY DEF Skipped, BlockEnd

\* What is read last is the rest of a vector of which nothing has moved.
LEMMA FromIs ==
    ASSUME NEW n \in Nat, n = Len(line), NEW v \in [1..n -> 1..n], NEW k \in 1..(n + 1),
           Unread(v, n, k)
    PROVE  Stream!From(k) = SubSeq(v, k, n)
<1> DEFINE s == Stream!From(k)
           t == SubSeq(v, k, n)
<1>1. /\ t \in Seq(1..n) /\ Len(t) = n + 1 - k
      /\ \A i \in 1..(n + 1 - k) : t[i] = k + i - 1
    <2>1. \A x \in k..n : v[x] \in 1..n
        OBVIOUS
    <2>2. /\ t \in Seq(1..n) /\ Len(t) = IF k <= n THEN n - k + 1 ELSE 0
          /\ \A i \in 1..(n - k + 1) : t[i] = v[k + i - 1]
        <3> DEFINE S == 1..n
        <3> HIDE DEF S
        <3> QED BY <2>1, SubSeqProperties DEF S
    <2> HIDE DEF t
    <2>3. \A i \in 1..(n - k + 1) : k + i - 1 \in k..n
        OBVIOUS
    <2>4. n - k + 1 = n + 1 - k
        OBVIOUS
    <2> QED BY <2>2, <2>3, <2>4 DEF Unread
<1>2. s = [i \in 1..(n + 1 - k) |-> k + i - 1]
    BY DEF Stream!From
<1>3. s \in Seq(1..n) /\ Len(s) = n + 1 - k
    <2>1. n + 1 - k \in Nat /\ \A i \in 1..(n + 1 - k) : k + i - 1 \in 1..n
        OBVIOUS
    <2> HIDE DEF s
    <2> QED BY <1>2, <2>1
<1>4. \A i \in 1..Len(s) : s[i] = t[i]
    BY <1>1, <1>2, <1>3
<1> HIDE DEF s, t
<1>5. s = t
    <2> DEFINE S == 1..n
    <2> HIDE DEF S
    <2> QED BY <1>1, <1>3, <1>4, SeqEqual DEF S
<1> QED BY <1>5 DEF s, t

\* A call that returns -1 puts everything from k on behind the operands.
LEMMA ReturnFinishes ==
    ASSUME IndexInv, OrderInv, ~done, place = EMSG,
           NEW k \in 1..Nargc, NEW end \in 1..Len(line) \cup {-1},
           k \in {optind, optind + 1},
           end # -1 => nonopt_start # -1 /\ nonopt_start < end /\ end < k /\ end = BlockEnd,
           end = -1 => nonopt_start = -1 \/ (nonopt_end = -1 /\ k = optind /\ k = Nargc),
           Return(k, end)
    PROVE  Stream!Finish(k)
<1> DEFINE n == Len(line)
           S == 1..n
<1>1. /\ n \in Nat /\ Nargc = n + 1
      /\ argv \in Vectors(n) /\ argv \in [S -> S]
      /\ optind \in 1..(n + 1) /\ nonopt_start \in 1..n \cup {-1}
      /\ nonopt_start # -1 => nonopt_start < optind
      /\ Unread(argv, n, optind)
    BY StreamFacts DEF IndexInv, BlocksInOrder
<1>2. /\ done' = TRUE /\ UNCHANGED <<line, posix, place, results>>
    BY DEF Return
<1>3. Unread(argv, n, k)
    BY <1>1 DEF Unread
<1>4. Skipped' = SubSeq(argv', optind', n)
    BY <1>2 DEF Skipped
<1>5. Stream!From(k) = SubSeq(argv, k, n)
    <2> HIDE DEF n
    <2>1. k \in 1..(n + 1) /\ n = Len(line) /\ argv \in [1..n -> 1..n]
        BY <1>1 DEF n
    <2> QED BY <1>1, <1>3, <2>1, FromIs
<1>6. Skipped' = Skipped \o Stream!From(k)
    <2>1. CASE end # -1
        <3> DEFINE start == nonopt_start
                   m == start + (k - end)
                   w == permute_args(start, end, k, argv)
        <3>1. /\ start \in 1..n /\ end \in 1..n /\ k \in 1..(n + 1) /\ start < end /\ end < k
              /\ BlockEnd = end
            BY <1>1, <2>1
        <3>2. argv' = w /\ optind' = m
            <4>1. argv' = w /\ optind' = k - (end - start)
                BY <2>1 DEF Return
            <4>2. k - (end - start) = m
                BY <3>1
            <4> QED BY <4>1, <4>2
        <3>3. /\ w \in Vectors(n)
              /\ \A x \in m..(k - 1) : w[x] = argv[x - (k - end)]
              /\ \A x \in k..n : w[x] = argv[x]
            <4>1. LET ww == permute_args(start, end, k, argv)
                      mm == start + (k - end)
                  IN  /\ ww \in Vectors(n)
                      /\ \A x \in 1..(start - 1) : ww[x] = argv[x]
                      /\ \A x \in start..(mm - 1) : ww[x] = argv[x + (end - start)]
                      /\ \A x \in mm..(k - 1) : ww[x] = argv[x - (k - end)]
                      /\ \A x \in k..n : ww[x] = argv[x]
                <5> HIDE DEF n, start
                <5> QED BY <1>1, <3>1, PermutedIs
            <4> QED BY <4>1
        <3> HIDE DEF w
        <3>4. Skipped = SubSeq(argv, start, end - 1)
            BY <3>1, SkippedIs
        <3>5. \A x \in S : w[x] \in S
            BY <3>3 DEF Vectors
        <3>6. SubSeq(w, m, n) = SubSeq(w, m, k - 1) \o SubSeq(w, k, n)
            <4> DEFINE b == k - 1
            <4>1. m \in Int /\ b \in Int /\ n \in Int /\ m <= b + 1 /\ b <= n /\ b + 1 = k
                BY <1>1, <3>1
            <4>2. \A x \in m..n : w[x] \in S
                BY <1>1, <3>1, <3>5
            <4> HIDE DEF b, m, n, S
            <4>3. SubSeq(w, m, n) = SubSeq(w, m, b) \o SubSeq(w, b + 1, n)
                BY <4>1, <4>2, JoinedParts
            <4> QED BY <4>1, <4>3 DEF b
        <3>7. SubSeq(argv, start, end - 1) = SubSeq(w, m, k - 1)
            <4> DEFINE b == end - 1
                       d == k - 1
            <4>1. start \in Int /\ b \in Int /\ m \in Int /\ d \in Int /\ b - start = d - m
                BY <3>1
            <4>2. \A x \in start..b : argv[x] \in S /\ w[x + (m - start)] = argv[x]
                <5> SUFFICES ASSUME NEW x \in start..b
                             PROVE  argv[x] \in S /\ w[x + (m - start)] = argv[x]
                    OBVIOUS
                <5> DEFINE y == x + (m - start)
                <5>1. x \in S /\ y \in m..(k - 1) /\ y - (k - end) = x
                    BY <3>1
                <5> HIDE DEF y, m, S, n, b
                <5> QED BY <1>1, <3>3, <5>1 DEF y
            <4> HIDE DEF b, d, m, S, start
            <4>3. SubSeq(argv, start, b) = SubSeq(w, m, d)
                BY <4>1, <4>2, SameParts
            <4> QED BY <4>3 DEF b, d
        <3>8. SubSeq(argv, k, n) = SubSeq(w, k, n)
            <4>1. k \in Int /\ n \in Int /\ n - k = n - k
                BY <1>1, <3>1
            <4>2. \A x \in k..n : argv[x] \in S /\ w[x + (k - k)] = argv[x]
                BY <1>1, <3>1, <3>3
            <4> HIDE DEF n, S
            <4> QED BY <4>1, <4>2, SameParts
        <3> QED BY <1>4, <1>5, <3>2, <3>4, <3>6, <3>7, <3>8
    <2>2. CASE end = -1 /\ nonopt_start = -1
        <3>1. argv' = argv /\ optind' = k
            BY <2>2 DEF Return
        <3>2. Skipped = <<>>
            BY <2>2, SkippedIs
        <3>3. SubSeq(argv, k, n) \in Seq(S)
            <4>1. k \in Int /\ n \in Int /\ \A x \in k..n : argv[x] \in S
                BY <1>1
            <4> HIDE DEF n, S
            <4> QED BY <4>1, SubSeqProperties
        <3>4. <<>> \o SubSeq(argv, k, n) = SubSeq(argv, k, n)
            BY <3>3, ConcatEmptySeq
        <3> QED BY <1>4, <1>5, <3>1, <3>2, <3>4
    <2>3. CASE end = -1 /\ nonopt_start # -1
        <3>1. argv' = argv /\ optind' = nonopt_start /\ optind = n + 1 /\ k = n + 1
              /\ nonopt_end = -1
            BY <1>1, <2>3 DEF Return
        <3>2. Skipped = SubSeq(argv, nonopt_start, n)
            <4>1. BlockEnd - 1 = n
                BY <1>1, <3>1 DEF BlockEnd
            <4> QED BY <2>3, <4>1, SkippedIs
        <3>3. SubSeq(argv, k, n) = <<>>
            <4>1. k \in Int /\ n \in Int /\ n < k
                BY <1>1, <3>1
            <4> HIDE DEF n
            <4> QED BY <4>1, SubSeqEmpty
        <3>4. Skipped \in Seq(S)
            <4>1. nonopt_start \in Int /\ n \in Int /\ \A x \in nonopt_start..n : argv[x] \in S
                BY <1>1, <2>3
            <4> HIDE DEF n, S
            <4> QED BY <3>2, <4>1, SubSeqProperties
        <3>5. Skipped \o <<>> = Skipped
            <4> HIDE DEF S
            <4> QED BY <3>4, ConcatEmptySeq
        <3> QED BY <1>4, <1>5, <3>1, <3>2, <3>3, <3>5
    <2> QED BY <2>1, <2>2, <2>3
<1> QED BY <1>2, <1>6 DEF Stream!Finish

\* A parser begins as the stream does.
LEMMA StreamInit == Init => Stream!SInit
BY SameReading DEF Init, Stream!SInit, Skipped

\* Every step is one of the stream, or leaves what the stream has as it is.
LEMMA StreamStep == IndexInv /\ OrderInv /\ [Next]_vars => [Stream!SNext]_(Stream!svars)
<1> SUFFICES ASSUME IndexInv, OrderInv, [Next]_vars PROVE [Stream!SNext]_(Stream!svars)
    OBVIOUS
<1> DEFINE n == Len(line)
           S == 1..n
           next == IF done THEN Nargc ELSE optind
<1>1. CASE EndOfVector
    <2>1. ~done /\ place = EMSG /\ optind >= Nargc /\ Return(optind, nonopt_end)
        BY <1>1 DEF EndOfVector, Scan
    <2>2. n \in Nat /\ Nargc = n + 1 /\ optind = n + 1
        BY <2>1, StreamFacts
    <2>3. Stream!Finish(optind)
        <3>1. optind \in 1..Nargc /\ nonopt_end \in 1..Len(line) \cup {-1}
            BY <2>1, <2>2, StreamFacts
        <3>2. nonopt_end # -1 => nonopt_start # -1 /\ nonopt_start < nonopt_end
                                 /\ nonopt_end < optind /\ nonopt_end = BlockEnd
            BY <2>1, StreamFacts DEF BlockEnd
        <3> QED BY <2>1, <2>2, <3>1, <3>2, ReturnFinishes
    <2>4. next = optind /\ next > Len(line)
        BY <2>1, <2>2
    <2>5. done' = TRUE /\ line' = line
        BY <2>1 DEF Return
    <2>6. next' = Len(line) + 1
        BY <2>2, <2>5 DEF Nargc
    <2> QED BY <2>1, <2>3, <2>4, <2>6, SameReading DEF Stream!SNext, Stream!SEnd, Stream!Fresh
<1>2. CASE StopAtDashes
    <2> DEFINE k == optind + 1
               end == ClosedAt(optind)
    <2>1. ~done /\ place = EMSG /\ optind < Nargc /\ Current = DashDash /\ Return(k, end)
        BY <1>2 DEF StopAtDashes, Scan
    <2>2. n \in Nat /\ Nargc = n + 1 /\ optind \in 1..n /\ argv[optind] = optind
        BY <2>1, StreamFacts DEF Unread
    <2>3. Stream!Finish(k)
        <3>1. k \in 1..Nargc /\ k \in {optind, optind + 1}
            BY <2>2
        <3>2. end \in 1..Len(line) \cup {-1}
            BY <2>1, <2>2, StreamFacts DEF ClosedAt
        <3>3. end # -1 => nonopt_start # -1 /\ nonopt_start < end /\ end < k /\ end = BlockEnd
            <4>1. /\ nonopt_start = -1 => nonopt_end = -1
                  /\ nonopt_start # -1 => nonopt_start < BlockEnd
                  /\ nonopt_end # -1 => nonopt_end < optind
                  /\ nonopt_start \in Int /\ nonopt_end \in Int /\ optind \in Int
                BY <2>1, <2>2, StreamFacts
            <4> HIDE DEF n, S, next
            <4>2. CASE nonopt_start # -1 /\ nonopt_end = -1
                BY <4>1, <4>2 DEF BlockEnd, ClosedAt
            <4>3. CASE nonopt_start # -1 /\ nonopt_end # -1
                BY <4>1, <4>3 DEF BlockEnd, ClosedAt
            <4>4. CASE nonopt_start = -1
                BY <4>1, <4>4 DEF ClosedAt
            <4> QED BY <4>2, <4>3, <4>4
        <3>4. end = -1 => nonopt_start = -1
            BY <2>2 DEF ClosedAt
        <3> HIDE DEF k, end
        <3> QED BY <2>1, <3>1, <3>2, <3>3, <3>4, ReturnFinishes
    <2>4. next = optind /\ next <= Len(line) /\ line[next] = DashDash
        BY <2>1, <2>2 DEF Current
    <2>5. done' = TRUE /\ line' = line
        BY <2>1 DEF Return
    <2>6. next' = Len(line) + 1
        BY <2>2, <2>5 DEF Nargc
    <2> QED BY <2>1, <2>3, <2>4, <2>6, SameReading DEF Stream!SNext, Stream!SEnd, Stream!Fresh
<1>3. CASE StopAtWord
    <2>1. /\ ~done /\ place = EMSG /\ optind < Nargc /\ Current = Word /\ posix
          /\ done' = TRUE
          /\ UNCHANGED <<line, argv, posix, optind, place, nonopt_start, nonopt_end, results>>
        BY <1>3 DEF StopAtWord, Scan
    <2>2. n \in Nat /\ Nargc = n + 1 /\ optind \in 1..n /\ argv[optind] = optind
          /\ argv \in [S -> S] /\ nonopt_start = -1 /\ Unread(argv, n, optind)
        BY <2>1, StreamFacts DEF Unread
    <2>3. Skipped = <<>> /\ Skipped' = SubSeq(argv, optind, n)
        BY <2>1, <2>2 DEF Skipped
    <2>4. Stream!From(optind) = SubSeq(argv, optind, n)
        <3>1. optind \in 1..(n + 1) /\ n = Len(line)
            BY <2>2
        <3> HIDE DEF n
        <3> QED BY <2>2, <3>1, FromIs
    <2>5. <<>> \o SubSeq(argv, optind, n) = SubSeq(argv, optind, n)
        <3>1. optind \in Int /\ n \in Int /\ \A x \in optind..n : argv[x] \in S
            BY <2>2
        <3>2. SubSeq(argv, optind, n) \in Seq(S)
            <4> HIDE DEF n, S
            <4> QED BY <3>1, SubSeqProperties
        <3> QED BY <3>2, ConcatEmptySeq
    <2>6. Stream!Finish(optind)
        BY <2>1, <2>3, <2>4, <2>5 DEF Stream!Finish
    <2>7. next = optind /\ next <= Len(line) /\ line[next] = Word /\ next' = Len(line) + 1
        BY <2>1, <2>2 DEF Current, Nargc
    <2> QED BY <2>1, <2>6, <2>7, SameReading DEF Stream!SNext, Stream!SEnd, Stream!Fresh
<1>4. CASE PassWord
    <2>1. /\ ~done /\ place = EMSG /\ optind < Nargc /\ Current = Word /\ ~posix
          /\ optind' = optind + 1 /\ done' = done
          /\ UNCHANGED <<line, posix, place, results>>
        BY <1>4 DEF PassWord, Scan, AfterWord
    <2>2. n \in Nat /\ Nargc = n + 1 /\ optind \in 1..n /\ argv[optind] = optind
          /\ argv \in [S -> S] /\ Unread(argv, n, optind)
        BY <2>1, StreamFacts DEF Unread
    <2>3. Skipped' = IF nonopt_start' = -1 THEN <<>>
                     ELSE SubSeq(argv', nonopt_start', BlockEnd' - 1)
        BY <2>1 DEF Skipped, BlockEnd
    <2>4. Skipped' = Append(Skipped, optind)
        <3>1. CASE nonopt_start = -1
            <4>1. nonopt_start' = optind /\ argv' = argv /\ nonopt_end' = -1
                BY <1>4, <2>1, <3>1, StreamFacts DEF PassWord
            <4>2. Skipped' = SubSeq(argv, optind, (optind - 1) + 1)
                BY <2>1, <2>2, <2>3, <4>1 DEF BlockEnd
            <4>3. SubSeq(argv, optind, (optind - 1) + 1)
                  = Append(SubSeq(argv, optind, optind - 1), argv[(optind - 1) + 1])
                <5> DEFINE b == optind - 1
                <5>1. optind \in Int /\ b \in Int /\ optind <= b + 1
                      /\ \A x \in optind..(b + 1) : argv[x] \in S
                    BY <2>2
                <5> HIDE DEF b, S
                <5> QED BY <5>1, LongerPart DEF b
            <4>4. SubSeq(argv, optind, optind - 1) = <<>>
                <5> DEFINE b == optind - 1
                <5>1. optind \in Int /\ b \in Int /\ b < optind
                    BY <2>2
                <5> HIDE DEF b
                <5> QED BY <5>1, SubSeqEmpty DEF b
            <4>5. Skipped = <<>> /\ (optind - 1) + 1 = optind
                BY <2>1, <2>2, <3>1, SkippedIs
            <4> QED BY <2>2, <4>2, <4>3, <4>4, <4>5
        <3>2. CASE nonopt_start # -1 /\ nonopt_end # -1
            <4> DEFINE start == nonopt_start
                       end == nonopt_end
                       m == start + (optind - end)
                       w == permute_args(start, end, optind, argv)
            <4>1. /\ start \in 1..n /\ end \in 1..n /\ start < end /\ end < optind
                  /\ BlockEnd = end /\ argv \in Vectors(n)
                BY <2>1, <2>2, <3>2, StreamFacts DEF BlockEnd
            <4>2. argv' = w /\ nonopt_start' = m /\ nonopt_end' = -1
                <5>1. argv' = w /\ nonopt_start' = optind - (end - start) /\ nonopt_end' = -1
                    BY <1>4, <3>2 DEF PassWord, BlockStart
                <5>2. optind - (end - start) = m
                    BY <2>2, <4>1
                <5> QED BY <5>1, <5>2
            <4>3. /\ w \in Vectors(n)
                  /\ \A x \in m..(optind - 1) : w[x] = argv[x - (optind - end)]
                  /\ \A x \in optind..n : w[x] = argv[x]
                <5>1. LET ww == permute_args(start, end, optind, argv)
                          mm == start + (optind - end)
                      IN  /\ ww \in Vectors(n)
                          /\ \A x \in 1..(start - 1) : ww[x] = argv[x]
                          /\ \A x \in start..(mm - 1) : ww[x] = argv[x + (end - start)]
                          /\ \A x \in mm..(optind - 1) : ww[x] = argv[x - (optind - end)]
                          /\ \A x \in optind..n : ww[x] = argv[x]
                    <6>1. optind \in 1..(n + 1)
                        BY <2>2
                    <6> HIDE DEF n, start, end
                    <6> QED BY <2>2, <4>1, <6>1, PermutedIs
                <5> QED BY <5>1
            <4> HIDE DEF w
            <4>4. w[optind] = optind /\ \A x \in m..optind : w[x] \in S
                <5>1. m..optind \subseteq S /\ optind \in optind..n
                    BY <2>2, <4>1
                <5>2. \A x \in S : w[x] \in S
                    BY <4>3 DEF Vectors
                <5> HIDE DEF m, n, S
                <5> QED BY <2>2, <4>3, <5>1, <5>2
            <4>5. Skipped = SubSeq(argv, start, end - 1)
                BY <2>1, <4>1, SkippedIs
            <4>6. SubSeq(argv, start, end - 1) = SubSeq(w, m, optind - 1)
                <5> DEFINE b == end - 1
                           d == optind - 1
                <5>1. start \in Int /\ b \in Int /\ m \in Int /\ d \in Int /\ b - start = d - m
                    BY <2>2, <4>1
                <5>2. \A x \in start..b : argv[x] \in S /\ w[x + (m - start)] = argv[x]
                    <6> SUFFICES ASSUME NEW x \in start..b
                                 PROVE  argv[x] \in S /\ w[x + (m - start)] = argv[x]
                        OBVIOUS
                    <6> DEFINE y == x + (m - start)
                    <6>1. x \in S /\ y \in m..(optind - 1) /\ y - (optind - end) = x
                        BY <2>2, <4>1
                    <6> HIDE DEF y, m, S, n, b
                    <6> QED BY <2>2, <4>3, <6>1 DEF y
                <5> HIDE DEF b, d, m, S, start
                <5>3. SubSeq(argv, start, b) = SubSeq(w, m, d)
                    BY <5>1, <5>2, SameParts
                <5> QED BY <5>3 DEF b, d
            <4>7. SubSeq(w, m, (optind - 1) + 1)
                  = Append(SubSeq(w, m, optind - 1), w[(optind - 1) + 1])
                <5> DEFINE b == optind - 1
                <5>1. m \in Int /\ b \in Int /\ m <= b + 1 /\ b + 1 = optind
                    BY <2>2, <4>1
                <5>2. \A x \in m..(b + 1) : w[x] \in S
                    <6> HIDE DEF m, S, b
                    <6> QED BY <4>4, <5>1
                <5> HIDE DEF b, S, m
                <5> QED BY <5>1, <5>2, LongerPart DEF b
            <4>8. Skipped' = SubSeq(w, m, (optind - 1) + 1) /\ (optind - 1) + 1 = optind
                <5>1. m # -1 /\ BlockEnd' = optind + 1 /\ (optind + 1) - 1 = (optind - 1) + 1
                      /\ (optind - 1) + 1 = optind
                    BY <2>1, <2>2, <4>1, <4>2 DEF BlockEnd
                <5> HIDE DEF m
                <5> QED BY <2>3, <4>2, <5>1
            <4> QED BY <4>4, <4>5, <4>6, <4>7, <4>8
        <3>3. CASE nonopt_start # -1 /\ nonopt_end = -1
            <4>1. UNCHANGED <<argv, nonopt_start, nonopt_end>>
                BY <1>4, <3>3 DEF PassWord
            <4>2. BlockEnd = optind /\ BlockEnd' = optind + 1 /\ nonopt_start \in 1..(optind - 1)
                BY <2>1, <2>2, <3>3, <4>1, StreamFacts DEF BlockEnd
            <4>3. Skipped' = SubSeq(argv, nonopt_start, (optind - 1) + 1)
                BY <2>2, <2>3, <3>3, <4>1, <4>2
            <4>4. Skipped = SubSeq(argv, nonopt_start, optind - 1)
                BY <2>1, <3>3, <4>2, SkippedIs
            <4>5. SubSeq(argv, nonopt_start, (optind - 1) + 1)
                  = Append(SubSeq(argv, nonopt_start, optind - 1), argv[(optind - 1) + 1])
                <5> DEFINE b == optind - 1
                <5>1. nonopt_start \in Int /\ b \in Int /\ nonopt_start <= b + 1
                      /\ \A x \in nonopt_start..(b + 1) : argv[x] \in S
                    BY <2>2, <4>2
                <5> HIDE DEF b, S
                <5> QED BY <5>1, LongerPart DEF b
            <4>6. (optind - 1) + 1 = optind
                BY <2>2
            <4> QED BY <2>2, <4>3, <4>4, <4>5, <4>6
        <3> QED BY <3>1, <3>2, <3>3
    <2>5. /\ next = optind /\ next <= Len(line) /\ line[next] = Word /\ next' = next + 1
        BY <2>1, <2>2 DEF Current
    <2> QED BY <2>1, <2>4, <2>5, SameReading DEF Stream!SNext, Stream!SWord, Stream!Fresh
<1>5. CASE TakeOption
    <2> DEFINE more == optind + 1 < Nargc
               r == ReadOption(IF place = EMSG THEN Current ELSE place, more)
               a == IF more THEN argv[optind + 1] ELSE 0
    <2>1. /\ ~done /\ done' = done
          /\ place = EMSG => optind < Nargc /\ Current.kind = "option"
          /\ nonopt_end' = IF place = EMSG THEN ClosedAt(optind) ELSE nonopt_end
          /\ results' = Append(results, Result(r, argv[optind], a))
          /\ optind' = optind + r.used /\ place' = r.place
          /\ UNCHANGED <<line, argv, posix, nonopt_start>>
        BY <1>5 DEF TakeOption
    <2>2. n \in Nat /\ Nargc = n + 1 /\ optind \in 1..n /\ Current = line[optind]
          /\ argv[optind] = optind
          /\ (more <=> optind < Len(line))
          /\ (more => a = optind + 1)
        BY <2>1, StreamFacts DEF Unread, Current
    <2>3. r.arg = "next" => more
        <3> DEFINE o == IF place = EMSG THEN Current ELSE place
        <3>1. more \in BOOLEAN
            OBVIOUS
        <3> HIDE DEF o, more
        <3>2. ReadOption(o, more).arg = "next" => more
            BY <3>1, NextNeedsMore
        <3> QED BY <3>2 DEF o
    <2>4. Result(r, argv[optind], a) = Result(r, optind, optind + 1)
        <3> HIDE DEF r, more, a
        <3> QED BY <2>2, <2>3 DEF Result
    <2>5. Skipped' = Skipped
        <3>1. CASE nonopt_start = -1
            BY <2>1, <3>1 DEF Skipped
        <3>2. CASE nonopt_start # -1
            <4>1. BlockEnd' = BlockEnd
                BY <2>1, <2>2, <3>2, StreamFacts DEF BlockEnd, ClosedAt
            <4>2. Skipped = SubSeq(argv, nonopt_start, BlockEnd - 1)
                BY <2>1, <3>2, SkippedIs
            <4>3. Skipped' = SubSeq(argv', nonopt_start', BlockEnd' - 1)
                BY <2>1, <3>2 DEF Skipped, BlockEnd
            <4> QED BY <2>1, <4>1, <4>2, <4>3
        <3> QED BY <3>1, <3>2
    <2>6. /\ next = optind /\ next' = next + r.used
          /\ place = EMSG => next <= Len(line) /\ line[next].kind = "option"
          /\ r = ReadOption(IF place = EMSG THEN line[next] ELSE place, next < Len(line))
        BY <2>1, <2>2
    <2>7. Stream!SOption
        <3> DEFINE q == Stream!ReadOption(IF place = Stream!EMSG THEN line[next] ELSE place,
                                          next < Len(line))
        <3>1. q = r
            BY <2>6, SameReading
        <3> HIDE DEF q, r
        <3>2. /\ results' = Append(results, Stream!Result(q, next, next + 1))
              /\ next' = next + q.used /\ place' = q.place
            BY <2>1, <2>4, <2>6, <3>1, SameReading
        <3> QED BY <2>1, <2>5, <2>6, <3>2, SameReading DEF Stream!SOption, q
    <2> QED BY <2>7 DEF Stream!SNext
<1>6. CASE UNCHANGED vars
    BY <1>6 DEF vars, Stream!svars, Skipped, Nargc
<1> QED BY <1>1, <1>2, <1>3, <1>4, <1>5, <1>6 DEF Next

\* The permuting parser does, step by step, what a parser does that reads the
\* arguments once and in order and keeps its operands apart.
THEOREM ParserReadsStream == Spec => Stream!SInit /\ [][Stream!SNext]_(Stream!svars)
BY IndexInit, IndexStep, OrderInit, OrderStep, StreamInit, StreamStep, PTL DEF Spec
==============================================================================
