--------------------------- MODULE EntityPosProofs ---------------------------
(***************************************************************************)
(* Theorems of EntityPos, for texts of any length and every int: the text  *)
(* of a number is read as that number, and the text of a position is       *)
(* parsed to that position where its ip and id have no underscore, and     *)
(* nowhere else.                                                           *)
(*                                                                         *)
(* The recursive definitions, Digits and Number, are proved to exist and   *)
(* to obey their equations; what would be an induction over them is the    *)
(* least number at which they fail.                                        *)
(***************************************************************************)
EXTENDS EntityPos, WellFoundedInduction, TLAPS

LEMMA LeastNumber ==
  ASSUME NEW S \in SUBSET Nat, S # {}
  PROVE  \E m \in S : \A n \in S : m <= n
<1>1. \E m \in S : \A n \in S : ~ (<<n, m>> \in OpToRel(<, Nat))
  BY NatLessThanWellFounded, WFMin
<1>2. \E m \in S : \A n \in S : ~ (n < m)
  BY <1>1 DEF OpToRel
<1> QED
  BY <1>2

-----------------------------------------------------------------------------
(* The number that digits make.                                            *)

\* A function that sums up the figures of F, up to the k-th.
SumsUpTo(f, k, F) == f = [n \in 0..k |-> IF n = 0 THEN 0 ELSE 10 * f[n - 1] + F[n]]

LEMMA SumExtends ==
  ASSUME NEW k \in Nat, NEW F, NEW f, SumsUpTo(f, k, F)
  PROVE  \E g : SumsUpTo(g, k + 1, F)
<1> DEFINE g == [n \in 0..(k + 1) |-> IF n = k + 1 THEN 10 * f[k] + F[n] ELSE f[n]]
<1>1. \A n \in 0..k : n \in 0..(k + 1) /\ n # k + 1 /\ g[n] = f[n]
  OBVIOUS
<1>2. \A n \in 0..k : f[n] = IF n = 0 THEN 0 ELSE 10 * f[n - 1] + F[n]
  BY Zenon DEF SumsUpTo
<1>3. \A n \in 0..(k + 1) : g[n] = IF n = 0 THEN 0 ELSE 10 * g[n - 1] + F[n]
  <2> SUFFICES ASSUME NEW n \in 0..(k + 1)
               PROVE  g[n] = IF n = 0 THEN 0 ELSE 10 * g[n - 1] + F[n]
    OBVIOUS
  <2>1. CASE n = k + 1
    <3>1. n # 0 /\ n - 1 = k /\ k \in 0..k /\ g[n] = 10 * f[k] + F[n]
      BY <2>1
    <3>2. g[k] = f[k]
      BY <1>1, <3>1
    <3> HIDE DEF g
    <3> QED
      BY <3>1, <3>2
  <2>2. CASE n # k + 1
    <3>1. n \in 0..k /\ (n # 0 => n - 1 \in 0..k)
      BY <2>2
    <3>2. g[n] = f[n] /\ (n # 0 => g[n - 1] = f[n - 1])
      BY <1>1, <3>1
    <3> HIDE DEF g
    <3> QED
      BY <3>1, <3>2, <1>2
  <2> QED
    BY <2>1, <2>2
<1>4. g = [n \in 0..(k + 1) |-> g[n]]
  OBVIOUS
<1>5. g = [n \in 0..(k + 1) |-> IF n = 0 THEN 0 ELSE 10 * g[n - 1] + F[n]]
  <2> HIDE DEF g
  <2> QED
    BY <1>3, <1>4, Zenon
<1> QED
  BY <1>5, Zenon DEF SumsUpTo

LEMMA SumExists ==
  ASSUME NEW k \in Nat, NEW F
  PROVE  \E f : SumsUpTo(f, k, F)
<1> DEFINE None == {n \in Nat : ~ \E f : SumsUpTo(f, n, F)}
<1>1. None = {}
  <2> SUFFICES ASSUME None # {}
               PROVE  FALSE
    OBVIOUS
  <2>1. PICK m \in None : \A n \in None : m <= n
    <3>1. None \in SUBSET Nat
      OBVIOUS
    <3> HIDE DEF None
    <3> QED
      BY <3>1, LeastNumber
  <2>2. CASE m = 0
    <3> DEFINE z == [n \in 0..0 |-> 0]
    <3>1. z = [n \in 0..0 |-> IF n = 0 THEN 0 ELSE 10 * z[n - 1] + F[n]]
      OBVIOUS
    <3>2. SumsUpTo(z, 0, F)
      BY <3>1 DEF SumsUpTo
    <3> QED
      BY <3>2, <2>2, <2>1
  <2>3. CASE m # 0
    <3>1. m - 1 \in Nat /\ ~(m <= m - 1) /\ (m - 1) + 1 = m
      BY <2>3
    <3>2. PICK f : SumsUpTo(f, m - 1, F)
      BY <3>1, <2>1
    <3>3. \E g : SumsUpTo(g, m, F)
      BY <3>1, <3>2, SumExtends, Zenon
    <3> QED
      BY <3>3, <2>1
  <2> QED
    BY <2>2, <2>3
<1> QED
  BY <1>1

Agree(F, G, k) == \A n \in 1..k : F[n] = G[n]

\* Two sums of the same figures agree.
LEMMA SumIsOne ==
  ASSUME NEW j \in Nat, NEW k \in Nat, j <= k, NEW F, NEW G,
         Agree(F, G, j), NEW f, SumsUpTo(f, j, F), NEW g, SumsUpTo(g, k, G)
  PROVE  f[j] = g[j]
<1> DEFINE Differ == {n \in 0..j : f[n] # g[n]}
<1>1. /\ \A n \in 0..j : f[n] = IF n = 0 THEN 0 ELSE 10 * f[n - 1] + F[n]
      /\ \A n \in 0..k : g[n] = IF n = 0 THEN 0 ELSE 10 * g[n - 1] + G[n]
  BY Zenon DEF SumsUpTo
<1>2. Differ = {}
  <2> SUFFICES ASSUME Differ # {}
               PROVE  FALSE
    OBVIOUS
  <2>1. PICK m \in Differ : \A n \in Differ : m <= n
    <3>1. Differ \in SUBSET Nat
      OBVIOUS
    <3> HIDE DEF Differ
    <3> QED
      BY <3>1, LeastNumber
  <2>2. m \in 0..j /\ m \in 0..k /\ f[m] # g[m]
    OBVIOUS
  <2>3. m # 0
    BY <1>1, <2>2
  <2>4. m \in 1..j /\ m - 1 \in 0..j /\ ~(m <= m - 1)
    BY <2>2, <2>3
  <2>5. f[m - 1] = g[m - 1]
    BY <2>1, <2>4
  <2>6. F[m] = G[m]
    BY <2>4 DEF Agree
  <2> HIDE DEF Differ
  <2> QED
    BY <1>1, <2>2, <2>3, <2>5, <2>6
<1> QED
  BY <1>2

\* The figures of a text.
Figures(text) == [n \in 1..Len(text) |-> Figure(text[n])]

LEMMA NumberIsSum ==
  ASSUME NEW S, NEW text \in Seq(S)
  PROVE  \E f : SumsUpTo(f, Len(text), Figures(text)) /\ Number(text) = f[Len(text)]
<1> DEFINE Upto == CHOOSE f : f = [n \in 0..Len(text) |->
                                     IF n = 0 THEN 0 ELSE 10 * f[n - 1] + Figure(text[n])]
<1>1. Len(text) \in Nat
  OBVIOUS
<1>2. PICK f : SumsUpTo(f, Len(text), Figures(text))
  BY <1>1, SumExists
<1>3. \A f1 : SumsUpTo(f1, Len(text), Figures(text)) <=>
         f1 = [n \in 0..Len(text) |-> IF n = 0 THEN 0 ELSE 10 * f1[n - 1] + Figure(text[n])]
  <2> SUFFICES ASSUME NEW f1
               PROVE  [n \in 0..Len(text) |->
                         IF n = 0 THEN 0 ELSE 10 * f1[n - 1] + Figures(text)[n]]
                    = [n \in 0..Len(text) |->
                         IF n = 0 THEN 0 ELSE 10 * f1[n - 1] + Figure(text[n])]
    BY Zenon DEF SumsUpTo
  <2>1. \A n \in 0..Len(text) : n # 0 => Figures(text)[n] = Figure(text[n])
    BY <1>1 DEF Figures
  <2> QED
    BY <2>1
<1>4. SumsUpTo(Upto, Len(text), Figures(text))
  BY <1>2, <1>3
<1>5. Number(text) = Upto[Len(text)]
  BY DEF Number
<1> QED
  BY <1>4, <1>5

LEMMA NumberOfOne ==
  ASSUME NEW S, NEW c \in S
  PROVE  Number(<<c>>) = 10 * 0 + Figure(c)
<1>1. <<c>> \in Seq(S) /\ Len(<<c>>) = 1 /\ Figures(<<c>>)[1] = Figure(c)
  BY DEF Figures
<1>2. PICK f : SumsUpTo(f, 1, Figures(<<c>>)) /\ Number(<<c>>) = f[1]
  BY <1>1, NumberIsSum
<1>3. f[1] = 10 * f[0] + Figures(<<c>>)[1] /\ f[0] = 0
  BY <1>2 DEF SumsUpTo
<1> QED
  BY <1>1, <1>2, <1>3

LEMMA NumberOfAppend ==
  ASSUME NEW S, NEW text \in Seq(S), NEW c \in S
  PROVE  Number(Append(text, c)) = 10 * Number(text) + Figure(c)
<1>1. PICK more : more = Append(text, c)
  OBVIOUS
<1>2. PICK k \in Nat : k = Len(text)
  OBVIOUS
<1>3. PICK l \in Nat : l = k + 1
  OBVIOUS
<1>4. /\ more \in Seq(S) /\ Len(more) = l
      /\ \A n \in 1..k : Figures(text)[n] = Figures(more)[n]
      /\ Figures(more)[l] = Figure(c)
  BY <1>1, <1>2, <1>3 DEF Figures
<1>5. PICK f : SumsUpTo(f, k, Figures(text)) /\ Number(text) = f[k]
  BY <1>2, NumberIsSum
<1>6. PICK g : SumsUpTo(g, l, Figures(more)) /\ Number(more) = g[l]
  BY <1>4, NumberIsSum
<1>7. f[k] = g[k]
  <2>1. k <= l
    BY <1>3
  <2>2. Agree(Figures(text), Figures(more), k)
    BY <1>4 DEF Agree
  <2> QED
    BY <1>5, <1>6, <2>1, <2>2, SumIsOne
<1>8. g[l] = 10 * g[k] + Figures(more)[l]
  BY <1>3, <1>6 DEF SumsUpTo
<1> QED
  BY <1>1, <1>4, <1>5, <1>6, <1>7, <1>8

-----------------------------------------------------------------------------
(* The digits of a number.                                                 *)

\* f writes the numbers up to k as Digits does.
Writes(f, k) ==
  f = [n \in 0..k |-> IF n < 10 THEN <<Digit[n + 1]>>
                      ELSE Append(f[n \div 10], Digit[(n % 10) + 1])]

LEMMA Tenth ==
  \A n \in Nat : /\ n = 10 * (n \div 10) + (n % 10) /\ n % 10 \in 0..9
                 /\ n >= 10 => n \div 10 \in 1..(n - 1)
<1>1. \A n \in Nat : n = 10 * (n \div 10) + (n % 10)
  OBVIOUS
<1>2. \A n \in Nat : n % 10 \in 0..9 /\ n \div 10 \in Int
  OBVIOUS
<1> QED
  BY <1>1, <1>2

LEMMA WritesAre ==
  ASSUME NEW k \in Nat, NEW f, Writes(f, k), NEW n \in 0..k
  PROVE  /\ n < 10 => f[n] = <<Digit[n + 1]>>
         /\ n >= 10 => f[n] = Append(f[n \div 10], Digit[(n % 10) + 1])
<1>1. f[n] = IF n < 10 THEN <<Digit[n + 1]>>
             ELSE Append(f[n \div 10], Digit[(n % 10) + 1])
  BY Zenon DEF Writes
<1> QED
  BY <1>1

\* Two ways of writing agree.
LEMMA WritingIsOne ==
  ASSUME NEW j \in Nat, NEW k \in Nat, NEW f, NEW g, Writes(f, j), Writes(g, k),
         NEW i \in Nat, i <= j, i <= k
  PROVE  f[i] = g[i]
<1> DEFINE Differ == {n \in Nat : n <= j /\ n <= k /\ f[n] # g[n]}
<1>1. Differ = {}
  <2> SUFFICES ASSUME Differ # {}
               PROVE  FALSE
    OBVIOUS
  <2>1. PICK m \in Differ : \A n \in Differ : m <= n
    <3>1. Differ \in SUBSET Nat
      OBVIOUS
    <3> HIDE DEF Differ
    <3> QED
      BY <3>1, LeastNumber
  <2>2. m \in 0..j /\ m \in 0..k /\ m \in Nat /\ f[m] # g[m]
    OBVIOUS
  <2>3. m >= 10
    <3>1. m < 10 => f[m] = <<Digit[m + 1]>> /\ g[m] = <<Digit[m + 1]>>
      BY <2>2, WritesAre
    <3> QED
      BY <2>2, <3>1
  <2>4. m \div 10 \in 0..(m - 1)
    BY <2>2, <2>3, Tenth
  <2>5. PICK n \in Nat : n = m \div 10
    BY <2>4
  <2>6. f[n] = g[n]
    BY <2>1, <2>2, <2>4, <2>5
  <2>7. /\ f[m] = Append(f[n], Digit[(m % 10) + 1])
        /\ g[m] = Append(g[n], Digit[(m % 10) + 1])
    <3>1. f[m] = Append(f[m \div 10], Digit[(m % 10) + 1])
      BY <2>2, <2>3, WritesAre
    <3>2. g[m] = Append(g[m \div 10], Digit[(m % 10) + 1])
      BY <2>2, <2>3, WritesAre
    <3> QED
      BY <2>5, <3>1, <3>2, Zenon
  <2> QED
    BY <2>2, <2>6, <2>7
<1> QED
  BY <1>1

LEMMA WritingExtends ==
  ASSUME NEW k \in Nat, NEW f, Writes(f, k)
  PROVE  \E g : Writes(g, k + 1)
<1> DEFINE Text(h, n) == IF n < 10 THEN <<Digit[n + 1]>>
                         ELSE Append(h[n \div 10], Digit[(n % 10) + 1])
           g == [n \in 0..(k + 1) |-> IF n = k + 1 THEN Text(f, n) ELSE f[n]]
<1>1. \A n \in 0..k : n \in 0..(k + 1) /\ g[n] = f[n] /\ f[n] = Text(f, n)
  <2>1. \A n \in 0..k : f[n] = Text(f, n)
    BY Zenon DEF Writes
  <2> HIDE DEF Text
  <2> QED
    BY <2>1
<1>2. k + 1 \in 0..(k + 1) /\ g[k + 1] = Text(f, k + 1)
  <2> HIDE DEF Text
  <2> QED
    OBVIOUS
<1>3. g = [n \in 0..(k + 1) |-> g[n]]
  <2> HIDE DEF Text
  <2> QED
    OBVIOUS
<1> HIDE DEF g
<1>4. \A n \in 0..(k + 1) : Text(f, n) = Text(g, n)
  <2> TAKE n \in 0..(k + 1)
  <2>1. n >= 10 => n \div 10 \in 0..k
    BY Tenth
  <2>2. n >= 10 => f[n \div 10] = g[n \div 10]
    BY <1>1, <2>1
  <2> QED
    BY <2>2
<1>5. \A n \in 0..(k + 1) : g[n] = Text(g, n)
  <2>1. \A n \in 0..(k + 1) : n = k + 1 \/ n \in 0..k
    OBVIOUS
  <2> HIDE DEF Text
  <2> QED
    BY <1>1, <1>2, <1>4, <2>1
<1>6. g = [n \in 0..(k + 1) |-> Text(g, n)]
  <2> HIDE DEF Text
  <2> QED
    BY <1>3, <1>5, Zenon
<1> QED
  BY <1>6, Zenon DEF Writes

LEMMA WritingExists ==
  ASSUME NEW k \in Nat
  PROVE  \E f : Writes(f, k)
<1> DEFINE None == {n \in Nat : ~ \E f : Writes(f, n)}
<1>1. None = {}
  <2> SUFFICES ASSUME None # {}
               PROVE  FALSE
    OBVIOUS
  <2>1. PICK m \in None : \A n \in None : m <= n
    <3>1. None \in SUBSET Nat
      OBVIOUS
    <3> HIDE DEF None
    <3> QED
      BY <3>1, LeastNumber
  <2>2. CASE m = 0
    <3> DEFINE z == [n \in 0..0 |-> <<Digit[n + 1]>>]
    <3>1. \A n \in 0..0 : <<Digit[n + 1]>> = IF n < 10 THEN <<Digit[n + 1]>>
                                 ELSE Append(z[n \div 10], Digit[(n % 10) + 1])
      OBVIOUS
    <3>2. Writes(z, 0)
      BY <3>1, Zenon DEF Writes
    <3> QED
      BY <3>2, <2>2, <2>1
  <2>3. CASE m # 0
    <3>1. m - 1 \in Nat /\ ~(m <= m - 1) /\ (m - 1) + 1 = m
      BY <2>3
    <3>2. PICK f : Writes(f, m - 1)
      BY <3>1, <2>1
    <3>3. \E g : Writes(g, m)
      BY <3>1, <3>2, WritingExtends, Zenon
    <3> QED
      BY <3>3, <2>1
  <2> QED
    BY <2>2, <2>3
<1> QED
  BY <1>1

\* Digits obeys its definition.
LEMMA DigitsAre ==
  ASSUME NEW n \in Nat
  PROVE  /\ n < 10 => Digits[n] = <<Digit[n + 1]>>
         /\ n >= 10 => Digits[n] = Append(Digits[n \div 10], Digit[(n % 10) + 1])
<1> DEFINE Text(h, k) == IF k < 10 THEN <<Digit[k + 1]>>
                         ELSE Append(h[k \div 10], Digit[(k % 10) + 1])
           upto(k) == CHOOSE f : Writes(f, k)
           all == [k \in Nat |-> upto(k)[k]]
<1>1. \A k \in Nat : Writes(upto(k), k)
  <2> TAKE k \in Nat
  <2>1. \E f : Writes(f, k)
    BY WritingExists
  <2> QED
    BY <2>1, Zenon
<1>2. \A k \in Nat : all[k] = upto(k)[k]
  OBVIOUS
<1> HIDE DEF upto, all
<1>3. \A k \in Nat : all[k] = Text(all, k)
  <2> TAKE k \in Nat
  <2>1. k \in 0..k /\ Writes(upto(k), k)
    BY <1>1
  <2>2. CASE k < 10
    BY <1>2, <2>1, <2>2, WritesAre
  <2>3. CASE k >= 10
    <3>1. PICK m \in Nat : m = k \div 10
      BY <2>3, Tenth
    <3>2. m <= k /\ m <= m
      BY <2>3, <3>1, Tenth
    <3>3. upto(k)[m] = upto(m)[m]
      BY <1>1, <3>2, WritingIsOne
    <3>4. upto(k)[k] = Append(upto(k)[m], Digit[(k % 10) + 1])
      BY <2>1, <2>3, <3>1, WritesAre
    <3>5. all[k] = Append(all[m], Digit[(k % 10) + 1])
      BY <1>2, <3>3, <3>4
    <3> QED
      BY <2>3, <3>1, <3>5
  <2> QED
    BY <2>2, <2>3
<1>4. all = [k \in Nat |-> Text(all, k)]
  <2>1. all = [k \in Nat |-> all[k]]
    BY DEF all
  <2> HIDE DEF Text
  <2> QED
    BY <1>3, <2>1, Zenon
<1>5. Digits = [k \in Nat |-> Text(Digits, k)]
  BY <1>4, Zenon DEF Digits
<1>6. Digits[n] = Text(Digits, n)
  <2> HIDE DEF Text
  <2> QED
    BY <1>5, Zenon
<1> QED
  BY <1>6

-----------------------------------------------------------------------------
(* What to_string writes, stoi reads.                                      *)

LEMMA DigitsAreApart ==
  /\ Len(Digit) = 10
  /\ \A i, j \in 1..10 : Digit[i] = Digit[j] => i = j
  /\ \A i \in 1..10 : Digit[i] \in ToSet(Digit)
  /\ \A c \in ToSet(Digit) : c \notin {" ", "+", "-", "_", ""}
<1>1. Len(Digit) = 10 /\ DOMAIN Digit = 1..10
  BY DEF Digit
<1>2. /\ Digit[1] = "0" /\ Digit[2] = "1" /\ Digit[3] = "2" /\ Digit[4] = "3"
      /\ Digit[5] = "4" /\ Digit[6] = "5" /\ Digit[7] = "6" /\ Digit[8] = "7"
      /\ Digit[9] = "8" /\ Digit[10] = "9"
  BY DEF Digit
<1>3. \A i \in 1..10 : i = 1 \/ i = 2 \/ i = 3 \/ i = 4 \/ i = 5 \/ i = 6 \/ i = 7
                       \/ i = 8 \/ i = 9 \/ i = 10
  OBVIOUS
<1>4. \A i, j \in 1..10 : Digit[i] = Digit[j] => i = j
  BY <1>2, <1>3
<1>5. \A i \in 1..10 : Digit[i] \notin {" ", "+", "-", "_", ""}
  BY <1>2, <1>3
<1>6. ToSet(Digit) = {Digit[i] : i \in 1..10}
  BY <1>1, Zenon DEF ToSet
<1> QED
  BY <1>1, <1>4, <1>5, <1>6

LEMMA FigureOfDigit ==
  ASSUME NEW d \in 0..9
  PROVE  /\ Figure(Digit[d + 1]) = d
         /\ Digit[d + 1] \in ToSet(Digit)
<1>1. d + 1 \in 1..10
  OBVIOUS
<1>2. \A e \in 0..9 : Digit[e + 1] = Digit[d + 1] <=> e = d
  <2> TAKE e \in 0..9
  <2>1. e + 1 \in 1..10 /\ (e + 1 = d + 1 <=> e = d)
    OBVIOUS
  <2> QED
    BY <1>1, <2>1, DigitsAreApart
<1>3. Figure(Digit[d + 1]) = d
  BY <1>2 DEF Figure
<1> QED
  BY <1>1, <1>3, DigitsAreApart

\* A text that is written in digits and read as n.
Stands(text, n) ==
  /\ text \in Seq(ToSet(Digit)) /\ Len(text) >= 1
  /\ Number(text) = n

LEMMA OneDigitStands ==
  ASSUME NEW d \in 0..9
  PROVE  Stands(<<Digit[d + 1]>>, d)
<1> DEFINE c == Digit[d + 1]
           S == ToSet(Digit)
<1>1. c \in S /\ Figure(c) = d
  BY FigureOfDigit
<1> HIDE DEF c, S
<1>2. Number(<<c>>) = 10 * 0 + Figure(c)
  BY <1>1, NumberOfOne
<1>3. <<c>> \in Seq(S) /\ Len(<<c>>) >= 1
  BY <1>1
<1>4. Number(<<c>>) = d
  BY <1>1, <1>2
<1> QED
  BY <1>3, <1>4 DEF Stands, c, S

LEMMA MoreDigitsStand ==
  ASSUME NEW text, NEW n \in Nat, Stands(text, n), NEW d \in 0..9
  PROVE  Stands(Append(text, Digit[d + 1]), 10 * n + d)
<1> DEFINE c == Digit[d + 1]
           S == ToSet(Digit)
<1>1. c \in S /\ Figure(c) = d
  BY FigureOfDigit
<1>2. text \in Seq(S) /\ Len(text) >= 1 /\ Number(text) = n
  BY DEF Stands
<1> HIDE DEF c, S
<1>3. Number(Append(text, c)) = 10 * Number(text) + Figure(c)
  BY <1>1, <1>2, NumberOfAppend
<1>4. Append(text, c) \in Seq(S) /\ Len(Append(text, c)) >= 1
  BY <1>1, <1>2
<1>5. Number(Append(text, c)) = 10 * n + d
  BY <1>1, <1>2, <1>3
<1> QED
  BY <1>4, <1>5 DEF Stands, c, S

LEMMA DigitsStand ==
  ASSUME NEW n \in Nat
  PROVE  Stands(Digits[n], n)
<1> DEFINE Fail == {k \in Nat : ~Stands(Digits[k], k)}
<1>1. Fail = {}
  <2> SUFFICES ASSUME Fail # {}
               PROVE  FALSE
    OBVIOUS
  <2>1. PICK m \in Fail : \A k \in Fail : m <= k
    <3>1. Fail \in SUBSET Nat
      OBVIOUS
    <3> HIDE DEF Fail
    <3> QED
      BY <3>1, LeastNumber
  <2>2. m \in Nat /\ ~Stands(Digits[m], m)
    OBVIOUS
  <2>3. CASE m < 10
    <3>1. m \in 0..9 /\ Digits[m] = <<Digit[m + 1]>>
      BY <2>2, <2>3, DigitsAre
    <3> QED
      BY <2>2, <3>1, OneDigitStands
  <2>4. CASE m >= 10
    <3>1. PICK k \in Nat : k = m \div 10
      BY <2>2, <2>4, Tenth
    <3>2. PICK d \in 0..9 : d = m % 10
      BY <2>2, Tenth
    <3>3. k < m /\ m = 10 * k + d
      BY <2>2, <2>4, <3>1, <3>2, Tenth
    <3>4. Stands(Digits[k], k)
      BY <2>1, <2>2, <3>3
    <3>5. Stands(Append(Digits[k], Digit[d + 1]), 10 * k + d)
      BY <3>4, MoreDigitsStand
    <3>6. Digits[m] = Append(Digits[k], Digit[d + 1])
      BY <2>2, <2>4, <3>1, <3>2, DigitsAre
    <3> QED
      BY <2>2, <3>3, <3>5, <3>6
  <2> QED
    BY <2>2, <2>3, <2>4
<1> QED
  BY <1>1

LEMMA LeadingIs ==
  ASSUME NEW T, NEW text \in Seq(T), NEW S, NEW k \in 0..Len(text),
         \A i \in 1..k : text[i] \in S,
         k < Len(text) => text[k + 1] \notin S
  PROVE  Leading(text, S) = k
<1> DEFINE Fit == {n \in 0..Len(text) : \A i \in 1..n : text[i] \in S}
<1>1. k \in Fit /\ Len(text) \in Nat
  OBVIOUS
<1>2. \A n \in Fit : n <= k
  <2> SUFFICES ASSUME NEW n \in 0..Len(text), \A i \in 1..n : text[i] \in S, n > k
               PROVE  FALSE
    OBVIOUS
  <2>1. k < Len(text) /\ k + 1 \in 1..n
    OBVIOUS
  <2> QED
    BY <2>1
<1>3. \A x \in Fit : x \in Int
  OBVIOUS
<1> HIDE DEF Fit
<1>4. \A x \in Fit : (\A y \in Fit : x >= y) => x = k
  <2> TAKE x \in Fit
  <2> HAVE \A y \in Fit : x >= y
  <2>1. x >= k /\ x <= k /\ x \in Int /\ k \in Int
    BY <1>1, <1>2, <1>3
  <2> QED
    BY <2>1
<1>5. \A y \in Fit : k >= y
  BY <1>1, <1>2, <1>3
<1>6. (CHOOSE x \in Fit : \A y \in Fit : x >= y) = k
  BY <1>1, <1>4, <1>5
<1> QED
  BY <1>6 DEF Leading, Max, Fit

\* Of a text in digits, stoi leaves nothing out.
LEMMA AllAreDigits ==
  ASSUME NEW text, NEW n, Stands(text, n)
  PROVE  /\ Leading(text, ToSet(Digit)) = Len(text)
         /\ SubSeq(text, 1, Len(text)) = text
         /\ Len(text) \in Nat /\ Len(text) > 0
<1> DEFINE S == ToSet(Digit)
<1>1. text \in Seq(S) /\ Len(text) >= 1
  BY DEF Stands
<1> HIDE DEF S
<1>2. Len(text) \in 0..Len(text) /\ \A i \in 1..Len(text) : text[i] \in S
  BY <1>1
<1>3. Leading(text, S) = Len(text)
  BY <1>1, <1>2, LeadingIs
<1>4. SubSeq(text, 1, Len(text)) = text
  BY <1>1
<1> QED
  BY <1>1, <1>3, <1>4 DEF S

LEMMA StoiReadsDigits ==
  ASSUME NEW text, NEW n \in Nat, Stands(text, n), n \in Ints
  PROVE  stoi(text) = [ok |-> TRUE, value |-> n]
<1>1. text[1] \in ToSet(Digit) /\ Number(text) = n /\ text \in Seq(ToSet(Digit))
  BY DEF Stands
<1>2. text[1] \notin Sign /\ text[1] # "-" /\ text[1] \notin Space
  BY <1>1, DigitsAreApart DEF Sign, Space
<1>3. Leading(text, Space) + 1 = 1
  <2> DEFINE T == ToSet(Digit)
  <2>1. text \in Seq(T) /\ text[0 + 1] \notin Space
    BY <1>1, <1>2
  <2>2. 0 \in 0..Len(text) /\ \A i \in 1..0 : text[i] \in Space
    BY <1>1
  <2> HIDE DEF T
  <2>3. Leading(text, Space) = 0
    BY <2>1, <2>2, LeadingIs
  <2> QED
    BY <2>3
<1>4. /\ Leading(text, ToSet(Digit)) = Len(text)
      /\ SubSeq(text, 1, Len(text)) = text
      /\ 1 <= Len(text) /\ Len(text) > 0
  BY AllAreDigits
<1> QED
  BY <1>1, <1>2, <1>3, <1>4 DEF stoi

LEMMA StoiReadsSign ==
  ASSUME NEW text, NEW n \in Nat, Stands(text, n), -n \in Ints
  PROVE  stoi(<<"-">> \o text) = [ok |-> TRUE, value |-> -n]
<1> DEFINE signed == <<"-">> \o text
           T == ToSet(Digit) \cup {"-"}
<1>1. text \in Seq(ToSet(Digit)) /\ Number(text) = n
  BY DEF Stands
<1>2. text \in Seq(T) /\ <<"-">> \in Seq(T)
  BY <1>1
<1>3. /\ signed \in Seq(T) /\ Len(signed) = Len(text) + 1 /\ signed[1] = "-"
      /\ SubSeq(signed, 2, Len(signed)) = text
  <2> HIDE DEF T
  <2>1. signed \in Seq(T) /\ Len(signed) = Len(text) + 1 /\ signed[1] = "-"
    BY <1>2
  <2>2. \A i \in 1..Len(text) : signed[i + 1] = text[i]
    BY <1>2
  <2>3. SubSeq(signed, 2, Len(signed)) = text
    BY <1>2, <2>1, <2>2
  <2> QED
    BY <2>1, <2>3
<1> HIDE DEF signed, T
<1>4. Leading(signed, Space) + 1 = 1
  <2>1. signed \in Seq(T) /\ signed[0 + 1] \notin Space
    <3>1. "-" \notin Space /\ 0 + 1 = 1
      BY DEF Space
    <3> QED
      BY <1>3, <3>1
  <2>2. 0 \in 0..Len(signed) /\ \A i \in 1..0 : signed[i] \in Space
    BY <1>3
  <2>3. Leading(signed, Space) = 0
    BY <2>1, <2>2, LeadingIs
  <2> QED
    BY <2>3
<1>5. /\ Leading(text, ToSet(Digit)) = Len(text)
      /\ SubSeq(text, 1, Len(text)) = text
      /\ Len(text) \in Nat /\ Len(text) > 0
  BY AllAreDigits
<1>6. 1 <= Len(signed) /\ signed[1] \in Sign /\ signed[1] = "-" /\ 1 + 1 = 2
  BY <1>3, <1>5 DEF Sign
<1>7. stoi(signed) = [ok |-> TRUE, value |-> -n]
  BY <1>1, <1>3, <1>4, <1>5, <1>6 DEF stoi
<1> QED
  BY <1>7 DEF signed

\* The text of an int is read as that int, the least one included.
THEOREM StoiReadsToString ==
  ASSUME NEW n \in Ints
  PROVE  stoi(to_string(n)) = [ok |-> TRUE, value |-> n]
<1>1. n \in Int
  BY PosAssumption DEF Ints
<1>2. CASE n < 0
  <2>1. PICK m \in Nat : m = -n
    BY <1>1, <1>2
  <2>2. Stands(Digits[m], m) /\ -m \in Ints /\ -m = n
    BY <1>1, <2>1, DigitsStand
  <2>3. to_string(n) = <<"-">> \o Digits[m]
    BY <1>2, <2>1 DEF to_string
  <2> QED
    BY <2>2, <2>3, StoiReadsSign
<1>3. CASE n >= 0
  <2>1. Stands(Digits[n], n) /\ n \in Nat
    BY <1>1, <1>3, DigitsStand
  <2>2. to_string(n) = Digits[n]
    BY <1>1, <1>3 DEF to_string
  <2> QED
    BY <2>1, <2>2, StoiReadsDigits
<1> QED
  BY <1>1, <1>2, <1>3

-----------------------------------------------------------------------------
(* Where the bars of a position are.                                       *)

\* t begins with the k elements of a.
Begins(t, a, k) == \A i \in 1..k : t[i] = a[i]

\* t has the m elements of b after its first k.
Follows(t, k, b, m) == \A i \in 1..m : t[k + i] = b[i]

LEMMA JoinHasParts ==
  ASSUME NEW S, NEW a \in Seq(S), NEW b \in Seq(S)
  PROVE  /\ a \o b \in Seq(S) /\ Len(a \o b) = Len(a) + Len(b)
         /\ Begins(a \o b, a, Len(a)) /\ Follows(a \o b, Len(a), b, Len(b))
BY DEF Begins, Follows

LEMMA BeginsThrough ==
  ASSUME NEW k \in Nat, NEW j \in Nat, j <= k, NEW t, NEW u, NEW a,
         Begins(t, u, k), Begins(u, a, j)
  PROVE  Begins(t, a, j)
<1>1. \A i \in 1..j : i \in 1..k
  OBVIOUS
<1> QED
  BY <1>1 DEF Begins

LEMMA FollowsThrough ==
  ASSUME NEW k \in Nat, NEW j \in Nat, NEW m \in Nat, j + m <= k, NEW t, NEW u, NEW b,
         Begins(t, u, k), Follows(u, j, b, m)
  PROVE  Follows(t, j, b, m)
<1>1. \A i \in 1..m : j + i \in 1..k
  OBVIOUS
<1> QED
  BY <1>1 DEF Begins, Follows

LEMMA SameElements ==
  ASSUME NEW S, NEW t \in Seq(S), NEW p \in Seq(S), Len(t) = Len(p),
         \A i \in 1..Len(p) : t[i] = p[i]
  PROVE  t = p
OBVIOUS

LEMMA OneCharacter ==
  ASSUME NEW S, NEW c \in S
  PROVE  <<c>> \in Seq(S) /\ Len(<<c>>) = 1 /\ <<c>>[1] = c
OBVIOUS

LEMMA SeqOfMore ==
  ASSUME NEW S, NEW T, S \subseteq T, NEW s \in Seq(S)
  PROVE  s \in Seq(T)
OBVIOUS

\* A part of a sequence, by its elements.
LEMMA PartIs ==
  ASSUME NEW S, NEW t \in Seq(S), NEW p \in Seq(S), NEW k \in Nat,
         k + Len(p) <= Len(t), Follows(t, k, p, Len(p))
  PROVE  SubSeq(t, k + 1, k + Len(p)) = p
<1>1. /\ Len(SubSeq(t, k + 1, k + Len(p))) = Len(p)
      /\ SubSeq(t, k + 1, k + Len(p)) \in Seq(S)
  OBVIOUS
<1>2. \A i \in 1..Len(p) : SubSeq(t, k + 1, k + Len(p))[i] = p[i]
  BY DEF Follows
<1> QED
  BY <1>1, <1>2, SameElements

LEMMA FirstBar ==
  ASSUME NEW S, NEW t \in Seq(S), NEW k \in 1..Len(t), IsBar(t[k]),
         \A i \in 1..(k - 1) : ~IsBar(t[i])
  PROVE  find(t) = k
<1> DEFINE Bars == {i \in 1..Len(t) : IsBar(t[i])}
<1>1. k \in Bars /\ \A x \in Bars : x \in Int /\ k <= x
  OBVIOUS
<1> HIDE DEF Bars
<1>2. \A x \in Bars : (\A y \in Bars : x <= y) => x = k
  <2> TAKE x \in Bars
  <2> HAVE \A y \in Bars : x <= y
  <2>1. x <= k /\ k <= x /\ x \in Int /\ k \in Int
    BY <1>1
  <2> QED
    BY <2>1
<1>3. (CHOOSE x \in Bars : \A y \in Bars : x <= y) = k
  BY <1>1, <1>2
<1>4. Bars # {}
  BY <1>1
<1> QED
  BY <1>3, <1>4 DEF find, SelectInSeq, Min, Bars

LEMMA LastBar ==
  ASSUME NEW S, NEW t \in Seq(S), NEW k \in 1..Len(t), IsBar(t[k]),
         \A i \in (k + 1)..Len(t) : ~IsBar(t[i])
  PROVE  rfind(t) = k
<1> DEFINE Bars == {i \in 1..Len(t) : IsBar(t[i])}
<1>1. k \in Bars /\ \A x \in Bars : x \in Int /\ k >= x
  OBVIOUS
<1> HIDE DEF Bars
<1>2. \A x \in Bars : (\A y \in Bars : x >= y) => x = k
  <2> TAKE x \in Bars
  <2> HAVE \A y \in Bars : x >= y
  <2>1. x <= k /\ k <= x /\ x \in Int /\ k \in Int
    BY <1>1
  <2> QED
    BY <2>1
<1>3. (CHOOSE x \in Bars : \A y \in Bars : x >= y) = k
  BY <1>1, <1>2
<1>4. Bars # {}
  BY <1>1
<1> QED
  BY <1>3, <1>4 DEF rfind, SelectLastInSeq, Max, Bars

Unbarred(t) == \A i \in 1..Len(t) : ~IsBar(t[i])

LEMMA PortHasNoBar ==
  ASSUME NEW n \in Ints
  PROVE  to_string(n) \in Seq(ToSet(Digit) \cup {"-"}) /\ Unbarred(to_string(n))
<1> DEFINE T == ToSet(Digit) \cup {"-"}
<1>1. to_string(n) \in Seq(T)
  <2>1. n \in Int
    BY PosAssumption DEF Ints
  <2>2. CASE n < 0
    <3>1. PICK m \in Nat : m = -n
      BY <2>1, <2>2
    <3>2. Digits[m] \in Seq(ToSet(Digit))
      BY DigitsStand DEF Stands
    <3>3. Digits[m] \in Seq(T) /\ <<"-">> \in Seq(T)
      BY <3>2
    <3> HIDE DEF T
    <3>4. <<"-">> \o Digits[m] \in Seq(T)
      BY <3>3
    <3> QED
      BY <2>2, <3>1, <3>4 DEF to_string
  <2>3. CASE n >= 0
    <3>1. n \in Nat
      BY <2>1, <2>3
    <3>2. Digits[n] \in Seq(ToSet(Digit))
      BY <3>1, DigitsStand DEF Stands
    <3>3. Digits[n] \in Seq(T)
      BY <3>2
    <3> QED
      BY <2>3, <3>1, <3>3 DEF to_string
  <2> QED
    BY <2>1, <2>2, <2>3
<1>2. \A c \in T : ~IsBar(c)
  BY DigitsAreApart DEF IsBar
<1> HIDE DEF T
<1>3. Unbarred(to_string(n))
  BY <1>1, <1>2 DEF Unbarred
<1> QED
  BY <1>1, <1>3 DEF T

\* t has its first and last bar there, and a, b and c between them.
IsCut(t, first, last, a, b, c) ==
  /\ find(t) = first /\ rfind(t) = last
  /\ 0 < first /\ first < last
  /\ SubSeq(t, 1, first - 1) = a
  /\ SubSeq(t, first + 1, last - 1) = b
  /\ SubSeq(t, last + 1, Len(t)) = c

\* A text of three parts with bars between them, and none inside.
LEMMA ThreeParts ==
  ASSUME NEW S, NEW a \in Seq(S), NEW b \in Seq(S), NEW c \in Seq(S),
         NEW bar \in Seq(S), Len(bar) = 1, IsBar(bar[1]),
         Unbarred(a), Unbarred(b), Unbarred(c),
         NEW t, t = a \o bar \o b \o bar \o c
  PROVE  \E first, last \in Nat : IsCut(t, first, last, a, b, c)
<1>1. PICK l \in Nat, m \in Nat, n \in Nat : l = Len(a) /\ m = Len(b) /\ n = Len(c)
  OBVIOUS
<1>2. PICK first \in Nat, k \in Nat, last \in Nat :
        first = l + 1 /\ k = first + m /\ last = k + 1
  OBVIOUS
<1>3. PICK t1, t2, t3 : t1 = a \o bar /\ t2 = t1 \o b /\ t3 = t2 \o bar
  OBVIOUS
<1>4. t = t3 \o c
  BY <1>3
<1>5. /\ t1 \in Seq(S) /\ Len(t1) = first
      /\ Begins(t1, a, l) /\ Follows(t1, l, bar, 1)
  BY <1>1, <1>2, <1>3, JoinHasParts
<1>6. /\ t2 \in Seq(S) /\ Len(t2) = k
      /\ Begins(t2, t1, first) /\ Follows(t2, first, b, m)
  <2>1. t2 = t1 \o b /\ Len(t1) = first /\ Len(b) = m /\ t1 \in Seq(S) /\ k = first + m
    BY <1>1, <1>2, <1>3, <1>5
  <2> QED
    BY <2>1, JoinHasParts
<1>7. /\ t3 \in Seq(S) /\ Len(t3) = last
      /\ Begins(t3, t2, k) /\ Follows(t3, k, bar, 1)
  <2>1. t3 = t2 \o bar /\ Len(bar) = 1 /\ Len(t2) = k /\ t2 \in Seq(S) /\ last = k + 1
    BY <1>2, <1>3, <1>6
  <2> QED
    BY <2>1, JoinHasParts
<1>8. /\ t \in Seq(S) /\ Len(t) = last + n
      /\ Begins(t, t3, last) /\ Follows(t, last, c, n)
  BY <1>1, <1>4, <1>7, JoinHasParts
<1>9. /\ l <= first /\ first <= k /\ k <= last /\ l + 1 <= first /\ first + m <= k
      /\ k + 1 <= last /\ 1 \in Nat
  BY <1>2
<1>10. Begins(t, t2, k)
  BY <1>7, <1>8, <1>9, BeginsThrough
<1>11. Begins(t, t1, first)
  BY <1>6, <1>9, <1>10, BeginsThrough
<1>12. Begins(t, a, l)
  BY <1>5, <1>9, <1>11, BeginsThrough
<1>13. Follows(t, first, b, m)
  BY <1>6, <1>9, <1>10, FollowsThrough
<1>14. Follows(t, l, bar, 1) /\ Follows(t, k, bar, 1)
  BY <1>5, <1>7, <1>8, <1>9, <1>11, FollowsThrough
<1>15. IsBar(t[first]) /\ IsBar(t[last])
  <2>1. t[l + 1] = bar[1] /\ t[k + 1] = bar[1]
    <3>1. 1 \in 1..1
      OBVIOUS
    <3>2. t[l + 1] = bar[1]
      BY <1>14, <3>1 DEF Follows
    <3>3. t[k + 1] = bar[1]
      BY <1>14, <3>1 DEF Follows
    <3> QED
      BY <3>2, <3>3
  <2> QED
    BY <1>2, <2>1
<1>16. find(t) = first
  <2>1. \A i \in 1..(first - 1) : i \in 1..l
    BY <1>2
  <2>2. \A i \in 1..l : ~IsBar(t[i])
    BY <1>1, <1>12 DEF Begins, Unbarred
  <2>3. \A i \in 1..(first - 1) : ~IsBar(t[i])
    BY <2>1, <2>2
  <2>4. first \in 1..Len(t)
    BY <1>2, <1>8
  <2> QED
    BY <1>8, <1>15, <2>3, <2>4, FirstBar
<1>17. rfind(t) = last
  <2>1. \A i \in (last + 1)..Len(t) : i - last \in 1..n /\ i = last + (i - last)
    BY <1>8
  <2>2. \A j \in 1..n : ~IsBar(t[last + j])
    BY <1>1, <1>8 DEF Follows, Unbarred
  <2>3. \A i \in (last + 1)..Len(t) : ~IsBar(t[i])
    BY <2>1, <2>2
  <2>4. last \in 1..Len(t)
    BY <1>2, <1>8
  <2> QED
    BY <1>8, <1>15, <2>3, <2>4, LastBar
<1>18. SubSeq(t, 1, first - 1) = a
  <2>1. Follows(t, 0, a, l)
    <3>1. \A i \in 1..l : 0 + i = i
      OBVIOUS
    <3> QED
      BY <1>12, <3>1 DEF Begins, Follows
  <2>2. 0 + Len(a) <= Len(t) /\ 0 \in Nat
    BY <1>1, <1>2, <1>8
  <2>3. SubSeq(t, 0 + 1, 0 + Len(a)) = a
    BY <1>1, <1>8, <2>1, <2>2, PartIs
  <2>4. 0 + 1 = 1 /\ 0 + Len(a) = first - 1
    BY <1>1, <1>2
  <2> QED
    BY <2>3, <2>4
<1>19. SubSeq(t, first + 1, last - 1) = b
  <2>1. first + Len(b) <= Len(t)
    BY <1>1, <1>2, <1>8
  <2>2. SubSeq(t, first + 1, first + Len(b)) = b
    BY <1>1, <1>8, <1>13, <2>1, PartIs
  <2>3. first + Len(b) = last - 1
    BY <1>1, <1>2
  <2> QED
    BY <2>2, <2>3
<1>20. SubSeq(t, last + 1, Len(t)) = c
  <2>1. last + Len(c) = Len(t) /\ last + Len(c) <= Len(t)
    BY <1>1, <1>8
  <2>2. SubSeq(t, last + 1, last + Len(c)) = c
    BY <1>1, <1>8, <2>1, PartIs
  <2> QED
    BY <2>1, <2>2
<1>21. 0 < first /\ first < last
  BY <1>2
<1> QED
  BY <1>16, <1>17, <1>18, <1>19, <1>20, <1>21 DEF IsCut

\* The text of a position is parsed to that position, whatever the proxy was,
\* unless its ip or its id has an underscore.
THEOREM PositionIsParsed ==
  ASSUME NEW p, NEW ip \in Seq(STRING), NEW id \in Seq(STRING), NEW port \in Ints,
         Unbarred(ip), Unbarred(id)
  PROVE  parse_pos(p, get_pos(set_proxy(id, ip, port)))
           = [ok |-> TRUE, proxy |-> set_proxy(id, ip, port)]
<1> DEFINE T == STRING \cup (ToSet(Digit) \cup {"-"}) \cup {"_"}
<1>1. PICK digits : digits = to_string(port)
  OBVIOUS
<1>2. digits \in Seq(T) /\ ip \in Seq(T) /\ id \in Seq(T) /\ <<"_">> \in Seq(T)
  <2>1. digits \in Seq(ToSet(Digit) \cup {"-"})
    BY <1>1, PortHasNoBar
  <2>2. /\ "_" \in T /\ STRING \subseteq T /\ ToSet(Digit) \cup {"-"} \subseteq T
    OBVIOUS
  <2> HIDE DEF T
  <2>3. digits \in Seq(T) /\ ip \in Seq(T) /\ id \in Seq(T)
    BY <2>1, <2>2, SeqOfMore
  <2>4. <<"_">> \in Seq(T)
    BY <2>2, OneCharacter
  <2> QED
    BY <2>3, <2>4
<1>3. PICK bar : bar = <<"_">>
  OBVIOUS
<1>4. bar \in Seq(T) /\ Len(bar) = 1 /\ IsBar(bar[1])
  BY <1>2, <1>3 DEF IsBar
<1>5. Unbarred(digits) /\ stoi(digits) = [ok |-> TRUE, value |-> port]
  BY <1>1, PortHasNoBar, StoiReadsToString
<1>6. PICK text : text = ip \o bar \o digits \o bar \o id
  OBVIOUS
<1>7. get_pos(set_proxy(id, ip, port)) = text
  BY <1>1, <1>3, <1>6 DEF get_pos, set_proxy
<1> HIDE DEF T
<1>8. PICK first \in Nat, last \in Nat : IsCut(text, first, last, ip, digits, id)
  BY <1>2, <1>4, <1>5, <1>6, ThreeParts
<1>9. parse_pos(p, text) = [ok |-> TRUE, proxy |-> set_proxy(id, ip, port)]
  <2>1. /\ find(text) = first /\ rfind(text) = last
        /\ first # 0 /\ first # last
    BY <1>8 DEF IsCut
  <2>2. SubSeq(text, 1, first - 1) = ip /\ SubSeq(text, last + 1, Len(text)) = id
    BY <1>8 DEF IsCut
  <2>3. SubSeq(text, first + 1, IF first = last THEN Len(text) ELSE last - 1) = digits
    BY <1>8, <2>1 DEF IsCut
  <2> DEFINE n == stoi(SubSeq(text, first + 1,
                              IF first = last THEN Len(text) ELSE last - 1))
  <2>4. n = [ok |-> TRUE, value |-> port]
    BY <1>5, <2>3
  <2> HIDE DEF n
  <2>5. n.ok /\ n.value = port
    BY <2>4
  <2>6. parse_pos(p, text) =
          IF n.ok
          THEN [ok |-> TRUE, proxy |-> set_proxy(SubSeq(text, last + 1, Len(text)),
                                                 SubSeq(text, 1, first - 1), n.value)]
          ELSE [ok |-> FALSE, proxy |-> [p EXCEPT !.ip = SubSeq(text, 1, first - 1)]]
    BY <2>1, Zenon DEF parse_pos, n
  <2> QED
    BY <2>2, <2>5, <2>6, Zenon
<1> QED
  BY <1>7, <1>9

-----------------------------------------------------------------------------
(* An underscore in the ip or in the id moves a bar.                       *)

\* The first bar is not behind a bar, nor the last one before it.
LEMMA BarsBound ==
  ASSUME NEW S, NEW t \in Seq(S), NEW i \in 1..Len(t), IsBar(t[i])
  PROVE  /\ find(t) \in Nat /\ 0 < find(t) /\ find(t) <= i
         /\ rfind(t) \in Nat /\ i <= rfind(t) /\ rfind(t) <= Len(t)
<1> DEFINE Bars == {k \in 1..Len(t) : IsBar(t[k])}
           Ends == {n \in Nat : Len(t) - n \in Bars}
<1>1. i \in Bars /\ \A k \in Bars : k \in 1..Len(t) /\ k \in Nat /\ IsBar(t[k])
  OBVIOUS
<1>2. Len(t) - i \in Ends /\ \A n \in Ends : n \in Nat /\ Len(t) - n \in Bars
  BY <1>1
<1>3. \A k \in Bars : Len(t) - k \in Ends
  <2> TAKE k \in Bars
  <2>1. Len(t) - k \in Nat /\ Len(t) - (Len(t) - k) = k
    BY <1>1
  <2> QED
    BY <2>1
<1>4. \A k \in 1..Len(t) : IsBar(t[k]) => k \in Bars
  OBVIOUS
<1> HIDE DEF Bars, Ends
<1>5. PICK first \in Bars : \A k \in Bars : first <= k
  <2>1. Bars \in SUBSET Nat /\ Bars # {}
    BY <1>1
  <2> QED
    BY <2>1, LeastNumber
<1>6. PICK n \in Ends : \A k \in Ends : n <= k
  <2>1. Ends \in SUBSET Nat /\ Ends # {}
    BY <1>2
  <2> QED
    BY <2>1, LeastNumber
<1>7. PICK last \in Bars : last = Len(t) - n
  BY <1>2
<1>8. \A k \in Bars : k <= last
  <2> TAKE k \in Bars
  <2>1. n <= Len(t) - k /\ k \in 1..Len(t) /\ n \in Nat
    BY <1>1, <1>2, <1>3, <1>6
  <2> QED
    BY <1>7, <2>1
<1>9. find(t) = first
  <2>1. \A k \in 1..(first - 1) : k \in 1..Len(t) /\ ~(first <= k)
    BY <1>1
  <2>2. \A k \in 1..(first - 1) : ~IsBar(t[k])
    BY <1>4, <1>5, <2>1
  <2> QED
    BY <1>1, <2>2, FirstBar
<1>10. rfind(t) = last
  <2>1. \A k \in (last + 1)..Len(t) : k \in 1..Len(t) /\ ~(k <= last)
    BY <1>1
  <2>2. \A k \in (last + 1)..Len(t) : ~IsBar(t[k])
    BY <1>4, <1>8, <2>1
  <2> QED
    BY <1>1, <2>2, LastBar
<1> QED
  BY <1>1, <1>5, <1>8, <1>9, <1>10

LEMMA PartIsShort ==
  ASSUME NEW S, NEW t \in Seq(S), NEW j \in 1..(Len(t) + 1), NEW k \in 0..Len(t), j <= k + 1
  PROVE  Len(SubSeq(t, j, k)) = k - j + 1
OBVIOUS

LEMMA ParsedParts ==
  ASSUME NEW p, NEW t, NEW q, find(t) # 0, parse_pos(p, t) = [ok |-> TRUE, proxy |-> q]
  PROVE  q.ip = SubSeq(t, 1, find(t) - 1) /\ q.id = SubSeq(t, rfind(t) + 1, Len(t))
<1> DEFINE n == stoi(SubSeq(t, find(t) + 1, IF find(t) = rfind(t) THEN Len(t) ELSE rfind(t) - 1))
           before == SubSeq(t, 1, find(t) - 1)
           behind == SubSeq(t, rfind(t) + 1, Len(t))
           new == set_proxy(behind, before, n.value)
<1>1. parse_pos(p, t) = IF n.ok THEN [ok |-> TRUE, proxy |-> new]
                        ELSE [ok |-> FALSE, proxy |-> [p EXCEPT !.ip = before]]
  BY Zenon DEF parse_pos
<1>2. new.ip = before /\ new.id = behind
  <2> HIDE DEF before, behind, n
  <2> QED
    BY DEF set_proxy
<1> HIDE DEF n, new, before, behind
<1>3. q = new
  BY <1>1
<1> QED
  BY <1>2, <1>3, Zenon DEF before, behind

\* Parsing is right only where it is cut at the bars that get_pos has put.
THEOREM OnlyUnbarredIsParsed ==
  ASSUME NEW p, NEW ip \in Seq(STRING), NEW id \in Seq(STRING), NEW port \in Ints,
         parse_pos(p, get_pos(set_proxy(id, ip, port)))
           = [ok |-> TRUE, proxy |-> set_proxy(id, ip, port)]
  PROVE  Unbarred(ip) /\ Unbarred(id)
<1> DEFINE T == STRING \cup (ToSet(Digit) \cup {"-"}) \cup {"_"}
<1>1. PICK bar, digits, middle, head, text :
        /\ bar = <<"_">> /\ digits = to_string(port) /\ middle = bar \o digits \o bar
        /\ head = ip \o middle /\ text = head \o id
  OBVIOUS
<1>2. bar \in Seq(T) /\ digits \in Seq(T) /\ ip \in Seq(T) /\ id \in Seq(T)
  <2>1. digits \in Seq(ToSet(Digit) \cup {"-"})
    BY <1>1, PortHasNoBar
  <2>2. /\ "_" \in T /\ STRING \subseteq T /\ ToSet(Digit) \cup {"-"} \subseteq T
    OBVIOUS
  <2> HIDE DEF T
  <2>3. digits \in Seq(T) /\ ip \in Seq(T) /\ id \in Seq(T)
    BY <2>1, <2>2, SeqOfMore
  <2>4. bar \in Seq(T)
    BY <1>1, <2>2, OneCharacter
  <2> QED
    BY <2>3, <2>4
<1> HIDE DEF T
<1>3. middle \in Seq(T)
  <2>1. bar \o digits \in Seq(T)
    BY <1>2
  <2>2. (bar \o digits) \o bar \in Seq(T)
    BY <1>2, <2>1
  <2> QED
    BY <1>1, <2>2, Zenon
<1>4. ip \o bar \o digits \o bar \o id = (ip \o (bar \o digits \o bar)) \o id
  BY <1>2
<1>5. get_pos(set_proxy(id, ip, port)) = text
  <2>1. get_pos(set_proxy(id, ip, port)) = ip \o bar \o digits \o bar \o id
    BY <1>1 DEF get_pos, set_proxy
  <2> QED
    BY <1>1, <1>4, <2>1, Zenon
<1>6. /\ head \in Seq(T) /\ Len(head) = Len(ip) + Len(middle)
      /\ Begins(head, ip, Len(ip))
  <2>1. head = ip \o middle /\ middle \in Seq(T) /\ ip \in Seq(T)
    BY <1>1, <1>2, <1>3
  <2> QED
    BY <2>1, JoinHasParts
<1>7. /\ text \in Seq(T) /\ Len(text) = Len(head) + Len(id)
      /\ Begins(text, head, Len(head)) /\ Follows(text, Len(head), id, Len(id))
  <2>1. text = head \o id /\ head \in Seq(T) /\ id \in Seq(T)
    BY <1>1, <1>2, <1>6
  <2> QED
    BY <2>1, JoinHasParts
<1>8. Len(ip) \in Nat /\ Len(middle) \in Nat /\ Len(id) \in Nat
  BY <1>2, <1>3
<1>9. Begins(text, ip, Len(ip))
  BY <1>6, <1>7, <1>8, BeginsThrough
<1>10. parse_pos(p, text) = [ok |-> TRUE, proxy |-> set_proxy(id, ip, port)]
  BY <1>5
<1>11. find(text) # 0 => /\ ip = SubSeq(text, 1, find(text) - 1)
                         /\ id = SubSeq(text, rfind(text) + 1, Len(text))
  <2>1. set_proxy(id, ip, port).ip = ip /\ set_proxy(id, ip, port).id = id
    BY DEF set_proxy
  <2> QED
    BY <1>10, <2>1, ParsedParts
<1>12. Unbarred(ip)
  <2> SUFFICES ASSUME NEW i \in 1..Len(ip), IsBar(ip[i])
               PROVE  FALSE
    BY DEF Unbarred
  <2>1. IsBar(text[i]) /\ i \in 1..Len(text)
    BY <1>6, <1>7, <1>8, <1>9 DEF Begins
  <2>2. find(text) \in Nat /\ 0 < find(text) /\ find(text) <= i /\ i <= Len(text)
    <3>1. PICK k \in 1..Len(text) : k = i /\ IsBar(text[k])
      BY <2>1
    <3>2. text \in Seq(T)
      BY <1>7
    <3> QED
      BY <3>1, <3>2, BarsBound
  <2>3. Len(ip) = Len(SubSeq(text, 1, find(text) - 1))
    BY <1>11, <2>2
  <2>4. Len(SubSeq(text, 1, find(text) - 1)) = (find(text) - 1) - 1 + 1
    BY <1>7, <2>2, PartIsShort
  <2> QED
    BY <1>8, <2>2, <2>3, <2>4
<1>13. Unbarred(id)
  <2> SUFFICES ASSUME NEW i \in 1..Len(id), IsBar(id[i])
               PROVE  FALSE
    BY DEF Unbarred
  <2>1. PICK k \in 1..Len(text) : k = Len(head) + i /\ IsBar(text[k])
    <3>1. Len(head) + i \in 1..Len(text)
      BY <1>6, <1>7, <1>8
    <3>2. text[Len(head) + i] = id[i]
      BY <1>7 DEF Follows
    <3> QED
      BY <3>1, <3>2
  <2>2. /\ find(text) # 0 /\ rfind(text) \in Nat /\ k <= rfind(text)
        /\ rfind(text) <= Len(text)
    <3>1. text \in Seq(T) /\ IsBar(text[k])
      BY <1>7, <2>1
    <3> QED
      BY <3>1, BarsBound
  <2>3. Len(id) = Len(SubSeq(text, rfind(text) + 1, Len(text)))
    BY <1>11, <2>2
  <2>4. Len(SubSeq(text, rfind(text) + 1, Len(text))) = Len(text) - (rfind(text) + 1) + 1
    BY <1>7, <2>2, PartIsShort
  <2>5. PICK l \in Nat, h \in Nat, n \in Nat, last \in Nat :
          l = Len(text) /\ h = Len(head) /\ n = Len(id) /\ last = rfind(text)
    BY <1>6, <1>7, <1>8, <2>2
  <2>6. l = h + n /\ h + i <= last /\ n = l - (last + 1) + 1
    BY <1>7, <2>1, <2>2, <2>3, <2>4, <2>5
  <2> QED
    BY <2>6
<1> QED
  BY <1>12, <1>13

=============================================================================
