---------------------------- MODULE R5900Isa_proofs ----------------------------
(***************************************************************************)
(* Proofs about the decoder and the execute block, for every word and every   *)
(* operand width.                                                            *)
(*                                                                         *)
(* Rows: the execute block takes every word the decoder gives it, which is a   *)
(* fact about their two tables.                                              *)
(*                                                                         *)
(* Numbers: powers of two and bitwise AND are recursive functions.  The        *)
(* induction is over the set of numbers a fact holds of, and that a recursive   *)
(* function exists is proved once (PrimitiveRecursion).  From them come the      *)
(* bounds of the bitwise operators, and that each result fits its lane.        *)
(***************************************************************************)
EXTENDS R5900Isa, WellFoundedInduction, TLAPS

-----------------------------------------------------------------------------
(* The decoder and the execute block accept the same words: r5900_execute.sv checks   *)
(* the encoding of every operation a second time, and the two lists of fields must     *)
(* agree row for row.                                                               *)

\* A set of rows that is not empty has a first one, which Min denotes.
LEMMA FirstRow ==
    ASSUME NEW T \in SUBSET Nat, T # {}
    PROVE  Min(T) \in T
<1> DEFINE less == {p \in Nat \X Nat : p[1] < p[2]}
<1>1. IsWellFoundedOn(less, Nat)
  <2>1. OpToRel(<, Nat) = less
      BY DEF OpToRel
  <2> QED
      BY <2>1, NatLessThanWellFounded
<1>2. PICK m \in T : \A k \in T : <<k, m>> \notin less
    BY <1>1, WFMin
<1>3. ASSUME NEW k \in T PROVE m <= k
  <2>1. k \in Nat /\ m \in Nat /\ ~(k < m)
      BY <1>2
  <2> QED
      BY <2>1
<1> QED
    BY <1>3 DEF Min

\* What the decoder makes of a word is the operation of a row that matches it.
LEMMA DecodesByRow ==
    ASSUME NEW w, ~IsZeroWord(w)
    PROVE  IF \E k \in DOMAIN DecodeChain : Matches(DecodeChain[k], Fields(w))
           THEN \E k \in DOMAIN DecodeChain :
                   Matches(DecodeChain[k], Fields(w)) /\ Decode(w) = DecodeChain[k].op
           ELSE Decode(w) = "NONE"
<1> DEFINE hits == {k \in DOMAIN DecodeChain : Matches(DecodeChain[k], Fields(w))}
<1>1. Decode(w) = IF hits = {} THEN "NONE" ELSE DecodeChain[Min(hits)].op
    BY DEF Decode
<1>2. hits \in SUBSET Nat
  <2>1. DOMAIN DecodeChain = 1 .. 46
      BY DEF DecodeChain
  <2> QED
      BY <2>1
<1>3. hits # {} => Min(hits) \in hits
    BY <1>2, FirstRow
<1> QED
    BY <1>1, <1>3

\* ... and is always an operation.
LEMMA DecodesToOperation ==
    ASSUME NEW w
    PROVE  Decode(w) \in Operation
<1>1. CASE IsZeroWord(w)
    BY <1>1 DEF Decode, Operation
<1>2. CASE ~IsZeroWord(w)
  <2>1. \/ Decode(w) = "NONE"
        \/ \E k \in DOMAIN DecodeChain : Decode(w) = DecodeChain[k].op
      BY <1>2, DecodesByRow
  <2> QED
      BY <2>1 DEF Operation
<1> QED
    BY <1>1, <1>2

\* The execute block accepts every word that a row of the decoder matches: its check of
\* the encoding asks for nothing the row does not.  One case for each row.
LEMMA RowAccepted ==
    ASSUME NEW w, NEW k \in DOMAIN DecodeChain, NEW row, row = DecodeChain[k],
           Matches(row, Fields(w)), ~IsZeroWord(w)
    PROVE  ExecuteAccepts(row.op, w) /\ row.op # "NONE"
<1>0. k \in 1 .. 46
    BY DEF DecodeChain
<1> USE DEF DecodeChain, Special, Mmi, Primary, Row, Matches, ExecuteAccepts,
            ShiftFunct, RegisterFunct, ImmediateOpcode
<1>1. CASE k = 1
    BY <1>1
<1>2. CASE k = 2
    BY <1>2
<1>3. CASE k = 3
    BY <1>3
<1>4. CASE k = 4
    BY <1>4
<1>5. CASE k = 5
    BY <1>5
<1>6. CASE k = 6
    BY <1>6
<1>7. CASE k = 7
    BY <1>7
<1>8. CASE k = 8
    BY <1>8
<1>9. CASE k = 9
    BY <1>9
<1>10. CASE k = 10
    BY <1>10
<1>11. CASE k = 11
    BY <1>11
<1>12. CASE k = 12
    BY <1>12
<1>13. CASE k = 13
    BY <1>13
<1>14. CASE k = 14
    BY <1>14
<1>15. CASE k = 15
    BY <1>15
<1>16. CASE k = 16
    BY <1>16
<1>17. CASE k = 17
    BY <1>17
<1>18. CASE k = 18
    BY <1>18
<1>19. CASE k = 19
    BY <1>19
<1>20. CASE k = 20
    BY <1>20
<1>21. CASE k = 21
    BY <1>21
<1>22. CASE k = 22
    BY <1>22
<1>23. CASE k = 23
    BY <1>23
<1>24. CASE k = 24
    BY <1>24
<1>25. CASE k = 25
    BY <1>25
<1>26. CASE k = 26
    BY <1>26
<1>27. CASE k = 27
    BY <1>27
<1>28. CASE k = 28
    BY <1>28
<1>29. CASE k = 29
    BY <1>29
<1>30. CASE k = 30
    BY <1>30
<1>31. CASE k = 31
    BY <1>31
<1>32. CASE k = 32
    BY <1>32
<1>33. CASE k = 33
    BY <1>33
<1>34. CASE k = 34
    BY <1>34
<1>35. CASE k = 35
    BY <1>35
<1>36. CASE k = 36
    BY <1>36
<1>37. CASE k = 37
    BY <1>37
<1>38. CASE k = 38
    BY <1>38
<1>39. CASE k = 39
    BY <1>39
<1>40. CASE k = 40
    BY <1>40
<1>41. CASE k = 41
    BY <1>41
<1>42. CASE k = 42
    BY <1>42
<1>43. CASE k = 43
    BY <1>43
<1>44. CASE k = 44
    BY <1>44
<1>45. CASE k = 45
    BY <1>45
<1>46. CASE k = 46
    BY <1>46
<1> HIDE DEF DecodeChain, Special, Mmi, Primary, Row, Matches, ExecuteAccepts,
             ShiftFunct, RegisterFunct, ImmediateOpcode
<1> QED
    BY <1>0, <1>1, <1>2, <1>3, <1>4, <1>5, <1>6, <1>7, <1>8, <1>9, <1>10, <1>11, <1>12,
       <1>13, <1>14, <1>15, <1>16, <1>17, <1>18, <1>19, <1>20, <1>21, <1>22, <1>23,
       <1>24, <1>25, <1>26, <1>27, <1>28, <1>29, <1>30, <1>31, <1>32, <1>33, <1>34,
       <1>35, <1>36, <1>37, <1>38, <1>39, <1>40, <1>41, <1>42, <1>43, <1>44, <1>45,
       <1>46

\* The execute block completes exactly the words the decoder knows (r5900_decode.sv:
\* 12-317, r5900_execute.sv): no legal word can hang the core in EXECUTE, and no illegal
\* one can get through it.
THEOREM LegalWordsAccepted ==
    ASSUME NEW w
    PROVE  ExecuteAccepts(Decode(w), w) <=> Decode(w) # "NONE"
<1> DEFINE hits == {k \in DOMAIN DecodeChain : Matches(DecodeChain[k], Fields(w))}
<1>1. CASE IsZeroWord(w)
  <2>1. Decode(w) = "NOP"
      BY <1>1 DEF Decode
  <2>2. ExecuteAccepts("NOP", w)
      BY <1>1 DEF ExecuteAccepts, ShiftFunct, RegisterFunct, ImmediateOpcode
  <2> QED
      BY <2>1, <2>2
<1>2. CASE ~IsZeroWord(w) /\ hits = {}
  <2>1. Decode(w) = "NONE"
      BY <1>2 DEF Decode
  <2>2. ~ExecuteAccepts("NONE", w)
      BY DEF ExecuteAccepts, ShiftFunct, RegisterFunct, ImmediateOpcode
  <2> QED
      BY <2>1, <2>2
<1>3. CASE ~IsZeroWord(w) /\ hits # {}
  <2>1. Decode(w) = DecodeChain[Min(hits)].op
      BY <1>3 DEF Decode
  <2>2. hits \in SUBSET Nat
      BY DEF DecodeChain
  <2>3. Min(hits) \in hits
      BY <1>3, <2>2, FirstRow
  <2> QED
      BY <1>3, <2>1, <2>3, RowAccepted
<1> QED
    BY <1>1, <1>2, <1>3

-----------------------------------------------------------------------------
(* Induction and recursion. *)

\* Induction over the natural numbers, for the set of numbers a fact holds of.
LEMMA NaturalInduction ==
    ASSUME NEW S, 0 \in S, \A n \in Nat : n \in S => n + 1 \in S
    PROVE  \A n \in Nat : n \in S
<1> DEFINE less == {p \in Nat \X Nat : p[1] < p[2]}
           missing == {n \in Nat : n \notin S}
<1> SUFFICES ASSUME missing # {} PROVE FALSE
    OBVIOUS
<1>1. OpToRel(<, Nat) = less
    BY DEF OpToRel
<1>2. IsWellFoundedOn(less, Nat)
    BY <1>1, NatLessThanWellFounded
<1>3. PICK m \in missing : \A j \in missing : <<j, m>> \notin less
    BY <1>2, WFMin
<1>4. m \in Nat /\ m # 0
    BY <1>3
<1>5. m - 1 \in Nat /\ m - 1 < m /\ (m - 1) + 1 = m
    BY <1>4
<1>6. m - 1 \in S
    BY <1>3, <1>4, <1>5
<1> QED
    BY <1>3, <1>5, <1>6

\* g follows a recursion from base by step.
Follows(g, base, step) == g[0] = base /\ \A n \in Nat : g[n + 1] = step[n][g[n]]

\* Primitive recursion defines a function.
LEMMA PrimitiveRecursion ==
    ASSUME NEW A, NEW base \in A, NEW step \in [Nat -> [A -> A]]
    PROVE  \E g \in [Nat -> A] : Follows(g, base, step)
<1> DEFINE Part(n, h) == h[0] = base /\ \A k \in 1 .. n : h[k] = step[k - 1][h[k - 1]]
           exist == {n \in Nat : \E h \in [0 .. n -> A] : Part(n, h)}
           agree == {k \in Nat : \A m, n \in Nat : \A h \in [0 .. m -> A], i \in [0 .. n -> A] :
                        Part(m, h) /\ Part(n, i) /\ k <= m /\ k <= n => h[k] = i[k]}
<1>1. \A n \in Nat : n \in exist
  <2>1. 0 \in exist
    <3>1. [k \in 0 .. 0 |-> base] \in [0 .. 0 -> A] /\ Part(0, [k \in 0 .. 0 |-> base])
        OBVIOUS
    <3> QED
        BY <3>1
  <2>2. ASSUME NEW n \in Nat, n \in exist PROVE n + 1 \in exist
    <3>1. PICK h \in [0 .. n -> A] : Part(n, h)
        BY <2>2
    <3> DEFINE i == [k \in 0 .. n + 1 |-> IF k = n + 1 THEN step[n][h[n]] ELSE h[k]]
    <3>2. i \in [0 .. n + 1 -> A]
        OBVIOUS
    <3>3. i[0] = base
        BY <3>1
    <3>4. ASSUME NEW k \in 1 .. n + 1 PROVE i[k] = step[k - 1][i[k - 1]]
      <4>1. k - 1 \in 0 .. n + 1 /\ k - 1 # n + 1 /\ i[k - 1] = h[k - 1]
          OBVIOUS
      <4>2. CASE k = n + 1
          BY <4>1, <4>2
      <4>3. CASE k # n + 1
          BY <3>1, <4>1, <4>3
      <4> QED
          BY <4>2, <4>3
    <3>5. Part(n + 1, i)
      <4> HIDE DEF i
      <4> QED
          BY <3>3, <3>4
    <3> HIDE DEF i, Part
    <3> QED
        BY <3>2, <3>5
  <2> HIDE DEF exist
  <2> QED
      BY <2>1, <2>2, NaturalInduction
<1>2. \A k \in Nat : k \in agree
  <2>1. 0 \in agree
      OBVIOUS
  <2>2. ASSUME NEW k \in Nat, k \in agree PROVE k + 1 \in agree
    <3>1. ASSUME NEW m \in Nat, NEW n \in Nat,
                 NEW h \in [0 .. m -> A], NEW i \in [0 .. n -> A],
                 Part(m, h), Part(n, i), k + 1 <= m, k + 1 <= n
          PROVE  h[k + 1] = i[k + 1]
      <4>1. h[k] = i[k]
        <5>1. k <= m /\ k <= n
            BY <3>1
        <5> HIDE DEF Part
        <5> QED
            BY <2>2, <3>1, <5>1, Zenon
      <4>2. k + 1 \in 1 .. m /\ k + 1 \in 1 .. n /\ (k + 1) - 1 = k
          BY <3>1
      <4>3. h[k + 1] = step[k][h[k]] /\ i[k + 1] = step[k][i[k]]
          BY <3>1, <4>2
      <4> QED
          BY <4>1, <4>3
    <3> HIDE DEF Part
    <3> QED
        BY <3>1
  <2> HIDE DEF agree
  <2> QED
      BY <2>1, <2>2, NaturalInduction
<1> DEFINE F(n) == CHOOSE h \in [0 .. n -> A] : Part(n, h)
           g == [n \in Nat |-> F(n)[n]]
<1>3. ASSUME NEW n \in Nat PROVE F(n) \in [0 .. n -> A] /\ Part(n, F(n))
    BY <1>1
<1>4. g \in [Nat -> A]
  <2> SUFFICES ASSUME NEW n \in Nat PROVE F(n)[n] \in A
      OBVIOUS
  <2> HIDE DEF F
  <2> QED
      BY <1>3
<1>5. g[0] = base
  <2> HIDE DEF F
  <2> QED
      BY <1>3
<1>6. ASSUME NEW n \in Nat PROVE g[n + 1] = step[n][g[n]]
  <2>1. n + 1 \in Nat /\ n <= n + 1 /\ n + 1 \in 1 .. n + 1 /\ (n + 1) - 1 = n
      OBVIOUS
  <2>2. F(n + 1)[n] = F(n)[n]
    <3>1. n \in agree
        BY <1>2
    <3> HIDE DEF F, Part
    <3> QED
        BY <1>3, <2>1, <3>1
  <2> HIDE DEF F
  <2>3. F(n + 1)[n + 1] = step[n][F(n + 1)[n]]
      BY <1>3, <2>1
  <2> QED
      BY <2>1, <2>2, <2>3
<1> HIDE DEF g
<1> QED
    BY <1>4, <1>5, <1>6 DEF Follows

\* The powers of two.
LEMMA PowerOfTwo ==
    /\ Pow2[0] = 1
    /\ \A k \in Nat : Pow2[k] \in Nat /\ Pow2[k + 1] = 2 * Pow2[k] /\ Pow2[k] >= 1
<1> DEFINE double == [n \in Nat |-> [m \in Nat |-> 2 * m]]
<1>1. PICK g \in [Nat -> Nat] : Follows(g, 1, double)
  <2>1. double \in [Nat -> [Nat -> Nat]] /\ 1 \in Nat
      OBVIOUS
  <2> HIDE DEF double
  <2> QED
      BY <2>1, PrimitiveRecursion
<1>2. g = [k \in Nat |-> IF k = 0 THEN 1 ELSE 2 * g[k - 1]]
  <2>1. ASSUME NEW k \in Nat PROVE g[k] = IF k = 0 THEN 1 ELSE 2 * g[k - 1]
    <3>1. CASE k = 0
        BY <1>1, <3>1 DEF Follows
    <3>2. CASE k # 0
      <4>1. k - 1 \in Nat /\ (k - 1) + 1 = k
          BY <3>2
      <4>2. g[(k - 1) + 1] = double[k - 1][g[k - 1]]
          BY <1>1, <4>1 DEF Follows
      <4> QED
          BY <1>1, <3>2, <4>1, <4>2
    <3> QED
        BY <3>1, <3>2
  <2> QED
      BY <1>1, <2>1
<1>3. Pow2 = [k \in Nat |-> IF k = 0 THEN 1 ELSE 2 * Pow2[k - 1]]
    BY <1>2 DEF Pow2
<1> DEFINE S == {k \in Nat : Pow2[k] \in Nat /\ Pow2[k] >= 1}
<1>4. Pow2[0] = 1 
    BY <1>3
<1>5. ASSUME NEW k \in Nat PROVE Pow2[k + 1] = 2 * Pow2[k]
    BY <1>3
<1>6. \A k \in Nat : k \in S
    <2>1. 0 \in S
        BY <1>4
    <2>2. ASSUME NEW k \in Nat, k \in S PROVE k + 1 \in S
        BY <1>5, <2>2
    <2> HIDE DEF S
    <2> QED
        BY <2>1, <2>2, NaturalInduction
<1> QED
    BY <1>4, <1>5, <1>6

\* Powers add up.
LEMMA PowersMultiply ==
    ASSUME NEW m \in Nat
    PROVE  \A n \in Nat : Pow2[m + n] = Pow2[m] * Pow2[n]
<1> DEFINE S == {n \in Nat : Pow2[m + n] = Pow2[m] * Pow2[n]}
<1>1. 0 \in S
    BY PowerOfTwo
<1>2. ASSUME NEW n \in Nat, n \in S PROVE n + 1 \in S
  <2>1. m + (n + 1) = (m + n) + 1 /\ m + n \in Nat
      OBVIOUS
  <2>2. Pow2[m + (n + 1)] = 2 * Pow2[m + n] /\ Pow2[n + 1] = 2 * Pow2[n]
      BY <2>1, PowerOfTwo
  <2>3. Pow2[m] \in Nat /\ Pow2[n] \in Nat
      BY PowerOfTwo
  <2>4. 2 * (Pow2[m] * Pow2[n]) = Pow2[m] * (2 * Pow2[n])
      BY <2>3
  <2> QED
      BY <1>2, <2>2, <2>4
<1> HIDE DEF S
<1>3. \A n \in Nat : n \in S
    BY <1>1, <1>2, NaturalInduction
<1> QED
    BY <1>3 DEF S

-----------------------------------------------------------------------------
(* The widths.  A scalar is two words, a word two halves, and each is even. *)

LEMMA Widths ==
    /\ HALF \in Nat /\ WORD \in Nat /\ DOUBLE \in Nat
    /\ HALF >= 2
    /\ WORD = HALF * HALF /\ DOUBLE = WORD * WORD
    /\ HALF = 2 * (HALF \div 2) /\ HALF \div 2 \in Nat
    /\ WORD = 2 * (WORD \div 2) /\ WORD \div 2 \in Nat
    /\ DOUBLE = 2 * (DOUBLE \div 2) /\ DOUBLE \div 2 \in Nat
    /\ HALF <= WORD \div 2 /\ WORD <= DOUBLE \div 2
<1> DEFINE n == WORD_BITS \div 2
<1>1. n \in Nat /\ n >= 1 /\ WORD_BITS = n + n /\ 2 * WORD_BITS = (n + n) + (n + n)
    BY WordBitsAssumption
<1>2. HALF = Pow2[n] /\ WORD = Pow2[n + n] /\ DOUBLE = Pow2[(n + n) + (n + n)]
    BY <1>1 DEF HALF, WORD, DOUBLE
<1> HIDE DEF n
<1>3. WORD = HALF * HALF /\ DOUBLE = WORD * WORD
    BY <1>1, <1>2, PowersMultiply
<1>4. HALF \in Nat /\ WORD \in Nat /\ DOUBLE \in Nat
    BY <1>1, <1>2, PowerOfTwo
<1>5. PICK h \in Nat : HALF = 2 * h /\ h >= 1
  <2>1. n - 1 \in Nat /\ (n - 1) + 1 = n
      BY <1>1
  <2>2. Pow2[n] = 2 * Pow2[n - 1] /\ Pow2[n - 1] \in Nat /\ Pow2[n - 1] >= 1
      BY <2>1, PowerOfTwo
  <2> QED
      BY <1>2, <2>2
<1>6. HALF \div 2 = h
    BY <1>5
<1>7. WORD = 2 * (h * HALF) /\ h * HALF \in Nat /\ h * HALF >= HALF
  <2>1. h * HALF >= HALF
      BY <1>4, <1>5
  <2> QED
      BY <1>3, <1>4, <1>5, <2>1
<1>8. WORD \div 2 = h * HALF
    BY <1>7
<1>9. /\ DOUBLE = 2 * ((h * HALF) * WORD)
      /\ (h * HALF) * WORD \in Nat
      /\ (h * HALF) * WORD >= WORD
  <2> DEFINE v == h * HALF
  <2>1. v \in Nat /\ v >= 1 /\ WORD = 2 * v
      BY <1>4, <1>5, <1>7
  <2> HIDE DEF v
  <2>2. DOUBLE = 2 * (v * WORD) /\ v * WORD \in Nat /\ v * WORD >= WORD
      BY <1>3, <1>4, <2>1
  <2> QED
      BY <2>2 DEF v
<1>10. DOUBLE \div 2 = (h * HALF) * WORD
    BY <1>9
<1> QED
    BY <1>3, <1>4, <1>5, <1>6, <1>7, <1>8, <1>9, <1>10

-----------------------------------------------------------------------------
(* Quotients and remainders.  Division rounds down. *)

LEMMA Divides ==
    ASSUME NEW a \in Int, NEW b \in Nat, b >= 1
    PROVE  /\ a \div b \in Int
           /\ a % b \in Nat /\ a % b < b
           /\ a = b * (a \div b) + (a % b)
    OBVIOUS

\* They are the only ones.
LEMMA DivisionUnique ==
    ASSUME NEW b \in Nat, b >= 1, NEW q \in Int, NEW r \in Nat, r < b,
           NEW a \in Int, a = b * q + r
    PROVE  a \div b = q /\ a % b = r
<1> DEFINE k == a \div b
           s == a % b
<1>1. k \in Int /\ s \in Nat /\ s < b /\ a = b * k + s
    BY Divides
<1> HIDE DEF k, s
<1>2. b * (k - q) = r - s
    BY <1>1
<1>3. k = q
  <2>1. CASE k - q >= 1
    <3>1. b * (k - q) >= b
        BY <1>1, <2>1
    <3> QED
        BY <1>1, <1>2, <3>1
  <2>2. CASE k - q <= -1
    <3>1. b * (q - k) >= b
        BY <1>1, <2>2
    <3>2. b * (q - k) = s - r
        BY <1>1
    <3> QED
        BY <1>1, <3>1, <3>2
  <2> QED
      BY <1>1, <2>1, <2>2
<1> QED
    BY <1>1, <1>3 DEF k, s

\* A number in range is its own remainder, and so is a remainder.
LEMMA RemainderOfSmall ==
    ASSUME NEW b \in Nat, b >= 1, NEW a \in Nat, a < b
    PROVE  a % b = a
    BY DivisionUnique

\* A multiple added to a number leaves its remainder.
LEMMA RemainderOfSum ==
    ASSUME NEW b \in Nat, b >= 1, NEW a \in Int, NEW k \in Int, NEW c \in Int, c = a + b * k
    PROVE  c % b = a % b
<1> DEFINE q == a \div b
           r == a % b
<1>1. q \in Int /\ r \in Nat /\ r < b /\ a = b * q + r
    BY Divides
<1> HIDE DEF q, r
<1>2. c = b * (q + k) + r /\ q + k \in Int
    BY <1>1
<1>3. c % b = r
    BY <1>1, <1>2, DivisionUnique
<1> QED
    BY <1>3 DEF r

\* The quotient of a natural number is no larger.
LEMMA QuotientShrinks ==
    ASSUME NEW a \in Nat, NEW b \in Nat, b >= 1
    PROVE  a \div b \in Nat /\ a \div b <= a
<1> DEFINE q == a \div b
           r == a % b
<1>1. q \in Int /\ r \in Nat /\ r < b /\ a = b * q + r
    BY Divides
<1> HIDE DEF q, r
<1>2. q >= 0
  <2>1. CASE q <= -1
    <3>1. b * (-q) >= b
        BY <2>1, <1>1
    <3> QED
        BY <1>1, <3>1
  <2> QED
      BY <1>1, <2>1
<1>3. b * q >= q
    BY <1>1, <1>2
<1>4. q \in Nat /\ q <= a
    BY <1>1, <1>2, <1>3
<1> QED
    BY <1>4 DEF q

-----------------------------------------------------------------------------
(* Bitwise AND. *)

\* The low bits, one more of them.
LEMMA OneMoreBit ==
    ASSUME NEW x \in Nat, NEW p \in Nat, p >= 1
    PROVE  /\ (x \div p) % 2 \in {0, 1}
           /\ x % (2 * p) = (x % p) + ((x \div p) % 2) * p
<1> DEFINE q == x \div p
           r == x % p
           bit == q % 2
           half == q \div 2
           d == 2 * p
<1>1. q \in Int /\ r \in Nat /\ r < p /\ x = p * q + r
    BY Divides
<1> HIDE DEF q, r
<1>2. half \in Int /\ bit \in {0, 1} /\ q = 2 * half + bit
    BY <1>1
<1> HIDE DEF half, bit
<1>3. ASSUME bit = 0 PROVE x % d = r + bit * p
  <2>1. /\ x = d * half + r /\ r < d /\ d \in Nat /\ d >= 1
        /\ half \in Int /\ r \in Nat
      BY <1>1, <1>2, <1>3
  <2> HIDE DEF d
  <2>2. x % d = r
      BY <2>1, DivisionUnique
  <2>3. bit * p = 0
      BY <1>3
  <2>4. x % d = r + bit * p
      BY <1>1, <2>2, <2>3
  <2> QED
      BY <2>4
<1>4. ASSUME bit = 1 PROVE x % d = r + bit * p
  <2>1. /\ x = d * half + (p + r) /\ p + r \in Nat /\ p + r < d /\ d \in Nat /\ d >= 1
        /\ half \in Int /\ r \in Nat
      BY <1>1, <1>2, <1>4
  <2> HIDE DEF d
  <2>2. x % d = p + r
      BY <2>1, DivisionUnique
  <2>3. bit * p = p
      BY <1>4
  <2>4. x % d = r + bit * p
      BY <1>1, <2>2, <2>3
  <2> QED
      BY <2>4
<1>5. bit \in {0, 1} /\ x % d = r + bit * p
    BY <1>2, <1>3, <1>4
<1> QED
    BY <1>5 DEF r, bit, q

\* The bits that both have, counted from the lowest.
LEMMA CommonBits ==
    ASSUME NEW x \in Nat, NEW y \in Nat
    PROVE  \E common :
               /\ common[2 * WORD_BITS] = BitAnd(x, y)
               /\ common[0] = 0
               /\ \A k \in Nat :
                      common[k + 1] = common[k] + Bit(x, k) * Bit(y, k) * Pow2[k]
<1> DEFINE term(k) == Bit(x, k) * Bit(y, k) * Pow2[k]
           step == [k \in Nat |-> [m \in Nat |-> m + term(k)]]
<1>1. \A k \in Nat : term(k) \in Nat
  <2> SUFFICES ASSUME NEW k \in Nat PROVE term(k) \in Nat
      OBVIOUS
  <2>1. Pow2[k] \in Nat /\ Pow2[k] >= 1
      BY PowerOfTwo
  <2>2. Bit(x, k) \in {0, 1} /\ Bit(y, k) \in {0, 1}
      BY <2>1, OneMoreBit DEF Bit
  <2>3. Bit(x, k) * Bit(y, k) \in {0, 1}
      BY <2>2
  <2> QED
      BY <2>1, <2>3
<1> HIDE DEF term
<1>2. step \in [Nat -> [Nat -> Nat]]
    BY <1>1
<1>3. PICK g \in [Nat -> Nat] : Follows(g, 0, step)
  <2> HIDE DEF step
  <2> QED
      BY <1>2, PrimitiveRecursion
<1>4. ASSUME NEW k \in Nat PROVE g[k] = IF k = 0 THEN 0 ELSE g[k - 1] + term(k - 1)
  <2>1. CASE k = 0
      BY <1>3, <2>1 DEF Follows
  <2>2. CASE k # 0
    <3>1. k - 1 \in Nat /\ (k - 1) + 1 = k
        BY <2>2
    <3>2. g[(k - 1) + 1] = step[k - 1][g[k - 1]]
      <4> HIDE DEF step
      <4> QED
          BY <1>3, <3>1 DEF Follows
    <3>3. g[k - 1] \in Nat
        BY <1>3, <3>1
    <3> QED
        BY <2>2, <3>1, <3>2, <3>3
  <2> QED
      BY <2>1, <2>2
<1> DEFINE body(c) == [k \in Nat |-> IF k = 0 THEN 0 ELSE c[k - 1] + term(k - 1)]
           common == CHOOSE c : c = body(c)
<1>5. g = body(g)
    BY <1>3, <1>4
<1>6. common = body(common)
  <2> HIDE DEF body
  <2> QED
      BY <1>5
<1>7. BitAnd(x, y) = common[2 * WORD_BITS]
    BY DEF BitAnd, term
<1> HIDE DEF common
<1>8. common[0] = 0
    BY <1>6
<1>9. ASSUME NEW k \in Nat PROVE common[k + 1] = common[k] + term(k)
  <2>1. k + 1 \in Nat /\ k + 1 # 0 /\ (k + 1) - 1 = k
      OBVIOUS
  <2> QED
      BY <1>6, <2>1
<1> QED
    BY <1>7, <1>8, <1>9 DEF term

\* AND keeps below both operands, and OR, which is the rest of their sum, below the
\* power of two that bounds them.
LEMMA BitAndBounds ==
    ASSUME NEW x \in Nat, NEW y \in Nat, x < DOUBLE, y < DOUBLE
    PROVE  /\ BitAnd(x, y) \in Nat
           /\ BitAnd(x, y) <= x /\ BitAnd(x, y) <= y
           /\ (x + y) - BitAnd(x, y) < DOUBLE
<1>1. PICK common :
          /\ common[2 * WORD_BITS] = BitAnd(x, y)
          /\ common[0] = 0
          /\ \A k \in Nat : common[k + 1] = common[k] + Bit(x, k) * Bit(y, k) * Pow2[k]
    BY CommonBits
<1> DEFINE S == {k \in Nat : /\ common[k] \in Nat
                             /\ common[k] <= x % Pow2[k] /\ common[k] <= y % Pow2[k]
                             /\ ((x % Pow2[k]) + (y % Pow2[k])) - common[k] < Pow2[k]}
<1>2. 0 \in S
  <2>1. Pow2[0] = 1
      BY PowerOfTwo
  <2>2. x % 1 = 0 /\ y % 1 = 0
      OBVIOUS
  <2>3. x % Pow2[0] = 0 /\ y % Pow2[0] = 0
      BY <2>1, <2>2, Zenon
  <2>4. common[0] = 0
      BY <1>1
  <2> QED
      BY <2>1, <2>3, <2>4
<1>3. ASSUME NEW k \in Nat, k \in S PROVE k + 1 \in S
  <2> DEFINE p == Pow2[k]
             c == common[k]
             a == x % p
             b == y % p
             u == (x \div p) % 2
             v == (y \div p) % 2
  <2>1. p \in Nat /\ p >= 1 /\ Pow2[k + 1] = 2 * p
      BY PowerOfTwo
  <2>2. common[k + 1] = c + u * v * p
      BY <1>1 DEF Bit
  <2>3. u \in {0, 1} /\ v \in {0, 1} /\ x % (2 * p) = a + u * p /\ y % (2 * p) = b + v * p
      BY <2>1, OneMoreBit
  <2>4. c \in Nat /\ c <= a /\ c <= b /\ (a + b) - c < p /\ a \in Nat /\ b \in Nat
      BY <1>3, <2>1, Divides
  <2> HIDE DEF p, c, a, b, u, v
  <2>5. /\ c + u * v * p \in Nat
        /\ c + u * v * p <= a + u * p /\ c + u * v * p <= b + v * p
        /\ ((a + u * p) + (b + v * p)) - (c + u * v * p) < 2 * p
    <3>1. CASE u = 0 /\ v = 0
        BY <2>1, <2>4, <3>1
    <3>2. CASE u = 1 /\ v = 0
        BY <2>1, <2>4, <3>2
    <3>3. CASE u = 0 /\ v = 1
        BY <2>1, <2>4, <3>3
    <3>4. CASE u = 1 /\ v = 1
        BY <2>1, <2>4, <3>4
    <3> QED
        BY <2>3, <3>1, <3>2, <3>3, <3>4
  <2> QED
      BY <2>1, <2>2, <2>3, <2>5
<1> HIDE DEF S
<1>4. 2 * WORD_BITS \in S
  <2>1. 2 * WORD_BITS \in Nat
      BY WordBitsAssumption
  <2> QED
      BY <1>2, <1>3, <2>1, NaturalInduction
<1>5. x % DOUBLE = x /\ y % DOUBLE = y
    BY Widths, RemainderOfSmall
<1> QED
    BY <1>1, <1>4, <1>5 DEF S, DOUBLE

-----------------------------------------------------------------------------
(* Every result fits its lane. *)

\* A remainder of the lane is in the lane.
LEMMA ScalarRemainder ==
    /\ \A x \in Int : x % DOUBLE \in Scalar
    /\ \A x \in Scalar : x \in Nat /\ x < DOUBLE /\ x % DOUBLE = x
    /\ {0, 1, DOUBLE - 1} \subseteq Scalar
<1>1. DOUBLE \in Nat /\ DOUBLE >= 8
  <2>1. WORD >= 4
      BY Widths
  <2> QED
      BY <2>1, Widths
<1>2. ASSUME NEW x \in Int PROVE x % DOUBLE \in Scalar
    BY <1>1, Divides DEF Scalar
<1>3. ASSUME NEW x \in Scalar PROVE x \in Nat /\ x < DOUBLE /\ x % DOUBLE = x
  <2>1. x \in Nat /\ x < DOUBLE
      BY <1>1 DEF Scalar
  <2> QED
      BY <1>1, <2>1, RemainderOfSmall
<1>4. {0, 1, DOUBLE - 1} \subseteq Scalar
    BY <1>1 DEF Scalar
<1> QED
    BY <1>2, <1>3, <1>4

\* The signed readings of a number are in their ranges, and leave its remainder alone.
LEMMA SignedRange ==
    ASSUME NEW x \in Int
    PROVE  /\ SignedWord(x) \in Int
           /\ -(WORD \div 2) <= SignedWord(x) /\ SignedWord(x) < WORD \div 2
           /\ SignedScalar(x) \in Int
           /\ SignExtend(x) \in Scalar
<1>1. x % WORD \in Nat /\ x % WORD < WORD /\ x % DOUBLE \in Nat /\ x % DOUBLE < DOUBLE
    BY Widths, Divides
<1>2. /\ SignedWord(x) \in Int
      /\ -(WORD \div 2) <= SignedWord(x) /\ SignedWord(x) < WORD \div 2
    BY <1>1, Widths DEF SignedWord
<1>3. SignedScalar(x) \in Int
    BY <1>1, Widths DEF SignedScalar
<1>4. SignExtend(x) \in Scalar
    BY <1>2, ScalarRemainder DEF SignExtend
<1> QED
    BY <1>2, <1>3, <1>4

\* The bitwise operators stay in the lane.
LEMMA BitwiseInLane ==
    ASSUME NEW x \in Scalar, NEW y \in Scalar
    PROVE  /\ BitAnd(x, y) \in Scalar /\ BitOr(x, y) \in Scalar /\ BitXor(x, y) \in Scalar
           /\ DOUBLE - 1 - BitOr(x, y) \in Scalar
<1> DEFINE a == BitAnd(x, y)
<1>1. x \in Nat /\ y \in Nat /\ x < DOUBLE /\ y < DOUBLE /\ DOUBLE \in Nat
    BY ScalarRemainder, Widths
<1>2. a \in Nat /\ a <= x /\ a <= y /\ (x + y) - a < DOUBLE
    BY <1>1, BitAndBounds
<1> HIDE DEF a
<1>3. a \in 0 .. DOUBLE - 1 /\ (x + y) - a \in 0 .. DOUBLE - 1
    BY <1>1, <1>2
<1>4. (x + y) - 2 * a \in 0 .. DOUBLE - 1
    BY <1>1, <1>2
<1>5. DOUBLE - 1 - ((x + y) - a) \in 0 .. DOUBLE - 1
    BY <1>1, <1>2
<1>6. BitOr(x, y) = (x + y) - a /\ BitXor(x, y) = (x + y) - 2 * a
    BY <1>1, <1>2 DEF BitOr, BitXor, a
<1> QED
    BY <1>3, <1>4, <1>5, <1>6 DEF Scalar, a

\* The scalar lane of every result, of any operation on any operands.
LEMMA ScalarResultType ==
    ASSUME NEW op, NEW f, f.imm \in Nat, f.sa \in Nat, NEW s \in Scalar, NEW t \in Scalar,
           NEW hilo \in [HiLo -> Scalar]
    PROVE  ScalarResult(op, f, s, t, hilo) \in Scalar
<1> DEFINE R(name) == ScalarResult(name, f, s, t, hilo) \in Scalar
<1>1. s \in Nat /\ t \in Nat /\ s < DOUBLE /\ t < DOUBLE
    BY ScalarRemainder
<1>2. \A x \in Int : SignExtend(x) \in Scalar /\ x % DOUBLE \in Scalar
  <2> TAKE x \in Int
  <2> QED
      BY SignedRange, ScalarRemainder
<1>3. /\ s % WORD \in Nat /\ t % WORD \in Nat
      /\ s % WORD \in Int /\ t % WORD \in Int
      /\ SignedWord(s) \in Int /\ SignedWord(t) \in Int
      /\ SignedScalar(s) \in Int /\ SignedScalar(t) \in Int
  <2>1. WORD \in Nat /\ WORD >= 1
      BY Widths
  <2>2. s % WORD \in Nat /\ t % WORD \in Nat
      BY <1>1, <2>1, Divides
  <2> QED
      BY <1>1, <2>2, SignedRange
<1>4. /\ Sa(f) \in Nat /\ HighSa(f) \in Nat
      /\ s % WORD_BITS \in Nat /\ s % (2 * WORD_BITS) \in Nat
  <2>1. WORD_BITS \in Nat /\ WORD_BITS >= 1 /\ 2 * WORD_BITS \in Nat /\ 2 * WORD_BITS >= 1
      BY WordBitsAssumption
  <2>2. f.sa % WORD_BITS \in Nat /\ s % WORD_BITS \in Nat /\ s % (2 * WORD_BITS) \in Nat
    <3> HIDE DEF R
    <3> QED
        BY <1>1, <2>1, Divides
  <2> QED
      BY <2>1, <2>2 DEF Sa, HighSa
<1>5. \A k \in Nat : Pow2[k] \in Nat /\ Pow2[k] >= 1
    BY PowerOfTwo
<1>6. \A n \in Nat : \A k \in Nat : n * Pow2[k] \in Int
    BY <1>5
<1>7. \A n \in Int : \A k \in Nat : n \div Pow2[k] \in Int
    BY <1>5, Divides
<1>8. \A k \in Nat : t \div Pow2[k] \in Scalar
  <2> TAKE k \in Nat
  <2>1. t \div Pow2[k] \in Nat /\ t \div Pow2[k] <= t
      BY <1>1, <1>5, QuotientShrinks
  <2> QED
      BY <1>1, <2>1, Widths DEF Scalar
<1>9. /\ ZeroExtendedImm(f) \in Nat /\ ZeroExtendedImm(f) < HALF
      /\ SignedImm(f) \in Int
  <2>1. f.imm % HALF \in Nat /\ f.imm % HALF < HALF
      BY Widths, Divides
  <2> QED
      BY <2>1, Widths DEF ZeroExtendedImm, SignedImm
<1>10. ZeroExtendedImm(f) \in Scalar
    BY <1>9, Widths DEF Scalar
<1>11. {0, 1} \subseteq Scalar
    BY ScalarRemainder
<1>12. 0 \in Scalar /\ hilo["hi"] \in Scalar /\ hilo["lo"] \in Scalar /\ hilo["hi1"] \in Scalar
    BY ScalarRemainder DEF HiLo
<1>13. ZeroExtendedImm(f) * HALF \in Int
    BY <1>9, Widths
<1>14. R("SLL") /\ R("SLLV")
    BY <1>2, <1>3, <1>4, <1>6 DEF ScalarResult
<1>15. R("SRL") /\ R("SRLV")
    BY <1>2, <1>3, <1>4, <1>7 DEF ScalarResult
<1>16. R("SRA") /\ R("SRAV")
    BY <1>2, <1>3, <1>4, <1>7 DEF ScalarResult
<1>17. R("DSLLV") /\ R("DSLL") /\ R("DSLL32") /\ R("DSRAV") /\ R("DSRA") /\ R("DSRA32")
    BY <1>1, <1>2, <1>3, <1>4, <1>6, <1>7 DEF ScalarResult
<1>18. R("DSRLV") /\ R("DSRL") /\ R("DSRL32")
    BY <1>4, <1>8 DEF ScalarResult
<1>19. R("LUI")
    BY <1>2, <1>13 DEF ScalarResult
<1>20. R("ORI") /\ R("ANDI") /\ R("XORI")
    BY <1>10, BitwiseInLane DEF ScalarResult
<1>21. R("ADDIU") /\ R("DADDIU")
    BY <1>1, <1>2, <1>3, <1>9 DEF ScalarResult
<1>22. R("ADDU") /\ R("DADDU") /\ R("SUBU") /\ R("DSUBU")
    BY <1>1, <1>2, <1>3 DEF ScalarResult
<1>23. R("AND") /\ R("OR") /\ R("XOR") /\ R("NOR")
    BY BitwiseInLane DEF ScalarResult
<1>24. R("SLT") /\ R("SLTU") /\ R("SLTI") /\ R("SLTIU")
    BY <1>11 DEF ScalarResult, Flag
<1>25. R("MULT") /\ R("MULT1") /\ R("MULTU") /\ R("MULTU1")
    BY <1>2, <1>3 DEF ScalarResult
<1>26. R("MFHI") /\ R("MFLO") /\ R("MFHI1")
    BY <1>12 DEF ScalarResult
<1>27. op \notin {"SLL", "SLLV", "SRL", "SRLV", "SRA", "SRAV", "DSLLV", "DSLL", "DSLL32",
               "DSRAV", "DSRA", "DSRA32", "DSRLV", "DSRL", "DSRL32", "LUI", "ORI",
               "ANDI", "XORI", "ADDIU", "DADDIU", "ADDU", "DADDU", "SUBU", "DSUBU",
               "AND", "OR", "XOR", "NOR", "SLT", "SLTU", "SLTI", "SLTIU", "MULT",
               "MULT1", "MULTU", "MULTU1", "MFHI", "MFLO", "MFHI1"}
       => R(op)
    BY <1>12 DEF ScalarResult
<1> HIDE DEF R
<1>28. R(op)
    BY <1>14, <1>15, <1>16, <1>17, <1>18, <1>19, <1>20, <1>21, <1>22, <1>23, <1>24, <1>25, <1>26, <1>27
<1> QED
    BY <1>28 DEF R

\* Signed division of numbers gives numbers.
LEMMA QuotientType ==
    ASSUME NEW a \in Int, NEW b \in Int, b # 0
    PROVE  Quotient(a, b) \in Int /\ Remainder(a, b) \in Int
<1>1. Abs(a) \in Nat /\ Abs(b) \in Nat /\ Abs(b) >= 1
    BY DEF Abs
<1>2. Abs(a) \div Abs(b) \in Nat
    BY <1>1, QuotientShrinks
<1>3. Quotient(a, b) \in Int
    BY <1>2 DEF Quotient
<1> QED
    BY <1>3 DEF Remainder

\* What is written to HI and LO fits them.
LEMMA HiLoWritesType ==
    ASSUME NEW op, NEW s \in Scalar, NEW t \in Scalar
    PROVE  LET written == HiLoWrites(op, s, t)
           IN  /\ written = [n \in DOMAIN written |-> written[n]]
               /\ DOMAIN written \subseteq HiLo
               /\ \A n \in DOMAIN written : written[n] \in Scalar
<1> DEFINE a == Operand(op, s)
           b == Operand(op, t)
           pair(r) == IF op \in Secondary
                      THEN [n \in {"hi1", "lo1"} |-> IF n = "hi1" THEN r.high ELSE r.low]
                      ELSE [n \in {"hi", "lo"} |-> IF n = "hi" THEN r.high ELSE r.low]
           Fits(w) == /\ w = [n \in DOMAIN w |-> w[n]]
                      /\ DOMAIN w \subseteq HiLo
                      /\ \A n \in DOMAIN w : w[n] \in Scalar
<1>1. s \in Int /\ t \in Int
    BY ScalarRemainder
<1>2. a \in Int /\ b \in Int
  <2>1. s % WORD \in Int /\ t % WORD \in Int
    <3>1. WORD \in Nat /\ WORD >= 1
        BY Widths
    <3> QED
        BY <1>1, <3>1, Divides
  <2> QED
      BY <1>1, <2>1, SignedRange DEF Operand
<1> HIDE DEF a, b
<1>3. ASSUME NEW r, r.high \in Scalar, r.low \in Scalar PROVE Fits(pair(r))
    BY <1>3 DEF HiLo
<1>4. Product(op, s, t).high \in Scalar /\ Product(op, s, t).low \in Scalar
  <2>1. a * b \in Int
      BY <1>2
  <2>2. (a * b) % DOUBLE \in Int
      BY <2>1, ScalarRemainder DEF Scalar
  <2>3. ((a * b) % DOUBLE) \div WORD \in Int
    <3>1. WORD \in Nat /\ WORD >= 1
        BY Widths
    <3> QED
        BY <2>2, <3>1, Divides
  <2>4. SignExtend(((a * b) % DOUBLE) \div WORD) \in Scalar /\ SignExtend(a * b) \in Scalar
      BY <2>1, <2>3, SignedRange
  <2> QED
      BY <2>4 DEF Product, a, b
<1>5. Division(op, s, t).high \in Scalar /\ Division(op, s, t).low \in Scalar
  <2>1. SignExtend(a) \in Scalar /\ {0, 1, DOUBLE - 1} \subseteq Scalar
      BY <1>2, SignedRange, ScalarRemainder
  <2>2. CASE b = 0
      BY <2>1, <2>2 DEF Division, a, b
  <2>3. CASE b # 0
    <3>1. SignExtend(Quotient(a, b)) \in Scalar /\ SignExtend(Remainder(a, b)) \in Scalar
        BY <1>2, <2>3, QuotientType, SignedRange
    <3> QED
        BY <2>1, <2>3, <3>1 DEF Division, a, b
  <2> QED
      BY <2>2, <2>3
<1>6. CASE op \in Multiply
  <2>1. HiLoWrites(op, s, t) = pair(Product(op, s, t))
      BY <1>6 DEF HiLoWrites, Multiply, Divide
  <2> HIDE DEF pair, Fits
  <2>2. Fits(HiLoWrites(op, s, t))
      BY <1>3, <1>4, <2>1
  <2> QED
      BY <2>2 DEF Fits
<1>7. CASE op \in Divide
  <2>1. HiLoWrites(op, s, t) = pair(Division(op, s, t))
      BY <1>7 DEF HiLoWrites, Multiply, Divide
  <2> HIDE DEF pair, Fits
  <2>2. Fits(HiLoWrites(op, s, t))
      BY <1>3, <1>5, <2>1
  <2> QED
      BY <2>2 DEF Fits
<1>8. CASE op \notin Multiply \cup Divide
    BY <1>8 DEF HiLoWrites, HiLo
<1> QED
    BY <1>6, <1>7, <1>8

\* A register number, a shift amount and an immediate, whatever the word.
LEMMA FieldRanges ==
    ASSUME NEW w \in [0 .. 3 -> 0 .. 255]
    PROVE  /\ Fields(w).rs \in 0 .. 31 /\ Fields(w).rt \in 0 .. 31
           /\ Fields(w).rd \in 0 .. 31 /\ Fields(w).sa \in 0 .. 31
           /\ Fields(w).imm \in Nat
<1>1. w[0] \in 0 .. 255 /\ w[1] \in 0 .. 255 /\ w[2] \in 0 .. 255 /\ w[3] \in 0 .. 255
    OBVIOUS
<1>2. /\ Fields(w).rs = (w[3] % 4) * 8 + w[2] \div 32
      /\ Fields(w).rt = w[2] % 32
      /\ Fields(w).rd = w[1] \div 8
      /\ Fields(w).sa = (w[1] % 8) * 4 + w[0] \div 64
      /\ Fields(w).imm = w[1] * 256 + w[0]
    BY DEF Fields
<1>3. Fields(w).rs \in 0 .. 31
    BY <1>1, <1>2
<1>4. Fields(w).rt \in 0 .. 31
    BY <1>1, <1>2
<1>5. Fields(w).rd \in 0 .. 31
    BY <1>1, <1>2
<1>6. Fields(w).sa \in 0 .. 31
    BY <1>1, <1>2
<1>7. Fields(w).imm \in Nat
  <2>1. w[1] \in Nat /\ w[0] \in Nat
      BY <1>1
  <2>2. w[1] * 256 + w[0] \in Nat
      BY <2>1
  <2> QED
      BY <1>2, <2>2
<1> QED
    BY <1>3, <1>4, <1>5, <1>6, <1>7

\* Every output of the execute block has the width of the register it is written to, for
\* every word, operation and operands (r5900_execute.sv:167-1022): no result of any
\* width is left wider than its lane.
THEOREM ResultsFit ==
    ASSUME NEW op, NEW w \in [0 .. 3 -> 0 .. 255], NEW s \in Scalar, NEW t \in Scalar,
           NEW hilo \in [HiLo -> Scalar]
    PROVE  LET effect == Execute(op, w, s, t, hilo)
           IN  /\ effect.commit \in BOOLEAN
               /\ effect.destination \in 0 .. 31
               /\ effect.scalar \in Scalar
               /\ effect.hilo = [n \in DOMAIN effect.hilo |-> effect.hilo[n]]
               /\ DOMAIN effect.hilo \subseteq HiLo
               /\ \A n \in DOMAIN effect.hilo : effect.hilo[n] \in Scalar
<1> DEFINE f == Fields(w)
<1>1. f.imm \in Nat /\ f.sa \in Nat /\ f.rt \in 0 .. 31 /\ f.rd \in 0 .. 31
    BY FieldRanges
<1>2. ScalarResult(op, f, s, t, hilo) \in Scalar /\ 0 \in Scalar
  <2> HIDE DEF f
  <2> QED
      BY <1>1, ScalarResultType, ScalarRemainder
<1>3. WritebackCommit(op, w) \in BOOLEAN
    BY DEF WritebackCommit
<1>4. WritebackDestination(op, w) \in 0 .. 31 /\ 0 \in 0 .. 31
    BY <1>1 DEF WritebackDestination
<1>5. CASE ExecuteAccepts(op, w)
  <2>1. Execute(op, w, s, t, hilo) =
          [complete |-> TRUE,
           commit |-> WritebackCommit(op, w),
           destination |-> IF WritebackCommit(op, w) \/ op \in Multiply
                           THEN WritebackDestination(op, w) ELSE 0,
           scalar |-> ScalarResult(op, f, s, t, hilo),
           hilo |-> HiLoWrites(op, s, t)]
      BY <1>5 DEF Execute
  <2> HIDE DEF f
  <2> QED
      BY <1>2, <1>3, <1>4, <2>1, HiLoWritesType
<1>6. CASE ~ExecuteAccepts(op, w)
    BY <1>2, <1>4, <1>6 DEF Execute
<1> QED
    BY <1>5, <1>6
\* The signed reading of a word leaves a number in range alone, and sees only the word.
LEMMA SignedOfSigned ==
    ASSUME NEW x \in Int, -(WORD \div 2) <= x, x < WORD \div 2
    PROVE  SignedWord(x) = x /\ SignExtend(x) = x % DOUBLE
<1>1. WORD \in Nat /\ WORD >= 1 /\ WORD = 2 * (WORD \div 2) /\ WORD \div 2 \in Nat
    BY Widths
<1>2. CASE x >= 0
  <2>1. x % WORD = x
      BY <1>1, <1>2, RemainderOfSmall
  <2> QED
      BY <1>1, <1>2, <2>1 DEF SignedWord, SignExtend
<1>3. CASE x < 0
  <2>1. x + WORD \in Nat /\ x + WORD < WORD /\ x = WORD * (-1) + (x + WORD)
      BY <1>1, <1>3
  <2>2. x % WORD = x + WORD
      BY <1>1, <2>1, DivisionUnique
  <2> QED
      BY <1>1, <1>3, <2>1, <2>2 DEF SignedWord, SignExtend
<1> QED
    BY <1>2, <1>3

LEMMA SignedOfWord ==
    ASSUME NEW x \in Int
    PROVE  x % WORD \in Int /\ SignedWord(x % WORD) = SignedWord(x)
<1>1. WORD \in Nat /\ WORD >= 1
    BY Widths
<1>2. x % WORD \in Nat /\ x % WORD < WORD
    BY <1>1, Divides
<1>3. (x % WORD) % WORD = x % WORD
    BY <1>1, <1>2, RemainderOfSmall
<1> QED
    BY <1>2, <1>3 DEF SignedWord

\* The upper half of a product is the same word whether it is taken from the product or
\* from its remainder in the lane.
LEMMA UpperHalf ==
    ASSUME NEW p \in Int
    PROVE  /\ p \div WORD \in Int
           /\ SignExtend((p % DOUBLE) \div WORD) = SignExtend(p \div WORD)
<1>1. WORD \in Nat /\ WORD >= 1 /\ DOUBLE \in Nat /\ DOUBLE >= 1 /\ DOUBLE = WORD * WORD
    BY Widths
<1> DEFINE k == p \div WORD
           r == p % WORD
           j == k \div WORD
           i == k % WORD
<1>2. k \in Int /\ r \in Nat /\ r < WORD /\ p = WORD * k + r
    BY <1>1, Divides
<1> HIDE DEF k, r
<1>3. j \in Int /\ i \in Nat /\ i < WORD /\ k = WORD * j + i
    BY <1>1, <1>2, Divides
<1> HIDE DEF j, i
<1> DEFINE low == WORD * i + r
<1>4. low \in Nat /\ low < DOUBLE
  <2>1. WORD * i <= WORD * (WORD - 1) /\ WORD * i \in Nat
      BY <1>1, <1>3
  <2>2. WORD * (WORD - 1) = DOUBLE - WORD
      BY <1>1
  <2> QED
      BY <1>1, <1>2, <2>1, <2>2
<1>5. p = DOUBLE * j + low
  <2>1. WORD * k = WORD * (WORD * j) + WORD * i
      BY <1>1, <1>3
  <2>2. WORD * (WORD * j) = DOUBLE * j
      BY <1>1, <1>3
  <2>3. WORD * i \in Int /\ DOUBLE * j \in Int
      BY <1>1, <1>3
  <2> QED
      BY <1>2, <2>1, <2>2, <2>3
<1>6. low \div WORD = i
    BY <1>1, <1>2, <1>3, <1>4, DivisionUnique
<1> HIDE DEF low
<1>7. p % DOUBLE = low
    BY <1>1, <1>3, <1>4, <1>5, DivisionUnique
<1>8. SignedWord(i) = SignedWord(k)
  <2>1. i = k % WORD
      BY DEF i
  <2> QED
      BY <1>2, <2>1, SignedOfWord
<1> QED
    BY <1>2, <1>6, <1>7, <1>8 DEF SignExtend, k

\* Division of numbers without sign.
LEMMA UnsignedQuotient ==
    ASSUME NEW a \in Nat, NEW b \in Nat, b >= 1
    PROVE  Quotient(a, b) = a \div b /\ Remainder(a, b) = a % b
<1> DEFINE q == a \div b
           r == a % b
           e == q * b
<1>1. q \in Int /\ r \in Nat /\ a = b * q + r
    BY Divides
<1>2. Quotient(a, b) = q
    BY DEF Quotient, Abs
<1> HIDE DEF q, r
<1>3. a = e + r /\ e \in Int
    BY <1>1
<1>4. Remainder(a, b) = a - e
    BY <1>2 DEF Remainder
<1> HIDE DEF e
<1>5. a - e = r
    BY <1>1, <1>3
<1> QED
    BY <1>2, <1>4, <1>5 DEF q, r

\* A signed quotient and its remainder are words too, unless the most negative word is
\* divided by -1.
LEMMA SignedQuotientFits ==
    ASSUME NEW h \in Nat, NEW a \in Int, NEW b \in Int, b # 0,
           -h <= a, a < h, -h <= b, b < h, ~(a = -h /\ b = -1)
    PROVE  /\ -h <= Quotient(a, b) /\ Quotient(a, b) < h
           /\ -h <= Remainder(a, b) /\ Remainder(a, b) < h
<1> DEFINE m == Abs(a)
           n == Abs(b)
           q == m \div n
           r == m % n
           e == n * q
<1>1. /\ m \in Nat /\ n \in Nat /\ n >= 1 /\ m <= h /\ n <= h
      /\ a = IF a < 0 THEN -m ELSE m
      /\ b = IF b < 0 THEN -n ELSE n
    BY DEF Abs
<1>2. Quotient(a, b) = IF (a < 0) = (b < 0) THEN q ELSE -q
    BY DEF Quotient
<1> HIDE DEF m, n
<1>3. q \in Nat /\ q <= m /\ r \in Nat /\ r < n /\ m = e + r
    BY <1>1, Divides, QuotientShrinks
<1> HIDE DEF q, r
<1>4. e \in Nat
    BY <1>1, <1>3
<1>5. Remainder(a, b) = IF a < 0 THEN -r ELSE r
  <2>1. CASE a < 0 /\ b < 0
    <3>1. Quotient(a, b) = q /\ b = -n /\ a = -m
        BY <1>1, <1>2, <2>1
    <3>2. q * (-n) = -e
        BY <1>1, <1>3
    <3>3. Remainder(a, b) = -m - (-e)
        BY <3>1, <3>2 DEF Remainder
    <3> HIDE DEF e
    <3> QED
        BY <1>3, <1>4, <2>1, <3>3
  <2>2. CASE a < 0 /\ ~(b < 0)
    <3>1. Quotient(a, b) = -q /\ b = n /\ a = -m
        BY <1>1, <1>2, <2>2
    <3>2. (-q) * n = -e
        BY <1>1, <1>3
    <3>3. Remainder(a, b) = -m - (-e)
        BY <3>1, <3>2 DEF Remainder
    <3> HIDE DEF e
    <3> QED
        BY <1>3, <1>4, <2>2, <3>3
  <2>3. CASE ~(a < 0) /\ b < 0
    <3>1. Quotient(a, b) = -q /\ b = -n /\ a = m
        BY <1>1, <1>2, <2>3
    <3>2. (-q) * (-n) = e
        BY <1>1, <1>3
    <3>3. Remainder(a, b) = m - e
        BY <3>1, <3>2 DEF Remainder
    <3> HIDE DEF e
    <3> QED
        BY <1>3, <1>4, <2>3, <3>3
  <2>4. CASE ~(a < 0) /\ ~(b < 0)
    <3>1. Quotient(a, b) = q /\ b = n /\ a = m
        BY <1>1, <1>2, <2>4
    <3>2. q * n = e
        BY <1>1, <1>3
    <3>3. Remainder(a, b) = m - e
        BY <3>1, <3>2 DEF Remainder
    <3> HIDE DEF e
    <3> QED
        BY <1>3, <1>4, <2>4, <3>3
  <2> QED
      BY <2>1, <2>2, <2>3, <2>4
<1>6. q < h \/ (q = h /\ a < 0 /\ ~(b < 0))
  <2>1. CASE m < h
      BY <1>1, <1>3, <2>1
  <2>2. CASE m = h /\ n = 1
    <3>1. a = -h
        BY <1>1, <2>2
    <3> QED
        BY <1>1, <1>3, <2>2, <3>1
  <2>3. CASE m = h /\ n >= 2
    <3>1. e >= 2 * q
        BY <1>1, <1>3, <2>3
    <3> HIDE DEF e
    <3> QED
        BY <1>1, <1>3, <1>4, <2>3, <3>1
  <2> QED
      BY <1>1, <2>1, <2>2, <2>3
<1>7. r < h
    BY <1>1, <1>3
<1> QED
    BY <1>2, <1>3, <1>5, <1>6, <1>7

\* A number and its sum with the size of the lane are the same in the lane.
LEMMA LaneWraps ==
    ASSUME NEW x \in Int
    PROVE  (x + DOUBLE) % DOUBLE = x % DOUBLE
<1> DEFINE k == 1
           c == x + DOUBLE
<1>1. DOUBLE \in Nat /\ DOUBLE >= 1
    BY Widths
<1>2. k \in Int /\ c \in Int /\ c = x + DOUBLE * k
    BY <1>1
<1> HIDE DEF k, c
<1>3. c % DOUBLE = x % DOUBLE
    BY <1>1, <1>2, RemainderOfSum
<1> QED
    BY <1>3 DEF c
===============================================================================
