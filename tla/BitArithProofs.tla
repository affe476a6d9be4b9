--------------------------- MODULE BitArithProofs ---------------------------
(***************************************************************************)
(* Theorems about BitArith, for an int of any width: what the operations on *)
(* bits do to values, and that mul and dive compute what they are for.      *)
(***************************************************************************)
EXTENDS BitArith, FiniteSetTheorems, WellFoundedInduction, TLAPS

(* Induction, from the least number for which a claim fails.                *)
LEMMA LeastOne ==
  ASSUME NEW T \in SUBSET Nat, T # {} PROVE \E n \in T : \A m \in T : n <= m
<1> DEFINE R == {ss \in Nat \X Nat : ss[1] < ss[2]}
<1>1. IsWellFoundedOn(R, Nat)
  BY NatLessThanWellFounded DEF OpToRel
<1> HIDE DEF R
<1>2. PICK n \in T : \A m \in T : <<m, n>> \notin R
  BY <1>1, WFMin
<1>3. \A m \in T : ~(m < n)
  BY <1>2 DEF R
<1> QED
  BY <1>3

LEMMA Climb ==
  ASSUME NEW S, 0 \in S, \A n \in Nat : n \in S => n + 1 \in S PROVE Nat \subseteq S
<1> SUFFICES ASSUME Nat \ S # {} PROVE FALSE
  OBVIOUS
<1>1. PICK n \in Nat \ S : \A m \in Nat \ S : n <= m
  BY LeastOne
<1>2. n - 1 \in Nat /\ n - 1 + 1 = n /\ ~(n <= n - 1)
  BY <1>1
<1> QED
  BY <1>1, <1>2
-----------------------------------------------------------------------------
(* Powers of two.                                                           *)

(* The subsets of 1 .. n + 1 are those of 1 .. n, without and with n + 1.   *)
LEMMA SubsetsDouble ==
  ASSUME NEW n \in Nat, NEW B, B = SUBSET (1 .. n), IsFiniteSet(B)
  PROVE  Cardinality(SUBSET (1 .. n + 1)) = Cardinality(B) + Cardinality(B)
<1> DEFINE C == {s \in SUBSET (1 .. n + 1) : n + 1 \in s}
           f == [s \in B |-> s \cup {n + 1}]
<1>0. n + 1 \notin 1 .. n /\ n + 1 \in 1 .. n + 1 /\ 1 .. n \subseteq 1 .. n + 1
      /\ \A i \in 1 .. n + 1 : i # n + 1 => i \in 1 .. n
  OBVIOUS
<1>1. \A s \in B : s \cup {n + 1} \in C /\ (s \cup {n + 1}) \ {n + 1} = s
  BY <1>0
<1>2. \A t \in C : t \ {n + 1} \in B /\ (t \ {n + 1}) \cup {n + 1} = t
  BY <1>0
<1>3. SUBSET (1 .. n + 1) = B \cup C /\ B \cap C = {}
  <2>1. \A t \in SUBSET (1 .. n + 1) : n + 1 \notin t => t \in B
    BY <1>0
  <2>2. \A s \in B : s \in SUBSET (1 .. n + 1) /\ n + 1 \notin s
    BY <1>0
  <2> QED
    BY <2>1, <2>2
<1> HIDE DEF C
<1>4. f \in [B -> C]
  BY <1>1
<1>5. \A s, t \in B : f[s] = f[t] => s = t
  BY <1>1
<1>6. \A t \in C : \E s \in B : f[s] = t
  BY <1>2
<1>7. f \in Bijection(B, C)
  BY <1>4, <1>5, <1>6 DEF Bijection, Injection, IsInjective, Surjection
<1>8. IsFiniteSet(C) /\ Cardinality(C) = Cardinality(B)
  BY <1>7, FS_Bijection DEF ExistsBijection
<1>9. Cardinality(B \cup C) = Cardinality(B) + Cardinality(C) - Cardinality(B \cap C)
  BY <1>8, FS_Union
<1>10. Cardinality(B) \in Nat /\ Cardinality(B \cap C) = 0
  BY <1>3, FS_CardinalityType, FS_EmptySet
<1>11. Cardinality(SUBSET (1 .. n + 1)) = Cardinality(B) + Cardinality(B) - 0
  BY <1>3, <1>8, <1>9, <1>10, Zenon
<1>12. \A m \in Nat : m + m - 0 = m + m
  OBVIOUS
<1> QED
  BY <1>10, <1>11, <1>12, Zenon

LEMMA IntervalSize ==
  ASSUME NEW n \in Nat PROVE IsFiniteSet(1 .. n) /\ Cardinality(1 .. n) = n
<1>1. IsFiniteSet(1 .. n) /\ Cardinality(1 .. n) = IF 1 > n THEN 0 ELSE n - 1 + 1
  BY FS_Interval
<1> QED
  BY <1>1

LEMMA PowerStep == ASSUME NEW n \in Nat PROVE 2^n \in Nat /\ 2^(n + 1) = 2 * 2^n
<1>1. n + 1 \in Nat
  OBVIOUS
<1>2. /\ IsFiniteSet(SUBSET (1 .. n)) /\ Cardinality(SUBSET (1 .. n)) = 2^n
      /\ Cardinality(SUBSET (1 .. n + 1)) = 2^(n + 1)
  BY <1>1, IntervalSize, FS_SUBSET
<1>3. 2^n \in Nat
  BY <1>2, FS_CardinalityType
<1>4. 2^(n + 1) = 2^n + 2^n
  BY <1>2, SubsetsDouble
<1> QED
  BY <1>3, <1>4

LEMMA PowerZero == 2^0 = 1
<1>1. Cardinality(SUBSET {}) = 2^0
  BY FS_EmptySet, FS_SUBSET
<1>2. SUBSET {} = {{}}
  OBVIOUS
<1> QED
  BY <1>1, <1>2, FS_Singleton

LEMMA PowerPositive == \A n \in Nat : 2^n \in Nat \ {0}
<1> DEFINE S == {n \in Nat : 2^n \in Nat \ {0}}
<1>1. 0 \in S
  BY PowerZero
<1>2. ASSUME NEW n \in Nat, n \in S PROVE n + 1 \in S
  BY <1>2, PowerStep
<1> HIDE DEF S
<1>3. Nat \subseteq S
  BY <1>1, <1>2, Climb
<1> QED
  BY <1>3 DEF S

LEMMA PowerSum == \A i, j \in Nat : 2^(i + j) = 2^i * 2^j
<1> SUFFICES ASSUME NEW i \in Nat PROVE \A j \in Nat : 2^(i + j) = 2^i * 2^j
  OBVIOUS
<1> DEFINE S == {j \in Nat : 2^(i + j) = 2^i * 2^j}
<1>1. 0 \in S
  <2>1. 2^i \in Nat /\ i + 0 = i
    BY PowerPositive
  <2> QED
    BY <2>1, PowerZero
<1>2. ASSUME NEW j \in Nat, j \in S PROVE j + 1 \in S
  <2>1. i + (j + 1) = (i + j) + 1 /\ i + j \in Nat
    OBVIOUS
  <2>2. 2^(i + (j + 1)) = 2 * (2^i * 2^j) /\ 2^(j + 1) = 2 * 2^j
    BY <1>2, <2>1, PowerStep
  <2>3. \A p, q \in Nat : 2 * (p * q) = p * (2 * q)
    OBVIOUS
  <2> QED
    BY <2>2, <2>3, PowerPositive
<1> HIDE DEF S
<1>3. Nat \subseteq S
  BY <1>1, <1>2, Climb
<1> QED
  BY <1>3 DEF S
-----------------------------------------------------------------------------
(* Values.                                                                  *)

Places(a) == UNION {{i} \X (1 .. 2^i) : i \in a}

LEMMA WordFacts ==
  /\ W \in Nat /\ W - 1 \in Nat /\ W - 1 \in Bits /\ 0 \in Bits /\ W - 1 # 0 /\ W - 1 + 1 = W
  /\ \A i \in Bits : i \in Nat /\ i <= W - 1 /\ i < W
  /\ \A i \in Nat : i < W => i \in Bits
  /\ 2^W \in Nat \ {0} /\ 2^(W - 1) \in Nat \ {0} /\ 2^W = 2 * 2^(W - 1)
<1>1. /\ W \in Nat /\ W - 1 \in Nat /\ W - 1 \in Bits /\ 0 \in Bits /\ W - 1 # 0 /\ W - 1 + 1 = W
      /\ \A i \in Bits : i \in Nat /\ i <= W - 1 /\ i < W
      /\ \A i \in Nat : i < W => i \in Bits
  BY WidthAssumption DEF Bits
<1>2. 2^W \in Nat \ {0} /\ 2^(W - 1) \in Nat \ {0}
  BY <1>1, PowerPositive
<1>3. 2^(W - 1 + 1) = 2 * 2^(W - 1)
  BY <1>1, PowerStep
<1> QED
  BY <1>1, <1>2, <1>3

LEMMA PlacesUnion == \A a, i : i \in a => Places(a) = Places(a \ {i}) \cup ({i} \X (1 .. 2^i))
<1> SUFFICES ASSUME NEW a, NEW i, i \in a
             PROVE  Places(a) = Places(a \ {i}) \cup ({i} \X (1 .. 2^i))
  OBVIOUS
<1>1. \A p : p \in Places(a) <=> \E j \in a : p \in {j} \X (1 .. 2^j)
  BY Zenon DEF Places
<1>2. \A p : p \in Places(a \ {i}) <=> \E j \in a \ {i} : p \in {j} \X (1 .. 2^j)
  BY Zenon DEF Places
<1> HIDE DEF Places
<1> QED
  BY <1>1, <1>2, Zenon

LEMMA PlacesFinite == ASSUME NEW a \in Word PROVE IsFiniteSet(Places(a))
<1>1. \A i \in Bits : IsFiniteSet({i} \X (1 .. 2^i))
  BY WordFacts, PowerPositive, IntervalSize, FS_Singleton, FS_Product
<1> DEFINE S == {n \in Nat : \A b \in Word : (\A i \in b : i < n) => IsFiniteSet(Places(b))}
<1>2. 0 \in S
  <2> SUFFICES ASSUME NEW b \in Word, \A i \in b : i < 0 PROVE IsFiniteSet(Places(b))
    OBVIOUS
  <2>1. b = {}
    BY WordFacts DEF Word
  <2>2. Places(b) = {}
    BY <2>1 DEF Places
  <2> QED
    BY <2>2, FS_EmptySet
<1>3. ASSUME NEW n \in Nat, n \in S PROVE n + 1 \in S
  <2> SUFFICES ASSUME NEW b \in Word, \A i \in b : i < n + 1 PROVE IsFiniteSet(Places(b))
    OBVIOUS
  <2>1. b \ {n} \in Word /\ \A i \in b \ {n} : i < n
    BY WordFacts DEF Word
  <2>2. IsFiniteSet(Places(b \ {n}))
    BY <1>3, <2>1
  <2>3. CASE n \notin b
    <3>1. b \ {n} = b
      BY <2>3
    <3> QED
      BY <2>2, <3>1
  <2>4. CASE n \in b
    <3>1. Places(b) = Places(b \ {n}) \cup ({n} \X (1 .. 2^n))
      BY <2>4, PlacesUnion
    <3>2. IsFiniteSet({n} \X (1 .. 2^n))
      BY <1>1, <2>4 DEF Word
    <3>3. \A A, B : IsFiniteSet(A) /\ IsFiniteSet(B) => IsFiniteSet(A \cup B)
      BY FS_Union
    <3>4. IsFiniteSet(Places(b \ {n}) \cup ({n} \X (1 .. 2^n)))
      BY <2>2, <3>2, <3>3, Zenon
    <3> QED
      BY <3>1, <3>4, Zenon
  <2> QED
    BY <2>3, <2>4
<1> HIDE DEF S
<1>4. W \in S
  BY <1>2, <1>3, Climb, WordFacts
<1> QED
  BY <1>4, WordFacts DEF S, Word

LEMMA ValueIs == ASSUME NEW a \in Word PROVE Value[a] = Cardinality(Places(a)) /\ Value[a] \in Nat
<1>1. Value = [b \in Word |-> Cardinality(Places(b))]
  BY Zenon DEF Value, Places
<1>2. Cardinality(Places(a)) \in Nat
  BY PlacesFinite, FS_CardinalityType
<1> HIDE DEF Places
<1> QED
  BY <1>1, <1>2

LEMMA ValueEmpty == Value[{}] = 0
<1>1. {} \in Word /\ Places({}) = {}
  BY DEF Word, Places
<1> QED
  BY <1>1, ValueIs, FS_EmptySet

LEMMA ValueBit == ASSUME NEW i \in Bits PROVE {i} \in Word /\ Value[{i}] = 2^i
<1>1. {i} \in Word /\ Places({i}) = {i} \X (1 .. 2^i)
  BY DEF Word, Places
<1>2. 2^i \in Nat
  BY WordFacts, PowerPositive
<1>3. Cardinality({i} \X (1 .. 2^i)) = Cardinality({i}) * Cardinality(1 .. 2^i)
  <2>1. \A A, B : IsFiniteSet(A) /\ IsFiniteSet(B)
                   => Cardinality(A \X B) = Cardinality(A) * Cardinality(B)
    BY FS_Product
  <2> QED
    BY <1>2, <2>1, IntervalSize, FS_Singleton, Zenon
<1>4. Value[{i}] = Cardinality({i}) * Cardinality(1 .. 2^i)
  BY <1>1, <1>3, ValueIs, Zenon
<1>5. Value[{i}] = 1 * 2^i
  BY <1>2, <1>4, IntervalSize, FS_Singleton, Zenon
<1> QED
  BY <1>1, <1>2, <1>5

LEMMA ValueAdds ==
  ASSUME NEW a \in Word, NEW b \in Word, a \cap b = {}
  PROVE  a \cup b \in Word /\ Value[a \cup b] = Value[a] + Value[b]
<1>1. a \cup b \in Word
  BY DEF Word
<1>2. Places(a \cup b) = Places(a) \cup Places(b)
  BY DEF Places
<1>3. Places(a) \cap Places(b) = {}
  BY DEF Places
<1>4. Cardinality(Places(a) \cup Places(b))
        = Cardinality(Places(a)) + Cardinality(Places(b)) - Cardinality(Places(a) \cap Places(b))
  BY PlacesFinite, FS_Union
<1>5. Value[a \cup b] = Value[a] + Value[b] - 0
  BY <1>1, <1>2, <1>3, <1>4, ValueIs, FS_EmptySet, Zenon
<1> QED
  BY <1>1, <1>5, ValueIs

LEMMA ValueSplits ==
  ASSUME NEW a \in Word, NEW i \in a
  PROVE  /\ i \in Bits /\ a \ {i} \in Word /\ Value[a \ {i}] \in Nat
         /\ Value[a] = Value[a \ {i}] + 2^i /\ 2^i <= Value[a]
<1>1. i \in Bits /\ a \ {i} \in Word /\ {i} \in Word /\ (a \ {i}) \cup {i} = a
      /\ (a \ {i}) \cap {i} = {}
  BY DEF Word
<1>2. Value[(a \ {i}) \cup {i}] = Value[a \ {i}] + Value[{i}]
  BY <1>1, ValueAdds
<1>3. Value[a] = Value[a \ {i}] + 2^i
  BY <1>1, <1>2, ValueBit
<1>4. Value[a \ {i}] \in Nat /\ 2^i \in Nat
  BY <1>1, ValueIs, WordFacts, PowerPositive
<1> QED
  BY <1>1, <1>3, <1>4

(* Bits below n make less than 2^n.                                         *)
LEMMA ValueSmall ==
  ASSUME NEW a \in Word, NEW n \in Nat, \A i \in a : i < n PROVE Value[a] < 2^n
<1> DEFINE S == {m \in Nat : \A b \in Word : (\A i \in b : i < m) => Value[b] < 2^m}
<1>1. 0 \in S
  <2> SUFFICES ASSUME NEW b \in Word, \A i \in b : i < 0 PROVE Value[b] < 2^0
    OBVIOUS
  <2>1. b = {}
    BY WordFacts DEF Word
  <2> QED
    BY <2>1, ValueEmpty, PowerZero
<1>2. ASSUME NEW m \in Nat, m \in S PROVE m + 1 \in S
  <2> SUFFICES ASSUME NEW b \in Word, \A i \in b : i < m + 1 PROVE Value[b] < 2^(m + 1)
    OBVIOUS
  <2>1. 2^m \in Nat \ {0} /\ 2^(m + 1) = 2 * 2^m /\ Value[b] \in Nat
    BY PowerPositive, PowerStep, ValueIs
  <2>2. b \ {m} \in Word /\ \A i \in b \ {m} : i < m
    BY WordFacts DEF Word
  <2>3. Value[b \ {m}] < 2^m
    BY <1>2, <2>2
  <2>4. CASE m \in b
    <3>1. Value[b] = Value[b \ {m}] + 2^m /\ Value[b \ {m}] \in Nat
      BY <2>4, ValueSplits
    <3> QED
      BY <2>1, <2>3, <3>1
  <2>5. CASE m \notin b
    <3>1. b \ {m} = b
      BY <2>5
    <3>2. Value[b] < 2^m
      BY <2>3, <3>1
    <3> QED
      BY <2>1, <3>2
  <2> QED
    BY <2>4, <2>5
<1> HIDE DEF S
<1>3. n \in S
  BY <1>1, <1>2, Climb
<1> QED
  BY <1>3 DEF S

LEMMA ValueRange ==
  ASSUME NEW a \in Word
  PROVE  /\ Value[a] \in Nat /\ Value[a] < 2^W
         /\ Negative(a) <=> 2^(W - 1) <= Value[a]
         /\ a = {} <=> Value[a] = 0
<1>1. Value[a] \in Nat /\ Value[a] < 2^W
  BY ValueIs, ValueSmall, WordFacts DEF Word
<1>2. Negative(a) => 2^(W - 1) <= Value[a]
  BY ValueSplits DEF Negative
<1>3. ~Negative(a) => Value[a] < 2^(W - 1)
  <2> SUFFICES ASSUME ~Negative(a) PROVE Value[a] < 2^(W - 1)
    OBVIOUS
  <2>1. \A i \in a : i < W - 1
    BY WordFacts DEF Word, Negative
  <2> QED
    BY <2>1, ValueSmall, WordFacts
<1>4. ASSUME NEW i \in a PROVE Value[a] # 0
  <2>1. i \in Nat /\ 2^i <= Value[a]
    BY ValueSplits, WordFacts
  <2> QED
    BY <1>1, <2>1, PowerPositive
<1>5. Negative(a) <=> 2^(W - 1) <= Value[a]
  BY <1>1, <1>2, <1>3, WordFacts
<1>6. a = {} <=> Value[a] = 0
  BY <1>4, ValueEmpty
<1> QED
  BY <1>1, <1>5, <1>6

(* The sum is what differs and twice what is common.                        *)
LEMMA XorAndCarry ==
  ASSUME NEW a \in Word, NEW b \in Word
  PROVE  /\ Xor(a, b) \in Word /\ a \cap b \in Word
         /\ Value[a] + Value[b] = Value[Xor(a, b)] + 2 * Value[a \cap b]
<1>1. /\ a \ b \in Word /\ b \ a \in Word /\ a \cap b \in Word
      /\ (a \ b) \cap (a \cap b) = {} /\ (a \ b) \cup (a \cap b) = a
      /\ (b \ a) \cap (a \cap b) = {} /\ (b \ a) \cup (a \cap b) = b
      /\ (a \ b) \cap (b \ a) = {}
  BY DEF Word
<1>2. Value[a] = Value[a \ b] + Value[a \cap b]
  BY <1>1, ValueAdds
<1>3. Value[b] = Value[b \ a] + Value[a \cap b]
  BY <1>1, ValueAdds
<1>4. Xor(a, b) \in Word /\ Value[Xor(a, b)] = Value[a \ b] + Value[b \ a]
  BY <1>1, ValueAdds DEF Xor
<1>5. Value[a \ b] \in Nat /\ Value[b \ a] \in Nat /\ Value[a \cap b] \in Nat
  BY <1>1, ValueIs
<1> QED
  BY <1>1, <1>2, <1>3, <1>4, <1>5
-----------------------------------------------------------------------------
(* Shifts.                                                                  *)

LEMMA LeftIsWord == ASSUME NEW a \in Word, NEW n \in Nat PROVE ShiftLeft(a, n) \in Word
BY DEF ShiftLeft, Word

LEMMA LeftDoublesPositive ==
  ASSUME NEW a \in Word, ~Negative(a) PROVE Value[ShiftLeft(a, 1)] = 2 * Value[a]
<1> DEFINE S == {n \in Nat : \A b \in Word : (\A i \in b : i < n) /\ ~Negative(b)
                               => Value[ShiftLeft(b, 1)] = 2 * Value[b]}
<1>1. 0 \in S
  <2> SUFFICES ASSUME NEW b \in Word, \A i \in b : i < 0
               PROVE  Value[ShiftLeft(b, 1)] = 2 * Value[b]
    OBVIOUS
  <2>1. b = {}
    BY WordFacts DEF Word
  <2>2. ShiftLeft({}, 1) = {}
    BY DEF ShiftLeft
  <2> QED
    BY <2>1, <2>2, ValueEmpty
<1>2. ASSUME NEW n \in Nat, n \in S PROVE n + 1 \in S
  <2> SUFFICES ASSUME NEW b \in Word, \A i \in b : i < n + 1, ~Negative(b)
               PROVE  Value[ShiftLeft(b, 1)] = 2 * Value[b]
    OBVIOUS
  <2>1. b \ {n} \in Word /\ (\A i \in b \ {n} : i < n) /\ ~Negative(b \ {n})
    BY WordFacts DEF Word, Negative
  <2>2. Value[ShiftLeft(b \ {n}, 1)] = 2 * Value[b \ {n}]
    BY <1>2, <2>1
  <2>3. CASE n \notin b
    <3>1. b \ {n} = b
      BY <2>3
    <3> QED
      BY <2>2, <3>1
  <2>4. CASE n \in b
    <3>1. n + 1 \in Bits
      BY <2>4, WordFacts DEF Word, Negative
    <3>2. n + 1 \notin ShiftLeft(b \ {n}, 1)
      BY <2>1, WordFacts DEF ShiftLeft, Word
    <3>3. ShiftLeft(b, 1) = ShiftLeft(b \ {n}, 1) \cup {n + 1}
      BY <2>4, <3>1 DEF ShiftLeft
    <3>4. ShiftLeft(b \ {n}, 1) \in Word /\ ShiftLeft(b \ {n}, 1) \cap {n + 1} = {}
      BY <2>1, <3>2, LeftIsWord
    <3>5. Value[ShiftLeft(b, 1)] = Value[ShiftLeft(b \ {n}, 1)] + 2^(n + 1)
      BY <3>1, <3>3, <3>4, ValueAdds, ValueBit
    <3>6. Value[b] = Value[b \ {n}] + 2^n /\ Value[b \ {n}] \in Nat
      BY <2>4, ValueSplits
    <3>7. 2^n \in Nat /\ 2^(n + 1) = 2 * 2^n
      BY PowerStep
    <3> QED
      BY <2>2, <3>5, <3>6, <3>7
  <2> QED
    BY <2>3, <2>4
<1> HIDE DEF S
<1>3. W \in S
  BY <1>1, <1>2, Climb, WordFacts
<1> QED
  BY <1>3, WordFacts DEF S, Word

LEMMA LeftDoubles ==
  ASSUME NEW a \in Word
  PROVE  /\ ShiftLeft(a, 1) \in Word
         /\ Value[ShiftLeft(a, 1)] = 2 * Value[a] - (IF Negative(a) THEN 2^W ELSE 0)
<1>1. ShiftLeft(a, 1) \in Word /\ Value[a] \in Nat
  BY LeftIsWord, ValueIs
<1>2. CASE ~Negative(a)
  BY <1>1, <1>2, LeftDoublesPositive
<1>3. CASE Negative(a)
  <2>1. /\ a \ {W - 1} \in Word /\ Value[a \ {W - 1}] \in Nat
        /\ Value[a] = Value[a \ {W - 1}] + 2^(W - 1)
    BY <1>3, ValueSplits DEF Negative
  <2>2. ~Negative(a \ {W - 1})
    BY DEF Negative
  <2>3. ShiftLeft(a, 1) = ShiftLeft(a \ {W - 1}, 1)
    BY WordFacts DEF ShiftLeft, Word
  <2>4. Value[ShiftLeft(a, 1)] = 2 * Value[a \ {W - 1}]
    BY <2>1, <2>2, <2>3, LeftDoublesPositive
  <2> QED
    BY <1>1, <1>3, <2>1, <2>4, WordFacts
<1> QED
  BY <1>2, <1>3

LEMMA RightHalves ==
  ASSUME NEW a \in Word
  PROVE  /\ ShiftRight(a) \in Word
         /\ Negative(ShiftRight(a)) <=> Negative(a)
         /\ ~Negative(a)
            => Value[a] = 2 * Value[ShiftRight(a)] + IF 0 \in a THEN 1 ELSE 0
<1>1. ShiftRight(a) \in Word
  BY WordFacts DEF ShiftRight, Word, Bits
<1>2. Negative(ShiftRight(a)) <=> Negative(a)
  BY WordFacts DEF ShiftRight, Word, Negative
<1>3. ASSUME ~Negative(a) PROVE Value[a] = 2 * Value[ShiftRight(a)] + IF 0 \in a THEN 1 ELSE 0
  <2>1. ShiftLeft(ShiftRight(a), 1) = a \ {0}
    <3>1. ShiftRight(a) = {i - 1 : i \in a \ {0}}
      BY <1>3 DEF ShiftRight, Negative
    <3>2. \A i \in a : i \in Int /\ i \in Bits /\ i - 1 + 1 = i
      BY WordFacts DEF Word
    <3>3. \A j : j \in ShiftLeft(ShiftRight(a), 1) <=> j \in Bits /\ \E i \in a \ {0} : j = i - 1 + 1
      BY <3>1 DEF ShiftLeft
    <3> QED
      BY <3>2, <3>3
  <2>2. Value[a \ {0}] = 2 * Value[ShiftRight(a)]
    BY <1>1, <1>2, <1>3, <2>1, LeftDoublesPositive
  <2>3. CASE 0 \in a
    BY <2>2, <2>3, ValueSplits, PowerZero
  <2>4. CASE 0 \notin a
    <3>1. a \ {0} = a
      BY <2>4
    <3>2. Value[ShiftRight(a)] \in Nat
      BY <1>1, ValueIs
    <3> QED
      BY <2>2, <2>4, <3>1, <3>2
  <2> QED
    BY <2>3, <2>4
<1> QED
  BY <1>1, <1>2, <1>3

LEMMA LeftAgain ==
  ASSUME NEW a \in Word, NEW n \in Nat
  PROVE  ShiftLeft(a, 0) = a /\ ShiftLeft(a, n + 1) = ShiftLeft(ShiftLeft(a, n), 1)
<1>1. \A i \in a : i \in Bits /\ i \in Nat /\ i + 0 = i /\ i + (n + 1) = (i + n) + 1
  BY WordFacts DEF Word
<1>2. \A j \in Nat : j + 1 \in Bits => j \in Bits
  BY WordFacts
<1>3. ShiftLeft(a, 0) = a
  BY <1>1 DEF ShiftLeft
<1>4. \A j : j \in ShiftLeft(a, n + 1) <=> j \in Bits /\ \E i \in a : j = (i + n) + 1
  BY <1>1 DEF ShiftLeft
<1>5. \A j : j \in ShiftLeft(ShiftLeft(a, n), 1)
             <=> j \in Bits /\ \E i \in a : i + n \in Bits /\ j = (i + n) + 1
  BY DEF ShiftLeft
<1>6. \A i \in a : i + n \in Nat
  BY <1>1
<1> QED
  BY <1>2, <1>3, <1>4, <1>5, <1>6

(* Without overflow, << multiplies by a power of two.                       *)
LEMMA LeftMultiplies ==
  ASSUME NEW a \in Word, NEW n \in Nat, Value[a] * 2^n < 2^W
  PROVE  ShiftLeft(a, n) \in Word /\ Value[ShiftLeft(a, n)] = Value[a] * 2^n
<1> DEFINE S == {m \in Nat : Value[a] * 2^m < 2^W
                               => Value[ShiftLeft(a, m)] = Value[a] * 2^m}
<1>0. Value[a] \in Nat
  BY ValueIs
<1>1. 0 \in S
  BY <1>0, LeftAgain, PowerZero
<1>2. ASSUME NEW m \in Nat, m \in S PROVE m + 1 \in S
  <2> SUFFICES ASSUME Value[a] * 2^(m + 1) < 2^W
               PROVE  Value[ShiftLeft(a, m + 1)] = Value[a] * 2^(m + 1)
    OBVIOUS
  <2>1. 2^m \in Nat /\ 2^(m + 1) = 2 * 2^m
    BY PowerStep
  <2>2. PICK v : v = Value[a] * 2^m
    OBVIOUS
  <2>3. \A p, q \in Nat : p * q \in Nat /\ p * (2 * q) = 2 * (p * q)
    OBVIOUS
  <2>4. v \in Nat /\ Value[a] * 2^(m + 1) = 2 * v
    BY <1>0, <2>1, <2>2, <2>3
  <2>5. 2 * v < 2^W /\ v < 2^W /\ v < 2^(W - 1)
    BY <2>4, WordFacts
  <2>6. ShiftLeft(a, m) \in Word /\ Value[ShiftLeft(a, m)] = v
    BY <1>2, <2>2, <2>5, LeftIsWord
  <2>7. ~Negative(ShiftLeft(a, m))
    BY <2>4, <2>5, <2>6, ValueRange, WordFacts
  <2>8. Value[ShiftLeft(ShiftLeft(a, m), 1)] = 2 * v
    BY <2>6, <2>7, LeftDoublesPositive
  <2> QED
    BY <2>4, <2>8, LeftAgain
<1> HIDE DEF S
<1>3. n \in S
  BY <1>1, <1>2, Climb
<1> QED
  BY <1>3, LeftIsWord DEF S
-----------------------------------------------------------------------------
(* Negation.                                                                *)

LEMMA ValueOnto == \A v \in Nat : v < 2^W => \E a \in Word : Value[a] = v
<1> DEFINE S == {n \in Nat : n <= W => \A v \in Nat : v < 2^n
                               => \E a \in Word : (\A i \in a : i < n) /\ Value[a] = v}
<1>1. 0 \in S
  <2>1. {} \in Word /\ \A v \in Nat : v < 2^0 => v = 0
    BY PowerZero DEF Word
  <2> QED
    BY <2>1, ValueEmpty
<1>2. ASSUME NEW n \in Nat, n \in S PROVE n + 1 \in S
  <2> SUFFICES ASSUME n + 1 <= W, NEW v \in Nat, v < 2^(n + 1)
               PROVE  \E a \in Word : (\A i \in a : i < n + 1) /\ Value[a] = v
    OBVIOUS
  <2>1. n \in Bits /\ n <= W
    BY WordFacts
  <2>2. 2^n \in Nat /\ 2^(n + 1) = 2 * 2^n
    BY PowerStep
  <2>3. CASE v < 2^n
    <3>1. PICK a \in Word : (\A i \in a : i < n) /\ Value[a] = v
      BY <1>2, <2>1, <2>3
    <3>2. \A i \in a : i < n + 1
      BY <3>1, WordFacts DEF Word
    <3> QED
      BY <3>1, <3>2
  <2>4. CASE ~(v < 2^n)
    <3>1. v - 2^n \in Nat /\ v - 2^n < 2^n
      BY <2>2, <2>4
    <3>2. PICK a \in Word : (\A i \in a : i < n) /\ Value[a] = v - 2^n
      BY <1>2, <2>1, <3>1
    <3>3. a \cap {n} = {} /\ \A i \in a \cup {n} : i < n + 1
      BY <3>2, WordFacts DEF Word
    <3>4. a \cup {n} \in Word /\ Value[a \cup {n}] = v - 2^n + 2^n
      BY <2>1, <3>2, <3>3, ValueAdds, ValueBit
    <3>5. v - 2^n + 2^n = v
      BY <2>2
    <3> QED
      BY <3>3, <3>4, <3>5
  <2> QED
    BY <2>3, <2>4
<1> HIDE DEF S
<1>3. W \in S
  BY <1>1, <1>2, Climb, WordFacts
<1> QED
  BY <1>3, WordFacts DEF S

LEMMA ComplementValue ==
  ASSUME NEW a \in Word PROVE Bits \ a \in Word /\ Value[Bits \ a] = 2^W - 1 - Value[a]
<1> DEFINE low(n) == {i \in Bits : i < n}
           S == {n \in Nat : n <= W => Value[low(n)] = 2^n - 1}
<1>1. 0 \in S
  <2>1. low(0) = {}
    BY WordFacts
  <2> QED
    BY <2>1, ValueEmpty, PowerZero
<1>2. ASSUME NEW n \in Nat, n \in S PROVE n + 1 \in S
  <2> SUFFICES ASSUME n + 1 <= W PROVE Value[low(n + 1)] = 2^(n + 1) - 1
    OBVIOUS
  <2>1. n \in Bits /\ n <= W
    BY WordFacts
  <2>2. low(n + 1) = low(n) \cup {n} /\ low(n) \cap {n} = {} /\ low(n) \in Word
    <3>1. \A i \in Bits : i < n + 1 <=> (i < n \/ i = n)
      BY WordFacts
    <3>2. low(n + 1) = low(n) \cup {n}
      BY <2>1, <3>1
    <3>3. low(n) \cap {n} = {} /\ low(n) \in Word
      BY DEF Word
    <3> QED
      BY <3>2, <3>3
  <2>3. Value[low(n)] = 2^n - 1
    BY <1>2, <2>1
  <2> HIDE DEF low
  <2>4. Value[low(n + 1)] = Value[low(n)] + 2^n
    BY <2>1, <2>2, ValueAdds, ValueBit
  <2> QED
    BY <2>3, <2>4, PowerStep
<1> HIDE DEF S
<1>3. W \in S
  BY <1>1, <1>2, Climb, WordFacts
<1>4. low(W) = Bits
  BY WordFacts
<1>5. Value[Bits] = 2^W - 1
  <2>1. Value[low(W)] = 2^W - 1
    BY <1>3, WordFacts DEF S
  <2> HIDE DEF low
  <2> QED
    BY <1>4, <2>1
<1>6. Bits \ a \in Word /\ a \cap (Bits \ a) = {} /\ a \cup (Bits \ a) = Bits
  BY DEF Word
<1>7. Value[Bits] = Value[a] + Value[Bits \ a]
  BY <1>6, ValueAdds
<1> QED
  BY <1>5, <1>6, <1>7, ValueIs, WordFacts

LEMMA NegatedValue ==
  ASSUME NEW a \in Word
  PROVE  Negated(a) \in Word /\ Value[Negated(a)] = IF a = {} THEN 0 ELSE 2^W - Value[a]
<1>1. \E b \in Word : Value[a] + Value[b] \in {0, 2^W}
  <2>1. CASE a = {}
    BY <2>1, ValueEmpty
  <2>2. CASE a # {}
    <3>1. 2^W - Value[a] \in Nat /\ 2^W - Value[a] < 2^W
      BY <2>2, ValueRange, WordFacts
    <3>2. PICK b \in Word : Value[b] = 2^W - Value[a]
      BY <3>1, ValueOnto
    <3>3. Value[a] + Value[b] = 2^W
      BY <3>2, ValueIs, WordFacts
    <3> QED
      BY <3>3
  <2> QED
    BY <2>1, <2>2
<1>2. Negated(a) \in Word /\ Value[a] + Value[Negated(a)] \in {0, 2^W}
  BY <1>1 DEF Negated
<1>3. /\ Value[a] \in Nat /\ Value[Negated(a)] \in Nat /\ Value[Negated(a)] < 2^W
      /\ a = {} <=> Value[a] = 0
  BY <1>2, ValueRange
<1> QED
  BY <1>2, <1>3, WordFacts

LEMMA MagnitudeValue ==
  ASSUME NEW a \in Word, a # Least
  PROVE  /\ Magnitude(a) \in Word /\ ~Negative(Magnitude(a))
         /\ Value[Magnitude(a)] \in Nat /\ Value[Magnitude(a)] < 2^(W - 1)
         /\ Magnitude(a) = {} <=> a = {}
<1>1. CASE ~Negative(a)
  BY <1>1, ValueRange, WordFacts DEF Magnitude
<1>2. CASE Negative(a)
  <2>1. /\ W - 1 \in a /\ a \ {W - 1} \in Word /\ a \ {W - 1} # {}
        /\ Value[a] = Value[a \ {W - 1}] + 2^(W - 1)
    BY <1>2, ValueSplits DEF Negative, Least
  <2>2. Value[a \ {W - 1}] \in Nat /\ Value[a \ {W - 1}] # 0
    BY <2>1, ValueRange
  <2>3. Magnitude(a) \in Word /\ Value[Magnitude(a)] = 2^W - Value[a]
    BY <1>2, <2>1, NegatedValue DEF Magnitude
  <2>4. /\ Value[a] \in Nat /\ Value[a] < 2^W
        /\ Negative(Magnitude(a)) <=> 2^(W - 1) <= Value[Magnitude(a)]
        /\ Magnitude(a) = {} <=> Value[Magnitude(a)] = 0
    BY <2>3, ValueRange
  <2> QED
    BY <2>1, <2>2, <2>3, <2>4, WordFacts
<1> QED
  BY <1>1, <1>2

(* Words that are not negative are compared by their values.                *)
LEMMA BelowIsLess ==
  ASSUME NEW a \in Word, NEW b \in Word, ~Negative(a), ~Negative(b)
  PROVE  Below(a, b) <=> Value[a] < Value[b]
BY DEF Below, Signed

LEMMA LengthIs ==
  ASSUME NEW a \in Word
  PROVE  /\ Length(a) \in 1 .. W /\ \A j \in a : j < Length(a)
         /\ Value[a] < 2^Length(a)
         /\ a # {} => Length(a) - 1 \in a /\ 2^(Length(a) - 1) <= Value[a]
<1> DEFINE T == {i \in Nat : 1 <= i /\ \A j \in a : j < i}
           P(i) == (\A j \in a : j < i) /\ (i = 1 \/ i - 1 \in a)
<1>1. W \in T
  BY WidthAssumption, WordFacts DEF Word
<1>2. PICK n \in T : \A m \in T : n <= m
  BY <1>1, LeastOne
<1>3. n \in 1 .. W
  BY <1>1, <1>2, WordFacts
<1>4. n = 1 \/ n - 1 \in a
  <2> SUFFICES ASSUME n # 1 PROVE n - 1 \in a
    OBVIOUS
  <2>1. n - 1 \in Nat /\ 1 <= n - 1 /\ n - 1 \notin T
    BY <1>2
  <2>2. PICK j \in a : ~(j < n - 1)
    BY <2>1
  <2>3. j \in Nat /\ j < n
    BY <1>2, WordFacts DEF Word
  <2>4. j = n - 1
    BY <2>2, <2>3
  <2> QED
    BY <2>4
<1>5. \E i \in 1 .. W : P(i)
  BY <1>2, <1>3, <1>4
<1>6. Length(a) = CHOOSE i \in 1 .. W : P(i)
  BY DEF Length
<1> HIDE DEF P
<1>7. Length(a) \in 1 .. W /\ P(Length(a))
  BY <1>5, <1>6
<1>8. Length(a) \in Nat /\ \A j \in a : j < Length(a)
  BY <1>7, WordFacts DEF P
<1>9. Value[a] < 2^Length(a)
  BY <1>8, ValueSmall
<1>10. ASSUME a # {} PROVE Length(a) - 1 \in a
  <2>1. CASE Length(a) = 1
    <3>1. PICK j \in a : TRUE
      BY <1>10
    <3>2. j \in Nat /\ j < 1
      BY <1>8, <2>1, WordFacts DEF Word
    <3>3. j = 0 /\ Length(a) - 1 = 0
      BY <2>1, <3>2
    <3> QED
      BY <3>3
  <2> QED
    BY <1>7, <2>1 DEF P
<1> QED
  BY <1>7, <1>8, <1>9, <1>10, ValueSplits
-----------------------------------------------------------------------------
(* Arithmetic.                                                              *)

Same(u, v) == \E k \in Int : u = v + k * 2^W

LEMMA ModIs ==
  ASSUME NEW v \in Int, NEW u \in Int, NEW m \in Nat \ {0}, NEW k \in Int,
         v = u + k * m, 0 <= u, u < m
  PROVE  v % m = u
OBVIOUS

LEMMA DivIs ==
  ASSUME NEW a \in Int, NEW b \in Nat \ {0}, NEW q \in Int, NEW r \in Int,
         a = q * b + r, 0 <= r, r < b
  PROVE  a \div b = q
OBVIOUS

LEMMA SameRefl == ASSUME NEW u \in Int PROVE Same(u, u)
<1>1. u = u + 0 * 2^W
  BY WordFacts
<1> QED
  BY <1>1 DEF Same

LEMMA SameTrans ==
  ASSUME NEW u \in Int, NEW v \in Int, NEW w \in Int, Same(u, v), Same(v, w) PROVE Same(u, w)
<1>1. PICK k \in Int : u = v + k * 2^W
  BY DEF Same
<1>2. PICK l \in Int : v = w + l * 2^W
  BY DEF Same
<1>3. \A m \in Nat : u = v + k * m /\ v = w + l * m => u = w + (k + l) * m
  OBVIOUS
<1>4. u = w + (k + l) * 2^W /\ k + l \in Int
  BY <1>1, <1>2, <1>3, WordFacts
<1> QED
  BY <1>4 DEF Same

LEMMA SameAdds ==
  ASSUME NEW u \in Int, NEW v \in Int, NEW w \in Int, Same(u, v) PROVE Same(u + w, v + w)
<1>1. PICK k \in Int : u = v + k * 2^W
  BY DEF Same
<1>2. \A m \in Nat : u = v + k * m => u + w = (v + w) + k * m
  OBVIOUS
<1> QED
  BY <1>1, <1>2, WordFacts DEF Same

(* The same word, when one of the two is a word's value.                    *)
LEMMA SameValue ==
  ASSUME NEW a \in Word, NEW v \in Int, Same(Value[a], v) PROVE Value[a] = v % 2^W
<1>1. PICK k \in Int : Value[a] = v + k * 2^W
  BY DEF Same
<1>2. \A m \in Nat, u \in Nat : u = v + k * m => v = u + (-k) * m
  OBVIOUS
<1>3. v = Value[a] + (-k) * 2^W /\ -k \in Int
  BY <1>1, <1>2, ValueRange, WordFacts
<1>4. \A u, l \in Int, m \in Nat \ {0} : v = u + l * m /\ 0 <= u /\ u < m => v % m = u
  BY ModIs
<1>5. Value[a] \in Int /\ 0 <= Value[a] /\ Value[a] < 2^W
  BY ValueRange
<1>6. 2^W \in Nat \ {0}
  BY WordFacts
<1> QED
  BY <1>3, <1>4, <1>5, <1>6, Zenon

LEMMA SameSmall ==
  ASSUME NEW a \in Word, NEW v \in Nat, v < 2^W, Same(Value[a], v) PROVE Value[a] = v
<1>1. Value[a] = v % 2^W
  BY SameValue
<1>2. v = v + 0 * 2^W
  BY WordFacts
<1> QED
  BY <1>1, <1>2, ModIs, WordFacts

LEMMA LeftIsSame == ASSUME NEW a \in Word PROVE Same(Value[ShiftLeft(a, 1)], 2 * Value[a])
<1>1. /\ Value[a] \in Nat /\ 2^W \in Nat
      /\ Value[ShiftLeft(a, 1)] = 2 * Value[a] - (IF Negative(a) THEN 2^W ELSE 0)
  BY LeftDoubles, ValueIs, WordFacts
<1>2. CASE Negative(a)
  <2>1. Value[ShiftLeft(a, 1)] = 2 * Value[a] + (-1) * 2^W
    BY <1>1, <1>2
  <2> QED
    BY <2>1 DEF Same
<1>3. CASE ~Negative(a)
  <2>1. Value[ShiftLeft(a, 1)] = 2 * Value[a] + 0 * 2^W
    BY <1>1, <1>3
  <2> QED
    BY <2>1 DEF Same
<1> QED
  BY <1>2, <1>3

(* One turn of add's loop keeps the sum of its arguments modulo 2^W.        *)
LEMMA TurnKeepsSum ==
  ASSUME NEW a \in Word, NEW b \in Word
  PROVE  /\ Xor(a, b) \in Word /\ ShiftLeft(a \cap b, 1) \in Word
         /\ Same(Value[Xor(a, b)] + Value[ShiftLeft(a \cap b, 1)], Value[a] + Value[b])
<1>1. /\ Xor(a, b) \in Word /\ a \cap b \in Word
      /\ Value[a] + Value[b] = Value[Xor(a, b)] + 2 * Value[a \cap b]
  BY XorAndCarry
<1>2. /\ ShiftLeft(a \cap b, 1) \in Word
      /\ Value[ShiftLeft(a \cap b, 1)]
           = 2 * Value[a \cap b] - (IF Negative(a \cap b) THEN 2^W ELSE 0)
  BY <1>1, LeftDoubles
<1>3. Value[Xor(a, b)] \in Nat /\ Value[a \cap b] \in Nat
  BY <1>1, ValueIs
<1>4. Same(Value[ShiftLeft(a \cap b, 1)], 2 * Value[a \cap b])
  BY <1>1, LeftIsSame, Zenon
<1>5. Same(Value[ShiftLeft(a \cap b, 1)] + Value[Xor(a, b)],
           2 * Value[a \cap b] + Value[Xor(a, b)])
  <2>1. /\ Value[ShiftLeft(a \cap b, 1)] \in Int /\ 2 * Value[a \cap b] \in Int
        /\ Value[Xor(a, b)] \in Int
    BY <1>1, <1>2, <1>3, ValueIs
  <2> QED
    BY <1>4, <2>1, SameAdds, Zenon
<1>6. /\ Value[ShiftLeft(a \cap b, 1)] + Value[Xor(a, b)]
           = Value[Xor(a, b)] + Value[ShiftLeft(a \cap b, 1)]
      /\ 2 * Value[a \cap b] + Value[Xor(a, b)] = Value[a] + Value[b]
  BY <1>1, <1>2, <1>3, ValueIs
<1> QED
  BY <1>1, <1>2, <1>5, <1>6
-----------------------------------------------------------------------------
(* Types.                                                                   *)

BitTypeOK ==
  /\ op \in {"mul", "dive"}
  /\ at \in IF op = "mul" THEN {"mul", "sum", "done"}
            ELSE {"dive", "loop", "complement", "difference", "done"}
  /\ arg1 \in Word /\ arg2 \in Word /\ sum0 \in Word
  /\ op = "dive" => arg1 # Least /\ arg2 # Least
  /\ x \in Word /\ y \in Word /\ res \in Word /\ temp \in Word
  /\ adder1 \in Word /\ adder2 \in Word
  /\ count \in Int /\ shift \in Int /\ fuhao \in 0 .. 2

LEMMA SmallWords == {} \in Word /\ {0} \in Word /\ Bits \in Word
BY WordFacts DEF Word

LEMMA LeftOrNotIsWord == ASSUME NEW a \in Word, NEW n \in Int PROVE ShiftLeft(a, n) \in Word
BY DEF ShiftLeft, Word

LEMMA ShiftedIsWord == \A a \in Word : ShiftLeft(a, 1) \in Word /\ ShiftRight(a) \in Word
BY LeftDoubles, RightHalves

LEMMA MagnitudeIsWord == ASSUME NEW a \in Word PROVE Magnitude(a) \in Word
BY NegatedValue DEF Magnitude

(* Every variable keeps its type, every word its width.                     *)
THEOREM BitTypeCorrect == BitSpec => []BitTypeOK
<1>1. BitInit => BitTypeOK
  BY SmallWords DEF BitInit, BitTypeOK
<1>2. ASSUME BitTypeOK, [BitNext]_bitvars PROVE BitTypeOK'
  <2> USE <1>2 DEF BitTypeOK, given, division, adders
  <2>1. CASE AddStep
    BY <2>1, TurnKeepsSum DEF AddStep
  <2>2. CASE MulAdds
    BY <2>2, Zenon DEF MulAdds, Calls
  <2>3. CASE MulShifts
    <3>1. ShiftLeft(y, 1) \in Word /\ ShiftRight(x) \in Word
      BY ShiftedIsWord, Zenon
    <3>2. op = "mul" /\ res' \in Word
      BY <2>3 DEF MulShifts, Returned
    <3> QED
      BY <2>3, <3>1, <3>2 DEF MulShifts
  <2>4. CASE MulReturns
    BY <2>4 DEF MulReturns
  <2>5. CASE DiveReturnsZero
    BY <2>5, SmallWords DEF DiveReturnsZero
  <2>6. CASE DiveAligns
    <3>1. x' \in Word /\ y' \in Word
      BY <2>6, MagnitudeIsWord DEF DiveAligns
    <3>2. fuhao' \in 0 .. 2
      BY <2>6 DEF DiveAligns
    <3>3. Length(x') - Length(y') \in Int
      BY <3>1, LengthIs
    <3>4. PICK flag \in {0, 1} : shift' = Length(x') - Length(y') - flag
                                 /\ temp' = ShiftLeft(y', Length(x') - Length(y') - flag)
      BY <2>6, Zenon DEF DiveAligns
    <3>5. shift' \in Int /\ temp' = ShiftLeft(y', shift')
      BY <3>3, <3>4
    <3>6. temp' \in Word
      BY <3>1, <3>5, LeftOrNotIsWord
    <3> QED
      BY <2>6, <3>1, <3>2, <3>5, <3>6 DEF DiveAligns
  <2>7. CASE DiveComplements
    BY <2>7, SmallWords, ComplementValue DEF DiveComplements, Calls
  <2>8. CASE DiveSubtracts
    BY <2>8 DEF DiveSubtracts, Calls
  <2>9. CASE DiveHalves
    <3>1. ShiftLeft(res, 1) \in Word /\ ShiftRight(temp) \in Word
      BY ShiftedIsWord, Zenon
    <3> QED
      BY <2>9, <3>1 DEF DiveHalves, Returned
  <2>10. CASE DiveGoesOn
    <3>1. res \cup {0} \in Word
      BY SmallWords DEF Word
    <3> QED
      BY <2>10, <3>1 DEF DiveGoesOn, Returned
  <2>11. CASE DiveReturns
    <3>1. ShiftLeft(res, shift - count + 1) \in Word
      BY LeftOrNotIsWord
    <3>2. res' \in Word
      BY <2>11, <3>1, NegatedValue DEF DiveReturns
    <3> QED
      BY <2>11, <3>2 DEF DiveReturns, Returned
  <2>12. CASE UNCHANGED bitvars
    BY <2>12 DEF bitvars
  <2> QED
    BY <2>1, <2>2, <2>3, <2>4, <2>5, <2>6, <2>7, <2>8, <2>9, <2>10, <2>11, <2>12
       DEF BitNext
<1> QED
  BY <1>1, <1>2, PTL DEF BitSpec
-----------------------------------------------------------------------------
(* mul.  What is left to add, mul1 * mul2, and what sum has, is the answer  *)
(* modulo 2^W; while add runs, its arguments have the sum that it is for.   *)
MulGoal == Value[sum0] + Value[arg1] * Value[arg2]
MulInv ==
  op = "mul" =>
    /\ Negative(x) <=> Negative(arg1)
    /\ at = "done" => x = {}
    /\ at = "sum" => 0 \in x /\ Same(Value[adder1] + Value[adder2], Value[res] + Value[y])
    /\ ~Negative(x) => Same(Value[res] + Value[x] * Value[y], MulGoal)

LEMMA ProductIsInt ==
  BitTypeOK => /\ Value[res] \in Nat /\ Value[x] \in Nat /\ Value[y] \in Nat /\ MulGoal \in Int
               /\ Value[adder1] \in Nat /\ Value[adder2] \in Nat
               /\ Value[res] + Value[x] * Value[y] \in Int
<1> SUFFICES ASSUME BitTypeOK
             PROVE  /\ Value[res] \in Nat /\ Value[x] \in Nat /\ Value[y] \in Nat
                    /\ MulGoal \in Int
                    /\ Value[adder1] \in Nat /\ Value[adder2] \in Nat
                    /\ Value[res] + Value[x] * Value[y] \in Int
  OBVIOUS
<1>1. /\ Value[res] \in Nat /\ Value[x] \in Nat /\ Value[y] \in Nat
      /\ Value[adder1] \in Nat /\ Value[adder2] \in Nat
      /\ Value[sum0] \in Nat /\ Value[arg1] \in Nat /\ Value[arg2] \in Nat
  BY ValueIs DEF BitTypeOK
<1>2. \A u, v, w \in Nat : u + v * w \in Int
  OBVIOUS
<1> QED
  BY <1>1, <1>2 DEF MulGoal

(* One turn: mul2 is added if mul1 is odd, and the product moves.           *)
LEMMA TurnKeepsGoal ==
  ASSUME NEW a \in Word, NEW b \in Word, ~Negative(a), NEW u \in Int, NEW v \in Int,
         0 \in a => Same(v, u + Value[b]), 0 \notin a => v = u
  PROVE  Same(v + Value[ShiftRight(a)] * Value[ShiftLeft(b, 1)], u + Value[a] * Value[b])
<1>1. /\ Value[a] = 2 * Value[ShiftRight(a)] + IF 0 \in a THEN 1 ELSE 0
      /\ Value[ShiftRight(a)] \in Nat /\ Value[b] \in Nat
  BY RightHalves, ValueIs
<1>2. /\ Value[ShiftLeft(b, 1)] = 2 * Value[b] - (IF Negative(b) THEN 2^W ELSE 0)
  BY LeftDoubles
<1>3. PICK c \in {0, 1} : Value[ShiftLeft(b, 1)] = 2 * Value[b] - c * 2^W
  <2>1. CASE Negative(b)
    BY <1>1, <1>2, <2>1, WordFacts
  <2>2. CASE ~Negative(b)
    BY <1>1, <1>2, <2>2, WordFacts
  <2> QED
    BY <2>1, <2>2
<1>4. PICK k \in Int : v = u + (IF 0 \in a THEN Value[b] ELSE 0) + k * 2^W
  <2>1. CASE 0 \in a
    BY <2>1 DEF Same
  <2>2. CASE 0 \notin a
    <3>1. v = u + 0 + 0 * 2^W
      BY <2>2, WordFacts
    <3> QED
      BY <2>2, <3>1
  <2> QED
    BY <2>1, <2>2
<1>5. \A p, q, m \in Nat, e \in {0, 1} :
        v = u + e * q + k * m
        => v + p * (2 * q - c * m) = (u + (2 * p + e) * q) + (k - p * c) * m
  OBVIOUS
<1>6. PICK e \in {0, 1} : /\ Value[a] = 2 * Value[ShiftRight(a)] + e
                          /\ v = u + e * Value[b] + k * 2^W
  <2>1. CASE 0 \in a
    BY <1>1, <1>4, <2>1
  <2>2. CASE 0 \notin a
    BY <1>1, <1>4, <2>2
  <2> QED
    BY <2>1, <2>2
<1>7. v + Value[ShiftRight(a)] * (2 * Value[b] - c * 2^W)
        = (u + (2 * Value[ShiftRight(a)] + e) * Value[b]) + (k - Value[ShiftRight(a)] * c) * 2^W
  BY <1>1, <1>5, <1>6, WordFacts
<1>8. k - Value[ShiftRight(a)] * c \in Int
  BY <1>1
<1>9. v + Value[ShiftRight(a)] * Value[ShiftLeft(b, 1)]
        = (u + Value[a] * Value[b]) + (k - Value[ShiftRight(a)] * c) * 2^W
  BY <1>3, <1>6, <1>7, Zenon
<1> QED
  BY <1>8, <1>9, Zenon DEF Same

LEMMA MulInvStep == BitTypeOK /\ MulInv /\ [BitNext]_bitvars => MulInv'
<1> SUFFICES ASSUME BitTypeOK, MulInv, [BitNext]_bitvars, op' = "mul" PROVE MulInv'
  BY DEF MulInv
<1>0. op = "mul" /\ op' = op /\ arg1' = arg1 /\ arg2' = arg2 /\ sum0' = sum0
  BY DEF BitNext, AddStep, MulAdds, MulShifts, MulReturns, DiveReturnsZero, DiveAligns,
         DiveComplements, DiveSubtracts, DiveHalves, DiveGoesOn, DiveReturns, bitvars, given
<1>1. at \in {"mul", "sum", "done"} /\ MulGoal' = MulGoal
  BY <1>0 DEF BitTypeOK, MulGoal
<1>2. CASE AddStep
  <2>1. /\ at = "sum" /\ at' = at /\ x' = x /\ y' = y /\ res' = res
        /\ adder1' = Xor(adder1, adder2) /\ adder2' = ShiftLeft(adder1 \cap adder2, 1)
    BY <1>1, <1>2 DEF AddStep
  <2>2. adder1 \in Word /\ adder2 \in Word
    BY DEF BitTypeOK
  <2>3. /\ adder1' \in Word /\ adder2' \in Word
        /\ Same(Value[adder1'] + Value[adder2'], Value[adder1] + Value[adder2])
    BY <2>1, <2>2, TurnKeepsSum
  <2>4. Same(Value[adder1] + Value[adder2], Value[res] + Value[y])
    BY <1>0, <2>1 DEF MulInv
  <2>5. /\ Value[adder1'] + Value[adder2'] \in Int /\ Value[adder1] + Value[adder2] \in Int
        /\ Value[res] + Value[y] \in Int
    BY <2>2, <2>3, ValueIs, ProductIsInt
  <2>6. Same(Value[adder1'] + Value[adder2'], Value[res] + Value[y])
    BY <2>3, <2>4, <2>5, SameTrans, Zenon
  <2> QED
    BY <1>0, <1>1, <2>1, <2>6 DEF MulInv
<1>3. CASE MulAdds
  <2>1. /\ 0 \in x /\ at' = "sum" /\ adder1' = res /\ adder2' = y
        /\ x' = x /\ y' = y /\ res' = res
    BY <1>3 DEF MulAdds, Calls
  <2>2. Value[res] + Value[y] \in Int
    BY ProductIsInt
  <2>3. Same(Value[adder1'] + Value[adder2'], Value[res] + Value[y])
    BY <2>1, <2>2, SameRefl, Zenon
  <2> QED
    BY <1>0, <1>1, <2>1, <2>3 DEF MulInv
<1>4. CASE MulShifts
  <2>1. at' = "mul" /\ y' = ShiftLeft(y, 1) /\ x' = ShiftRight(x)
    BY <1>4 DEF MulShifts
  <2>2. x \in Word /\ y \in Word /\ adder1 \in Word /\ Value[adder1] \in Int
        /\ Value[res] \in Int /\ Value[y] \in Int /\ Value[res'] \in Int
    BY <1>4, ProductIsInt DEF BitTypeOK, MulShifts
  <2>3. Negative(x') <=> Negative(x)
    BY <2>1, <2>2, RightHalves
  <2>4. (0 \in x => Same(Value[res'], Value[res] + Value[y])) /\ (0 \notin x => res' = res)
    <3>1. CASE at = "mul"
      BY <1>4, <3>1 DEF MulShifts, Returned
    <3>2. CASE at = "sum"
      <4>1. 0 \in x /\ Same(Value[adder1] + Value[adder2], Value[res] + Value[y])
        BY <1>0, <3>2 DEF MulInv
      <4>2. res' = adder1 /\ adder2 = {}
        BY <1>4, <3>2 DEF MulShifts, Returned
      <4>3. Value[adder1] + Value[adder2] = Value[res']
        BY <2>2, <4>2, ValueEmpty
      <4> QED
        BY <4>1, <4>3, Zenon
    <3> QED
      BY <1>4, <3>1, <3>2 DEF MulShifts, Returned
  <2>5. ASSUME ~Negative(x) PROVE Same(Value[res'] + Value[x'] * Value[y'], MulGoal)
    <3>1. Same(Value[res'] + Value[ShiftRight(x)] * Value[ShiftLeft(y, 1)],
               Value[res] + Value[x] * Value[y])
      BY <2>2, <2>4, <2>5, TurnKeepsGoal, Zenon
    <3>2. Same(Value[res] + Value[x] * Value[y], MulGoal)
      BY <1>0, <2>5 DEF MulInv
    <3>3. Value[res'] + Value[ShiftRight(x)] * Value[ShiftLeft(y, 1)] \in Int
      <4>1. Value[ShiftRight(x)] \in Nat /\ Value[ShiftLeft(y, 1)] \in Nat
        BY <2>2, ShiftedIsWord, ValueIs
      <4>2. \A u \in Int, v, w \in Nat : u + v * w \in Int
        OBVIOUS
      <4> QED
        BY <2>2, <4>1, <4>2, Zenon
    <3>4. Value[res] + Value[x] * Value[y] \in Int /\ MulGoal \in Int
      BY ProductIsInt
    <3> QED
      BY <2>1, <3>1, <3>2, <3>3, <3>4, SameTrans, Zenon
  <2> QED
    BY <1>0, <1>1, <2>1, <2>3, <2>5 DEF MulInv
<1>5. CASE MulReturns
  BY <1>0, <1>1, <1>5 DEF MulInv, MulReturns
<1>6. CASE UNCHANGED bitvars
  BY <1>0, <1>1, <1>6 DEF MulInv, bitvars, adders
<1> QED
  BY <1>1, <1>2, <1>3, <1>4, <1>5, <1>6
     DEF BitNext, DiveReturnsZero, DiveAligns, DiveComplements, DiveSubtracts, DiveHalves,
         DiveGoesOn, DiveReturns, Calls, Returned

(* mul adds the product to what sum held at first, for every pair of        *)
(* arguments, and returns only if mul1 is not negative.                     *)
THEOREM MulAddsEveryProduct == BitSpec => []MulAddsProduct
<1>1. BitInit => MulInv
  <2> SUFFICES ASSUME BitInit, op = "mul" PROVE MulInv
    BY DEF MulInv
  <2>1. x = arg1 /\ y = arg2 /\ res = sum0 /\ at = "mul"
    BY DEF BitInit
  <2>2. BitTypeOK
    BY SmallWords DEF BitInit, BitTypeOK
  <2>3. Value[res] + Value[x] * Value[y] = MulGoal /\ MulGoal \in Int
    BY <2>1, <2>2, ProductIsInt DEF MulGoal
  <2> QED
    BY <2>1, <2>3, SameRefl DEF MulInv
<1>2. BitTypeOK /\ MulInv => MulAddsProduct
  <2> SUFFICES ASSUME BitTypeOK, MulInv, op = "mul", at = "done"
               PROVE  ~Negative(arg1)
                      /\ Value[res] = (Value[sum0] + Value[arg1] * Value[arg2]) % 2^W
    BY DEF MulAddsProduct
  <2>1. x = {} /\ ~Negative(x) /\ ~Negative(arg1)
    BY DEF MulInv, Negative
  <2>2. Same(Value[res] + Value[x] * Value[y], MulGoal)
    BY <2>1 DEF MulInv
  <2>3. Value[res] + Value[x] * Value[y] = Value[res]
    BY <2>1, ValueEmpty, ProductIsInt
  <2>4. Same(Value[res], MulGoal)
    BY <2>2, <2>3, Zenon
  <2>5. Value[res] = MulGoal % 2^W
    <3>1. res \in Word /\ MulGoal \in Int
      BY ProductIsInt DEF BitTypeOK
    <3> QED
      BY <2>4, <3>1, SameValue, Zenon
  <2> QED
    BY <2>1, <2>5, Zenon DEF MulGoal
<1> QED
  BY <1>1, <1>2, BitTypeCorrect, MulInvStep, PTL DEF BitSpec
-----------------------------------------------------------------------------
(* dive.  The divisor is moved under the dividend.                          *)

LEMMA ProductMono == \A a, b, c \in Nat : a <= b => a * c <= b * c
<1> SUFFICES ASSUME NEW a \in Nat, NEW b \in Nat, NEW c \in Nat, a <= b PROVE a * c <= b * c
  OBVIOUS
<1>1. PICK d \in Nat : b = a + d
  <2>1. b - a \in Nat /\ b = a + (b - a)
    OBVIOUS
  <2> QED
    BY <2>1
<1>2. (a + d) * c = a * c + d * c /\ d * c \in Nat /\ a * c \in Nat
  OBVIOUS
<1> QED
  BY <1>1, <1>2

LEMMA ProductLess == \A a, b, c \in Nat : a < b /\ c # 0 => a * c < b * c
<1> SUFFICES ASSUME NEW a \in Nat, NEW b \in Nat, NEW c \in Nat, a < b, c # 0
             PROVE  a * c < b * c
  OBVIOUS
<1>1. (a + 1) * c <= b * c
  BY ProductMono
<1>2. (a + 1) * c = a * c + c /\ a * c \in Nat /\ b * c \in Nat
  OBVIOUS
<1> QED
  BY <1>1, <1>2

LEMMA PowerMono == \A i, j \in Nat : i <= j => 2^i <= 2^j
<1> SUFFICES ASSUME NEW i \in Nat, NEW j \in Nat, i <= j PROVE 2^i <= 2^j
  OBVIOUS
<1>1. j - i \in Nat /\ i + (j - i) = j
  OBVIOUS
<1>2. 2^(i + (j - i)) = 2^i * 2^(j - i)
  BY <1>1, PowerSum
<1>3. 1 * 2^i <= 2^(j - i) * 2^i
  BY <1>1, PowerPositive, ProductMono
<1>4. \A p, q \in Nat : 1 * p = p /\ p * q = q * p
  OBVIOUS
<1> QED
  BY <1>1, <1>2, <1>3, <1>4, PowerPositive

(* The lengths differ by at most one more than what the divisor is moved.   *)
LEMMA LengthsDiffer ==
  ASSUME NEW a \in Word, NEW b \in Word, ~Negative(a), b # {}, Value[b] <= Value[a]
  PROVE  LET n == Length(a) - Length(b)
         IN  /\ n \in Nat /\ 2^(Length(a) - 1) <= Value[a] /\ Value[a] < 2^Length(a)
             /\ 2^Length(a) = 2^Length(b) * 2^n /\ 2^Length(a) <= 2^(W - 1)
             /\ 2^(Length(a) - 1) = 2^(Length(b) - 1) * 2^n
<1> DEFINE n == Length(a) - Length(b)
<1>1. /\ Length(a) \in 1 .. W /\ Length(b) \in 1 .. W
      /\ Length(a) - 1 \in Nat /\ Length(b) - 1 \in Nat
      /\ Length(a) \in Nat /\ Length(b) \in Nat
  BY LengthIs, WordFacts
<1>2. a # {} /\ Value[a] \in Nat /\ Value[b] \in Nat
  BY ValueRange
<1>3. /\ Length(a) - 1 \in a /\ 2^(Length(a) - 1) <= Value[a] /\ Value[a] < 2^Length(a)
      /\ 2^(Length(b) - 1) <= Value[b]
  BY <1>2, LengthIs
<1>4. n \in Nat
  <2> SUFFICES ASSUME Length(a) < Length(b) PROVE FALSE
    BY <1>1
  <2>1. 2^Length(a) <= 2^(Length(b) - 1)
    BY <1>1, PowerMono
  <2>2. 2^Length(a) \in Nat /\ 2^(Length(b) - 1) \in Nat
    BY <1>1, PowerPositive
  <2> QED
    BY <1>2, <1>3, <2>1, <2>2
<1>5. Length(b) + n = Length(a) /\ (Length(b) - 1) + n = Length(a) - 1
  BY <1>1
<1> HIDE DEF n
<1>6. 2^(Length(b) + n) = 2^Length(b) * 2^n /\ 2^((Length(b) - 1) + n) = 2^(Length(b) - 1) * 2^n
  BY <1>1, <1>4, PowerSum
<1>7. Length(a) <= W - 1
  <2>1. Length(a) - 1 # W - 1
    BY <1>3 DEF Negative
  <2> QED
    BY <1>1, <2>1, WordFacts
<1>8. 2^Length(a) <= 2^(W - 1)
  BY <1>1, <1>7, PowerMono, WordFacts
<1>9. /\ 2^Length(a) = 2^Length(b) * 2^n
      /\ 2^(Length(a) - 1) = 2^(Length(b) - 1) * 2^n
  BY <1>5, <1>6, Zenon
<1>10. n \in Nat /\ 2^(Length(a) - 1) <= Value[a] /\ Value[a] < 2^Length(a)
  BY <1>3, <1>4
<1> QED
  BY <1>8, <1>9, <1>10, Zenon DEF n

LEMMA Alignment ==
  ASSUME NEW a \in Word, NEW b \in Word, ~Negative(a), ~Negative(b), Value[b] <= Value[a],
         NEW n \in Int, n = Length(a) - Length(b),
         NEW s \in Int, s = n - (IF Below(a, ShiftLeft(b, n)) THEN 1 ELSE 0)
  PROVE  /\ s \in Nat /\ Value[ShiftLeft(b, s)] = Value[b] * 2^s
         /\ Value[ShiftLeft(b, s)] <= Value[a]
         /\ b # {} => Value[a] < 2 * Value[ShiftLeft(b, s)]
<1>0. Value[a] \in Nat /\ Value[b] \in Nat
  BY ValueIs
<1>1. CASE b = {}
  <2>1. Length(b) = 1
    BY <1>1, LengthIs DEF Length
  <2>2. n \in Nat
    BY <2>1, LengthIs
  <2>3. ShiftLeft(b, n) = {} /\ ShiftLeft(b, s) = {}
    BY <1>1 DEF ShiftLeft
  <2>4. ~Below(a, {})
    BY <1>0, ValueEmpty DEF Below, Signed, Negative
  <2>5. s = n
    BY <2>3, <2>4
  <2>6. Value[b] * 2^s = 0
    BY <1>1, <2>2, <2>5, ValueEmpty, PowerPositive
  <2> QED
    BY <1>0, <1>1, <2>2, <2>3, <2>5, <2>6, ValueEmpty
<1>2. CASE b # {}
  <2> DEFINE L == 2^(Length(b) - 1)
             p == 2^n
  <2>1. /\ n \in Nat /\ 2^(Length(a) - 1) <= Value[a] /\ Value[a] < 2^Length(a)
        /\ 2^Length(a) = 2^Length(b) * p /\ 2^Length(a) <= 2^(W - 1)
        /\ 2^(Length(a) - 1) = L * p
    BY <1>2, LengthsDiffer
  <2>2. L \in Nat /\ p \in Nat \ {0} /\ L <= Value[b] /\ Value[b] < 2 * L
        /\ 2^Length(b) = 2 * L
    <3>1. /\ Length(b) - 1 \in Nat /\ Length(b) - 1 + 1 = Length(b)
          /\ Value[b] < 2^Length(b) /\ L <= Value[b]
      BY <1>2, LengthIs
    <3>2. L \in Nat /\ 2^Length(b) = 2 * L
      BY <3>1, PowerStep
    <3> QED
      BY <2>1, <3>1, <3>2, PowerPositive
  <2> HIDE DEF L, p
  <2>3. /\ L * p \in Nat /\ Value[b] * p \in Nat /\ L * p <= Value[b] * p
        /\ Value[b] * p < (2 * L) * p /\ (2 * L) * p = 2 * (L * p)
    <3>1. \A u, v \in Nat : u * v \in Nat /\ 2 * u \in Nat /\ (2 * u) * v = 2 * (u * v)
      OBVIOUS
    <3> QED
      BY <1>0, <2>2, <3>1, ProductMono, ProductLess
  <2>4. /\ L * p <= Value[a] /\ Value[a] < 2 * (L * p)
        /\ Value[b] * p < 2^(W - 1) /\ Value[b] * p < 2^W
    BY <1>0, <2>1, <2>2, <2>3, WordFacts
  <2>5. ShiftLeft(b, n) \in Word /\ Value[ShiftLeft(b, n)] = Value[b] * p
    BY <2>1, <2>4, LeftMultiplies DEF p
  <2>6. Below(a, ShiftLeft(b, n)) <=> Value[a] < Value[b] * p
    <3>1. ~Negative(ShiftLeft(b, n))
      BY <2>3, <2>4, <2>5, ValueRange, WordFacts
    <3> QED
      BY <2>5, <3>1, BelowIsLess
  <2>7. CASE ~(Value[a] < Value[b] * p)
    <3>1. s = n
      BY <2>6, <2>7
    <3>2. s \in Nat /\ Value[ShiftLeft(b, s)] = Value[b] * 2^s
      BY <2>1, <2>5, <3>1 DEF p
    <3>3. Value[ShiftLeft(b, s)] = Value[b] * p
      BY <2>5, <3>1
    <3> QED
      BY <1>0, <2>3, <2>4, <2>7, <3>2, <3>3
  <2>8. CASE Value[a] < Value[b] * p
    <3>1. n # 0
      <4>1. n = 0 => Value[b] * p = Value[b]
        <5>1. n = 0 => p = 1
          BY PowerZero, Zenon DEF p
        <5>2. Value[b] * 1 = Value[b]
          BY <1>0
        <5> QED
          BY <5>1, <5>2, Zenon
      <4> QED
        BY <1>0, <2>8, <4>1
    <3>2. s = n - 1 /\ n - 1 \in Nat /\ n - 1 + 1 = n
      BY <2>1, <2>6, <2>8, <3>1
    <3>3. 2^s \in Nat /\ p = 2 * 2^s /\ s \in Nat
      BY <3>2, PowerStep DEF p
    <3>4. \A u, v \in Nat : u * (2 * v) = 2 * (u * v) /\ u * v \in Nat
      OBVIOUS
    <3>5. /\ Value[b] * p = 2 * (Value[b] * 2^s) /\ Value[b] * 2^s \in Nat
          /\ L * p = 2 * (L * 2^s)
      BY <1>0, <2>2, <3>3, <3>4
    <3>6. Value[b] * 2^s <= Value[a] /\ Value[a] < 2 * (Value[b] * 2^s)
      BY <1>0, <2>3, <2>4, <2>8, <3>5
    <3>7. Value[b] * 2^s < 2^W
      BY <2>4, <3>5, WordFacts
    <3>8. Value[ShiftLeft(b, s)] = Value[b] * 2^s
      BY <3>3, <3>7, LeftMultiplies
    <3> QED
      BY <3>3, <3>6, <3>8
  <2> QED
    BY <2>7, <2>8
<1> QED
  BY <1>1, <1>2
-----------------------------------------------------------------------------
(* dive.  The divisor has been moved by Moved places, into temp; ans is the *)
(* quotient found so far, in units of temp, and Rest what it leaves of the  *)
(* dividend: the difference that dive is computing.                         *)
Dividend == Value[Magnitude(arg1)]
Divisor == Value[Magnitude(arg2)]
Moved == shift - count + 1
Rest == Dividend - Value[res] * Value[temp]

Ready == at = "dive" => x = arg1 /\ y = arg2 /\ res = {0} /\ count = 1
Aligned ==
  at \in {"loop", "complement", "difference"} =>
    /\ y = Magnitude(arg2) /\ ~Negative(x)
    /\ fuhao = 1 <=> (Negative(arg1) # Negative(arg2))
    /\ Moved \in Nat /\ Value[temp] = Divisor * 2^Moved
    /\ 1 <= Value[res] /\ Value[res] * Value[temp] <= Dividend
Subtracting ==
  at \in {"loop", "complement"} =>
    /\ Value[temp] <= Value[x] /\ (Divisor # 0 => Value[x] < 2 * Value[temp])
    /\ Rest = Value[x] - Value[temp]
    /\ at = "complement" => Same(Value[adder1] + Value[adder2], 2^W - Value[temp])
Comparing ==
  at = "difference" =>
    /\ Divisor # 0 => Rest < 2 * Value[temp] /\ (Value[temp] <= Rest => 0 \notin res)
    /\ Same(Value[adder1] + Value[adder2], Rest)
DiveInv == op = "dive" => Ready /\ Aligned /\ Subtracting /\ Comparing /\ DiveIsQuotient

LEMMA DiveValues ==
  ASSUME BitTypeOK, op = "dive"
  PROVE  /\ Dividend \in Nat /\ Dividend < 2^(W - 1) /\ Divisor \in Nat /\ Divisor < 2^(W - 1)
         /\ Value[res] \in Nat /\ Value[temp] \in Nat /\ Value[x] \in Nat /\ Value[y] \in Nat
         /\ Value[adder1] \in Nat /\ Value[adder2] \in Nat
         /\ Value[res] * Value[temp] \in Nat /\ Rest \in Int
         /\ Divisor = 0 <=> arg2 = {}
<1>1. /\ arg1 \in Word /\ arg2 \in Word /\ arg1 # Least /\ arg2 # Least
      /\ res \in Word /\ temp \in Word /\ x \in Word /\ y \in Word
      /\ adder1 \in Word /\ adder2 \in Word
  BY DEF BitTypeOK
<1>2. /\ Dividend \in Nat /\ Dividend < 2^(W - 1) /\ Divisor \in Nat /\ Divisor < 2^(W - 1)
      /\ Magnitude(arg2) \in Word
      /\ Magnitude(arg2) = {} <=> arg2 = {}
  BY <1>1, MagnitudeValue DEF Dividend, Divisor
<1>3. Divisor = 0 <=> arg2 = {}
  BY <1>2, ValueRange DEF Divisor
<1>4. /\ Value[res] \in Nat /\ Value[temp] \in Nat /\ Value[x] \in Nat /\ Value[y] \in Nat
      /\ Value[adder1] \in Nat /\ Value[adder2] \in Nat
  BY <1>1, ValueIs
<1>5. \A u, v, w \in Nat : u * v \in Nat /\ w - u * v \in Int
  OBVIOUS
<1>6. Value[res] * Value[temp] \in Nat /\ Rest \in Int
  BY <1>2, <1>4, <1>5 DEF Rest
<1> QED
  BY <1>2, <1>3, <1>4, <1>6

(* When sub returns, it returns Rest, and the comparisons are with Rest.    *)
LEMMA SubReturnsRest ==
  ASSUME BitTypeOK, op = "dive", DiveInv, Returned("difference")
  PROVE  /\ Rest \in Nat /\ Rest <= Dividend /\ Value[adder1] = Rest /\ ~Negative(adder1)
         /\ Dividend = Value[res] * Value[temp] + Rest
         /\ Below(adder1, y) <=> Rest < Divisor
         /\ ~Negative(temp) /\ Value[temp] <= Dividend
         /\ Below(adder1, temp) <=> Rest < Value[temp]
<1>1. /\ at = "difference" /\ adder2 = {} /\ adder1 \in Word /\ temp \in Word
      /\ arg2 \in Word /\ arg2 # Least
  BY DEF Returned, BitTypeOK
<1>2. /\ y = Magnitude(arg2) /\ 1 <= Value[res] /\ Value[res] * Value[temp] <= Dividend
      /\ Same(Value[adder1] + Value[adder2], Rest)
  BY <1>1 DEF DiveInv, Aligned, Comparing
<1>3. Rest \in Nat /\ Rest <= Dividend /\ Dividend = Value[res] * Value[temp] + Rest
  BY <1>2, DiveValues DEF Rest
<1>4. Rest < 2^(W - 1) /\ Rest < 2^W
  BY <1>3, DiveValues, WordFacts
<1>5. Value[adder1] = Rest
  <2>1. Value[adder1] + Value[adder2] = Value[adder1]
    BY <1>1, ValueEmpty, DiveValues
  <2>2. Same(Value[adder1], Rest)
    BY <1>2, <2>1, Zenon
  <2> QED
    BY <1>1, <1>3, <1>4, <2>2, SameSmall, Zenon
<1>6. ~Negative(adder1)
  BY <1>1, <1>3, <1>4, <1>5, ValueRange, WordFacts
<1>7. Value[temp] <= Dividend
  <2>1. 1 * Value[temp] <= Value[res] * Value[temp]
    BY <1>2, DiveValues, ProductMono
  <2> QED
    BY <1>2, <2>1, DiveValues
<1>8. ~Negative(temp)
  BY <1>1, <1>7, DiveValues, ValueRange, WordFacts
<1>9. Below(adder1, y) <=> Rest < Divisor
  <2>1. y \in Word /\ ~Negative(y) /\ Value[y] = Divisor
    BY <1>1, <1>2, MagnitudeValue DEF Divisor
  <2> QED
    BY <1>1, <1>5, <1>6, <2>1, BelowIsLess
<1>10. Below(adder1, temp) <=> Rest < Value[temp]
  BY <1>1, <1>5, <1>6, <1>8, BelowIsLess
<1> QED
  BY <1>3, <1>5, <1>6, <1>7, <1>8, <1>9, <1>10

(* Halving: temp is even, since the divisor is moved by one place or more.  *)
LEMMA HalfKeepsRest ==
  ASSUME BitTypeOK, op = "dive", DiveInv, DiveHalves
  PROVE  /\ Moved' = Moved - 1 /\ Moved' \in Nat /\ Divisor # 0
         /\ Value[temp'] = Divisor * 2^(Moved')
         /\ 1 <= Value[res'] /\ 0 \notin res'
         /\ Value[res'] * Value[temp'] = Value[res] * Value[temp]
         /\ Value[temp] = 2 * Value[temp'] /\ Rest < Value[temp]
<1>1. /\ Returned("difference") /\ ~Below(adder1, y) /\ Below(adder1, temp)
      /\ temp' = ShiftRight(temp) /\ res' = ShiftLeft(res, 1) /\ count' = count + 1
      /\ shift' = shift /\ temp \in Word /\ res \in Word /\ count \in Int /\ shift \in Int
  BY DEF DiveHalves, BitTypeOK
<1>2. /\ Rest \in Nat /\ Divisor <= Rest /\ Rest < Value[temp]
      /\ ~Negative(temp) /\ Dividend = Value[res] * Value[temp] + Rest
  BY <1>1, SubReturnsRest, DiveValues
<1>3. Moved \in Nat /\ Value[temp] = Divisor * 2^Moved /\ 1 <= Value[res]
      /\ Value[res] * Value[temp] <= Dividend
  BY <1>1 DEF DiveInv, Aligned, Returned
<1>4. Moved # 0
  <2> SUFFICES ASSUME Moved = 0 PROVE FALSE
    OBVIOUS
  <2>1. 2^Moved = 1
    BY PowerZero, Zenon
  <2>2. Divisor * 1 = Divisor
    BY DiveValues
  <2>3. Value[temp] = Divisor
    BY <1>3, <2>1, <2>2, Zenon
  <2> QED
    BY <1>2, <2>3, DiveValues
<1>5. Moved' = Moved - 1 /\ Moved' \in Nat /\ Moved' + 1 = Moved
  BY <1>1, <1>3, <1>4 DEF Moved
<1>6. 2^(Moved') \in Nat /\ 2^Moved = 2 * 2^(Moved')
  <2>1. 2^(Moved') \in Nat /\ 2^(Moved' + 1) = 2 * 2^(Moved')
    BY <1>5, PowerStep
  <2> QED
    BY <1>5, <2>1, Zenon
<1>7. Value[temp] = 2 * (Divisor * 2^(Moved')) /\ Divisor * 2^(Moved') \in Nat
  <2>1. \A u, v \in Nat : u * (2 * v) = 2 * (u * v) /\ u * v \in Nat
    OBVIOUS
  <2> QED
    BY <1>3, <1>6, <2>1, DiveValues
<1>8. Value[temp] = 2 * Value[temp'] + (IF 0 \in temp THEN 1 ELSE 0) /\ Value[temp'] \in Nat
  <2>1. ShiftRight(temp) \in Word
    BY <1>1, ShiftedIsWord
  <2>2. Value[temp] = 2 * Value[ShiftRight(temp)] + (IF 0 \in temp THEN 1 ELSE 0)
    BY <1>1, <1>2, RightHalves
  <2> QED
    BY <1>1, <2>1, <2>2, ValueIs
<1>9. Value[temp'] = Divisor * 2^(Moved') /\ Value[temp] = 2 * Value[temp']
  <2>1. \A t, u, v \in Nat : t = 2 * u /\ (t = 2 * v \/ t = 2 * v + 1) => v = u /\ t = 2 * v
    OBVIOUS
  <2>2. Value[temp] = 2 * Value[temp'] \/ Value[temp] = 2 * Value[temp'] + 1
    BY <1>8
  <2> QED
    BY <1>7, <1>8, <2>1, <2>2, DiveValues, Zenon
<1>10. Value[res] < 2^(W - 1)
  <2>1. Value[temp] # 0 /\ 1 <= Value[temp]
    BY <1>2, DiveValues
  <2>2. 1 * Value[res] <= Value[temp] * Value[res]
    BY <2>1, DiveValues, ProductMono
  <2>3. \A u, v \in Nat : u * v = v * u /\ 1 * u = u
    OBVIOUS
  <2>4. Value[res] <= Value[res] * Value[temp]
    BY <2>2, <2>3, DiveValues
  <2> QED
    BY <1>3, <2>4, DiveValues, WordFacts
<1>11. Value[res'] = 2 * Value[res] /\ 1 <= Value[res']
  <2>1. ~Negative(res)
    BY <1>1, <1>10, ValueRange, WordFacts
  <2>2. Value[ShiftLeft(res, 1)] = 2 * Value[res]
    BY <1>1, <2>1, LeftDoublesPositive
  <2> QED
    BY <1>1, <1>3, <2>2, DiveValues
<1>12. 0 \notin res'
  BY <1>1, WordFacts DEF ShiftLeft, Word
<1>13. Value[res'] * Value[temp'] = Value[res] * Value[temp]
  <2>1. \A u, v \in Nat : (2 * u) * v = u * (2 * v)
    OBVIOUS
  <2> QED
    BY <1>8, <1>9, <1>11, <2>1, DiveValues
<1>14. Divisor # 0
  BY <1>2, <1>7, <1>6, DiveValues
<1> QED
  BY <1>2, <1>5, <1>9, <1>11, <1>12, <1>13, <1>14

(* Going on: temp is taken from the dividend once more, and counted.        *)
LEMMA BitCountsTemp ==
  ASSUME BitTypeOK, op = "dive", DiveInv, DiveGoesOn
  PROVE  /\ x' = adder1 /\ ~Negative(x') /\ Value[x'] = Rest
         /\ 1 <= Value[res'] /\ Value[res'] * Value[temp] <= Dividend
         /\ Value[temp] <= Rest /\ (Divisor # 0 => Rest < 2 * Value[temp])
         /\ Dividend - Value[res'] * Value[temp] = Rest - Value[temp]
<1>1. /\ Returned("difference") /\ ~Below(adder1, y) /\ ~Below(adder1, temp)
      /\ res' = res \cup {0} /\ x' = adder1 /\ at = "difference" /\ res \in Word
  BY DEF DiveGoesOn, Returned, BitTypeOK
<1>2. /\ Rest \in Nat /\ Value[adder1] = Rest /\ ~Negative(adder1) /\ Value[temp] <= Rest
      /\ Dividend = Value[res] * Value[temp] + Rest
  BY <1>1, SubReturnsRest, DiveValues
<1>3. /\ Divisor # 0 => Rest < 2 * Value[temp] /\ 0 \notin res
      /\ Moved \in Nat /\ Value[temp] = Divisor * 2^Moved
  BY <1>1, <1>2 DEF DiveInv, Comparing, Aligned
<1>4. res' \in Word /\ 0 \in res'
  BY <1>1, SmallWords DEF Word
<1>5. 1 <= Value[res'] /\ Value[res'] \in Nat
  BY <1>4, ValueSplits, ValueIs, PowerZero
<1>6. Value[res'] * Value[temp] = Value[res] * Value[temp] + Value[temp]
  <2>1. CASE Divisor # 0
    <3>1. res \cap {0} = {}
      BY <1>3, <2>1
    <3>2. Value[res'] = Value[res] + 1
      BY <1>1, <3>1, ValueAdds, ValueBit, WordFacts, PowerZero
    <3>3. \A u, v \in Nat : (u + 1) * v = u * v + v
      OBVIOUS
    <3> QED
      BY <3>2, <3>3, DiveValues
  <2>2. CASE Divisor = 0
    <3>1. Value[temp] = 0
      BY <1>3, <2>2, PowerPositive
    <3> QED
      BY <1>5, <3>1, DiveValues
  <2> QED
    BY <2>1, <2>2
<1>7. Value[res'] * Value[temp] <= Dividend
      /\ Dividend - Value[res'] * Value[temp] = Rest - Value[temp]
  BY <1>2, <1>6, DiveValues
<1> QED
  BY <1>1, <1>2, <1>3, <1>5, <1>7

(* The answer, once Rest is less than the divisor: ans, moved back.         *)
LEMMA AnswerIsQuotient ==
  ASSUME BitTypeOK, op = "dive", DiveInv, DiveReturns
  PROVE  arg2 # {} /\ Signed(res') = Quotient(arg1, arg2)
<1> DEFINE q == Value[res] * 2^Moved
           ans == ShiftLeft(res, Moved)
<1>1. /\ Returned("difference") /\ Below(adder1, y) /\ at = "difference" /\ res \in Word
      /\ res' = IF fuhao = 1 THEN Negated(ans) ELSE ans
  BY DEF DiveReturns, Returned, BitTypeOK, Moved
<1>2. /\ Rest \in Nat /\ Rest < Divisor /\ Dividend = Value[res] * Value[temp] + Rest
  BY <1>1, SubReturnsRest
<1>3. /\ fuhao = 1 <=> (Negative(arg1) # Negative(arg2))
      /\ Moved \in Nat /\ Value[temp] = Divisor * 2^Moved
  BY <1>1 DEF DiveInv, Aligned
<1>4. arg2 # {} /\ Divisor \in Nat \ {0}
  BY <1>2, DiveValues
<1>5. q \in Nat /\ Dividend = q * Divisor + Rest
  <2>1. \A u, v, w \in Nat : u * v \in Nat /\ u * (v * w) = (u * w) * v
    OBVIOUS
  <2>2. 2^Moved \in Nat
    BY <1>3, PowerPositive
  <2>3. q \in Nat
    BY <2>1, <2>2, DiveValues
  <2>4. Value[res] * (Divisor * 2^Moved) = (Value[res] * 2^Moved) * Divisor
    BY <2>1, <2>2, DiveValues
  <2> QED
    BY <1>2, <1>3, <2>3, <2>4, Zenon
<1> HIDE DEF q
<1>6. Dividend \div Divisor = q
  <2>1. \A a, u, r \in Int, b \in Nat \ {0} : a = u * b + r /\ 0 <= r /\ r < b => a \div b = u
    BY DivIs
  <2>2. Dividend \in Int /\ q \in Int /\ Rest \in Int /\ 0 <= Rest
    BY <1>2, <1>5, DiveValues
  <2> QED
    BY <1>2, <1>4, <1>5, <2>1, <2>2, Zenon
<1>7. q < 2^(W - 1) /\ q < 2^W
  <2>1. 1 * q <= Divisor * q
    BY <1>4, <1>5, ProductMono
  <2>2. \A u, v \in Nat : u * v = v * u /\ 1 * u = u
    OBVIOUS
  <2>3. q <= q * Divisor
    BY <1>4, <1>5, <2>1, <2>2
  <2>4. q <= Dividend
    BY <1>2, <1>4, <1>5, <2>3
  <2> QED
    BY <1>5, <2>4, DiveValues, WordFacts
<1>8. ans \in Word /\ Value[ans] = q
  BY <1>1, <1>3, <1>7, LeftMultiplies DEF q
<1>9. ~Negative(ans) /\ (ans = {} <=> q = 0)
  BY <1>5, <1>7, <1>8, ValueRange, WordFacts
<1> HIDE DEF ans
<1>10. CASE fuhao = 1
  <2>1. /\ res' = Negated(ans) /\ res' \in Word
        /\ Value[res'] = IF ans = {} THEN 0 ELSE 2^W - q
    BY <1>1, <1>8, <1>10, NegatedValue
  <2>2. Signed(res') = -q
    <3>1. CASE q = 0
      <4>1. Value[res'] = 0 /\ ~Negative(res')
        BY <1>9, <2>1, <3>1, ValueRange, WordFacts
      <4>2. Signed(res') = 0
        BY <4>1 DEF Signed
      <4>3. \A u, v \in Int : u + u = v => -u = u - v
        OBVIOUS
      <4>4. q \in Int /\ q + q = 0 /\ 0 \in Int /\ q - 0 = 0
        BY <3>1
      <4> QED
        BY <4>2, <4>3, <4>4, Zenon
    <3>2. CASE q # 0
      <4>1. Value[res'] = 2^W - q
        BY <1>9, <2>1, <3>2
      <4>2. 2^(W - 1) <= Value[res']
        BY <1>5, <1>7, <4>1, WordFacts
      <4>3. Negative(res')
        BY <2>1, <4>2, ValueRange
      <4> QED
        BY <1>5, <4>1, <4>3, WordFacts DEF Signed
    <3> QED
      BY <3>1, <3>2
  <2>3. Quotient(arg1, arg2) = -q
    BY <1>3, <1>6, <1>10 DEF Quotient, Dividend, Divisor
  <2> QED
    BY <1>4, <2>2, <2>3
<1>11. CASE fuhao # 1
  <2>1. Signed(res') = q
    BY <1>1, <1>8, <1>9, <1>11 DEF Signed
  <2>2. Quotient(arg1, arg2) = q
    BY <1>3, <1>6, <1>11 DEF Quotient, Dividend, Divisor
  <2> QED
    BY <1>4, <2>1, <2>2
<1> QED
  BY <1>10, <1>11

(* A dividend less than the divisor has quotient 0.                         *)
LEMMA ZeroIsQuotient ==
  ASSUME BitTypeOK, op = "dive", DiveInv, DiveReturnsZero
  PROVE  arg2 # {} /\ Signed(res') = Quotient(arg1, arg2)
<1>1. x = arg1 /\ y = arg2 /\ Below(Magnitude(x), Magnitude(y)) /\ res' = {}
  BY DEF DiveReturnsZero, DiveInv, Ready
<1>2. /\ Magnitude(arg1) \in Word /\ ~Negative(Magnitude(arg1))
      /\ Magnitude(arg2) \in Word /\ ~Negative(Magnitude(arg2))
  BY MagnitudeValue DEF BitTypeOK
<1>3. Dividend < Divisor
  BY <1>1, <1>2, BelowIsLess DEF Dividend, Divisor
<1>4. arg2 # {} /\ Divisor \in Nat \ {0} /\ Dividend \in Nat
  BY <1>3, DiveValues
<1>5. Dividend \div Divisor = 0
  <2>1. \A a, u, r \in Int, b \in Nat \ {0} : a = u * b + r /\ 0 <= r /\ r < b => a \div b = u
    BY DivIs
  <2>2. Dividend \in Int /\ 0 \in Int /\ 0 <= Dividend /\ Dividend = 0 * Divisor + Dividend
    BY <1>4
  <2> QED
    BY <1>3, <1>4, <2>1, <2>2, Zenon
<1>6. Signed(res') = 0
  BY <1>1, ValueEmpty DEF Signed, Negative
<1>7. Quotient(arg1, arg2) = 0
  BY <1>5 DEF Quotient, Dividend, Divisor
<1> QED
  BY <1>4, <1>6, <1>7

LEMMA DiveInvStep == BitTypeOK /\ BitTypeOK' /\ DiveInv /\ [BitNext]_bitvars => DiveInv'
<1> SUFFICES ASSUME BitTypeOK, BitTypeOK', DiveInv, [BitNext]_bitvars, op' = "dive"
             PROVE  DiveInv'
  BY DEF DiveInv
<1>0. op = "dive" /\ op' = op /\ arg1' = arg1 /\ arg2' = arg2
  BY DEF BitNext, AddStep, MulAdds, MulShifts, MulReturns, DiveReturnsZero, DiveAligns,
         DiveComplements, DiveSubtracts, DiveHalves, DiveGoesOn, DiveReturns, bitvars, given
<1>1. /\ at \in {"dive", "loop", "complement", "difference", "done"}
      /\ Dividend' = Dividend /\ Divisor' = Divisor
  BY <1>0 DEF BitTypeOK, Dividend, Divisor
<1>2. CASE AddStep
  <2>1. /\ at \in {"complement", "difference"} /\ at' = at
        /\ x' = x /\ y' = y /\ res' = res
        /\ temp' = temp /\ count' = count /\ shift' = shift /\ fuhao' = fuhao
        /\ adder1' = Xor(adder1, adder2) /\ adder2' = ShiftLeft(adder1 \cap adder2, 1)
    BY <1>1, <1>2 DEF AddStep, division
  <2>2. Moved' = Moved /\ Rest' = Rest
    BY <1>1, <2>1 DEF Moved, Rest
  <2>3. Same(Value[adder1'] + Value[adder2'], Value[adder1] + Value[adder2])
    BY <2>1, TurnKeepsSum DEF BitTypeOK
  <2>4. /\ Value[adder1'] + Value[adder2'] \in Int /\ Value[adder1] + Value[adder2] \in Int
        /\ Rest \in Int /\ 2^W - Value[temp] \in Int
    <3>1. Value[adder1'] \in Nat /\ Value[adder2'] \in Nat
      BY ValueIs DEF BitTypeOK
    <3> QED
      BY <1>0, <3>1, DiveValues, WordFacts
  <2>5. ASSUME NEW v \in Int, Same(Value[adder1] + Value[adder2], v)
        PROVE  Same(Value[adder1'] + Value[adder2'], v)
    BY <2>3, <2>4, <2>5, SameTrans, Zenon
  <2>6. Aligned'
    BY <1>0, <1>1, <2>1, <2>2 DEF DiveInv, Aligned
  <2>7. Subtracting'
    <3> SUFFICES ASSUME at = "complement" PROVE Subtracting'
      BY <2>1 DEF Subtracting
    <3>1. Same(Value[adder1'] + Value[adder2'], 2^W - Value[temp])
      BY <1>0, <2>4, <2>5 DEF DiveInv, Subtracting
    <3> QED
      BY <1>0, <1>1, <2>1, <2>2, <3>1 DEF DiveInv, Subtracting
  <2>8. Comparing'
    <3> SUFFICES ASSUME at = "difference" PROVE Comparing'
      BY <2>1 DEF Comparing
    <3>1. Same(Value[adder1'] + Value[adder2'], Rest)
      BY <1>0, <2>4, <2>5 DEF DiveInv, Comparing
    <3> QED
      BY <1>0, <1>1, <2>1, <2>2, <3>1 DEF DiveInv, Comparing
  <2> QED
    BY <2>1, <2>6, <2>7, <2>8 DEF DiveInv, Ready, DiveIsQuotient
<1>3. CASE DiveReturnsZero
  <2>1. arg2 # {} /\ Signed(res') = Quotient(arg1, arg2)
    BY <1>0, <1>3, ZeroIsQuotient
  <2>2. Quotient(arg1', arg2') = Quotient(arg1, arg2) /\ at' = "done"
    BY <1>0, <1>3 DEF DiveReturnsZero
  <2> QED
    BY <1>0, <2>1, <2>2 DEF DiveInv, Ready, Aligned, Subtracting, Comparing, DiveIsQuotient
<1>4. CASE DiveReturns
  <2>1. arg2 # {} /\ Signed(res') = Quotient(arg1, arg2)
    BY <1>0, <1>4, AnswerIsQuotient
  <2>2. Quotient(arg1', arg2') = Quotient(arg1, arg2) /\ at' = "done"
    BY <1>0, <1>4 DEF DiveReturns
  <2> QED
    BY <1>0, <2>1, <2>2 DEF DiveInv, Ready, Aligned, Subtracting, Comparing, DiveIsQuotient
<1>5. CASE DiveAligns
  <2> DEFINE a == Magnitude(arg1)
             b == Magnitude(arg2)
             n == Length(a) - Length(b)
  <2>1. /\ x = arg1 /\ y = arg2 /\ res = {0} /\ count = 1 /\ at' = "loop"
        /\ x' = a /\ y' = b /\ res' = res /\ count' = count /\ ~Below(a, b)
        /\ fuhao' = (IF Negative(arg1) THEN 1 ELSE 0) + (IF Negative(arg2) THEN 1 ELSE 0)
    BY <1>0, <1>5 DEF DiveAligns, DiveInv, Ready
  <2>2. /\ shift' = n - (IF Below(a, ShiftLeft(b, n)) THEN 1 ELSE 0)
        /\ temp' = ShiftLeft(b, shift')
    BY <1>5, <2>1, Zenon DEF DiveAligns
  <2>3. /\ a \in Word /\ b \in Word /\ ~Negative(a) /\ ~Negative(b)
        /\ arg2 \in Word
    BY <1>0, MagnitudeValue DEF BitTypeOK
  <2>4. Value[a] = Dividend /\ Value[b] = Divisor /\ Divisor <= Dividend
        /\ (Divisor # 0 <=> b # {})
    <3>1. ~(Value[a] < Value[b])
      BY <2>1, <2>3, BelowIsLess
    <3>2. b # {} <=> Value[b] # 0
      BY <2>3, ValueRange
    <3> QED
      BY <1>0, <3>1, <3>2, DiveValues DEF Dividend, Divisor
  <2>5. n \in Int /\ shift' \in Int
    BY <2>3, LengthIs DEF BitTypeOK
  <2> HIDE DEF a, b
  <2>6. /\ shift' \in Nat /\ Value[temp'] = Divisor * 2^(shift')
        /\ Value[temp'] <= Dividend
        /\ Divisor # 0 => Dividend < 2 * Value[temp']
    <3>1. Value[b] <= Value[a] /\ n = Length(a) - Length(b)
      BY <2>4
    <3>2. /\ shift' \in Nat /\ Value[ShiftLeft(b, shift')] = Value[b] * 2^(shift')
          /\ Value[ShiftLeft(b, shift')] <= Value[a]
          /\ b # {} => Value[a] < 2 * Value[ShiftLeft(b, shift')]
      BY <2>2, <2>3, <2>5, <3>1, Alignment
    <3> QED
      BY <2>2, <2>4, <3>2
  <2>7. Moved' = shift'
    <3>1. count' = 1 /\ Moved' = shift' - count' + 1
      BY <2>1, Zenon DEF Moved
    <3>2. \A u \in Int : u - 1 + 1 = u
      OBVIOUS
    <3>3. Moved' = shift' - 1 + 1
      BY <3>1, Zenon
    <3> QED
      BY <2>5, <3>2, <3>3
  <2>8. Value[res'] = 1
    BY <2>1, ValueBit, WordFacts, PowerZero
  <2>9. fuhao' = 1 <=> (Negative(arg1) # Negative(arg2))
    BY <2>1 DEF Negative
  <2>10. Value[temp'] \in Nat
    BY ValueIs DEF BitTypeOK
  <2>11. Value[res'] * Value[temp'] = Value[temp'] /\ Rest' = Dividend - Value[temp']
    <3>1. Value[res'] * Value[temp'] = Value[temp']
      BY <2>8, <2>10
    <3> QED
      BY <1>1, <3>1 DEF Rest
  <2>12. Aligned'
    BY <1>0, <1>1, <2>1, <2>3, <2>6, <2>7, <2>8, <2>9, <2>11 DEF Aligned, b
  <2>13. Subtracting'
    BY <1>1, <2>1, <2>4, <2>6, <2>11 DEF Subtracting
  <2> QED
    BY <2>1, <2>12, <2>13 DEF DiveInv, Ready, Comparing, DiveIsQuotient
<1>6. CASE DiveComplements
  <2>1. /\ at = "loop" /\ at' = "complement" /\ x' = x /\ y' = y /\ res' = res
        /\ temp' = temp /\ count' = count /\ shift' = shift /\ fuhao' = fuhao
        /\ adder1' = Bits \ temp /\ adder2' = {0}
    BY <1>6 DEF DiveComplements, Calls, division
  <2>2. Moved' = Moved /\ Rest' = Rest
    BY <1>1, <2>1 DEF Moved, Rest
  <2>3. Value[adder1'] + Value[adder2'] = 2^W - Value[temp]
    <3>1. Value[adder1'] = 2^W - 1 - Value[temp]
      BY <2>1, ComplementValue DEF BitTypeOK
    <3>2. Value[adder2'] = 1
      BY <2>1, ValueBit, WordFacts, PowerZero
    <3> QED
      BY <1>0, <3>1, <3>2, DiveValues, WordFacts
  <2>4. Same(Value[adder1'] + Value[adder2'], 2^W - Value[temp])
    <3>1. 2^W - Value[temp] \in Int
      BY <1>0, DiveValues, WordFacts
    <3> QED
      BY <2>3, <3>1, SameRefl, Zenon
  <2>5. Aligned' /\ Subtracting'
    BY <1>0, <1>1, <2>1, <2>2, <2>4 DEF DiveInv, Aligned, Subtracting
  <2> QED
    BY <2>1, <2>5 DEF DiveInv, Ready, Comparing, DiveIsQuotient
<1>7. CASE DiveSubtracts
  <2>1. /\ at = "complement" /\ at' = "difference" /\ x' = x /\ y' = y /\ res' = res
        /\ temp' = temp /\ count' = count /\ shift' = shift /\ fuhao' = fuhao
        /\ adder2 = {} /\ adder1' = x /\ adder2' = adder1
    BY <1>7 DEF DiveSubtracts, Calls, division
  <2>2. Moved' = Moved /\ Rest' = Rest
    BY <1>1, <2>1 DEF Moved, Rest
  <2>3. /\ Rest = Value[x] - Value[temp] /\ Value[temp] <= Value[x]
        /\ Divisor # 0 => Value[x] < 2 * Value[temp]
        /\ Same(Value[adder1] + Value[adder2], 2^W - Value[temp])
    BY <1>0, <2>1 DEF DiveInv, Subtracting
  <2>4. Same(Value[adder1'] + Value[adder2'], Rest)
    <3>1. PICK k \in Int : Value[adder1] + Value[adder2] = (2^W - Value[temp]) + k * 2^W
      BY <2>3 DEF Same
    <3>2. Value[adder1] + 0 = (2^W - Value[temp]) + k * 2^W
      BY <2>1, <3>1, ValueEmpty
    <3>3. \A m, t, u, v \in Nat :
            v + 0 = (m - t) + k * m => u + v = (u - t) + (k + 1) * m
      OBVIOUS
    <3>4. Value[x] + Value[adder1] = (Value[x] - Value[temp]) + (k + 1) * 2^W
      BY <1>0, <3>2, <3>3, DiveValues, WordFacts
    <3>5. k + 1 \in Int
      OBVIOUS
    <3> QED
      BY <2>1, <2>3, <3>4, <3>5, Zenon DEF Same
  <2>5. Rest < Value[temp] \/ Divisor = 0
    BY <1>0, <2>3, DiveValues
  <2>6. Comparing'
    <3>1. Divisor # 0 => Rest < 2 * Value[temp] /\ ~(Value[temp] <= Rest)
      BY <1>0, <2>5, DiveValues
    <3> QED
      BY <1>1, <2>1, <2>2, <2>4, <3>1 DEF Comparing
  <2>7. Aligned'
    BY <1>0, <1>1, <2>1, <2>2 DEF DiveInv, Aligned
  <2> QED
    BY <2>1, <2>6, <2>7 DEF DiveInv, Ready, Subtracting, DiveIsQuotient
<1>8. CASE DiveHalves
  <2>1. /\ at = "difference" /\ at' = at /\ x' = x /\ y' = y /\ fuhao' = fuhao
        /\ adder1' = adder1 /\ adder2' = adder2
    BY <1>8 DEF DiveHalves, Returned, adders
  <2>2. /\ Moved' \in Nat /\ Value[temp'] = Divisor * 2^(Moved')
        /\ 1 <= Value[res'] /\ 0 \notin res'
        /\ Value[res'] * Value[temp'] = Value[res] * Value[temp]
        /\ Value[temp] = 2 * Value[temp'] /\ Rest < Value[temp]
    BY <1>0, <1>8, HalfKeepsRest
  <2>3. Rest' = Rest
    BY <1>1, <2>2 DEF Rest
  <2>4. Aligned'
    BY <1>0, <1>1, <2>1, <2>2 DEF DiveInv, Aligned
  <2>5. Comparing'
    BY <1>0, <1>1, <2>1, <2>2, <2>3 DEF DiveInv, Comparing
  <2> QED
    BY <2>1, <2>4, <2>5 DEF DiveInv, Ready, Subtracting, DiveIsQuotient
<1>9. CASE DiveGoesOn
  <2>1. /\ at = "difference" /\ at' = "loop" /\ y' = y
        /\ temp' = temp /\ count' = count /\ shift' = shift /\ fuhao' = fuhao
    BY <1>9 DEF DiveGoesOn, Returned, division
  <2>2. /\ ~Negative(x') /\ Value[x'] = Rest
        /\ 1 <= Value[res'] /\ Value[res'] * Value[temp] <= Dividend
        /\ Value[temp] <= Rest /\ (Divisor # 0 => Rest < 2 * Value[temp])
        /\ Dividend - Value[res'] * Value[temp] = Rest - Value[temp]
    BY <1>0, <1>9, BitCountsTemp
  <2>3. Moved' = Moved /\ Rest' = Rest - Value[temp]
    BY <1>1, <2>1, <2>2 DEF Moved, Rest
  <2>4. Aligned'
    BY <1>0, <1>1, <2>1, <2>2, <2>3 DEF DiveInv, Aligned
  <2>5. Subtracting'
    BY <1>1, <2>1, <2>2, <2>3 DEF Subtracting
  <2> QED
    BY <2>1, <2>4, <2>5 DEF DiveInv, Ready, Comparing, DiveIsQuotient
<1>10. CASE UNCHANGED bitvars
  <2>1. /\ at' = at /\ x' = x /\ y' = y /\ res' = res /\ temp' = temp /\ count' = count
        /\ shift' = shift /\ fuhao' = fuhao /\ adder1' = adder1 /\ adder2' = adder2
    BY <1>10 DEF bitvars, division, adders
  <2>2. Moved' = Moved /\ Rest' = Rest
    BY <1>1, <2>1 DEF Moved, Rest
  <2> QED
    BY <1>0, <1>1, <2>1, <2>2
       DEF DiveInv, Ready, Aligned, Subtracting, Comparing, DiveIsQuotient
<1> QED
  BY <1>1, <1>2, <1>3, <1>4, <1>5, <1>6, <1>7, <1>8, <1>9, <1>10
     DEF BitNext, MulAdds, MulShifts, MulReturns, Calls, Returned

(* dive is division that truncates towards 0, for every pair of arguments   *)
(* but INT_MIN: what it returns is the quotient, and it returns only if the *)
(* divisor is not 0.                                                        *)
THEOREM DiveIsDivision == BitSpec => []DiveIsQuotient
<1>1. BitInit => DiveInv
  BY DEF BitInit, DiveInv, Ready, Aligned, Subtracting, Comparing, DiveIsQuotient
<1>2. DiveInv => DiveIsQuotient
  BY DEF DiveInv, DiveIsQuotient
<1> QED
  BY <1>1, <1>2, BitTypeCorrect, DiveInvStep, PTL DEF BitSpec
=============================================================================
