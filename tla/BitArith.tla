------------------------------ MODULE BitArith ------------------------------
(***************************************************************************)
(* c++Test/c++Projects/helloword.cpp, 100 to 194: the four operations of    *)
(* arithmetic from bit operations.  An int is the set of its bits that are  *)
(* one, so & is \cap, | is \cup, ~ the complement; << drops bits and >> of  *)
(* a negative int copies the sign, as gcc does it.                          *)
(***************************************************************************)
EXTENDS Integers, FiniteSets

CONSTANT W           \* width of an int (32)

ASSUME WidthAssumption == W \in Nat \ {0, 1}

Bits == 0 .. W - 1
Word == SUBSET Bits
Least == {W - 1}     \* INT_MIN

(* What a word stands for: bit i counts 2^i, and the sign -2^(W-1).         *)
Value == [a \in Word |-> Cardinality(UNION {{i} \X (1 .. 2^i) : i \in a})]
Negative(a) == W - 1 \in a
Signed(a) == IF Negative(a) THEN Value[a] - 2^W ELSE Value[a]
Below(a, b) == Signed(a) < Signed(b)

Xor(a, b) == (a \ b) \cup (b \ a)
ShiftLeft(a, n) == {i + n : i \in a} \cap Bits
ShiftRight(a) == {i - 1 : i \in a \ {0}} \cup ({W - 1} \cap a)
Negated(a) == CHOOSE b \in Word : Value[a] + Value[b] \in {0, 2^W}   \* -1 * a
Magnitude(a) == IF Negative(a) THEN Negated(a) ELSE a

VARIABLES
  op, at,            \* "mul" or "dive"; where it is: op, or a place below
  arg1, arg2, sum0,  \* the arguments; what sum was at first
  x, y,              \* mul1, mul2 or div, div2
  res,               \* sum or ans
  temp, count, shift, fuhao,   \* of dive; shift is divC - div2C - flag
  adder1, adder2     \* of add; adder1 is what the last call returned

given == <<op, arg1, arg2, sum0>>
division == <<temp, count, shift, fuhao>>
adders == <<adder1, adder2>>
bitvars == <<given, at, x, y, res, division, adders>>

(* sum is not initialised (125).  dive does not consider overflow (138).    *)
BitInit ==
  /\ op \in {"mul", "dive"} /\ at = op /\ arg1 \in Word /\ arg2 \in Word
  /\ op = "dive" => arg1 # Least /\ arg2 # Least
  /\ sum0 \in IF op = "mul" THEN Word ELSE {{0}}
  /\ x = arg1 /\ y = arg2 /\ res = sum0
  /\ temp = {} /\ count = 1 /\ shift = 0 /\ fuhao = 0
  /\ adder1 = {} /\ adder2 = {}

Calls(from, a, b, to) == at = from /\ at' = to /\ adder1' = a /\ adder2' = b
Returned(from) == at = from /\ adder2 = {}

AddStepInPlace ==   \* mutant of AddStep: the carry is not shifted
  /\ at \in {"sum", "complement", "difference"} /\ adder2 # {}
  /\ adder1' = Xor(adder1, adder2) /\ adder2' = adder1 \cap adder2
  /\ UNCHANGED <<given, at, x, y, res, division>>

(* The body of add.  Without a carry it changes nothing, so that add may    *)
(* as well return before it as after it.                                    *)
AddStep ==
  /\ at \in {"sum", "complement", "difference"} /\ adder2 # {}
  /\ adder1' = Xor(adder1, adder2) /\ adder2' = ShiftLeft(adder1 \cap adder2, 1)
  /\ UNCHANGED <<given, at, x, y, res, division>>
-----------------------------------------------------------------------------
(* mul.                                                                     *)

MulAdds ==
  /\ 0 \in x /\ Calls("mul", res, y, "sum")
  /\ UNCHANGED <<given, x, y, res, division>>

MulShiftsInside ==   \* mutant of MulShifts: the shifts are inside the if
  /\ Returned("sum") /\ res' = adder1
  /\ at' = "mul" /\ y' = ShiftLeft(y, 1) /\ x' = ShiftRight(x)
  /\ UNCHANGED <<given, division, adders>>

MulShifts ==
  /\ \/ at = "mul" /\ x # {} /\ 0 \notin x /\ UNCHANGED res
     \/ Returned("sum") /\ res' = adder1
  /\ at' = "mul" /\ y' = ShiftLeft(y, 1) /\ x' = ShiftRight(x)
  /\ UNCHANGED <<given, division, adders>>

MulReturns ==
  /\ at = "mul" /\ x = {} /\ at' = "done"
  /\ UNCHANGED <<given, x, y, res, division, adders>>
-----------------------------------------------------------------------------
(* dive.                                                                    *)

DiveReturnsZero ==
  /\ at = "dive" /\ Below(Magnitude(x), Magnitude(y)) /\ at' = "done"
  /\ res' = {}
  /\ UNCHANGED <<given, x, y, division, adders>>

(* divC and div2C, and the divisor moved under the dividend.                *)
Length(a) == CHOOSE i \in 1 .. W : (\A j \in a : j < i) /\ (i = 1 \/ i - 1 \in a)
DiveAligns ==
  /\ at = "dive" /\ ~Below(Magnitude(x), Magnitude(y)) /\ at' = "loop"
  /\ x' = Magnitude(x) /\ y' = Magnitude(y)
  /\ fuhao' = (IF Negative(x) THEN 1 ELSE 0) + (IF Negative(y) THEN 1 ELSE 0)
  /\ LET n == Length(x') - Length(y')
         flag == IF Below(x', ShiftLeft(y', n)) THEN 1 ELSE 0
     IN  shift' = n - flag /\ temp' = ShiftLeft(y', n - flag)
  /\ UNCHANGED <<given, res, count, adders>>

(* sub(div, temp) is add(div, add(~temp, 1)).                               *)
DiveComplements ==
  /\ Calls("loop", Bits \ temp, {0}, "complement")
  /\ UNCHANGED <<given, x, y, res, division>>
DiveSubtracts ==
  /\ adder2 = {} /\ Calls("complement", x, adder1, "difference")
  /\ UNCHANGED <<given, x, y, res, division>>

DiveHalves ==
  /\ Returned("difference") /\ ~Below(adder1, y) /\ Below(adder1, temp)
  /\ temp' = ShiftRight(temp) /\ res' = ShiftLeft(res, 1) /\ count' = count + 1
  /\ UNCHANGED <<given, at, x, y, shift, fuhao, adders>>

DiveGoesOn ==
  /\ Returned("difference") /\ ~Below(adder1, y) /\ ~Below(adder1, temp)
  /\ at' = "loop" /\ res' = res \cup {0} /\ x' = adder1
  /\ UNCHANGED <<given, y, division, adders>>

DiveReturnsNegated ==   \* mutant of DiveReturns: negated if any argument is negative
  /\ Returned("difference") /\ Below(adder1, y) /\ at' = "done"
  /\ LET ans == ShiftLeft(res, shift - count + 1)
     IN  res' = IF fuhao > 0 THEN Negated(ans) ELSE ans
  /\ UNCHANGED <<given, x, y, division, adders>>

DiveReturns ==
  /\ Returned("difference") /\ Below(adder1, y) /\ at' = "done"
  /\ LET ans == ShiftLeft(res, shift - count + 1)
     IN  res' = IF fuhao = 1 THEN Negated(ans) ELSE ans
  /\ UNCHANGED <<given, x, y, division, adders>>

BitNext ==
  \/ AddStep \/ MulAdds \/ MulShifts \/ MulReturns
  \/ DiveReturnsZero \/ DiveAligns \/ DiveComplements \/ DiveSubtracts
  \/ DiveHalves \/ DiveGoesOn \/ DiveReturns

BitSpec == BitInit /\ [][BitNext]_bitvars
BitFairness == WF_bitvars(BitNext)
-----------------------------------------------------------------------------
(* Properties, for every pair of arguments.                                 *)

(* mul adds the product, modulo 2^W, to what sum happens to hold at first.  *)
(* It returns only if mul1 is not negative: else >> never makes it 0 (126). *)
(* With mul1 = 1 this is what add makes of every pair, and of the carries.  *)
MulAddsProduct ==
  op = "mul" /\ at = "done" =>
    ~Negative(arg1) /\ Value[res] = (Value[sum0] + Value[arg1] * Value[arg2]) % 2^W

(* dive truncates the quotient towards 0, as / does.                        *)
Quotient(a, b) ==
  LET q == Value[Magnitude(a)] \div Value[Magnitude(b)]
  IN  IF Negative(a) = Negative(b) THEN q ELSE -q
DiveIsQuotient ==
  op = "dive" /\ at = "done" => arg2 # {} /\ Signed(res) = Quotient(arg1, arg2)

(* The loops end, for mul1 >= 0 and a divisor other than 0.                 *)
LoopsEnd ==
  (IF op = "mul" THEN ~Negative(arg1) ELSE arg2 # {}) ~> (at = "done")
=============================================================================
