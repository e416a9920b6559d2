---------------------------- MODULE VarInts_proofs ----------------------------
(***************************************************************************)
(* Proofs about VarInts: for every base, width and limit that fit each     *)
(* other, the value of a number survives its being written and read.       *)
(***************************************************************************)
EXTENDS VarInts, TLAPS

LEMMA Halves == Half \in Nat \ {0} /\ Modulus = 2 * Half
  BY ModulusAssumption, SMT DEF Half

\* Digits: the last one and the others.
LEMMA Digits ==
  ASSUME NEW n \in Nat
  PROVE  /\ n = Base * (n \div Base) + (n % Base)
         /\ n % Base \in 0..(Base - 1)
         /\ n \div Base \in Nat
  BY BaseAssumption, SMT

LEMMA FewerDigits ==
  ASSUME NEW n \in Nat, NEW m \in Nat, n < Base * m
  PROVE  n \div Base < m
  BY BaseAssumption, SMTT(30)

\* What is read so far and what is left, a digit later.
LEMMA MoveDigit ==
  ASSUME NEW r \in Nat, NEW p \in Nat, NEW n \in Nat
  PROVE  (r + (n % Base) * p) + (Base * p) * (n \div Base) = r + p * n
<1> DEFINE q == n \div Base
<1> DEFINE d == n % Base
<1>1. q \in Nat /\ d \in Nat /\ n = Base * q + d /\ Base \in Nat
  BY Digits, BaseAssumption
<1> HIDE DEF q, d
<1>2. p * n = p * (Base * q) + p * d
  BY <1>1, SMT
<1>3. p * (Base * q) = (Base * p) * q /\ p * d = d * p
  BY <1>1, SMT
<1>4. (r + d * p) + (Base * p) * q = r + p * n
  BY <1>1, <1>2, <1>3, SMT
<1>5. QED
  BY <1>4 DEF q, d

LEMMA Masked ==
  ASSUME NEW v \in Int
  PROVE  v % Modulus \in 0..(Modulus - 1)
  BY Halves, SMT

LEMMA MaskedOnce ==
  ASSUME NEW u \in 0..(Modulus - 1)
  PROVE  u % Modulus = u /\ (u - Modulus) % Modulus = u
<1>1. Modulus \in Nat \ {0}
  BY Halves, SMT
<1>2. u % Modulus = u
  BY <1>1, SMTT(30)
<1>3. (u - Modulus) % Modulus = u
  BY <1>1, SMTT(30)
<1>4. QED
  BY <1>2, <1>3

\* ToSigned gives a number of the signed range, with the bits of the other.
LEMMA SignedOf ==
  ASSUME NEW v \in Int
  PROVE  /\ ToSigned(v) \in Int
         /\ -Half <= ToSigned(v) /\ ToSigned(v) < Half
         /\ ToSigned(v) % Modulus = v % Modulus
<1> DEFINE u == v % Modulus
<1>1. u \in 0..(Modulus - 1)
  BY Masked
<1>2. ToSigned(v) = IF u < Half THEN u ELSE u - Modulus
  BY DEF ToSigned
<1>3. u % Modulus = u /\ (u - Modulus) % Modulus = u
  BY <1>1, MaskedOnce
<1> HIDE DEF u
<1>4. /\ (IF u < Half THEN u ELSE u - Modulus) \in Int
      /\ -Half <= (IF u < Half THEN u ELSE u - Modulus)
      /\ (IF u < Half THEN u ELSE u - Modulus) < Half
  BY <1>1, Halves, SMT
<1>5. ToSigned(v) % Modulus = u
  BY <1>2, <1>3
<1>6. QED
  BY <1>2, <1>4, <1>5 DEF u

\* Zigzag and back, and the codes of the signed range.
LEMMA ZigzagBack ==
  ASSUME NEW w \in Int
  PROVE  Zigzag(w) \in Nat /\ Unzigzag(Zigzag(w)) = w
<1>1. CASE w >= 0
  BY <1>1, SMT DEF Zigzag, Unzigzag
<1>2. CASE ~ (w >= 0)
  BY <1>2, SMT DEF Zigzag, Unzigzag
<1>3. QED
  BY <1>1, <1>2

LEMMA ZigzagFits ==
  ASSUME NEW w \in Int, -Half <= w, w < Half
  PROVE  Zigzag(w) \in 0..(Modulus - 1)
  BY Halves, SMT DEF Zigzag

\* A code is a number of the width.
LEMMA CodeFits ==
  ASSUME NEW k \in Kinds, NEW v \in Int
  PROVE  Code(k, v) \in 0..(Modulus - 1)
<1>1. CASE k = "signed"
  BY <1>1, SignedOf, ZigzagFits DEF Code
<1>2. CASE k # "signed"
  BY <1>2, Masked DEF Code
<1>3. QED
  BY <1>1, <1>2

LEMMA ValueType ==
  ASSUME NEW k \in Kinds, NEW raw \in Nat
  PROVE  Value(k, raw) \in Int
<1>1. Unzigzag(raw) \in Int
  BY SMT DEF Unzigzag
<1>2. raw - Modulus \in Int
  BY Halves, SMT
<1>3. QED
  BY <1>1, <1>2 DEF Value, Kinds

\* A value read from what was written for v is v, as the field holds it.
LEMMA ValueOfCode ==
  ASSUME NEW k \in Kinds, NEW v \in Int
  PROVE  Value(k, Code(k, v)) = Held(k, v)
<1>1. CASE k = "signed"
  <2>1. Code(k, v) = Zigzag(ToSigned(v))
    BY <1>1 DEF Code
  <2>2. Value(k, Code(k, v)) = Unzigzag(Zigzag(ToSigned(v)))
    BY <1>1, <2>1 DEF Value
  <2>3. QED
    BY <1>1, <2>2, SignedOf, ZigzagBack DEF Held
<1>2. CASE k = "height"
  <2>1. Code(k, v) = v % Modulus /\ Value(k, Code(k, v)) =
          IF v % Modulus >= Half THEN (v % Modulus) - Modulus ELSE v % Modulus
    BY <1>2 DEF Code, Value
  <2>2. Held(k, v) = IF v % Modulus < Half THEN v % Modulus ELSE (v % Modulus) - Modulus
    BY <1>2 DEF Held, ToSigned
  <2>3. v % Modulus >= Half <=> ~ (v % Modulus < Half)
    BY Masked, Halves, SMT
  <2>4. QED
    BY <2>1, <2>2, <2>3
<1>3. CASE k = "unsigned"
  BY <1>3 DEF Code, Value, Held
<1>4. QED
  BY <1>1, <1>2, <1>3 DEF Kinds

LEMMA HeldBits ==
  ASSUME NEW k \in Kinds, NEW v \in Int
  PROVE  Held(k, v) \in Int /\ Held(k, v) % Modulus = v % Modulus
<1>1. CASE k = "unsigned"
  <2>1. (v % Modulus) % Modulus = v % Modulus
    BY Masked, MaskedOnce
  <2>2. v % Modulus \in Int
    BY Masked
  <2>3. QED
    BY <1>1, <2>1, <2>2 DEF Held
<1>2. CASE k # "unsigned"
  BY <1>2, SignedOf DEF Held
<1>3. QED
  BY <1>1, <1>2

\* What is written depends on no more than the bits of the width.
LEMMA CodeOfBits ==
  ASSUME NEW k \in Kinds, NEW v \in Int, NEW w \in Int, v % Modulus = w % Modulus
  PROVE  Code(k, v) = Code(k, w)
  BY DEF Code, ToSigned

\* A value written again is written as the first one would be.
LEMMA CodeAgain ==
  ASSUME NEW k \in Kinds, NEW j \in Kinds, NEW v \in Int
  PROVE  Code(j, Value(k, Code(k, v))) = Code(j, v)
  BY ValueOfCode, HeldBits, CodeOfBits

(***************************************************************************)
(* The inductive invariant: while a number is written, what the reader has *)
(* and what the writer has left make up the code of the first value, and   *)
(* what is left fits into the bytes the reader still accepts.              *)
(***************************************************************************)
Written == Code(kind, origin)
Inv ==
  /\ TypeOK
  /\ phase = "reading" => ~ hops /\ count < Limit
  /\ phase = "writing" =>
       /\ hops /\ count < Limit
       /\ result + Power[count] * rest = Written
       /\ rest < Power[Limit - count]
  /\ phase = "read" => (IF hops THEN result = Written ELSE origin = Value(kind, result))
  /\ hops => phase \in {"read", "writing"}

LEMMA Powers ==
  /\ Power[0] = 1
  /\ \A k \in 0..(Limit - 1) : Power[k] \in Nat /\ Power[k + 1] = Base * Power[k]
  /\ \A k \in 0..Limit : Power[k] \in Nat
  /\ Power[1] = Base
<1>1. 0 \in 0..(Limit - 1)
  BY LimitAssumption, SMT
<1>2. Base * 1 = Base
  BY BaseAssumption, SMT
<1>3. \A k \in 0..(Limit - 1) : k \in 0..Limit
  BY LimitAssumption, SMT
<1>4. Power[0 + 1] = Base * Power[0] /\ 0 + 1 = 1
  BY <1>1, PowerAssumption, SMT
<1>5. QED
  BY <1>2, <1>3, <1>4, PowerAssumption

LEMMA InitInv == Init => Inv
<1> SUFFICES ASSUME Init PROVE Inv
  OBVIOUS
<1>1. TypeOK
  <2>1. 0 \in 0..Limit /\ 0 \in Nat /\ 0 \in Int
    BY LimitAssumption, SMT
  <2>2. QED
    BY <2>1 DEF Init, TypeOK, Phases
<1>2. QED
  BY <1>1, LimitAssumption, SMT DEF Init, Inv

LEMMA NextInv == Inv /\ [Next]_vars => Inv'
<1> SUFFICES ASSUME Inv, [Next]_vars PROVE Inv'
  OBVIOUS
<1> USE DEF Inv
<1>0. TypeOK
  OBVIOUS
<1>1. CASE Another
  <2>1. TypeOK'
    <3>1. 0 \in 0..Limit /\ 0 \in Nat /\ 0 \in Int
      BY LimitAssumption, SMT
    <3>2. QED
      BY <1>1, <3>1 DEF Another, TypeOK, Phases
  <2>2. QED
    BY <1>1, <2>1, LimitAssumption, SMT DEF Another
<1>2. CASE Receive
  <2> PICK d \in 0..(Base - 1), more \in BOOLEAN : Digit(d, more)
    BY <1>2 DEF Receive
  <2>1. /\ phase = "reading" /\ ~ hops /\ count < Limit /\ UNCHANGED <<kind, rest, hops>>
        /\ origin' = IF phase' = "read" THEN Value(kind, result') ELSE origin
    BY <1>2 DEF Receive
  <2>2. result' \in Nat /\ count' \in 0..Limit /\ count' = count + 1
    <3>1. Power[count] \in Nat
      BY <1>0, <2>1, Powers DEF TypeOK
    <3>2. d \in Nat
      BY BaseAssumption, SMT
    <3>3. d * Power[count] \in Nat
      BY <3>1, <3>2, SMT
    <3>4. QED
      BY <1>0, <2>1, <3>3, LimitAssumption, SMT DEF Digit, TypeOK
  <2>3. phase' \in {"read", "refused", "reading"} /\ (phase' = "reading" => count' < Limit)
    BY <2>1, <2>2, LimitAssumption, SMT DEF Digit, Full
  <2>4. origin' \in Int
    BY <1>0, <2>1, <2>2, ValueType DEF TypeOK
  <2>5. TypeOK'
    BY <1>0, <2>1, <2>2, <2>3, <2>4 DEF TypeOK, Phases
  <2>6. QED
    BY <2>1, <2>3, <2>5
<1>3. CASE RunOut
  <2>1. TypeOK'
    BY <1>0, <1>3 DEF RunOut, TypeOK, Phases
  <2>2. ~ hops
    BY <1>3 DEF RunOut
  <2>3. QED
    BY <1>3, <2>1, <2>2 DEF RunOut
<1>4. CASE Write
  <2>1. /\ phase = "read" /\ phase' = "writing" /\ kind' \in Kinds
        /\ rest' = Code(kind', Value(kind, result))
        /\ result' = 0 /\ count' = 0 /\ hops' = TRUE /\ origin' = origin
    BY <1>4 DEF Write
  <2>2. rest' = Written'
    <3>1. CASE hops
      BY <1>0, <2>1, <3>1, CodeAgain DEF Written, TypeOK
    <3>2. CASE ~ hops
      BY <2>1, <3>2 DEF Written
    <3>3. QED
      BY <3>1, <3>2
  <2>3. Written' \in 0..(Modulus - 1)
    BY <1>0, <2>1, CodeFits DEF Written, TypeOK
  <2>4. rest' \in Nat /\ rest' < Power[Limit]
    <3>1. Power[Limit] \in Nat
      BY Powers, LimitAssumption, SMT
    <3>2. QED
      BY <2>2, <2>3, <3>1, WidthAssumption, Halves, SMT
  <2>5. TypeOK'
    BY <1>0, <2>1, <2>4, LimitAssumption, SMT DEF TypeOK, Phases
  <2>6. Limit - count' = Limit /\ count' < Limit
    BY <2>1, LimitAssumption, SMT
  <2>7. result' + Power[count'] * rest' = Written'
    <3>1. Power[count'] = 1 /\ result' = 0
      BY <2>1, Powers
    <3>2. \A n \in Nat : 0 + 1 * n = n
      BY SMT
    <3>3. QED
      BY <2>2, <2>4, <3>1, <3>2
  <2>8. QED
    BY <2>1, <2>4, <2>5, <2>6, <2>7
<1>5. CASE Carry
  <2>1. /\ phase = "writing" /\ rest' = rest \div Base /\ Digit(rest % Base, rest' > 0)
        /\ kind' = kind /\ origin' = origin /\ hops' = hops
    BY <1>5 DEF Carry
  <2>2. /\ hops /\ count < Limit /\ count \in Nat /\ rest \in Nat /\ result \in Nat
        /\ result + Power[count] * rest = Written /\ rest < Power[Limit - count]
    BY <1>0, <2>1, SMT DEF TypeOK
  <2>3. rest' \in Nat /\ rest % Base \in Nat
    BY <2>1, <2>2, Digits, BaseAssumption, SMT
  <2>4. count \in 0..(Limit - 1) /\ Limit - count - 1 \in 0..(Limit - 1)
    BY <2>2, LimitAssumption, SMT
  <2>5. /\ Power[count] \in Nat /\ Power[count + 1] = Base * Power[count]
        /\ Power[Limit - count - 1] \in Nat
    BY <2>4, Powers
  <2>6. Power[Limit - count] = Base * Power[Limit - count - 1]
    <3>1. (Limit - count - 1) + 1 = Limit - count
      BY <2>2, LimitAssumption, SMT
    <3>2. QED
      BY <2>4, <3>1, Powers
  <2>7. rest' < Power[Limit - count - 1]
    BY <2>1, <2>2, <2>5, <2>6, FewerDigits
  <2>8. result' = result + (rest % Base) * Power[count] /\ count' = count + 1
    BY <2>1 DEF Digit
  <2>9. result' + Power[count'] * rest' = Written' /\ Written' = Written
    <3>1. (result + (rest % Base) * Power[count]) + (Base * Power[count]) * (rest \div Base)
            = result + Power[count] * rest
      BY <2>2, <2>5, MoveDigit
    <3>2. Power[count'] = Base * Power[count]
      BY <2>5, <2>8
    <3>3. Written' = Written
      BY <2>1 DEF Written
    <3>4. QED
      BY <2>1, <2>2, <2>8, <3>1, <3>2, <3>3
  <2>10. phase' = IF ~ (rest' > 0) THEN "read" ELSE IF Full(count + 1) THEN "refused" ELSE phase
    BY <2>1 DEF Digit
  <2>11. result' \in Nat
    <3>1. (rest % Base) * Power[count] \in Nat
      BY <2>3, <2>5, SMT
    <3>2. QED
      BY <2>2, <2>8, <3>1, SMT
  <2>12. CASE rest' = 0
    <3>1. phase' = "read"
      BY <2>10, <2>12, SMT
    <3>2. Power[count'] \in Nat /\ count' \in 0..Limit
      <4>1. count' \in 0..Limit
        BY <2>4, <2>8, LimitAssumption, SMT
      <4>2. QED
        BY <4>1, Powers
    <3>3. result' = Written'
      <4>1. result' + Power[count'] * 0 = result'
        BY <2>11, <3>2, SMT
      <4>2. QED
        BY <2>9, <2>12, <4>1
    <3>4. TypeOK'
      BY <1>0, <2>1, <2>3, <2>11, <3>1, <3>2 DEF TypeOK, Phases
    <3>5. QED
      BY <2>1, <2>2, <3>1, <3>3, <3>4
  <2>13. CASE rest' # 0
    <3>1. count + 1 < Limit
      <4> SUFFICES ASSUME count + 1 >= Limit PROVE FALSE
        BY <2>2, LimitAssumption, SMT
      <4>1. Limit - count - 1 = 0
        BY <2>2, LimitAssumption, SMT
      <4>2. rest' < 1
        BY <2>7, <4>1, Powers
      <4>3. QED
        BY <2>3, <2>13, <4>2, SMT
    <3>2. phase' = "writing"
      <4>1. rest' > 0
        BY <2>3, <2>13, SMT
      <4>2. ~ Full(count + 1)
        BY <2>2, <3>1, LimitAssumption, SMT DEF Full
      <4>3. QED
        BY <2>1, <2>10, <4>1, <4>2
    <3>3. Limit - count' = Limit - count - 1 /\ count' \in 0..Limit /\ count' < Limit
      BY <2>2, <2>8, <3>1, LimitAssumption, SMT
    <3>4. TypeOK'
      BY <1>0, <2>1, <2>3, <2>11, <3>2, <3>3 DEF TypeOK, Phases
    <3>5. QED
      BY <2>1, <2>2, <2>7, <2>9, <3>2, <3>3, <3>4
  <2>14. QED
    BY <2>12, <2>13
<1>6. CASE UNCHANGED vars
  BY <1>6 DEF vars, TypeOK, Written
<1>7. QED
  BY <1>1, <1>2, <1>3, <1>4, <1>5, <1>6 DEF Next

LEMMA Invariance == Spec => []Inv
<1>1. QED
  BY InitInv, NextInv, PTL DEF Spec

\* Numbers and counters keep their types: no reader counts beyond its limit.
THEOREM TypeCorrect == Spec => []TypeOK
<1>1. Inv => TypeOK
  BY DEF Inv
<1>2. QED
  BY <1>1, Invariance, PTL

\* Every protocol reads the value that the first one read, whatever kinds of
\* field it was written as on the way, for every base and width.
THEOREM SameToAll == Spec => []ReadAlike
<1>1. Inv => ReadAlike
  <2> SUFFICES ASSUME Inv, phase = "read", hops PROVE Value(kind, result) = Held(kind, origin)
    BY DEF ReadAlike
  <2>1. kind \in Kinds /\ origin \in Int /\ result = Code(kind, origin)
    BY DEF Inv, TypeOK, Written
  <2>2. QED
    BY <2>1, ValueOfCode
<1>2. QED
  BY <1>1, Invariance, PTL

\* No reader refuses or runs out of the bytes a protocol wrote, whenever the
\* numbers of the width fit into the bytes a reader accepts.
THEOREM WrittenFits == Spec => []NoneTooLong
<1>1. Inv => NoneTooLong
  BY DEF Inv, NoneTooLong
<1>2. QED
  BY <1>1, Invariance, PTL
=============================================================================
