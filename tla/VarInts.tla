------------------------------- MODULE VarInts -------------------------------
(***************************************************************************)
(* Variable-length integers (codec/reader.py, codec/writer.py): a number   *)
(* is written in digits of base 128, the least first, and every digit but  *)
(* the last has the eighth bit set.  A signed number is written zigzag:    *)
(* the even codes are the numbers from 0 up, the odd ones those below 0.   *)
(*                                                                         *)
(* One number of a packet goes through a series of protocols.  The first   *)
(* one reads the bytes of the sender; from then on each writes the number, *)
(* and the next reads the bytes it wrote, each perhaps as another kind of  *)
(* field: the y of a block position changes its kind at v944.              *)
(* A written byte is read at once: the bytes between two protocols are a   *)
(* queue, and no property depends on how far the reader is behind.         *)
(***************************************************************************)
EXTENDS Integers

CONSTANTS
  Base,     \* 128
  Modulus,  \* 2^32, or 2^64: the numbers a field holds
  Limit,    \* 5, or 10: the bytes a reader accepts
  Power     \* the powers of Base, up to that of Limit

ASSUME BaseAssumption == Base \in Nat \ {0, 1}
ASSUME ModulusAssumption == Modulus \in Nat \ {0} /\ Modulus % 2 = 0
ASSUME LimitAssumption == Limit \in Nat \ {0, 1}
ASSUME PowerAssumption ==
  /\ Power \in [0..Limit -> Nat]
  /\ Power[0] = 1
  /\ \A k \in 0..(Limit - 1) : Power[k + 1] = Base * Power[k]
\* A number of the width fits into the bytes that the reader accepts.
ASSUME WidthAssumption == Modulus <= Power[Limit]

VARIABLES
  phase,   \* where the number is
  kind,    \* the kind of field it is read as, or written as
  result,  \* the reader's result so far
  count,   \* the bytes read so far
  rest,    \* the writer's val: what it has still to write
  origin,  \* the value that the first protocol read
  hops     \* whether a protocol has written it yet
vars == <<phase, kind, result, count, rest, origin, hops>>

Phases == {"reading", "read", "writing", "refused", "short"}
\* VAR_INT, UVAR_INT, and the y of NETWORK_BLOCK_POS.
Kinds == {"signed", "unsigned", "height"}

Half == Modulus \div 2

\* The number in the signed range that has the bits of v.
ToSigned(v) == IF v % Modulus < Half THEN v % Modulus ELSE (v % Modulus) - Modulus

\* (raw >> 1) ^ -(raw & 1), and (val << 1) ^ (val >> 31).
Unzigzag(raw) == IF raw % 2 = 0 THEN raw \div 2 ELSE -((raw + 1) \div 2)
Zigzag(v) == IF v >= 0 THEN 2 * v ELSE -(2 * v) - 1

\* What a reader makes of the digits.
Value(k, raw) ==
  CASE k = "signed" -> Unzigzag(raw)
    [] k = "height" -> IF raw >= Half THEN raw - Modulus ELSE raw
    [] k = "unsigned" -> raw

\* A faulty variant: the sign is taken before the number is masked.
Code_Unmasked(k, v) == IF k = "signed" THEN Zigzag(v) % Modulus ELSE v % Modulus

\* What a writer writes in digits: the mask comes first.
Code(k, v) == IF k = "signed" THEN Zigzag(ToSigned(v)) ELSE v % Modulus

\* Faulty variants: one byte less, or one more, is accepted.
Full_Early(n) == n >= Limit - 1
Full_Late(n) == n > Limit
\* The reader has as many bytes as it accepts.
Full(n) == n >= Limit

\* A faulty variant: the shift is not raised, and the digits replace each other.
Digit_Unshifted(d, more) ==
  /\ result' = d /\ count' = count
  /\ phase' = IF ~ more THEN "read" ELSE IF Full(count + 1) THEN "refused" ELSE phase

\* The reader takes a byte: its digit, and whether another follows.
Digit(d, more) ==
  /\ result' = result + d * Power[count]
  /\ count' = count + 1
  /\ phase' = IF ~ more THEN "read" ELSE IF Full(count + 1) THEN "refused" ELSE phase

Init ==
  /\ phase = "reading" /\ kind \in Kinds
  /\ result = 0 /\ count = 0 /\ rest = 0 /\ origin = 0 /\ hops = FALSE

\* The number is delivered, or the packet failed on it: another one.
Another ==
  /\ phase \in {"read", "refused", "short"}
  /\ phase' = "reading" /\ kind' \in Kinds
  /\ result' = 0 /\ count' = 0 /\ rest' = 0 /\ origin' = 0 /\ hops' = FALSE

\* A byte of the sender, which need not be the writer's: any number of bytes.
Receive ==
  /\ phase = "reading"
  /\ \E d \in 0..(Base - 1), more \in BOOLEAN : Digit(d, more)
  /\ UNCHANGED <<kind, rest, hops>>
  /\ origin' = IF phase' = "read" THEN Value(kind, result') ELSE origin

\* The payload ends within the number.
RunOut ==
  /\ phase = "reading"
  /\ phase' = "short"
  /\ UNCHANGED <<kind, result, count, rest, origin, hops>>

\* A protocol writes the value it has read; the next reader starts.
Write ==
  /\ phase = "read"
  /\ phase' = "writing"
  /\ kind' \in Kinds
  /\ rest' = Code(kind', Value(kind, result))
  /\ result' = 0 /\ count' = 0 /\ hops' = TRUE
  /\ UNCHANGED origin

\* A faulty variant: the number is not shifted.
Carry_Unshifted ==
  /\ phase = "writing"
  /\ rest' = rest
  /\ Digit(rest % Base, rest' > 0)
  /\ UNCHANGED <<kind, origin, hops>>

\* The writer's next digit.
Carry ==
  /\ phase = "writing"
  /\ rest' = rest \div Base
  /\ Digit(rest % Base, rest' > 0)
  /\ UNCHANGED <<kind, origin, hops>>

Next == Another \/ Receive \/ RunOut \/ Write \/ Carry

Fairness == WF_vars(Receive \/ RunOut) /\ WF_vars(Carry)

Spec == Init /\ [][Next]_vars /\ Fairness

-----------------------------------------------------------------------------
(***************************************************************************)
(* Properties.                                                             *)
(***************************************************************************)
TypeOK ==
  /\ phase \in Phases /\ kind \in Kinds /\ hops \in BOOLEAN
  /\ result \in Nat /\ count \in 0..Limit /\ rest \in Nat /\ origin \in Int

\* The value that a field of kind k holds for v: what is beyond the width of
\* the field is cut off.
Held(k, v) == IF k = "unsigned" THEN v % Modulus ELSE ToSigned(v)

\* Every protocol after the first reads the value that the first one read, as
\* its kind of field holds it, whatever kinds the protocols between them read
\* and write (a height is a varint at v944 and an unsigned one before,
\* v924_to_v944/handlers/block_pos.py) and however the sender wrote it.  A
\* value beyond the width, which only the sender's bytes can have
\* (codec/reader.py:158-164), is the same to all of them but the first.
ReadAlike == phase = "read" /\ hops => Value(kind, result) = Held(kind, origin)

\* No reader refuses as too long, or reads short, what a protocol wrote.
NoneTooLong == hops => phase \in {"read", "writing"}

\* What a protocol writes is read to its end, and no bytes of a sender keep a
\* reader in its loop (codec/reader.py:156-164).
Arrives == phase = "writing" ~> phase = "read"
ReadersStop == phase = "reading" ~> phase # "reading"
=============================================================================
