----------------------------- MODULE PrimeField -----------------------------
(***************************************************************************)
(* Real numbers for exact transforms.  A real number is an element of the  *)
(* field of integers modulo a prime P, an angle is a number of parts of a  *)
(* full turn of P - 1 parts.  Sines and cosines come from the powers of a  *)
(* Generator of the field, so all identities between the sines and cosines *)
(* of fractions of a turn that P - 1 allows hold as they do for real       *)
(* numbers; order and size of numbers do not exist.                        *)
(***************************************************************************)
EXTENDS Integers, Sequences, FiniteSetsExt

CONSTANTS P, Generator

FullTurn == P - 1

\* The powers of the generator, by squares,
GeneratorTo[k \in 0 .. P - 2] ==
    IF k = 0 THEN 1
    ELSE IF k % 2 = 1 THEN (GeneratorTo[k - 1] * Generator) % P
    ELSE LET root == GeneratorTo[k \div 2] IN (root * root) % P

\* as a sequence: position k + 1 has Generator^k.
Powers == [k \in 1 .. P - 1 |-> GeneratorTo[k - 1]]

\* P is a prime, Generator generates all of its field, and a quarter of a turn exists.
ASSUME FieldAssumption ==
    /\ P \in Nat /\ P > 2 /\ (P - 1) % 4 = 0
    /\ \A d \in 2 .. P - 1 : P % d # 0
    /\ Generator \in 1 .. P - 1
    /\ {Powers[k] : k \in 1 .. P - 1} = 1 .. P - 1

Reals == 0 .. P - 1

Power(k) == Powers[(k % FullTurn) + 1]
Inverses == [x \in 1 .. P - 1 |-> CHOOSE y \in 1 .. P - 1 : (x * y) % P = 1]

Times(x, y) == (x * y) % P
Over(x, y) == (x * Inverses[y % P]) % P

Cos(angle) == Over(Power(angle) + Power(-angle), 2)
Sin(angle) == Over(Power(angle) - Power(-angle), 2 * Power(FullTurn \div 4))

\* pi/n, where P - 1 allows it.
PiOver(n) == FullTurn \div (2 * n)

SumOf(f(_), S) == MapThenSumSet(f, S) % P
=============================================================================
