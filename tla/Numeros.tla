------------------------------- MODULE Numeros -------------------------------
(***************************************************************************)
(* Python's min, max and int() on the integers and fractions of the models.*)
(***************************************************************************)
EXTENDS Integers

BASIS_POINTS == 10000

Menor(a, b) == IF a < b THEN a ELSE b
Mayor(a, b) == IF a > b THEN a ELSE b

\* int(a / b), towards zero.  b is positive.
Truncado(a, b) == IF a >= 0 THEN a \div b ELSE -((-a) \div b)
=============================================================================
