------------------------------ MODULE Rounding ------------------------------
(* Math.round, by which both workers turn a quotient into a whole number.   *)
EXTENDS Integers

\* Math.round of the quotient of an integer and a positive one: halves are rounded up.
Round(a, b) == (2 * a + b) \div (2 * b)
=============================================================================
