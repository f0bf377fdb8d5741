---------------------------- MODULE MCSetpoints ----------------------------
(***************************************************************************)
(* Instances of Setpoints for TLC: what a configuration may ask for.       *)
(***************************************************************************)
EXTENDS Setpoints

\* 60, 61, 68, 90 and 91 degrees Fahrenheit, and 18 degrees Celsius, which is
\* not a whole one.
ExactOverrides == {FromDevice(v) : v \in {60, 61, 68, 90, 91}} \cup {18 * Celsius}

\* 61, 68 and 90 degrees Fahrenheit as they are typed: 16.111 and 20 and
\* 32.2225 degrees Celsius.
TypedOverrides == {1449990, 20 * Celsius, 2900025}

\* One, two and one and a half degrees, the last of which is not whole, and one
\* typed with three decimals.
SomeSteps == {Whole, 2 * Whole, Whole + Whole \div 2, 50040}
=============================================================================
