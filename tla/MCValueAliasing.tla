-------------------------- MODULE MCValueAliasing --------------------------
(* ValueAliasing for TLC: two backing arrays, slices of up to two elements *)
(* over two values of different types and two names.                       *)
EXTENDS ValueAliasing

MCItems == { Int32Value(1), TextValue(<<97>>) }
MCNames == { <<97>>, <<98>> }

=============================================================================
