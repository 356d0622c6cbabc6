----------------------------- MODULE MCFraming ------------------------------
(* Framing on a small instance: an empty text, one of one byte, one with a  *)
(* carriage return at its end, which receivers strip, and a longer one.     *)
EXTENDS Framing

MCTexts == {<<>>, <<"x">>, <<"x", "CR">>, <<"y", "x", "y">>}
=============================================================================
