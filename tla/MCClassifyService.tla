------------------------- MODULE MCClassifyService -------------------------
(* ClassifyService for TLC: an output automation may act on, one that asks *)
(* for a person, and one with a confidence of NaN, which asks for none.    *)
EXTENDS ClassifyService, TLC

CONSTANTS oAuto, oHuman, oNaN

MCUnrenderable == {oNaN} \cap Outputs

MCNeedsHuman == [o \in Outputs |-> o = oHuman]

MCSymmetry == Permutations(Calls) \cup Permutations(Workers)
=============================================================================
