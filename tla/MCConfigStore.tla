--------------------------- MODULE MCConfigStore ----------------------------
(* Two or three texts, up to two foreign writes.                           *)
EXTENDS ConfigStore, TLC

TextSymmetry == Permutations(Texts)
=============================================================================
