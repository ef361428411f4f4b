--------------------------- MODULE MCMqttExchange ---------------------------
(* The calls of a run and its bounds are in its configuration; requests are *)
(* interchangeable, and so are readers.                                    *)
EXTENDS MqttExchange, TLC

CallSymmetry == Permutations(Calls \ Readers) \cup Permutations(Readers)
=============================================================================
