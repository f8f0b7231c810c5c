----------------------------- MODULE MCJsonParser -----------------------------
(***************************************************************************)
(* Two names, three levels of values and texts of up to nine tokens: the   *)
(* shortest in which an object has two members, or the same name twice.    *)
(***************************************************************************)
EXTENDS JsonParser

CONSTANTS k, l

MCNames == {k, l}
===============================================================================
