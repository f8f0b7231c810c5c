------------------------------ MODULE MCSequence ------------------------------
(***************************************************************************)
(* Two layers, one global and one with a window shorter than the context;  *)
(* two tokens, so that a stale row of another text is told apart.          *)
(***************************************************************************)
EXTENDS Sequence

CONSTANTS a, b, outside

MCIds == {a, b, outside}
MCTokens == {a, b}
MCPrompts == {<<a>>, <<b>>, <<b, a>>, <<a, b, a>>, <<a, outside>>, <<a, a, a, a, a>>}
MCWindow == <<0, 2>>
===============================================================================
