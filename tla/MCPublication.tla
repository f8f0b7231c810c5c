---------------------------- MODULE MCPublication -----------------------------
(***************************************************************************)
(* Two runs; all three files, or two of them, or none, or the logits, at   *)
(* destinations that the runs share, and choices that must be refused.     *)
(***************************************************************************)
EXTENDS Publication

CONSTANTS run1, run2, x, y, z

Choice(token, report, trace) ==
  [k \in Kinds |-> CASE k = "token" -> token [] k = "report" -> report
                      [] k = "trace" -> trace [] k = "logits" -> NoPath]
Dump(paths, logits) == [paths EXCEPT !["logits"] = logits]

MCOptions ==
  {Choice(x, y, z), Choice(y, x, NoPath), Choice(x, NoPath, z), Choice(NoPath, x, NoPath),
   Choice(NoPath, NoPath, NoPath), Choice(x, x, NoPath), Choice(x, y, y),
   Dump(Choice(NoPath, NoPath, NoPath), x), Dump(Choice(y, NoPath, NoPath), x)}
===============================================================================
