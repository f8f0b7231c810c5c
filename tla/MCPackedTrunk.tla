---------------------------- MODULE MCPackedTrunk -----------------------------
(***************************************************************************)
(* Two tensors in two shards; two revisions with equal ranges and with     *)
(* headers of different sizes; three runs of the tool, one of them aimed   *)
(* at a shard.                                                             *)
(***************************************************************************)
EXTENDS PackedTrunk

CONSTANTS p1, p2, wrong, t1, t2

MCNames == <<t1, t2>>
MCRevisions == 1..2
MCRanges == <<"narrow", "narrow">>
MCHeader == <<"short", "long">>
===============================================================================
