----------------------------- MODULE MCRangeStore -----------------------------
(***************************************************************************)
(* Two layers, one with equal chunks that share a file, and a budget that  *)
(* is one byte short of all of them, so that it depends on the order of    *)
(* the runs which chunk is refused.                                        *)
(***************************************************************************)
EXTENDS RangeStore

CONSTANTS l0, l2, a, b, c, d, zeros, p, q

MCLayerOf == a :> l0 @@ b :> l0 @@ c :> l2 @@ d :> l2
MCBytes == a :> 2 @@ b :> 2 @@ c :> 1 @@ d :> 2
MCDigest == a :> zeros @@ b :> zeros @@ c :> p @@ d :> q
Do(does, of) == [does |-> does, of |-> of]
MCScripts ==
  l0 :> <<Do("fetch", a), Do("use", a), Do("fetch", b), Do("use", a), Do("use", b)>>
  @@ l2 :> <<Do("fetch", c), Do("fetch", d), Do("use", d), Do("use", c)>>
MCPlans == {<<l0, l2>>, <<l2>>, <<l0>>, <<l2, l0>>}
===============================================================================
