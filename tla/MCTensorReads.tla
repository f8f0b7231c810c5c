---------------------------- MODULE MCTensorReads -----------------------------
(***************************************************************************)
(* Two shards of three bytes.  Lists of up to three ranges: adjacent, with *)
(* gaps, overlapping, empty, too long, in every order.  Reads of whole     *)
(* tensors and of parts, and calls whose sums pass the end of a uint64_t   *)
(* of four bits.                                                           *)
(***************************************************************************)
EXTENDS TensorReads

Ranges(shards, least) ==
  {r \in [shard : shards, start : 0..Size, bytes : least..Size] : r.start + r.bytes <= Size}

MCListings ==
  {<<>>, <<[shard |-> 0, start |-> 2, bytes |-> 2]>>}
  \cup {<<r>> : r \in Ranges(Shards, 0)}
  \cup {<<r, s>> : r \in Ranges(Shards, 0), s \in Ranges(Shards, 0)}
  \cup {<<r, s, t>> : r \in Ranges({0}, 1), s \in Ranges({0}, 1), t \in Ranges({0}, 0)}

Call(r, relative, wanted) ==
  [shard |-> r.shard, start |-> r.start, bytes |-> r.bytes,
   relative |-> relative, wanted |-> wanted]

MCRequests ==
  {Call(r, k, n) : r \in Ranges({0}, 1), k \in 0..Size - 1, n \in 0..Size}
  \cup {Call(r, 0, r.bytes) : r \in Ranges({1, 2}, 1)}
  \cup {Call([shard |-> 0, start |-> Word - 2, bytes |-> 3], 0, 1),
        Call([shard |-> 0, start |-> 2, bytes |-> 2], 0, 1),
        Call([shard |-> 0, start |-> 1, bytes |-> 2], Word - 1, 2)}
===============================================================================
