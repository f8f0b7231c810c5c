----------------------------- MODULE MCCatalogue ------------------------------
(***************************************************************************)
(* Three names that an index may hold and one that it never does, two      *)
(* shards and the MTP shard.  The hash values make the names collide, wrap *)
(* around the end of a table of eight, four and two slots, or stay apart.  *)
(* The pinned checkpoint has one tensor in each shard; there are indexes   *)
(* of it in several orders, and some that are nearly right.                *)
(***************************************************************************)
EXTENDS Catalogue

CONSTANTS a, b, c, other, s1, s2, mtp

MCShards == {s1, s2, mtp}
MCNames == {a, b, c, other}
MCHashes == [MCNames -> {0, 7}]

Member(n, s) == [name |-> n, shard |-> s]
Document(members, total) == [members |-> members, total |-> total]
MCDocuments ==
  {Document(<<Member(a, s1), Member(b, s1), Member(c, s2)>>, 3),
   Document(<<Member(a, s1), Member(c, s2), Member(b, s1)>>, 3),
   Document(<<Member(a, s1), Member(b, s1), Member(c, s1)>>, 2),
   Document(<<Member(a, s1)>>, 2),
   Document(<<Member(a, s1), Member(b, s1), Member(a, s2)>>, 2),
   Document(<<>>, 0),
   Document(<<Member(b, mtp), Member(c, s2), Member(a, s1)>>, 4),
   Document(<<Member(b, mtp), Member(c, s2), Member(a, s1)>>, 3),
   Document(<<Member(a, s1), Member(c, mtp), Member(b, s2)>>, 4),
   Document(<<Member(a, s1), Member(b, mtp), Member(c, s1)>>, 4)}

MCPinned ==
  {[name |-> a, mtp |-> FALSE, bytes |-> 2], [name |-> b, mtp |-> TRUE, bytes |-> 1],
   [name |-> c, mtp |-> FALSE, bytes |-> 1]}
MCPinnedShards == <<s1, s2, mtp>>

Header(tensors, payload) == [tensors |-> tensors, payload |-> payload]
One == [name : {a, b, c}, start : {0}, bytes : 0..2]
First == [name : {a, other}, start : 0..1, bytes : 0..2]
Second == [name : {a, b}, start : 0..2, bytes : 0..1]
MCHeaders ==
  {Header(<<x>>, p) : x \in One, p \in 1..2}
  \cup {Header(<<x, y>>, 2) : x \in First, y \in Second}
  \cup {Header(<<[name |-> c, start |-> 0, bytes |-> 0],
               [name |-> b, start |-> s, bytes |-> 1],
               [name |-> a, start |-> 0, bytes |-> 1]>>, 2) : s \in 0..2}
===============================================================================
