---------------------------- MODULE ExpertCacheLru ----------------------------
(***************************************************************************)
(* ExpertCache implements LruCache.  The abstract order changes in one     *)
(* step while the code evicts entry by entry before it knows whether the   *)
(* newcomer can be read, so a history variable remembers the order the     *)
(* call found; it is what the abstract order still is until the call has   *)
(* published its entry or given up.                                        *)
(***************************************************************************)
EXTENDS ExpertCache

VARIABLE before   (* keys of lru when the call missed, <<>> otherwise      *)

Order(s) == [i \in 1..Len(s) |-> s[i].key]

MakingRoom(p) == p \in {"room", "fillData", "fillScales"}

HInit == Init /\ before = <<>>

HNext ==
  /\ Next
  /\ before' = IF ~MakingRoom(pc') THEN <<>>
               ELSE IF pc = "lookup" THEN Order(lru) ELSE before

HSpec == HInit /\ [][HNext]_<<vars, before>> /\ WF_<<vars, before>>(Step /\ HNext)

Lru == INSTANCE LruCache WITH
         order  <- IF MakingRoom(pc) THEN before ELSE Order(lru),
         asked  <- IF key \in Routed THEN key ELSE NoKey,
         served <- hit

\* Whatever fails on the way, the entries a call leaves behind are those of an
\* ideal LRU cache: in order of last use, and after a miss exactly the longest
\* most-recently-used prefix that leaves room for the newcomer.
ImplementsLru == Lru!Spec
===============================================================================
