------------------------------- MODULE LruCache -------------------------------
(***************************************************************************)
(* What an expert cache promises its callers, without saying how: a byte   *)
(* limited set of resident projections in order of last use.  Every change *)
(* is one indivisible operation on the whole order.  ExpertCache, which    *)
(* walks a list, evicts one entry at a time and can fail between any two   *)
(* of these steps, is shown to implement this module.                      *)
(***************************************************************************)
EXTENDS Integers, Sequences

CONSTANTS
  Routed,    (* cacheable (matrix, expert) projections                     *)
  Charge,    (* bytes of the allocation that holds each of them            *)
  Capacity,  (* limit on the bytes of all cache allocations                *)
  NoKey      (* no projection                                              *)

VARIABLES
  order,     (* resident projections, most recently used first             *)
  asked,     (* the projection a caller is asking for, or NoKey            *)
  served     (* it is resident and the caller reads it in place            *)

Members(s) == {s[i] : i \in 1..Len(s)}

\* Bytes of the first n entries of s, as the last value of their running totals.
Bytes(s, n) ==
  LET total[i \in 0..n] == IF i = 0 THEN 0 ELSE total[i - 1] + Charge[s[i]]
  IN total[n]

\* The longest most-recently-used prefix of s that leaves room for k.
Survivors(s, k) ==
  LET fits(n) == Bytes(s, n) <= Capacity - Charge[k]
      n == CHOOSE n \in 0..Len(s) : fits(n) /\ \A m \in (n + 1)..Len(s) : ~fits(m)
  IN SubSeq(s, 1, n)

Ask(k) ==
  /\ asked = NoKey
  /\ asked' = k
  /\ UNCHANGED <<order, served>>

\* A resident projection is used again and becomes the most recent.
Reuse ==
  /\ \E i \in 1..Len(order) :
       /\ order[i] = asked
       /\ order' = <<asked>> \o SubSeq(order, 1, i - 1) \o SubSeq(order, i + 1, Len(order))
  /\ served' = TRUE
  /\ UNCHANGED asked

CanBring == asked \in Routed \ Members(order) /\ Charge[asked] <= Capacity

\* An absent projection that fits is brought in, at the expense of as few of
\* the least recently used as possible.
Bring ==
  /\ CanBring
  /\ order' = <<asked>> \o Survivors(order, asked)
  /\ served' = TRUE
  /\ UNCHANGED asked

\* It could not be brought in after room was made for it; the caller goes on
\* without it, or fails.
GiveUp ==
  /\ CanBring
  /\ order' = Survivors(order, asked)
  /\ asked' \in {asked, NoKey}
  /\ UNCHANGED served

Done ==
  /\ asked' = NoKey /\ served' = FALSE
  /\ UNCHANGED order

Init == order = <<>> /\ asked = NoKey /\ served = FALSE

Next == (\E k \in Routed : Ask(k)) \/ Reuse \/ Bring \/ GiveUp \/ Done

Spec == Init /\ [][Next]_<<order, asked, served>>
===============================================================================
