------------------------------ MODULE Allocations ------------------------------
(***************************************************************************)
(* How the calls of src/model allocate: one malloc() after another, each   *)
(* of which may fail, with a cleanup of its own at every point of failure. *)
(*                                                                         *)
(* A call is a sequence of items.  An item takes blocks from the heap, or  *)
(* only looks at something; when it succeeds it may give blocks back and   *)
(* leave blocks in fields of its owner, and when it fails it frees what    *)
(* the code frees by hand at that point.  An owner that was still being    *)
(* built is then closed or freed as a whole.                               *)
(*                                                                         *)
(* A block is named for the variable or field that points to it, and has   *)
(* the number of elements it was allocated for.  No two blocks that are    *)
(* allocated at a time have the same name and size: what replaces a buffer *)
(* is longer.  Calls on a model and its contexts never overlap.            *)
(***************************************************************************)
EXTENDS Integers, Sequences, FiniteSets

VARIABLES
  heap,    (* the blocks that are allocated                                *)
  held,    (* per owner, the blocks that its fields point to               *)
  by,      (* the owner whose call is in progress                          *)
  todo,    (* what is left of that call                                    *)
  pins,    (* the blocks that the call got as arguments                    *)
  misuse   (* history variable: blocks freed when they were not allocated  *)

allocations == <<heap, held, by, todo, pins, misuse>>

Block(owner, name, index, size) ==
  [owner |-> owner, name |-> name, index |-> index, size |-> size]

\* An access to the first `count` elements behind a field, or behind an
\* argument that was read from that field before the call.
Access(owner, name, index, count) ==
  [owner |-> owner, name |-> name, index |-> index, count |-> count, argument |-> FALSE]
Argument(owner, name, count) ==
  [Access(owner, name, 0, count) EXCEPT !.argument = TRUE]

-------------------------------------------------------------------------------
\* take: allocated; drop: freed; own: left in a field; undo: freed on failure;
\* may: the item can fail; pass: it can succeed; uses: its accesses;
\* pin: fields handed on as arguments; rows: scratch_reserve() of so many
\* tokens; scratch, position: what the context records, -1 for no change.
Item == [take |-> {}, drop |-> {}, own |-> {}, undo |-> {}, may |-> FALSE, pass |-> TRUE,
         uses |-> {}, pin |-> {}, rows |-> 0, scratch |-> -1, position |-> -1]

Alloc(block, undo) == [Item EXCEPT !.take = {block}, !.undo = undo, !.may = TRUE]
Keep(block, undo) == [Alloc(block, undo) EXCEPT !.own = {block}]
Test(pass, undo) == [Item EXCEPT !.pass = pass, !.undo = undo, !.may = TRUE]
Free(blocks) == [Item EXCEPT !.drop = blocks]
Become(blocks) == [Item EXCEPT !.own = blocks]
Use(uses) == [Item EXCEPT !.uses = uses, !.may = TRUE]
Reserve(tokens) == [Item EXCEPT !.rows = tokens]

-------------------------------------------------------------------------------
\* The blocks in fields that no new block goes to.
Others(blocks, new) ==
  {b \in blocks : \A n \in new : n.name # b.name \/ n.index # b.index}

\* What the item leaves: its blocks taken, dropped and left in fields.
Done(item) ==
  /\ heap' = (heap \cup item.take) \ item.drop
  /\ misuse' = misuse \cup (item.drop \ (heap \cup item.take))
  /\ held' = [held EXCEPT ![by] = Others(@ \ item.drop, item.own) \cup item.own]
  /\ pins' = {b \in pins : b.name \notin item.pin} \cup {b \in held[by] : b.name \in item.pin}

\* What is left when the item fails; `rest` is freed with the owner.
Undone(item, rest) ==
  /\ heap' = heap \ (item.undo \cup rest)
  /\ misuse' = misuse \cup ((item.undo \cup rest) \ heap) \cup (item.undo \cap rest)
  /\ held' = [held EXCEPT ![by] = @ \ (item.undo \cup rest)]

\* An access that stays inside a block that is allocated.
Inside(access) ==
  \E b \in (IF access.argument THEN pins ELSE held[access.owner]) \cap heap :
    /\ b.owner = access.owner /\ b.name = access.name /\ b.index = access.index
    /\ access.count <= b.size
===============================================================================
