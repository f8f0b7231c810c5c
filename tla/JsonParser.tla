------------------------------ MODULE JsonParser ------------------------------
(***************************************************************************)
(* inkling_json_parse() and the accessors of its tree                      *)
(* (src/io/inkling_json.c): a recursive-descent parser in which any token  *)
(* may be wrong and any allocation may fail, with the tree half built.     *)
(*                                                                         *)
(* The text is read token by token and chosen as it is read; white space,  *)
(* the spelling of strings and numbers, and the position of an error are   *)
(* left out (JsonText has the spelling).  The C stack is the sequence of   *)
(* frames, and a failure goes back through it frame by frame.  Memory is   *)
(* the number of blocks that are allocated.                                *)
(***************************************************************************)
EXTENDS Integers, Sequences, FiniteSets, SequencesExt

CONSTANTS
  Names,          (* strings                                               *)
  Number,         (* a number                                              *)
  Literal,        (* true, false or null                                   *)
  Torn,           (* a string that is not well-formed                      *)
  Junk,           (* what no value begins with                             *)
  MaxDepth,       (* INKLING_JSON_MAX_DEPTH                                *)
  FirstCapacity,  (* elements of the first array of a container            *)
  MaxTokens       (* bound: texts are no longer                            *)

Tokens == Names \cup {Number, Literal, Torn, Junk} \cup {"{", "}", "[", "]", ":", ","}
Scalars == Names \cup {Number, Literal}

ASSUME ParserAssumption ==
  /\ Names \cap {Number, Literal, Torn, Junk} = {} /\ MaxDepth \in Nat
  /\ FirstCapacity \in Nat \ {0} /\ MaxTokens \in Nat

VARIABLES
  read,     (* the tokens before the position of the parser                *)
  ahead,    (* the token at it, or "end"                                   *)
  at,       (* what the parser expects or does next                        *)
  frames,   (* the containers it is in, innermost last: [node, key]        *)
  value,    (* a value that no container holds yet                         *)
  live,     (* blocks that are allocated                                   *)
  outcome   (* "running", "accepted", "refused" or "nomemory"              *)

vars == <<read, ahead, at, frames, value, live, outcome>>

\* A value: its first token, whether it owns a copy of its text, its members.
Node(token) == [token |-> token, text |-> FALSE, keys |-> <<>>, items |-> <<>>]
NoValue == Node("none")
NoKey == "none"

Depth == Len(frames)
Top == frames[Depth]
Closing == IF Top.node.token = "{" THEN "}" ELSE "]"

Init ==
  /\ read = <<>> /\ ahead \in Tokens \cup {"end"}
  /\ at = "value" /\ frames = <<>> /\ value = NoValue
  /\ live = 0 /\ outcome = "running"

\* The position moves behind the token that is ahead.
Advance ==
  /\ read' = Append(read, ahead)
  /\ ahead' \in (IF Len(read) + 1 < MaxTokens THEN Tokens \cup {"end"} ELSE {"end"})

\* Blocks of a value: what free_value() gives back.
RECURSIVE Blocks(_)
Blocks(v) ==
  LET inner == [i \in DOMAIN v.items |-> Blocks(v.items[i])]
  IN IF v = NoValue THEN 0
     ELSE 1 + Len(v.keys)
          + (IF v.text THEN 1 ELSE 0) + (IF v.items # <<>> THEN 1 ELSE 0)
          + FoldLeft(LAMBDA sum, n : sum + n, 0, inner)

-------------------------------------------------------------------------------
\* parse_value(): a container is begun, a scalar gets its node.
TooDeepEarly == Depth >= MaxDepth
TooDeep == Depth > MaxDepth
BeginsValue == ahead \in Scalars \cup {Torn, "{", "["}

Begin ==
  /\ at = "value" /\ ~TooDeep /\ ahead \in {"{", "["}
  /\ frames' = Append(frames, [node |-> Node(ahead), key |-> NoKey])
  /\ live' = live + 1 /\ at' = "first"
  /\ Advance
  /\ UNCHANGED <<value, outcome>>

Scalar ==
  /\ at = "value" /\ ~TooDeep /\ ahead \in Scalars \cup {Torn}
  /\ value' = Node(ahead) /\ live' = live + 1
  /\ IF ahead = Literal THEN at' = "attach" /\ Advance
                        ELSE at' = "text" /\ UNCHANGED <<read, ahead>>
  /\ UNCHANGED <<frames, outcome>>

\* The decoded string or the digits of a number.
Text ==
  /\ at = "text" /\ ahead # Torn
  /\ value' = [value EXCEPT !.text = TRUE] /\ live' = live + 1
  /\ at' = "attach"
  /\ Advance
  /\ UNCHANGED <<frames, outcome>>

\* An empty container, or the first of its members.
First ==
  /\ at = "first"
  /\ IF ahead = Closing
       THEN /\ value' = Top.node /\ frames' = Front(frames) /\ at' = "attach"
            /\ Advance
       ELSE /\ at' = IF Top.node.token = "{" THEN "key" ELSE "value"
            /\ UNCHANGED <<read, ahead, frames, value>>
  /\ UNCHANGED <<live, outcome>>

Key ==
  /\ at = "key" /\ ahead \in Names
  /\ frames' = [frames EXCEPT ![Depth].key = ahead]
  /\ live' = live + 1 /\ at' = "colon"
  /\ Advance
  /\ UNCHANGED <<value, outcome>>

\* Mutant: a key may occur twice.
NeverHasKey == FALSE

\* object_has_key().
HasKey == \E i \in DOMAIN Top.node.keys : Top.node.keys[i] = Top.key

Colon ==
  /\ at = "colon" /\ ~HasKey /\ ahead = ":"
  /\ at' = "value"
  /\ Advance
  /\ UNCHANGED <<frames, value, live, outcome>>

\* The arrays of a container double when they are full.
NeedsGrowth ==
  LET count == Len(Top.node.items)
  IN count = 0 \/ \E k \in 0..MaxTokens : count = FirstCapacity * 2 ^ k

\* append_array_item(), append_object_member(): the container owns the value.
Attach ==
  /\ at = "attach"
  /\ IF frames = <<>>
       THEN at' = "end" /\ UNCHANGED <<frames, value, live>>
       ELSE /\ frames' = [frames EXCEPT
                 ![Depth].node.items = Append(@, value),
                 ![Depth].node.keys = IF Top.key = NoKey THEN @ ELSE Append(@, Top.key),
                 ![Depth].key = NoKey]
            /\ live' = live + (IF Top.node.items = <<>> THEN 1 ELSE 0)
            /\ value' = NoValue /\ at' = "next"
  /\ UNCHANGED <<read, ahead, outcome>>

\* A container goes on, or it is complete and becomes a value itself.
Comma ==
  /\ at = "next" /\ ahead \in {",", Closing}
  /\ IF ahead = ","
       THEN /\ at' = IF Top.node.token = "{" THEN "key" ELSE "value"
            /\ UNCHANGED <<frames, value>>
       ELSE value' = Top.node /\ frames' = Front(frames) /\ at' = "attach"
  /\ Advance
  /\ UNCHANGED <<live, outcome>>

Accept ==
  /\ at = "end" /\ ahead = "end"
  /\ outcome' = "accepted" /\ at' = "done"
  /\ UNCHANGED <<read, ahead, frames, value, live>>

-------------------------------------------------------------------------------
\* A token that cannot follow: every message of the parser.
Refuse ==
  /\ \/ at = "value" /\ (TooDeep \/ ~BeginsValue)
     \/ at = "text" /\ ahead = Torn
     \/ at = "key" /\ ahead \notin Names
     \/ at = "colon" /\ (HasKey \/ ahead # ":")
     \/ at = "next" /\ ahead \notin {",", Closing}
     \/ at = "end" /\ ahead # "end"
  /\ outcome' = "refused" /\ at' = "unwind"
  /\ UNCHANGED <<read, ahead, frames, value, live>>

\* calloc, malloc or realloc fails; the old block of a realloc stays.
NoMemory ==
  /\ \/ at = "value" /\ ~TooDeep /\ BeginsValue
     \/ at = "text"
     \/ at = "key" /\ ahead \in Names \cup {Torn}
     \/ at = "attach" /\ frames # <<>> /\ NeedsGrowth
  /\ outcome' = "nomemory" /\ at' = "unwind"
  /\ UNCHANGED <<read, ahead, frames, value, live>>

\* Mutant: the key of the member that failed is not freed.
UnwindKeepsKey ==
  /\ at = "unwind"
  /\ value' = NoValue
  /\ IF frames = <<>>
       THEN at' = "done" /\ live' = live - Blocks(value) /\ UNCHANGED frames
       ELSE /\ live' = live - Blocks(value) - Blocks(Top.node)
            /\ frames' = Front(frames) /\ UNCHANGED at
  /\ UNCHANGED <<read, ahead, outcome>>

\* One return: the value that was not attached, the key that waits for its
\* value and the container are freed.
Unwind ==
  /\ at = "unwind"
  /\ value' = NoValue
  /\ IF frames = <<>>
       THEN at' = "done" /\ live' = live - Blocks(value) /\ UNCHANGED frames
       ELSE /\ live' = live - Blocks(value) - Blocks(Top.node)
                            - (IF Top.key = NoKey THEN 0 ELSE 1)
            /\ frames' = Front(frames) /\ UNCHANGED at
  /\ UNCHANGED <<read, ahead, outcome>>

\* inkling_json_document_free().
Free ==
  /\ at = "done" /\ outcome = "accepted"
  /\ live' = live - Blocks(value) /\ value' = NoValue
  /\ at' = "freed"
  /\ UNCHANGED <<read, ahead, frames, outcome>>

Next ==
  \/ Begin \/ Scalar \/ Text \/ First \/ Key \/ Colon \/ Attach \/ Comma \/ Accept
  \/ Refuse \/ NoMemory \/ Unwind \/ Free

Spec == Init /\ [][Next]_vars
-------------------------------------------------------------------------------
\* The accessors, which count from 0; NoValue stands for NULL.
ArraySize(v) == IF v.token = "[" THEN Len(v.items) ELSE 0
ArrayAt(v, i) == IF i < ArraySize(v) THEN v.items[i + 1] ELSE NoValue
ObjectSize(v) == IF v.token = "{" THEN Len(v.items) ELSE 0
KeyAt(v, i) == IF i < ObjectSize(v) THEN v.keys[i + 1] ELSE NoKey

\* inkling_json_object_get(): the first member with the name.
ObjectGet(v, name) ==
  LET found == {i \in 1..ObjectSize(v) : v.keys[i] = name}
  IN IF found = {} THEN NoValue
     ELSE v.items[CHOOSE i \in found : \A j \in found : i <= j]

-------------------------------------------------------------------------------
\* The text of a value, as the accessors show it.
RECURSIVE Written(_)
Written(v) ==
  LET comma(i) == IF i = 1 THEN <<>> ELSE <<",">>
      element(i) == comma(i) \o Written(ArrayAt(v, i - 1))
      member(i) == comma(i) \o <<KeyAt(v, i - 1), ":">>
                            \o Written(ObjectGet(v, KeyAt(v, i - 1)))
  IN CASE v.token = "[" -> <<"[">> \o FlattenSeq([i \in 1..ArraySize(v) |-> element(i)]) \o <<"]">>
       [] v.token = "{" -> <<"{">> \o FlattenSeq([i \in 1..ObjectSize(v) |-> member(i)]) \o <<"}">>
       [] OTHER -> <<v.token>>

\* The JSON grammar: the values of n tokens inside d containers, their lists,
\* and lists of members that have none of the names in used.
RECURSIVE ValuesOf(_, _), ListsOf(_, _), MembersOf(_, _, _)
ValuesOf(n, d) ==
  IF n < 1 \/ d > MaxDepth THEN {}
  ELSE IF n = 1 THEN {<<t>> : t \in Scalars}
  ELSE IF n = 2 THEN {<<"[", "]">>, <<"{", "}">>}
  ELSE {<<"[">> \o s \o <<"]">> : s \in ListsOf(n - 2, d + 1)}
       \cup {<<"{">> \o s \o <<"}">> : s \in MembersOf(n - 2, d + 1, {})}
ListsOf(n, d) ==
  ValuesOf(n, d)
  \cup UNION {{v \o <<",">> \o s : v \in ValuesOf(k, d), s \in ListsOf(n - 1 - k, d)} :
                k \in 1..n - 2}
MembersOf(n, d, used) ==
  {<<name, ":">> \o v : name \in Names \ used, v \in ValuesOf(n - 2, d)}
  \cup UNION {{<<name, ":">> \o v \o <<",">> \o s :
                 v \in ValuesOf(k, d), s \in MembersOf(n - 3 - k, d, used \cup {name})} :
                k \in 1..n - 4, name \in Names \ used}

Documents == UNION {ValuesOf(n, 0) : n \in 1..MaxTokens}

\* What is accepted is a document, names that occur twice in one object or nest
\* too deeply excluded, and the accessors show all of it in its order, each
\* member under its name.
AcceptedIsRead ==
  at = "done" /\ outcome = "accepted" => read \in Documents /\ Written(value) = read

\* No document is refused: when the parser reports an error, no document goes on
\* from what it has read and sees.
DocumentIsAccepted ==
  at = "unwind" /\ outcome = "refused" =>
    IF ahead = "end" THEN read \notin Documents
    ELSE \A text \in Documents : ~IsPrefix(Append(read, ahead), text)

\* "On failure the document is empty": whichever token or allocation fails, with
\* whatever part of the tree built, every block is freed, once; the tree of a
\* document is freed as a whole with it.
NothingLeaks ==
  /\ at = "done" => live = Blocks(value) /\ (outcome # "accepted" => value = NoValue)
  /\ at = "freed" => live = 0
===============================================================================
