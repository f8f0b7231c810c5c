------------------------------- MODULE JsonText -------------------------------
(***************************************************************************)
(* The spelling of JSON strings and numbers (src/io/inkling_json.c): which *)
(* bytes parse_string() lets through and what it makes of escapes, where   *)
(* parse_number() ends, and when a number is an integer of 64 bits.  The   *)
(* integers and token IDs of the command line (src/cli/inkling_run.c,      *)
(* parse_unsigned(), parse_ids()) are read by the same arithmetic.         *)
(*                                                                         *)
(* These are pure functions; a text grows unit by unit and each text is    *)
(* judged.  A unit of a string is <<"raw", byte>>, <<"short", character>>  *)
(* for the escape of one letter, or <<"u", 16 bits>> for \uXXXX; the four  *)
(* hexadecimal digits and the letters of the short escapes are left out.   *)
(* A unit of a number is its character.                                    *)
(***************************************************************************)
EXTENDS Integers, Sequences, FiniteSets, FiniteSetsExt, SequencesExt, TLC

CONSTANTS
  Alphabets,   (* per kind of text, "string" or "number...": its units     *)
  Longest,     (* bound: per kind of text, how many of them                *)
  UnsignedMax, (* UINT64_MAX                                               *)
  SignedMax,   (* INT64_MAX                                                *)
  IdMax        (* UINT32_MAX                                               *)

Kinds == DOMAIN Alphabets
Strings == {"raw", "escaped"}

ASSUME TextAssumption ==
  /\ UnsignedMax \in Nat /\ SignedMax \in Nat /\ IdMax \in Nat
  /\ Longest \in [Kinds -> Nat]

VARIABLES kind, text

vars == <<kind, text>>

Init == kind \in Kinds /\ text = <<>>

Extend ==
  /\ Len(text) < Longest[kind]
  /\ \E unit \in Alphabets[kind] : text' = Append(text, unit)
  /\ UNCHANGED kind

Spec == Init /\ [][Extend]_vars
-------------------------------------------------------------------------------
\* Strings.  The bytes of a code point, as append_codepoint() writes them.
Tail6(n) == 128 + (n % 64)
Encode(cp) ==
  CASE cp <= 127                   -> <<cp>>
    [] cp <= 2047  /\ cp > 127     -> <<192 + cp \div 64, Tail6(cp)>>
    [] cp <= 65535 /\ cp > 2047    -> <<224 + cp \div 4096, Tail6(cp \div 64), Tail6(cp)>>
    [] cp > 65535 -> <<240 + cp \div 262144, Tail6(cp \div 4096), Tail6(cp \div 64), Tail6(cp)>>

IsRaw(s, p) == p <= Len(s) /\ s[p][1] = "raw"
IsUnicode(s, p) == p <= Len(s) /\ s[p][1] = "u"

\* The byte at a place: an escape begins with a backslash, and behind the
\* string there is a quote.
ByteAt(s, p) == IF IsRaw(s, p) THEN s[p][2] ELSE IF p > Len(s) THEN 34 ELSE 92
IsTail(b) == b \in 128..191

\* Mutant: surrogates, and longer forms than needed, pass.
Utf8LengthLoose(s, p) ==
  LET b(i) == ByteAt(s, p + i)
  IN CASE b(0) < 128 -> 1
       [] b(0) \in 194..223 /\ IsTail(b(1)) -> 2
       [] b(0) \in 224..239 /\ IsTail(b(1)) /\ IsTail(b(2)) -> 3
       [] b(0) \in 240..244 /\ IsTail(b(1)) /\ IsTail(b(2)) /\ IsTail(b(3)) -> 4
       [] OTHER -> 0

\* utf8_sequence_length(): 0 for bytes that are not UTF-8.
Utf8Length(s, p) ==
  LET b(i) == ByteAt(s, p + i)
  IN CASE b(0) < 128 -> 1
       [] b(0) \in 194..223 /\ IsTail(b(1)) -> 2
       [] /\ b(0) \in 224..239 /\ IsTail(b(1)) /\ IsTail(b(2))
          /\ ~(b(0) = 224 /\ b(1) < 160) /\ ~(b(0) = 237 /\ b(1) > 159) -> 3
       [] /\ b(0) \in 240..244 /\ IsTail(b(1)) /\ IsTail(b(2)) /\ IsTail(b(3))
          /\ ~(b(0) = 240 /\ b(1) < 144) /\ ~(b(0) = 244 /\ b(1) > 143) -> 4
       [] OTHER -> 0

High == 55296..56319
Low == 56320..57343

\* How many units parse_string() takes at place p, 0 for an error, and the
\* bytes it appends for them.
Taken(s, p) ==
  LET unit == s[p][2]
      raw == Utf8Length(s, p)
      pair == 65536 + (unit - 55296) * 1024 + (s[p + 1][2] - 56320)
      Take(n, bytes) == [units |-> n, bytes |-> bytes]
  IN CASE IsRaw(s, p) /\ unit >= 32 /\ raw > 0 ->
            Take(raw, [i \in 1..raw |-> ByteAt(s, p + i - 1)])
       [] s[p][1] = "short" -> Take(1, <<unit>>)
       [] IsUnicode(s, p) /\ unit \notin High \cup Low -> Take(1, Encode(unit))
       [] IsUnicode(s, p) /\ unit \in High /\ IsUnicode(s, p + 1) /\ s[p + 1][2] \in Low ->
            Take(2, Encode(pair))
       [] OTHER -> Take(0, <<>>)

\* Stands for an error; no text decodes to it.
Refused == <<-1>>
AndThen(units, rest) == IF rest = Refused THEN Refused ELSE units \o rest

\* parse_string(), between the quotes: the decoded bytes.
ParsedString(s) ==
  LET from[p \in 1..Len(s) + 1] ==
        IF p > Len(s) THEN <<>>
        ELSE LET taken == Taken(s, p)
             IN IF taken.units = 0 THEN Refused ELSE AndThen(taken.bytes, from[p + taken.units])
  IN from[1]

-------------------------------------------------------------------------------
\* Numbers.
Digits == {"0", "1", "2", "3", "4", "5", "6", "7", "8", "9"}
Digit == [c \in Digits |-> CHOOSE d \in 0..9 : ToString(d) = c]
Holds(s, p, characters) == p <= Len(s) /\ s[p] \in characters

\* The place behind the digits that begin at p.
AfterDigits(s, p) ==
  CHOOSE q \in p..Len(s) + 1 : ~Holds(s, q, Digits) /\ \A i \in p..q - 1 : s[i] \in Digits

\* parse_number(), part by part: the place behind a part, 0 for an error.
AfterWhole(s, p) ==
  IF ~Holds(s, p, Digits) \/ (s[p] = "0" /\ Holds(s, p + 1, Digits)) THEN 0
  ELSE AfterDigits(s, p)

AfterFraction(s, p) ==
  IF p = 0 \/ ~Holds(s, p, {"."}) THEN p
  ELSE IF Holds(s, p + 1, Digits) THEN AfterDigits(s, p + 1) ELSE 0

AfterExponent(s, p) ==
  LET digits == IF Holds(s, p + 1, {"+", "-"}) THEN p + 2 ELSE p + 1
  IN IF p = 0 \/ ~Holds(s, p, {"e", "E"}) THEN p
     ELSE IF Holds(s, digits, Digits) THEN AfterDigits(s, digits) ELSE 0

ParsedNumber(s) ==
  AfterExponent(s, AfterFraction(s, AfterWhole(s, IF Holds(s, 1, {"-"}) THEN 2 ELSE 1)))

\* Mutant: the limit is tested without the next digit.
FitsLoose(n, digit, limit) == n <= limit \div 10

\* Whether one digit more stays within the limit.
Fits(n, digit, limit) == n <= (limit - digit) \div 10

\* The value of a text of digits, as a set; it is empty for an error.
Magnitude(s, limit) ==
  FoldLeft(LAMBDA sum, c : {n * 10 + Digit[c] : n \in {m \in sum : c \in Digits /\ Fits(m, Digit[c], limit)}},
           {0}, s)

\* inkling_json_number_u64() and inkling_json_number_i64().
NumberU64(s) == IF s = <<>> \/ s[1] = "-" THEN {} ELSE Magnitude(s, UnsignedMax)
NumberI64(s) ==
  IF s = <<>> \/ s = <<"-">> THEN {}
  ELSE IF s[1] = "-" THEN {-n : n \in Magnitude(Tail(s), SignedMax + 1)}
  ELSE Magnitude(s, SignedMax)

\* parse_unsigned().
ParsedUnsigned(s) == IF s = <<>> THEN {} ELSE Magnitude(s, UnsignedMax)

\* parse_ids(): digits, a comma, digits; strtoull() reads digits to their end.
ParsedIds(s) ==
  LET from[p \in 1..Len(s) + 1] ==
        LET end == AfterDigits(s, p)
            id == Magnitude(SubSeq(s, p, end - 1), IdMax)
        IN IF end = p \/ id = {} \/ ~(end > Len(s) \/ s[end] = ",") THEN Refused
           ELSE AndThen(<<Max(id)>>, IF end > Len(s) THEN <<>> ELSE from[end + 1])
  IN from[1]

-------------------------------------------------------------------------------
\* What the bytes of a code point mean: what the first byte has behind its
\* length, then six bits of each other byte.
Meaning(bytes) ==
  LET n == Len(bytes)
      first == IF n = 1 THEN bytes[1] ELSE bytes[1] % (2 ^ (7 - n))
  IN FoldLeft(LAMBDA cp, b : cp * 64 + (b % 64), first, Tail(bytes))

Leads == <<0..127, 192..223, 224..239, 240..247>>
Least == <<0, 128, 2048, 65536>>

\* UTF-8: the shortest form of a code point that is not a surrogate.
IsUtf8(bytes) ==
  /\ Len(bytes) \in 1..4 /\ bytes[1] \in Leads[Len(bytes)]
  /\ \A i \in 2..Len(bytes) : IsTail(bytes[i])
  /\ Meaning(bytes) \in Least[Len(bytes)]..1114111
  /\ Meaning(bytes) \notin High /\ Meaning(bytes) \notin Low

RawBytes(s, n) == [i \in 1..n |-> s[i][2]]
IsPair(s) == IsUnicode(s, 1) /\ IsUnicode(s, 2) /\ s[1][2] \in High /\ s[2][2] \in Low

\* The code points that a text spells, if it is a JSON string.
RECURSIVE Spells(_)
Spells(s) ==
  LET follow(cp, n) == AndThen(<<cp>>, Spells(SubSeq(s, n + 1, Len(s))))
      raw == {n \in 1..4 : (\A i \in 1..n : IsRaw(s, i)) /\ IsUtf8(RawBytes(s, n))}
  IN CASE s = <<>> -> <<>>
       [] raw # {} /\ s[1][2] >= 32 ->
            LET n == CHOOSE n \in raw : TRUE IN follow(Meaning(RawBytes(s, n)), n)
       [] s # <<>> /\ s[1][1] # "raw" /\ (s[1][1] = "u" => s[1][2] \notin High \cup Low) ->
            follow(s[1][2], 1)
       [] IsPair(s) ->
            follow(65536 + (s[1][2] % 1024) * 1024 + (s[2][2] % 1024), 2)
       [] OTHER -> Refused

\* A string is accepted exactly if it is JSON, with every raw byte sequence
\* well-formed and every escaped surrogate in a pair, and its bytes are the
\* UTF-8 of the code points it spells.
StringsDecode ==
  kind \in Strings =>
    LET bytes == ParsedString(text)
        points == Spells(text)
        ends == {0} \cup 1..Len(bytes)
    IN IF points = Refused THEN bytes = Refused
       ELSE \E cut \in [0..Len(points) -> ends] :
              /\ cut[0] = 0 /\ cut[Len(points)] = Len(bytes)
              /\ \A i \in DOMAIN points :
                   LET one == SubSeq(bytes, cut[i - 1] + 1, cut[i])
                   IN IsUtf8(one) /\ Meaning(one) = points[i]

\* The grammar of JSON numbers.
IsNumber(s) ==
  LET AllDigits(from, to) == from <= to /\ \A i \in from..to : s[i] \in Digits
      first == IF Holds(s, 1, {"-"}) THEN 2 ELSE 1
  IN \E i, j \in first - 1..Len(s) :
       /\ i <= j
       /\ AllDigits(first, i) /\ (s[first] = "0" => i = first)
       /\ i = j \/ (s[i + 1] = "." /\ AllDigits(i + 2, j))
       /\ \/ j = Len(s)
          \/ s[j + 1] \in {"e", "E"}
             /\ AllDigits(IF Holds(s, j + 2, {"+", "-"}) THEN j + 3 ELSE j + 2, Len(s))

\* The value of a text of digits, place by place.
Value(s) == MapThenSumSet(LAMBDA i : Digit[s[i]] * 10 ^ (Len(s) - i), DOMAIN s)
IsInteger(s) == s # <<>> /\ Range(s) \subseteq Digits

\* What stands between the commas.
Between(s) ==
  LET commas == SetToSortSeq({i \in 0..Len(s) + 1 : i \in DOMAIN s => s[i] = ","}, <)
  IN [k \in 1..Len(commas) - 1 |-> SubSeq(s, commas[k] + 1, commas[k + 1] - 1)]

\* What the parser cuts off as a number is one and all of a number is cut off.
\* A number is read as a 64-bit integer exactly if it is one, with its value:
\* the limits themselves are read, and what is one beyond them is refused.  The
\* command line reads digits without a sign and nothing else, and as many IDs as
\* there are commas and one, none of them empty or beyond 32 bits.
NumbersAreRead ==
  /\ kind = "integer" =>
       ParsedUnsigned(text) = {n \in 0..UnsignedMax : IsInteger(text) /\ n = Value(text)}
  /\ kind = "ids" =>
       LET items == Between(text)
           good == \A k \in DOMAIN items : IsInteger(items[k]) /\ Value(items[k]) <= IdMax
       IN ParsedIds(text) = IF good THEN [k \in DOMAIN items |-> Value(items[k])] ELSE Refused
  /\ kind \notin Strings \cup {"ids"} =>
    LET end == ParsedNumber(text)
        negative == text # <<>> /\ text[1] = "-"
        absolute == IF negative THEN Tail(text) ELSE text
    IN /\ end > 0 => IsNumber(SubSeq(text, 1, end - 1))
       /\ IsNumber(text) =>
            /\ end = Len(text) + 1
            /\ NumberU64(text) = {n \in 0..UnsignedMax : IsInteger(text) /\ n = Value(text)}
            /\ NumberI64(text) = {n \in -SignedMax - 1..SignedMax : IsInteger(absolute)
                                    /\ n = IF negative THEN -Value(absolute) ELSE Value(absolute)}
===============================================================================
