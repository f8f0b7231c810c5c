------------------------------ MODULE MCJsonText ------------------------------
(***************************************************************************)
(* Raw strings over the bytes at both ends of every range that UTF-8 tells *)
(* apart, long enough for the longest sequence; escapes at the ends of the *)
(* ranges of Encode and of the surrogates; numbers with each part that the *)
(* grammar has; integers around the limits of 8 bits, which stand for the  *)
(* limits of 64, and lists of IDs of which 25 is the largest.              *)
(***************************************************************************)
EXTENDS JsonText

RawUnits ==
  {"raw"} \X {31, 65, 128, 143, 144, 159, 160, 191, 193, 194, 223, 224, 225, 237, 238,
              240, 241, 244, 245}
EscapedUnits ==
  {<<"raw", 65>>, <<"raw", 195>>, <<"raw", 169>>, <<"short", 10>>}
  \cup {"u"} \X {0, 127, 128, 2047, 2048, 55295, 55296, 56319, 56320, 57343, 57344, 65535}

MCAlphabets == [raw |-> RawUnits, escaped |-> EscapedUnits,
                number |-> {"-", "0", "7", ".", "e", "+"}, integer |-> Digits \cup {"-"},
                ids |-> {"0", "2", "5", "6", ",", "-"}]
MCLongest == [raw |-> 4, escaped |-> 3, number |-> 6, integer |-> 4, ids |-> 5]
===============================================================================
