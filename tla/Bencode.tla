------------------------------ MODULE Bencode -------------------------------
(***************************************************************************)
(* Package bencoding: Decode and Literal, over documents put together from *)
(* fragments.  A byte is a one-character string.  A value is a pair of its *)
(* type and its content; a dictionary's content is a set of pairs of a key *)
(* and a value.  Decoding yields Err, Panic (an index or a slice out of    *)
(* range) or a value with the position of its last byte.                   *)
(*                                                                         *)
(* A document lies at the front of a buffer of io.ReadAll.  An index is    *)
(* checked against the length of the document, a slice expression against  *)
(* the capacity of the buffer, so that a string may reach into the bytes   *)
(* behind the document.  Documents that fill the buffer, or nearly so,     *)
(* stand for those of about 512 bytes, or of a size it has grown to.       *)
(***************************************************************************)
EXTENDS Integers, SequencesExt

CONSTANTS
    Fragments,      \* what documents are put together from
    MaxFragments,   \* bound: fragments in a document
    Capacity        \* of the buffer

VARIABLES
    src,      \* the document
    parts     \* fragments in it

bencodeVars == <<src, parts>>

Digits == <<"0", "1", "2", "3", "4", "5", "6", "7", "8", "9">>
IsDigit(c) == Contains(Digits, c)

Err       == <<"error">>
Panic     == <<"panic">>
Ok(v, p)  == <<"ok", v, p>>
IsOk(r)   == r[1] = "ok"

\* The buffer with document s: what is behind it was never written, or is
\* space that was trimmed; one symbol stands for such bytes.
Buffer(s) == s \o [n \in 1 .. Capacity - Len(s) |-> "NUL"]

-----------------------------------------------------------------------------
(* Literal *)

RECURSIVE Decimal(_)
Decimal(n) == IF n < 0 THEN <<"-">> \o Decimal(-n)
              ELSE IF n < 10 THEN <<Digits[n + 1]>>
              ELSE Decimal(n \div 10) \o <<Digits[(n % 10) + 1]>>

\* The order of the bytes, as far as the fragments need it.
ByteOrder == <<"-">> \o Digits \o <<":", "d", "e", "i", "l", "x", "y">>
Rank(c)   == SelectInSeq(ByteOrder, LAMBDA b : b = c)

\* slices.Sort on keys: a proper prefix comes first.
KeyLess(a, b) ==
    \E n \in 0 .. Len(a) :
        /\ n < Len(b) /\ SubSeq(a, 1, n) = SubSeq(b, 1, n)
        /\ n = Len(a) \/ Rank(a[n + 1]) < Rank(b[n + 1])

StringLiteral(s) == Decimal(Len(s)) \o <<":">> \o s

RECURSIVE Literal(_)
Literal(v) ==
    CASE v[1] = "integer" -> <<"i">> \o Decimal(v[2]) \o <<"e">>
      [] v[1] = "string"  -> StringLiteral(v[2])
      [] v[1] = "list"    -> <<"l">> \o FlattenSeq([k \in 1 .. Len(v[2]) |-> Literal(v[2][k])])
                                     \o <<"e">>
      [] v[1] = "dict"    ->
            LET sorted == SetToSortSeq(v[2], LAMBDA a, b : KeyLess(a[1], b[1]))
            IN <<"d">> \o FlattenSeq([k \in 1 .. Len(sorted) |->
                              StringLiteral(sorted[k][1]) \o Literal(sorted[k][2])])
                       \o <<"e">>

-----------------------------------------------------------------------------
(* Decode *)

\* The first position from p on that holds c, or 0.
AdvanceUntil(s, p, c) ==
    LET at == {k \in p .. Len(s) : s[k] = c}
    IN IF at = {} THEN 0 ELSE CHOOSE k \in at : \A j \in at : k <= j

\* strconv.ParseInt: an optional sign and at least one digit.
ParseInt(s) ==
    LET signed == s # <<>> /\ s[1] \in {"-", "+"}
        digits == IF signed THEN Tail(s) ELSE s
        n      == FoldLeft(LAMBDA acc, c : 10 * acc + SelectInSeq(Digits, LAMBDA b : b = c) - 1,
                           0, digits)
    IN IF digits = <<>> \/ \E k \in DOMAIN digits : ~IsDigit(digits[k]) THEN <<>>
       ELSE <<IF signed /\ s[1] = "-" THEN -n ELSE n>>

\* Seeded fault: the position after the string is returned.
DecodeStringPast(s, p) ==
    LET delim == AdvanceUntil(s, p, ":")
        l     == ParseInt(SubSeq(s, p, delim - 1))
        last  == delim + l[1]
    IN CASE delim = 0 -> Err
         [] l = <<>>  -> Err
         [] l[1] < 0 \/ last > Capacity -> Panic
         [] OTHER     -> Ok(<<"string", SubSeq(Buffer(s), delim + 1, last)>>, last + 1)

\* ByteString.Decode: src[start:end] is bounded by the capacity.
DecodeString(s, p) ==
    LET delim == AdvanceUntil(s, p, ":")
        l     == ParseInt(SubSeq(s, p, delim - 1))
        last  == delim + l[1]
    IN CASE delim = 0 -> Err
         [] l = <<>>  -> Err
         [] l[1] < 0 \/ last > Capacity -> Panic
         [] OTHER     -> Ok(<<"string", SubSeq(Buffer(s), delim + 1, last)>>, last)

\* Integer.Decode: no leading zero.
DecodeInteger(s, p) ==
    LET end  == AdvanceUntil(s, p + 1, "e")
        text == SubSeq(s, p + 1, end - 1)
    IN IF end = 0 \/ (Len(text) > 1 /\ text[1] = "0") \/ ParseInt(text) = <<>> THEN Err
       ELSE Ok(<<"integer", ParseInt(text)[1]>>, end)

RECURSIVE DecodeValue(_, _), DecodeItems(_, _, _), DecodePairs(_, _, _)

\* nextValue, and the Decode method of the value it picks.
DecodeValue(s, p) == CASE s[p] = "l"      -> DecodeItems(s, p, <<>>)
                       [] s[p] = "d"      -> DecodePairs(s, p, {})
                       [] s[p] = "i"      -> DecodeInteger(s, p)
                       [] IsDigit(s[p])   -> DecodeString(s, p)
                       [] OTHER           -> Err

\* Seeded fault: a list that is cut off counts as ended.
DecodeItemsLenient(s, p, items) ==
    IF p >= Len(s) THEN Ok(<<"list", items>>, p)
    ELSE IF s[p + 1] = "e" THEN Ok(<<"list", items>>, p + 1)
    ELSE LET r == DecodeValue(s, p + 1)
         IN IF IsOk(r) THEN DecodeItems(s, r[3], Append(items, r[2])) ELSE r

\* List.Decode: p is the last position read, items what it has so far.  Behind
\* a string that ends behind the document there is no index any more.
DecodeItems(s, p, items) ==
    IF p >= Len(s) THEN IF p = Len(s) THEN Err ELSE Panic
    ELSE IF s[p + 1] = "e" THEN Ok(<<"list", items>>, p + 1)
    ELSE LET r == DecodeValue(s, p + 1)
         IN IF IsOk(r) THEN DecodeItems(s, r[3], Append(items, r[2])) ELSE r

\* Dictionary.Decode: the value of a key that occurs again replaces the first.
DecodePairs(s, p, pairs) ==
    IF p >= Len(s) THEN IF p = Len(s) THEN Err ELSE Panic
    ELSE IF s[p + 1] = "e" THEN Ok(<<"dict", pairs>>, p + 1)
    ELSE LET k == DecodeString(s, p + 1)
             v == DecodeValue(s, k[3] + 1)
         IN IF ~IsOk(k) THEN k
            ELSE IF k[3] >= Len(s) THEN Panic
            ELSE IF ~IsOk(v) THEN v
            ELSE DecodePairs(s, v[3], {q \in pairs : q[1] # k[2][2]}
                                        \cup {<<k[2][2], v[2]>>})

\* What follows the value is ignored.
Decode(s) == IF s = <<>> THEN Err ELSE DecodeValue(s, 1)

-----------------------------------------------------------------------------
BencodeInit == src = <<>> /\ parts = 0

\* The document grows by a fragment.
Grow(f) == /\ parts < MaxFragments
           /\ Len(src \o f) <= Capacity
           /\ src' = src \o f /\ parts' = parts + 1

BencodeNext == \E f \in Fragments : Grow(f)

-----------------------------------------------------------------------------
(***************************************************************************)
(* What is decoded is decoded again from its Literal, all of which is      *)
(* read: the info hash, taken of a Literal, belongs to one value.          *)
(***************************************************************************)
LiteralDecodes ==
    LET r == Decode(src) IN
    IsOk(r) => Decode(Literal(r[2])) = Ok(r[2], Len(Literal(r[2])))

(***************************************************************************)
(* A metainfo file or a response, which are dictionaries, or a list, that  *)
(* is cut short is never taken for a complete one; what follows it in the  *)
(* document does not change it, and nothing behind the document gets into  *)
(* it, although a string may reach there.  (A document that is nothing but *)
(* a string has no such protection.)                                       *)
(***************************************************************************)
NoPrefixDecodes ==
    LET r == Decode(src) IN
    IsOk(r) /\ r[2][1] \in {"list", "dict"} =>
        /\ r[3] <= Len(src)
        /\ Decode(SubSeq(src, 1, r[3])) = r
        /\ \A n \in 0 .. r[3] - 1 : ~IsOk(Decode(SubSeq(src, 1, n)))
=============================================================================
