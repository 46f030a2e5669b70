--------------------------------- MODULE Uri ---------------------------------
(***************************************************************************)
(* uri::Uri of src/src/uri: the constructor and the iterators of a path    *)
(* and of a query. A text is a sequence of characters; an empty part of a  *)
(* Uri is the empty sequence, as in the code.                              *)
(***************************************************************************)
EXTENDS Integers, Sequences, SequencesExt

(* find_first_of(); 0 stands for npos.                                     *)
FirstOf(text, chars) == SelectInSeq(text, LAMBDA c : c \in chars)

StartsWith(text, c) == text # <<>> /\ text[1] = c

From(text, i) == SubSeq(text, i, Len(text))

(* split() at a position: `end` characters of the separator stay with the  *)
(* first part, the second part begins `start` characters after it.         *)
SplitAt(text, pos, start, end) == <<SubSeq(text, 1, pos + end - 1), From(text, pos + start)>>

(* split() and rsplit() differ in the part that gets a text without any    *)
(* separator.                                                              *)
Split(text, chars, start) ==
    LET pos == FirstOf(text, chars)
    IN  IF pos = 0 THEN <<<<>>, text>> ELSE SplitAt(text, pos, start, 0)

RSplit(text, chars, start) ==
    LET pos == FirstOf(text, chars)
    IN  IF pos = 0 THEN <<text, <<>>>> ELSE SplitAt(text, pos, start, 0)

(* Mutant: the brackets of an IPv6 address are not looked at.              *)
HostAndPort_AnyColon(text) == RSplit(text, {":"}, 1)

(* Host and port; the port of an IPv6 address follows "]:".                *)
HostAndPort(text) ==
    LET ends == {i \in 1..(Len(text) - 1) : text[i] = "]" /\ text[i + 1] = ":"}
    IN  IF ~StartsWith(text, "[") THEN RSplit(text, {":"}, 1)
        ELSE IF ends = {} THEN <<text, <<>>>>
        ELSE SplitAt(text, CHOOSE i \in ends : \A j \in ends : i <= j, 2, 1)

Decimals == LET digits == <<"0", "1", "2", "3", "4", "5", "6", "7", "8", "9">>
            IN  [c \in {digits[n] : n \in 1..10} |-> SelectInSeq(digits, LAMBDA d : d = c) - 1]

(* from_chars(): the value of the leading digits and of a sign before      *)
(* them; 0 stays if there are none, or more than an int has room for.      *)
Number(text) ==
    LET stop == SelectInSeq(text, LAMBDA c : c \notin DOMAIN Decimals)
        digits == IF stop = 0 THEN text ELSE SubSeq(text, 1, stop - 1)
    IN  FoldLeft(LAMBDA n, c : 10 * n + Decimals[c], 0, digits)

Port(text) ==
    LET value == IF StartsWith(text, "-") THEN -Number(Tail(text)) ELSE Number(text)
    IN  IF -2147483647 - 1 <= value /\ value <= 2147483647 THEN value ELSE 0

NoAuthority == [full |-> <<>>, userinfo |-> <<>>, host |-> <<>>, port |-> 0]

Authority(full) ==
    LET user == Split(full, {"@"}, 1)
        host == HostAndPort(user[2])
    IN  [full |-> full, userinfo |-> user[1], host |-> host[1], port |-> Port(host[2])]

HasAuthority(text) == Len(text) >= 2 /\ text[1] = "/" /\ text[2] = "/"

(* Uri::Uri().                                                             *)
Parse(url) ==
    LET scheme == Split(url, {":"}, 1)
        full == IF HasAuthority(scheme[2]) THEN RSplit(From(scheme[2], 3), {"/", "?", "#"}, 0)
                ELSE <<<<>>, scheme[2]>>
        path == RSplit(full[2], {"?", "#"}, 0)
        query == IF StartsWith(path[2], "?") THEN RSplit(From(path[2], 2), {"#"}, 0)
                 ELSE <<<<>>, path[2]>>
    IN  [scheme    |-> scheme[1],
         authority |-> IF HasAuthority(scheme[2]) THEN Authority(full[1]) ELSE NoAuthority,
         path      |-> path[1],
         query     |-> query[1],
         fragment  |-> From(query[2], 2)]

-----------------------------------------------------------------------------
(* The segments an iterator passes: it ends when its tail is empty; of the *)
(* last n characters of a text.                                            *)
Pieces(text, separators) ==
    LET pieces[n \in 0..Len(text)] ==
            LET s == RSplit(From(text, Len(text) - n + 1), separators, 1)
            IN  IF s[2] = <<>> THEN <<s[1]>> ELSE <<s[1]>> \o pieces[Len(s[2])]
    IN  pieces[Len(text)]

PathSegments(path) == Pieces(IF StartsWith(path, "/") THEN Tail(path) ELSE path, {"/"})

PathBack(path) == Last(PathSegments(path))

QueryPairs(query) ==
    LET segments == Pieces(query, {"&", "?"})
    IN  [i \in DOMAIN segments |-> RSplit(segments[i], {"="}, 1)]

QueryHas(query, key) == \E i \in DOMAIN QueryPairs(query) : QueryPairs(query)[i][1] = key

QueryFind(query, key) ==
    LET i == SelectInSeq(QueryPairs(query), LAMBDA kv : kv[1] = key)
    IN  IF i = 0 THEN <<>> ELSE QueryPairs(query)[i][2]

=============================================================================
