-------------------------------- MODULE Codec --------------------------------
(***************************************************************************)
(* Base64 and Uri over all small inputs, against definitions of what they  *)
(* are meant to compute. One input is taken for each behaviour and grows,  *)
(* symbol by symbol; the parts of a URI are chosen at the start.           *)
(***************************************************************************)
EXTENDS Integers, Sequences, SequencesExt, Base64, Uri

CONSTANTS
    Alphabet,   \* the symbols of each kind of input that grows
    Longest,    \* its greatest length
    Composed    \* URIs by their parts, see Text

ASSUME CodecAssumption ==
    /\ "bytes" \in DOMAIN Alphabet => Alphabet["bytes"] \subseteq 0..255
    /\ "text" \in DOMAIN Alphabet => Alphabet["text"] \subseteq 0..255
    /\ "uri" \notin DOMAIN Alphabet

(* A URI as RFC 3986 composes it; userinfo, host, port, query and fragment *)
(* are sequences of at most one element, empty if the part is missing. No  *)
(* part has a character that would end it, and no path can be taken for an *)
(* authority or for a scheme.                                              *)
Part(before, part, after) == IF part = <<>> THEN <<>> ELSE before \o part[1] \o after

Given(part) == Part(<<>>, part, <<>>)

Without(text, chars) == \A i \in 1..Len(text) : text[i] \notin chars

IsHost(host) ==
    IF StartsWith(host, "[") THEN Last(host) = "]" /\ Without(Front(host), {"]"}) ELSE Without(host, {":"})

Composable(c) ==
    /\ \A part \in {c.userinfo, c.host, c.port, c.query, c.fragment} : part \in Seq(Seq(STRING)) /\ Len(part) <= 1
    /\ c.scheme \in Seq(STRING) /\ Without(c.scheme, {":"})
    /\ c.path \in Seq(STRING) /\ Without(c.path, {"?", "#"})
    /\ Without(Given(c.userinfo), {"/", "?", "#", "@"})
    /\ Without(Given(c.host), {"/", "?", "#", "@"}) /\ IsHost(Given(c.host))
    /\ Without(Given(c.port), {"/", "?", "#", "@", ":", "]"})
    /\ Without(Given(c.query), {"#"})
    /\ IF c.host = <<>>
       THEN /\ c.userinfo = <<>> /\ c.port = <<>> /\ ~IsPrefix(<<"/", "/">>, c.path)
            /\ c.scheme = <<>> => ~StartsWith(c.path, ":")
       ELSE c.path = <<>> \/ StartsWith(c.path, "/")

ASSUME ComposedAssumption == \A c \in Composed : Composable(c)

VARIABLES
    subject,    \* which function is looked at
    input

codecVars == <<subject, input>>

CodecInit ==
    \/ subject \in DOMAIN Alphabet /\ input = <<>>
    \/ subject = "uri" /\ input \in Composed

Grow ==
    /\ subject \in DOMAIN Alphabet
    /\ Len(input) < Longest[subject]
    /\ \E symbol \in Alphabet[subject] : input' = Append(input, symbol)
    /\ UNCHANGED subject

CodecSpec == CodecInit /\ [][Grow]_codecVars

-----------------------------------------------------------------------------
(* Encoding loses nothing where char is unsigned (the program's own        *)
(* target). Where it is signed, exactly the texts with a byte of 0x80 or   *)
(* more in the second or third place of a group are spoiled: such a byte   *)
(* borrows from its neighbours (base64.h:18). It is how states travel in   *)
(* the x-spotiled header.                                                  *)
Borrows(bytes) == \E i \in DOMAIN bytes : bytes[i] >= 128 /\ i % 3 # 1

EncodeRoundTrips ==
    subject = "bytes" =>
        \A signed \in BOOLEAN :
            Decode(Encode(input, signed)) = input <=> ~(signed /\ Borrows(input))

(* What RFC 4648 says of a text: digits in groups of four, of which the    *)
(* last one may be filled up with one or two '='.                          *)
Padded(text, pads) ==
    /\ Len(text) % 4 = 0 /\ pads <= Len(text)
    /\ \A i \in DOMAIN text :
          IF i > Len(text) - pads THEN text[i] = Pad ELSE DigitOf(text[i]) # NoDigit

(* The bits of its digits, most significant first, and the bytes they make. *)
Bit(text, k) == (DigitOf(text[(k \div 6) + 1]) \div <<32, 16, 8, 4, 2, 1>>[(k % 6) + 1]) % 2

ByteAt(text, j) ==
    LET bit(k) == Bit(text, 8 * j + k)
    IN  128 * bit(0) + 64 * bit(1) + 32 * bit(2) + 16 * bit(3) + 8 * bit(4) + 4 * bit(5) + 2 * bit(6) + bit(7)

Spelled(text, pads) == [j \in 1..((6 * (Len(text) - pads)) \div 8) |-> ByteAt(text, j - 1)]

(* The one deviation: what follows a '=' in the last place but one.        *)
Overwritten(text) == [text EXCEPT ![Len(text)] = Pad]

Sloppy(text) ==
    LET n == Len(text)
    IN  n > 1 /\ text[n] # Pad /\ text[n - 1] = Pad /\ Padded(Overwritten(text), 2)

(* A text is decoded to the bytes its digits spell, and refused with an    *)
(* exception exactly if its length, a character or its padding is wrong    *)
(* (base64.h:48, :76-89); nobody catches that exception.                   *)
DecodesAsWritten ==
    subject = "text" =>
        LET text == IF Sloppy(input) THEN Overwritten(input) ELSE input
            fits == {pads \in 0..2 : Padded(text, pads)}
        IN  IF fits = {} THEN Decode(input) = Error
            ELSE \A pads \in fits : Decode(input) = Spelled(text, pads)

-----------------------------------------------------------------------------
(* A URI put together.                                                     *)
FullAuthority(c) == Part(<<>>, c.userinfo, <<"@">>) \o Part(<<>>, c.host, <<>>) \o Part(<<":">>, c.port, <<>>)

Text(c) ==
    (IF c.scheme = <<>> THEN <<>> ELSE Append(c.scheme, ":"))
        \o (IF c.host = <<>> THEN <<>> ELSE <<"/", "/">> \o FullAuthority(c))
        \o c.path \o Part(<<"?">>, c.query, <<>>) \o Part(<<"#">>, c.fragment, <<>>)

Meant(c) ==
    [scheme    |-> c.scheme,
     authority |-> [full |-> FullAuthority(c), userinfo |-> Given(c.userinfo),
                    host |-> Given(c.host), port |-> Port(Given(c.port))],
     path      |-> c.path,
     query     |-> Given(c.query),
     fragment  |-> Given(c.fragment)]

(* A URI is taken apart as it was composed, if it has a scheme or no ':'   *)
(* at all, and only then: without a scheme any ':' is taken for the end of *)
(* one (uri.cpp:35), as in the target of a request for a state whose id or *)
(* query has a colon.                                                      *)
UriAsComposed ==
    subject = "uri" =>
        (Parse(Text(input)) = Meant(input) <=> (input.scheme # <<>> \/ ~Contains(Text(input), ":")))

(* Where a piece of a text begins, and what stands there up to the next    *)
(* separator.                                                              *)
Starts(text, separators) == {i \in 1..Len(text) : i = 1 \/ text[i - 1] \in separators}

PieceAt(text, i, separators) ==
    LET stop == SelectInSubSeq(text, i, Len(text), LAMBDA c : c \in separators)
    IN  SubSeq(text, i, IF stop = 0 THEN Len(text) ELSE stop - 1)

(* The segments of a path are what lies between its slashes, in their      *)
(* order; a slash at either end makes no segment, and a path without any   *)
(* has an empty one (uri.cpp:72, uri.h:41).                                *)
Trimmed(path) == IF StartsWith(path, "/") THEN Tail(path) ELSE path

PathAsSplit ==
    subject = "path" =>
        LET path == Trimmed(input)
            starts == Starts(path, {"/"})
            segments == PathSegments(input)
        IN  IF path = <<>> THEN segments = <<<<>>>>
            ELSE /\ Len(segments) = Cardinality(starts)
                 /\ \A i \in starts :
                       segments[Cardinality({j \in starts : j <= i})] = PieceAt(path, i, {"/"})

(* find() returns the value of the first pair with the key, wherever in    *)
(* the query it stands and whatever is around it, and has() whether there  *)
(* is one (uri.cpp:86-116).                                                *)
HasKey(pair, key) == pair = key \/ IsPrefix(Append(key, "="), pair)

QueryFindsFirst ==
    subject = "query" =>
        \A key \in {<<"a">>, <<"a", "a">>} :
            LET pair(i) == PieceAt(input, i, {"&", "?"})
                found == {i \in Starts(input, {"&", "?"}) : HasKey(pair(i), key)}
                first == CHOOSE i \in found : \A j \in found : i <= j
            IN  /\ QueryHas(input, key) <=> found # {}
                /\ QueryFind(input, key) = IF found = {} THEN <<>> ELSE From(pair(first), Len(key) + 2)

(* What the program asks a URI for is what it was composed of, down to the *)
(* segments of its path and the values of its query.                       *)
UriTakenApart == UriAsComposed /\ PathAsSplit /\ QueryFindsFirst
=============================================================================
