---------------------------- MODULE RequestParser ----------------------------
(***************************************************************************)
(* RequestParser of src/src/http/server/server.cpp with the reads that     *)
(* Connection does for it: how the text of a request, which arrives in     *)
(* segments, becomes an http::Request.                                     *)
(*                                                                         *)
(* The text is a sequence of units: "sp", ":" and "eol" are what the       *)
(* parser looks for, "nul" is the byte that std::string::resize() fills    *)
(* up with, "content-length" is the key that it knows, some units are      *)
(* numbers, and every other unit stands for some text.                     *)
(***************************************************************************)
EXTENDS Integers, Sequences, FiniteSetsExt

CONSTANTS
    Urls,       \* texts that may be the URL of a request
    Headers,    \* header fields, in a sequence, that come before the content-length
    Bodies,     \* texts of the body
    Lengths,    \* the units that are numbers, with the number each tells
    Capitals,   \* units that tolower() changes, with what it makes of them
    Words,      \* what other units there are
    MinRead,    \* 128
    MaxRead,    \* 1024
    Bulk        \* does a read get all that it has room for, up to the end?

Unit == {"post", "sp", "version", "eol", "nul", ":", "content-length"}
            \union DOMAIN Lengths \union DOMAIN Capitals \union Words

-----------------------------------------------------------------------------
(* std::string::find(); 0 stands for npos.                                 *)
Find(unit, s) == LET places == {i \in DOMAIN s : s[i] = unit} IN IF places = {} THEN 0 ELSE Min(places)

After(i, s) == SubSeq(s, i + 1, Len(s))

Before(i, s) == SubSeq(s, 1, i - 1)

Padding(n) == [i \in 1..n |-> "nul"]

(* trim(), which takes away what is before the value and not what is       *)
(* after it.                                                               *)
Trimmed(s) == LET rest == {i \in DOMAIN s : s[i] # "sp"} IN IF rest = {} THEN <<>> ELSE After(Min(rest) - 1, s)

Lowered(u) == IF u \in DOMAIN Capitals THEN Capitals[u] ELSE u

(* A header field: what is before the first colon, and what is after it.   *)
Key(line) == [i \in 1..Find(":", line) - 1 |-> Lowered(line[i])]

Value(line) == Trimmed(After(Find(":", line), line))

ContentLengthKey == <<"content-length">>

(* std::stoi() makes a number of the value of a content-length.            *)
IsNumber(value) == value # <<>> /\ value[1] \in DOMAIN Lengths

(* A field that the parser has no exception for.                           *)
WellFormed(line) == Find(":", line) # 0 /\ (Key(line) = ContentLengthKey => IsNumber(Value(line)))

-----------------------------------------------------------------------------
(* A URL has no blank and no line break, a field no line break; a body's   *)
(* length can be told, and no other field tells one.                       *)
ASSUME ParserAssumption ==
    /\ \A u \in Urls : u \in Seq(Unit) /\ \A i \in DOMAIN u : u[i] \notin {"sp", "eol"}
    /\ \A h \in Headers :
          /\ h \in Seq(Seq(Unit))
          /\ \A i \in DOMAIN h :
                /\ h[i] # <<>> /\ \A j \in DOMAIN h[i] : h[i][j] # "eol"
                /\ ~(Key(h[i]) = ContentLengthKey /\ IsNumber(Value(h[i])))
    /\ Bodies \subseteq Seq(Unit)
    /\ Lengths \in [DOMAIN Lengths -> Nat]
    /\ {"eol", "sp", ":"} \intersect DOMAIN Lengths = {}
    /\ Capitals \in [DOMAIN Capitals -> Unit] /\ "content-length" \notin DOMAIN Capitals
    /\ \A b \in Bodies : \E f \in DOMAIN Lengths : Lengths[f] = Len(b)
    /\ MinRead \in Nat \ {0} /\ MaxRead \in Nat /\ MinRead <= MaxRead
    /\ Bulk \in BOOLEAN

VARIABLES
    message,    \* what the client sends
    incoming,   \* the part of its text that was not read yet
    phase,      \* the alternative of RequestParser::_state, or "crashed"
    buffer,     \* the string that alternative is parsing
    req,        \* its Request so far
    want        \* size of the pending read, 0 if there is none

textVars == <<message, incoming, phase, buffer, req, want>>

-----------------------------------------------------------------------------
LengthField(n) == CHOOSE f \in DOMAIN Lengths : Lengths[f] = n

(* Requests as clients send them: with a body comes its length.            *)
Messages == [method : {<<"post">>}, url : Urls, headers : Headers, body : Bodies]

LengthLine(n) == <<"content-length", ":", LengthField(n)>>

Lines(m) == IF m.body = <<>> THEN m.headers ELSE Append(m.headers, LengthLine(Len(m.body)))

(* The text of the last k lines.                                           *)
LastLines(lines) ==
    LET text[k \in 0..Len(lines)] ==
            IF k = 0 THEN <<>> ELSE lines[Len(lines) - k + 1] \o <<"eol">> \o text[k - 1]
    IN  text

Text(m) ==
    m.method \o <<"sp">> \o m.url \o <<"sp", "version", "eol">>
        \o LastLines(Lines(m))[Len(Lines(m))] \o <<"eol">> \o m.body

(* Of several fields with the same key the last one counts.                *)
FieldsOf(h, lines) ==
    /\ DOMAIN h = {Key(lines[i]) : i \in DOMAIN lines}
    /\ \A k \in DOMAIN h :
          \E i \in DOMAIN lines :
             /\ Key(lines[i]) = k /\ h[k] = Value(lines[i])
             /\ \A j \in DOMAIN lines : j > i => Key(lines[j]) # k

ParserInit ==
    /\ message \in Messages
    /\ incoming = Text(message)
    /\ phase = "method"
    /\ buffer = <<>>
    /\ req = [method |-> <<>>, url |-> <<>>, headers |-> <<>>, body |-> <<>>]
    /\ want = 0

-----------------------------------------------------------------------------
(* The parser asks for input: as much as it misses, or twice what it has.  *)
Clamp(n) == IF n < MinRead THEN MinRead ELSE IF n > MaxRead THEN MaxRead ELSE n

NeedInput(hint) ==
    /\ want' = IF hint > 0 THEN hint ELSE Clamp(2 * Len(buffer))
    /\ UNCHANGED <<phase, buffer, req>>

ParseMethod ==
    /\ phase = "method" /\ want = 0
    /\ LET end == Find("sp", buffer) IN
       IF end = 0
       THEN NeedInput(0)
       ELSE /\ phase' = "url"
            /\ req' = [req EXCEPT !.method = Before(end, buffer)]
            /\ buffer' = After(end, buffer)
            /\ UNCHANGED want
    /\ UNCHANGED <<message, incoming>>

UrlEnd(s) == Find("sp", s)

ParseUrl ==
    /\ phase = "url" /\ want = 0
    /\ LET end == Find("eol", buffer) IN
       IF end = 0
       THEN NeedInput(0)
       ELSE /\ phase' = "header"
            /\ req' = [req EXCEPT !.url = Before(UrlEnd(buffer), buffer)]
            /\ buffer' = After(end, buffer)
            /\ UNCHANGED want
    /\ UNCHANGED <<message, incoming>>

(* Request::headers is a map.                                              *)
Stored_First(h, line) ==
    [k \in DOMAIN h \union {Key(line)} |-> IF k \in DOMAIN h THEN h[k] ELSE Value(line)]

Stored(h, line) ==
    [k \in DOMAIN h \union {Key(line)} |-> IF k = Key(line) THEN Value(line) ELSE h[k]]

(* std::out_of_range or std::invalid_argument, which nobody catches on the *)
(* asio thread: the program ends.                                          *)
Crash == phase' = "crashed" /\ UNCHANGED <<buffer, req, want>>

(* One header field at a time.                                             *)
ParseHeader ==
    /\ phase = "header" /\ want = 0
    /\ LET end == Find("eol", buffer)
           line == Before(end, buffer) IN
       CASE end = 0 -> NeedInput(0)
         [] end = 1 -> /\ phase' = "body"
                       /\ buffer' = After(1, buffer)
                       /\ UNCHANGED <<req, want>>
         [] end > 1 /\ Find(":", line) = 0 -> Crash
         [] OTHER   -> /\ req' = [req EXCEPT !.headers = Stored(@, line)]
                       /\ buffer' = After(end, buffer)
                       /\ UNCHANGED <<phase, want>>
    /\ UNCHANGED <<message, incoming>>

HasLength == ContentLengthKey \in DOMAIN req.headers

LengthTold == req.headers[ContentLengthKey]

ContentLength == IF HasLength THEN Lengths[LengthTold[1]] ELSE 0

Missing_OneMore == ContentLength + 1 - Len(buffer)

Missing == ContentLength - Len(buffer)

ParseBody ==
    /\ phase = "body" /\ want = 0
    /\ IF HasLength /\ ~IsNumber(LengthTold)
       THEN Crash
       ELSE IF Missing > 0
       THEN NeedInput(Missing)
       ELSE /\ phase' = "done"
            /\ req' = [req EXCEPT !.body = SubSeq(buffer, 1, ContentLength)]
            /\ UNCHANGED <<buffer, want>>
    /\ UNCHANGED <<message, incoming>>

(* async_read_some(): the parser's string was enlarged for it, and stays   *)
(* so; the callback trims the copy of that string which it has captured.   *)
Read ==
    /\ want > 0
    /\ incoming # <<>>
    /\ LET most == IF want < Len(incoming) THEN want ELSE Len(incoming) IN
       \E n \in IF Bulk THEN {most} ELSE 1..most :
          /\ buffer' = buffer \o SubSeq(incoming, 1, n) \o Padding(want - n)
          /\ incoming' = After(n, incoming)
    /\ want' = 0
    /\ UNCHANGED <<message, phase, req>>

ParserNext == ParseMethod \/ ParseUrl \/ ParseHeader \/ ParseBody \/ Read

ParserSpec == ParserInit /\ [][ParserNext]_textVars

-----------------------------------------------------------------------------
(* The handler is given the request that the client has sent, however its  *)
(* text is cut, with the last one of the fields that repeat each other;    *)
(* and the program ends over a request only if one of its fields has no    *)
(* colon or is a content-length that does not begin with a number.         *)
ParsedAsSent ==
    /\ phase = "done" =>
          /\ req.method = message.method /\ req.url = message.url /\ req.body = message.body
          /\ FieldsOf(req.headers, Lines(message))
    /\ phase = "crashed" => \E i \in DOMAIN Lines(message) : ~WellFormed(Lines(message)[i])
=============================================================================
