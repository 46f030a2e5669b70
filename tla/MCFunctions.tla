----------------------------- MODULE MCFunctions -----------------------------
EXTENDS Codec, Panel

MCAlphabet == [bytes |-> {0, 65, 127, 128, 255}, text |-> {65, 47, 61, 33},
               path |-> {"/", "a", "b"}, query |-> {"a", "=", "&", "?"}]

MCLongest == [bytes |-> 5, text |-> 8, path |-> 6, query |-> 6]

Optional(set) == {<<>>} \union {<<x>> : x \in set}

Paths == {p \in BoundedSeq({"/", "a", ":"}, 3) : ~IsPrefix(<<"/", "/">>, p)}

MCComposed ==
    {c \in [scheme : {<<>>, <<"a">>}, userinfo : Optional({<<"a">>, <<"a", ":", "1">>}),
            host : Optional({<<>>, <<"a">>, <<"[", ":", "1", "]">>}), port : Optional({<<>>, <<"8", "0">>}),
            path : Paths, query : Optional({<<>>, <<"a">>, <<":", "/">>, <<"?", "@">>}),
            fragment : Optional({<<>>, <<"#", ":">>})] :
        /\ c.host = <<>> => c.userinfo = <<>> /\ c.port = <<>>
        /\ c.host # <<>> => c.path = <<>> \/ StartsWith(c.path, "/")
        /\ c.host = <<>> /\ c.scheme = <<>> =>
               LET colon == FirstOf(c.path, {":"})
               IN  colon = 0 \/ Contains(SubSeq(c.path, 1, colon), "/")}

Tints == <<<<255, 255, 255>>, <<0, 0, 0>>, <<1, 0, 0>>, <<10, 200, 30>>, <<255, 0, 0>>>>

(* The pixels of a picture, in colours that come round.                    *)
Cell(i, alpha) == [color |-> Tints[(i % 5) + 1], alpha |-> alpha[(i % Len(alpha)) + 1]]

Picture(columns, width, height, xscroll, wave, alpha) ==
    [logo |-> <<10, 200, 30>>, width |-> width, height |-> height, xscroll |-> xscroll, wave |-> wave,
     cells |-> [i \in 1..(columns * (IF height = 0 THEN 16 ELSE height)) |-> Cell(i, alpha)]]

MCPictures ==
    {Picture(9, 9, 0, 0, FALSE, <<255>>), Picture(3, 0, 20, 0, TRUE, <<255, 100, 0>>),
     Picture(3, 3, 0, 0, TRUE, <<255>>),
     Picture(25, 25, 1, 1, FALSE, <<255>>), Picture(23, 0, 2, 1, FALSE, <<255, 255, 30>>),
     Picture(30, 24, 1, 2, TRUE, <<255>>), Picture(4, 4, 2, -1, FALSE, <<255>>)}

(* A panel that is not looked at.                                          *)
Nothing == [logo |-> Black, cells |-> <<>>, width |-> 0, height |-> 0, xscroll |-> 0, wave |-> FALSE]

Init ==
    \/ CodecInit /\ picture = Nothing /\ elapsed = 0 /\ fraction = 0 /\ leds = Dark /\ bits = {}
    \/ PanelInit /\ subject = "panel" /\ input = <<>>

Next ==
    \/ Grow /\ UNCHANGED panelVars
    \/ subject = "panel" /\ Frame /\ UNCHANGED codecVars

Spec == Init /\ [][Next]_<<codecVars, panelVars>>
=============================================================================
