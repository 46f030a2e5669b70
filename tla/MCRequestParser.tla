-------------------------- MODULE MCRequestParser ---------------------------
(* Small instances of RequestParser for TLC. *)
EXTENDS RequestParser

MCUrls == {<<"u1">>, <<"u1", "u2">>, <<"u1", "u2", "u3">>}

(* A key that comes again in lower case, with a value that has a colon and *)
(* is repeated; a field without a colon; a content-length without a value. *)
MCHeaders ==
    {<<>>,
     <<<<"Host", ":", "sp", "host", ":", "port">>, <<"host", ":", "host", "sp">>>>,
     <<<<"host", ":", "port">>, <<"port">>>>,
     <<<<"Length", ":", "sp">>>>}

MCCapitals == [Host |-> "host", Length |-> "content-length"]

MCBodies == {<<>>, <<"b1">>, <<"b1", "b2">>, <<"b1", "b2", "b3", "b4">>}

MCLengths == [num0 |-> 0, num1 |-> 1, num2 |-> 2, num4 |-> 4]
=============================================================================
