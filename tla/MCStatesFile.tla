---------------------------- MODULE MCStatesFile ----------------------------
(* Small instances of StatesFile for TLC. *)
EXTENDS StatesFile

MCIds == {<<65>>, <<66>>}

\* Nothing, a byte, and text with a newline that needs two digits of length.
MCData == {<<>>, <<97>>, <<97, 10, 98>>}
=============================================================================
