------------------------------- MODULE MCLine --------------------------------
(* A screen of 2 x 3 cells; names of two characters in a path, and entries *)
(* with room for three bytes.                                              *)
EXTENDS Line, MCDirBlock

MCPrompts == {<<">">>}
MCOutputs == {<<"o", Newline>>}

MCDirs ==
    {<<"a">>, <<"a", "a">>, <<"a", "/", "a">>, <<"a", "/", "a", "a">>,
     <<"a", "a", "/", "a">>, <<"a", "a", "/", "a", "a">>}

\* Long arguments, and shorter texts with spaces anywhere.
MCTyped == (BoundedSeq({"a", ".", "/"}, 6) \union BoundedSeq({"a", ".", "/", " "}, 4)) \ {<<>>}
MCSpace == " "
=============================================================================
