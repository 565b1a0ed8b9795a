----------------------------- MODULE MCLibrary ------------------------------
(* Lines of up to five words: the list's cells grow at the fifth.          *)
EXTENDS Library

MCLines ==
    { [cmd |-> "none", words |-> <<>>],
      [cmd |-> "write", words |-> <<2, 1, 1, 1>>],
      [cmd |-> "touch", words |-> <<2, 5>>],
      [cmd |-> "rm", words |-> <<1, 1, 1, 1, 1>>],
      [cmd |-> "passwd", words |-> <<2>>] }
=============================================================================
