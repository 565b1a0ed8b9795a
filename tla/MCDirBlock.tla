----------------------------- MODULE MCDirBlock -----------------------------
(* Two characters: one that is the number of an inode, one that is not.    *)
EXTENDS DirBlock

Chars == {1, 9}
Short == UNION {[1 .. n -> Chars] : n \in 1 .. NameSize - 1}
Long == Short \union [1 .. NameSize -> Chars]
=============================================================================
