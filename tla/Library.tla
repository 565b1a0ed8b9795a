------------------------------- MODULE Library -------------------------------
(***************************************************************************)
(* What the commands are written with: lists (types.h), the Strings of one *)
(* command after the other (string.cpp), and numbers (util.cpp).           *)
(*                                                                         *)
(* Lists and Strings live on the kernel heap, with the same calls, but the *)
(* questions asked of them are apart: a behaviour has lists in any order   *)
(* of operations, or commands, or numbers, the rest being as it was at the *)
(* start.                                                                  *)
(***************************************************************************)
EXTENDS ArrayList, Strings, Numbers

VARIABLE part   \* the component that runs

libraryVars == <<listVars, stringVars, numberVars, part>>

LibraryInit ==
    /\ ListInit /\ StringsInit /\ NumbersInit
    /\ part \in {"lists", "commands", "numbers"}

LibraryNext ==
    /\ \/ part = "lists" /\ ListNext /\ UNCHANGED <<stringVars, numberVars>>
       \/ part = "commands" /\ StringsNext /\ UNCHANGED <<listVars, numberVars>>
       \/ part = "numbers" /\ NumbersNext /\ UNCHANGED <<listVars, stringVars>>
    /\ UNCHANGED part

LibrarySpec == LibraryInit /\ [][LibraryNext]_libraryVars /\ Fairness
=============================================================================
