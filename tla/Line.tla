-------------------------------- MODULE Line ---------------------------------
(***************************************************************************)
(* A line from the key to the disk, in three components that hand only     *)
(* texts to each other: Console, where it is typed; PathText, where it is  *)
(* taken for words and paths; DirBlock, where a name is bytes.             *)
(*                                                                         *)
(* They share no state.  A behaviour is one of one of them, the others     *)
(* being as they were at the start.                                        *)
(***************************************************************************)
EXTENDS Console, PathText, DirBlock

VARIABLE part   \* the component that runs

lineVars == <<consoleVars, pathVars, blockVars, part>>

LineInit ==
    /\ ConsoleInit /\ PathInit /\ BlockInit
    /\ part \in {"console", "paths", "block"}

LineNext ==
    /\ \/ part = "console" /\ ConsoleNext /\ UNCHANGED <<pathVars, blockVars>>
       \/ part = "paths" /\ PathNext /\ UNCHANGED <<consoleVars, blockVars>>
       \/ part = "block" /\ BlockNext /\ UNCHANGED <<consoleVars, pathVars>>
    /\ UNCHANGED part

LineSpec == LineInit /\ [][LineNext]_lineVars /\ WF_consoleVars(readl)
=============================================================================
