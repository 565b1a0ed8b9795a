------------------------------- MODULE Console -------------------------------
(***************************************************************************)
(* The line the user types: the keyboard, readl (keyboard.cpp) that edits  *)
(* it, and the screen (vga.cpp) that shows it.  Interrupts stay off, so    *)
(* that readl polls, and nothing reads the keyboard while a command runs:  *)
(* the keyboard keeps a few scancodes and drops the rest.                  *)
(***************************************************************************)
EXTENDS Integers, Sequences, FiniteSets, SequencesExt

CONSTANTS
    Width, Height,  \* of the screen (80, 25)
    MaxLength,      \* characters of a line (255)
    QueueSize,      \* scancodes the keyboard keeps
    Prompts,        \* what is printed before a line is read
    Outputs         \* what a command prints

VARIABLES
    held,           \* the shift keys that are down
    queue,          \* scancodes in the keyboard, each with the character it was
                    \* meant to be when it was pressed
    doubt,          \* history: "dropped" once a scancode was; "mixed" when both
                    \* shift keys were down and one still is; or "none"
    shift_pressed,
    reading,        \* readl runs
    buffer,         \* the line so far
    prompt,         \* history: what was printed before it
    screen          \* the cells, and cursor_pos

userVars == <<held, queue, doubt>>
consoleVars == <<userVars, shift_pressed, reading, buffer, prompt, screen>>

Shifts == {"left shift", "right shift"}
\* Two keys that print, one of them nothing with Shift; Enter and Backspace.
Keys == {"a", "2", "enter", "backspace"}
Newline == "\n"
Erase == "<-"
None == "none"
Blank == " "

kbd_map == [k \in Keys |-> CASE k = "enter" -> Newline [] k = "backspace" -> Erase [] OTHER -> k]

\* Mutant: no Enter with Shift.
kbd_map_shift_NoEnter ==
    [k \in Keys |-> CASE k = "backspace" -> Erase [] k = "a" -> "A" [] OTHER -> None]

kbd_map_shift ==
    [k \in Keys |-> CASE k = "enter" -> Newline [] k = "backspace" -> Erase
                      [] k = "a" -> "A" [] k = "2" -> None]

Size == Width * Height
Cells == 0 .. Size - 1

ASSUME ConsoleAssumption ==
    /\ Width \in Nat \ {0} /\ Height \in Nat \ {0} /\ QueueSize \in Nat /\ MaxLength \in Nat
    /\ Outputs \subseteq Seq(STRING) /\ Prompts \subseteq Seq(STRING \ {Newline, Erase})
    /\ \A p \in Prompts : Len(p) + MaxLength <= (Height - 1) * Width

-----------------------------------------------------------------------------
(* vga.cpp, on a screen [cell, cursor] *)

clear_screen == [cell |-> [i \in Cells |-> Blank], cursor |-> 0]

\* Mutant: the last row stays.
scroll_KeepsRow(s) ==
    [cell |-> [i \in Cells |-> IF i + Width \in Cells THEN s.cell[i + Width] ELSE s.cell[i]],
     cursor |-> s.cursor - Width]

scroll(s) ==
    [cell |-> [i \in Cells |-> IF i + Width \in Cells THEN s.cell[i + Width] ELSE Blank],
     cursor |-> s.cursor - Width]

\* Where put_char leaves the cursor, and what it has put on the screen.
Placed(s, c) ==
    CASE c = Newline -> [s EXCEPT !.cursor = (@ \div Width + 1) * Width]
      [] c = Erase -> IF s.cursor = 0 THEN s
                      ELSE [cell |-> [s.cell EXCEPT ![s.cursor - 1] = Blank], cursor |-> s.cursor - 1]
      [] OTHER -> [cell |-> [s.cell EXCEPT ![s.cursor] = c], cursor |-> s.cursor + 1]

\* The loop around scroll runs once at most: the cursor moves by a row at most.
put_char(s, c) ==
    LET placed == Placed(s, c)
    IN  IF placed.cursor >= Size THEN scroll(placed) ELSE placed

print(s, text) == FoldLeft(put_char, s, text)

-----------------------------------------------------------------------------
ConsoleInit ==
    /\ held = {} /\ queue = <<>> /\ doubt = "none"
    /\ shift_pressed = FALSE
    /\ reading = FALSE /\ buffer = <<>> /\ prompt = <<>>
    /\ screen = clear_screen

(* The user and the keyboard *)

Sends(key, released, meant) ==
    IF Len(queue) < QueueSize
    THEN queue' = Append(queue, [key |-> key, released |-> released, meant |-> meant])
    ELSE UNCHANGED queue
Doubts(other) == doubt' = IF Len(queue) = QueueSize THEN "dropped" ELSE other

Types ==
    /\ \E key \in Keys :
        Sends(key, FALSE, IF doubt # "none" THEN None
                          ELSE IF held = {} THEN kbd_map[key] ELSE kbd_map_shift[key])
    /\ Doubts(doubt)
    /\ UNCHANGED held

\* A key that is let go, and the prefix of a key that has one, say nothing.
LetsGo ==
    /\ \E key \in Keys : Sends(key, TRUE, None)
    /\ Doubts(doubt)
    /\ UNCHANGED held

\* Also a key that repeats because it is held.
PressesShift ==
    \E shift \in Shifts :
        /\ Sends(shift, FALSE, None)
        /\ held' = held \union {shift}
        /\ Doubts(IF doubt = "none" /\ held' = Shifts THEN "mixed" ELSE doubt)

LetsShiftGo ==
    \E shift \in held :
        /\ Sends(shift, TRUE, None)
        /\ held' = held \ {shift}
        /\ Doubts(IF doubt = "mixed" /\ held' = {} THEN "none" ELSE doubt)

User ==
    /\ Types \/ LetsGo \/ PressesShift \/ LetsShiftGo
    /\ UNCHANGED <<shift_pressed, reading, buffer, prompt, screen>>

-----------------------------------------------------------------------------
(* readl: one scancode.  Each of the cases of its loop is an action.       *)

\* Mutant: only the left one.
IsShift_Left(key) == key = "left shift"

IsShift(key) == key \in Shifts

Polled ==
    /\ reading /\ queue # <<>>
    /\ queue' = Tail(queue)
    /\ UNCHANGED <<held, doubt, prompt>>
Got == Head(queue)
Char == IF shift_pressed THEN kbd_map_shift[Got.key] ELSE kbd_map[Got.key]
Down(char) == Polled /\ Got.key \in Keys /\ ~Got.released /\ Char = char

Shift ==
    /\ Polled /\ IsShift(Got.key)
    /\ shift_pressed' = ~Got.released
    /\ UNCHANGED <<reading, buffer, screen>>

Ignored ==
    /\ Polled /\ ~IsShift(Got.key) /\ (Got.key \in Keys => Got.released \/ Char = None)
    /\ UNCHANGED <<shift_pressed, reading, buffer, screen>>

Enter ==
    /\ Down(Newline)
    /\ screen' = put_char(screen, Newline)
    /\ reading' = FALSE
    /\ UNCHANGED <<shift_pressed, buffer>>

\* Mutant: the line may already be empty.
Backspace_Always ==
    /\ Down(Erase)
    /\ buffer' = IF buffer = <<>> THEN buffer ELSE Front(buffer)
    /\ screen' = put_char(screen, Erase)
    /\ UNCHANGED <<shift_pressed, reading>>

Backspace ==
    /\ Down(Erase)
    /\ IF buffer = <<>> THEN UNCHANGED <<buffer, screen>>
       ELSE /\ buffer' = Front(buffer)
            /\ screen' = put_char(screen, Erase)
    /\ UNCHANGED <<shift_pressed, reading>>

Character ==
    \E c \in {"a", "A", "2"} :
        /\ Down(c)
        /\ IF Len(buffer) < MaxLength
           THEN buffer' = Append(buffer, c) /\ screen' = put_char(screen, c)
           ELSE UNCHANGED <<buffer, screen>>
        /\ UNCHANGED <<shift_pressed, reading>>

readl == Shift \/ Ignored \/ Enter \/ Backspace \/ Character

-----------------------------------------------------------------------------
(* The rest of the program (main.cpp): it prints, clears the screen, and   *)
(* prints a prompt and reads a line.                                       *)

Command ==
    /\ ~reading
    /\ \/ \E text \in Outputs : screen' = print(screen, text)
       \/ screen' = clear_screen
    /\ UNCHANGED <<userVars, shift_pressed, reading, buffer, prompt>>

Ask ==
    /\ ~reading
    /\ \E text \in Prompts :
        /\ screen' = print(screen, text)
        /\ prompt' = text
    /\ buffer' = <<>>
    /\ reading' = TRUE
    /\ UNCHANGED <<userVars, shift_pressed>>

ConsoleNext == User \/ readl \/ Command \/ Ask

\* readl polls for ever; nothing is asked of the user or of the commands.
ConsoleSpec == ConsoleInit /\ [][ConsoleNext]_consoleVars /\ WF_consoleVars(readl)

-----------------------------------------------------------------------------
(* Properties *)

\* readl and put_char: from the prompt to the cursor the screen shows the
\* line that Enter would return, across the ends of rows and after scrolling,
\* and nothing that is typed erases the prompt.
EchoIsTheLine ==
    reading => LET shown == prompt \o buffer
                   first == screen.cursor - Len(shown)
               IN  first \in Cells /\ \A i \in 1 .. Len(shown) : screen.cell[first + i - 1] = shown[i]

\* put_char, scroll and clear_screen: the cursor is on the screen, and from
\* it on the screen is blank, so that a new line covers nothing old.
BlankAhead == screen.cursor \in Cells /\ \A i \in screen.cursor .. Size - 1 : screen.cell[i] = Blank

\* readl and vga.cpp together: the user sees the line, all of it, and nothing
\* behind it.
ScreenShowsTheLine == EchoIsTheLine /\ BlankAhead

\* readl reads keys long after they were pressed: each one that it adds to
\* the line is what Shift made of it then, unless a scancode was dropped
\* before it, or both shift keys were down.
TypedAsMeant ==
    [][ Len(buffer') > Len(buffer) /\ Got.meant # None => Last(buffer') = Got.meant ]_consoleVars

\* With Shift or without: an Enter that is in the keyboard while a line is
\* read ends the line.
EnterEndsTheLine ==
    (reading /\ \E i \in 1 .. Len(queue) : queue[i].key = "enter" /\ ~queue[i].released)
        ~> ~reading
=============================================================================
