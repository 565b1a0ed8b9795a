----------------------------- MODULE LineProofs ------------------------------
(***************************************************************************)
(* A line from the key to the disk, for every size of screen, keyboard,    *)
(* buffers and block, every set of lines and of directories.               *)
(***************************************************************************)
EXTENDS Line, FoldProofs, SequenceTheorems, FiniteSetTheorems

-----------------------------------------------------------------------------
(* The keyboard *)

Chars == {"a", "A", "2", Newline, Erase, None}
Scancodes == [key : Keys \union Shifts, released : BOOLEAN, meant : Chars]

\* What Shift is when readl comes to the scancode at i: the last shift key
\* before it in the keyboard has made it so, or else it is so now.
ShiftAt(q, now, i, v) ==
    \/ v = now /\ \A j \in 1 .. i - 1 : ~IsShift(q[j].key)
    \/ \E j \in 1 .. i - 1 :
        /\ IsShift(q[j].key) /\ v = ~q[j].released
        /\ \A k \in j + 1 .. i - 1 : ~IsShift(q[k].key)

Mapped(key, shift) == IF shift THEN kbd_map_shift[key] ELSE kbd_map[key]

\* Each scancode in the keyboard will be read with the Shift it was pressed
\* with, and so would be one that is pressed now.
KeysInv ==
    /\ queue \in Seq(Scancodes) /\ Len(queue) <= QueueSize /\ held \in SUBSET Shifts
    /\ shift_pressed \in BOOLEAN /\ doubt \in {"none", "mixed", "dropped"}
    /\ \A i \in 1 .. Len(queue) :
        queue[i].meant # None =>
            /\ queue[i].key \in Keys
            /\ \E v \in BOOLEAN : ShiftAt(queue, shift_pressed, i, v)
                                  /\ queue[i].meant = Mapped(queue[i].key, v)
    /\ doubt = "none" =>
        held # Shifts /\ ShiftAt(queue, shift_pressed, Len(queue) + 1, held # {})

LEMMA KeyTypes ==
    /\ kbd_map \in [Keys -> Chars] /\ kbd_map_shift \in [Keys -> Chars]
    /\ \A key \in Keys : ~IsShift(key)
    /\ \A key \in Keys \union Shifts : IsShift(key) \/ key \in Keys
BY DEF kbd_map, kbd_map_shift, Keys, Chars, Newline, Erase, None, IsShift, Shifts

LEMMA ScancodeFields ==
    ASSUME NEW x \in Scancodes
    PROVE  x.key \in Keys \union Shifts /\ x.released \in BOOLEAN /\ x.meant \in Chars
BY DEF Scancodes

LEMMA AppendAt ==
    ASSUME NEW q \in Seq(Scancodes), NEW e \in Scancodes
    PROVE  /\ Append(q, e) \in Seq(Scancodes) /\ Len(Append(q, e)) = Len(q) + 1
           /\ \A i \in 1 .. Len(q) : Append(q, e)[i] = q[i]
           /\ Append(q, e)[Len(q) + 1] = e
OBVIOUS

\* A scancode that comes in behind changes nothing for those before it.
LEMMA ShiftAtAppend ==
    ASSUME NEW q \in Seq(Scancodes), NEW e \in Scancodes, NEW now, NEW v,
           NEW i \in 1 .. Len(q) + 1, ShiftAt(q, now, i, v)
    PROVE  ShiftAt(Append(q, e), now, i, v)
<1>1. \A j \in 1 .. i - 1 : Append(q, e)[j] = q[j]
  BY AppendAt
<1> QED BY <1>1 DEF ShiftAt

LEMMA ShiftAtNext ==
    ASSUME NEW q \in Seq(Scancodes), NEW e \in Scancodes, NEW now, NEW v,
           \/ IsShift(e.key) /\ v = ~e.released
           \/ ~IsShift(e.key) /\ ShiftAt(q, now, Len(q) + 1, v)
    PROVE  ShiftAt(Append(q, e), now, Len(q) + 2, v)
<1>1. \A j \in 1 .. Len(q) : Append(q, e)[j] = q[j]
  BY AppendAt
<1>2. Append(q, e)[Len(q) + 1] = e /\ Len(q) \in Nat
  BY AppendAt
<1>3. CASE IsShift(e.key) /\ v = ~e.released
  BY <1>2, <1>3 DEF ShiftAt
<1>4. CASE ~IsShift(e.key) /\ ShiftAt(q, now, Len(q) + 1, v)
  <2>1. CASE v = now /\ \A j \in 1 .. Len(q) : ~IsShift(q[j].key)
    BY <1>1, <1>2, <1>4, <2>1 DEF ShiftAt
  <2>2. ASSUME NEW j \in 1 .. Len(q), IsShift(q[j].key), v = ~q[j].released,
               \A k \in j + 1 .. Len(q) : ~IsShift(q[k].key)
        PROVE  ShiftAt(Append(q, e), now, Len(q) + 2, v)
    <3>1. \A k \in j + 1 .. Len(q) + 1 : ~IsShift(Append(q, e)[k].key)
      BY <1>1, <1>2, <1>4, <2>2
    <3>2. j \in 1 .. (Len(q) + 2) - 1 /\ IsShift(Append(q, e)[j].key) /\ v = ~Append(q, e)[j].released
      BY <1>1, <1>2, <2>2
    <3> QED BY <1>2, <3>1, <3>2 DEF ShiftAt
  <2> QED BY <1>2, <1>4, <2>1, <2>2 DEF ShiftAt
<1> QED BY <1>3, <1>4
LEMMA TailAt ==
    ASSUME NEW q \in Seq(Scancodes), q # <<>>
    PROVE  /\ Tail(q) \in Seq(Scancodes) /\ Len(Tail(q)) = Len(q) - 1 /\ Len(q) \in Nat \ {0}
           /\ \A i \in 1 .. Len(q) - 1 : Tail(q)[i] = q[i + 1]
           /\ Head(q) = q[1] /\ q[1] \in Scancodes
OBVIOUS

\* Once readl has taken the first scancode, Shift is what that made of it.
LEMMA ShiftAtTail ==
    ASSUME NEW q \in Seq(Scancodes), q # <<>>, NEW now, NEW v,
           NEW i \in 1 .. Len(q), ShiftAt(q, now, i + 1, v),
           NEW next, next = IF IsShift(q[1].key) THEN ~q[1].released ELSE now
    PROVE  ShiftAt(Tail(q), next, i, v)
<1>1. /\ Len(Tail(q)) = Len(q) - 1 /\ Len(q) \in Nat \ {0}
      /\ \A k \in 1 .. Len(q) - 1 : Tail(q)[k] = q[k + 1]
  BY TailAt
<1>2. CASE v = now /\ \A j \in 1 .. i : ~IsShift(q[j].key)
  BY <1>1, <1>2 DEF ShiftAt
<1>3. ASSUME NEW j \in 1 .. i, IsShift(q[j].key), v = ~q[j].released,
             \A k \in j + 1 .. i : ~IsShift(q[k].key)
      PROVE  ShiftAt(Tail(q), next, i, v)
  <2>1. \A k \in j .. i - 1 : ~IsShift(Tail(q)[k].key)
    BY <1>1, <1>3
  <2>2. CASE j = 1
    BY <1>1, <1>3, <2>1, <2>2 DEF ShiftAt
  <2>3. CASE j # 1
    <3>1. j - 1 \in 1 .. i - 1 /\ Tail(q)[j - 1] = q[j]
      BY <1>1, <2>3
    <3>2. \A k \in (j - 1) + 1 .. i - 1 : ~IsShift(Tail(q)[k].key)
      BY <2>1
    <3> QED BY <1>3, <3>1, <3>2 DEF ShiftAt
  <2> QED BY <2>2, <2>3
<1> QED BY <1>2, <1>3 DEF ShiftAt

\* A scancode that the user sends: what KeysInv says of the keyboard.
LEMMA SendsKeys ==
    ASSUME KeysInv, NEW key \in Keys \union Shifts, NEW released \in BOOLEAN, NEW meant \in Chars,
           Sends(key, released, meant), UNCHANGED shift_pressed, Len(queue) < QueueSize,
           meant # None => key \in Keys /\ doubt = "none" /\ meant = Mapped(key, held # {})
    PROVE  /\ queue' \in Seq(Scancodes)
           /\ Len(queue') = Len(queue) + 1
           /\ \A i \in 1 .. Len(queue') :
                queue'[i].meant # None =>
                    /\ queue'[i].key \in Keys
                    /\ \E v \in BOOLEAN : ShiftAt(queue', shift_pressed', i, v)
                                          /\ queue'[i].meant = Mapped(queue'[i].key, v)
<1>1. PICK e \in Scancodes : e = [key |-> key, released |-> released, meant |-> meant]
  BY DEF Scancodes
<1>2. queue' = Append(queue, e)
  BY <1>1 DEF Sends
<1>3. queue \in Seq(Scancodes) /\ Len(queue) \in Nat
  BY DEF KeysInv
<1>4. /\ queue' \in Seq(Scancodes) /\ Len(queue') = Len(queue) + 1
      /\ \A i \in 1 .. Len(queue) : queue'[i] = queue[i]
      /\ queue'[Len(queue) + 1] = e
  BY <1>2, <1>3, AppendAt
<1>5. ASSUME NEW i \in 1 .. Len(queue), queue'[i].meant # None
      PROVE  /\ queue'[i].key \in Keys
             /\ \E v \in BOOLEAN : ShiftAt(queue', shift_pressed', i, v)
                                   /\ queue'[i].meant = Mapped(queue'[i].key, v)
  <2>1. queue'[i] = queue[i]
    BY <1>4
  <2>2. queue[i].key \in Keys
    BY <1>5, <2>1 DEF KeysInv
  <2>3. PICK v \in BOOLEAN : ShiftAt(queue, shift_pressed, i, v)
                             /\ queue[i].meant = Mapped(queue[i].key, v)
    BY <1>5, <2>1 DEF KeysInv
  <2>4. i \in 1 .. Len(queue) + 1
    BY <1>3
  <2>5. ShiftAt(queue', shift_pressed, i, v)
    BY <1>2, <1>3, <2>3, <2>4, ShiftAtAppend
  <2> QED BY <2>1, <2>2, <2>3, <2>5
<1>6. ASSUME e.meant # None
      PROVE  /\ e.key \in Keys
             /\ \E v \in BOOLEAN : ShiftAt(queue', shift_pressed', Len(queue) + 1, v)
                                   /\ e.meant = Mapped(e.key, v)
  <2>1. e.key = key /\ e.meant = meant
    BY <1>1
  <2>2. ShiftAt(queue, shift_pressed, Len(queue) + 1, held # {})
    BY <1>6, <2>1 DEF KeysInv
  <2>3. Len(queue) + 1 \in 1 .. Len(queue) + 1
    BY <1>3
  <2>4. ShiftAt(queue', shift_pressed, Len(queue) + 1, held # {})
    BY <1>2, <1>3, <2>2, <2>3, ShiftAtAppend
  <2>5. (held # {}) \in BOOLEAN
    OBVIOUS
  <2> QED BY <1>6, <2>1, <2>4, <2>5
<1>7. \A i \in 1 .. Len(queue') : i \in 1 .. Len(queue) \/ i = Len(queue) + 1
  BY <1>3, <1>4
<1> QED BY <1>4, <1>5, <1>6, <1>7

\* The keyboard is full: the scancode is dropped, and nothing is sure from now on.
LEMMA DroppedKeys ==
    ASSUME KeysInv, UNCHANGED <<queue, shift_pressed>>, doubt' = "dropped", held' \in SUBSET Shifts
    PROVE  KeysInv'
BY DEF KeysInv

\* What a scancode is meant to be, and what is then said of Shift.
LEMMA SentKeys ==
    ASSUME KeysInv, NEW key \in Keys \union Shifts, NEW released \in BOOLEAN, NEW meant \in Chars,
           Sends(key, released, meant), UNCHANGED shift_pressed,
           meant # None => key \in Keys /\ doubt = "none" /\ meant = Mapped(key, held # {}),
           held' \in SUBSET Shifts, NEW other \in {"none", "mixed", "dropped"}, Doubts(other),
           other = "none" =>
               /\ held' # Shifts
               /\ \/ IsShift(key) /\ (held' # {}) = ~released
                  \/ ~IsShift(key) /\ doubt = "none" /\ held' = held
    PROVE  KeysInv'
<1>1. queue \in Seq(Scancodes) /\ Len(queue) \in Nat
  BY DEF KeysInv
<1>2. CASE Len(queue) = QueueSize
  <2>1. UNCHANGED queue /\ doubt' = "dropped"
    BY <1>2, ConsoleAssumption DEF Sends, Doubts
  <2> QED BY <2>1, DroppedKeys
<1>3. CASE Len(queue) < QueueSize
  <2>1. doubt' = other
    BY <1>1, <1>3, ConsoleAssumption DEF Doubts
  <2>2. /\ queue' \in Seq(Scancodes)
        /\ Len(queue') = Len(queue) + 1
        /\ \A i \in 1 .. Len(queue') :
             queue'[i].meant # None =>
                 /\ queue'[i].key \in Keys
                 /\ \E v \in BOOLEAN : ShiftAt(queue', shift_pressed', i, v)
                                       /\ queue'[i].meant = Mapped(queue'[i].key, v)
    BY <1>3, SendsKeys
  <2>3. ASSUME other = "none"
        PROVE  ShiftAt(queue', shift_pressed', Len(queue') + 1, held' # {})
    <3>1. PICK e \in Scancodes : e = [key |-> key, released |-> released, meant |-> meant]
      BY DEF Scancodes
    <3>2. queue' = Append(queue, e) /\ e.key = key /\ e.released = released
      BY <1>3, <3>1 DEF Sends
    <3>3. \/ IsShift(e.key) /\ (held' # {}) = ~e.released
          \/ ~IsShift(e.key) /\ ShiftAt(queue, shift_pressed, Len(queue) + 1, held' # {})
      <4>1. CASE IsShift(key) /\ (held' # {}) = ~released
        BY <3>2, <4>1
      <4>2. CASE ~IsShift(key) /\ doubt = "none" /\ held' = held
        BY <3>2, <4>2 DEF KeysInv
      <4> QED BY <2>3, <4>1, <4>2
    <3>4. ShiftAt(queue', shift_pressed, Len(queue) + 2, held' # {})
      BY <1>1, <3>2, <3>3, ShiftAtNext
    <3>5. Len(queue') + 1 = Len(queue) + 2
      BY <1>1, <2>2
    <3> QED BY <3>4, <3>5
  <2>4. shift_pressed' \in BOOLEAN /\ Len(queue') <= QueueSize
    BY <1>1, <1>3, <2>2, ConsoleAssumption DEF KeysInv
  <2> QED BY <2>1, <2>2, <2>3, <2>4 DEF KeysInv
<1> QED BY <1>1, <1>2, <1>3, ConsoleAssumption DEF KeysInv

\* The user's four actions.
LEMMA UserKeys == KeysInv /\ User => KeysInv'
<1> SUFFICES ASSUME KeysInv, User PROVE KeysInv'
  OBVIOUS
<1>1. UNCHANGED shift_pressed
  BY DEF User
<1>2. held \in SUBSET Shifts /\ doubt \in {"none", "mixed", "dropped"}
      /\ (doubt = "none" => held # Shifts)
  BY DEF KeysInv
<1>3. None \in Chars
  BY DEF Chars
<1>4. ASSUME Types PROVE KeysInv'
  <2>1. PICK key \in Keys : \E meant :
          /\ Sends(key, FALSE, meant)
          /\ meant = IF doubt # "none" THEN None
                     ELSE IF held = {} THEN kbd_map[key] ELSE kbd_map_shift[key]
    BY <1>4 DEF Types
  <2> PICK meant :
          /\ Sends(key, FALSE, meant)
          /\ meant = IF doubt # "none" THEN None
                     ELSE IF held = {} THEN kbd_map[key] ELSE kbd_map_shift[key]
    BY <2>1
  <2>2. Doubts(doubt) /\ held' = held
    BY <1>4 DEF Types
  <2>3. meant \in Chars
    BY <1>3, <2>1, KeyTypes
  <2>4. meant # None => doubt = "none" /\ meant = Mapped(key, held # {})
    BY <2>1 DEF Mapped
  <2>5. ~IsShift(key) /\ key \in Keys \union Shifts
    BY KeyTypes
  <2> QED BY <1>1, <1>2, <2>1, <2>2, <2>3, <2>4, <2>5, SentKeys
<1>5. ASSUME LetsGo PROVE KeysInv'
  <2>1. PICK key \in Keys : Sends(key, TRUE, None)
    BY <1>5 DEF LetsGo
  <2>2. Doubts(doubt) /\ held' = held
    BY <1>5 DEF LetsGo
  <2>3. ~IsShift(key) /\ key \in Keys \union Shifts
    BY KeyTypes
  <2> QED BY <1>1, <1>2, <1>3, <2>1, <2>2, <2>3, SentKeys
<1>6. ASSUME PressesShift PROVE KeysInv'
  <2>1. PICK shift \in Shifts : \E other :
          /\ Sends(shift, FALSE, None) /\ held' = held \union {shift} /\ Doubts(other)
          /\ other = IF doubt = "none" /\ held' = Shifts THEN "mixed" ELSE doubt
    BY <1>6 DEF PressesShift
  <2> PICK other :
          /\ Doubts(other)
          /\ other = IF doubt = "none" /\ held' = Shifts THEN "mixed" ELSE doubt
    BY <2>1
  <2>2. IsShift(shift) /\ shift \in Keys \union Shifts
    BY DEF IsShift
  <2>3. held' \in SUBSET Shifts /\ held' # {} /\ other \in {"none", "mixed", "dropped"}
        /\ (other = "none" => held' # Shifts)
    BY <1>2, <2>1
  <2> QED BY <1>1, <1>3, <2>1, <2>2, <2>3, SentKeys
<1>7. ASSUME LetsShiftGo PROVE KeysInv'
  <2>1. PICK shift \in held : \E other :
          /\ Sends(shift, TRUE, None) /\ held' = held \ {shift} /\ Doubts(other)
          /\ other = IF doubt = "mixed" /\ held' = {} THEN "none" ELSE doubt
    BY <1>7 DEF LetsShiftGo
  <2> PICK other :
          /\ Doubts(other)
          /\ other = IF doubt = "mixed" /\ held' = {} THEN "none" ELSE doubt
    BY <2>1
  <2>2. IsShift(shift) /\ shift \in Keys \union Shifts
    BY <1>2 DEF IsShift
  <2>3. held' \in SUBSET Shifts /\ other \in {"none", "mixed", "dropped"}
    BY <1>2, <2>1
  <2>4. ASSUME other = "none" PROVE held' = {}
    <3>1. CASE doubt = "mixed"
      BY <2>1, <2>4, <3>1
    <3>2. CASE doubt = "none"
      BY <1>2, <2>1, <3>2 DEF Shifts
    <3> QED BY <2>1, <2>4, <3>1, <3>2
  <2>5. other = "none" => held' # Shifts
    BY <2>4 DEF Shifts
  <2> QED BY <1>1, <1>3, <2>1, <2>2, <2>3, <2>4, <2>5, SentKeys
<1> QED BY <1>4, <1>5, <1>6, <1>7 DEF User

\* A scancode that readl takes.
LEMMA PolledKeys ==
    ASSUME KeysInv, Polled,
           shift_pressed' = IF IsShift(Got.key) THEN ~Got.released ELSE shift_pressed
    PROVE  KeysInv'
<1>1. queue \in Seq(Scancodes) /\ queue # <<>> /\ queue' = Tail(queue) /\ UNCHANGED <<held, doubt>>
  BY DEF Polled, KeysInv
<1>2. /\ queue' \in Seq(Scancodes) /\ Len(queue') = Len(queue) - 1 /\ Len(queue) \in Nat \ {0}
      /\ \A i \in 1 .. Len(queue) - 1 : queue'[i] = queue[i + 1]
      /\ Got = queue[1] /\ queue[1] \in Scancodes
  BY <1>1, TailAt DEF Got
<1>3. shift_pressed' \in BOOLEAN /\ Len(queue') <= QueueSize
  <2>1. Got.released \in BOOLEAN
    BY <1>2, ScancodeFields
  <2>2. shift_pressed \in BOOLEAN /\ Len(queue) <= QueueSize
    BY DEF KeysInv
  <2>3. shift_pressed' \in BOOLEAN
    BY <2>1, <2>2
  <2>4. Len(queue') <= QueueSize
    BY <1>2, <2>2, ConsoleAssumption
  <2> QED BY <2>3, <2>4
<1>4. ASSUME NEW i \in 1 .. Len(queue), NEW v, ShiftAt(queue, shift_pressed, i + 1, v)
      PROVE  ShiftAt(queue', shift_pressed', i, v)
  BY <1>1, <1>2, <1>4, ShiftAtTail
<1>5. ASSUME NEW i \in 1 .. Len(queue'), queue'[i].meant # None
      PROVE  /\ queue'[i].key \in Keys
             /\ \E v \in BOOLEAN : ShiftAt(queue', shift_pressed', i, v)
                                   /\ queue'[i].meant = Mapped(queue'[i].key, v)
  <2>1. i + 1 \in 1 .. Len(queue) /\ i \in 1 .. Len(queue) /\ queue'[i] = queue[i + 1]
    BY <1>2
  <2>2. PICK k \in 1 .. Len(queue) : k = i + 1 /\ queue[k].meant # None
    BY <1>5, <2>1
  <2>3. /\ queue[k].key \in Keys
        /\ \E v \in BOOLEAN : ShiftAt(queue, shift_pressed, k, v)
                              /\ queue[k].meant = Mapped(queue[k].key, v)
    BY <2>2 DEF KeysInv
  <2> QED BY <1>4, <2>1, <2>2, <2>3
<1>6. ASSUME doubt = "none" PROVE ShiftAt(queue', shift_pressed', Len(queue') + 1, held # {})
  <2>1. ShiftAt(queue, shift_pressed, Len(queue) + 1, held # {})
    BY <1>6 DEF KeysInv
  <2>2. Len(queue) \in 1 .. Len(queue) /\ Len(queue') + 1 = Len(queue)
    BY <1>2
  <2> QED BY <1>4, <2>1, <2>2
<1> QED BY <1>1, <1>2, <1>3, <1>5, <1>6 DEF KeysInv

LEMMA ReadlKeys == KeysInv /\ readl => KeysInv'
<1> SUFFICES ASSUME KeysInv, readl PROVE KeysInv'
  OBVIOUS
<1>1. CASE Shift
  BY <1>1, PolledKeys DEF Shift
<1>2. CASE Ignored
  BY <1>2, PolledKeys DEF Ignored
<1>3. ASSUME NEW char, Down(char), UNCHANGED shift_pressed PROVE KeysInv'
  BY <1>3, KeyTypes, PolledKeys DEF Down
<1>4. CASE Enter
  BY <1>3, <1>4 DEF Enter
<1>5. CASE Backspace
  BY <1>3, <1>5 DEF Backspace
<1>6. CASE Character
  BY <1>3, <1>6 DEF Character
<1> QED BY <1>1, <1>2, <1>4, <1>5, <1>6 DEF readl

LEMMA KeysInvStep == KeysInv /\ [ConsoleNext]_consoleVars => KeysInv'
<1>1. KeysInv /\ (Command \/ Ask) => KeysInv'
  BY DEF KeysInv, Command, Ask, userVars
<1>2. KeysInv /\ UNCHANGED consoleVars => KeysInv'
  BY DEF KeysInv, consoleVars, userVars
<1> QED BY <1>1, <1>2, UserKeys, ReadlKeys DEF ConsoleNext

\* readl's reading of a key is what the key was meant to be.
LEMMA ReadAsMeant ==
    ASSUME KeysInv, queue # <<>>, Got.key \in Keys, Got.meant # None
    PROVE  Char = Got.meant
<1>1. queue \in Seq(Scancodes) /\ Got = queue[1] /\ Len(queue) \in Nat \ {0}
  BY TailAt DEF KeysInv, Got
<1>2. 1 \in 1 .. Len(queue)
  BY <1>1
<1>3. PICK v \in BOOLEAN : ShiftAt(queue, shift_pressed, 1, v) /\ Got.meant = Mapped(Got.key, v)
  BY <1>1, <1>2 DEF KeysInv
<1>4. v = shift_pressed
  BY <1>3 DEF ShiftAt
<1> QED BY <1>3, <1>4 DEF Mapped, Char

LEMMA FrontAt ==
    ASSUME NEW S, NEW s \in Seq(S), s # <<>>
    PROVE  /\ Front(s) \in Seq(S) /\ Len(Front(s)) = Len(s) - 1 /\ Len(s) \in Nat \ {0}
           /\ \A i \in 1 .. Len(s) - 1 : Front(s)[i] = s[i]
<1>1. Front(s) = SubSeq(s, 1, Len(s) - 1) /\ Len(s) \in Nat \ {0}
  BY DEF Front
<1>2. 1 \in 1 .. Len(s) + 1 /\ Len(s) - 1 \in 1 - 1 .. Len(s)
  BY <1>1
<1>3. PICK n \in 1 - 1 .. Len(s) : n = Len(s) - 1
  BY <1>2
<1>4. /\ SubSeq(s, 1, n) \in Seq(S) /\ Len(SubSeq(s, 1, n)) = n - 1 + 1
      /\ \A i \in 1 .. n - 1 + 1 : SubSeq(s, 1, n)[i] = s[1 + i - 1]
  BY <1>2, SubSeqProperties
<1> QED BY <1>1, <1>3, <1>4

LEMMA BufferStep ==
    ASSUME KeysInv, buffer \in Seq(Chars), [ConsoleNext]_consoleVars
    PROVE  /\ buffer' \in Seq(Chars)
           /\ Len(buffer') > Len(buffer) /\ Got.meant # None => Last(buffer') = Got.meant
<1>1. Len(buffer) \in Nat
  OBVIOUS
<1>2. CASE UNCHANGED buffer
  BY <1>1, <1>2
<1>3. CASE buffer' = <<>>
  BY <1>1, <1>3
<1>4. CASE buffer # <<>> /\ buffer' = Front(buffer)
  BY <1>1, <1>4, FrontAt
<1>5. ASSUME NEW c \in {"a", "A", "2"}, Down(c), buffer' = Append(buffer, c)
      PROVE  buffer' \in Seq(Chars) /\ (Got.meant # None => Last(buffer') = Got.meant)
  <2>1. Char = c /\ queue # <<>> /\ Got.key \in Keys
    BY <1>5 DEF Down, Polled
  <2>2. Last(buffer') = c /\ buffer' \in Seq(Chars)
    BY <1>5 DEF Last, Chars
  <2> QED BY <2>1, <2>2, ReadAsMeant
<1>6. CASE User
  BY <1>2, <1>6 DEF User
<1>7. CASE Shift \/ Ignored \/ Enter \/ Command
  BY <1>2, <1>7 DEF Shift, Ignored, Enter, Command
<1>8. CASE Backspace
  BY <1>2, <1>4, <1>8 DEF Backspace
<1>9. CASE Character
  BY <1>2, <1>5, <1>9 DEF Character
<1>10. CASE Ask
  BY <1>3, <1>10 DEF Ask
<1>11. CASE UNCHANGED consoleVars
  BY <1>2, <1>11 DEF consoleVars
<1> QED BY <1>6, <1>7, <1>8, <1>9, <1>10, <1>11 DEF ConsoleNext, readl

LEMMA ConsoleSteps == [LineNext]_lineVars => [ConsoleNext]_consoleVars
BY DEF LineNext, lineVars

\* readl takes a scancode long after the key was pressed, but with the Shift
\* of that time: a character that is typed is the one that was meant.
THEOREM KeysAreTypedAsMeant == LineSpec => TypedAsMeant
<1> DEFINE Inv == KeysInv /\ buffer \in Seq(Chars)
<1>1. LineInit => Inv
  <2> SUFFICES ASSUME LineInit PROVE Inv
    OBVIOUS
  <2>1. /\ held = {} /\ queue = <<>> /\ doubt = "none" /\ shift_pressed = FALSE /\ buffer = <<>>
        /\ QueueSize \in Nat
    BY ConsoleAssumption DEF LineInit, ConsoleInit
  <2>2. held \in SUBSET Shifts /\ held # Shifts
    BY <2>1 DEF Shifts
  <2>3. ShiftAt(queue, shift_pressed, 1, held # {})
    <3>1. (held # {}) = shift_pressed
      BY <2>1
    <3>2. \A v : v = shift_pressed => ShiftAt(queue, shift_pressed, 1, v)
      BY DEF ShiftAt
    <3> QED BY <3>1, <3>2
  <2>4. queue \in Seq(Scancodes) /\ Len(queue) = 0 /\ buffer \in Seq(Chars)
    BY <2>1
  <2>5. Len(queue) <= QueueSize /\ Len(queue) + 1 = 1 /\ \A i \in 1 .. Len(queue) : FALSE
    BY <2>1, <2>4
  <2>6. shift_pressed \in BOOLEAN
    BY <2>1
  <2> QED BY <2>1, <2>2, <2>3, <2>4, <2>5, <2>6 DEF KeysInv
<1>2. Inv /\ [LineNext]_lineVars => Inv'
  BY ConsoleSteps, KeysInvStep, BufferStep
<1>3. Inv /\ [LineNext]_lineVars
      => [Len(buffer') > Len(buffer) /\ Got.meant # None => Last(buffer') = Got.meant]_consoleVars
  BY ConsoleSteps, BufferStep
<1> QED BY <1>1, <1>2, <1>3, PTL DEF LineSpec, TypedAsMeant

-----------------------------------------------------------------------------
(* The entries of a block *)

Short == {name \in Plain \union InPaths : ~TooLong(name)}

LEMMA NameTypes ==
    ASSUME NEW name \in Short
    PROVE  /\ name \in Seq(Nat \ {0}) /\ Len(name) \in 1 .. NameSize - 1
           /\ DOMAIN name = 1 .. Len(name)
           /\ \A k \in 1 .. Len(name) : name[k] \in Nat \ {0}
<1>1. name \in Seq(Nat \ {0}) /\ name # <<>> /\ ~(Len(name) >= NameSize)
  BY DirBlockAssumption DEF Short, TooLong
<1>2. Len(name) \in Nat \ {0} /\ DOMAIN name = 1 .. Len(name) /\ NameSize \in Nat \ {0}
  BY <1>1, DirBlockAssumption
<1> QED BY <1>1, <1>2

\* Entries lie side by side, and all of them in the block.
LEMMA Layout ==
    /\ EntrySize \in Nat /\ EntrySize = NameSize + 2 /\ NameSize \in Nat \ {0} /\ Slots \in Nat
    /\ \A i \in SlotNumbers : At(i) \in Nat /\ i \in Nat
    /\ \A i \in SlotNumbers, k \in Nat :
        At(i) <= k /\ k < At(i) + EntrySize => k \in Bytes /\ k < Slots * EntrySize
    /\ \A i, j \in SlotNumbers : i # j => At(i) + EntrySize <= At(j) \/ At(j) + EntrySize <= At(i)
<1>1. EntrySize \in Nat /\ EntrySize = NameSize + 2 /\ NameSize \in Nat \ {0} /\ Slots \in Nat
  BY DirBlockAssumption DEF EntrySize
<1>2. ASSUME NEW e \in Nat, NEW i \in Nat, NEW j \in Nat, i < j
      PROVE  i * e + e <= j * e
  <2>1. PICK d \in Nat : j = i + 1 + d
    <3>1. j - i - 1 \in Nat /\ j = i + 1 + (j - i - 1)
      BY <1>2
    <3> QED BY <3>1
  <2>2. j * e = i * e + e + d * e
    BY <2>1
  <2>3. d * e >= 0 /\ i * e \in Nat /\ d * e \in Nat
    OBVIOUS
  <2> QED BY <2>2, <2>3
<1>3. ASSUME NEW i \in SlotNumbers PROVE At(i) \in Nat /\ i \in Nat /\ At(i) + EntrySize <= Slots * EntrySize
  <2>1. i \in Nat /\ i < Slots
    BY <1>1 DEF SlotNumbers
  <2>2. i * EntrySize \in Nat
    BY <1>1, <2>1
  <2> QED BY <1>1, <1>2, <2>1, <2>2 DEF At
<1>4. ASSUME NEW i \in SlotNumbers, NEW k \in Nat, At(i) <= k, k < At(i) + EntrySize
      PROVE  k \in Bytes /\ k < Slots * EntrySize
  <2>1. Slots * EntrySize \in Nat
    BY <1>1
  <2> QED BY <1>1, <1>3, <1>4, <2>1 DEF Bytes
<1>5. ASSUME NEW i \in SlotNumbers, NEW j \in SlotNumbers, i # j
      PROVE  At(i) + EntrySize <= At(j) \/ At(j) + EntrySize <= At(i)
  <2>1. i < j \/ j < i
    BY <1>3, <1>5
  <2> QED BY <1>1, <1>2, <1>3, <2>1 DEF At
<1> QED BY <1>1, <1>3, <1>4, <1>5

\* The name at i, and the zero behind it.
Spelled(b, i, name) ==
    /\ \A k \in 1 .. Len(name) : b[At(i) + 1 + k] = name[k]
    /\ b[At(i) + 2 + Len(name)] = 0

LEMMA SpelledIsName ==
    ASSUME NEW b, NEW i \in SlotNumbers, NEW name \in Short, Spelled(b, i, name)
    PROVE  NameAt(b, i) = name
<1>1. /\ name \in Seq(Nat \ {0}) /\ Len(name) \in 1 .. NameSize - 1 /\ DOMAIN name = 1 .. Len(name)
      /\ \A k \in 1 .. Len(name) : name[k] \in Nat \ {0}
  BY NameTypes
<1>2. At(i) \in Nat /\ Len(name) \in Nat /\ EntrySize = NameSize + 2 /\ NameSize \in Nat
  BY <1>1, Layout
<1> DEFINE start == At(i) + 2
           end == start + Len(name)
           ends == {k \in Bytes : k >= start /\ b[k] = 0} \union {Slots * EntrySize}
<1>3. end \in Bytes /\ end < Slots * EntrySize /\ b[end] = 0 /\ end \in Nat /\ start \in Nat
  BY <1>1, <1>2, Layout DEF Spelled
<1>4. Slots * EntrySize \in Nat /\ Bytes \in SUBSET Nat
  BY Layout DEF Bytes
<1>5. ASSUME NEW x \in ends PROVE end <= x
  <2>1. CASE x = Slots * EntrySize
    BY <1>3, <1>4, <2>1
  <2>2. CASE x \in Bytes /\ x >= start /\ b[x] = 0
    <3> SUFFICES ASSUME x < end PROVE FALSE
      BY <1>3, <1>4, <2>2
    <3>1. x \in Nat
      BY <1>4, <2>2
    <3>2. PICK k \in Nat : x = At(i) + 1 + k
      <4>1. x - (At(i) + 1) \in Nat /\ x = At(i) + 1 + (x - (At(i) + 1))
        BY <1>2, <2>2, <3>1
      <4> QED BY <4>1
    <3>3. k \in 1 .. Len(name)
      BY <1>2, <2>2, <3>2
    <3>4. b[x] = name[k]
      BY <3>2, <3>3 DEF Spelled
    <3> QED BY <1>1, <2>2, <3>3, <3>4
  <2> QED BY <2>1, <2>2
<1>6. end \in ends /\ ends \in SUBSET Nat
  <2>1. end >= start
    BY <1>1, <1>3
  <2> HIDE DEF end, start
  <2> QED BY <1>3, <1>4, <2>1
<1>7. Min(ends) = end
  <2> HIDE DEF end, ends
  <2>1. Min(ends) \in ends /\ Min(ends) <= end
    BY <1>6, LeastNat
  <2>2. Min(ends) \in Nat /\ end <= Min(ends)
    BY <1>5, <1>6, <2>1
  <2> QED BY <1>3, <2>1, <2>2
<1>8. Min(ends) - start = Len(name)
  BY <1>2, <1>7
<1>9. NameAt(b, i) = [k \in 1 .. Len(name) |-> b[start + k - 1]]
  BY <1>8 DEF NameAt
<1>10. \A k \in 1 .. Len(name) : start + k - 1 = At(i) + 1 + k
  BY <1>2
<1>11. \A k \in 1 .. Len(name) : b[start + k - 1] = name[k]
  BY <1>10 DEF Spelled
<1> QED BY <1>1, <1>9, <1>11

\* Two blocks that agree on the entry at i.
SameEntry(b, c, i) ==
    \A k \in Nat : At(i) <= k /\ k < At(i) + EntrySize => c[k] = b[k]

LEMMA SameEntryKeeps ==
    ASSUME NEW b, NEW c, NEW i \in SlotNumbers, SameEntry(b, c, i)
    PROVE  /\ IsUsed(c, i) <=> IsUsed(b, i)
           /\ InodeAt(c, i) = InodeAt(b, i)
           /\ \A name \in Short : Spelled(b, i, name) => Spelled(c, i, name)
<1>1. At(i) \in Nat /\ EntrySize = NameSize + 2 /\ NameSize \in Nat \ {0}
  BY Layout
<1>2. c[At(i)] = b[At(i)] /\ c[At(i) + 1] = b[At(i) + 1]
  BY <1>1 DEF SameEntry
<1>3. ASSUME NEW name \in Short, Spelled(b, i, name) PROVE Spelled(c, i, name)
  <2>1. Len(name) \in 1 .. NameSize - 1
    BY NameTypes
  <2>2. \A k \in 1 .. Len(name) + 1 :
          At(i) + 1 + k \in Nat /\ At(i) <= At(i) + 1 + k /\ At(i) + 1 + k < At(i) + EntrySize
    BY <1>1, <2>1
  <2>3. \A k \in 1 .. Len(name) + 1 : c[At(i) + 1 + k] = b[At(i) + 1 + k]
    BY <2>2 DEF SameEntry
  <2>4. c[At(i) + 2 + Len(name)] = b[At(i) + 2 + Len(name)]
    <3>1. Len(name) + 1 \in 1 .. Len(name) + 1 /\ At(i) + 1 + (Len(name) + 1) = At(i) + 2 + Len(name)
      BY <1>1, <2>1
    <3> QED BY <2>3, <3>1
  <2>5. \A k \in 1 .. Len(name) : k \in 1 .. Len(name) + 1
    BY <2>1
  <2> QED BY <1>3, <2>3, <2>4, <2>5 DEF Spelled
<1> QED BY <1>2, <1>3 DEF IsUsed, InodeAt

\* mem_copy of a short name stays in its entry.
LEMMA CopyNameAt ==
    ASSUME NEW b \in [Bytes -> Nat], NEW i \in SlotNumbers, NEW name \in Short,
           \A k \in Nat : At(i) + 2 <= k /\ k < At(i) + EntrySize => b[k] = 0
    PROVE  /\ CopyName(b, i, name) \in [Bytes -> Nat]
           /\ Spelled(CopyName(b, i, name), i, name)
           /\ CopyName(b, i, name)[At(i)] = b[At(i)]
           /\ CopyName(b, i, name)[At(i) + 1] = b[At(i) + 1]
           /\ \A j \in SlotNumbers \ {i} : SameEntry(b, CopyName(b, i, name), j)
<1> DEFINE c == CopyName(b, i, name)
<1>1. /\ At(i) \in Nat /\ EntrySize = NameSize + 2 /\ NameSize \in Nat \ {0}
      /\ Len(name) \in 1 .. NameSize - 1 /\ DOMAIN name = 1 .. Len(name)
      /\ \A k \in 1 .. Len(name) : name[k] \in Nat
  BY Layout, NameTypes
<1>2. Bytes \in SUBSET Nat
  BY Layout DEF Bytes
<1>3. \A k \in Bytes : c[k] = IF k - (At(i) + 1) \in 1 .. Len(name) THEN name[k - (At(i) + 1)] ELSE b[k]
  BY <1>1 DEF CopyName
<1>4. c \in [Bytes -> Nat]
  <2>1. \A k \in Bytes : (IF k - (At(i) + 1) \in 1 .. Len(name) THEN name[k - (At(i) + 1)] ELSE b[k]) \in Nat
    BY <1>1
  <2> QED BY <1>1, <2>1 DEF CopyName
<1>5. \A k \in Nat : At(i) <= k /\ k < At(i) + EntrySize => k \in Bytes
  BY Layout
<1> HIDE DEF c
<1>6. c[At(i)] = b[At(i)] /\ c[At(i) + 1] = b[At(i) + 1]
  <2>1. At(i) \in Bytes /\ At(i) + 1 \in Bytes
    BY <1>1, <1>5
  <2>2. At(i) - (At(i) + 1) \notin 1 .. Len(name) /\ (At(i) + 1) - (At(i) + 1) \notin 1 .. Len(name)
    BY <1>1
  <2> QED BY <1>3, <2>1, <2>2
<1>7. ASSUME NEW k \in 1 .. Len(name) PROVE c[At(i) + 1 + k] = name[k]
  <2>1. PICK x \in Nat : x = At(i) + 1 + k
    BY <1>1
  <2>2. At(i) <= x /\ x < At(i) + EntrySize /\ x - (At(i) + 1) = k
    BY <1>1, <2>1
  <2>3. x \in Bytes
    BY <1>5, <2>2
  <2> QED BY <1>3, <2>1, <2>2, <2>3
<1>8. c[At(i) + 2 + Len(name)] = 0
  <2>1. PICK k \in Nat : k = At(i) + 2 + Len(name)
    BY <1>1
  <2>2. k \in Bytes /\ k - (At(i) + 1) \notin 1 .. Len(name) /\ b[k] = 0
    BY <1>1, <1>5, <2>1
  <2>3. c[k] = 0
    BY <1>3, <2>2
  <2> QED BY <2>1, <2>3
<1>9. ASSUME NEW j \in SlotNumbers \ {i} PROVE SameEntry(b, c, j)
  <2> SUFFICES ASSUME NEW k \in Nat, At(j) <= k, k < At(j) + EntrySize PROVE c[k] = b[k]
    BY DEF SameEntry
  <2>1. At(j) \in Nat /\ (At(i) + EntrySize <= At(j) \/ At(j) + EntrySize <= At(i)) /\ k \in Bytes
    BY Layout
  <2>2. k - (At(i) + 1) \notin 1 .. Len(name)
    BY <1>1, <2>1
  <2> QED BY <1>3, <2>1, <2>2
<1>10. Spelled(c, i, name)
  BY <1>7, <1>8 DEF Spelled
<1> QED BY <1>4, <1>6, <1>9, <1>10 DEF c

\* mem_set of all or of the end of an entry.
LEMMA ClearAt ==
    ASSUME NEW b \in [Bytes -> Nat], NEW i \in SlotNumbers, NEW n \in {0, 2}
    PROVE  LET c == Clear(b, At(i) + n, At(i) + EntrySize - 1)
           IN  /\ c \in [Bytes -> Nat]
               /\ \A k \in Nat : At(i) + n <= k /\ k < At(i) + EntrySize => c[k] = 0
               /\ \A k \in Nat : At(i) <= k /\ k < At(i) + n => c[k] = b[k]
               /\ \A j \in SlotNumbers \ {i} : SameEntry(b, c, j)
<1> DEFINE c == Clear(b, At(i) + n, At(i) + EntrySize - 1)
<1>1. At(i) \in Nat /\ EntrySize = NameSize + 2 /\ NameSize \in Nat \ {0} /\ n \in Nat /\ n <= 2
  BY Layout
<1>2. \A k \in Bytes : c[k] = IF k \in At(i) + n .. At(i) + EntrySize - 1 THEN 0 ELSE b[k]
  BY DEF Clear
<1>3. c \in [Bytes -> Nat]
  BY DEF Clear
<1>4. \A k \in Nat : At(i) <= k /\ k < At(i) + EntrySize => k \in Bytes
  BY Layout
<1> HIDE DEF c
<1>5. \A k \in Nat : At(i) + n <= k /\ k < At(i) + EntrySize => c[k] = 0
  BY <1>1, <1>2, <1>4
<1>6. \A k \in Nat : At(i) <= k /\ k < At(i) + n => c[k] = b[k]
  BY <1>1, <1>2, <1>4
<1>7. ASSUME NEW j \in SlotNumbers \ {i} PROVE SameEntry(b, c, j)
  <2> SUFFICES ASSUME NEW k \in Nat, At(j) <= k, k < At(j) + EntrySize PROVE c[k] = b[k]
    BY DEF SameEntry
  <2>1. At(j) \in Nat /\ (At(i) + EntrySize <= At(j) \/ At(j) + EntrySize <= At(i)) /\ k \in Bytes
    BY Layout
  <2> QED BY <1>1, <1>2, <2>1
<1> QED BY <1>3, <1>5, <1>6, <1>7 DEF c

LEMMA ClearEntryAt ==
    ASSUME NEW b \in [Bytes -> Nat], NEW i \in SlotNumbers
    PROVE  /\ ClearEntry(b, i) \in [Bytes -> Nat]
           /\ \A k \in Nat : At(i) <= k /\ k < At(i) + EntrySize => ClearEntry(b, i)[k] = 0
           /\ ~IsUsed(ClearEntry(b, i), i)
           /\ \A j \in SlotNumbers \ {i} : SameEntry(b, ClearEntry(b, i), j)
<1>1. At(i) \in Nat /\ EntrySize = NameSize + 2 /\ NameSize \in Nat \ {0} /\ At(i) + 0 = At(i)
  BY Layout
<1>2. PICK c : c = ClearEntry(b, i)
  OBVIOUS
<1>3. c = Clear(b, At(i) + 0, At(i) + EntrySize - 1)
  BY <1>1, <1>2 DEF ClearEntry
<1>4. /\ c \in [Bytes -> Nat]
      /\ \A k \in Nat : At(i) + 0 <= k /\ k < At(i) + EntrySize => c[k] = 0
      /\ \A j \in SlotNumbers \ {i} : SameEntry(b, c, j)
  BY <1>3, ClearAt
<1>5. c[At(i)] = 0
  BY <1>1, <1>4
<1> QED BY <1>1, <1>2, <1>4, <1>5 DEF IsUsed

\* A new entry.
LEMMA PutEntryAt ==
    ASSUME NEW b \in [Bytes -> Nat], NEW i \in SlotNumbers, NEW inode \in Nat, NEW name \in Short
    PROVE  LET c == PutEntry(b, i, inode, name)
           IN  /\ c \in [Bytes -> Nat]
               /\ IsUsed(c, i) /\ InodeAt(c, i) = inode /\ Spelled(c, i, name)
               /\ \A j \in SlotNumbers \ {i} : SameEntry(b, c, j)
<1>1. PICK a : a = ClearEntry(b, i)
  OBVIOUS
<1>2. PICK d : d = [a EXCEPT ![At(i)] = 1, ![At(i) + 1] = inode]
  OBVIOUS
<1>3. PICK c : c = CopyName(d, i, name)
  OBVIOUS
<1>4. c = PutEntry(b, i, inode, name)
  BY <1>1, <1>2, <1>3 DEF PutEntry
<1>5. At(i) \in Nat /\ EntrySize = NameSize + 2 /\ NameSize \in Nat \ {0}
      /\ At(i) \in Bytes /\ At(i) + 1 \in Bytes /\ Bytes \in SUBSET Nat
  BY Layout DEF Bytes
<1>6. /\ a \in [Bytes -> Nat] /\ \A j \in SlotNumbers \ {i} : SameEntry(b, a, j)
      /\ \A k \in Nat : At(i) <= k /\ k < At(i) + EntrySize => a[k] = 0
  BY <1>1, ClearEntryAt
<1>7. d \in [Bytes -> Nat] /\ d[At(i)] = 1 /\ d[At(i) + 1] = inode
      /\ \A k \in Bytes : k # At(i) /\ k # At(i) + 1 => d[k] = a[k]
  BY <1>2, <1>5, <1>6
<1>8. \A k \in Nat : At(i) + 2 <= k /\ k < At(i) + EntrySize => d[k] = 0
  BY <1>5, <1>6, <1>7, Layout
<1>9. /\ c \in [Bytes -> Nat] /\ Spelled(c, i, name)
      /\ c[At(i)] = d[At(i)] /\ c[At(i) + 1] = d[At(i) + 1]
      /\ \A j \in SlotNumbers \ {i} : SameEntry(d, c, j)
  BY <1>3, <1>7, <1>8, CopyNameAt
<1>10. ASSUME NEW j \in SlotNumbers \ {i} PROVE SameEntry(b, c, j)
  <2> SUFFICES ASSUME NEW k \in Nat, At(j) <= k, k < At(j) + EntrySize PROVE c[k] = b[k]
    BY DEF SameEntry
  <2>1. At(j) \in Nat /\ (At(i) + EntrySize <= At(j) \/ At(j) + EntrySize <= At(i)) /\ k \in Bytes
    BY Layout
  <2>2. k # At(i) /\ k # At(i) + 1
    BY <1>5, <2>1
  <2>3. c[k] = d[k]
    BY <1>9 DEF SameEntry
  <2>4. a[k] = b[k]
    BY <1>6 DEF SameEntry
  <2> QED BY <1>7, <2>1, <2>2, <2>3, <2>4
<1>11. IsUsed(c, i) /\ InodeAt(c, i) = inode
  BY <1>7, <1>9 DEF IsUsed, InodeAt
<1> QED BY <1>4, <1>9, <1>10, <1>11

\* The entry that fs_rename has found.
LEMMA PutNameAt ==
    ASSUME NEW b \in [Bytes -> Nat], NEW i \in SlotNumbers, NEW name \in Short
    PROVE  LET c == PutName(b, i, name)
           IN  /\ c \in [Bytes -> Nat]
               /\ IsUsed(c, i) = IsUsed(b, i) /\ InodeAt(c, i) = InodeAt(b, i) /\ Spelled(c, i, name)
               /\ \A j \in SlotNumbers \ {i} : SameEntry(b, c, j)
<1>1. PICK d : d = Clear(b, At(i) + 2, At(i) + EntrySize - 1)
  OBVIOUS
<1>2. PICK c : c = CopyName(d, i, name)
  OBVIOUS
<1>3. c = PutName(b, i, name)
  BY <1>1, <1>2 DEF PutName
<1>4. At(i) \in Nat /\ EntrySize = NameSize + 2 /\ NameSize \in Nat \ {0}
  BY Layout
<1>5. /\ d \in [Bytes -> Nat] /\ \A j \in SlotNumbers \ {i} : SameEntry(b, d, j)
      /\ \A k \in Nat : At(i) + 2 <= k /\ k < At(i) + EntrySize => d[k] = 0
      /\ \A k \in Nat : At(i) <= k /\ k < At(i) + 2 => d[k] = b[k]
  BY <1>1, ClearAt
<1>6. /\ c \in [Bytes -> Nat] /\ Spelled(c, i, name)
      /\ c[At(i)] = d[At(i)] /\ c[At(i) + 1] = d[At(i) + 1]
      /\ \A j \in SlotNumbers \ {i} : SameEntry(d, c, j)
  BY <1>2, <1>5, CopyNameAt
<1>7. d[At(i)] = b[At(i)] /\ d[At(i) + 1] = b[At(i) + 1]
  BY <1>4, <1>5
<1>8. \A j \in SlotNumbers \ {i} : SameEntry(b, c, j)
  BY <1>5, <1>6 DEF SameEntry
<1>9. IsUsed(c, i) = IsUsed(b, i) /\ InodeAt(c, i) = InodeAt(b, i)
  BY <1>6, <1>7 DEF IsUsed, InodeAt
<1> QED BY <1>3, <1>6, <1>8, <1>9

\* Each entry in use is spelled as one of the files, has its inode, which is
\* in use, and shares neither name nor inode with another; and each file has
\* an entry.
Entered(b, in, known) ==
    /\ b \in [Bytes -> Nat] /\ in \in SUBSET (1 .. MaxInodes - 1)
    /\ DOMAIN known \in SUBSET Short
    /\ \A i \in SlotNumbers : IsUsed(b, i) =>
        \E name \in DOMAIN known :
            Spelled(b, i, name) /\ InodeAt(b, i) = known[name] /\ known[name] \in in
    /\ \A name \in DOMAIN known : \E i \in SlotNumbers : IsUsed(b, i) /\ Spelled(b, i, name)
    /\ \A i, j \in SlotNumbers : IsUsed(b, i) /\ IsUsed(b, j) /\ i # j =>
        InodeAt(b, i) # InodeAt(b, j) /\ \A name \in Short : Spelled(b, i, name) => ~Spelled(b, j, name)

LEMMA SpelledOnce ==
    ASSUME NEW b, NEW i \in SlotNumbers, NEW m \in Short, NEW n \in Short,
           Spelled(b, i, m), Spelled(b, i, n)
    PROVE  m = n
BY SpelledIsName

LEMMA FoundIs ==
    ASSUME Entered(block, used, files), NEW name \in Short
    PROVE  Found(name) = {i \in SlotNumbers : IsUsed(block, i) /\ Spelled(block, i, name)}
<1>1. ASSUME NEW i \in SlotNumbers, IsUsed(block, i), Spelled(block, i, name) PROVE i \in Found(name)
  <2>1. PICK n \in DOMAIN files : Spelled(block, i, n) /\ InodeAt(block, i) = files[n] /\ files[n] \in used
    BY <1>1 DEF Entered
  <2>2. NameAt(block, i) = name
    BY <1>1, SpelledIsName
  <2> QED BY <1>1, <2>1, <2>2 DEF Found
<1>2. ASSUME NEW i \in Found(name) PROVE i \in SlotNumbers /\ IsUsed(block, i) /\ Spelled(block, i, name)
  <2>1. i \in SlotNumbers /\ IsUsed(block, i) /\ NameAt(block, i) = name
    BY DEF Found
  <2>2. PICK n \in DOMAIN files : Spelled(block, i, n)
    BY <2>1 DEF Entered
  <2>3. n \in Short
    BY DEF Entered
  <2>4. n = name
    BY <2>1, <2>2, <2>3, SpelledIsName
  <2> QED BY <2>1, <2>2, <2>4
<1> QED BY <1>1, <1>2

\* A file without an entry is no file, and no entry has the name of one.
LEMMA NotFound ==
    ASSUME Entered(block, used, files), NEW name \in Short, Found(name) = {}
    PROVE  /\ name \notin DOMAIN files
           /\ \A i \in SlotNumbers : IsUsed(block, i) => ~Spelled(block, i, name)
BY FoundIs DEF Entered

LEMMA FoundOne ==
    ASSUME Entered(block, used, files), NEW name \in Short, Found(name) # {}
    PROVE  LET i == Min(Found(name))
           IN  /\ i \in SlotNumbers /\ IsUsed(block, i) /\ Spelled(block, i, name)
               /\ name \in DOMAIN files /\ InodeAt(block, i) = files[name]
<1>1. Found(name) \in SUBSET Nat
  BY FoundIs DEF SlotNumbers
<1>2. PICK i : i = Min(Found(name))
  OBVIOUS
<1>3. i \in Found(name)
  BY <1>1, <1>2, LeastNat
<1>4. i \in SlotNumbers /\ IsUsed(block, i) /\ Spelled(block, i, name)
  BY <1>3, FoundIs
<1>5. PICK n \in DOMAIN files : Spelled(block, i, n) /\ InodeAt(block, i) = files[n]
  BY <1>4 DEF Entered
<1>6. n = name
  <2>1. n \in Short
    BY DEF Entered
  <2> QED BY <1>4, <1>5, <2>1, SpelledOnce
<1> QED BY <1>2, <1>4, <1>5, <1>6

LEMMA Removes ==
    ASSUME NEW b, NEW in, NEW known, Entered(b, in, known),
           NEW i \in SlotNumbers, IsUsed(b, i), NEW name \in DOMAIN known,
           Spelled(b, i, name), InodeAt(b, i) = known[name],
           NEW c \in [Bytes -> Nat], ~IsUsed(c, i), \A j \in SlotNumbers \ {i} : SameEntry(b, c, j)
    PROVE  Entered(c, in \ {known[name]}, [n \in DOMAIN known \ {name} |-> known[n]])
<1>1. PICK rest : rest = [n \in DOMAIN known \ {name} |-> known[n]]
  OBVIOUS
<1>2. DOMAIN rest = DOMAIN known \ {name} /\ \A n \in DOMAIN rest : rest[n] = known[n]
  BY <1>1
<1>3. DOMAIN known \in SUBSET Short /\ in \in SUBSET (1 .. MaxInodes - 1)
  BY DEF Entered
<1>4. ASSUME NEW j \in SlotNumbers, IsUsed(c, j)
      PROVE  j # i /\ IsUsed(b, j) /\ InodeAt(c, j) = InodeAt(b, j)
             /\ \A n \in Short : Spelled(c, j, n) <=> Spelled(b, j, n)
  <2>1. j # i
    BY <1>4
  <2>2. SameEntry(b, c, j) /\ SameEntry(c, b, j)
    BY <2>1 DEF SameEntry
  <2> QED BY <1>4, <2>1, <2>2, SameEntryKeeps
<1>5. ASSUME NEW j \in SlotNumbers, IsUsed(c, j)
      PROVE  \E n \in DOMAIN rest :
                Spelled(c, j, n) /\ InodeAt(c, j) = rest[n] /\ rest[n] \in in \ {known[name]}
  <2>1. j # i /\ IsUsed(b, j) /\ InodeAt(c, j) = InodeAt(b, j)
        /\ \A n \in Short : Spelled(c, j, n) <=> Spelled(b, j, n)
    BY <1>4, <1>5
  <2>2. PICK n \in DOMAIN known : Spelled(b, j, n) /\ InodeAt(b, j) = known[n] /\ known[n] \in in
    BY <2>1 DEF Entered
  <2>3. InodeAt(b, j) # InodeAt(b, i) /\ ~Spelled(b, j, name)
    BY <1>3, <2>1 DEF Entered
  <2> QED BY <1>2, <1>3, <2>1, <2>2, <2>3
<1>6. ASSUME NEW n \in DOMAIN rest PROVE \E j \in SlotNumbers : IsUsed(c, j) /\ Spelled(c, j, n)
  <2>1. n \in DOMAIN known /\ n # name /\ n \in Short /\ name \in Short
    BY <1>2, <1>3
  <2>2. PICK j \in SlotNumbers : IsUsed(b, j) /\ Spelled(b, j, n)
    BY <2>1 DEF Entered
  <2>3. j # i
    BY <2>1, <2>2, SpelledOnce
  <2>4. SameEntry(b, c, j)
    BY <2>3
  <2> QED BY <2>1, <2>2, <2>4, SameEntryKeeps
<1>7. ASSUME NEW j \in SlotNumbers, NEW k \in SlotNumbers, IsUsed(c, j), IsUsed(c, k), j # k
      PROVE  InodeAt(c, j) # InodeAt(c, k) /\ \A n \in Short : Spelled(c, j, n) => ~Spelled(c, k, n)
  <2>1. InodeAt(b, j) # InodeAt(b, k) /\ \A n \in Short : Spelled(b, j, n) => ~Spelled(b, k, n)
    BY <1>4, <1>7 DEF Entered
  <2> QED BY <1>4, <1>7, <2>1
<1>8. DOMAIN rest \in SUBSET Short /\ in \ {known[name]} \in SUBSET (1 .. MaxInodes - 1)
  BY <1>2, <1>3
<1>9. Entered(c, in \ {known[name]}, rest)
  BY <1>5, <1>6, <1>7, <1>8 DEF Entered
<1> QED BY <1>1, <1>9

LEMMA Stores ==
    ASSUME NEW b, NEW in, NEW known, Entered(b, in, known),
           NEW i \in SlotNumbers, ~IsUsed(b, i), NEW name \in Short, name \notin DOMAIN known,
           NEW inode \in 1 .. MaxInodes - 1, inode \notin in,
           NEW c \in [Bytes -> Nat], IsUsed(c, i), InodeAt(c, i) = inode, Spelled(c, i, name),
           \A j \in SlotNumbers \ {i} : SameEntry(b, c, j)
    PROVE  Entered(c, in \union {inode}, With(known, name, inode))
<1>1. PICK all : all = With(known, name, inode)
  OBVIOUS
<1>2. DOMAIN all = DOMAIN known \union {name} /\ all[name] = inode
      /\ \A n \in DOMAIN known : all[n] = known[n]
  BY <1>1 DEF With
<1>3. DOMAIN known \in SUBSET Short /\ in \in SUBSET (1 .. MaxInodes - 1)
  BY DEF Entered
<1>4. ASSUME NEW j \in SlotNumbers, j # i
      PROVE  /\ IsUsed(c, j) <=> IsUsed(b, j)
             /\ InodeAt(c, j) = InodeAt(b, j)
             /\ \A n \in Short : Spelled(c, j, n) <=> Spelled(b, j, n)
  <2>1. SameEntry(b, c, j) /\ SameEntry(c, b, j)
    BY <1>4 DEF SameEntry
  <2> QED BY <2>1, SameEntryKeeps
<1>5. ASSUME NEW j \in SlotNumbers, j # i, IsUsed(c, j)
      PROVE  /\ \E n \in DOMAIN known :
                   Spelled(c, j, n) /\ InodeAt(c, j) = all[n] /\ all[n] \in in
             /\ ~Spelled(c, j, name) /\ InodeAt(c, j) # inode
  <2>1. IsUsed(b, j)
    BY <1>4, <1>5
  <2>2. PICK n \in DOMAIN known : Spelled(b, j, n) /\ InodeAt(b, j) = known[n] /\ known[n] \in in
    BY <2>1 DEF Entered
  <2>3. n \in Short /\ Spelled(c, j, n)
    BY <1>3, <1>4, <1>5, <2>2
  <2>4. ~Spelled(c, j, name)
    BY <2>3, SpelledOnce
  <2>5. InodeAt(c, j) = all[n] /\ all[n] \in in
    BY <1>2, <1>4, <1>5, <2>2
  <2> QED BY <2>3, <2>4, <2>5
<1>6. ASSUME NEW j \in SlotNumbers, IsUsed(c, j)
      PROVE  \E n \in DOMAIN all :
                Spelled(c, j, n) /\ InodeAt(c, j) = all[n] /\ all[n] \in in \union {inode}
  <2>1. CASE j = i
    BY <1>2, <2>1
  <2>2. CASE j # i
    BY <1>2, <1>5, <1>6, <2>2
  <2> QED BY <2>1, <2>2
<1>7. ASSUME NEW n \in DOMAIN all PROVE \E j \in SlotNumbers : IsUsed(c, j) /\ Spelled(c, j, n)
  <2>1. CASE n = name
    BY <2>1
  <2>2. CASE n # name
    <3>1. n \in DOMAIN known /\ n \in Short
      BY <1>2, <1>3, <2>2
    <3>2. PICK j \in SlotNumbers : IsUsed(b, j) /\ Spelled(b, j, n)
      BY <3>1 DEF Entered
    <3>3. j # i
      BY <3>2
    <3> QED BY <1>4, <3>1, <3>2, <3>3
  <2> QED BY <2>1, <2>2
<1>8. ASSUME NEW j \in SlotNumbers, NEW k \in SlotNumbers, IsUsed(c, j), IsUsed(c, k), j # k
      PROVE  InodeAt(c, j) # InodeAt(c, k) /\ \A n \in Short : Spelled(c, j, n) => ~Spelled(c, k, n)
  <2>1. CASE j = i
    <3>1. ~Spelled(c, k, name) /\ InodeAt(c, k) # inode
      BY <1>5, <1>8, <2>1
    <3>2. \A n \in Short : Spelled(c, j, n) => n = name
      BY <2>1, SpelledOnce
    <3> QED BY <2>1, <3>1, <3>2
  <2>2. CASE k = i
    <3>1. ~Spelled(c, j, name) /\ InodeAt(c, j) # inode
      BY <1>5, <1>8, <2>2
    <3>2. \A n \in Short : Spelled(c, k, n) => n = name
      BY <2>2, SpelledOnce
    <3> QED BY <2>2, <3>1, <3>2
  <2>3. CASE j # i /\ k # i
    <3>1. IsUsed(b, j) /\ IsUsed(b, k)
      BY <1>4, <1>8, <2>3
    <3>2. InodeAt(b, j) # InodeAt(b, k) /\ \A n \in Short : Spelled(b, j, n) => ~Spelled(b, k, n)
      BY <1>8, <3>1 DEF Entered
    <3> QED BY <1>4, <2>3, <3>2
  <2> QED BY <2>1, <2>2, <2>3
<1>9. DOMAIN all \in SUBSET Short /\ in \union {inode} \in SUBSET (1 .. MaxInodes - 1)
  BY <1>2, <1>3
<1>10. Entered(c, in \union {inode}, all)
  BY <1>6, <1>7, <1>8, <1>9 DEF Entered
<1> QED BY <1>1, <1>10

LEMMA StoreEntered ==
    ASSUME Entered(block, used, files), NEW name \in Short, Store(name)
    PROVE  Entered(block', used', files')
<1>1. PICK inode \in (1 .. MaxInodes - 1) \ used :
        /\ block' = PutEntry(block, Min({i \in SlotNumbers : ~IsUsed(block, i)}), inode, name)
        /\ used' = used \union {inode} /\ files' = With(files, name, inode)
  BY DEF Store
<1>2. PICK i : i = Min({k \in SlotNumbers : ~IsUsed(block, k)})
  OBVIOUS
<1>3. i \in SlotNumbers /\ ~IsUsed(block, i)
  <2>1. {k \in SlotNumbers : ~IsUsed(block, k)} # {}
    BY DEF Store
  <2>2. {k \in SlotNumbers : ~IsUsed(block, k)} \in SUBSET Nat
    BY DEF SlotNumbers
  <2>3. i \in {k \in SlotNumbers : ~IsUsed(block, k)}
    BY <1>2, <2>1, <2>2, LeastNat
  <2> QED BY <2>3
<1>4. name \notin DOMAIN files
  BY NotFound DEF Store
<1>5. block \in [Bytes -> Nat] /\ inode \in Nat /\ inode \in 1 .. MaxInodes - 1 /\ inode \notin used
  BY <1>1 DEF Entered
<1>6. /\ block' \in [Bytes -> Nat]
      /\ IsUsed(block', i) /\ InodeAt(block', i) = inode /\ Spelled(block', i, name)
      /\ \A j \in SlotNumbers \ {i} : SameEntry(block, block', j)
  <2>1. block' = PutEntry(block, i, inode, name)
    BY <1>1, <1>2
  <2> QED BY <1>3, <1>5, <2>1, PutEntryAt
<1> QED BY <1>1, <1>3, <1>4, <1>5, <1>6, Stores

LEMMA RemoveEntered ==
    ASSUME Entered(block, used, files), NEW name \in Short, remove_entry_from_dir(name)
    PROVE  Entered(block', used', files')
<1>1. PICK i : i = Min(Found(name))
  OBVIOUS
<1>2. /\ block' = ClearEntry(block, i) /\ used' = used \ {InodeAt(block, i)}
      /\ files' = [n \in DOMAIN files \ {name} |-> files[n]]
  BY <1>1 DEF remove_entry_from_dir, Without
<1>3. /\ i \in SlotNumbers /\ IsUsed(block, i) /\ Spelled(block, i, name)
      /\ name \in DOMAIN files /\ InodeAt(block, i) = files[name]
  BY <1>1, FoundOne DEF remove_entry_from_dir
<1>4. block \in [Bytes -> Nat]
  BY DEF Entered
<1>5. /\ block' \in [Bytes -> Nat] /\ ~IsUsed(block', i)
      /\ \A j \in SlotNumbers \ {i} : SameEntry(block, block', j)
  BY <1>2, <1>3, <1>4, ClearEntryAt
<1> QED BY <1>2, <1>3, <1>5, Removes

\* What fs_rename does to the entry is to remove it and to store it under the
\* new name.
LEMMA RenameEntered ==
    ASSUME Entered(block, used, files), NEW from \in Short, NEW to \in Short, Rename(from, to)
    PROVE  Entered(block', used', files')
<1>1. PICK i : i = Min(Found(from))
  OBVIOUS
<1>2. PICK inode : inode = InodeAt(block, i)
  OBVIOUS
<1>3. block' = PutName(block, i, to) /\ files' = With(Without(from), to, inode) /\ used' = used
  BY <1>1, <1>2 DEF Rename
<1>4. /\ i \in SlotNumbers /\ IsUsed(block, i) /\ Spelled(block, i, from)
      /\ from \in DOMAIN files /\ inode = files[from]
  BY <1>1, <1>2, FoundOne DEF Rename
<1>5. block \in [Bytes -> Nat] /\ used \in SUBSET (1 .. MaxInodes - 1)
  BY DEF Entered
<1>6. to \notin DOMAIN files
  BY NotFound DEF Rename
<1>7. inode \in used
  <2>1. PICK n \in DOMAIN files : Spelled(block, i, n) /\ InodeAt(block, i) = files[n] /\ files[n] \in used
    BY <1>4 DEF Entered
  <2> QED BY <1>2, <2>1
<1>8. PICK c : c = ClearEntry(block, i)
  OBVIOUS
<1>9. /\ c \in [Bytes -> Nat] /\ ~IsUsed(c, i)
      /\ \A j \in SlotNumbers \ {i} : SameEntry(block, c, j)
  BY <1>4, <1>5, <1>8, ClearEntryAt
<1>10. PICK rest : rest = Without(from)
  OBVIOUS
<1>11. rest = [n \in DOMAIN files \ {from} |-> files[n]] /\ to \notin DOMAIN rest
  BY <1>6, <1>10 DEF Without
<1>12. Entered(c, used \ {inode}, rest)
  <2>1. InodeAt(block, i) = files[from]
    BY <1>2, <1>4
  <2>2. Entered(c, used \ {files[from]}, [n \in DOMAIN files \ {from} |-> files[n]])
    BY <1>4, <1>9, <2>1, Removes
  <2> QED BY <1>4, <1>11, <2>2
<1>13. /\ block' \in [Bytes -> Nat] /\ IsUsed(block', i) /\ InodeAt(block', i) = inode
       /\ Spelled(block', i, to)
       /\ \A j \in SlotNumbers \ {i} : SameEntry(block, block', j)
  BY <1>2, <1>3, <1>4, <1>5, PutNameAt
<1>14. \A j \in SlotNumbers \ {i} : SameEntry(c, block', j)
  BY <1>9, <1>13 DEF SameEntry
<1>15. inode \in 1 .. MaxInodes - 1 /\ inode \notin used \ {inode}
  BY <1>5, <1>7
<1>16. Entered(block', (used \ {inode}) \union {inode}, With(rest, to, inode))
  <2>1. PICK in : in = used \ {inode}
    OBVIOUS
  <2>2. Entered(c, in, rest) /\ inode \notin in /\ to \notin DOMAIN rest
    BY <1>11, <1>12, <1>15, <2>1
  <2>3. Entered(block', in \union {inode}, With(rest, to, inode))
    BY <1>4, <1>9, <1>13, <1>14, <1>15, <2>2, Stores
  <2> QED BY <2>1, <2>3
<1>17. (used \ {inode}) \union {inode} = used
  BY <1>7
<1> QED BY <1>3, <1>10, <1>16, <1>17

LEMMA BlockSteps == [LineNext]_lineVars => [BlockNext]_blockVars
BY DEF LineNext, lineVars

\* mem_copy and str_equals, as long as no name reaches the end of its entry
\* (which fs_write_path does not look at): the block of a directory is its
\* entries, each found under its name, after any calls.
THEOREM BlockHoldsItsEntries ==
    (\A name \in InPaths : ~TooLong(name)) /\ LineSpec => []BytesAreEntries
<1> SUFFICES ASSUME \A name \in InPaths : ~TooLong(name)
             PROVE  LineSpec => []BytesAreEntries
  OBVIOUS
<1> DEFINE Inv == Entered(block, used, files)
<1>1. LineInit => Inv
  <2> SUFFICES ASSUME LineInit PROVE Inv
    OBVIOUS
  <2>1. block = [k \in Bytes |-> 0] /\ used = {} /\ files = <<>>
    BY DEF LineInit, BlockInit
  <2>2. DOMAIN files = {}
    BY <2>1
  <2>3. \A i \in SlotNumbers : ~IsUsed(block, i)
    <3>1. \A i \in SlotNumbers : At(i) \in Bytes
      BY Layout
    <3> QED BY <2>1, <3>1 DEF IsUsed
  <2>4. block \in [Bytes -> Nat]
    BY <2>1
  <2> QED BY <2>1, <2>2, <2>3, <2>4 DEF Entered
<1>2. Inv /\ [LineNext]_lineVars => Inv'
  <2> SUFFICES ASSUME Inv, BlockNext PROVE Inv'
    BY BlockSteps DEF blockVars
  <2>1. ASSUME NEW name \in Plain, Write(name) PROVE Inv'
    <3>1. name \in Short /\ Store(name)
      BY <2>1 DEF Write, Short
    <3> QED BY <3>1, StoreEntered
  <2>2. ASSUME NEW name \in InPaths, WritePath(name) PROVE Inv'
    <3>1. name \in Short /\ Store(name)
      BY <2>2 DEF WritePath, Short
    <3> QED BY <3>1, StoreEntered
  <2>3. ASSUME NEW name \in Plain, NEW to \in Plain, Rename(name, to) PROVE Inv'
    <3>1. name \in Short /\ to \in Short
      BY <2>3 DEF Rename, Short
    <3> QED BY <2>3, <3>1, RenameEntered
  <2>4. ASSUME NEW name \in Plain \union InPaths, remove_entry_from_dir(name) PROVE Inv'
    <3>1. CASE name \in Short
      BY <2>4, <3>1, RemoveEntered
    <3>2. CASE name \notin Short
      <4>1. PICK i \in Found(name) : TRUE
        BY <2>4 DEF remove_entry_from_dir
      <4>2. IsUsed(block, i) /\ i \in SlotNumbers /\ NameAt(block, i) = name
        BY <4>1 DEF Found
      <4>3. PICK n \in DOMAIN files : Spelled(block, i, n)
        BY <4>2 DEF Entered
      <4>4. n \in Short
        BY DEF Entered
      <4> QED BY <3>2, <4>2, <4>3, <4>4, SpelledIsName
    <3> QED BY <3>1, <3>2
  <2> QED BY <2>1, <2>2, <2>3, <2>4 DEF BlockNext
<1>3. Inv => BytesAreEntries
  <2> SUFFICES ASSUME Inv PROVE BytesAreEntries
    OBVIOUS
  <2>1. ASSUME NEW i \in SlotNumbers, IsUsed(block, i)
        PROVE  \E name \in DOMAIN files :
                  <<NameAt(block, i), InodeAt(block, i)>> = <<name, files[name]>>
    <3>1. PICK name \in DOMAIN files : Spelled(block, i, name) /\ InodeAt(block, i) = files[name]
      BY <2>1 DEF Entered
    <3>2. name \in Short
      BY DEF Entered
    <3>3. NameAt(block, i) = name
      BY <3>1, <3>2, SpelledIsName
    <3> QED BY <3>1, <3>3
  <2>2. ASSUME NEW name \in DOMAIN files
        PROVE  \E i \in SlotNumbers :
                  /\ IsUsed(block, i) /\ <<NameAt(block, i), InodeAt(block, i)>> = <<name, files[name]>>
                  /\ Found(name) = {i}
    <3>1. name \in Short
      BY DEF Entered
    <3>2. PICK i \in SlotNumbers : IsUsed(block, i) /\ Spelled(block, i, name)
      BY DEF Entered
    <3>3. NameAt(block, i) = name
      BY <3>1, <3>2, SpelledIsName
    <3>4. PICK n \in DOMAIN files : Spelled(block, i, n) /\ InodeAt(block, i) = files[n]
      BY <3>2 DEF Entered
    <3>5. n = name
      <4>1. n \in Short
        BY DEF Entered
      <4> QED BY <3>1, <3>2, <3>4, <4>1, SpelledOnce
    <3>6. Found(name) = {j \in SlotNumbers : IsUsed(block, j) /\ Spelled(block, j, name)}
      BY <3>1, FoundIs
    <3>7. \A j \in SlotNumbers : IsUsed(block, j) /\ Spelled(block, j, name) => j = i
      BY <3>1, <3>2 DEF Entered
    <3>8. Found(name) = {i}
      BY <3>2, <3>6, <3>7
    <3> QED BY <3>2, <3>3, <3>4, <3>5, <3>8
  <2>3. \A name \in DOMAIN files : \E i \in Found(name) : Found(name) = {i}
    BY <2>2
  <2> HIDE DEF Inv
  <2> QED BY <2>1, <2>2, <2>3 DEF BytesAreEntries
<1> QED BY <1>1, <1>2, <1>3, PTL DEF LineSpec

-----------------------------------------------------------------------------
(* The screen *)

Glyphs == STRING \union {Blank, "a", "A", "2"}
Screens == [cell : [Cells -> Glyphs], cursor : Cells]

LEMMA ScreenFields ==
    /\ \A s \in Screens : s.cell \in [Cells -> Glyphs] /\ s.cursor \in Cells
    /\ \A x, n : [cell |-> x, cursor |-> n].cell = x /\ [cell |-> x, cursor |-> n].cursor = n
    /\ \A x \in [Cells -> Glyphs], n \in Cells : [cell |-> x, cursor |-> n] \in Screens
BY DEF Screens

LEMMA DivMod ==
    ASSUME NEW x \in Nat, NEW m \in Nat \ {0}
    PROVE  x = m * (x \div m) + (x % m) /\ x \div m \in Nat /\ x % m \in 0 .. m - 1
OBVIOUS

LEMMA SizeIs ==
    /\ Width \in Nat \ {0} /\ Size \in Nat \ {0} /\ Width <= Size
    /\ (Height - 1) * Width = Size - Width
    /\ Cells \in SUBSET Nat /\ \A n \in Nat : n \in Cells <=> n < Size
    /\ \A n \in Cells : LET next == (n \div Width + 1) * Width
                        IN  next \in Nat /\ n < next /\ next <= Size
<1>1. Width \in Nat \ {0} /\ Height \in Nat \ {0}
  BY ConsoleAssumption
<1>2. PICK h \in Nat : Height = h + 1
  <2>1. Height - 1 \in Nat /\ Height = (Height - 1) + 1
    BY <1>1
  <2> QED BY <2>1
<1>3. h * Width \in Nat /\ Width * (h + 1) = h * Width + Width
  BY <1>1
<1>4. Size = h * Width + Width /\ (Height - 1) * Width = h * Width
  BY <1>1, <1>2, <1>3 DEF Size
<1>5. Size \in Nat \ {0} /\ Width <= Size /\ (Height - 1) * Width = Size - Width
  BY <1>1, <1>3, <1>4
<1>6. Cells \in SUBSET Nat /\ \A n \in Nat : n \in Cells <=> n < Size
  BY <1>5 DEF Cells
<1>7. ASSUME NEW n \in Cells
      PROVE  LET next == (n \div Width + 1) * Width
             IN  next \in Nat /\ n < next /\ next <= Size
  <2>1. n \in Nat /\ n < Size
    BY <1>6
  <2>2. PICK d \in Nat, m \in Nat : d = n \div Width /\ n = d * Width + m /\ m < Width
    <3>1. /\ n = Width * (n \div Width) + (n % Width)
          /\ n \div Width \in Nat /\ n % Width \in 0 .. Width - 1
      BY <1>1, <2>1, DivMod
    <3>2. Width * (n \div Width) = (n \div Width) * Width
      BY <1>1, <3>1
    <3>3. n % Width \in Nat /\ n % Width < Width
      BY <1>1, <3>1
    <3>4. n = (n \div Width) * Width + (n % Width)
      BY <3>1, <3>2
    <3>5. n \div Width \in Nat
      BY <3>1
    <3> QED BY <3>3, <3>4, <3>5
  <2>3. d * Width \in Nat /\ (d + 1) * Width = d * Width + Width
    BY <1>1
  <2>4. d <= h
    <3> SUFFICES ASSUME h + 1 <= d PROVE FALSE
      BY <1>2
    <3>1. PICK e \in Nat : d = h + 1 + e
      <4>1. d - (h + 1) \in Nat /\ d = h + 1 + (d - (h + 1))
        OBVIOUS
      <4> QED BY <4>1
    <3>2. d * Width = h * Width + Width + e * Width /\ e * Width >= 0
      BY <1>1, <3>1
    <3> QED BY <1>1, <1>3, <1>4, <2>1, <2>2, <2>3, <3>2
  <2>5. PICK e \in Nat : h = d + e
    <3>1. h - d \in Nat /\ h = d + (h - d)
      BY <2>4
    <3> QED BY <3>1
  <2>6. h * Width = d * Width + e * Width /\ e * Width \in Nat
    BY <1>1, <2>5
  <2> QED BY <1>1, <1>4, <2>2, <2>3, <2>6
<1> QED BY <1>1, <1>5, <1>6, <1>7

\* From the cursor on the screen is blank.
BlankFrom(s) == \A i \in Cells : s.cursor <= i => s.cell[i] = Blank

\* Up to the cursor it shows the first n characters of text.
ShowsText(s, text, n) ==
    /\ n <= s.cursor
    /\ \A i \in Cells : s.cursor - n <= i /\ i < s.cursor => s.cell[i] = text[i - (s.cursor - n) + 1]

LEMMA ScrollIs ==
    ASSUME NEW cell \in [Cells -> Glyphs],
           \A i \in Cells : Size - Width <= i => i + Width \notin Cells
    PROVE  LET t == scroll([cell |-> cell, cursor |-> Size])
           IN  /\ t \in Screens /\ t.cursor = Size - Width /\ BlankFrom(t)
               /\ \A i \in Cells : i < Size - Width => i + Width \in Cells /\ t.cell[i] = cell[i + Width]
<1>1. Width \in Nat \ {0} /\ Size \in Nat \ {0} /\ Width <= Size
      /\ Cells \in SUBSET Nat /\ \A n \in Nat : n \in Cells <=> n < Size
  BY SizeIs
<1>2. PICK t : t = scroll([cell |-> cell, cursor |-> Size])
  OBVIOUS
<1>3. t = [cell |-> [i \in Cells |-> IF i + Width \in Cells THEN cell[i + Width] ELSE Blank],
           cursor |-> Size - Width]
  BY <1>2 DEF scroll
<1>4. [i \in Cells |-> IF i + Width \in Cells THEN cell[i + Width] ELSE Blank] \in [Cells -> Glyphs]
  BY DEF Glyphs
<1>5. Size - Width \in Cells
  BY <1>1
<1>6. t \in Screens /\ t.cursor = Size - Width
      /\ \A i \in Cells : t.cell[i] = IF i + Width \in Cells THEN cell[i + Width] ELSE Blank
  BY <1>3, <1>4, <1>5, ScreenFields
<1>7. BlankFrom(t)
  BY <1>6 DEF BlankFrom
<1>8. \A i \in Cells : i < Size - Width => i + Width \in Cells
  BY <1>1
<1> QED BY <1>2, <1>6, <1>7, <1>8

\* A new row: the screen is left as it is, or scrolled.
LEMMA NewlineIs ==
    ASSUME NEW s \in Screens, BlankFrom(s)
    PROVE  put_char(s, Newline) \in Screens /\ BlankFrom(put_char(s, Newline))
<1>1. PICK next : next = (s.cursor \div Width + 1) * Width
  OBVIOUS
<1>2. /\ Width \in Nat \ {0} /\ Size \in Nat \ {0} /\ Width <= Size
      /\ Cells \in SUBSET Nat /\ \A n \in Nat : n \in Cells <=> n < Size
  BY SizeIs
<1>3. s.cell \in [Cells -> Glyphs] /\ s.cursor \in Cells
  BY ScreenFields
<1>4. next \in Nat /\ s.cursor < next /\ next <= Size
  BY <1>1, <1>3, SizeIs
<1>5. PICK p : p = [cell |-> s.cell, cursor |-> next]
  OBVIOUS
<1>6. Placed(s, Newline) = p
  <2>1. PICK at \in Cells, cell \in [Cells -> Glyphs] : at = s.cursor /\ cell = s.cell
    BY <1>3
  <2>2. s = [cell |-> cell, cursor |-> at]
    BY <2>1 DEF Screens
  <2>3. \A v : [s EXCEPT !.cursor = v] = [cell |-> cell, cursor |-> v]
    BY <2>2
  <2>4. Placed(s, Newline) = [s EXCEPT !.cursor = (s.cursor \div Width + 1) * Width]
    <3>1. Newline # Erase
      BY DEF Erase, Newline
    <3> QED BY <3>1 DEF Placed
  <2> QED BY <1>1, <1>5, <2>1, <2>3, <2>4, Zenon
<1>7. p.cell = s.cell /\ p.cursor = next
  BY <1>5
<1>8. CASE next = Size
  <2>1. put_char(s, Newline) = scroll([cell |-> s.cell, cursor |-> Size])
    BY <1>2, <1>5, <1>6, <1>7, <1>8 DEF put_char
  <2>2. \A i \in Cells : Size - Width <= i => i + Width \notin Cells
    BY <1>2
  <2> QED BY <1>3, <2>1, <2>2, ScrollIs
<1>9. CASE next # Size
  <2>1. put_char(s, Newline) = p /\ next \in Cells
    BY <1>2, <1>4, <1>6, <1>7, <1>9 DEF put_char
  <2>2. p \in Screens
    BY <1>3, <1>5, <2>1, ScreenFields
  <2>3. ASSUME NEW i \in Cells, next <= i PROVE s.cell[i] = Blank
    <3>1. PICK at \in Nat : at = s.cursor
      BY <1>2, <1>3
    <3>2. at <= i
      BY <1>2, <1>4, <2>3, <3>1
    <3> QED BY <3>1, <3>2 DEF BlankFrom
  <2>4. BlankFrom(p)
    BY <1>7, <2>3 DEF BlankFrom
  <2> QED BY <2>1, <2>2, <2>4
<1> QED BY <1>8, <1>9

\* A character that is erased.
LEMMA EraseIs ==
    ASSUME NEW s \in Screens, BlankFrom(s)
    PROVE  /\ put_char(s, Erase) \in Screens /\ BlankFrom(put_char(s, Erase))
           /\ \A text : \A n \in Nat :
                ShowsText(s, text, n + 1) => ShowsText(put_char(s, Erase), text, n)
<1>1. PICK t : t = put_char(s, Erase)
  OBVIOUS
<1>2. Size \in Nat \ {0} /\ Cells \in SUBSET Nat /\ \A n \in Nat : n \in Cells <=> n < Size
  BY SizeIs
<1>3. PICK at \in Cells, cell \in [Cells -> Glyphs] : at = s.cursor /\ cell = s.cell
  BY ScreenFields
<1>4. Erase # Newline
  BY DEF Erase, Newline
<1>5. CASE at = 0
  <2>1. Placed(s, Erase) = s
    BY <1>3, <1>4, <1>5 DEF Placed
  <2>2. ~(s.cursor >= Size)
    BY <1>2, <1>3, <1>5
  <2>3. t = s
    BY <1>1, <2>1, <2>2 DEF put_char
  <2>4. \A text : \A n \in Nat : ~ShowsText(s, text, n + 1)
    BY <1>3, <1>5 DEF ShowsText
  <2> QED BY <1>1, <2>3, <2>4
<1>6. CASE at # 0
  <2>1. PICK now \in Cells : now = at - 1 /\ ~(now >= Size)
    BY <1>2, <1>6
  <2>2. PICK new : new = [cell EXCEPT ![now] = Blank]
    OBVIOUS
  <2>3. PICK p : p = [cell |-> new, cursor |-> now]
    OBVIOUS
  <2>4. Placed(s, Erase) = p
    BY <1>3, <1>4, <1>6, <2>1, <2>2, <2>3 DEF Placed
  <2>5. p.cursor = now /\ p.cell = new
    BY <2>3
  <2>6. new \in [Cells -> Glyphs] /\ \A i \in Cells : new[i] = IF i = now THEN Blank ELSE cell[i]
    BY <2>2 DEF Glyphs
  <2>7. t = p
    BY <1>1, <2>1, <2>4, <2>5 DEF put_char
  <2>8. p \in Screens
    BY <2>3, <2>6, ScreenFields
  <2>9. BlankFrom(p)
    <3> SUFFICES ASSUME NEW i \in Cells, now <= i PROVE new[i] = Blank
      BY <2>5 DEF BlankFrom
    <3>1. CASE i = now
      BY <2>6, <3>1
    <3>2. CASE i # now
      <4>1. at <= i
        BY <1>2, <2>1, <3>2
      <4> QED BY <1>3, <2>6, <3>2, <4>1 DEF BlankFrom
    <3> QED BY <3>1, <3>2
  <2>10. ASSUME NEW text, NEW n \in Nat, ShowsText(s, text, n + 1) PROVE ShowsText(p, text, n)
    <3>1. n + 1 <= at /\ at - (n + 1) = now - n /\ n <= now
      BY <1>2, <1>3, <2>1, <2>10 DEF ShowsText
    <3> SUFFICES ASSUME NEW i \in Cells, now - n <= i, i < now
                 PROVE  new[i] = text[i - (now - n) + 1]
      BY <2>5, <3>1 DEF ShowsText
    <3>2. i < at /\ i # now
      BY <1>2, <2>1
    <3>3. cell[i] = text[i - (at - (n + 1)) + 1]
      BY <1>3, <2>10, <3>1, <3>2 DEF ShowsText
    <3> QED BY <2>6, <3>1, <3>2, <3>3
  <2> QED BY <1>1, <2>7, <2>8, <2>9, <2>10
<1> QED BY <1>5, <1>6

\* A character that prints.
LEMMA PrintedIs ==
    ASSUME NEW s \in Screens, BlankFrom(s), NEW c \in Glyphs, c # Newline, c # Erase
    PROVE  /\ put_char(s, c) \in Screens /\ BlankFrom(put_char(s, c))
           /\ \A text : \A n \in Nat :
                ShowsText(s, text, n) /\ text[n + 1] = c /\ n + 1 <= Size - Width
                    => ShowsText(put_char(s, c), text, n + 1)
<1>1. PICK t : t = put_char(s, c)
  OBVIOUS
<1>2. /\ Width \in Nat \ {0} /\ Size \in Nat \ {0} /\ Width <= Size
      /\ Cells \in SUBSET Nat /\ \A n \in Nat : n \in Cells <=> n < Size
  BY SizeIs
<1>3. PICK at \in Cells, old \in [Cells -> Glyphs] : at = s.cursor /\ old = s.cell
  BY ScreenFields
<1>4. PICK cell : cell = [old EXCEPT ![at] = c]
  OBVIOUS
<1>5. PICK p : p = [cell |-> cell, cursor |-> at + 1]
  OBVIOUS
<1>6. Placed(s, c) = p /\ p.cell = cell /\ p.cursor = at + 1
  BY <1>3, <1>4, <1>5 DEF Placed
<1>7. cell \in [Cells -> Glyphs] /\ \A i \in Cells : cell[i] = IF i = at THEN c ELSE old[i]
  BY <1>3, <1>4
<1>8. CASE at + 1 = Size
  <2>1. t = scroll([cell |-> cell, cursor |-> Size])
    BY <1>1, <1>2, <1>5, <1>6, <1>8 DEF put_char
  <2>2. \A i \in Cells : Size - Width <= i => i + Width \notin Cells
    BY <1>2
  <2>3. /\ t \in Screens /\ t.cursor = Size - Width /\ BlankFrom(t)
        /\ \A i \in Cells : i < Size - Width => i + Width \in Cells /\ t.cell[i] = cell[i + Width]
    BY <1>7, <2>1, <2>2, ScrollIs
  <2>4. ASSUME NEW text, NEW n \in Nat, ShowsText(s, text, n), text[n + 1] = c, n + 1 <= Size - Width
        PROVE  ShowsText(t, text, n + 1)
    <3>1. PICK now \in Nat : now = Size - Width /\ now = t.cursor
      BY <1>2, <2>3
    <3> SUFFICES ASSUME NEW i \in Cells, now - (n + 1) <= i, i < now
                 PROVE  t.cell[i] = text[i - (now - (n + 1)) + 1]
      BY <2>4, <3>1 DEF ShowsText
    <3>2. PICK k \in Cells : k = i + Width /\ t.cell[i] = cell[k]
      BY <2>3, <3>1
    <3>3. at - n <= k /\ k <= at /\ k - (at - n) + 1 = i - (now - (n + 1)) + 1
      BY <1>2, <1>8, <3>1, <3>2
    <3>4. CASE k = at
      <4>1. k - (at - n) + 1 = n + 1
        BY <1>2, <3>4
      <4> QED BY <1>7, <2>4, <3>2, <3>3, <3>4, <4>1
    <3>5. CASE k # at
      <4>1. k < at
        BY <1>2, <3>3, <3>5
      <4>2. old[k] = text[k - (at - n) + 1]
        BY <1>3, <2>4, <3>3, <4>1 DEF ShowsText
      <4> QED BY <1>7, <3>2, <3>3, <3>5, <4>2
    <3> QED BY <3>4, <3>5
  <2> QED BY <1>1, <2>3, <2>4
<1>9. CASE at + 1 # Size
  <2>1. PICK now \in Cells : now = at + 1 /\ ~(now >= Size)
    BY <1>2, <1>9
  <2>2. t = p
    BY <1>1, <1>6, <2>1 DEF put_char
  <2>3. p \in Screens
    BY <1>5, <1>7, <2>1, ScreenFields
  <2>4. BlankFrom(p)
    <3> SUFFICES ASSUME NEW i \in Cells, now <= i PROVE cell[i] = Blank
      BY <1>6, <2>1 DEF BlankFrom
    <3>1. at <= i /\ i # at
      BY <1>2, <2>1
    <3> QED BY <1>3, <1>7, <3>1 DEF BlankFrom
  <2>5. ASSUME NEW text, NEW n \in Nat, ShowsText(s, text, n), text[n + 1] = c
        PROVE  ShowsText(p, text, n + 1)
    <3>1. now - (n + 1) = at - n /\ n + 1 <= now
      BY <1>2, <1>3, <2>1, <2>5 DEF ShowsText
    <3> SUFFICES ASSUME NEW i \in Cells, now - (n + 1) <= i, i < now
                 PROVE  cell[i] = text[i - (now - (n + 1)) + 1]
      BY <1>6, <2>1, <3>1 DEF ShowsText
    <3>2. CASE i = at
      <4>1. i - (at - n) + 1 = n + 1
        BY <1>2, <3>2
      <4> QED BY <1>7, <2>5, <3>1, <3>2, <4>1
    <3>3. CASE i # at
      <4>1. i < at /\ at - n <= i
        BY <1>2, <2>1, <3>1, <3>3
      <4>2. old[i] = text[i - (at - n) + 1]
        BY <1>3, <2>5, <4>1 DEF ShowsText
      <4> QED BY <1>7, <3>1, <3>3, <4>2
    <3> QED BY <3>2, <3>3
  <2> QED BY <1>1, <2>2, <2>3, <2>4, <2>5
<1> QED BY <1>8, <1>9
Clean == {s \in Screens : BlankFrom(s)}

LEMMA AnyIs ==
    ASSUME NEW s \in Clean, NEW c \in Glyphs
    PROVE  put_char(s, c) \in Clean
<1>1. s \in Screens /\ BlankFrom(s)
  BY DEF Clean
<1>2. put_char(s, c) \in Screens /\ BlankFrom(put_char(s, c))
  BY <1>1, NewlineIs, EraseIs, PrintedIs
<1> QED BY <1>2 DEF Clean

\* What print leaves, character by character.
LEMMA PrintRuns ==
    ASSUME NEW s \in Clean, NEW text \in Seq(Glyphs)
    PROVE  \E r : /\ r[0] = s /\ r[Len(text)] = print(s, text)
                  /\ \A k \in 0 .. Len(text) : r[k] \in Clean
                  /\ \A k \in 1 .. Len(text) : r[k] = put_char(r[k - 1], text[k])
<1>1. PICK n \in Nat : n = Len(text) /\ DOMAIN text = 1 .. n /\ \A i \in 1 .. n : text[i] \in Glyphs
  OBVIOUS
<1> DEFINE step == [z \in Clean \X Glyphs |-> put_char(z[1], z[2])]
<1>2. step \in [Clean \X Glyphs -> Clean]
  BY AnyIs
<1>3. \A z \in Clean, c \in Glyphs : step[<<z, c>>] = put_char(z, c)
  OBVIOUS
<1> HIDE DEF step
<1> DEFINE Runs(iter) ==
             iter = [S \in SUBSET (1 .. n) |-> IF S = {} THEN s
                                               ELSE put_char(iter[S \ {Max(S)}], text[Max(S)])]
<1>4. PICK f \in [SUBSET (1 .. n) -> Clean] : FoldsTo(f, n, s, step, text)
  <2>1. \A i \in 1 .. n : text[i] \in Glyphs
    BY <1>1
  <2> QED BY <1>2, <2>1, FoldExists, Zenon
<1>5. ASSUME NEW S \in SUBSET (1 .. n), S # {} PROVE Max(S) \in S
  <2>1. S \in SUBSET Nat /\ \A i \in S : i <= n
    OBVIOUS
  <2> QED BY <1>5, <2>1, GreatestNat
<1>6. \E iter : Runs(iter)
  <2>1. ASSUME NEW S \in SUBSET (1 .. n)
        PROVE  f[S] = IF S = {} THEN s ELSE put_char(f[S \ {Max(S)}], text[Max(S)])
    <3>1. f[S] = IF S = {} THEN s ELSE step[<<f[S \ {Max(S)}], text[Max(S)]>>]
      BY <1>4 DEF FoldsTo
    <3>2. CASE S # {}
      <4>1. text[Max(S)] \in Glyphs /\ f[S \ {Max(S)}] \in Clean
        BY <1>1, <1>5, <3>2
      <4> QED BY <1>3, <3>1, <3>2, <4>1
    <3> QED BY <3>1, <3>2
  <2>2. Runs(f)
    BY <2>1
  <2> QED BY <2>2
<1>7. PICK g : g = (CHOOSE iter : Runs(iter))
  OBVIOUS
<1>8. Runs(g)
  BY <1>6, <1>7
<1>9. print(s, text) = g[1 .. n]
  <2>1. print(s, text) =
          (CHOOSE iter : iter = [S \in SUBSET DOMAIN text |->
              IF S = {} THEN s ELSE put_char(iter[S \ {Max(S)}], text[Max(S)])])[DOMAIN text]
    BY DEF print, FoldLeft, MapThenFoldSet
  <2> QED BY <1>1, <1>7, <2>1
<1>10. g[1 .. 0] = s
  BY <1>8
<1>11. ASSUME NEW k \in 1 .. n PROVE g[1 .. k] = put_char(g[1 .. (k - 1)], text[k])
  <2>1. PICK S : S = 1 .. k
    OBVIOUS
  <2>2. k - 1 \in Nat /\ S \in SUBSET (1 .. (k - 1) + 1) /\ (k - 1) + 1 \in S /\ (k - 1) + 1 = k
    BY <1>1, <2>1
  <2>3. Max(S) = k
    BY <2>2, MaxAt
  <2>4. S \ {k} = 1 .. (k - 1) /\ S # {} /\ S \in SUBSET (1 .. n)
    BY <1>1, <2>1
  <2>5. g[S] = put_char(g[S \ {Max(S)}], text[Max(S)])
    BY <1>8, <2>4
  <2> QED BY <2>1, <2>3, <2>4, <2>5
<1> DEFINE r == [k \in 0 .. n |-> g[1 .. k]]
<1>12. r[0] = s /\ r[n] = print(s, text)
  BY <1>1, <1>9, <1>10
<1>13. \A k \in 1 .. n : r[k] = put_char(r[k - 1], text[k])
  BY <1>1, <1>11
<1> HIDE DEF r, Runs
<1>14. \A k \in 0 .. n : r[k] \in Clean
  <2> DEFINE K == {k \in Nat : k <= n => r[k] \in Clean}
  <2>1. 0 \in K
    BY <1>12
  <2>2. ASSUME NEW k \in K PROVE k + 1 \in K
    <3> SUFFICES ASSUME k + 1 <= n PROVE r[k + 1] \in Clean
      OBVIOUS
    <3>1. r[k] \in Clean /\ text[k + 1] \in Glyphs
      BY <1>1
    <3>2. r[k + 1] = put_char(r[k], text[k + 1])
      BY <1>1, <1>13
    <3> QED BY <3>1, <3>2, AnyIs
  <2> HIDE DEF K
  <2>3. K = Nat
    <3>1. K \in SUBSET Nat
      BY DEF K
    <3> QED BY <2>1, <2>2, <3>1, AllNat
  <2> QED BY <1>1, <2>3 DEF K
<1> QED BY <1>1, <1>12, <1>13, <1>14

LEMMA ShowsAlso ==
    ASSUME NEW s \in Screens, NEW text, NEW other, NEW n \in Nat,
           ShowsText(s, text, n), \A i \in 1 .. n : other[i] = text[i]
    PROVE  ShowsText(s, other, n)
<1>1. PICK at \in Cells : at = s.cursor
  BY ScreenFields
<1>2. Cells \in SUBSET Nat
  BY SizeIs
<1>3. n <= at
  BY <1>1 DEF ShowsText
<1>4. ASSUME NEW i \in Cells, at - n <= i, i < at PROVE s.cell[i] = other[i - (at - n) + 1]
  <2>1. i - (at - n) + 1 \in 1 .. n
    BY <1>2, <1>3, <1>4
  <2>2. s.cell[i] = text[i - (at - n) + 1]
    BY <1>1, <1>4 DEF ShowsText
  <2> QED BY <2>1, <2>2
<1> QED BY <1>1, <1>3, <1>4 DEF ShowsText

LEMMA ClearIs == clear_screen \in Clean
<1>1. 0 \in Cells
  BY SizeIs
<1>2. PICK cell : cell = [i \in Cells |-> Blank]
  OBVIOUS
<1>3. cell \in [Cells -> Glyphs] /\ clear_screen = [cell |-> cell, cursor |-> 0]
  BY <1>2 DEF Glyphs, clear_screen
<1>4. clear_screen \in Screens /\ clear_screen.cell = cell
  BY <1>1, <1>3, ScreenFields
<1>5. BlankFrom(clear_screen)
  BY <1>2, <1>4 DEF BlankFrom
<1> QED BY <1>4, <1>5 DEF Clean

\* A prompt fits above the last row with the longest line, so that it is on
\* the screen when it has been printed, however often the screen scrolled.
LEMMA PromptIs ==
    ASSUME NEW s \in Clean, NEW text \in Prompts
    PROVE  /\ print(s, text) \in Clean
           /\ ShowsText(print(s, text), text, Len(text))
<1>1. PICK n \in Nat : n = Len(text)
  BY ConsoleAssumption
<1>2. text \in Seq(Glyphs) /\ \A i \in 1 .. n : text[i] \in Glyphs /\ text[i] # Newline /\ text[i] # Erase
  <2>1. text \in Seq(STRING \ {Newline, Erase})
    BY ConsoleAssumption
  <2>2. \A i \in 1 .. n : text[i] \in STRING \ {Newline, Erase}
    BY <1>1, <2>1
  <2>3. text \in Seq(Glyphs)
    BY <2>1 DEF Glyphs
  <2> QED BY <2>2, <2>3 DEF Glyphs
<1>3. n <= Size - Width
  <2>1. n + MaxLength <= (Height - 1) * Width /\ MaxLength \in Nat
    BY <1>1, ConsoleAssumption
  <2>2. (Height - 1) * Width = Size - Width /\ Size \in Nat /\ Width \in Nat
    BY SizeIs
  <2> QED BY <2>1, <2>2
<1>4. PICK r : /\ r[0] = s /\ r[n] = print(s, text)
               /\ \A k \in 0 .. n : r[k] \in Clean
               /\ \A k \in 1 .. n : r[k] = put_char(r[k - 1], text[k])
  BY <1>1, <1>2, PrintRuns
<1> DEFINE K == {k \in Nat : k <= n => ShowsText(r[k], text, k)}
<1>5. 0 \in K
  <2>1. s.cursor \in Nat
    BY ScreenFields, SizeIs DEF Clean
  <2>2. PICK at \in Nat : at = s.cursor
    BY <2>1
  <2>3. \A i \in Cells : ~(at - 0 <= i /\ i < at)
    BY SizeIs
  <2>4. ShowsText(s, text, 0)
    BY <2>2, <2>3 DEF ShowsText
  <2> QED BY <1>4, <2>4
<1>6. ASSUME NEW k \in K PROVE k + 1 \in K
  <2> SUFFICES ASSUME k + 1 <= n PROVE ShowsText(r[k + 1], text, k + 1)
    OBVIOUS
  <2>1. PICK now \in Screens : now = r[k] /\ BlankFrom(now) /\ ShowsText(now, text, k)
    BY <1>1, <1>4 DEF Clean
  <2>2. PICK c \in Glyphs : c = text[k + 1] /\ c # Newline /\ c # Erase
    BY <1>1, <1>2
  <2>3. r[k + 1] = put_char(now, c)
    BY <1>1, <1>4, <2>1, <2>2
  <2>4. k + 1 <= Size - Width
    BY <1>1, <1>3, SizeIs
  <2> QED BY <2>1, <2>2, <2>3, <2>4, PrintedIs
<1> HIDE DEF K
<1>7. K = Nat
  <2>1. K \in SUBSET Nat
    BY DEF K
  <2> QED BY <1>5, <1>6, <2>1, AllNat
<1>8. ShowsText(r[n], text, n)
  BY <1>7 DEF K
<1>9. r[n] \in Clean
  BY <1>4
<1> QED BY <1>1, <1>4, <1>8, <1>9

Letters == {"a", "A", "2"}

\* What is on the screen and in the line between two steps of the program.
ScreenInv ==
    /\ screen \in Clean
    /\ buffer \in Seq(Letters)
    /\ reading => /\ prompt \in Prompts
                  /\ Len(buffer) <= MaxLength
                  /\ ShowsText(screen, prompt \o buffer, Len(prompt) + Len(buffer))

LEMMA TypedGlyphs == \A c \in Letters : c \in Glyphs /\ c # Newline /\ c # Erase
BY DEF Letters, Glyphs, Newline, Erase

LEMMA LineText ==
    ASSUME NEW p \in Prompts, NEW b \in Seq(Letters)
    PROVE  /\ Len(p) \in Nat /\ Len(b) \in Nat /\ Len(p \o b) = Len(p) + Len(b)
           /\ \A i \in 1 .. Len(p) : (p \o b)[i] = p[i]
           /\ \A i \in 1 .. Len(b) : (p \o b)[Len(p) + i] = b[i]
           /\ Len(p) + MaxLength <= Size - Width
<1>1. p \in Seq(STRING \ {Newline, Erase}) /\ Len(p) + MaxLength <= (Height - 1) * Width
  BY ConsoleAssumption
<1>2. (Height - 1) * Width = Size - Width
  BY SizeIs
<1>3. Len(p) + MaxLength <= Size - Width
  BY <1>1, <1>2
<1>4. PICK q \in Seq(Glyphs), w \in Seq(Glyphs) : q = p /\ w = b
  BY <1>1, TypedGlyphs DEF Glyphs, Letters
<1>5. /\ Len(q) \in Nat /\ Len(w) \in Nat /\ Len(q \o w) = Len(q) + Len(w)
      /\ \A i \in 1 .. Len(q) : (q \o w)[i] = q[i]
      /\ \A i \in 1 .. Len(w) : (q \o w)[Len(q) + i] = w[i]
  OBVIOUS
<1> QED BY <1>3, <1>4, <1>5

LEMMA CharacterShows ==
    ASSUME ScreenInv, NEW c \in Letters, reading, Len(buffer) < MaxLength,
           buffer' = Append(buffer, c), screen' = put_char(screen, c),
           reading' = reading, prompt' = prompt
    PROVE  ScreenInv'
<1>1. PICK s \in Clean, b \in Seq(Letters), p \in Prompts : s = screen /\ b = buffer /\ p = prompt
  BY DEF ScreenInv
<1>2. PICK d \in Seq(Letters) : d = Append(b, c) /\ d = buffer' /\ Len(d) = Len(b) + 1
                              /\ d[Len(b) + 1] = c /\ \A i \in 1 .. Len(b) : d[i] = b[i]
  BY <1>1
<1>3. PICK l \in Nat, m \in Nat : l = Len(p) /\ m = Len(b) /\ m < MaxLength
  BY <1>1, LineText
<1>4. /\ \A i \in 1 .. l : (p \o b)[i] = p[i] /\ (p \o d)[i] = p[i]
      /\ \A i \in 1 .. m : (p \o b)[l + i] = b[i] /\ (p \o d)[l + i] = d[i]
      /\ (p \o d)[l + (m + 1)] = d[m + 1]
      /\ l + MaxLength <= Size - Width /\ MaxLength \in Nat
  <2>1. m + 1 \in 1 .. Len(d) /\ 1 .. m \in SUBSET (1 .. Len(d))
    BY <1>2, <1>3
  <2> QED BY <1>2, <1>3, <2>1, LineText, ConsoleAssumption
<1>5. \A i \in 1 .. l + m : (p \o d)[i] = (p \o b)[i]
  <2>1. ASSUME NEW i \in 1 .. l + m, i > l PROVE (p \o d)[i] = (p \o b)[i]
    <3>1. i - l \in 1 .. m /\ l + (i - l) = i
      BY <1>3, <2>1
    <3>2. (p \o b)[i] = b[i - l] /\ (p \o d)[i] = d[i - l]
      BY <1>4, <3>1
    <3> QED BY <1>2, <1>3, <3>1, <3>2
  <2>2. ASSUME NEW i \in 1 .. l + m, ~(i > l) PROVE (p \o d)[i] = (p \o b)[i]
    <3>1. i \in 1 .. l
      BY <2>2
    <3> QED BY <1>4, <3>1
  <2> QED BY <2>1, <2>2
<1>6. ShowsText(s, p \o b, l + m)
  BY <1>1, <1>3 DEF ScreenInv
<1>7. s \in Screens /\ BlankFrom(s)
  BY DEF Clean
<1>8. ShowsText(s, p \o d, l + m)
  <2>1. l + m \in Nat
    OBVIOUS
  <2> QED BY <1>5, <1>6, <1>7, <2>1, ShowsAlso, Zenon
<1>9. (p \o d)[l + m + 1] = c /\ l + m \in Nat /\ l + m + 1 <= Size - Width
  <2>1. l + m + 1 = l + (m + 1)
    OBVIOUS
  <2>2. Size - Width \in Int /\ l + MaxLength <= Size - Width /\ MaxLength \in Nat
    BY <1>4, SizeIs
  <2> QED BY <1>2, <1>3, <1>4, <2>1, <2>2
<1>10. c \in Glyphs /\ c # Newline /\ c # Erase
  BY TypedGlyphs
<1>11. ShowsText(put_char(s, c), p \o d, l + m + 1)
  BY <1>7, <1>8, <1>9, <1>10, PrintedIs
<1>12. put_char(s, c) \in Clean
  BY <1>10, AnyIs
<1>13. l + m + 1 = Len(p) + Len(d) /\ Len(d) <= MaxLength
  BY <1>2, <1>3, <1>4
<1> QED BY <1>1, <1>2, <1>11, <1>12, <1>13 DEF ScreenInv

LEMMA BackspaceShows ==
    ASSUME ScreenInv, reading, buffer # <<>>,
           buffer' = Front(buffer), screen' = put_char(screen, Erase),
           reading' = reading, prompt' = prompt
    PROVE  ScreenInv'
<1>1. PICK s \in Clean, b \in Seq(Letters), p \in Prompts : s = screen /\ b = buffer /\ p = prompt
  BY DEF ScreenInv
<1>2. PICK l \in Nat, m \in Nat : l = Len(p) /\ Len(b) = m + 1 /\ m + 1 <= MaxLength
  <2>1. Len(p) \in Nat /\ Len(b) \in Nat /\ Len(b) <= MaxLength /\ Len(b) # 0
    BY <1>1, LineText DEF ScreenInv
  <2>2. Len(b) - 1 \in Nat /\ Len(b) = (Len(b) - 1) + 1
    BY <2>1
  <2> QED BY <2>1, <2>2
<1>3. PICK d \in Seq(Letters) : d = buffer' /\ Len(d) = m /\ \A i \in 1 .. m : d[i] = b[i]
  <2>1. Front(b) = SubSeq(b, 1, m)
    BY <1>2 DEF Front
  <2>2. SubSeq(b, 1, m) \in Seq(Letters) /\ Len(SubSeq(b, 1, m)) = m
        /\ \A i \in 1 .. m : SubSeq(b, 1, m)[i] = b[i]
    BY <1>2
  <2> QED BY <1>1, <2>1, <2>2
<1>4. /\ \A i \in 1 .. l : (p \o b)[i] = p[i] /\ (p \o d)[i] = p[i]
      /\ \A i \in 1 .. m : (p \o b)[l + i] = b[i] /\ (p \o d)[l + i] = d[i]
      /\ MaxLength \in Nat
  <2>1. 1 .. m \in SUBSET (1 .. Len(b))
    BY <1>2
  <2> QED BY <1>2, <1>3, <2>1, LineText, ConsoleAssumption
<1>5. \A i \in 1 .. l + m : (p \o d)[i] = (p \o b)[i]
  <2>1. ASSUME NEW i \in 1 .. l + m, i > l PROVE (p \o d)[i] = (p \o b)[i]
    <3>1. i - l \in 1 .. m /\ l + (i - l) = i
      BY <1>2, <2>1
    <3>2. (p \o b)[i] = b[i - l] /\ (p \o d)[i] = d[i - l]
      BY <1>4, <3>1
    <3> QED BY <1>3, <3>1, <3>2
  <2>2. ASSUME NEW i \in 1 .. l + m, ~(i > l) PROVE (p \o d)[i] = (p \o b)[i]
    <3>1. i \in 1 .. l
      BY <2>2
    <3> QED BY <1>4, <3>1
  <2> QED BY <2>1, <2>2
<1>6. s \in Screens /\ BlankFrom(s)
  BY DEF Clean
<1>7. ShowsText(s, p \o b, l + m + 1) /\ l + m \in Nat
  <2>1. Len(p) + Len(b) = l + m + 1
    BY <1>2
  <2> QED BY <1>1, <2>1 DEF ScreenInv
<1>8. ShowsText(put_char(s, Erase), p \o b, l + m) /\ put_char(s, Erase) \in Clean
  BY <1>6, <1>7, EraseIs DEF Clean
<1>9. put_char(s, Erase) \in Screens
  BY <1>8 DEF Clean
<1>10. ShowsText(put_char(s, Erase), p \o d, l + m)
  BY <1>5, <1>7, <1>8, <1>9, ShowsAlso
<1>11. l + m = Len(p) + Len(d) /\ Len(d) <= MaxLength
  BY <1>2, <1>3, <1>4
<1> QED BY <1>1, <1>3, <1>8, <1>10, <1>11 DEF ScreenInv

LEMMA PrintIsClean ==
    ASSUME NEW s \in Clean, NEW text \in Outputs
    PROVE  print(s, text) \in Clean
<1>1. text \in Seq(Glyphs)
  BY ConsoleAssumption DEF Glyphs
<1>2. PICK n \in Nat : n = Len(text)
  BY <1>1
<1>3. PICK r : r[n] = print(s, text) /\ \A k \in 0 .. n : r[k] \in Clean
  BY <1>1, <1>2, PrintRuns
<1> QED BY <1>3

LEMMA ScreenStep == ScreenInv /\ [ConsoleNext]_consoleVars => ScreenInv'
<1> SUFFICES ASSUME ScreenInv, [ConsoleNext]_consoleVars PROVE ScreenInv'
  OBVIOUS
<1>1. ASSUME UNCHANGED <<reading, buffer, prompt, screen>> PROVE ScreenInv'
  BY <1>1 DEF ScreenInv
<1>2. CASE UNCHANGED consoleVars
  BY <1>1, <1>2 DEF consoleVars, userVars
<1>3. CASE User
  BY <1>1, <1>3 DEF User
<1>4. CASE Shift
  BY <1>1, <1>4 DEF Shift, Polled
<1>5. CASE Ignored
  BY <1>1, <1>5 DEF Ignored, Polled
<1>6. CASE Enter
  <2>1. put_char(screen, Newline) \in Clean
    BY NewlineIs DEF ScreenInv, Clean
  <2> QED BY <1>6, <2>1 DEF Enter, ScreenInv
<1>7. CASE Backspace
  <2>1. reading /\ reading' = reading /\ prompt' = prompt
    BY <1>7 DEF Backspace, Down, Polled
  <2>2. CASE buffer = <<>>
    BY <1>1, <1>7, <2>1, <2>2 DEF Backspace
  <2>3. CASE buffer # <<>>
    BY <1>7, <2>1, <2>3, BackspaceShows DEF Backspace
  <2> QED BY <2>2, <2>3
<1>8. CASE Character
  <2>1. PICK c \in Letters :
          /\ Down(c) /\ reading' = reading
          /\ IF Len(buffer) < MaxLength
             THEN buffer' = Append(buffer, c) /\ screen' = put_char(screen, c)
             ELSE UNCHANGED <<buffer, screen>>
    BY <1>8 DEF Character, Letters
  <2>2. reading /\ prompt' = prompt
    BY <2>1 DEF Down, Polled
  <2>3. CASE Len(buffer) < MaxLength
    BY <2>1, <2>2, <2>3, CharacterShows
  <2>4. CASE ~(Len(buffer) < MaxLength)
    BY <1>1, <2>1, <2>2, <2>4
  <2> QED BY <2>3, <2>4
<1>9. CASE Command
  <2>1. screen' \in Clean
    BY <1>9, ClearIs, PrintIsClean DEF Command, ScreenInv
  <2> QED BY <1>9, <2>1 DEF Command, ScreenInv
<1>10. CASE Ask
  <2>1. PICK text \in Prompts : screen' = print(screen, text) /\ prompt' = text
    BY <1>10 DEF Ask
  <2>2. buffer' = <<>> /\ <<>> \in Seq(Letters) /\ Len(<<>>) = 0
    BY <1>10 DEF Ask
  <2>3. screen' \in Clean /\ ShowsText(screen', text, Len(text))
    BY <2>1, PromptIs DEF ScreenInv
  <2>4. text \o <<>> = text /\ Len(text) + 0 = Len(text)
    BY ConsoleAssumption
  <2>5. 0 <= MaxLength
    BY ConsoleAssumption
  <2> QED BY <2>1, <2>2, <2>3, <2>4, <2>5 DEF ScreenInv
<1> QED BY <1>2, <1>3, <1>4, <1>5, <1>6, <1>7, <1>8, <1>9, <1>10 DEF ConsoleNext, readl

\* readl and vga.cpp: whatever is printed, cleared, typed and erased, the
\* screen shows the prompt and the line before the cursor and nothing after.
THEOREM TheLineIsOnTheScreen == LineSpec => []ScreenShowsTheLine
<1>1. LineInit => ScreenInv
  BY ClearIs DEF LineInit, ConsoleInit, ScreenInv
<1>2. ScreenInv /\ [LineNext]_lineVars => ScreenInv'
  BY ConsoleSteps, ScreenStep
<1>3. ScreenInv => ScreenShowsTheLine
  <2> SUFFICES ASSUME ScreenInv PROVE ScreenShowsTheLine
    OBVIOUS
  <2>1. PICK s \in Screens, b \in Seq(Letters) : s = screen /\ b = buffer /\ BlankFrom(s)
    BY DEF ScreenInv, Clean
  <2>2. PICK at \in Cells : at = s.cursor
    BY ScreenFields
  <2>3. Cells = 0 .. Size - 1 /\ Cells \in SUBSET Nat /\ Size \in Nat
        /\ \A n \in Nat : n \in Cells <=> n < Size
    BY SizeIs DEF Cells
  <2>4. \A i \in at .. Size - 1 : i \in Cells /\ at <= i
    BY <2>3
  <2>5. BlankAhead
    BY <2>1, <2>2, <2>4 DEF BlankAhead, BlankFrom
  <2>6. EchoIsTheLine
    <3> SUFFICES ASSUME reading
                 PROVE  LET shown == prompt \o buffer
                            first == screen.cursor - Len(shown)
                        IN  first \in Cells
                            /\ \A i \in 1 .. Len(shown) : screen.cell[first + i - 1] = shown[i]
      BY DEF EchoIsTheLine
    <3>1. PICK p \in Prompts : p = prompt
      BY DEF ScreenInv
    <3>2. PICK text : text = prompt \o buffer /\ Len(text) \in Nat /\ ShowsText(s, text, Len(text))
      <4>1. Len(p \o b) = Len(p) + Len(b) /\ Len(p) \in Nat /\ Len(b) \in Nat
        BY LineText
      <4>2. p \o b = prompt \o buffer
        BY <2>1, <3>1
      <4>3. ShowsText(s, prompt \o buffer, Len(p) + Len(b))
        BY <2>1, <3>1 DEF ScreenInv
      <4>4. Len(prompt \o buffer) = Len(p) + Len(b) /\ Len(p) + Len(b) \in Nat
        BY <4>1, <4>2
      <4>5. PICK text : text = prompt \o buffer
        OBVIOUS
      <4>6. Len(text) \in Nat /\ ShowsText(s, text, Len(text))
        BY <4>3, <4>4, <4>5
      <4> QED BY <4>5, <4>6
    <3>3. PICK n \in Nat : n = Len(text)
      BY <3>2
    <3>4. n <= at
      BY <2>2, <3>2, <3>3 DEF ShowsText
    <3>5. at - n \in Cells
      BY <2>2, <2>3, <3>4
    <3>6. ASSUME NEW i \in 1 .. n PROVE s.cell[at - n + i - 1] = text[i]
      <4>1. PICK k \in Cells : k = at - n + i - 1 /\ at - n <= k /\ k < at /\ k - (at - n) + 1 = i
        BY <2>2, <2>3, <3>4
      <4> QED BY <2>2, <3>2, <3>3, <4>1 DEF ShowsText
    <3> QED BY <2>1, <2>2, <3>2, <3>3, <3>5, <3>6
  <2> QED BY <2>5, <2>6 DEF ScreenShowsTheLine
<1> QED BY <1>1, <1>2, <1>3, PTL DEF LineSpec

-----------------------------------------------------------------------------
(* Paths: texts of characters, and where the last name of one begins *)

Letter == (STRING \union {Sep, ".", Space, "c"}) \ {Zero}
Texts == Seq(Letter)

LEMMA LettersAre == Sep \in Letter /\ "." \in Letter
BY DEF Letter, Sep, Zero

LEMMA PartOf ==
    ASSUME NEW text \in Texts, NEW from \in Nat \ {0}, NEW to \in Nat, to <= Len(text)
    PROVE  /\ SubSeq(text, from, to) \in Texts
           /\ from <= to => Len(SubSeq(text, from, to)) = to - from + 1
           /\ from > to => SubSeq(text, from, to) = <<>>
           /\ \A i \in 1 .. to - from + 1 : SubSeq(text, from, to)[i] = text[from + i - 1]
<1>1. PICK w : w = SubSeq(text, from, to)
  OBVIOUS
<1>2. w \in Texts
  BY <1>1 DEF Texts
<1>3. from <= to => Len(w) = to - from + 1
  BY <1>1 DEF Texts
<1>4. from > to => w = <<>>
  BY <1>1 DEF Texts
<1>5. \A i \in 1 .. to - from + 1 : w[i] = text[from + i - 1]
  BY <1>1 DEF Texts
<1> QED BY <1>1, <1>2, <1>3, <1>4, <1>5

LEMMA SameTexts ==
    ASSUME NEW a \in Texts, NEW b \in Texts, Len(a) = Len(b), \A i \in 1 .. Len(a) : a[i] = b[i]
    PROVE  a = b
BY DEF Texts

\* A part of a part.
LEMMA RestOfRest ==
    ASSUME NEW text \in Texts, NEW from \in Nat \ {0}, NEW more \in Nat, from <= Len(text) + 1
    PROVE  LET rest == SubSeq(text, from, Len(text))
           IN  SubSeq(rest, more + 1, Len(rest)) = SubSeq(text, from + more, Len(text))
<1>1. PICK n \in Nat : n = Len(text)
  BY DEF Texts
<1>2. PICK rest \in Texts : rest = SubSeq(text, from, n)
  <2>1. SubSeq(text, from, n) \in Texts
    BY <1>1, PartOf
  <2> QED BY <2>1
<1>3. /\ Len(rest) = n - from + 1 /\ Len(rest) \in Nat
      /\ \A i \in 1 .. n - from + 1 : rest[i] = text[from + i - 1]
  <2>1. from <= n => Len(rest) = n - from + 1
    BY <1>1, <1>2, PartOf
  <2>2. from > n => Len(rest) = 0 /\ n - from + 1 = 0
    BY <1>1, <1>2, PartOf
  <2> QED BY <1>1, <1>2, <2>1, <2>2, PartOf
<1>4. PICK a \in Texts, b \in Texts : a = SubSeq(rest, more + 1, Len(rest)) /\ b = SubSeq(text, from + more, n)
  <2>1. SubSeq(rest, more + 1, Len(rest)) \in Texts
    BY <1>3, PartOf
  <2>2. SubSeq(text, from + more, n) \in Texts
    BY <1>1, PartOf
  <2> QED BY <2>1, <2>2
<1>5. CASE from + more > n
  <2>1. a = <<>>
    BY <1>1, <1>3, <1>4, <1>5, PartOf
  <2>2. b = <<>>
    BY <1>1, <1>4, <1>5, PartOf
  <2> QED BY <1>1, <1>2, <1>4, <2>1, <2>2
<1>6. CASE from + more <= n
  <2>1. Len(a) = n - from - more + 1 /\ \A i \in 1 .. Len(a) : a[i] = rest[more + i]
    <3>1. more + 1 <= Len(rest) /\ Len(rest) - (more + 1) + 1 = n - from - more + 1
      BY <1>1, <1>3, <1>6
    <3>2. \A i \in 1 .. Len(rest) - (more + 1) + 1 : a[i] = rest[more + 1 + i - 1]
      BY <1>3, <1>4, PartOf
    <3>3. \A i \in Nat : more + 1 + i - 1 = more + i
      OBVIOUS
    <3>4. Len(a) = Len(rest) - (more + 1) + 1
      BY <1>3, <1>4, <3>1, PartOf
    <3> QED BY <1>1, <3>1, <3>2, <3>3, <3>4
  <2>2. Len(b) = n - from - more + 1 /\ \A i \in 1 .. Len(b) : b[i] = text[from + more + i - 1]
    <3>1. n - (from + more) + 1 = n - from - more + 1
      BY <1>1
    <3> QED BY <1>1, <1>4, <1>6, <3>1, PartOf
  <2>3. ASSUME NEW i \in 1 .. n - from - more + 1 PROVE a[i] = b[i]
    <3>1. more + i \in 1 .. n - from + 1 /\ from + (more + i) - 1 = from + more + i - 1
      BY <1>1
    <3> QED BY <1>3, <2>1, <2>2, <3>1
  <2>4. a = b
    BY <2>1, <2>2, <2>3, SameTexts
  <2> QED BY <1>1, <1>2, <1>4, <2>4
<1> QED BY <1>1, <1>5, <1>6

LEMMA SepsAre ==
    ASSUME NEW text \in Texts
    PROVE  /\ Seps(text) \in SUBSET (1 .. Len(text)) /\ Seps(text) \in SUBSET Nat /\ Len(text) \in Nat
           /\ HasSep(text) => /\ Max(Seps(text)) \in Seps(text)
                              /\ \A i \in Seps(text) : i <= Max(Seps(text))
                              /\ Min(Seps(text)) \in Seps(text)
                              /\ \A i \in Seps(text) : Min(Seps(text)) <= i
           /\ \A i \in 1 .. Len(text) : i \in Seps(text) <=> text[i] = Sep
<1>1. Seps(text) \in SUBSET (1 .. Len(text)) /\ Len(text) \in Nat
      /\ \A i \in 1 .. Len(text) : i \in Seps(text) <=> text[i] = Sep
  BY DEF Seps, Texts
<1>2. Seps(text) \in SUBSET Nat /\ \A i \in Seps(text) : i <= Len(text)
  BY <1>1
<1>3. HasSep(text) => /\ Max(Seps(text)) \in Seps(text)
                      /\ \A i \in Seps(text) : i <= Max(Seps(text))
  BY <1>1, <1>2, GreatestNat DEF HasSep
<1>4. HasSep(text) => /\ Min(Seps(text)) \in Seps(text)
                      /\ \A i \in Seps(text) : Min(Seps(text)) <= i
  BY <1>2, LeastNat DEF HasSep
<1> QED BY <1>1, <1>2, <1>3, <1>4

LEMMA PoppedIs ==
    ASSUME NEW cwd \in Texts
    PROVE  Popped(cwd) \in Texts
<1>1. <<>> \in Texts
  BY DEF Texts
<1>2. CASE HasSep(cwd)
  <2>1. PICK m \in 1 .. Len(cwd) : m = Max(Seps(cwd))
    BY <1>2, SepsAre
  <2>2. m - 1 \in Nat /\ m - 1 <= Len(cwd)
    BY <2>1, SepsAre
  <2>3. SubSeq(cwd, 1, m - 1) \in Texts
    BY <2>2, PartOf
  <2> QED BY <1>2, <2>1, <2>3 DEF Popped
<1> QED BY <1>1, <1>2 DEF Popped

LEMMA GoesUpIs ==
    ASSUME NEW inp \in Texts
    PROVE  GoesUp(inp) <=> /\ Len(inp) >= 2 /\ inp[1] = "." /\ inp[2] = "."
                           /\ Len(inp) = 2 \/ inp[3] = Sep
<1>1. PICK n \in Nat : n = Len(inp)
  BY DEF Texts
<1>2. Up \in Texts /\ Len(Up) = 2 /\ Up[1] = "." /\ Up[2] = "."
  BY LettersAre DEF Up, Texts
<1>3. PICK three \in Texts : /\ three = Append(Up, Sep) /\ Len(three) = 3
                             /\ three[1] = "." /\ three[2] = "." /\ three[3] = Sep
  <2>1. Sep \in Letter
    BY LettersAre
  <2>2. PICK three : three = Append(Up, Sep)
    OBVIOUS
  <2>3. PICK up \in Seq(Letter) : up = Up
    BY <1>2 DEF Texts
  <2>4. Append(up, Sep) \in Seq(Letter) /\ Len(Append(up, Sep)) = Len(up) + 1
        /\ Append(up, Sep)[Len(up) + 1] = Sep
        /\ \A i \in 1 .. Len(up) : Append(up, Sep)[i] = up[i]
    BY <2>1
  <2>5. three \in Texts /\ Len(three) = 3 /\ three[1] = Up[1] /\ three[2] = Up[2] /\ three[3] = Sep
    <3>1. Len(up) = 2 /\ three = Append(up, Sep)
      BY <1>2, <2>2, <2>3
    <3>2. three[3] = Sep /\ three[1] = up[1] /\ three[2] = up[2]
      BY <2>4, <3>1
    <3> QED BY <2>3, <2>4, <3>1, <3>2 DEF Texts
  <2> QED BY <1>2, <2>2, <2>5
<1>4. inp = Up <=> n = 2 /\ inp[1] = "." /\ inp[2] = "."
  <2>1. ASSUME n = 2, inp[1] = ".", inp[2] = "." PROVE inp = Up
    <3>1. \A i \in 1 .. 2 : inp[i] = Up[i]
      BY <1>2, <2>1
    <3> QED BY <1>1, <1>2, <2>1, <3>1, SameTexts
  <2> QED BY <1>1, <1>2, <2>1
<1>5. Cut(inp, 3) = three <=> n >= 3 /\ inp[1] = "." /\ inp[2] = "." /\ inp[3] = Sep
  <2>1. CASE n < 3
    <3>1. Cut(inp, 3) = SubSeq(inp, 1, n)
      BY <1>1, <2>1 DEF Cut
    <3>2. Len(SubSeq(inp, 1, n)) # 3
      <4>1. n = 0 => Len(SubSeq(inp, 1, n)) = 0
        BY <1>1, PartOf
      <4>2. n # 0 => Len(SubSeq(inp, 1, n)) = n
        <5>1. n # 0 => Len(SubSeq(inp, 1, n)) = n - 1 + 1
          BY <1>1, PartOf
        <5> QED BY <5>1
      <4> QED BY <2>1, <4>1, <4>2
    <3> QED BY <1>3, <2>1, <3>1, <3>2
  <2>2. CASE n >= 3
    <3>1. PICK start \in Texts : start = Cut(inp, 3) /\ start = SubSeq(inp, 1, 3)
      <4>1. SubSeq(inp, 1, 3) \in Texts
        BY <1>1, <2>2, PartOf
      <4>2. Cut(inp, 3) = SubSeq(inp, 1, 3)
        <5>1. n < 3 \/ n = 3 \/ (n > 3 /\ ~(n < 3))
          OBVIOUS
        <5> QED BY <1>1, <2>2, <5>1 DEF Cut
      <4> QED BY <4>1, <4>2
    <3>2. Len(start) = 3 /\ \A i \in 1 .. 3 : start[i] = inp[i]
      BY <1>1, <2>2, <3>1 DEF Texts
    <3>3. start = three <=> start[1] = "." /\ start[2] = "." /\ start[3] = Sep
      <4>1. ASSUME start[1] = ".", start[2] = ".", start[3] = Sep PROVE start = three
        <5>1. \A i \in 1 .. 3 : start[i] = three[i]
          BY <1>3, <4>1
        <5> QED BY <1>3, <3>2, <5>1, SameTexts
      <4> QED BY <1>3, <4>1
    <3> QED BY <2>2, <3>1, <3>2, <3>3
  <2> QED BY <2>1, <2>2
<1>6. n >= 2 <=> n = 2 \/ n >= 3
  OBVIOUS
<1> QED BY <1>1, <1>3, <1>4, <1>5, <1>6 DEF GoesUp

States == [cwd : Texts, inp : Texts]

LEMMA ClimbStepIs ==
    ASSUME NEW state \in States
    PROVE  ClimbStep(state) \in States
<1>1. state.cwd \in Texts /\ state.inp \in Texts
  BY DEF States
<1>2. Popped(state.cwd) \in Texts
  BY <1>1, PoppedIs
<1>3. SubSeq(state.inp, 4, Len(state.inp)) \in Texts
  <2>1. Len(state.inp) \in Nat
    BY <1>1 DEF Texts
  <2> QED BY <1>1, <2>1, PartOf
<1> QED BY <1>2, <1>3 DEF ClimbStep, States

\* The loop over the leading "..", round by round.
LEMMA ClimbRuns ==
    ASSUME NEW cwd \in Texts, NEW inp \in Texts
    PROVE  \E r : /\ r[0] = [cwd |-> cwd, inp |-> inp] /\ r[Len(inp)] = Climb(cwd, inp)
                  /\ \A k \in 1 .. Len(inp) : r[k] = ClimbStep(r[k - 1])
<1>1. PICK n \in Nat : n = Len(inp) /\ DOMAIN inp = 1 .. n /\ \A i \in 1 .. n : inp[i] \in Letter
  BY DEF Texts
<1>2. PICK s \in States : s = [cwd |-> cwd, inp |-> inp]
  BY DEF States
<1> DEFINE step == [z \in States \X Letter |-> ClimbStep(z[1])]
<1>3. step \in [States \X Letter -> States]
  BY ClimbStepIs
<1>4. \A z \in States, c \in Letter : step[<<z, c>>] = ClimbStep(z)
  OBVIOUS
<1> HIDE DEF step
<1> DEFINE Runs(iter) ==
             iter = [S \in SUBSET (1 .. n) |-> IF S = {} THEN s ELSE ClimbStep(iter[S \ {Max(S)}])]
<1>5. PICK f \in [SUBSET (1 .. n) -> States] : FoldsTo(f, n, s, step, inp)
  <2>1. \A i \in 1 .. n : inp[i] \in Letter
    BY <1>1
  <2> QED BY <1>3, <2>1, FoldExists, Zenon
<1>6. ASSUME NEW S \in SUBSET (1 .. n), S # {} PROVE Max(S) \in S
  <2>1. S \in SUBSET Nat /\ \A i \in S : i <= n
    OBVIOUS
  <2> QED BY <1>6, <2>1, GreatestNat
<1>7. \E iter : Runs(iter)
  <2>1. ASSUME NEW S \in SUBSET (1 .. n)
        PROVE  f[S] = IF S = {} THEN s ELSE ClimbStep(f[S \ {Max(S)}])
    <3>1. f[S] = IF S = {} THEN s ELSE step[<<f[S \ {Max(S)}], inp[Max(S)]>>]
      BY <1>5 DEF FoldsTo
    <3>2. CASE S # {}
      <4>1. inp[Max(S)] \in Letter /\ f[S \ {Max(S)}] \in States
        BY <1>1, <1>6, <3>2
      <4> QED BY <1>4, <3>1, <3>2, <4>1
    <3> QED BY <3>1, <3>2
  <2>2. Runs(f)
    BY <2>1
  <2> QED BY <2>2
<1>8. PICK g : g = (CHOOSE iter : Runs(iter))
  OBVIOUS
<1>9. Runs(g)
  BY <1>7, <1>8
<1>10. Climb(cwd, inp) = g[1 .. n]
  <2>1. Climb(cwd, inp) =
          (CHOOSE iter : iter = [S \in SUBSET DOMAIN inp |->
              IF S = {} THEN [cwd |-> cwd, inp |-> inp] ELSE ClimbStep(iter[S \ {Max(S)}])])[DOMAIN inp]
    BY DEF Climb, FoldLeft, MapThenFoldSet
  <2> QED BY <1>1, <1>2, <1>8, <2>1
<1>11. g[1 .. 0] = s
  BY <1>9
<1>12. ASSUME NEW k \in 1 .. n PROVE g[1 .. k] = ClimbStep(g[1 .. (k - 1)])
  <2>1. PICK S : S = 1 .. k
    OBVIOUS
  <2>2. k - 1 \in Nat /\ S \in SUBSET (1 .. (k - 1) + 1) /\ (k - 1) + 1 \in S /\ (k - 1) + 1 = k
    BY <1>1, <2>1
  <2>3. Max(S) = k
    BY <2>2, MaxAt
  <2>4. S \ {k} = 1 .. (k - 1) /\ S # {} /\ S \in SUBSET (1 .. n)
    BY <1>1, <2>1
  <2>5. g[S] = ClimbStep(g[S \ {Max(S)}])
    BY <1>9, <2>4
  <2> QED BY <2>1, <2>3, <2>4, <2>5
<1> DEFINE r == [k \in 0 .. n |-> g[1 .. k]]
<1>13. r[0] = s /\ r[n] = Climb(cwd, inp)
  BY <1>1, <1>10, <1>11
<1>14. \A k \in 1 .. n : r[k] = ClimbStep(r[k - 1])
  BY <1>1, <1>12
<1> QED BY <1>1, <1>2, <1>13, <1>14

-----------------------------------------------------------------------------
(* A path upwards, said of whole texts *)

\* The path after n names have been taken off it, one by one.
LEMMA AboveIs ==
    ASSUME NEW dir \in Texts
    PROVE  /\ Above(dir, 0) = dir
           /\ \A n \in Nat : Above(dir, n) \in Texts
           /\ \A n \in Nat : Above(dir, n + 1) = Popped(Above(dir, n))
<1>1. PICK len \in Nat : len = Len(dir) /\ DOMAIN dir = 1 .. len
  BY DEF Texts
<1>2. Seps(dir) \in SUBSET (1 .. len) /\ \A i \in 1 .. len : i \in Seps(dir) <=> dir[i] = Sep
  BY <1>1, SepsAre
<1>3. PICK ends : ends = Seps(dir) \union {len + 1}
  OBVIOUS
<1>4. /\ ends \in SUBSET (1 .. len + 1) /\ len + 1 \in ends /\ ends \in SUBSET Nat
      /\ \A i \in ends : i \in Nat /\ 1 <= i /\ i <= len + 1
  BY <1>2, <1>3
<1> DEFINE Behind(i) == {j \in ends : j > i}
           Nth(n) == {i \in ends : Cardinality(Behind(i)) = n}
<1>5. IsFiniteSet(ends)
  <2>1. IsFiniteSet(1 .. len + 1)
    BY FS_Interval
  <2> QED BY <1>4, <2>1, FS_Subset
<1>6. \A i : IsFiniteSet(Behind(i)) /\ Cardinality(Behind(i)) \in Nat
  <2>1. \A i : Behind(i) \in SUBSET ends
    OBVIOUS
  <2> QED BY <1>5, <2>1, FS_Subset, FS_CardinalityType
<1>7. \A n : Above(dir, n) = IF Nth(n) = {} THEN <<>> ELSE SubSeq(dir, 1, Max(Nth(n)) - 1)
  BY <1>1, <1>3 DEF Above
\* The next one to the left has one more behind it.
<1>8. ASSUME NEW i \in ends, NEW j \in ends, i < j, \A k \in ends : ~(i < k /\ k < j)
      PROVE  Cardinality(Behind(i)) = Cardinality(Behind(j)) + 1
  <2>1. Behind(i) = Behind(j) \union {j}
    <3>1. \A k \in ends : k > i <=> k > j \/ k = j
      BY <1>4, <1>8
    <3> QED BY <3>1
  <2>2. j \notin Behind(j)
    BY <1>4
  <2> QED BY <1>6, <2>1, <2>2, FS_AddElement
<1>9. ASSUME NEW i \in ends, NEW j \in ends, i < j
      PROVE  Cardinality(Behind(i)) > Cardinality(Behind(j))
  <2>1. Behind(j) \in SUBSET Behind(i)
    <3>1. \A k \in ends : k > j => k > i
      BY <1>4, <1>9
    <3> QED BY <3>1
  <2>2. j \in Behind(i) /\ j \notin Behind(j)
    BY <1>4, <1>9
  <2>3. Cardinality(Behind(j)) <= Cardinality(Behind(i)) /\ Cardinality(Behind(j)) # Cardinality(Behind(i))
    BY <1>6, <2>1, <2>2, FS_Subset
  <2> QED BY <1>6, <2>3
<1> HIDE DEF Behind
<1>10. ASSUME NEW n, NEW i \in Nth(n)
       PROVE  i \in 1 .. len + 1 /\ Nth(n) = {i} /\ Above(dir, n) = SubSeq(dir, 1, i - 1)
  <2>1. i \in ends /\ Cardinality(Behind(i)) = n
    OBVIOUS
  <2>2. ASSUME NEW j \in Nth(n), j # i PROVE FALSE
    <3>1. j \in ends /\ Cardinality(Behind(j)) = n /\ (i < j \/ j < i)
      BY <1>4, <2>1, <2>2
    <3>2. Cardinality(Behind(i)) # Cardinality(Behind(j))
      BY <1>6, <1>9, <2>1, <3>1
    <3> QED BY <2>1, <3>1, <3>2
  <2>3. Nth(n) = {i}
    BY <2>2
  <2>4. Max({i}) = i
    <3>1. {i} \in SUBSET Nat /\ i \in Nat
      BY <1>4
    <3>2. Max({i}) \in {i}
      BY <3>1, GreatestNat
    <3> QED BY <3>2
  <2> QED BY <1>4, <1>7, <2>1, <2>3, <2>4
<1> HIDE DEF Nth
<1>11. Above(dir, 0) = dir
  <2>1. Behind(len + 1) = {}
    <3>1. \A k \in ends : ~(k > len + 1)
      BY <1>4
    <3> QED BY <3>1 DEF Behind
  <2>2. len + 1 \in Nth(0)
    BY <1>4, <2>1, FS_EmptySet DEF Nth
  <2>3. Above(dir, 0) = SubSeq(dir, 1, (len + 1) - 1)
    BY <1>10, <2>2
  <2> QED BY <1>1, <2>3 DEF Texts
<1>12. ASSUME NEW n \in Nat PROVE Above(dir, n) \in Texts
  <2>1. CASE Nth(n) = {}
    <3>1. <<>> \in Texts
      BY DEF Texts
    <3> QED BY <1>7, <2>1, <3>1
  <2>2. CASE Nth(n) # {}
    <3>1. PICK i \in Nth(n) : i \in 1 .. len + 1 /\ Above(dir, n) = SubSeq(dir, 1, i - 1)
      BY <1>10, <2>2
    <3>2. i - 1 \in Nat /\ i - 1 <= Len(dir)
      BY <1>1, <3>1
    <3> QED BY <3>1, <3>2, PartOf
  <2> QED BY <2>1, <2>2
<1>13. ASSUME NEW n \in Nat PROVE Above(dir, n + 1) = Popped(Above(dir, n))
  <2>1. CASE Nth(n) = {}
    <3>1. Nth(n + 1) = {}
      <4> SUFFICES ASSUME NEW i \in Nth(n + 1) PROVE FALSE
        OBVIOUS
      <4>1. i \in ends /\ Cardinality(Behind(i)) = n + 1
        BY DEF Nth
      <4>2. Behind(i) # {} /\ Behind(i) \in SUBSET Nat
        <5>1. Behind(i) \in SUBSET ends
          BY DEF Behind
        <5>2. Behind(i) # {}
          BY <4>1, FS_EmptySet
        <5> QED BY <1>4, <5>1, <5>2
      <4>3. PICK j \in Behind(i) : \A k \in Behind(i) : j <= k
        BY <4>2, LeastNat
      <4>4. j \in ends /\ i < j /\ \A k \in ends : ~(i < k /\ k < j)
        BY <1>4, <4>1, <4>3 DEF Behind
      <4>5. Cardinality(Behind(i)) = Cardinality(Behind(j)) + 1
        BY <1>8, <4>1, <4>4
      <4>6. Cardinality(Behind(j)) = n
        BY <1>6, <4>1, <4>5
      <4> QED BY <2>1, <4>4, <4>6 DEF Nth
    <3>2. Above(dir, n) = <<>> /\ Above(dir, n + 1) = <<>>
      BY <1>7, <2>1, <3>1
    <3>3. Seps(<<>>) = {}
      BY DEF Seps
    <3> QED BY <3>2, <3>3 DEF Popped, HasSep
  <2>2. CASE Nth(n) # {}
    <3>1. PICK j \in Nth(n) : j \in 1 .. len + 1 /\ Above(dir, n) = SubSeq(dir, 1, j - 1)
      BY <1>10, <2>2
    <3>2. j \in ends /\ Cardinality(Behind(j)) = n
      BY DEF Nth
    <3>3. PICK text \in Texts : text = SubSeq(dir, 1, j - 1) /\ text = Above(dir, n)
      BY <1>12, <3>1
    <3>4. Len(text) = j - 1 /\ \A i \in 1 .. j - 1 : text[i] = dir[i]
      <4>1. j - 1 \in Nat /\ j - 1 <= Len(dir)
        BY <1>1, <3>1
      <4> QED BY <3>1, <3>3, <4>1 DEF Texts
    <3>5. Seps(text) = {i \in ends : i < j}
      <4>1. \A i \in Seps(text) : i \in 1 .. j - 1 /\ text[i] = Sep
        BY <3>3, <3>4, SepsAre
      <4>2. \A i \in 1 .. j - 1 : i \in Seps(text) <=> text[i] = Sep
        BY <3>3, <3>4, SepsAre
      <4>3. \A i \in 1 .. j - 1 : i \in ends <=> dir[i] = Sep
        BY <1>2, <1>3, <3>1
      <4>4. ASSUME NEW i PROVE i \in Seps(text) <=> i \in ends /\ i < j
        <5>1. i \in ends /\ i < j => i \in 1 .. j - 1
          BY <1>4, <3>1
        <5>2. i \in 1 .. j - 1 => i < j
          BY <3>1
        <5> QED BY <3>4, <4>1, <4>2, <4>3, <5>1, <5>2
      <4> QED BY <4>4
    <3>6. CASE HasSep(text)
      <4>1. PICK m \in Seps(text) : m = Max(Seps(text)) /\ \A i \in Seps(text) : i <= m
        BY <3>6, SepsAre
      <4>2. m \in ends /\ m < j /\ \A k \in ends : ~(m < k /\ k < j)
        <5>1. m \in ends /\ m < j /\ \A k \in ends : k < j => k <= m
          BY <3>5, <4>1
        <5>2. \A k \in ends : k <= m => ~(m < k)
          BY <1>4, <5>1
        <5> QED BY <5>1, <5>2
      <4>3. Cardinality(Behind(m)) = n + 1
        BY <1>8, <3>2, <4>2
      <4>4. m \in Nth(n + 1)
        BY <4>2, <4>3 DEF Nth
      <4>5. Above(dir, n + 1) = SubSeq(dir, 1, m - 1)
        BY <1>10, <4>4
      <4>6. Popped(text) = SubSeq(text, 1, m - 1)
        BY <3>6, <4>1 DEF Popped
      <4>7. SubSeq(text, 1, m - 1) = SubSeq(dir, 1, m - 1)
        <5>1. m - 1 \in Nat /\ m - 1 <= Len(text) /\ m - 1 <= Len(dir) /\ m - 1 <= j - 1
          BY <1>1, <1>4, <3>1, <3>4, <4>2
        <5>2. PICK a \in Texts, b \in Texts : a = SubSeq(text, 1, m - 1) /\ b = SubSeq(dir, 1, m - 1)
          <6>1. SubSeq(text, 1, m - 1) \in Texts /\ SubSeq(dir, 1, m - 1) \in Texts
            BY <5>1, PartOf
          <6> QED BY <6>1
        <5>3. Len(a) = m - 1 /\ Len(b) = m - 1
              /\ \A i \in 1 .. m - 1 : a[i] = text[i] /\ b[i] = dir[i]
          BY <5>1, <5>2 DEF Texts
        <5>4. \A i \in 1 .. m - 1 : a[i] = b[i]
          BY <3>1, <3>4, <5>1, <5>3
        <5> QED BY <5>2, <5>3, <5>4, SameTexts
      <4> QED BY <3>3, <4>5, <4>6, <4>7
    <3>7. CASE ~HasSep(text)
      <4>1. Nth(n + 1) = {}
        <5> SUFFICES ASSUME NEW i \in Nth(n + 1) PROVE FALSE
          OBVIOUS
        <5>1. i \in ends /\ Cardinality(Behind(i)) = n + 1
          BY DEF Nth
        <5>2. ~(i < j)
          BY <3>5, <3>7, <5>1 DEF HasSep
        <5>3. i = j \/ j < i
          BY <1>4, <3>2, <5>1, <5>2
        <5>4. Cardinality(Behind(i)) <= n
          BY <1>6, <1>9, <3>2, <5>1, <5>3
        <5> QED BY <5>1, <5>4
      <4>2. Above(dir, n + 1) = <<>>
        BY <1>7, <4>1
      <4> QED BY <3>3, <3>7, <4>2 DEF Popped
    <3> QED BY <3>6, <3>7
  <2> QED BY <2>1, <2>2
<1> QED BY <1>11, <1>12, <1>13

\* The first n names of an argument are "..".
UpTo(text, n) ==
    /\ 3 * n <= Len(text) + 1
    /\ \A i \in 1 .. 3 * n : Append(text, Sep)[i] = IF i % 3 = 0 THEN Sep ELSE "."

After(text, n) == SubSeq(text, 3 * n + 1, Len(text))

LEMMA AfterIs ==
    ASSUME NEW text \in Texts, NEW n \in Nat, 3 * n <= Len(text) + 1
    PROVE  /\ After(text, n) \in Texts
           /\ 3 * n <= Len(text) => Len(After(text, n)) = Len(text) - 3 * n
           /\ 3 * n > Len(text) => Len(After(text, n)) = 0
           /\ \A i \in 1 .. Len(text) - 3 * n : After(text, n)[i] = text[3 * n + i]
<1>1. PICK len \in Nat : len = Len(text)
  BY DEF Texts
<1>2. PICK m \in Nat : m = 3 * n
  OBVIOUS
<1>3. After(text, n) = SubSeq(text, m + 1, len)
  BY <1>1, <1>2 DEF After
<1>4. PICK w : w = SubSeq(text, m + 1, len)
  OBVIOUS
<1>5. w \in Texts
  BY <1>1, <1>4, PartOf
<1>6. m <= len => Len(w) = len - m
  <2>1. m + 1 <= len => Len(w) = len - (m + 1) + 1
    BY <1>1, <1>4, PartOf
  <2>2. m = len => w = <<>>
    BY <1>1, <1>4, PartOf
  <2>3. m = len => Len(w) = 0
    BY <2>2
  <2> QED BY <2>1, <2>3
<1>7. m > len => Len(w) = 0
  <2>1. m > len => w = <<>>
    BY <1>1, <1>4, PartOf
  <2> QED BY <2>1
<1>8. \A i \in 1 .. len - m : w[i] = text[m + i]
  <2>1. \A i \in 1 .. len - (m + 1) + 1 : w[i] = text[(m + 1) + i - 1]
    BY <1>1, <1>4, PartOf
  <2>2. len - (m + 1) + 1 = len - m /\ \A i \in Nat : (m + 1) + i - 1 = m + i
    OBVIOUS
  <2> QED BY <2>1, <2>2
<1> QED BY <1>1, <1>2, <1>3, <1>4, <1>5, <1>6, <1>7, <1>8

LEMMA EndedIs ==
    ASSUME NEW text \in Texts
    PROVE  /\ Append(text, Sep) \in Texts
           /\ Len(Append(text, Sep)) = Len(text) + 1 /\ Append(text, Sep)[Len(text) + 1] = Sep
           /\ \A i \in 1 .. Len(text) : Append(text, Sep)[i] = text[i]
<1>1. PICK c \in Letter : c = Sep
  BY LettersAre
<1>2. PICK w \in Seq(Letter) : w = text
  BY DEF Texts
<1>3. /\ Append(w, c) \in Seq(Letter)
      /\ Len(Append(w, c)) = Len(w) + 1 /\ Append(w, c)[Len(w) + 1] = c
      /\ \A i \in 1 .. Len(w) : Append(w, c)[i] = w[i]
  OBVIOUS
<1> QED BY <1>1, <1>2, <1>3 DEF Texts

LEMMA OneMoreUp ==
    ASSUME NEW text \in Texts, NEW n \in Nat, UpTo(text, n)
    PROVE  UpTo(text, n + 1) <=> GoesUp(After(text, n))
<1>1. PICK len \in Nat : len = Len(text)
  BY DEF Texts
<1>2. PICK m \in Nat : m = 3 * n /\ 3 * (n + 1) = m + 3 /\ m <= len + 1
        /\ (m + 1) % 3 # 0 /\ (m + 2) % 3 # 0 /\ (m + 3) % 3 = 0
  BY <1>1 DEF UpTo
<1>3. PICK ended : /\ ended = Append(text, Sep) /\ ended[len + 1] = Sep
                   /\ \A i \in 1 .. len : ended[i] = text[i]
  <2>1. PICK ended : ended = Append(text, Sep)
    OBVIOUS
  <2>2. ended[len + 1] = Sep /\ \A i \in 1 .. len : ended[i] = text[i]
    BY <1>1, <2>1, EndedIs
  <2> QED BY <2>1, <2>2
<1>4. UpTo(text, n + 1) <=> /\ m + 3 <= len + 1
                            /\ ended[m + 1] = "." /\ ended[m + 2] = "." /\ ended[m + 3] = Sep
  <2>1. UpTo(text, n + 1) <=> /\ m + 3 <= len + 1
                              /\ \A i \in 1 .. m + 3 : ended[i] = IF i % 3 = 0 THEN Sep ELSE "."
    BY <1>1, <1>2, <1>3 DEF UpTo
  <2>2. \A i \in 1 .. m : ended[i] = IF i % 3 = 0 THEN Sep ELSE "."
    BY <1>2, <1>3 DEF UpTo
  <2>3. \A i \in 1 .. m + 3 : i \in 1 .. m \/ i = m + 1 \/ i = m + 2 \/ i = m + 3
    OBVIOUS
  <2>4. m + 1 \in 1 .. m + 3 /\ m + 2 \in 1 .. m + 3 /\ m + 3 \in 1 .. m + 3
    OBVIOUS
  <2>5. ASSUME \A i \in 1 .. m + 3 : ended[i] = IF i % 3 = 0 THEN Sep ELSE "."
        PROVE  ended[m + 1] = "." /\ ended[m + 2] = "." /\ ended[m + 3] = Sep
    BY <1>2, <2>4, <2>5
  <2>6. ASSUME ended[m + 1] = ".", ended[m + 2] = ".", ended[m + 3] = Sep, NEW i \in 1 .. m + 3
        PROVE  ended[i] = IF i % 3 = 0 THEN Sep ELSE "."
    BY <1>2, <2>2, <2>3, <2>6
  <2> QED BY <2>1, <2>5, <2>6
<1>5. PICK rest \in Texts :
        /\ rest = After(text, n)
        /\ m <= len => Len(rest) = len - m
        /\ m > len => Len(rest) = 0
        /\ \A i \in 1 .. len - m : rest[i] = text[m + i]
  BY <1>1, <1>2, AfterIs
<1>6. PICK l \in Nat : l = Len(rest)
  BY DEF Texts
<1>7. l >= 2 <=> m + 3 <= len + 1
  BY <1>2, <1>5, <1>6
<1>8. ASSUME m + 3 <= len + 1
      PROVE  /\ rest[1] = ended[m + 1] /\ rest[2] = ended[m + 2]
             /\ l = 2 => ended[m + 3] = Sep
             /\ l # 2 => rest[3] = ended[m + 3]
  <2>1. l = len - m /\ 1 \in 1 .. len - m /\ 2 \in 1 .. len - m /\ (l # 2 => 3 \in 1 .. len - m)
    BY <1>5, <1>6, <1>8
  <2>2. l = 2 => m + 3 = len + 1
    BY <2>1
  <2>3. m + 1 \in 1 .. len /\ m + 2 \in 1 .. len /\ (l # 2 => m + 3 \in 1 .. len)
    BY <1>8, <2>1
  <2> QED BY <1>3, <1>5, <2>1, <2>2, <2>3
<1>9. GoesUp(rest) <=> l >= 2 /\ rest[1] = "." /\ rest[2] = "." /\ (l = 2 \/ rest[3] = Sep)
  BY <1>6, GoesUpIs
<1> QED BY <1>4, <1>5, <1>7, <1>8, <1>9

LEMMA UpsAre ==
    ASSUME NEW text \in Texts
    PROVE  /\ Ups(text) \in Nat /\ UpTo(text, Ups(text)) /\ ~UpTo(text, Ups(text) + 1)
           /\ \A n \in 0 .. Ups(text) : UpTo(text, n)
<1>1. PICK len \in Nat : len = Len(text) + 1
  BY DEF Texts
<1>2. PICK ended : ended = Append(text, Sep) /\ Len(ended) = len
  BY <1>1, EndedIs
<1>3. PICK U : U = {n \in Nat : UpTo(text, n)}
  OBVIOUS
<1>4. \A n \in Nat : n \in 0 .. len \div 3 <=> 3 * n <= len
  OBVIOUS
<1>5. U = {n \in 0 .. Len(ended) \div 3 :
             \A i \in 1 .. 3 * n : ended[i] = IF i % 3 = 0 THEN Sep ELSE "."}
  <2>1. 0 .. len \div 3 \in SUBSET Nat
    OBVIOUS
  <2> QED BY <1>1, <1>2, <1>3, <1>4, <2>1 DEF UpTo
<1>6. Ups(text) = Max(U)
  BY <1>2, <1>5 DEF Ups
<1>7. 0 \in U
  BY <1>1, <1>3 DEF UpTo
<1>8. U \in SUBSET Nat /\ \A n \in U : n <= len
  BY <1>1, <1>3 DEF UpTo
<1>9. PICK u \in U : u = Max(U) /\ \A n \in U : n <= u
  BY <1>7, <1>8, GreatestNat
<1>10. UpTo(text, u) /\ u \in Nat
  BY <1>3
<1>11. ~UpTo(text, u + 1)
  <2>1. u + 1 \in Nat /\ ~(u + 1 <= u)
    BY <1>10
  <2> QED BY <1>3, <1>9, <2>1
<1>12. ASSUME NEW n \in 0 .. u PROVE UpTo(text, n)
  <2>1. n \in Nat /\ 3 * n <= 3 * u /\ 3 * u \in Nat
    BY <1>10
  <2>2. 1 .. 3 * n \in SUBSET (1 .. 3 * u)
    BY <2>1
  <2>3. 3 * n <= Len(text) + 1
    BY <1>1, <1>10, <2>1 DEF UpTo
  <2> QED BY <1>10, <2>2, <2>3 DEF UpTo
<1> QED BY <1>6, <1>9, <1>10, <1>11, <1>12

\* What the loop over the leading ".." leaves: each takes a name off the
\* directory, and three characters off the argument.
LEMMA ClimbIs ==
    ASSUME NEW cwd \in Texts, NEW inp \in Texts
    PROVE  Climb(cwd, inp) = [cwd |-> Above(cwd, Ups(inp)), inp |-> After(inp, Ups(inp))]
<1>1. PICK n \in Nat : n = Len(inp)
  BY DEF Texts
<1>2. PICK u \in Nat : u = Ups(inp) /\ ~UpTo(inp, u + 1) /\ \A k \in 0 .. u : UpTo(inp, k)
  BY UpsAre
<1>3. PICK r : /\ r[0] = [cwd |-> cwd, inp |-> inp] /\ r[n] = Climb(cwd, inp)
               /\ \A k \in 1 .. n : r[k] = ClimbStep(r[k - 1])
  BY <1>1, ClimbRuns
<1> DEFINE Left(k) == [cwd |-> Above(cwd, k), inp |-> After(inp, k)]
<1>4. u <= n
  <2>1. 3 * u <= n + 1
    <3>1. UpTo(inp, u)
      BY <1>2
    <3> QED BY <1>1, <3>1 DEF UpTo
  <2> QED BY <2>1
<1>5. Left(0) = r[0]
  <2>1. After(inp, 0) = inp
    BY DEF After, Texts
  <2> QED BY <1>3, <2>1, AboveIs
<1>6. ASSUME NEW k \in 0 .. u
      PROVE  /\ Above(cwd, k) \in Texts /\ After(inp, k) \in Texts
             /\ k < u => GoesUp(After(inp, k))
             /\ k = u => ~GoesUp(After(inp, k))
  <2>1. k \in Nat /\ UpTo(inp, k) /\ 3 * k <= Len(inp) + 1
    BY <1>2 DEF UpTo
  <2>2. k < u => UpTo(inp, k + 1)
    <3>1. k < u => k + 1 \in 0 .. u
      OBVIOUS
    <3> QED BY <1>2, <3>1
  <2>3. k = u => ~UpTo(inp, k + 1)
    BY <1>2
  <2> QED BY <2>1, <2>2, <2>3, OneMoreUp, AfterIs, AboveIs
<1>7. ASSUME NEW k \in 0 .. u, k < u PROVE ClimbStep(Left(k)) = Left(k + 1)
  <2>1. GoesUp(After(inp, k)) /\ k \in Nat
    BY <1>6, <1>7
  <2>2. Above(cwd, k + 1) = Popped(Above(cwd, k))
    BY <2>1, AboveIs
  <2>3. SubSeq(After(inp, k), 4, Len(After(inp, k))) = After(inp, k + 1)
    <3>1. 3 * k + 1 \in Nat \ {0} /\ 3 * (k + 1) + 1 = (3 * k + 1) + 3 /\ 3 + 1 = 4
      BY <2>1
    <3>2. 3 * k + 1 <= Len(inp) + 1
      <4>1. k + 1 \in 0 .. u
        BY <1>7
      <4>2. 3 * (k + 1) <= n + 1
        BY <1>1, <1>2, <4>1 DEF UpTo
      <4> QED BY <1>1, <4>2
    <3>3. LET rest == SubSeq(inp, 3 * k + 1, Len(inp))
          IN  SubSeq(rest, 3 + 1, Len(rest)) = SubSeq(inp, (3 * k + 1) + 3, Len(inp))
      BY <3>1, <3>2, RestOfRest
    <3> QED BY <3>1, <3>3 DEF After
  <2> QED BY <2>1, <2>2, <2>3 DEF ClimbStep
<1>8. ClimbStep(Left(u)) = Left(u)
  BY <1>6 DEF ClimbStep
<1> HIDE DEF Left
<1> DEFINE K == {k \in Nat : k <= n => r[k] = Left(IF k <= u THEN k ELSE u)}
<1>9. 0 \in K
  BY <1>5
<1>10. ASSUME NEW k \in K PROVE k + 1 \in K
  <2> SUFFICES ASSUME k + 1 <= n PROVE r[k + 1] = Left(IF k + 1 <= u THEN k + 1 ELSE u)
    OBVIOUS
  <2>1. r[k + 1] = ClimbStep(r[k]) /\ r[k] = Left(IF k <= u THEN k ELSE u)
    BY <1>1, <1>3
  <2>2. CASE k < u
    <3>1. k \in 0 .. u /\ k <= u /\ k + 1 <= u
      BY <2>2
    <3>2. ClimbStep(Left(k)) = Left(k + 1)
      BY <1>7, <2>2, <3>1
    <3> QED BY <2>1, <3>1, <3>2
  <2>3. CASE k = u
    <3>1. ~(k + 1 <= u)
      BY <2>3
    <3> QED BY <1>8, <2>1, <2>3, <3>1
  <2>4. CASE k > u
    <3>1. ~(k <= u) /\ ~(k + 1 <= u)
      BY <2>4
    <3> QED BY <1>8, <2>1, <3>1
  <2> QED BY <2>2, <2>3, <2>4
<1> HIDE DEF K
<1>11. K = Nat
  <2>1. K \in SUBSET Nat
    BY DEF K
  <2> QED BY <1>9, <1>10, <2>1, AllNat
<1>12. r[n] = Left(IF n <= u THEN n ELSE u)
  BY <1>11 DEF K
<1>13. r[n] = Left(u)
  BY <1>4, <1>12
<1> QED BY <1>2, <1>3, <1>13 DEF Left

\* resolve_fs_path of any directory and any argument.
LEMMA ResolvesAsItSays ==
    ASSUME NEW cwd \in Texts, NEW arg \in Texts
    PROVE  LET n == Ups(arg)
               rest == SubSeq(arg, 3 * n + 1, Len(arg))
               base == IF HasSep(rest) THEN <<>> ELSE Above(cwd, n)
           IN  resolve_fs_path(cwd, arg) = Cut(Joined(base, rest), PathMax)
<1>1. PICK n : n = Ups(arg)
  OBVIOUS
<1>2. PICK rest : rest = SubSeq(arg, 3 * n + 1, Len(arg))
  OBVIOUS
<1>3. PICK dir : dir = Above(cwd, n)
  OBVIOUS
<1>4. n \in Nat /\ 3 * n <= Len(arg) + 1
  BY <1>1, UpsAre DEF UpTo
<1>5. dir \in Texts /\ rest \in Texts
  BY <1>2, <1>3, <1>4, AboveIs, AfterIs DEF After
<1>6. \A w \in Texts : <<>> \o w = w /\ w \o <<>> = w
  BY DEF Texts
<1>7. Climb(cwd, arg) = [cwd |-> dir, inp |-> rest]
  BY <1>1, <1>2, <1>3, ClimbIs DEF After
<1>8. resolve_fs_path(cwd, arg)
        = Cut(IF HasSep(rest) \/ dir = <<>> THEN rest
              ELSE dir \o (IF rest = <<>> THEN <<>> ELSE <<Sep>>) \o rest, PathMax)
  BY <1>7 DEF resolve_fs_path
<1>9. PICK base : base = IF HasSep(rest) THEN <<>> ELSE dir
  OBVIOUS
<1>10. Joined(base, rest) = IF HasSep(rest) \/ dir = <<>> THEN rest
                            ELSE dir \o (IF rest = <<>> THEN <<>> ELSE <<Sep>>) \o rest
  <2>1. CASE HasSep(rest) \/ dir = <<>>
    <3>1. base = <<>>
      BY <1>9, <2>1
    <3> QED BY <1>5, <1>6, <2>1, <3>1 DEF Joined
  <2>2. CASE ~(HasSep(rest) \/ dir = <<>>)
    <3>1. base = dir /\ dir # <<>>
      BY <1>9, <2>2
    <3>2. CASE rest = <<>>
      <4>1. dir \o <<>> = dir
        BY <1>5, <1>6
      <4> QED BY <2>2, <3>1, <3>2, <4>1 DEF Joined
    <3>3. CASE rest # <<>>
      BY <2>2, <3>1, <3>3 DEF Joined
    <3> QED BY <3>2, <3>3
  <2> QED BY <2>1, <2>2
<1> QED BY <1>1, <1>2, <1>3, <1>8, <1>9, <1>10

LEMMA TouchResolves ==
    ASSUME NEW cwd \in Texts, NEW arg \in Texts, arg # <<>>, Ups(arg) = 0
    PROVE  TouchPath(cwd, arg) = resolve_fs_path(cwd, arg)
<1>1. After(arg, 0) = arg
  BY DEF After, Texts
<1>2. Climb(cwd, arg) = [cwd |-> cwd, inp |-> arg]
  BY <1>1, ClimbIs, AboveIs
<1> QED BY <1>2 DEF resolve_fs_path, TouchPath

-----------------------------------------------------------------------------
(* The words of a line *)

\* split, after i rounds of its loop.
Splits == [start : Nat \ {0}, parts : Seq(Texts)]

LEMMA SplitStepIs ==
    ASSUME NEW s \in Texts, NEW state \in Splits, NEW i \in 1 .. Len(s) + 1
    PROVE  SplitStep(s, state, i) \in Splits
<1>1. PICK len \in Nat : len = Len(s)
  BY DEF Texts
<1>2. PICK start \in Nat \ {0}, parts \in Seq(Texts) : start = state.start /\ parts = state.parts
  BY DEF Splits
<1>3. SubSeq(s, start, i - 1) \in Texts
  <2>1. i - 1 \in Nat /\ i - 1 <= Len(s)
    BY <1>1
  <2> QED BY <2>1, PartOf
<1>4. Append(parts, SubSeq(s, start, i - 1)) \in Seq(Texts)
  BY <1>3
<1>5. i + 1 \in Nat \ {0}
  BY <1>1
<1> QED BY <1>2, <1>4, <1>5 DEF SplitStep, Splits

LEMMA SplitRuns ==
    ASSUME NEW s \in Texts
    PROVE  \E r : /\ r[0] = [start |-> 1, parts |-> <<>>] /\ split(s) = r[Len(s) + 1].parts
                  /\ \A k \in 0 .. Len(s) + 1 : r[k] \in Splits
                  /\ \A k \in 1 .. Len(s) + 1 : r[k] = SplitStep(s, r[k - 1], k)
<1>1. PICK n \in Nat : n = Len(s) + 1
  BY DEF Texts
<1>2. PICK base \in Splits : base = [start |-> 1, parts |-> <<>>]
  <2>1. 1 \in Nat \ {0} /\ <<>> \in Seq(Texts)
    OBVIOUS
  <2> QED BY <2>1 DEF Splits
<1>3. PICK rounds, indices : rounds = [i \in 1 .. n |-> i] /\ indices = 1 .. n
  OBVIOUS
<1> DEFINE step == [z \in Splits \X indices |-> SplitStep(s, z[1], z[2])]
<1>4. step \in [Splits \X indices -> Splits]
  BY <1>1, <1>3, SplitStepIs
<1>5. \A z \in Splits, i \in indices : step[<<z, i>>] = SplitStep(s, z, i)
  OBVIOUS
<1> HIDE DEF step
<1> DEFINE Runs(iter) ==
             iter = [S \in SUBSET (1 .. n) |-> IF S = {} THEN base
                                               ELSE SplitStep(s, iter[S \ {Max(S)}], rounds[Max(S)])]
<1>6. PICK f \in [SUBSET (1 .. n) -> Splits] : FoldsTo(f, n, base, step, rounds)
  <2>1. \A i \in 1 .. n : rounds[i] \in indices
    BY <1>3
  <2> QED BY <1>4, <2>1, FoldExists, Zenon
<1>7. ASSUME NEW S \in SUBSET (1 .. n), S # {} PROVE Max(S) \in S
  <2>1. S \in SUBSET Nat /\ \A i \in S : i <= n
    OBVIOUS
  <2> QED BY <1>7, <2>1, GreatestNat
<1>8. \E iter : Runs(iter)
  <2>1. ASSUME NEW S \in SUBSET (1 .. n)
        PROVE  f[S] = IF S = {} THEN base ELSE SplitStep(s, f[S \ {Max(S)}], rounds[Max(S)])
    <3>1. f[S] = IF S = {} THEN base ELSE step[<<f[S \ {Max(S)}], rounds[Max(S)]>>]
      BY <1>6 DEF FoldsTo
    <3>2. CASE S # {}
      <4>1. rounds[Max(S)] \in indices /\ f[S \ {Max(S)}] \in Splits
        BY <1>3, <1>7, <3>2
      <4> QED BY <1>5, <3>1, <3>2, <4>1
    <3> QED BY <3>1, <3>2
  <2>2. Runs(f)
    BY <2>1
  <2> QED BY <2>2
<1>9. PICK g : g = (CHOOSE iter : Runs(iter))
  OBVIOUS
<1>10. Runs(g)
  BY <1>8, <1>9
<1>11. split(s) = g[1 .. n].parts
  <2>1. DOMAIN rounds = 1 .. n
    BY <1>3
  <2>2. split(s) =
          (CHOOSE iter : iter = [S \in SUBSET DOMAIN rounds |->
              IF S = {} THEN base
              ELSE SplitStep(s, iter[S \ {Max(S)}], rounds[Max(S)])])[DOMAIN rounds].parts
    BY <1>1, <1>2, <1>3 DEF split, FoldLeft, MapThenFoldSet
  <2> QED BY <1>9, <2>1, <2>2
<1>12. g[1 .. 0] = base
  BY <1>10
<1>13. ASSUME NEW k \in 1 .. n PROVE g[1 .. k] = SplitStep(s, g[1 .. (k - 1)], k)
  <2>1. PICK S : S = 1 .. k
    OBVIOUS
  <2>2. k - 1 \in Nat /\ S \in SUBSET (1 .. (k - 1) + 1) /\ (k - 1) + 1 \in S /\ (k - 1) + 1 = k
    BY <1>1, <2>1
  <2>3. Max(S) = k
    BY <2>2, MaxAt
  <2>4. S \ {k} = 1 .. (k - 1) /\ S # {} /\ S \in SUBSET (1 .. n)
    BY <1>1, <2>1
  <2>5. g[S] = SplitStep(s, g[S \ {Max(S)}], rounds[Max(S)])
    BY <1>10, <2>4
  <2> QED BY <1>3, <2>1, <2>3, <2>4, <2>5
<1> DEFINE r == [k \in 0 .. n |-> g[1 .. k]]
<1>14. r[0] = base /\ split(s) = r[n].parts
  BY <1>1, <1>11, <1>12
<1>15. \A k \in 1 .. n : r[k] = SplitStep(s, r[k - 1], k)
  BY <1>1, <1>13
<1> HIDE DEF r, Runs
<1>16. \A k \in 0 .. n : r[k] \in Splits
  <2> DEFINE K == {k \in Nat : k <= n => r[k] \in Splits}
  <2>1. 0 \in K
    BY <1>14
  <2>2. ASSUME NEW k \in K PROVE k + 1 \in K
    <3> SUFFICES ASSUME k + 1 <= n PROVE r[k + 1] \in Splits
      OBVIOUS
    <3>1. r[k] \in Splits /\ k + 1 \in 1 .. Len(s) + 1 /\ k + 1 \in 1 .. n
      BY <1>1
    <3>2. r[k + 1] = SplitStep(s, r[k], k + 1)
      BY <1>15, <3>1
    <3> QED BY <3>1, <3>2, SplitStepIs
  <2> HIDE DEF K
  <2>3. K = Nat
    <3>1. K \in SUBSET Nat
      BY DEF K
    <3> QED BY <2>1, <2>2, <3>1, AllNat
  <2> QED BY <1>1, <2>3 DEF K
<1> QED BY <1>1, <1>2, <1>14, <1>15, <1>16

Lines == {s \in Texts : \A i \in 1 .. Len(s) : s[i] # Zero}

\* Where a word cannot be, where one begins, and where it ends.
Gap(s, i) == AtChar(s, i) \in {Space, Zero}
BeginsOf(s) == {i \in 1 .. Len(s) : s[i] # Space /\ Gap(s, i - 1)}
Before(s, i) == {b \in BeginsOf(s) : b < i}
EndOf(s, i) == Min({k \in i .. Len(s) : Gap(s, k + 1)})
Number(s, b) == Cardinality({k \in BeginsOf(s) : k <= b})

LEMMA GapIs ==
    ASSUME NEW s \in Lines
    PROVE  /\ s \in Texts /\ Len(s) \in Nat /\ DOMAIN s = 1 .. Len(s)
           /\ \A i \in 1 .. Len(s) : s[i] # Zero /\ (Gap(s, i) <=> s[i] = Space)
           /\ Gap(s, 0) /\ Gap(s, Len(s) + 1)
<1>1. s \in Texts /\ Len(s) \in Nat /\ DOMAIN s = 1 .. Len(s) /\ \A i \in 1 .. Len(s) : s[i] # Zero
  BY DEF Lines, Texts
<1>2. 0 \notin 1 .. Len(s) /\ Len(s) + 1 \notin 1 .. Len(s)
  BY <1>1
<1> QED BY <1>1, <1>2 DEF Gap, AtChar

LEMMA BeforeIs ==
    ASSUME NEW s \in Lines
    PROVE  /\ BeginsOf(s) \in SUBSET (1 .. Len(s)) /\ IsFiniteSet(BeginsOf(s))
           /\ \A i : IsFiniteSet(Before(s, i)) /\ Cardinality(Before(s, i)) \in Nat
           /\ Before(s, 1) = {} /\ Before(s, Len(s) + 2) = BeginsOf(s)
           /\ \A i : Number(s, i) \in Nat
           /\ \A i \in BeginsOf(s) :
                /\ i \notin Before(s, i)
                /\ {k \in BeginsOf(s) : k <= i} = Before(s, i) \union {i}
                /\ Number(s, i) = Cardinality(Before(s, i)) + 1
           /\ \A i \in BeginsOf(s) : \A j \in Nat :
                i < j => Number(s, i) \in 1 .. Cardinality(Before(s, j))
<1>1. Len(s) \in Nat
  BY GapIs
<1>2. BeginsOf(s) \in SUBSET (1 .. Len(s)) /\ IsFiniteSet(BeginsOf(s))
      /\ \A i \in BeginsOf(s) : i \in Nat /\ 1 <= i /\ i <= Len(s)
  <2>1. BeginsOf(s) \in SUBSET (1 .. Len(s))
    BY DEF BeginsOf
  <2>2. IsFiniteSet(1 .. Len(s))
    BY <1>1, FS_Interval
  <2> QED BY <1>1, <2>1, <2>2, FS_Subset
<1>3. ASSUME NEW i PROVE IsFiniteSet(Before(s, i)) /\ Cardinality(Before(s, i)) \in Nat
  <2>1. Before(s, i) \in SUBSET BeginsOf(s)
    BY DEF Before
  <2> QED BY <1>2, <2>1, FS_Subset, FS_CardinalityType
<1>4. Before(s, 1) = {} /\ Before(s, Len(s) + 2) = BeginsOf(s)
  <2>1. \A i \in BeginsOf(s) : ~(i < 1) /\ i < Len(s) + 2
    BY <1>1, <1>2
  <2> QED BY <2>1 DEF Before
<1>5. ASSUME NEW i PROVE Number(s, i) \in Nat
  <2>1. {k \in BeginsOf(s) : k <= i} \in SUBSET BeginsOf(s)
    OBVIOUS
  <2> QED BY <1>2, <2>1, FS_Subset, FS_CardinalityType DEF Number
<1>6. ASSUME NEW i \in BeginsOf(s)
      PROVE  /\ i \notin Before(s, i)
             /\ {k \in BeginsOf(s) : k <= i} = Before(s, i) \union {i}
             /\ Number(s, i) = Cardinality(Before(s, i)) + 1
  <2>1. \A k \in BeginsOf(s) : k <= i <=> k < i \/ k = i
    BY <1>2
  <2>2. {k \in BeginsOf(s) : k <= i} = Before(s, i) \union {i}
    BY <2>1 DEF Before
  <2>3. i \notin Before(s, i)
    BY <1>2 DEF Before
  <2> QED BY <1>3, <2>2, <2>3, FS_AddElement DEF Number
<1>7. ASSUME NEW i \in BeginsOf(s), NEW j \in Nat, i < j
      PROVE  Number(s, i) \in 1 .. Cardinality(Before(s, j))
  <2>1. \A k \in BeginsOf(s) : k <= i => k < j
    BY <1>2, <1>7
  <2>2. {k \in BeginsOf(s) : k <= i} \in SUBSET Before(s, j)
    BY <2>1 DEF Before
  <2>3. Number(s, i) <= Cardinality(Before(s, j))
    BY <1>3, <2>2, FS_Subset DEF Number
  <2>4. Number(s, i) >= 1
    BY <1>3, <1>6
  <2> QED BY <1>3, <1>5, <2>3, <2>4
<1> QED BY <1>2, <1>3, <1>4, <1>5, <1>6, <1>7

\* After k rounds: what is taken apart, and the word that has begun.
Taken(s, state, k) ==
    LET start == state.start
        parts == state.parts
    IN  /\ start <= k + 1 /\ Gap(s, start - 1)
        /\ \A j \in start .. k : ~Gap(s, j)
        /\ Len(parts) = Cardinality(Before(s, start))
        /\ \A b \in Before(s, start) : parts[Number(s, b)] = SubSeq(s, b, EndOf(s, b))
        /\ \A i \in 1 .. Len(parts) : parts[i] # <<>>

LEMMA TakeWord ==
    ASSUME NEW s \in Lines, NEW state \in Splits, NEW k \in 0 .. Len(s), Taken(s, state, k)
    PROVE  Taken(s, SplitStep(s, state, k + 1), k + 1)
<1>1. PICK len \in Nat : len = Len(s)
  BY GapIs
<1>2. PICK start \in Nat \ {0}, parts \in Seq(Texts) : state = [start |-> start, parts |-> parts]
  BY DEF Splits
<1>3. state.start = start /\ state.parts = parts
  BY <1>2
<1>4. PICK i \in Nat \ {0} : i = k + 1 /\ i <= len + 1 /\ k \in Nat
  BY <1>1
<1>5. /\ start <= i /\ Gap(s, start - 1)
      /\ \A j \in start .. k : ~Gap(s, j)
      /\ Len(parts) = Cardinality(Before(s, start))
      /\ \A b \in Before(s, start) : parts[Number(s, b)] = SubSeq(s, b, EndOf(s, b))
      /\ \A j \in 1 .. Len(parts) : parts[j] # <<>>
  BY <1>3, <1>4 DEF Taken
<1>6. /\ \A j \in 1 .. len : s[j] # Zero /\ (Gap(s, j) <=> s[j] = Space)
      /\ BeginsOf(s) = {j \in 1 .. len : s[j] # Space /\ Gap(s, j - 1)}
  BY <1>1, GapIs DEF BeginsOf
<1>7. PICK new : new = SplitStep(s, state, i)
  OBVIOUS
<1>8. CASE ~Gap(s, i)
  <2>1. new = state
    BY <1>7, <1>8 DEF SplitStep, Gap
  <2>2. \A j \in start .. i : ~Gap(s, j)
    <3>1. \A j \in start .. i : j \in start .. k \/ j = i
      BY <1>4
    <3> QED BY <1>5, <1>8, <3>1
  <2>3. start <= i + 1
    BY <1>4, <1>5
  <2> QED BY <1>3, <1>4, <1>5, <1>7, <2>1, <2>2, <2>3 DEF Taken
<1>9. CASE Gap(s, i) /\ i = start
  <2>1. new = [start |-> i + 1, parts |-> parts]
    <3>1. ~(i > start)
      BY <1>4, <1>9
    <3> QED BY <1>3, <1>7, <1>9, <3>1 DEF SplitStep, Gap
  <2>2. new.start = i + 1 /\ new.parts = parts
    BY <2>1
  <2>3. i \notin BeginsOf(s)
    BY <1>6, <1>9
  <2>4. Before(s, i + 1) = Before(s, i)
    <3>1. \A b \in BeginsOf(s) : b < i + 1 <=> b < i
      BY <1>4, <1>6, <2>3
    <3> QED BY <3>1 DEF Before
  <2>5. (i + 1) - 1 = i /\ i + 1 <= i + 1 /\ \A j \in i + 1 .. i : FALSE
    BY <1>4
  <2> QED BY <1>4, <1>5, <1>7, <1>9, <2>2, <2>4, <2>5 DEF Taken
<1>10. CASE Gap(s, i) /\ i > start
  <2>1. PICK word \in Texts : word = SubSeq(s, start, i - 1) /\ word # <<>>
    <3>1. i - 1 \in Nat /\ i - 1 <= Len(s) /\ start <= i - 1
      BY <1>1, <1>4, <1>10
    <3>2. SubSeq(s, start, i - 1) \in Texts /\ Len(SubSeq(s, start, i - 1)) = (i - 1) - start + 1
      BY <3>1, PartOf, GapIs
    <3>3. PICK word \in Texts : word = SubSeq(s, start, i - 1)
      BY <3>2
    <3>4. Len(word) # 0
      BY <3>1, <3>2, <3>3
    <3>5. word # <<>>
      BY <3>4
    <3> QED BY <3>3, <3>5
  <2>2. PICK more \in Seq(Texts) :
          /\ more = Append(parts, word) /\ Len(more) = Len(parts) + 1 /\ more[Len(parts) + 1] = word
          /\ \A j \in 1 .. Len(parts) : more[j] = parts[j]
    <3>1. PICK more : more = Append(parts, word)
      OBVIOUS
    <3>2. more \in Seq(Texts) /\ Len(more) = Len(parts) + 1
      BY <3>1
    <3>3. more[Len(parts) + 1] = word
      BY <3>1
    <3>4. \A j \in 1 .. Len(parts) : more[j] = parts[j]
      BY <3>1
    <3> QED BY <3>1, <3>2, <3>3, <3>4
  <2>3. new.start = i + 1 /\ new.parts = more
    <3>1. new = [start |-> i + 1, parts |-> more]
      BY <1>3, <1>7, <1>10, <2>1, <2>2 DEF SplitStep, Gap
    <3> QED BY <3>1
  <2>4. start \in BeginsOf(s)
    <3>1. start \in 1 .. len /\ start \in start .. k
      BY <1>4, <1>10
    <3> QED BY <1>5, <1>6, <3>1
  <2>5. Before(s, i + 1) = Before(s, start) \union {start}
    <3>1. ASSUME NEW b \in BeginsOf(s), start < b, b < i + 1 PROVE FALSE
      <4>1. b \in Nat /\ b - 1 \in start .. k /\ Gap(s, b - 1)
        BY <1>4, <1>6, <3>1
      <4> QED BY <1>5, <4>1
    <3>2. \A b \in BeginsOf(s) : b < i + 1 <=> b < start \/ b = start
      <4>1. \A b \in BeginsOf(s) : b \in Nat
        BY <1>6
      <4> QED BY <1>4, <1>10, <3>1, <4>1
    <3> QED BY <2>4, <3>2 DEF Before
  <2>6. EndOf(s, start) = i - 1
    <3>1. PICK E : E = {j \in start .. len : Gap(s, j + 1)}
      OBVIOUS
    <3>2. i - 1 \in E /\ E \in SUBSET Nat
      <4>1. i - 1 \in start .. len /\ (i - 1) + 1 = i
        BY <1>4, <1>10
      <4> QED BY <1>10, <3>1, <4>1
    <3>3. ASSUME NEW j \in E, j < i - 1 PROVE FALSE
      <4>1. j + 1 \in start .. k /\ Gap(s, j + 1)
        BY <1>4, <3>1, <3>3
      <4> QED BY <1>5, <4>1
    <3>4. PICK m \in E : m = Min(E) /\ \A j \in E : m <= j
      BY <3>2, LeastNat
    <3>5. m = i - 1
      <4>1. m \in Nat /\ i - 1 \in Nat /\ m <= i - 1 /\ ~(m < i - 1)
        BY <1>4, <3>2, <3>3, <3>4
      <4> QED BY <4>1
    <3> QED BY <1>1, <3>1, <3>4, <3>5 DEF EndOf
  <2>7. Cardinality(Before(s, i + 1)) = Len(more) /\ Number(s, start) = Len(parts) + 1
    <3>1. start \notin Before(s, start) /\ IsFiniteSet(Before(s, start))
          /\ Number(s, start) = Cardinality(Before(s, start)) + 1
      BY <2>4, BeforeIs
    <3>2. Cardinality(Before(s, start) \union {start}) = Cardinality(Before(s, start)) + 1
      BY <3>1, FS_AddElement
    <3> QED BY <1>5, <2>2, <2>5, <3>1, <3>2
  <2>8. ASSUME NEW b \in Before(s, i + 1) PROVE more[Number(s, b)] = SubSeq(s, b, EndOf(s, b))
    <3>1. CASE b = start
      BY <2>1, <2>2, <2>6, <2>7, <3>1
    <3>2. CASE b \in Before(s, start)
      <4>1. Number(s, b) \in 1 .. Len(parts)
        BY <1>5, <3>2, BeforeIs DEF Before
      <4> QED BY <1>5, <2>2, <3>2, <4>1
    <3> QED BY <2>5, <3>1, <3>2
  <2>9. ASSUME NEW j \in 1 .. Len(more) PROVE more[j] # <<>>
    <3>1. j \in 1 .. Len(parts) \/ j = Len(parts) + 1
      BY <2>2
    <3> QED BY <1>5, <2>1, <2>2, <3>1
  <2>10. (i + 1) - 1 = i /\ i + 1 <= i + 1 /\ \A j \in i + 1 .. i : FALSE
    BY <1>4
  <2> QED BY <1>4, <1>7, <1>10, <2>3, <2>7, <2>8, <2>9, <2>10 DEF Taken
<1> QED BY <1>4, <1>5, <1>8, <1>9, <1>10

LEMMA SplitIs ==
    ASSUME NEW s \in Lines
    PROVE  /\ split(s) \in Seq(Texts) /\ Len(split(s)) = Cardinality(BeginsOf(s))
           /\ \A b \in BeginsOf(s) : split(s)[Number(s, b)] = SubSeq(s, b, EndOf(s, b))
           /\ \A i \in 1 .. Len(split(s)) : split(s)[i] # <<>>
<1>1. PICK len \in Nat : len = Len(s)
  BY GapIs
<1>2. PICK r : /\ r[0] = [start |-> 1, parts |-> <<>>] /\ split(s) = r[len + 1].parts
               /\ \A k \in 0 .. len + 1 : r[k] \in Splits
               /\ \A k \in 1 .. len + 1 : r[k] = SplitStep(s, r[k - 1], k)
  <2>1. s \in Texts
    BY GapIs
  <2>2. PICK r : /\ r[0] = [start |-> 1, parts |-> <<>>] /\ split(s) = r[Len(s) + 1].parts
                 /\ \A k \in 0 .. Len(s) + 1 : r[k] \in Splits
                 /\ \A k \in 1 .. Len(s) + 1 : r[k] = SplitStep(s, r[k - 1], k)
    BY <2>1, SplitRuns
  <2> QED BY <1>1, <2>2
<1> DEFINE K == {k \in Nat : k <= len + 1 => Taken(s, r[k], k)}
<1>3. 0 \in K
  <2>1. r[0].start = 1 /\ r[0].parts = <<>> /\ Len(<<>>) = 0
    BY <1>2
  <2>2. Before(s, 1) = {} /\ Cardinality({}) = 0
    BY BeforeIs, FS_EmptySet
  <2>3. 1 <= 0 + 1 /\ 1 - 1 = 0 /\ (\A j \in 1 .. 0 : FALSE)
    OBVIOUS
  <2>4. Gap(s, 0)
    BY GapIs
  <2>5. Taken(s, r[0], 0)
    BY <2>1, <2>2, <2>3, <2>4 DEF Taken
  <2> QED BY <2>5
<1>4. ASSUME NEW k \in K PROVE k + 1 \in K
  <2> SUFFICES ASSUME k + 1 <= len + 1 PROVE Taken(s, r[k + 1], k + 1)
    OBVIOUS
  <2>1. k \in 0 .. Len(s) /\ k \in 0 .. len + 1 /\ k + 1 \in 1 .. len + 1 /\ (k + 1) - 1 = k
    BY <1>1
  <2>2. r[k] \in Splits /\ Taken(s, r[k], k)
    BY <1>2, <2>1
  <2>3. r[k + 1] = SplitStep(s, r[k], k + 1)
    BY <1>2, <2>1
  <2> QED BY <2>1, <2>2, <2>3, TakeWord
<1> HIDE DEF K
<1>5. K = Nat
  <2>1. K \in SUBSET Nat
    BY DEF K
  <2> QED BY <1>3, <1>4, <2>1, AllNat
<1>6. PICK state \in Splits : state = r[len + 1] /\ Taken(s, state, len + 1)
  BY <1>2, <1>5 DEF K
<1>7. PICK start \in Nat \ {0}, parts \in Seq(Texts) :
        state.start = start /\ state.parts = parts /\ split(s) = parts
  BY <1>2, <1>6 DEF Splits
<1>8. start = Len(s) + 2
  <2>1. start <= (len + 1) + 1 /\ \A j \in start .. len + 1 : ~Gap(s, j)
    BY <1>6, <1>7 DEF Taken
  <2>2. Gap(s, len + 1)
    BY <1>1, GapIs
  <2>3. ~(start <= len + 1)
    BY <2>1, <2>2
  <2> QED BY <1>1, <2>1, <2>3
<1>9. Before(s, start) = BeginsOf(s)
  BY <1>8, BeforeIs
<1> QED BY <1>6, <1>7, <1>9 DEF Taken

LEMMA LineIs ==
    ASSUME typed \in Typed \union {<<>>}
    PROVE  /\ typed \in Texts /\ Line \in Lines /\ Len(Line) = Len(typed) + 2
           /\ Line[1] = "c" /\ Line[2] = Space /\ Space # "c"
           /\ \A i \in 1 .. Len(typed) : Line[i + 2] = typed[i]
           /\ \A i \in 1 .. Len(typed) : typed[i] # Zero
<1>1. PICK t \in Seq(STRING \ {Zero}) : t = typed
  <2>1. Typed \in SUBSET Seq(STRING \ {Zero}) /\ <<>> \in Seq(STRING \ {Zero})
    BY PathTextAssumption
  <2> QED BY <2>1
<1>2. t \in Texts /\ Len(t) \in Nat /\ \A i \in 1 .. Len(t) : t[i] # Zero
  BY DEF Texts, Letter
<1>3. Space \in Letter /\ "c" \in Letter /\ Space # Zero /\ Space # "c" /\ "c" # Zero
  BY PathTextAssumption DEF Letter, Zero
<1>4. PICK first \in Texts : /\ first = <<"c", Space>> /\ Len(first) = 2
                             /\ first[1] = "c" /\ first[2] = Space
  <2>1. <<"c", Space>> \in Seq(Letter)
    BY <1>3
  <2> QED BY <2>1 DEF Texts
<1>5. PICK w \in Texts : /\ w = first \o t /\ Len(w) = 2 + Len(t)
                         /\ w[1] = "c" /\ w[2] = Space
                         /\ \A i \in 1 .. Len(t) : w[2 + i] = t[i]
  <2>1. PICK a \in Seq(Letter), b \in Seq(Letter) : a = first /\ b = t
    BY <1>2 DEF Texts
  <2>2. /\ a \o b \in Seq(Letter) /\ Len(a \o b) = Len(a) + Len(b)
        /\ \A i \in 1 .. Len(a) : (a \o b)[i] = a[i]
        /\ \A i \in 1 .. Len(b) : (a \o b)[Len(a) + i] = b[i]
    OBVIOUS
  <2>3. PICK w : w = a \o b
    OBVIOUS
  <2>4. Len(a) = 2 /\ a[1] = "c" /\ a[2] = Space
    BY <1>4, <2>1
  <2>5. w[1] = "c" /\ w[2] = Space /\ \A i \in 1 .. Len(b) : w[2 + i] = b[i]
    BY <2>2, <2>3, <2>4
  <2> QED BY <2>1, <2>2, <2>3, <2>4, <2>5 DEF Texts
<1>6. Line = w
  BY <1>1, <1>4, <1>5 DEF Line
<1>7. \A i \in 1 .. Len(w) : w[i] # Zero
  <2>1. \A i \in 1 .. Len(w) : i = 1 \/ i = 2 \/ (i - 2 \in 1 .. Len(t) /\ 2 + (i - 2) = i)
    BY <1>2, <1>5
  <2>2. ASSUME NEW i \in 1 .. Len(w) PROVE w[i] # Zero
    BY <1>2, <1>3, <1>5, <2>1
  <2> QED BY <2>2
<1>8. Len(w) = Len(t) + 2 /\ \A i \in 1 .. Len(t) : w[i + 2] = t[i]
  <2>1. \A i \in 1 .. Len(t) : i + 2 = 2 + i
    BY <1>2
  <2> QED BY <1>2, <1>5, <2>1
<1>9. w \in Lines
  BY <1>7 DEF Lines
<1> QED BY <1>1, <1>2, <1>3, <1>5, <1>6, <1>8, <1>9

LEMMA WordsOfLine ==
    ASSUME typed \in Typed \union {<<>>}
    PROVE  /\ SplitsIntoWords /\ Arguments \in Seq(Texts)
           /\ \A arg \in Range(Arguments) : arg \in Texts /\ arg # <<>>
<1>1. Line \in Lines /\ Len(Line) \in Nat /\ Line[1] = "c" /\ "c" # Space /\ Len(Line) >= 2
      /\ DOMAIN Line = 1 .. Len(Line)
  <2>1. Len(typed) \in Nat
    BY LineIs DEF Texts
  <2> QED BY <2>1, LineIs, GapIs
<1>2. Begins = BeginsOf(Line) /\ \A i : EndFrom(i) = EndOf(Line, i)
  BY <1>1 DEF Begins, BeginsOf, EndFrom, EndOf, Gap
<1>3. PICK parts \in Seq(Texts) :
        /\ parts = split(Line) /\ Len(parts) = Cardinality(Begins)
        /\ \A b \in Begins : parts[Number(Line, b)] = SubSeq(Line, b, EndFrom(b))
        /\ \A i \in 1 .. Len(parts) : parts[i] # <<>>
  BY <1>1, <1>2, SplitIs
<1>4. SplitsIntoWords
  BY <1>2, <1>3 DEF SplitsIntoWords, Number
<1>5. Len(parts) >= 1
  <2>1. 1 \in BeginsOf(Line)
    <3>1. Gap(Line, 0) /\ 1 \in 1 .. Len(Line) /\ 1 - 1 = 0
      BY <1>1, GapIs
    <3> QED BY <1>1, <3>1 DEF BeginsOf
  <2>2. BeginsOf(Line) # {} /\ IsFiniteSet(BeginsOf(Line))
    BY <1>1, <2>1, BeforeIs
  <2>3. Cardinality(BeginsOf(Line)) # 0
    BY <2>2, FS_EmptySet
  <2> QED BY <1>2, <1>3, <2>3
<1>6. PICK rest \in Seq(Texts) : /\ rest = Tail(parts)
                                 /\ Len(rest) = Len(parts) - 1
                                 /\ \A i \in 1 .. Len(rest) : rest[i] = parts[i + 1]
  <2>1. parts # <<>>
    BY <1>5
  <2>2. Tail(parts) \in Seq(Texts) /\ Len(Tail(parts)) = Len(parts) - 1
        /\ \A i \in 1 .. Len(parts) - 1 : Tail(parts)[i] = parts[i + 1]
    BY <2>1
  <2> QED BY <2>2
<1>7. ASSUME NEW arg \in Range(Arguments) PROVE arg \in Texts /\ arg # <<>>
  <2>1. Arguments = rest
    BY <1>3, <1>6 DEF Arguments
  <2>2. PICK i \in 1 .. Len(rest) : arg = rest[i]
    BY <2>1 DEF Range
  <2>3. i + 1 \in 1 .. Len(parts)
    BY <1>5, <1>6
  <2> QED BY <1>3, <1>6, <2>2, <2>3
<1>8. Arguments \in Seq(Texts)
  BY <1>3, <1>6 DEF Arguments
<1> QED BY <1>4, <1>7, <1>8

-----------------------------------------------------------------------------
(* The current directory *)

LEMMA CutIs ==
    ASSUME NEW text \in Texts, NEW max \in Nat
    PROVE  /\ Cut(text, max) \in Texts
           /\ Len(text) <= max => Cut(text, max) = text
           /\ Len(text) > max => /\ Len(Cut(text, max)) = max
                                 /\ \A i \in 1 .. max : Cut(text, max)[i] = text[i]
<1>1. PICK len \in Nat : len = Len(text)
  BY DEF Texts
<1>2. CASE len <= max
  <2>1. Cut(text, max) = SubSeq(text, 1, len)
    <3>1. len = max \/ (len < max /\ ~(len > max))
      BY <1>2
    <3> QED BY <1>1, <3>1 DEF Cut
  <2>2. SubSeq(text, 1, len) = text
    BY <1>1 DEF Texts
  <2>3. ~(Len(text) > max)
    BY <1>1, <1>2
  <2> QED BY <2>1, <2>2, <2>3
<1>3. CASE ~(len <= max)
  <2>1. Cut(text, max) = SubSeq(text, 1, max)
    <3>1. ~(len < max)
      BY <1>3
    <3> QED BY <1>1, <3>1 DEF Cut
  <2>2. PICK w : w = SubSeq(text, 1, max)
    OBVIOUS
  <2>3. w \in Texts /\ Len(w) = max /\ \A i \in 1 .. max : w[i] = text[i]
    BY <1>1, <1>3, <2>2 DEF Texts
  <2> QED BY <1>1, <1>3, <2>1, <2>2, <2>3
<1> QED BY <1>2, <1>3

LEMMA ResolvedIs ==
    ASSUME NEW cwd \in Texts, NEW arg \in Texts
    PROVE  resolve_fs_path(cwd, arg) \in Texts
<1>1. PICK n : n = Ups(arg)
  OBVIOUS
<1>2. PICK rest : rest = After(arg, n)
  OBVIOUS
<1>3. PICK dir : dir = Above(cwd, n)
  OBVIOUS
<1>4. n \in Nat /\ 3 * n <= Len(arg) + 1
  BY <1>1, UpsAre DEF UpTo
<1>5. dir \in Texts /\ rest \in Texts
  BY <1>2, <1>3, <1>4, AboveIs, AfterIs
<1>6. Climb(cwd, arg) = [cwd |-> dir, inp |-> rest]
  BY <1>1, <1>2, <1>3, ClimbIs
<1>7. dir \o (IF rest = <<>> THEN <<>> ELSE <<Sep>>) \o rest \in Texts
  <2>1. <<>> \in Seq(Letter) /\ <<Sep>> \in Seq(Letter)
    BY LettersAre
  <2>2. \A a, b, c \in Seq(Letter) : a \o b \o c \in Seq(Letter)
    OBVIOUS
  <2> QED BY <1>5, <2>1, <2>2 DEF Texts
<1>8. resolve_fs_path(cwd, arg)
        = Cut(IF HasSep(rest) \/ dir = <<>> THEN rest
              ELSE dir \o (IF rest = <<>> THEN <<>> ELSE <<Sep>>) \o rest, PathMax)
  BY <1>6 DEF resolve_fs_path
<1>9. PathMax \in Nat
  BY PathTextAssumption
<1>10. PICK whole \in Texts : whole = IF HasSep(rest) \/ dir = <<>> THEN rest
                                      ELSE dir \o (IF rest = <<>> THEN <<>> ELSE <<Sep>>) \o rest
  BY <1>5, <1>7
<1>11. Cut(whole, PathMax) \in Texts
  BY <1>9, CutIs
<1> QED BY <1>8, <1>10, <1>11

\* The first name of a path.
FirstOf(text) == IF HasSep(text) THEN FirstName(text) ELSE text

LEMMA FirstIs ==
    ASSUME NEW dir \in Texts
    PROVE  Above(dir, Cardinality(Seps(dir))) = FirstOf(dir)
<1>1. PICK len \in Nat : len = Len(dir)
  BY DEF Texts
<1>2. Seps(dir) \in SUBSET (1 .. len) /\ Seps(dir) \in SUBSET Nat
  BY <1>1, SepsAre
<1>3. PICK ends : ends = Seps(dir) \union {len + 1}
  OBVIOUS
<1>4. \A i \in Seps(dir) : i \in Nat /\ 1 <= i /\ i <= len
  BY <1>2
<1>5. IsFiniteSet(Seps(dir)) /\ IsFiniteSet(ends) /\ Cardinality(ends) = Cardinality(Seps(dir)) + 1
      /\ Cardinality(Seps(dir)) \in Nat
  <2>1. IsFiniteSet(1 .. len)
    BY FS_Interval
  <2>2. IsFiniteSet(Seps(dir))
    BY <1>2, <2>1, FS_Subset
  <2>3. len + 1 \notin Seps(dir)
    BY <1>4
  <2> QED BY <1>3, <2>2, <2>3, FS_AddElement, FS_CardinalityType
<1>6. CASE ~HasSep(dir)
  <2>1. Cardinality(Seps(dir)) = 0
    BY <1>6, FS_EmptySet DEF HasSep
  <2> QED BY <1>6, <2>1, AboveIs DEF FirstOf
<1>7. CASE HasSep(dir)
  <2>1. PICK m \in Seps(dir) : m = Min(Seps(dir)) /\ \A i \in Seps(dir) : m <= i
    BY <1>7, SepsAre
  <2>2. PICK nth : nth = {i \in ends : Cardinality({j \in ends : j > i}) = Cardinality(Seps(dir))}
    OBVIOUS
  <2>3. m \in ends /\ \A i \in ends : i \in Nat /\ m <= i
    BY <1>3, <1>4, <2>1
  <2>4. ASSUME NEW i \in ends
        PROVE  IsFiniteSet(ends \ {i}) /\ Cardinality(ends \ {i}) = Cardinality(Seps(dir))
    <3>1. IsFiniteSet(ends \ {i}) /\ Cardinality(ends \ {i}) = Cardinality(ends) - 1
      BY <1>5, FS_RemoveElement
    <3> QED BY <1>5, <3>1
  <2>5. m \in nth
    <3>1. \A j \in ends : j > m <=> j # m
      BY <2>3
    <3>2. {j \in ends : j > m} = ends \ {m}
      BY <3>1
    <3> QED BY <2>2, <2>3, <2>4, <3>2
  <2>6. ASSUME NEW i \in nth PROVE i = m
    <3>1. i \in ends /\ Cardinality({j \in ends : j > i}) = Cardinality(Seps(dir))
      BY <2>2
    <3>2. \A j \in ends : j > i => j # i
      BY <2>3, <3>1
    <3>3. {j \in ends : j > i} \in SUBSET (ends \ {i})
      BY <3>2
    <3>4. {j \in ends : j > i} = ends \ {i}
      BY <2>4, <3>1, <3>3, FS_Subset
    <3>5. m # i => m > i
      BY <2>3, <3>4
    <3> QED BY <2>3, <3>1, <3>5
  <2>7. nth = {m}
    BY <2>5, <2>6
  <2>8. Max(nth) = m
    <3>1. nth \in SUBSET Nat /\ nth # {} /\ \A i \in nth : i <= m
      BY <2>3, <2>7
    <3>2. Max(nth) \in nth
      BY <2>3, <3>1, GreatestNat
    <3> QED BY <2>7, <3>2
  <2>9. Above(dir, Cardinality(Seps(dir))) = SubSeq(dir, 1, Max(nth) - 1)
    BY <1>1, <1>3, <2>2, <2>5 DEF Above
  <2> QED BY <1>7, <2>1, <2>8, <2>9 DEF FirstOf, FirstName
<1> QED BY <1>6, <1>7

LEMMA UpIs ==
    ASSUME NEW cwd \in Texts
    PROVE  resolve_fs_path(cwd, Up) = Cut(Popped(cwd), PathMax)
<1>1. Up \in Texts /\ Len(Up) = 2 /\ Up[1] = "." /\ Up[2] = "."
  BY LettersAre DEF Up, Texts
<1>2. Ups(Up) = 1
  <2>1. PICK u \in Nat : u = Ups(Up) /\ UpTo(Up, u) /\ ~UpTo(Up, u + 1)
    BY <1>1, UpsAre
  <2>2. 3 * u <= 3
    BY <1>1, <2>1 DEF UpTo
  <2>3. After(Up, 0) = Up
    BY <1>1 DEF After, Texts
  <2>4. UpTo(Up, 0)
    BY <1>1 DEF UpTo
  <2>5. UpTo(Up, 0 + 1)
    BY <1>1, <2>3, <2>4, OneMoreUp DEF GoesUp
  <2>6. u # 0
    BY <2>1, <2>5
  <2> QED BY <2>1, <2>2, <2>6
<1>3. After(Up, 1) = <<>>
  <2>1. 3 * 1 + 1 = 4
    OBVIOUS
  <2> QED BY <1>1, <2>1, PartOf DEF After
<1>4. PICK dir \in Texts : dir = Popped(cwd)
  BY PoppedIs
<1>5. Above(cwd, 1) = dir
  <2>1. Above(cwd, 0 + 1) = Popped(Above(cwd, 0)) /\ Above(cwd, 0) = cwd
    BY AboveIs
  <2> QED BY <1>4, <2>1
<1>6. Climb(cwd, Up) = [cwd |-> dir, inp |-> <<>>]
  BY <1>1, <1>2, <1>3, <1>5, ClimbIs
<1>7. ~HasSep(<<>>)
  BY DEF HasSep, Seps
<1>8. dir \o <<>> \o <<>> = dir
  BY DEF Texts
<1> QED BY <1>4, <1>6, <1>7, <1>8 DEF resolve_fs_path

IsName(text) == text # <<>> /\ Len(text) <= NameMax /\ ~HasSep(text)
SecondName(text) == SubSeq(text, Min(Seps(text)) + 1, Len(text))

\* The directories are those of the root and those in one of them, and a name
\* has no separator.  (fs_mkdir_path looks for one; fs_rename does not.)
NamesAreWhole ==
    \A dir \in Dirs : IF HasSep(dir) THEN FirstName(dir) \in Dirs /\ IsName(SecondName(dir))
                      ELSE IsName(dir)

LEMMA PartsOf ==
    ASSUME NEW text \in Texts, HasSep(text)
    PROVE  \E m \in 1 .. Len(text), first \in Texts, second \in Texts :
              /\ m = Min(Seps(text)) /\ first = FirstName(text) /\ second = SecondName(text)
              /\ \A i \in Seps(text) : m <= i
              /\ Len(first) = m - 1 /\ Len(second) = Len(text) - m
              /\ ~HasSep(first) /\ text = first \o <<Sep>> \o second
              /\ \A i \in 1 .. Len(second) : second[i] = text[m + i]
<1>1. PICK len \in Nat : len = Len(text)
  BY DEF Texts
<1>2. PICK m \in Seps(text) : m = Min(Seps(text)) /\ \A i \in Seps(text) : m <= i
  BY SepsAre
<1>3. m \in 1 .. len /\ m \in Nat /\ text[m] = Sep
  BY <1>1, SepsAre
<1>4. PICK first \in Texts : /\ first = FirstName(text) /\ Len(first) = m - 1
                             /\ \A i \in 1 .. m - 1 : first[i] = text[i]
  <2>1. PICK first : first = SubSeq(text, 1, m - 1)
    OBVIOUS
  <2>2. first \in Texts /\ Len(first) = m - 1 /\ \A i \in 1 .. m - 1 : first[i] = text[i]
    BY <1>1, <1>3, <2>1 DEF Texts
  <2> QED BY <1>2, <2>1, <2>2 DEF FirstName
<1>5. PICK second \in Texts : /\ second = SecondName(text) /\ Len(second) = len - m
                              /\ \A i \in 1 .. len - m : second[i] = text[m + i]
  <2>1. PICK second : second = SubSeq(text, m + 1, len)
    OBVIOUS
  <2>2. second \in Texts
    BY <1>1, <1>3, <2>1, PartOf
  <2>3. Len(second) = len - m
    BY <1>1, <1>3, <2>1 DEF Texts
  <2>4. \A i \in 1 .. len - m : second[i] = text[m + i]
    <3>1. \A i \in 1 .. len - (m + 1) + 1 : second[i] = text[(m + 1) + i - 1]
      BY <1>1, <1>3, <2>1, PartOf
    <3>2. len - (m + 1) + 1 = len - m /\ \A i \in Nat : (m + 1) + i - 1 = m + i
      BY <1>3
    <3> QED BY <3>1, <3>2
  <2> QED BY <1>1, <1>2, <2>1, <2>2, <2>3, <2>4 DEF SecondName
<1>6. ~HasSep(first)
  <2> SUFFICES ASSUME NEW i \in Seps(first) PROVE FALSE
    BY DEF HasSep
  <2>1. i \in 1 .. m - 1 /\ first[i] = Sep
    BY <1>4, SepsAre
  <2>2. i \in 1 .. len /\ text[i] = Sep
    BY <1>1, <1>3, <1>4, <2>1
  <2>3. i \in Seps(text)
    BY <1>1, <2>2, SepsAre
  <2> QED BY <1>2, <1>3, <2>1, <2>3
<1>7. text = first \o <<Sep>> \o second
  <2>1. PICK a \in Seq(Letter), b \in Seq(Letter), c \in Seq(Letter) :
          a = first /\ b = <<Sep>> /\ c = second
    <3>1. Sep \in Letter
      BY LettersAre
    <3>2. <<Sep>> \in Seq(Letter)
      BY <3>1
    <3> QED BY <3>2 DEF Texts
  <2>2. PICK w : w = a \o b \o c
    OBVIOUS
  <2>3. Len(b) = 1 /\ b[1] = Sep
    BY <2>1
  <2>4. /\ w \in Seq(Letter) /\ Len(w) = Len(a) + 1 + Len(c)
        /\ \A i \in 1 .. Len(a) : w[i] = a[i]
        /\ w[Len(a) + 1] = Sep
        /\ \A i \in 1 .. Len(c) : w[Len(a) + 1 + i] = c[i]
    <3>1. PICK ab : ab = a \o b
      OBVIOUS
    <3>2. /\ ab \in Seq(Letter) /\ Len(ab) = Len(a) + 1 /\ ab[Len(a) + 1] = Sep
          /\ \A i \in 1 .. Len(a) : ab[i] = a[i]
      <4>1. /\ a \o b \in Seq(Letter) /\ Len(a \o b) = Len(a) + Len(b)
            /\ \A i \in 1 .. Len(a) : (a \o b)[i] = a[i]
            /\ \A i \in 1 .. Len(b) : (a \o b)[Len(a) + i] = b[i]
        OBVIOUS
      <4> QED BY <2>3, <3>1, <4>1
    <3>3. /\ ab \o c \in Seq(Letter) /\ Len(ab \o c) = Len(ab) + Len(c)
          /\ \A i \in 1 .. Len(ab) : (ab \o c)[i] = ab[i]
          /\ \A i \in 1 .. Len(c) : (ab \o c)[Len(ab) + i] = c[i]
      <4>1. PICK d \in Seq(Letter) : d = ab
        BY <3>2
      <4>2. /\ d \o c \in Seq(Letter) /\ Len(d \o c) = Len(d) + Len(c)
            /\ \A i \in 1 .. Len(d) : (d \o c)[i] = d[i]
            /\ \A i \in 1 .. Len(c) : (d \o c)[Len(d) + i] = c[i]
        OBVIOUS
      <4> QED BY <4>1, <4>2, Zenon
    <3>4. w = ab \o c
      BY <2>2, <3>1
    <3> QED BY <3>2, <3>3, <3>4
  <2>5. w \in Texts /\ Len(w) = len
    BY <1>1, <1>3, <1>4, <1>5, <2>1, <2>4 DEF Texts
  <2>6. ASSUME NEW i \in 1 .. len PROVE text[i] = w[i]
    <3>1. CASE i < m
      <4>1. i \in 1 .. m - 1
        BY <1>3, <3>1
      <4> QED BY <1>4, <2>1, <2>4, <4>1
    <3>2. CASE i = m
      <4>1. Len(a) + 1 = m
        BY <1>3, <1>4, <2>1
      <4> QED BY <1>3, <2>4, <3>2, <4>1
    <3>3. CASE i > m
      <4>1. i - m \in 1 .. len - m /\ m + (i - m) = i /\ Len(a) + 1 + (i - m) = i
        BY <1>3, <1>4, <2>1, <3>3
      <4>2. second[i - m] = text[i]
        BY <1>5, <4>1
      <4>3. i - m \in 1 .. Len(c)
        BY <1>5, <2>1, <4>1
      <4>4. w[i] = c[i - m]
        BY <2>4, <4>1, <4>3
      <4> QED BY <2>1, <4>2, <4>4
    <3> QED BY <1>3, <3>1, <3>2, <3>3
  <2>7. text = w
    BY <1>1, <2>5, <2>6, SameTexts
  <2> QED BY <2>1, <2>2, <2>7
<1> QED BY <1>1, <1>2, <1>3, <1>4, <1>5, <1>6, <1>7

LEMMA DirIs ==
    ASSUME NamesAreWhole, NEW dir \in Dirs
    PROVE  /\ dir \in Texts /\ dir # <<>> /\ Len(dir) <= RootMax
           /\ ~HasSep(dir) => Popped(dir) = <<>>
           /\ HasSep(dir) => Popped(dir) \in Dirs /\ Len(Popped(dir)) <= PathMax
<1>1. dir \in Texts
  <2>1. dir \in Seq(STRING \ {Zero})
    BY PathTextAssumption
  <2> QED BY <2>1 DEF Texts, Letter
<1>2. NameMax \in Nat \ {0} /\ RootMax \in Nat /\ PathMax \in Nat
      /\ 2 * NameMax + 1 <= RootMax /\ RootMax <= PathMax
  BY PathTextAssumption
<1>3. CASE ~HasSep(dir)
  <2>1. IsName(dir)
    BY <1>3 DEF NamesAreWhole
  <2>2. Len(dir) <= NameMax /\ Len(dir) \in Nat /\ dir # <<>>
    BY <1>1, <2>1 DEF IsName, Texts
  <2>3. Len(dir) <= RootMax
    BY <1>2, <2>2
  <2> QED BY <1>1, <1>3, <2>2, <2>3 DEF Popped
<1>4. CASE HasSep(dir)
  <2>1. FirstName(dir) \in Dirs /\ IsName(SecondName(dir))
    BY <1>4 DEF NamesAreWhole
  <2>2. PICK m \in 1 .. Len(dir), first \in Texts, second \in Texts :
              /\ m = Min(Seps(dir)) /\ first = FirstName(dir) /\ second = SecondName(dir)
              /\ \A i \in Seps(dir) : m <= i
              /\ Len(first) = m - 1 /\ Len(second) = Len(dir) - m
              /\ ~HasSep(first)
              /\ \A i \in 1 .. Len(second) : second[i] = dir[m + i]
    BY <1>1, <1>4, PartsOf
  <2>3. IsName(first) /\ IsName(second)
    BY <2>1, <2>2 DEF NamesAreWhole
  <2>4. PICK len \in Nat : len = Len(dir) /\ len - m <= NameMax /\ m - 1 <= NameMax
    BY <1>1, <2>2, <2>3 DEF IsName, Texts
  <2>5. len <= RootMax /\ m - 1 <= PathMax /\ len # 0
    BY <1>2, <2>4
  <2>6. Max(Seps(dir)) = m
    <3>1. PICK x \in Seps(dir) : x = Max(Seps(dir))
      BY <1>1, <1>4, SepsAre
    <3>2. x \in 1 .. len /\ dir[x] = Sep /\ m <= x
      BY <1>1, <2>2, <2>4, <3>1, SepsAre
    <3>3. ASSUME m < x PROVE FALSE
      <4>1. x - m \in 1 .. Len(second) /\ m + (x - m) = x
        BY <2>2, <2>4, <3>2, <3>3
      <4>2. second[x - m] = Sep
        BY <2>2, <3>2, <4>1
      <4>3. x - m \in Seps(second)
        BY <4>1, <4>2, SepsAre
      <4> QED BY <2>3, <4>3 DEF IsName, HasSep
    <3> QED BY <2>4, <3>1, <3>2, <3>3
  <2>7. Popped(dir) = first
    BY <1>4, <2>2, <2>6 DEF Popped, FirstName
  <2>8. dir # <<>>
    BY <2>4, <2>5
  <2> QED BY <1>1, <1>4, <2>1, <2>2, <2>4, <2>5, <2>7, <2>8
<1> QED BY <1>3, <1>4

\* What cd leaves in k_root: a directory, or a path whose first name is too
\* long, so that fs_is_dir has looked up another one.
Rooted(text) == text = <<>> \/ text \in Dirs \/ NameMax < Len(FirstOf(text))

LEMMA NewRootIs ==
    ASSUME NamesAreWhole, NEW text \in Texts, text = <<>> \/ fs_is_dir(text)
    PROVE  Rooted(NewRoot(text))
<1>1. /\ NameMax \in Nat \ {0} /\ RootMax \in Nat /\ 2 * NameMax + 1 <= RootMax
      /\ NameMax + 1 <= RootMax
  BY PathTextAssumption
<1>2. CASE text \in Dirs
  <2>1. NewRoot(text) = text
    BY <1>1, <1>2, DirIs, CutIs DEF NewRoot
  <2> QED BY <1>2, <2>1 DEF Rooted
<1>3. CASE text = <<>>
  <2>1. Len(text) = 0 /\ 0 <= RootMax
    BY <1>1, <1>3
  <2>2. NewRoot(text) = text
    BY <1>1, <2>1, CutIs DEF NewRoot
  <2> QED BY <1>3, <2>2 DEF Rooted
<1>4. CASE text # <<>> /\ text \notin Dirs
  <2>1. HasSep(text) /\ Cut(FirstName(text), NameMax) \o <<Sep>> \o SecondName(text) \in Dirs
    BY <1>4 DEF fs_is_dir, SecondName
  <2>2. PICK m \in 1 .. Len(text), first \in Texts, second \in Texts :
              /\ m = Min(Seps(text)) /\ first = FirstName(text) /\ second = SecondName(text)
              /\ \A i \in Seps(text) : m <= i
              /\ Len(first) = m - 1 /\ Len(second) = Len(text) - m
              /\ ~HasSep(first) /\ text = first \o <<Sep>> \o second
              /\ \A i \in 1 .. Len(second) : second[i] = text[m + i]
    BY <2>1, PartsOf, Zenon
  <2>3. PICK len \in Nat : len = Len(text) /\ m <= len
    BY DEF Texts
  <2>4. m - 1 > NameMax
    <3> SUFFICES ASSUME m - 1 <= NameMax PROVE FALSE
      BY <1>1
    <3>1. Cut(first, NameMax) = first
      BY <1>1, <2>2, CutIs
    <3> QED BY <1>4, <2>1, <2>2, <3>1
  <2>5. PICK new \in Texts : new = NewRoot(text)
    BY <1>1, CutIs DEF NewRoot
  <2>6. /\ len <= RootMax => new = text
        /\ len > RootMax => Len(new) = RootMax /\ \A i \in 1 .. RootMax : new[i] = text[i]
    BY <1>1, <2>3, <2>5, CutIs DEF NewRoot
  <2>7. CASE len <= RootMax
    BY <1>1, <2>1, <2>2, <2>4, <2>5, <2>6, <2>7 DEF Rooted, FirstOf
  <2>8. CASE len > RootMax
    <3>1. Len(new) = RootMax /\ \A i \in 1 .. RootMax : new[i] = text[i]
      BY <2>6, <2>8
    <3>2. CASE ~HasSep(new)
      <4>1. NameMax < Len(FirstOf(new))
        BY <1>1, <3>1, <3>2 DEF FirstOf
      <4> QED BY <2>5, <4>1 DEF Rooted
    <3>3. CASE HasSep(new)
      <4>1. PICK n \in 1 .. Len(new) : n = Min(Seps(new)) /\ Len(FirstName(new)) = n - 1
        BY <3>3, PartsOf
      <4>2. n \in Seps(text)
        <5>1. n \in Seps(new)
          BY <3>3, <4>1, SepsAre
        <5>2. n \in 1 .. len /\ new[n] = Sep /\ new[n] = text[n]
          BY <1>1, <2>8, <3>1, <4>1, <5>1, SepsAre
        <5> QED BY <2>3, <5>2, SepsAre
      <4>3. m <= n
        BY <2>2, <4>2
      <4>4. NameMax < n - 1
        BY <1>1, <2>3, <2>4, <3>1, <4>1, <4>3
      <4> QED BY <2>5, <3>3, <4>1, <4>4 DEF Rooted, FirstOf
    <3> QED BY <3>2, <3>3
  <2> QED BY <1>1, <2>3, <2>7, <2>8
<1> QED BY <1>2, <1>3, <1>4

PathsInv == root \in Texts /\ typed \in Typed \union {<<>>}

LEMMA PathSteps == [LineNext]_lineVars => [PathNext]_pathVars
BY DEF LineNext, lineVars

LEMMA HeadOfArguments ==
    ASSUME typed \in Typed \union {<<>>}, Arguments # <<>>
    PROVE  Head(Arguments) \in Texts
<1>1. PICK args \in Seq(Texts) : args = Arguments
  BY WordsOfLine
<1>2. Head(args) \in Texts
  BY <1>1
<1> QED BY <1>1, <1>2

LEMMA CdResolves ==
    ASSUME PathsInv, cd
    PROVE  /\ typed' = <<>>
           /\ \/ root' = root
              \/ \E text \in Texts : (text = <<>> \/ fs_is_dir(text)) /\ root' = NewRoot(text)
<1>1. typed' = <<>>
  BY DEF cd
<1>2. CASE Arguments = <<>>
  BY <1>1, <1>2 DEF cd
<1>3. CASE Arguments # <<>>
  <2>1. Head(Arguments) \in Texts
    BY <1>3, HeadOfArguments DEF PathsInv
  <2>2. PICK text \in Texts : text = resolve_fs_path(root, Head(Arguments))
    BY <2>1, ResolvedIs DEF PathsInv
  <2>3. root' = IF text = <<>> \/ fs_is_dir(text) THEN NewRoot(text) ELSE root
    BY <1>3, <2>2 DEF cd
  <2> QED BY <1>1, <2>3
<1> QED BY <1>2, <1>3

LEMMA PathsStay == PathsInv /\ [PathNext]_pathVars => PathsInv'
<1> SUFFICES ASSUME PathsInv, [PathNext]_pathVars PROVE PathsInv'
  OBVIOUS
<1>1. RootMax \in Nat
  BY PathTextAssumption
<1>2. CASE UNCHANGED pathVars
  BY <1>2 DEF pathVars, PathsInv
<1>3. CASE cd
  <2>1. typed' = <<>>
    BY <1>3, CdResolves
  <2>2. root' \in Texts
    BY <1>1, <1>3, CdResolves, CutIs DEF PathsInv, NewRoot
  <2> QED BY <2>1, <2>2 DEF PathsInv
<1>4. CASE OtherCommand
  BY <1>4 DEF OtherCommand, PathsInv
<1>5. ASSUME NEW text \in Typed, Type(text) PROVE PathsInv'
  BY <1>5 DEF Type, PathsInv
<1> QED BY <1>2, <1>3, <1>4, <1>5 DEF PathNext

LEMMA PathsStart == LineInit => PathsInv
BY DEF LineInit, PathInit, PathsInv, Texts

\* resolve_fs_path and touch, character by character over every line that is
\* typed in every directory: each leading ".." takes a name off, what is left
\* follows or stands alone, and touch means the file the other commands mean.
THEOREM OneTextOnePath == LineSpec => []PathsAgree
<1>1. PathsInv /\ [LineNext]_lineVars => PathsInv'
  BY PathSteps, PathsStay
<1>2. PathsInv => PathsAgree
  <2> SUFFICES ASSUME PathsInv PROVE PathsAgree
    OBVIOUS
  <2>1. root \in Texts /\ \A arg \in Range(Arguments) : arg \in Texts /\ arg # <<>>
    BY WordsOfLine DEF PathsInv
  <2>2. ResolvesAsNames
    BY <2>1, ResolvesAsItSays DEF ResolvesAsNames
  <2>3. TouchAgrees
    BY <2>1, TouchResolves DEF TouchAgrees
  <2> QED BY <2>2, <2>3 DEF PathsAgree
<1> QED BY <1>1, <1>2, PathsStart, PTL DEF LineSpec

\* cd: k_root names a directory, and so does the one above it -- as long as none
\* is removed or moved (Dirs is fixed), if no name of a directory has a
\* separator, as mv can give it (fs_rename), and the first name of k_root is
\* one that a directory can have.
THEOREM RootIsADirectory == NamesAreWhole /\ LineSpec => []RootNamesADirectory
<1> SUFFICES ASSUME NamesAreWhole PROVE LineSpec => []RootNamesADirectory
  OBVIOUS
<1> DEFINE Inv == PathsInv /\ Rooted(root)
<1>1. LineInit => Inv
  <2> SUFFICES ASSUME LineInit PROVE Rooted(root)
    BY PathsStart
  <2> QED BY DEF LineInit, PathInit, Rooted
<1>2. Inv /\ [LineNext]_lineVars => Inv'
  <2> SUFFICES ASSUME Inv, [PathNext]_pathVars PROVE Inv'
    BY PathSteps
  <2>1. PathsInv'
    BY PathsStay
  <2>2. root' = root => Rooted(root)'
    BY DEF Rooted
  <2>3. CASE cd
    <3>1. root' = root \/ \E text \in Texts : (text = <<>> \/ fs_is_dir(text)) /\ root' = NewRoot(text)
      BY <2>3, CdResolves
    <3>2. ASSUME NEW text \in Texts, text = <<>> \/ fs_is_dir(text), root' = NewRoot(text)
          PROVE  Rooted(root)'
      <4>1. Rooted(NewRoot(text))
        BY <3>2, NewRootIs
      <4> QED BY <3>2, <4>1 DEF Rooted
    <3> QED BY <2>1, <2>2, <3>1, <3>2
  <2>4. CASE ~cd
    BY <2>1, <2>2, <2>4 DEF PathNext, pathVars, OtherCommand, Type
  <2> QED BY <2>3, <2>4
<1>3. Inv => RootNamesADirectory
  <2> SUFFICES ASSUME Inv, root # <<>>, Len(FirstOf(root)) <= NameMax
               PROVE  /\ root \in Dirs
                      /\ resolve_fs_path(root, Up) = <<>> \/ resolve_fs_path(root, Up) \in Dirs
    BY FirstIs DEF RootNamesADirectory, PathsInv
  <2>1. root \in Dirs
    <3>1. FirstOf(root) \in Texts
      <4>1. HasSep(root) => FirstName(root) \in Texts
        BY PartsOf DEF PathsInv
      <4> QED BY <4>1 DEF FirstOf, PathsInv
    <3>2. ~(NameMax < Len(FirstOf(root)))
      BY <3>1, PathTextAssumption DEF Texts
    <3> QED BY <3>2 DEF Rooted
  <2>2. resolve_fs_path(root, Up) = Cut(Popped(root), PathMax)
    BY UpIs DEF PathsInv
  <2>3. Popped(root) \in Texts /\ PathMax \in Nat
    BY PoppedIs, PathTextAssumption DEF PathsInv
  <2>4. CASE HasSep(root)
    <3>1. Cut(Popped(root), PathMax) = Popped(root) /\ Popped(root) \in Dirs
      BY <2>1, <2>3, <2>4, DirIs, CutIs
    <3> QED BY <2>1, <2>2, <3>1
  <2>5. CASE ~HasSep(root)
    <3>1. Popped(root) = <<>> /\ Len(<<>>) = 0 /\ 0 <= PathMax
      BY <2>1, <2>3, <2>5, DirIs
    <3>2. Cut(Popped(root), PathMax) = <<>>
      BY <2>3, <3>1, CutIs
    <3> QED BY <2>1, <2>2, <3>2
  <2> QED BY <2>4, <2>5
<1> QED BY <1>1, <1>2, <1>3, PTL DEF LineSpec

LEMMA WholeTexts ==
    ASSUME NEW s \in Texts
    PROVE  s \in Lines
<1>1. \A i \in 1 .. Len(s) : s[i] \in Letter
  BY DEF Texts
<1> QED BY <1>1 DEF Lines, Letter

-----------------------------------------------------------------------------
(* Texts compared, and the text of write *)

LEMMA ComparesIs ==
    ASSUME NEW s1 \in Texts, NEW s2 \in Texts
    PROVE  (strcmp(s1, s2) <=> s1 = s2) /\ (equals(s1, s2) <=> s1 = s2)
<1>1. s1 \in Lines /\ s2 \in Lines
  BY WholeTexts
<1>2. PICK n1 \in Nat, n2 \in Nat : /\ n1 = Len(s1) /\ n2 = Len(s2)
                                    /\ DOMAIN s1 = 1 .. n1 /\ DOMAIN s2 = 1 .. n2
                                    /\ \A i \in 1 .. n1 : s1[i] # Zero
                                    /\ \A i \in 1 .. n2 : s2[i] # Zero
  BY <1>1, GapIs
<1>3. equals(s1, s2) <=> s1 = s2
  BY <1>2, SameTexts DEF equals
<1>4. PICK E : E = {i \in 1 .. n1 + 1 :
                      Zero \in {AtChar(s1, i), AtChar(s2, i)} \/ AtChar(s1, i) # AtChar(s2, i)}
  OBVIOUS
<1>5. n1 + 1 \in E
  <2>1. n1 + 1 \notin 1 .. n1
    OBVIOUS
  <2> QED BY <1>2, <1>4, <2>1 DEF AtChar
<1>6. PICK stop \in E : stop = Min(E) /\ \A i \in E : stop <= i
  <2>1. E \in SUBSET Nat
    BY <1>4
  <2> QED BY <1>5, <2>1, LeastNat
<1>7. strcmp(s1, s2) <=> AtChar(s1, stop) = AtChar(s2, stop)
  BY <1>2, <1>4, <1>6 DEF strcmp
<1>8. ASSUME AtChar(s1, stop) = AtChar(s2, stop) PROVE s1 = s2
  <2>1. stop \in 1 .. n1 + 1 /\ AtChar(s1, stop) = Zero /\ AtChar(s2, stop) = Zero
    BY <1>4, <1>8
  <2>2. stop = n1 + 1 /\ n2 <= n1
    <3>1. stop \notin 1 .. n1 /\ stop \notin 1 .. n2
      BY <1>2, <2>1 DEF AtChar
    <3> QED BY <2>1, <3>1
  <2>3. ASSUME NEW i \in 1 .. n1 PROVE i \in 1 .. n2 /\ s1[i] = s2[i]
    <3>1. i \in 1 .. n1 + 1 /\ i \notin E
      BY <1>6, <2>2
    <3>2. AtChar(s2, i) # Zero /\ AtChar(s1, i) = AtChar(s2, i)
      BY <1>4, <3>1
    <3> QED BY <1>2, <3>2 DEF AtChar
  <2>4. n1 = n2
    <3>1. n1 # 0 => n1 \in 1 .. n2
      BY <2>3
    <3> QED BY <2>2, <3>1
  <2> QED BY <1>2, <2>3, <2>4, SameTexts
<1> QED BY <1>3, <1>7, <1>8

\* Two parts of a text with the character between them.
LEMMA JoinParts ==
    ASSUME NEW s \in Texts, NEW a \in Nat \ {0}, NEW e \in Nat, NEW f \in Nat,
           a <= e, e + 2 <= f, f <= Len(s), s[e + 1] = Space
    PROVE  SubSeq(s, a, e) \o <<Space>> \o SubSeq(s, e + 2, f) = SubSeq(s, a, f)
<1>1. PICK len \in Nat : len = Len(s)
  BY DEF Texts
<1>2. PICK u \in Texts : u = SubSeq(s, a, e) /\ Len(u) = e - a + 1
                         /\ \A i \in 1 .. e - a + 1 : u[i] = s[a + i - 1]
  <2>1. SubSeq(s, a, e) \in Texts /\ Len(SubSeq(s, a, e)) = e - a + 1
        /\ \A i \in 1 .. e - a + 1 : SubSeq(s, a, e)[i] = s[a + i - 1]
    BY <1>1, PartOf
  <2> QED BY <2>1
<1>3. PICK v \in Texts : v = SubSeq(s, e + 2, f) /\ Len(v) = f - (e + 2) + 1
                         /\ \A i \in 1 .. f - (e + 2) + 1 : v[i] = s[(e + 2) + i - 1]
  <2>1. SubSeq(s, e + 2, f) \in Texts /\ Len(SubSeq(s, e + 2, f)) = f - (e + 2) + 1
        /\ \A i \in 1 .. f - (e + 2) + 1 : SubSeq(s, e + 2, f)[i] = s[(e + 2) + i - 1]
    BY <1>1, PartOf
  <2> QED BY <2>1
<1>4. PICK w \in Texts : w = SubSeq(s, a, f) /\ Len(w) = f - a + 1
                         /\ \A i \in 1 .. f - a + 1 : w[i] = s[a + i - 1]
  <2>1. SubSeq(s, a, f) \in Texts /\ Len(SubSeq(s, a, f)) = f - a + 1
        /\ \A i \in 1 .. f - a + 1 : SubSeq(s, a, f)[i] = s[a + i - 1]
    BY <1>1, PartOf
  <2> QED BY <2>1
<1>5. PICK x \in Seq(Letter), y \in Seq(Letter), z \in Seq(Letter) :
        x = u /\ y = <<Space>> /\ z = v /\ Len(y) = 1 /\ y[1] = Space
  <2>1. Space \in Letter
    BY PathTextAssumption DEF Letter
  <2>2. <<Space>> \in Seq(Letter) /\ Len(<<Space>>) = 1 /\ <<Space>>[1] = Space
    BY <2>1
  <2> QED BY <2>2 DEF Texts
<1>6. \A p, q \in Seq(Letter) : /\ p \o q \in Seq(Letter) /\ Len(p \o q) = Len(p) + Len(q)
                                /\ \A i \in 1 .. Len(p) : (p \o q)[i] = p[i]
                                /\ \A i \in 1 .. Len(q) : (p \o q)[Len(p) + i] = q[i]
  OBVIOUS
<1>7. PICK xy \in Seq(Letter) : /\ xy = x \o y /\ Len(xy) = Len(x) + 1 /\ xy[Len(x) + 1] = Space
                                /\ \A i \in 1 .. Len(x) : xy[i] = x[i]
  <2>1. /\ x \o y \in Seq(Letter) /\ Len(x \o y) = Len(x) + Len(y)
        /\ \A i \in 1 .. Len(x) : (x \o y)[i] = x[i]
    BY <1>6, Zenon
  <2>2. \A i \in 1 .. Len(y) : (x \o y)[Len(x) + i] = y[i]
    BY <1>6, Zenon
  <2>3. 1 \in 1 .. Len(y)
    BY <1>5
  <2> QED BY <1>5, <2>1, <2>2, <2>3
<1>8. PICK t \in Seq(Letter) : /\ t = xy \o z /\ Len(t) = Len(xy) + Len(z)
                               /\ \A i \in 1 .. Len(xy) : t[i] = xy[i]
                               /\ \A i \in 1 .. Len(z) : t[Len(xy) + i] = z[i]
  BY <1>6, Zenon
<1>9. t \in Texts /\ Len(t) = f - a + 1
  BY <1>2, <1>3, <1>5, <1>7, <1>8 DEF Texts
<1>10. ASSUME NEW i \in 1 .. f - a + 1 PROVE t[i] = w[i]
  <2>1. Len(x) = e - a + 1 /\ Len(xy) = e - a + 2 /\ Len(z) = f - (e + 2) + 1
    BY <1>2, <1>3, <1>5, <1>7
  <2>2. CASE i <= e - a + 1
    <3>1. i \in 1 .. e - a + 1 /\ i \in 1 .. Len(x) /\ i \in 1 .. Len(xy)
      BY <2>1, <2>2
    <3> QED BY <1>2, <1>4, <1>5, <1>7, <1>8, <3>1
  <2>3. CASE i = e - a + 2
    <3>1. i = Len(x) + 1 /\ i \in 1 .. Len(xy) /\ a + i - 1 = e + 1
      BY <2>1, <2>3
    <3> QED BY <1>4, <1>7, <1>8, <3>1
  <2>4. CASE i > e - a + 2
    <3>1. PICK j \in 1 .. f - (e + 2) + 1 : j = i - (e - a + 2) /\ (e + 2) + j - 1 = a + i - 1
                                            /\ Len(xy) + j = i /\ j \in 1 .. Len(z)
      BY <2>1, <2>4
    <3>2. t[i] = z[j]
      BY <1>8, <3>1
    <3>3. v[j] = s[a + i - 1]
      BY <1>3, <3>1
    <3> QED BY <1>4, <1>5, <3>2, <3>3
  <2> QED BY <2>2, <2>3, <2>4
<1>11. t = w
  BY <1>4, <1>9, <1>10, SameTexts
<1>12. u \o <<Space>> \o v = t
  BY <1>5, <1>7, <1>8
<1> QED BY <1>2, <1>3, <1>4, <1>11, <1>12

\* Where a word ends, and where the next one begins.
LEMMA WordIs ==
    ASSUME NEW s \in Lines, NEW b \in BeginsOf(s)
    PROVE  \E e \in b .. Len(s) :
              /\ e = EndOf(s, b) /\ b \in Nat \ {0} /\ Gap(s, e + 1) /\ \A j \in b .. e : ~Gap(s, j)
              /\ \A x \in BeginsOf(s) : b < x => e + 1 < x
<1>1. PICK len \in Nat : len = Len(s)
  BY GapIs
<1>2. b \in 1 .. len /\ b \in Nat \ {0} /\ ~Gap(s, b)
  BY <1>1, GapIs DEF BeginsOf
<1>3. PICK E : E = {k \in b .. len : Gap(s, k + 1)}
  OBVIOUS
<1>4. len \in E /\ E \in SUBSET Nat
  <2>1. Gap(s, len + 1)
    BY <1>1, GapIs
  <2> QED BY <1>1, <1>2, <1>3, <2>1
<1>5. PICK e \in E : e = Min(E) /\ \A k \in E : e <= k
  BY <1>4, LeastNat
<1>6. e = EndOf(s, b) /\ e \in b .. len /\ Gap(s, e + 1) /\ e \in Nat
  BY <1>1, <1>3, <1>4, <1>5 DEF EndOf
<1>7. ASSUME NEW j \in b .. e, Gap(s, j) PROVE FALSE
  <2>1. b < j
    BY <1>2, <1>6, <1>7
  <2>2. j - 1 \in b .. len /\ (j - 1) + 1 = j /\ j - 1 < e
    BY <1>2, <1>6, <2>1
  <2>3. j - 1 \in E
    BY <1>3, <1>7, <2>2
  <2> QED BY <1>5, <1>6, <2>2, <2>3
<1>8. ASSUME NEW x \in BeginsOf(s), b < x PROVE e + 1 < x
  <2>1. x \in 1 .. len /\ Gap(s, x - 1) /\ ~Gap(s, x)
    BY <1>1, GapIs DEF BeginsOf
  <2>2. ~(x - 1 \in b .. e)
    BY <1>7, <2>1
  <2>3. x # e + 1
    BY <1>6, <2>1
  <2> QED BY <1>2, <1>6, <1>8, <2>1, <2>2, <2>3
<1> QED BY <1>1, <1>2, <1>6, <1>7, <1>8

\* A line with single spaces between its words.
SpacesOf(s) == {i \in 1 .. Len(s) : s[i] = Space}
Single(s) == s[1] # Space /\ \A i \in SpacesOf(s) : i < Len(s) /\ i + 1 \notin SpacesOf(s)

LEMMA NextWord ==
    ASSUME NEW s \in Lines, Single(s), NEW b \in BeginsOf(s), EndOf(s, b) < Len(s)
    PROVE  /\ s[EndOf(s, b) + 1] = Space /\ EndOf(s, b) + 1 \in SpacesOf(s)
           /\ EndOf(s, b) + 2 \in BeginsOf(s)
           /\ Number(s, EndOf(s, b) + 2) = Number(s, b) + 1
<1>1. PICK len \in Nat : len = Len(s)
  BY GapIs
<1>2. PICK e \in b .. len :
              /\ e = EndOf(s, b) /\ b \in Nat \ {0} /\ Gap(s, e + 1) /\ \A j \in b .. e : ~Gap(s, j)
              /\ \A x \in BeginsOf(s) : b < x => e + 1 < x
  BY <1>1, WordIs
<1>3. e \in Nat /\ e < len /\ e + 1 \in 1 .. len
  BY <1>1, <1>2
<1>4. s[e + 1] = Space
  BY <1>1, <1>2, <1>3, GapIs
<1>5. e + 1 \in SpacesOf(s)
  BY <1>1, <1>3, <1>4 DEF SpacesOf
<1>6. e + 2 \in 1 .. len /\ e + 2 \notin SpacesOf(s)
  <2>1. e + 1 < len /\ (e + 1) + 1 \notin SpacesOf(s)
    BY <1>1, <1>5 DEF Single
  <2>2. (e + 1) + 1 = e + 2
    BY <1>3
  <2> QED BY <1>3, <2>1, <2>2
<1>7. e + 2 \in BeginsOf(s)
  <2>1. (e + 2) - 1 = e + 1
    BY <1>3
  <2> QED BY <1>1, <1>2, <1>6, <2>1 DEF BeginsOf, SpacesOf
<1>8. Before(s, e + 2) = Before(s, b) \union {b}
  <2>1. \A x \in BeginsOf(s) : x \in Nat
    BY <1>1, BeforeIs
  <2>2. \A x \in BeginsOf(s) : x < e + 2 <=> x < b \/ x = b
    <3>1. ASSUME NEW x \in BeginsOf(s) PROVE x < e + 2 <=> x < b \/ x = b
      <4>1. b < x => e + 1 < x
        BY <1>2
      <4> QED BY <1>2, <1>3, <2>1, <4>1
    <3> QED BY <3>1
  <2> QED BY <2>2 DEF Before
<1>9. Cardinality(Before(s, e + 2)) = Cardinality(Before(s, b)) + 1
  <2>1. b \notin Before(s, b) /\ IsFiniteSet(Before(s, b))
    BY BeforeIs
  <2> QED BY <1>8, <2>1, FS_AddElement
<1>10. Number(s, e + 2) = Cardinality(Before(s, e + 2)) + 1 /\ Number(s, b) = Cardinality(Before(s, b)) + 1
  BY <1>7, BeforeIs
<1>11. Cardinality(Before(s, b)) \in Nat
  BY BeforeIs
<1> QED BY <1>2, <1>4, <1>5, <1>7, <1>9, <1>10, <1>11

\* The third word begins behind the second space.
LEMMA ThirdWord ==
    ASSUME NEW s \in Lines, Single(s), 2 \in SpacesOf(s), NEW second \in SpacesOf(s),
           Cardinality({j \in SpacesOf(s) : j < second}) = 1
    PROVE  second + 1 \in BeginsOf(s) /\ Number(s, second + 1) = 3
<1>1. PICK len \in Nat : len = Len(s)
  BY GapIs
<1>2. SpacesOf(s) \in SUBSET (1 .. len) /\ IsFiniteSet(SpacesOf(s))
      /\ \A i \in SpacesOf(s) : i \in Nat /\ 2 <= i /\ i <= len
  <2>1. SpacesOf(s) \in SUBSET (1 .. len)
    BY <1>1 DEF SpacesOf
  <2>2. IsFiniteSet(1 .. len)
    BY FS_Interval
  <2>3. 1 \notin SpacesOf(s)
    BY DEF SpacesOf, Single
  <2> QED BY <2>1, <2>2, <2>3, FS_Subset
<1>3. PICK S : S = {j \in SpacesOf(s) : j < second}
  OBVIOUS
<1>4. PICK x : S = {x}
  <2>1. S \in SUBSET SpacesOf(s)
    BY <1>3
  <2>2. IsFiniteSet(S)
    BY <1>2, <2>1, FS_Subset
  <2> QED BY <1>3, <2>2, FS_Singleton
<1>5. second # 2 /\ S = {2}
  <2>1. second # 2
    <3> SUFFICES ASSUME second = 2 PROVE FALSE
      OBVIOUS
    <3>1. \A j \in SpacesOf(s) : ~(j < second)
      BY <1>2
    <3> QED BY <1>3, <1>4, <3>1
  <2>2. 2 \in S
    BY <1>2, <1>3, <2>1
  <2> QED BY <1>4, <2>1, <2>2
<1>6. 1 \in BeginsOf(s)
  <2>1. 1 \in 1 .. Len(s) /\ Gap(s, 1 - 1)
    BY <1>1, <1>2, GapIs
  <2> QED BY <2>1 DEF BeginsOf, Single
<1>7. Number(s, 1) = 1
  BY <1>6, BeforeIs, FS_EmptySet
<1>8. EndOf(s, 1) = 1 /\ 1 < Len(s)
  <2>1. PICK e \in 1 .. len : e = EndOf(s, 1) /\ \A j \in 1 .. e : ~Gap(s, j)
    BY <1>1, <1>6, WordIs
  <2>2. 2 \in 1 .. len /\ s[2] = Space
    BY <1>1 DEF SpacesOf
  <2>3. Gap(s, 2)
    BY <1>1, <2>2, GapIs
  <2>4. 2 \notin 1 .. e
    BY <2>1, <2>3
  <2> QED BY <1>1, <2>1, <2>2, <2>4
<1>9. 3 \in BeginsOf(s) /\ Number(s, 3) = 2
  <2>1. EndOf(s, 1) + 2 = 3 /\ 1 + 1 = 2
    BY <1>8
  <2> QED BY <1>6, <1>7, <1>8, <2>1, NextWord
<1>10. PICK e \in 3 .. len : e = EndOf(s, 3) /\ Gap(s, e + 1) /\ \A j \in 3 .. e : ~Gap(s, j)
  BY <1>1, <1>9, WordIs
<1>11. second > e
  <2>1. second \in 1 .. len /\ s[second] = Space
    BY <1>1 DEF SpacesOf
  <2>2. Gap(s, second)
    BY <1>1, <2>1, GapIs
  <2>3. second \notin 3 .. e
    BY <1>10, <2>2
  <2> QED BY <1>2, <1>5, <1>10, <2>3
<1>12. e < len
  BY <1>2, <1>10, <1>11
<1>13. e + 1 \in SpacesOf(s) /\ e + 2 \in BeginsOf(s) /\ Number(s, e + 2) = 3
  BY <1>1, <1>9, <1>10, <1>12, NextWord
<1>14. second = e + 1
  <2>1. e + 1 \notin S
    BY <1>5, <1>10
  <2>2. ~(e + 1 < second)
    BY <1>3, <1>13, <2>1
  <2> QED BY <1>2, <1>10, <1>11, <2>2
<1>15. second + 1 = e + 2
  BY <1>10, <1>14
<1> QED BY <1>13, <1>15

\* The text of write with one more of its words.
WithWord(parts, text, i) == text \o (IF i > 3 THEN <<Space>> ELSE <<>>) \o parts[i]

LEMMA WithWordIs ==
    ASSUME NEW parts \in Seq(Texts), NEW text \in Texts, NEW i \in 1 .. Len(parts)
    PROVE  WithWord(parts, text, i) \in Texts
<1>1. parts[i] \in Texts /\ Space \in Letter
  BY PathTextAssumption DEF Letter
<1>2. <<Space>> \in Texts /\ <<>> \in Texts
  BY <1>1 DEF Texts
<1>3. \A p, q \in Texts : p \o q \in Texts
  BY DEF Texts
<1>4. PICK gap \in Texts : gap = IF i > 3 THEN <<Space>> ELSE <<>>
  BY <1>2
<1> QED BY <1>1, <1>3, <1>4 DEF WithWord

LEMMA WriteRuns ==
    ASSUME NEW parts \in Seq(Texts), NEW n \in Nat, Len(parts) = n + 2
    PROVE  \E r : /\ r[0] = <<>> /\ TextOfWrite(parts) = r[n]
                  /\ \A k \in 1 .. n : r[k] = WithWord(parts, r[k - 1], k + 2)
<1>1. PICK base \in Texts : base = <<>>
  <2>1. <<>> \in Texts
    BY DEF Texts
  <2> QED BY <2>1
<1>2. PICK rounds, indices : rounds = [i \in 1 .. n |-> i + 2] /\ indices = 3 .. n + 2
  OBVIOUS
<1> DEFINE step == [z \in Texts \X indices |-> WithWord(parts, z[1], z[2])]
<1>3. \A text \in Texts, i \in indices : WithWord(parts, text, i) \in Texts
  <2>1. \A i \in indices : i \in 1 .. Len(parts)
    BY <1>2
  <2> QED BY <2>1, WithWordIs
<1>4. step \in [Texts \X indices -> Texts]
  BY <1>3
<1>5. \A z \in Texts, i \in indices : step[<<z, i>>] = WithWord(parts, z, i)
  OBVIOUS
<1> HIDE DEF step
<1> DEFINE Runs(iter) ==
             iter = [S \in SUBSET (1 .. n) |-> IF S = {} THEN base
                                               ELSE WithWord(parts, iter[S \ {Max(S)}], rounds[Max(S)])]
<1>6. PICK f \in [SUBSET (1 .. n) -> Texts] : FoldsTo(f, n, base, step, rounds)
  <2>1. \A i \in 1 .. n : rounds[i] \in indices
    BY <1>2
  <2> QED BY <1>4, <2>1, FoldExists, Zenon
<1>7. ASSUME NEW S \in SUBSET (1 .. n), S # {} PROVE Max(S) \in S
  <2>1. S \in SUBSET Nat /\ \A i \in S : i <= n
    OBVIOUS
  <2> QED BY <1>7, <2>1, GreatestNat
<1>8. \E iter : Runs(iter)
  <2>1. ASSUME NEW S \in SUBSET (1 .. n)
        PROVE  f[S] = IF S = {} THEN base ELSE WithWord(parts, f[S \ {Max(S)}], rounds[Max(S)])
    <3>1. f[S] = IF S = {} THEN base ELSE step[<<f[S \ {Max(S)}], rounds[Max(S)]>>]
      BY <1>6 DEF FoldsTo
    <3>2. CASE S # {}
      <4>1. Max(S) \in 1 .. n /\ S \ {Max(S)} \in SUBSET (1 .. n)
        BY <1>7, <3>2
      <4>2. rounds[Max(S)] \in indices
        BY <1>2, <4>1
      <4>3. f[S \ {Max(S)}] \in Texts
        BY <1>6, <4>1
      <4> QED BY <1>5, <3>1, <3>2, <4>2, <4>3
    <3> QED BY <3>1, <3>2
  <2>2. Runs(f)
    BY <2>1
  <2> QED BY <2>2
<1>9. PICK g : g = (CHOOSE iter : Runs(iter))
  OBVIOUS
<1>10. Runs(g)
  BY <1>8, <1>9
<1>11. TextOfWrite(parts) = g[1 .. n]
  <2>1. DOMAIN rounds = 1 .. n /\ Len(parts) - 2 = n
    BY <1>2
  <2>2. TextOfWrite(parts) =
          (CHOOSE iter : iter = [S \in SUBSET DOMAIN rounds |->
              IF S = {} THEN base
              ELSE WithWord(parts, iter[S \ {Max(S)}], rounds[Max(S)])])[DOMAIN rounds]
    <3>1. [i \in 1 .. Len(parts) - 2 |-> i + 2] = rounds
      BY <1>2, <2>1
    <3> QED BY <1>1, <3>1 DEF TextOfWrite, FoldLeft, MapThenFoldSet, WithWord
  <2> QED BY <1>9, <2>1, <2>2
<1>12. g[1 .. 0] = base
  BY <1>10
<1>13. ASSUME NEW k \in 1 .. n PROVE g[1 .. k] = WithWord(parts, g[1 .. (k - 1)], k + 2)
  <2>1. PICK S : S = 1 .. k
    OBVIOUS
  <2>2. k - 1 \in Nat /\ S \in SUBSET (1 .. (k - 1) + 1) /\ (k - 1) + 1 \in S /\ (k - 1) + 1 = k
    BY <2>1
  <2>3. Max(S) = k
    BY <2>2, MaxAt
  <2>4. S \ {k} = 1 .. (k - 1) /\ S # {} /\ S \in SUBSET (1 .. n)
    <3>1. \A i : i \in S \ {k} <=> i \in 1 .. (k - 1)
      BY <2>1
    <3>2. k \in S /\ \A i \in S : i \in 1 .. n
      BY <2>1
    <3> QED BY <3>1, <3>2, Zenon
  <2>5. g[S] = WithWord(parts, g[S \ {Max(S)}], rounds[Max(S)])
    BY <1>10, <2>4
  <2> QED BY <1>2, <2>1, <2>3, <2>4, <2>5
<1> DEFINE r == [k \in 0 .. n |-> g[1 .. k]]
<1>14. r[0] = <<>> /\ TextOfWrite(parts) = r[n]
  BY <1>1, <1>11, <1>12
<1>15. \A k \in 1 .. n : r[k] = WithWord(parts, r[k - 1], k + 2)
  BY <1>13
<1> HIDE DEF r, Runs
<1> QED BY <1>14, <1>15

\* What write puts together from the words of a line with single spaces.
LEMMA WriteIs ==
    ASSUME NEW s \in Lines, Single(s), 2 \in SpacesOf(s), NEW second \in SpacesOf(s),
           Cardinality({j \in SpacesOf(s) : j < second}) = 1
    PROVE  TextOfWrite(split(s)) = SubSeq(s, second + 1, Len(s))
<1>1. PICK len \in Nat, parts \in Seq(Texts), size \in Nat :
        /\ len = Len(s) /\ parts = split(s) /\ size = Len(parts) /\ size = Cardinality(BeginsOf(s))
        /\ \A b \in BeginsOf(s) : parts[Number(s, b)] = SubSeq(s, b, EndOf(s, b))
  <2>1. Len(s) \in Nat
    BY GapIs
  <2>2. split(s) \in Seq(Texts) /\ Len(split(s)) = Cardinality(BeginsOf(s))
        /\ \A b \in BeginsOf(s) : split(s)[Number(s, b)] = SubSeq(s, b, EndOf(s, b))
    BY SplitIs
  <2>3. \A p \in Seq(Texts) : Len(p) \in Nat
    OBVIOUS
  <2> QED BY <2>1, <2>2, <2>3
<1>2. PICK a \in BeginsOf(s) : a = second + 1 /\ Number(s, a) = 3 /\ a \in Nat \ {0}
  <2>1. second + 1 \in BeginsOf(s) /\ Number(s, second + 1) = 3
    BY ThirdWord
  <2>2. \A b \in BeginsOf(s) : b \in Nat \ {0}
    BY <1>1, BeforeIs
  <2> QED BY <2>1, <2>2
<1>3. \A b \in BeginsOf(s) : b \in 1 .. len /\ Number(s, b) \in 1 .. size
  <2>1. ASSUME NEW b \in BeginsOf(s) PROVE b \in 1 .. len /\ Number(s, b) \in 1 .. size
    <3>1. b \in 1 .. len /\ len + 2 \in Nat /\ b < len + 2
      BY <1>1, BeforeIs
    <3>2. Number(s, b) \in 1 .. Cardinality(Before(s, len + 2))
      BY <3>1, BeforeIs
    <3> QED BY <1>1, <3>1, <3>2, BeforeIs
  <2> QED BY <2>1
<1>4. PICK n \in Nat : size = n + 2 /\ 1 <= n
  <2>1. 3 <= size
    BY <1>2, <1>3
  <2> QED BY <2>1
<1>5. PICK r : /\ r[0] = <<>> /\ TextOfWrite(parts) = r[n]
               /\ \A k \in 1 .. n : r[k] = WithWord(parts, r[k - 1], k + 2)
  BY <1>1, <1>4, WriteRuns
<1>6. s \in Texts /\ Space \in Letter
  BY GapIs, PathTextAssumption DEF Letter
<1> DEFINE Through(b) == SubSeq(s, a, EndOf(s, b))
           Written(k) == \E b \in BeginsOf(s) : a <= b /\ Number(s, b) = k + 3 /\ r[k + 1] = Through(b)
<1>7. Written(0)
  <2>1. 1 \in 1 .. n /\ 1 - 1 = 0 /\ 1 + 2 = 3
    BY <1>4
  <2>2. r[1] = WithWord(parts, <<>>, 3)
    BY <1>5, <2>1
  <2>3. PICK p \in Texts : p = parts[3] /\ p = Through(a)
    <3>1. parts[3] = Through(a)
      BY <1>1, <1>2
    <3>2. parts[3] \in Texts
      <4>1. 3 \in 1 .. Len(parts)
        BY <1>1, <1>4
      <4>2. \A q \in Seq(Texts) : \A i \in 1 .. Len(q) : q[i] \in Texts
        OBVIOUS
      <4> QED BY <4>1, <4>2, Zenon
    <3> QED BY <3>1, <3>2
  <2>4. <<>> \o <<>> \o p = p
    <3>1. \A q \in Seq(Letter) : <<>> \o <<>> \o q = q
      OBVIOUS
    <3> QED BY <3>1 DEF Texts
  <2>5. r[1] = p
    BY <2>2, <2>3, <2>4 DEF WithWord
  <2> QED BY <1>2, <2>3, <2>5
<1>8. ASSUME NEW k \in Nat, k + 2 <= n, Written(k) PROVE Written(k + 1)
  <2>1. PICK b \in BeginsOf(s) : a <= b /\ Number(s, b) = k + 3 /\ r[k + 1] = Through(b)
    BY <1>8
  <2>2. PICK e \in b .. len : /\ e = EndOf(s, b) /\ b \in Nat \ {0} /\ e \in Nat
                              /\ \A x \in BeginsOf(s) : b < x => e + 1 < x
    BY <1>1, WordIs
  <2>3. e < len
    <3> SUFFICES ASSUME e = len PROVE FALSE
      BY <2>2
    <3>1. \A x \in BeginsOf(s) : x <= b
      BY <1>3, <2>2
    <3>2. {x \in BeginsOf(s) : x <= b} = BeginsOf(s)
      BY <3>1
    <3>3. Number(s, b) = size
      BY <1>1, <3>2 DEF Number
    <3> QED BY <1>4, <1>8, <2>1, <3>3
  <2>4. s[e + 1] = Space /\ e + 2 \in BeginsOf(s) /\ Number(s, e + 2) = k + 4
    <3>1. s[e + 1] = Space /\ e + 2 \in BeginsOf(s) /\ Number(s, e + 2) = Number(s, b) + 1
      BY <1>1, <2>2, <2>3, NextWord
    <3>2. (k + 3) + 1 = k + 4
      OBVIOUS
    <3> QED BY <2>1, <3>1, <3>2
  <2>5. PICK f \in e + 2 .. len : f = EndOf(s, e + 2) /\ f \in Nat
    <3>1. \E x \in e + 2 .. Len(s) : x = EndOf(s, e + 2)
      BY <2>4, WordIs, Zenon
    <3> QED BY <1>1, <2>2, <3>1
  <2>6. SubSeq(s, a, e) \o <<Space>> \o SubSeq(s, e + 2, f) = SubSeq(s, a, f)
    <3>1. a <= e /\ e + 2 <= f /\ f <= Len(s)
      BY <1>1, <1>2, <2>1, <2>2, <2>5
    <3>2. a \in Nat \ {0} /\ e \in Nat /\ f \in Nat /\ s[e + 1] = Space
      BY <1>2, <2>2, <2>4, <2>5
    <3> QED BY <1>6, <3>1, <3>2, JoinParts, Zenon
  <2>7. r[k + 2] = WithWord(parts, r[k + 1], k + 4)
    <3>1. k + 2 \in 1 .. n /\ (k + 2) - 1 = k + 1 /\ (k + 2) + 2 = k + 4
      BY <1>8
    <3> QED BY <1>5, <3>1
  <2>8. parts[k + 4] = SubSeq(s, e + 2, f)
    BY <1>1, <2>4, <2>5
  <2>9. r[k + 2] = SubSeq(s, a, f)
    <3>1. k + 4 > 3
      OBVIOUS
    <3>2. WithWord(parts, r[k + 1], k + 4) = r[k + 1] \o <<Space>> \o parts[k + 4]
      BY <3>1 DEF WithWord
    <3> QED BY <2>1, <2>2, <2>6, <2>7, <2>8, <3>2
  <2>10. (k + 1) + 3 = k + 4 /\ (k + 1) + 1 = k + 2 /\ a <= e + 2
    BY <1>2, <2>1, <2>2
  <2> QED BY <2>4, <2>5, <2>9, <2>10
<1>9. \A k \in Nat : k + 1 <= n => Written(k)
  <2> DEFINE K == {k \in Nat : k + 1 <= n => Written(k)}
  <2>1. 0 \in K
    BY <1>7
  <2>2. ASSUME NEW k \in K PROVE k + 1 \in K
    <3>1. k \in Nat /\ k + 1 \in Nat /\ (k + 1) + 1 = k + 2 /\ (k + 2 <= n => k + 1 <= n)
      OBVIOUS
    <3>2. k + 2 <= n => Written(k + 1)
      <4> HIDE DEF Written
      <4> QED BY <1>8, <3>1
    <3> HIDE DEF Written
    <3> QED BY <3>1, <3>2
  <2> HIDE DEF K
  <2>3. K = Nat
    <3>1. K \in SUBSET Nat
      BY DEF K
    <3> QED BY <2>1, <2>2, <3>1, AllNat
  <2> QED BY <2>3 DEF K
<1>10. PICK b \in BeginsOf(s) : Number(s, b) = size /\ r[n] = Through(b)
  <2>1. n - 1 \in Nat /\ (n - 1) + 1 = n /\ (n - 1) + 3 = size
    BY <1>4
  <2>2. Written(n - 1)
    <3> HIDE DEF Written
    <3> QED BY <1>9, <2>1
  <2> QED BY <2>1, <2>2
<1>11. EndOf(s, b) = len
  <2>1. PICK e \in b .. len : e = EndOf(s, b)
    BY <1>1, WordIs
  <2>2. ASSUME e < len PROVE FALSE
    <3>1. EndOf(s, b) + 2 \in BeginsOf(s) /\ Number(s, EndOf(s, b) + 2) = size + 1
      BY <1>1, <1>10, <2>1, <2>2, NextWord
    <3> QED BY <1>3, <3>1
  <2>3. e \in Nat /\ e <= len
    BY <1>3, <2>1
  <2> QED BY <2>1, <2>2, <2>3
<1> QED BY <1>1, <1>2, <1>5, <1>10, <1>11

LEMMA WritesTheLine ==
    ASSUME typed \in Typed \union {<<>>}
    PROVE  WritesTheRest
<1>1. PICK s \in Lines, len \in Nat :
        s = Line /\ len = Len(s) /\ DOMAIN s = 1 .. len /\ s[1] = "c" /\ s[2] = Space /\ Space # "c" /\ 2 <= len
  <2>1. Line \in Lines /\ Line[1] = "c" /\ Line[2] = Space /\ Space # "c" /\ Len(Line) = Len(typed) + 2
    BY LineIs
  <2>2. Len(typed) \in Nat
    BY LineIs DEF Texts
  <2>3. Len(Line) \in Nat /\ DOMAIN Line = 1 .. Len(Line) /\ 2 <= Len(Line)
    BY <2>1, <2>2, GapIs
  <2> QED BY <2>1, <2>3
<1>2. PICK spaces \in SUBSET (1 .. len) : spaces = {i \in 1 .. len : s[i] = Space} /\ spaces = SpacesOf(s)
  BY <1>1 DEF SpacesOf
<1>3. SUFFICES ASSUME \A i \in spaces : i < len /\ i + 1 \notin spaces, Cardinality(spaces) > 1
               PROVE  TextOfWrite(split(s)) =
                        SubSeq(s, Min({i \in spaces : Cardinality({j \in spaces : j < i}) = 1}) + 1, len)
  BY <1>1, <1>2 DEF WritesTheRest
<1>4. Single(s) /\ 2 \in SpacesOf(s) /\ 1 \notin spaces
  <2>1. 2 \in spaces /\ 1 \notin spaces
    BY <1>1, <1>2
  <2> QED BY <1>1, <1>2, <1>3, <2>1 DEF Single
<1>5. PICK T \in SUBSET Nat : T = {i \in spaces : Cardinality({j \in spaces : j < i}) = 1}
  <2>1. \A i \in spaces : i \in Nat
    BY <1>1
  <2> QED BY <2>1
<1>6. T # {}
  <2>1. PICK rest \in SUBSET Nat : rest = spaces \ {2} /\ rest \in SUBSET spaces
    <3>1. spaces \ {2} \in SUBSET Nat
      BY <1>1
    <3> QED BY <3>1
  <2>2. rest # {}
    <3> SUFFICES ASSUME rest = {} PROVE FALSE
      OBVIOUS
    <3>1. spaces = {2}
      BY <1>2, <1>4, <2>1
    <3>2. Cardinality({2}) = 1
      BY FS_Singleton
    <3> QED BY <1>3, <3>1, <3>2
  <2>3. PICK p \in rest : \A i \in rest : p <= i
    BY <2>1, <2>2, LeastNat
  <2>4. {j \in spaces : j < p} = {2}
    <3>1. \A j \in spaces : j \in Nat /\ (j < p <=> j = 2)
      <4>1. ASSUME NEW j \in spaces PROVE j \in Nat /\ (j < p <=> j = 2)
        <5>1. j \in Nat /\ p \in Nat /\ p # 2 /\ p # 1 /\ 1 <= p
          BY <1>1, <1>4, <2>1
        <5>2. j # 2 => p <= j
          BY <2>1, <2>3
        <5> QED BY <5>1, <5>2
      <4> QED BY <4>1
    <3> QED BY <1>2, <1>4, <3>1
  <2>5. Cardinality({j \in spaces : j < p}) = 1
    BY <2>4, FS_Singleton
  <2> QED BY <1>5, <2>1, <2>5
<1>7. PICK second \in T : second = Min(T)
  BY <1>6, LeastNat
<1>8. second \in SpacesOf(s) /\ Cardinality({j \in SpacesOf(s) : j < second}) = 1
  BY <1>2, <1>5, <1>7
<1>9. TextOfWrite(split(s)) = SubSeq(s, second + 1, Len(s))
  BY <1>4, <1>8, WriteIs
<1> QED BY <1>1, <1>5, <1>7, <1>9

\* The line as the shell takes it apart, for any line of any length: its words
\* are what split returns, in their order and none of them empty; strcmp and
\* equals tell any two texts apart; and what write puts together again is what
\* was typed behind the second space, if no two spaces follow each other.
THEOREM LineIsItsWords == LineSpec => []WordsAreExact
<1>1. LineInit => PathsInv
  BY PathsStart
<1>2. PathsInv /\ [LineNext]_lineVars => PathsInv'
  BY PathSteps, PathsStay
<1>3. PathsInv => WordsAreExact
  <2> SUFFICES ASSUME PathsInv PROVE WordsAreExact
    OBVIOUS
  <2>1. SplitsIntoWords /\ WritesTheRest
    BY WordsOfLine, WritesTheLine DEF PathsInv
  <2>2. typed \in Texts /\ root \in Texts /\ <<>> \in Texts
    BY LineIs DEF PathsInv, Texts
  <2>3. Dirs \in SUBSET Texts
    BY PathTextAssumption DEF Texts, Letter
  <2>4. \A other \in Dirs \union {<<>>, root, typed} : other \in Texts
    BY <2>2, <2>3
  <2>5. SameText
    BY <2>2, <2>4, ComparesIs DEF SameText
  <2> QED BY <2>1, <2>5 DEF WordsAreExact
<1> QED BY <1>1, <1>2, <1>3, PTL DEF LineSpec

=============================================================================
