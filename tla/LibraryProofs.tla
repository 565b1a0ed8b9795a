--------------------------- MODULE LibraryProofs ----------------------------
(***************************************************************************)
(* Proofs about the heap and what lives on it, for every size of heap,     *)
(* header, alignment and item, every set of requests, of names, values and *)
(* capacities, and every set of lines; and about numbers on the screen.    *)
(*                                                                         *)
(* First the operators of HeapCalls alone, for whoever calls them: what    *)
(* kmalloc and kfree keep of the block list.  Then KHeap and its callers.  *)
(*                                                                         *)
(* Every operation on lists and Strings changes the heap by Swaps: some    *)
(* blocks go out, others come in, and nobody else's block changes size.    *)
(* Keeps says the same of one list: its old storage goes out, its new      *)
(* storage comes in, and the cells of all other blocks hold what they held.*)
(***************************************************************************)
EXTENDS Library, KHeap, FoldProofs, NaturalsInduction, SequenceTheorems

-----------------------------------------------------------------------------
(* Multiples of Align *)

LEMMA DivMod ==
    ASSUME NEW x \in Nat, NEW m \in Nat \ {0}
    PROVE  /\ x = m * (x \div m) + (x % m)
           /\ x \div m \in Nat
           /\ x % m \in 0 .. m - 1
OBVIOUS

LEMMA ModOfMultiple ==
    ASSUME NEW k \in Nat, NEW m \in Nat \ {0}
    PROVE  (m * k) % m = 0
OBVIOUS

LEMMA Distributes ==
    ASSUME NEW j \in Int, NEW k \in Int, NEW m \in Nat \ {0}
    PROVE  m * j + m * k = m * (j + k) /\ m * j - m * k = m * (j - k)
OBVIOUS

LEMMA Cancels ==
    ASSUME NEW j \in Int, NEW k \in Int, NEW m \in Nat \ {0}, m * j < m * k
    PROVE  j < k
OBVIOUS

LEMMA Multiples ==
    ASSUME NEW x \in Nat, NEW y \in Nat, NEW m \in Nat \ {0}, x % m = 0, y % m = 0
    PROVE  /\ (x + y) % m = 0
           /\ x >= y => (x - y) % m = 0
<1> DEFINE j == x \div m
           k == y \div m
<1>1. x = m * j /\ j \in Nat
  BY DivMod
<1>2. y = m * k /\ k \in Nat
  BY DivMod
<1> HIDE DEF j, k
<1>3. x + y = m * (j + k) /\ x - y = m * (j - k)
  BY <1>1, <1>2, Distributes
<1>4. (x + y) % m = 0
  BY <1>1, <1>2, <1>3, ModOfMultiple
<1>5. ASSUME x >= y PROVE (x - y) % m = 0
  <2>1. ~(j < k)
    <3> SUFFICES ASSUME j < k PROVE FALSE
      OBVIOUS
    <3>1. m * (k - j) > 0
      BY <1>1, <1>2
    <3>2. m * k - m * j = m * (k - j)
      BY <1>1, <1>2, Distributes
    <3>3. m * k \in Int /\ m * j \in Int
      BY <1>1, <1>2
    <3> QED BY <1>1, <1>2, <1>5, <3>1, <3>2, <3>3
  <2>2. j - k \in Nat
    BY <1>1, <1>2, <2>1
  <2> QED BY <1>3, <2>2, ModOfMultiple
<1> QED BY <1>4, <1>5

\* align8 rounds up to a multiple, and to the least one, unless it wraps.
LEMMA Aligns ==
    ASSUME NEW n \in 0 .. Modulus - 1
    PROVE  /\ align8(n) \in Nat
           /\ align8(n) % Align = 0
           /\ n <= Modulus - Align => align8(n) >= n
           /\ \A s \in Nat : s % Align = 0 /\ s >= n => s >= align8(n)
<1> DEFINE p == Wrap(n + (Align - 1))
           q == p \div Align
<1>0. Align \in Nat \ {0} /\ Modulus \in Nat /\ Modulus > Align
  BY HeapAssumption
<1>1. p \in Nat /\ p <= n + (Align - 1) /\ (n <= Modulus - Align => p = n + (Align - 1))
  BY <1>0 DEF Wrap
<1> HIDE DEF p
<1>2. p = Align * q + (p % Align) /\ q \in Nat /\ p % Align \in 0 .. Align - 1
  BY <1>0, <1>1, DivMod
<1>3. align8(n) = p - (p % Align)
  BY DEF align8, p
<1> HIDE DEF q
<1>4. Align * q \in Nat
  BY <1>0, <1>2
<1>5. align8(n) = Align * q
  BY <1>2, <1>3, <1>4
<1>6. align8(n) \in Nat /\ align8(n) % Align = 0
  BY <1>0, <1>2, <1>4, <1>5, ModOfMultiple
<1>7. n <= Modulus - Align => align8(n) >= n
  BY <1>0, <1>1, <1>2, <1>3, <1>6
<1>8. ASSUME NEW s \in Nat, s % Align = 0, s >= n PROVE s >= align8(n)
  <2> DEFINE k == s \div Align
  <2>1. s = Align * k /\ k \in Nat
    BY <1>0, <1>8, DivMod
  <2> HIDE DEF k
  <2>2. Align * q < Align * k + Align
    BY <1>0, <1>1, <1>2, <1>4, <1>8, <2>1
  <2>3. Align * k + Align = Align * (k + 1)
    BY <1>0, <2>1
  <2>4. q < k + 1
    BY <1>0, <1>2, <2>1, <2>2, <2>3, Cancels
  <2>5. Align * q <= Align * k
    <3>1. k - q \in Nat /\ Align * k - Align * q = Align * (k - q)
      BY <1>0, <1>2, <2>1, <2>4, Distributes
    <3>2. Align * (k - q) >= 0 /\ Align * k \in Int
      BY <1>0, <3>1, <2>1
    <3> QED BY <3>1, <3>2, <1>4
  <2> QED BY <1>5, <2>1, <2>5
<1> QED BY <1>6, <1>7, <1>8

-----------------------------------------------------------------------------
(* The block list *)

Typed(h) ==
    /\ h = [a \in DOMAIN h |-> h[a]]
    /\ DOMAIN h \subseteq Nat /\ 0 \in DOMAIN h
    /\ \A a \in DOMAIN h : h[a] \in BlockHeaders /\ h[a].size % Align = 0

\* The blocks fill the array, in order and without a gap.
Tiles(h) ==
    /\ \A a \in DOMAIN h : EndOf(h, a) <= HeapSize
    /\ \A a, b \in DOMAIN h : a < b => EndOf(h, a) <= b
    /\ \A x \in 0 .. HeapSize - 1 : \E a \in DOMAIN h : a <= x /\ x < EndOf(h, a)

Linked(h) ==
    /\ \A a \in DOMAIN h :
        /\ h[a].next = IF EndOf(h, a) = HeapSize THEN Null ELSE EndOf(h, a)
        /\ h[a].next # Null => h[a].next \in DOMAIN h /\ h[h[a].next].prev = a
        /\ h[a].prev = Null <=> a = 0
        /\ h[a].prev # Null => h[a].prev \in DOMAIN h /\ EndOf(h, h[a].prev) = a

NoFreePair(h) == \A a \in DOMAIN h : h[a].free /\ h[a].next # Null => ~h[h[a].next].free

Sound(h) == Typed(h) /\ Tiles(h) /\ Linked(h)

\* A record of a header, field by field.
LEMMA HeaderFields ==
    ASSUME NEW r \in BlockHeaders
    PROVE  /\ r.size \in Nat /\ r.free \in BOOLEAN /\ r.next \in Int /\ r.prev \in Int
           /\ r = [size |-> r.size, free |-> r.free, next |-> r.next, prev |-> r.prev]
BY DEF BlockHeaders

\* heap_init makes a sound list of one block.
LEMMA InitSound ==
    ASSUME NEW h, h = NoBlocks \/ Sound(h)
    PROVE  /\ Sound(heap_init(h))
           /\ NoFreePair(h) => NoFreePair(heap_init(h))
           /\ UsedBlocks(heap_init(h)) = UsedBlocks(h)
           /\ \A a \in UsedBlocks(h) : EndOf(heap_init(h), a) = EndOf(h, a)
<1>1. CASE Sound(h)
  BY <1>1 DEF Sound, Typed, heap_init
<1>2. CASE h = NoBlocks
  <2> DEFINE r == heap_init(h)
  <2>1. DOMAIN h = {} /\ UsedBlocks(h) = {}
    BY <1>2 DEF NoBlocks, UsedBlocks
  <2>2. r = [a \in {0} |-> [size |-> HeapSize - Header, free |-> TRUE, next |-> Null, prev |-> Null]]
    BY <2>1 DEF heap_init
  <2> HIDE DEF r
  <2>3. /\ DOMAIN r = {0} /\ r[0].size = HeapSize - Header /\ r[0].free = TRUE
        /\ r[0].next = Null /\ r[0].prev = Null
    BY <2>2
  <2>4. EndOf(r, 0) = HeapSize
    BY <2>3, HeapAssumption DEF EndOf
  <2>5. r[0] \in BlockHeaders
    BY <2>2, HeapAssumption DEF BlockHeaders, Null
  <2>6. (HeapSize - Header) % Align = 0
    BY HeapAssumption, Multiples
  <2>7. Typed(r)
    BY <2>2, <2>3, <2>5, <2>6 DEF Typed
  <2>8. Tiles(r)
    BY <2>3, <2>4, HeapAssumption DEF Tiles
  <2>9. Linked(r)
    BY <2>3, <2>4 DEF Linked, Null
  <2>10. UsedBlocks(r) = {} /\ NoFreePair(r)
    BY <2>3 DEF UsedBlocks, NoFreePair
  <2> QED BY <2>1, <2>7, <2>8, <2>9, <2>10 DEF Sound, r
<1> QED BY <1>1, <1>2

\* Where the blocks of a sound list lie.
LEMMA Places ==
    ASSUME NEW h, Sound(h), NEW a \in DOMAIN h
    PROVE  /\ a \in Nat /\ h[a].size \in Nat /\ h[a].free \in BOOLEAN
           /\ EndOf(h, a) \in Nat /\ EndOf(h, a) = a + Header + h[a].size
           /\ a < EndOf(h, a) /\ EndOf(h, a) <= HeapSize
           /\ h[a].next # a
           /\ h[a].next # Null => h[a].next = EndOf(h, a) /\ h[a].next \in DOMAIN h
           /\ h[a].next = Null => EndOf(h, a) = HeapSize
<1>1. a \in Nat /\ h[a] \in BlockHeaders
  BY DEF Sound, Typed
<1>2. h[a].size \in Nat /\ h[a].free \in BOOLEAN
  BY <1>1 DEF BlockHeaders
<1>3. EndOf(h, a) = a + Header + h[a].size
  BY DEF EndOf
<1>4. EndOf(h, a) \in Nat /\ a < EndOf(h, a)
  BY <1>1, <1>2, <1>3, HeapAssumption
<1>5. EndOf(h, a) <= HeapSize
  BY DEF Sound, Tiles
<1>6. /\ h[a].next = IF EndOf(h, a) = HeapSize THEN Null ELSE EndOf(h, a)
      /\ h[a].next # Null => h[a].next \in DOMAIN h
  BY DEF Sound, Linked
<1> QED BY <1>1, <1>2, <1>3, <1>4, <1>5, <1>6 DEF Null

\* A header is the only block inside its own bytes.
LEMMA NoneInside ==
    ASSUME NEW h, Sound(h), NEW a \in DOMAIN h, NEW b \in DOMAIN h, a < b
    PROVE  b >= EndOf(h, a)
<1>1. EndOf(h, a) <= b
  BY DEF Sound, Tiles
<1> QED BY <1>1, Places

\* Header r[s] has been cut out of block a of the list h, and a is in use.
CutBlock(h, a, size, r, s) ==
    /\ r = [b \in DOMAIN r |-> r[b]]
    /\ DOMAIN r = DOMAIN h \union {s}
    /\ s \notin DOMAIN h /\ a < s /\ s + Header <= EndOf(h, a)
    /\ r[a] = [h[a] EXCEPT !.size = size, !.next = s, !.free = FALSE]
    /\ r[s] = Rest(h, a, size)
    /\ \A b \in DOMAIN h \ {a} :
         r[b] = IF b = h[a].next THEN [h[b] EXCEPT !.prev = s] ELSE h[b]

CutFields(h, a, size, r, s) ==
    /\ r = [b \in DOMAIN r |-> r[b]]
    /\ DOMAIN r = DOMAIN h \union {s}
    /\ s \notin DOMAIN h /\ s \in Nat
    /\ \A b \in DOMAIN r : r[b] \in BlockHeaders
    /\ r[a].size = size /\ ~r[a].free /\ r[a].next = s /\ r[a].prev = h[a].prev
    /\ r[s].size = h[a].size - size - Header /\ r[s].free
    /\ r[s].next = h[a].next /\ r[s].prev = a
    /\ \A b \in DOMAIN h \ {a} :
        /\ r[b].size = h[b].size /\ r[b].free = h[b].free /\ r[b].next = h[b].next
        /\ r[b].prev = IF b = h[a].next THEN s ELSE h[b].prev

\* kmalloc's first part: a free block that fits is split.
LEMMA SplitValues ==
    ASSUME NEW h, Sound(h), NEW size \in Nat, NEW a \in Fits(h, size),
           h[a].size >= size + Header + Align,
           NEW r, r = Take(h, a, size), NEW s, s = a + Header + size
    PROVE  CutBlock(h, a, size, r, s)
<1> DEFINE n == h[a].next
           cut == [b \in DOMAIN h \union {s} |->
                     IF b = s THEN Rest(h, a, size)
                     ELSE IF b = a THEN [h[a] EXCEPT !.size = size, !.next = s]
                     ELSE h[b]]
<1>1. a \in DOMAIN h
  BY DEF Fits
<1>2. a \in Nat /\ h[a].size \in Nat /\ EndOf(h, a) = a + Header + h[a].size
        /\ EndOf(h, a) <= HeapSize /\ n # a
  BY <1>1, Places
<1>3. Header \in Nat \ {0} /\ Align \in Nat \ {0} /\ HeapSize \in Nat /\ Modulus \in Nat
        /\ Modulus > HeapSize + Header + Align
  BY HeapAssumption
<1>4. s \in Nat /\ a < s /\ s + Header <= EndOf(h, a)
  BY <1>2, <1>3
<1>5. Wrap(Wrap(size + Header) + Align) = size + Header + Align
  BY <1>2, <1>3 DEF Wrap
<1>6. Split(h, a, size) = PointBack(cut, n, s)
  BY <1>5 DEF Split
<1>7. s \notin DOMAIN h
  <2> SUFFICES ASSUME s \in DOMAIN h PROVE FALSE
    OBVIOUS
  <2> QED BY <1>1, <1>2, <1>3, <1>4, NoneInside
<1>8. n # Null => n \in DOMAIN h /\ n # s
  BY <1>1, <1>7, Places
<1>9. a # s
  BY <1>2, <1>4
<1> HIDE DEF cut, n
<1>10. /\ DOMAIN cut = DOMAIN h \union {s}
       /\ cut[s] = Rest(h, a, size)
       /\ cut[a] = [h[a] EXCEPT !.size = size, !.next = s]
       /\ \A b \in DOMAIN h \ {a} : cut[b] = h[b]
       /\ cut = [b \in DOMAIN cut |-> cut[b]]
  BY <1>1, <1>7, <1>9 DEF cut
<1> DEFINE back == PointBack(cut, n, s)
<1>11. /\ DOMAIN back = DOMAIN h \union {s}
       /\ back[s] = Rest(h, a, size)
       /\ back[a] = [h[a] EXCEPT !.size = size, !.next = s]
       /\ \A b \in DOMAIN h \ {a} : back[b] = IF b = n THEN [h[b] EXCEPT !.prev = s] ELSE h[b]
  <2>1. CASE n = Null
    <3>1. n \notin DOMAIN h
      BY <2>1 DEF Sound, Typed, Null
    <3> QED BY <1>10, <2>1, <3>1 DEF PointBack
  <2>2. CASE n # Null
    BY <1>1, <1>2, <1>8, <1>10, <2>2 DEF PointBack, n
  <2> QED BY <2>1, <2>2
<1> HIDE DEF back
<1>12. r = [back EXCEPT ![a].free = FALSE]
  BY <1>6 DEF Take, back
<1>13. [h[a] EXCEPT !.size = size, !.next = s, !.free = FALSE]
        = [[h[a] EXCEPT !.size = size, !.next = s] EXCEPT !.free = FALSE]
  OBVIOUS
<1>14. /\ DOMAIN r = DOMAIN h \union {s}
       /\ r = [b \in DOMAIN r |-> r[b]]
       /\ r[a] = [back[a] EXCEPT !.free = FALSE]
       /\ \A b \in DOMAIN r \ {a} : r[b] = back[b]
  BY <1>1, <1>11, <1>12
<1> QED BY <1>1, <1>4, <1>7, <1>9, <1>11, <1>13, <1>14 DEF n, CutBlock

\* The same, field by field.
LEMMA SplitFields ==
    ASSUME NEW h, Sound(h), NEW size \in Nat, NEW a \in Fits(h, size),
           h[a].size >= size + Header + Align,
           NEW r, r = Take(h, a, size), NEW s, s = a + Header + size
    PROVE  CutFields(h, a, size, r, s)
<1>0. CutBlock(h, a, size, r, s)
  BY SplitValues
<1>1. /\ r = [b \in DOMAIN r |-> r[b]]
      /\ DOMAIN r = DOMAIN h \union {s}
      /\ s \notin DOMAIN h /\ a < s /\ s + Header <= EndOf(h, a)
      /\ r[a] = [h[a] EXCEPT !.size = size, !.next = s, !.free = FALSE]
      /\ r[s] = Rest(h, a, size)
      /\ \A b \in DOMAIN h \ {a} :
           r[b] = IF b = h[a].next THEN [h[b] EXCEPT !.prev = s] ELSE h[b]
  BY <1>0 DEF CutBlock
<1>2. a \in DOMAIN h /\ Header \in Nat /\ Align \in Nat
  BY HeapAssumption DEF Fits
<1>3. a \in Nat /\ s \in Nat /\ \A b \in DOMAIN h : h[b] \in BlockHeaders
  BY <1>2 DEF Sound, Typed
<1>4. h[a].size - size - Header \in Nat
  BY <1>2, <1>3 DEF BlockHeaders
<1>5. /\ r[s].size = h[a].size - size - Header /\ r[s].free = TRUE
      /\ r[s].next = h[a].next /\ r[s].prev = a /\ r[s] \in BlockHeaders
  BY <1>1, <1>2, <1>3, <1>4 DEF Rest, BlockHeaders
<1>6. /\ r[a].size = size /\ r[a].free = FALSE /\ r[a].next = s /\ r[a].prev = h[a].prev
      /\ r[a] \in BlockHeaders
  <2>1. h[a] = [size |-> h[a].size, free |-> h[a].free, next |-> h[a].next, prev |-> h[a].prev]
        /\ h[a].prev \in Int
    BY <1>2, <1>3 DEF BlockHeaders
  <2>2. r[a] = [size |-> size, free |-> FALSE, next |-> s, prev |-> h[a].prev]
    BY <1>1, <2>1
  <2> QED BY <1>3, <2>1, <2>2 DEF BlockHeaders
<1>7. ASSUME NEW b \in DOMAIN h \ {a}
      PROVE  /\ r[b].size = h[b].size /\ r[b].free = h[b].free /\ r[b].next = h[b].next
             /\ r[b].prev = IF b = h[a].next THEN s ELSE h[b].prev
             /\ r[b] \in BlockHeaders
  BY <1>1, <1>2, <1>3 DEF BlockHeaders
<1> QED BY <1>1, <1>3, <1>5, <1>6, <1>7 DEF CutFields

LEMMA SplitSound ==
    ASSUME NEW h, Sound(h), NEW size \in Nat, size % Align = 0, NEW a \in Fits(h, size),
           h[a].size >= size + Header + Align,
           NEW r, r = Take(h, a, size)
    PROVE  /\ Sound(r)
           /\ NoFreePair(h) => NoFreePair(r)
           /\ UsedBlocks(r) = UsedBlocks(h) \union {a}
           /\ r[a].size >= size
           /\ \A b \in UsedBlocks(h) : b # a /\ r[b].size = h[b].size
<1> DEFINE s == a + Header + size
           n == h[a].next
<1>0. CutFields(h, a, size, r, s)
  BY SplitFields
<1>1. /\ r = [b \in DOMAIN r |-> r[b]]
      /\ DOMAIN r = DOMAIN h \union {s}
      /\ s \notin DOMAIN h /\ s \in Nat
      /\ \A b \in DOMAIN r : r[b] \in BlockHeaders
  BY <1>0 DEF CutFields
<1>2. /\ r[a].size = size /\ ~r[a].free /\ r[a].next = s /\ r[a].prev = h[a].prev
      /\ r[s].size = h[a].size - size - Header /\ r[s].free
      /\ r[s].next = n /\ r[s].prev = a
  BY <1>0 DEF CutFields
<1>3. \A b \in DOMAIN h \ {a} :
        /\ r[b].size = h[b].size /\ r[b].free = h[b].free /\ r[b].next = h[b].next
        /\ r[b].prev = IF b = n THEN s ELSE h[b].prev
  BY <1>0 DEF CutFields
<1>4. a \in DOMAIN h /\ h[a].free
  BY DEF Fits
<1>5. Header \in Nat \ {0} /\ Align \in Nat \ {0} /\ HeapSize \in Nat /\ Header % Align = 0
  BY HeapAssumption
<1>6. \A b \in DOMAIN h : b \in Nat /\ h[b].size \in Nat /\ h[b].size % Align = 0
  BY DEF Sound, Typed, BlockHeaders
<1>7. EndOf(r, a) = s /\ EndOf(r, s) = EndOf(h, a) /\ a < s /\ s < EndOf(h, a)
  <2>1. /\ a \in Nat /\ h[a].size \in Nat /\ h[a].size >= size + Header + Align
        /\ EndOf(h, a) = a + Header + h[a].size
    BY <1>4, <1>6 DEF EndOf
  <2>2. EndOf(r, a) = a + Header + size
    BY <1>2 DEF EndOf
  <2>3. EndOf(r, s) = s + Header + (h[a].size - size - Header)
    BY <1>2 DEF EndOf
  <2> HIDE <1>2
  <2> QED BY <1>5, <2>1, <2>2, <2>3
<1>8. \A b \in DOMAIN h \ {a} : EndOf(r, b) = EndOf(h, b)
  BY <1>3 DEF EndOf
<1>9. Typed(r)
  <2>1. (h[a].size - size - Header) % Align = 0
    <3>1. h[a].size - size \in Nat /\ h[a].size - size >= Header
      BY <1>4, <1>5, <1>6
    <3>2. (h[a].size - size) % Align = 0
      BY <1>4, <1>5, <1>6, <3>1, Multiples
    <3> QED BY <1>5, <3>1, <3>2, Multiples
  <2>2. 0 \in DOMAIN h
    BY DEF Sound, Typed
  <2> HIDE DEF s
  <2> QED BY <1>1, <1>2, <1>3, <1>6, <2>1, <2>2 DEF Typed
<1> HIDE DEF s, n
<1>10. Tiles(r)
  <2>1. /\ \A b \in DOMAIN h : EndOf(h, b) <= HeapSize /\ EndOf(h, b) \in Nat
        /\ \A b, c \in DOMAIN h : b < c => EndOf(h, b) <= c
    BY Places DEF Sound, Tiles
  <2>2. \A b \in DOMAIN r : EndOf(r, b) <= HeapSize
    BY <1>1, <1>4, <1>5, <1>6, <1>7, <1>8, <2>1
  <2>3. ASSUME NEW b \in DOMAIN r, NEW c \in DOMAIN r, b < c PROVE EndOf(r, b) <= c
    <3>1. CASE b = s
      <4>1. c \in DOMAIN h /\ a < c
        BY <1>1, <1>4, <1>6, <1>7, <2>3, <3>1
      <4> QED BY <1>4, <1>7, <2>1, <3>1, <4>1
    <3>2. CASE b = a /\ c # s
      <4>1. c \in DOMAIN h /\ EndOf(h, a) <= c /\ c \in Nat
        BY <1>1, <1>4, <1>6, <2>1, <2>3, <3>2
      <4> QED BY <1>4, <1>7, <1>1, <2>1, <3>2, <4>1
    <3>3. CASE b = a /\ c = s
      BY <1>1, <1>7, <3>3
    <3>4. CASE b \in DOMAIN h \ {a} /\ c = s
      <4>1. b \in Nat /\ EndOf(h, b) \in Nat /\ a \in Nat
        BY <1>4, <1>6, <2>1, <3>4
      <4>2. b < a
        <5>1. CASE a < b
          <6>1. EndOf(h, a) <= b
            BY <1>4, <2>1, <3>4, <5>1
          <6> QED BY <1>1, <1>4, <1>7, <2>1, <2>3, <3>4, <4>1, <6>1
        <5> QED BY <3>4, <4>1, <5>1
      <4>3. EndOf(h, b) <= a
        BY <1>4, <2>1, <3>4, <4>2
      <4> QED BY <1>1, <1>7, <1>8, <3>4, <4>1, <4>3
    <3>5. CASE b \in DOMAIN h \ {a} /\ c \in DOMAIN h
      BY <1>8, <2>1, <2>3, <3>5
    <3> QED BY <1>1, <3>1, <3>2, <3>3, <3>4, <3>5
  <2>4. ASSUME NEW x \in 0 .. HeapSize - 1
        PROVE  \E b \in DOMAIN r : b <= x /\ x < EndOf(r, b)
    <3>1. PICK b \in DOMAIN h : b <= x /\ x < EndOf(h, b)
      BY DEF Sound, Tiles
    <3>2. CASE b # a
      BY <1>1, <1>8, <3>1, <3>2
    <3>3. CASE b = a /\ x < s
      BY <1>1, <1>7, <3>1, <3>3
    <3>4. CASE b = a /\ x >= s
      BY <1>1, <1>7, <3>1, <3>4
    <3> QED BY <1>1, <1>5, <3>2, <3>3, <3>4
  <2> QED BY <2>2, <2>3, <2>4 DEF Tiles
<1>11. Linked(r)
  <2>1. \A b \in DOMAIN h :
          /\ h[b].next = IF EndOf(h, b) = HeapSize THEN Null ELSE EndOf(h, b)
          /\ h[b].next # Null => h[b].next \in DOMAIN h /\ h[h[b].next].prev = b
          /\ h[b].prev = Null <=> b = 0
          /\ h[b].prev # Null => h[b].prev \in DOMAIN h /\ EndOf(h, h[b].prev) = b
    BY DEF Sound, Linked
  <2>2. /\ EndOf(h, a) \in Nat /\ n # a /\ EndOf(h, a) <= HeapSize
        /\ n # Null => n = EndOf(h, a) /\ n \in DOMAIN h
        /\ n = Null => EndOf(h, a) = HeapSize
    BY <1>4, Places DEF n
  <2>3. n = IF EndOf(h, a) = HeapSize THEN Null ELSE EndOf(h, a)
    BY <1>4, <2>1 DEF n
  <2>4. s # Null /\ a # s /\ s # HeapSize /\ s # 0 /\ a # Null /\ a \in Nat
    BY <1>1, <1>4, <1>5, <1>6, <1>7, <2>2 DEF Null
  <2>5. /\ r[a].next = IF EndOf(r, a) = HeapSize THEN Null ELSE EndOf(r, a)
        /\ r[a].next # Null => r[a].next \in DOMAIN r /\ r[r[a].next].prev = a
    BY <1>1, <1>2, <1>7, <2>4
  <2>6. /\ r[a].prev = Null <=> a = 0
        /\ r[a].prev # Null => r[a].prev \in DOMAIN r /\ EndOf(r, r[a].prev) = a
    <3>1. CASE h[a].prev = Null
      BY <1>2, <1>4, <2>1, <3>1
    <3>2. CASE h[a].prev # Null
      <4>1. h[a].prev \in DOMAIN h /\ EndOf(h, h[a].prev) = a
        BY <1>4, <2>1, <3>2
      <4>2. h[a].prev # a
        <5>1. a < EndOf(h, a)
          BY <1>4, Places
        <5> QED BY <4>1, <5>1, <2>4
      <4> QED BY <1>1, <1>2, <1>4, <1>8, <2>1, <3>2, <4>1, <4>2
    <3> QED BY <3>1, <3>2
  <2>7. /\ r[s].next = IF EndOf(r, s) = HeapSize THEN Null ELSE EndOf(r, s)
        /\ r[s].next # Null => r[s].next \in DOMAIN r /\ r[r[s].next].prev = s
        /\ r[s].prev = Null <=> s = 0
        /\ r[s].prev # Null => r[s].prev \in DOMAIN r /\ EndOf(r, r[s].prev) = s
    BY <1>1, <1>2, <1>3, <1>4, <1>7, <2>2, <2>3, <2>4
  <2>8. ASSUME NEW b \in DOMAIN h \ {a}
        PROVE  /\ r[b].next = IF EndOf(r, b) = HeapSize THEN Null ELSE EndOf(r, b)
               /\ r[b].next # Null => r[b].next \in DOMAIN r /\ r[r[b].next].prev = b
    <3>1. r[b].next = IF EndOf(r, b) = HeapSize THEN Null ELSE EndOf(r, b)
      BY <1>3, <1>8, <2>1
    <3>2. ASSUME r[b].next # Null PROVE r[b].next \in DOMAIN r /\ r[r[b].next].prev = b
      <4>1. r[b].next = h[b].next /\ h[b].next \in DOMAIN h /\ h[h[b].next].prev = b
        BY <1>3, <2>1, <3>2
      <4>2. CASE h[b].next = a
        BY <1>1, <1>2, <4>1, <4>2
      <4>3. CASE h[b].next # a
        <5>1. h[b].next # n
          <6>1. h[b].next = n => n # Null /\ h[n].prev = a
            BY <1>4, <2>1, <3>2, <4>1 DEF n
          <6> QED BY <4>1, <6>1
        <5> QED BY <1>1, <1>3, <4>1, <4>3, <5>1
      <4> QED BY <4>2, <4>3
    <3> QED BY <3>1, <3>2
  <2>9. ASSUME NEW b \in DOMAIN h \ {a}
        PROVE  /\ r[b].prev = Null <=> b = 0
               /\ r[b].prev # Null => r[b].prev \in DOMAIN r /\ EndOf(r, r[b].prev) = b
    <3>1. CASE b = n
      <4>1. n # Null
        BY <1>6, <3>1 DEF Null
      <4>2. n = EndOf(h, a) /\ n # 0
        <5>1. n = EndOf(h, a)
          BY <2>2, <4>1
        <5>2. a \in Nat /\ a < EndOf(h, a)
          BY <1>4, Places
        <5> QED BY <2>2, <5>1, <5>2
      <4> QED BY <1>1, <1>3, <1>7, <2>4, <3>1, <4>2
    <3>2. CASE b # n
      <4>1. r[b].prev = h[b].prev
        BY <1>3, <3>2
      <4>2. h[b].prev # a
        <5> SUFFICES ASSUME h[b].prev = a PROVE FALSE
          OBVIOUS
        <5>1. EndOf(h, a) = b
          BY <2>1, <2>4
        <5> QED BY <1>6, <2>2, <2>3, <3>2, <5>1, Places
      <4> QED BY <1>1, <1>8, <2>1, <4>1, <4>2
    <3> QED BY <3>1, <3>2
  <2> QED BY <1>1, <2>5, <2>6, <2>7, <2>8, <2>9 DEF Linked
<1>12. ASSUME NoFreePair(h) PROVE NoFreePair(r)
  <2>1. n # Null => n \in DOMAIN h /\ ~h[n].free /\ n # a
    BY <1>4, <1>12, Places DEF NoFreePair, n
  <2>2. \A b \in DOMAIN h \ {a} : h[b].next # Null => h[b].next \in DOMAIN h
    BY Places
  <2>3. \A b \in DOMAIN h \ {a} : h[b].free /\ h[b].next # Null => ~r[h[b].next].free
    BY <1>2, <1>3, <1>12, <2>2 DEF NoFreePair
  <2> QED BY <1>1, <1>2, <1>3, <2>1, <2>3 DEF NoFreePair
<1>13. UsedBlocks(r) = UsedBlocks(h) \union {a}
  BY <1>1, <1>2, <1>3, <1>4 DEF UsedBlocks
<1>14. /\ r[a].size >= size
       /\ \A b \in UsedBlocks(h) : b # a /\ r[b].size = h[b].size
  BY <1>2, <1>3, <1>4 DEF UsedBlocks
<1> QED BY <1>9, <1>10, <1>11, <1>12, <1>13, <1>14 DEF Sound

\* A block's flag does not move it.
Flagged(h, a, f, r) ==
    /\ DOMAIN r = DOMAIN h
    /\ r[a].free = f
    /\ \A b \in DOMAIN h :
        /\ r[b].size = h[b].size /\ r[b].next = h[b].next /\ r[b].prev = h[b].prev
        /\ EndOf(r, b) = EndOf(h, b)
        /\ b # a => r[b].free = h[b].free

LEMMA FlaggedLinked ==
    ASSUME NEW h, Sound(h), NEW a, NEW f, NEW r, Flagged(h, a, f, r)
    PROVE  Linked(r)
<1>1. DOMAIN r = DOMAIN h
  BY DEF Flagged
<1>2. ASSUME NEW b \in DOMAIN h
      PROVE  r[b].next = h[b].next /\ r[b].prev = h[b].prev /\ EndOf(r, b) = EndOf(h, b)
  BY DEF Flagged
<1>3. ASSUME NEW b \in DOMAIN h
      PROVE  /\ h[b].next = IF EndOf(h, b) = HeapSize THEN Null ELSE EndOf(h, b)
             /\ h[b].next # Null => h[b].next \in DOMAIN h /\ h[h[b].next].prev = b
             /\ h[b].prev = Null <=> b = 0
             /\ h[b].prev # Null => h[b].prev \in DOMAIN h /\ EndOf(h, h[b].prev) = b
  BY DEF Sound, Linked
<1>4. ASSUME NEW b \in DOMAIN h
      PROVE  /\ r[b].next = IF EndOf(r, b) = HeapSize THEN Null ELSE EndOf(r, b)
             /\ r[b].next # Null => r[b].next \in DOMAIN r /\ r[r[b].next].prev = b
             /\ r[b].prev = Null <=> b = 0
             /\ r[b].prev # Null => r[b].prev \in DOMAIN r /\ EndOf(r, r[b].prev) = b
  BY <1>1, <1>2, <1>3
<1> QED BY <1>1, <1>4 DEF Linked

LEMMA FlagSound ==
    ASSUME NEW h, Sound(h), NEW a \in DOMAIN h, NEW f \in BOOLEAN,
           NEW r, r = [h EXCEPT ![a].free = f]
    PROVE  Sound(r) /\ Flagged(h, a, f, r)
<1>1. \A b \in DOMAIN h : h[b] \in BlockHeaders
  BY DEF Sound, Typed
<1>2. /\ DOMAIN r = DOMAIN h /\ r = [b \in DOMAIN r |-> r[b]]
      /\ r[a] = [h[a] EXCEPT !.free = f]
      /\ \A b \in DOMAIN h \ {a} : r[b] = h[b]
  BY DEF Sound, Typed
<1>3. /\ r[a].size = h[a].size /\ r[a].next = h[a].next /\ r[a].prev = h[a].prev
      /\ r[a].free = f /\ r[a] \in BlockHeaders
  <2>1. h[a] = [size |-> h[a].size, free |-> h[a].free, next |-> h[a].next, prev |-> h[a].prev]
        /\ h[a].size \in Nat /\ h[a].next \in Int /\ h[a].prev \in Int
    BY <1>1 DEF BlockHeaders
  <2>2. r[a] = [size |-> h[a].size, free |-> f, next |-> h[a].next, prev |-> h[a].prev]
    BY <1>2, <2>1
  <2> QED BY <2>1, <2>2 DEF BlockHeaders
<1>4. \A b \in DOMAIN h : r[b].size = h[b].size /\ r[b].next = h[b].next /\ r[b].prev = h[b].prev
  BY <1>2, <1>3
<1>5. \A b \in DOMAIN h : EndOf(r, b) = EndOf(h, b)
  BY <1>4 DEF EndOf
<1>6. Typed(r)
  BY <1>1, <1>2, <1>3, <1>4 DEF Sound, Typed
<1>7. Tiles(r)
  BY <1>2, <1>5 DEF Sound, Tiles
<1>8. Flagged(h, a, f, r)
  BY <1>2, <1>3, <1>4, <1>5 DEF Flagged
<1>9. Linked(r)
  BY <1>8, FlaggedLinked
<1> QED BY <1>6, <1>7, <1>8, <1>9 DEF Sound

\* kmalloc's block: sound, in use, large enough, and nobody else's has moved.
LEMMA TakeSound ==
    ASSUME NEW h, Sound(h), NEW size \in Nat, size % Align = 0, NEW a \in Fits(h, size),
           NEW r, r = Take(h, a, size)
    PROVE  /\ Sound(r)
           /\ NoFreePair(h) => NoFreePair(r)
           /\ UsedBlocks(r) = UsedBlocks(h) \union {a}
           /\ r[a].size >= size
           /\ \A b \in UsedBlocks(h) : b # a /\ r[b].size = h[b].size
<1>1. a \in DOMAIN h /\ h[a].free /\ h[a].size >= size
  BY DEF Fits
<1>2. a \in Nat /\ h[a].size \in Nat /\ a + Header + h[a].size <= HeapSize
  BY <1>1, Places
<1>3. Header \in Nat /\ Align \in Nat /\ HeapSize \in Nat /\ Modulus \in Nat
        /\ Modulus > HeapSize + Header + Align
  BY HeapAssumption
<1>4. CASE h[a].size >= size + Header + Align
  BY <1>4, SplitSound
<1>5. CASE ~(h[a].size >= size + Header + Align)
  <2>1. Wrap(Wrap(size + Header) + Align) = size + Header + Align
    BY <1>1, <1>2, <1>3 DEF Wrap
  <2>2. r = [h EXCEPT ![a].free = FALSE]
    BY <1>5, <2>1 DEF Take, Split
  <2>3. Sound(r) /\ Flagged(h, a, FALSE, r)
    BY <1>1, <2>2, FlagSound
  <2>4. UsedBlocks(r) = UsedBlocks(h) \union {a}
    BY <1>1, <2>3 DEF Flagged, UsedBlocks
  <2>5. NoFreePair(h) => NoFreePair(r)
    <3>1. \A b \in DOMAIN h : h[b].next # Null => h[b].next \in DOMAIN h
      BY Places
    <3> QED BY <1>1, <2>3, <3>1 DEF Flagged, NoFreePair
  <2> QED BY <1>1, <2>3, <2>4, <2>5 DEF Flagged, UsedBlocks
<1> QED BY <1>4, <1>5

\* Block n has gone into block a before it.
Merged(h, a, n, r) ==
    /\ DOMAIN r = DOMAIN h \ {n}
    /\ r[a].size = h[a].size + Header + h[n].size
    /\ r[a].free = h[a].free /\ r[a].next = h[n].next /\ r[a].prev = h[a].prev
    /\ \A b \in DOMAIN h \ {a, n} :
        /\ r[b].size = h[b].size /\ r[b].free = h[b].free /\ r[b].next = h[b].next
        /\ r[b].prev = IF b = h[n].next THEN a ELSE h[b].prev

LEMMA AbsorbValues ==
    ASSUME NEW h, Sound(h), NEW a \in DOMAIN h, NEW n, n = h[a].next, n # Null,
           NEW r, r = Absorb(h, a)
    PROVE  /\ Merged(h, a, n, r)
           /\ r = [b \in DOMAIN r |-> r[b]]
           /\ \A b \in DOMAIN r : r[b] \in BlockHeaders
<1> DEFINE m == h[n].next
           merged == [c \in DOMAIN h \ {n} |->
                 IF c = a THEN [h[a] EXCEPT !.size = @ + Header + h[n].size, !.next = m]
                 ELSE h[c]]
<1>1. n \in DOMAIN h /\ n # a /\ n = EndOf(h, a)
  BY Places
<1>2. \A b \in DOMAIN h : h[b] \in BlockHeaders
  BY DEF Sound, Typed
<1>3. m # Null => m \in DOMAIN h /\ m # a /\ m # n
  <2>1. m # Null => m \in DOMAIN h /\ m # n /\ m = EndOf(h, n) /\ n \in Nat /\ n < EndOf(h, n)
    BY <1>1, Places
  <2>2. a \in Nat /\ a < EndOf(h, a)
    BY Places
  <2>3. EndOf(h, a) \in Nat /\ EndOf(h, n) \in Nat
    BY <1>1, Places
  <2> HIDE DEF m
  <2> QED BY <1>1, <2>1, <2>2, <2>3
<1>4. Header \in Nat
  BY HeapAssumption
<1>5. r = PointBack(merged, m, a)
  BY DEF Absorb
<1> HIDE DEF merged, m
<1>6. /\ DOMAIN merged = DOMAIN h \ {n} /\ merged = [b \in DOMAIN merged |-> merged[b]]
      /\ merged[a] = [h[a] EXCEPT !.size = @ + Header + h[n].size, !.next = m]
      /\ \A b \in DOMAIN h \ {a, n} : merged[b] = h[b]
  BY <1>1 DEF merged
<1>7. m \in Int
  BY <1>1, <1>2 DEF m, BlockHeaders
<1>8. /\ merged[a].size = h[a].size + Header + h[n].size
      /\ merged[a].free = h[a].free /\ merged[a].next = m /\ merged[a].prev = h[a].prev
      /\ merged[a] \in BlockHeaders
  <2>1. h[a] = [size |-> h[a].size, free |-> h[a].free, next |-> h[a].next, prev |-> h[a].prev]
        /\ h[a].size \in Nat /\ h[a].free \in BOOLEAN /\ h[a].prev \in Int
    BY <1>2 DEF BlockHeaders
  <2>2. h[n].size \in Nat
    BY <1>1, <1>2 DEF BlockHeaders
  <2>3. merged[a] = [size |-> h[a].size + Header + h[n].size, free |-> h[a].free,
                     next |-> m, prev |-> h[a].prev]
    BY <1>6, <2>1
  <2> QED BY <1>4, <1>7, <2>1, <2>2, <2>3 DEF BlockHeaders
<1>9. CASE m = Null
  <2>1. m \notin DOMAIN h
    BY <1>9 DEF Sound, Typed, Null
  <2>2. r = merged
    BY <1>5, <1>9 DEF PointBack
  <2>3. \A b \in DOMAIN h \ {a, n} : r[b] = h[b] /\ b # m
    BY <1>6, <1>9, <2>1, <2>2
  <2>4. Merged(h, a, n, r)
    BY <1>6, <1>8, <2>2, <2>3 DEF Merged, m
  <2>5. \A b \in DOMAIN r : r[b] \in BlockHeaders
    BY <1>2, <1>6, <1>8, <2>2, <2>3
  <2> QED BY <1>6, <2>2, <2>4, <2>5
<1>10. CASE m # Null
  <2>1. r = [merged EXCEPT ![m].prev = a]
    BY <1>5, <1>10 DEF PointBack
  <2>2. /\ DOMAIN r = DOMAIN merged /\ r = [b \in DOMAIN r |-> r[b]]
        /\ r[m] = [h[m] EXCEPT !.prev = a]
        /\ \A b \in DOMAIN merged \ {m} : r[b] = merged[b]
    <3>1. m \in DOMAIN merged /\ merged[m] = h[m]
      BY <1>3, <1>6, <1>10
    <3>2. DOMAIN r = DOMAIN merged /\ \A b \in DOMAIN merged \ {m} : r[b] = merged[b]
      BY <1>6, <2>1
    <3>3. r[m] = [merged[m] EXCEPT !.prev = a]
      BY <2>1, <3>1
    <3>4. r = [b \in DOMAIN r |-> r[b]]
      BY <2>1
    <3> QED BY <3>1, <3>2, <3>3, <3>4
  <2>3. /\ r[m].size = h[m].size /\ r[m].free = h[m].free /\ r[m].next = h[m].next
        /\ r[m].prev = a /\ r[m] \in BlockHeaders
    <3>1. h[m] = [size |-> h[m].size, free |-> h[m].free, next |-> h[m].next, prev |-> h[m].prev]
          /\ h[m].size \in Nat /\ h[m].free \in BOOLEAN /\ h[m].next \in Int
      BY <1>2, <1>3, <1>10 DEF BlockHeaders
    <3>2. r[m] = [size |-> h[m].size, free |-> h[m].free, next |-> h[m].next, prev |-> a]
      BY <2>2, <3>1
    <3>3. a \in Int
      BY Places
    <3> QED BY <3>1, <3>2, <3>3 DEF BlockHeaders
  <2>4. \A b \in DOMAIN r : r[b] \in BlockHeaders
    BY <1>2, <1>6, <1>8, <2>2, <2>3
  <2>5. /\ r[a].size = h[a].size + Header + h[n].size
        /\ r[a].free = h[a].free /\ r[a].next = m /\ r[a].prev = h[a].prev
    BY <1>1, <1>3, <1>6, <1>8, <1>10, <2>2
  <2>6. ASSUME NEW b \in DOMAIN h \ {a, n}
        PROVE  /\ r[b].size = h[b].size /\ r[b].free = h[b].free /\ r[b].next = h[b].next
               /\ r[b].prev = IF b = m THEN a ELSE h[b].prev
    <3>1. CASE b = m
      BY <2>3, <3>1
    <3>2. CASE b # m
      <4>1. b \in DOMAIN merged \ {m} /\ merged[b] = h[b]
        BY <1>6, <3>2
      <4>2. r[b] = h[b]
        BY <2>2, <4>1
      <4> QED BY <3>2, <4>2
    <3> QED BY <3>1, <3>2
  <2>7. DOMAIN r = DOMAIN h \ {n}
    BY <1>6, <2>2
  <2>8. Merged(h, a, n, r)
    BY <2>5, <2>6, <2>7 DEF Merged, m
  <2> QED BY <2>2, <2>4, <2>8
<1> QED BY <1>9, <1>10

LEMMA JoinSound ==
    ASSUME NEW h, Sound(h), NEW a \in DOMAIN h, NEW n, n = h[a].next, n # Null,
           NEW r, Merged(h, a, n, r), r = [b \in DOMAIN r |-> r[b]],
           \A b \in DOMAIN r : r[b] \in BlockHeaders
    PROVE  Sound(r)
<1>1. /\ DOMAIN r = DOMAIN h \ {n}
      /\ r[a].size = h[a].size + Header + h[n].size
      /\ r[a].next = h[n].next /\ r[a].prev = h[a].prev
      /\ \A b \in DOMAIN h \ {a, n} :
          /\ r[b].size = h[b].size /\ r[b].next = h[b].next
          /\ r[b].prev = IF b = h[n].next THEN a ELSE h[b].prev
  BY DEF Merged
<1>2. n \in DOMAIN h /\ n # a /\ n = EndOf(h, a)
  BY Places
<1>3. \A b \in DOMAIN h : b \in Nat /\ h[b].size \in Nat /\ h[b].size % Align = 0
  BY DEF Sound, Typed, BlockHeaders
<1>4. Header \in Nat \ {0} /\ Align \in Nat \ {0} /\ HeapSize \in Nat /\ Header % Align = 0
  BY HeapAssumption
<1>5. EndOf(h, n) = n + Header + h[n].size /\ EndOf(h, a) = a + Header + h[a].size
  BY DEF EndOf
<1>6. EndOf(r, a) = EndOf(h, n) /\ a < n /\ n < EndOf(h, n)
  <2>1. EndOf(r, a) = a + Header + r[a].size
    BY DEF EndOf
  <2>2. a \in Nat /\ n \in Nat /\ h[a].size \in Nat /\ h[n].size \in Nat
    BY <1>2, <1>3
  <2>3. EndOf(r, a) = a + Header + (h[a].size + Header + h[n].size)
    BY <1>1, <2>1
  <2>4. n = a + Header + h[a].size
    BY <1>2, <1>5
  <2>5. a < n
    BY <1>2, Places
  <2>6. n < EndOf(h, n)
    BY <1>2, Places
  <2>7. EndOf(r, a) = n + Header + h[n].size
    BY <1>4, <2>2, <2>3, <2>4
  <2> QED BY <1>5, <2>5, <2>6, <2>7
<1>7. \A b \in DOMAIN h \ {a, n} : EndOf(r, b) = EndOf(h, b)
  BY <1>1 DEF EndOf
<1>8. Typed(r)
  <2>1. (h[a].size + Header + h[n].size) % Align = 0
    <3>1. h[a].size + Header \in Nat /\ (h[a].size + Header) % Align = 0
      BY <1>3, <1>4, Multiples
    <3> QED BY <1>2, <1>3, <1>4, <3>1, Multiples
  <2>2. 0 \in DOMAIN h /\ n # 0
    <3>1. n # 0
      BY <1>2, <1>3, <1>6
    <3> QED BY <3>1 DEF Sound, Typed
  <2> QED BY <1>1, <1>3, <2>1, <2>2 DEF Typed
<1>9. Tiles(r)
  <2>1. /\ \A b \in DOMAIN h : EndOf(h, b) <= HeapSize /\ EndOf(h, b) \in Nat
        /\ \A b, c \in DOMAIN h : b < c => EndOf(h, b) <= c
    BY Places DEF Sound, Tiles
  <2>2. \A b \in DOMAIN r : EndOf(r, b) <= HeapSize
    BY <1>1, <1>2, <1>6, <1>7, <2>1
  <2>3. ASSUME NEW b \in DOMAIN r, NEW c \in DOMAIN r, b < c PROVE EndOf(r, b) <= c
    <3>1. CASE b = a
      <4>1. c \in DOMAIN h /\ c # n /\ c \in Nat /\ n \in Nat /\ EndOf(h, a) <= c
        BY <1>1, <1>2, <1>3, <2>1, <2>3, <3>1
      <4>2. n < c
        BY <1>2, <4>1
      <4> QED BY <1>2, <1>6, <2>1, <3>1, <4>1, <4>2
    <3>2. CASE b # a
      BY <1>1, <1>7, <2>1, <2>3, <3>2
    <3> QED BY <3>1, <3>2
  <2>4. ASSUME NEW x \in 0 .. HeapSize - 1
        PROVE  \E b \in DOMAIN r : b <= x /\ x < EndOf(r, b)
    <3>1. PICK b \in DOMAIN h : b <= x /\ x < EndOf(h, b)
      BY DEF Sound, Tiles
    <3>2. CASE b \notin {a, n}
      BY <1>1, <1>7, <3>1, <3>2
    <3>3. CASE b = n
      <4>1. a <= x /\ x < EndOf(r, a)
        BY <1>2, <1>3, <1>4, <1>6, <3>1, <3>3
      <4> QED BY <1>1, <1>2, <4>1
    <3>4. CASE b = a
      <4>1. a <= x /\ x < EndOf(r, a)
        <5>1. x \in Int /\ n \in Nat /\ EndOf(h, n) \in Nat
          BY <1>2, <1>3, <1>4, <2>1
        <5> QED BY <1>2, <1>6, <3>1, <3>4, <5>1
      <4> QED BY <1>1, <1>2, <4>1
    <3> QED BY <3>2, <3>3, <3>4
  <2> QED BY <2>2, <2>3, <2>4 DEF Tiles
<1>10. Linked(r)
  <2>1. \A b \in DOMAIN h :
          /\ h[b].next = IF EndOf(h, b) = HeapSize THEN Null ELSE EndOf(h, b)
          /\ h[b].next # Null => h[b].next \in DOMAIN h /\ h[h[b].next].prev = b
          /\ h[b].prev = Null <=> b = 0
          /\ h[b].prev # Null => h[b].prev \in DOMAIN h /\ EndOf(h, h[b].prev) = b
    BY DEF Sound, Linked
  <2>2. PICK m : m = h[n].next
    OBVIOUS
  <2>3. m # Null => m \in DOMAIN h /\ m # a /\ m # n /\ m = EndOf(h, n) /\ h[m].prev = n
    <3>1. m # Null => m \in DOMAIN h /\ m # n /\ m = EndOf(h, n) /\ h[m].prev = n
      BY <1>2, <2>1, <2>2, Places
    <3>2. EndOf(h, n) # a
      BY <1>2, <1>3, <1>6, Places
    <3> QED BY <3>1, <3>2
  <2>4. /\ r[a].next = IF EndOf(r, a) = HeapSize THEN Null ELSE EndOf(r, a)
        /\ r[a].next # Null => r[a].next \in DOMAIN r /\ r[r[a].next].prev = a
    <3>1. r[a].next = m /\ m = IF EndOf(r, a) = HeapSize THEN Null ELSE EndOf(r, a)
      BY <1>1, <1>2, <1>6, <2>1, <2>2
    <3>2. m # Null => m \in DOMAIN r /\ r[m].prev = a
      BY <1>1, <2>2, <2>3
    <3> QED BY <3>1, <3>2
  <2>5. \A b \in DOMAIN h : h[b].prev = n => b = m
    <3> SUFFICES ASSUME NEW b \in DOMAIN h, h[b].prev = n PROVE b = m
      OBVIOUS
    <3>1. EndOf(h, n) = b /\ b \in Nat
      BY <1>2, <1>3, <2>1 DEF Null
    <3>2. b < EndOf(h, b) /\ EndOf(h, b) <= HeapSize /\ EndOf(h, b) \in Nat
      BY Places
    <3>3. EndOf(h, n) # HeapSize
      BY <1>4, <3>1, <3>2
    <3> QED BY <1>2, <2>1, <2>2, <3>1, <3>3
  <2>6. \A b \in DOMAIN h : h[b].next = n => b = a
    <3>1. h[n].prev = a
      BY <1>2, <2>1
    <3> QED BY <1>2, <1>3, <2>1, <3>1 DEF Null
  <2>7. /\ r[a].prev = Null <=> a = 0
        /\ r[a].prev # Null => r[a].prev \in DOMAIN r /\ EndOf(r, r[a].prev) = a
    <3>1. h[a].prev # a
      BY <1>2, <2>1, <1>3, Places DEF Null
    <3>2. h[a].prev # n
      <4>1. a # m
        BY <2>1, <2>3, <1>3 DEF Null
      <4> QED BY <2>5, <4>1
    <3> QED BY <1>1, <1>7, <2>1, <3>1, <3>2
  <2>8. ASSUME NEW b \in DOMAIN h \ {a, n}
        PROVE  /\ r[b].next = IF EndOf(r, b) = HeapSize THEN Null ELSE EndOf(r, b)
               /\ r[b].next # Null => r[b].next \in DOMAIN r /\ r[r[b].next].prev = b
    <3>1. r[b].next = h[b].next /\ EndOf(r, b) = EndOf(h, b)
      BY <1>1, <1>7
    <3>2. ASSUME h[b].next # Null PROVE h[b].next \in DOMAIN r /\ r[h[b].next].prev = b
      <4>1. h[b].next \in DOMAIN h /\ h[b].next # n /\ h[h[b].next].prev = b
        BY <2>1, <2>6, <3>2
      <4>2. CASE h[b].next = a
        BY <1>1, <1>2, <4>1, <4>2
      <4>3. CASE h[b].next # a
        <5>1. h[b].next # m
          BY <2>3, <3>2, <4>1
        <5> QED BY <1>1, <2>2, <4>1, <4>3, <5>1
      <4> QED BY <4>2, <4>3
    <3> QED BY <2>1, <3>1, <3>2
  <2>9. ASSUME NEW b \in DOMAIN h \ {a, n}
        PROVE  /\ r[b].prev = Null <=> b = 0
               /\ r[b].prev # Null => r[b].prev \in DOMAIN r /\ EndOf(r, r[b].prev) = b
    <3>1. CASE b = m
      <4>1. m # Null
        BY <1>3, <3>1 DEF Null
      <4>2. b = EndOf(h, n) /\ r[b].prev = a /\ EndOf(r, a) = b
        BY <1>1, <1>6, <2>2, <2>3, <3>1, <4>1
      <4>3. b # 0 /\ a # Null
        BY <1>2, <1>3, <1>6, <4>2 DEF Null
      <4> QED BY <1>1, <1>2, <4>2, <4>3
    <3>2. CASE b # m
      <4>1. r[b].prev = h[b].prev /\ h[b].prev # n
        BY <1>1, <2>2, <2>5, <3>2
      <4>2. h[b].prev # a
        <5> SUFFICES ASSUME h[b].prev = a PROVE FALSE
          OBVIOUS
        <5>1. EndOf(h, a) = b
          BY <1>3, <2>1 DEF Null
        <5> QED BY <1>2, <5>1
      <4> QED BY <1>1, <1>7, <2>1, <4>1, <4>2
    <3> QED BY <3>1, <3>2
  <2> QED BY <1>1, <2>4, <2>7, <2>8, <2>9 DEF Linked
<1> QED BY <1>8, <1>9, <1>10 DEF Sound

\* Block b and the one behind it are both free.
FreePair(h, b) == h[b].free /\ h[b].next # Null /\ h[h[b].next].free

\* The used blocks of h are those of r, with the sizes they had.
SameUsed(h, r) == UsedBlocks(r) = UsedBlocks(h) /\ \A b \in UsedBlocks(h) : r[b].size = h[b].size

\* The two neighbours of a link name each other.
LEMMA Neighbours ==
    ASSUME NEW h, Sound(h), NEW b \in DOMAIN h
    PROVE  /\ h[b].next # Null => /\ h[b].next \in DOMAIN h /\ h[b].next # b
                                  /\ h[h[b].next].prev = b
           /\ h[b].prev # Null => /\ h[b].prev \in DOMAIN h /\ h[b].prev # b
                                  /\ h[h[b].prev].next = b
           /\ b # Null
<1>1. h[b].next # Null => h[b].next \in DOMAIN h /\ h[b].next # b /\ h[h[b].next].prev = b
  BY Places DEF Sound, Linked
<1>2. b \in Nat /\ b < EndOf(h, b) /\ EndOf(h, b) <= HeapSize /\ EndOf(h, b) \in Nat
  BY Places
<1>3. b # Null /\ b # HeapSize
  BY <1>2, HeapAssumption DEF Null
<1>4. ASSUME h[b].prev # Null
      PROVE  h[b].prev \in DOMAIN h /\ h[b].prev # b /\ h[h[b].prev].next = b
  <2>1. PICK p : p = h[b].prev
    OBVIOUS
  <2>2. p \in DOMAIN h /\ EndOf(h, p) = b
    BY <1>4, <2>1 DEF Sound, Linked
  <2>3. h[p].next = IF EndOf(h, p) = HeapSize THEN Null ELSE EndOf(h, p)
    BY <2>2 DEF Sound, Linked
  <2>4. p # b
    BY <1>2, <2>2
  <2> QED BY <1>3, <2>1, <2>2, <2>3, <2>4
<1> QED BY <1>1, <1>3, <1>4

LEMMA JoinKeepsUsed ==
    ASSUME NEW h, NEW a \in DOMAIN h, NEW n \in DOMAIN h, NEW r, Merged(h, a, n, r),
           h[a].free, h[n].free, a # n
    PROVE  SameUsed(h, r)
<1>1. \A b \in DOMAIN h : b \in UsedBlocks(h) => b \in DOMAIN h \ {a, n}
  BY DEF UsedBlocks
<1>2. UsedBlocks(r) = UsedBlocks(h)
  BY DEF UsedBlocks, Merged
<1>3. \A b \in DOMAIN h \ {a, n} : r[b].size = h[b].size
  BY DEF Merged
<1>4. UsedBlocks(h) \subseteq DOMAIN h
  BY DEF UsedBlocks
<1> QED BY <1>1, <1>2, <1>3, <1>4 DEF SameUsed

LEMMA MergeNextSound ==
    ASSUME NEW h, Sound(h), NEW a \in DOMAIN h, h[a].free,
           \A b \in DOMAIN h : FreePair(h, b) => b = a \/ h[b].next = a,
           NEW r, r = MergeNext(h, a)
    PROVE  /\ Sound(r) /\ a \in DOMAIN r /\ r[a].free
           /\ SameUsed(h, r)
           /\ \A b \in DOMAIN r : FreePair(r, b) => r[b].next = a
<1>1. PICK n : n = h[a].next
  OBVIOUS
<1>2. CASE n # Null /\ h[n].free
  <2>1. n \in DOMAIN h /\ n # a /\ h[n].prev = a
    BY <1>1, <1>2, Neighbours
  <2>2. r = Absorb(h, a)
    BY <1>1, <1>2 DEF MergeNext
  <2>3. /\ Merged(h, a, n, r) /\ r = [b \in DOMAIN r |-> r[b]]
        /\ \A b \in DOMAIN r : r[b] \in BlockHeaders
    BY <1>1, <1>2, <2>2, AbsorbValues
  <2>4. Sound(r)
    BY <1>1, <1>2, <2>3, JoinSound
  <2>5. a \in DOMAIN r /\ r[a].free
    BY <2>1, <2>3 DEF Merged
  <2>6. SameUsed(h, r)
    BY <1>2, <2>1, <2>3, JoinKeepsUsed
  <2>7. ASSUME NEW b \in DOMAIN r, FreePair(r, b) PROVE r[b].next = a
    <3>1. r[b].next \in DOMAIN r /\ r[b].next # n /\ b \in DOMAIN h /\ b # n
      BY <2>3, <2>4, <2>7, Neighbours DEF FreePair, Merged
    <3>2. CASE b = a
      <4>1. h[n].next # Null /\ h[n].next = r[b].next /\ h[n].next # a
        BY <2>3, <2>4, <2>7, <3>2, Neighbours DEF FreePair, Merged
      <4>2. h[h[n].next].free
        BY <2>3, <2>7, <3>1, <3>2, <4>1 DEF FreePair, Merged
      <4>3. FreePair(h, n)
        BY <1>2, <4>1, <4>2 DEF FreePair
      <4> QED BY <2>1, <4>1, <4>3
    <3>3. CASE b # a /\ r[b].next # a
      <4>1. h[b].free /\ h[b].next = r[b].next /\ h[h[b].next].free
        BY <2>3, <2>7, <3>1, <3>3 DEF FreePair, Merged
      <4>2. FreePair(h, b)
        BY <2>7, <4>1 DEF FreePair
      <4> QED BY <3>1, <3>3, <4>1, <4>2
    <3> QED BY <3>2, <3>3
  <2> QED BY <2>4, <2>5, <2>6, <2>7
<1>3. CASE ~(n # Null /\ h[n].free)
  <2>1. r = h
    BY <1>1, <1>3 DEF MergeNext
  <2>2. ~FreePair(h, a)
    BY <1>1, <1>3 DEF FreePair
  <2> QED BY <2>1, <2>2 DEF SameUsed
<1> QED BY <1>2, <1>3

LEMMA MergePrevSound ==
    ASSUME NEW h, Sound(h), NEW a \in DOMAIN h, h[a].free,
           \A b \in DOMAIN h : FreePair(h, b) => h[b].next = a,
           NEW r, r = MergePrev(h, a)
    PROVE  Sound(r) /\ NoFreePair(r) /\ SameUsed(h, r)
<1>1. PICK p : p = h[a].prev
  OBVIOUS
<1>2. CASE p # Null /\ h[p].free
  <2>1. p \in DOMAIN h /\ p # a /\ h[p].next = a /\ a # Null
    BY <1>1, <1>2, Neighbours
  <2>2. r = Absorb(h, p)
    BY <1>1, <1>2 DEF MergePrev
  <2>3. /\ Merged(h, p, a, r) /\ r = [b \in DOMAIN r |-> r[b]]
        /\ \A b \in DOMAIN r : r[b] \in BlockHeaders
    BY <2>1, <2>2, AbsorbValues
  <2>4. Sound(r)
    BY <2>1, <2>3, JoinSound
  <2>5. SameUsed(h, r)
    BY <1>2, <2>1, <2>3, JoinKeepsUsed
  <2>6. ASSUME NEW b \in DOMAIN r, FreePair(r, b) PROVE FALSE
    <3>1. r[b].next \in DOMAIN r /\ r[b].next # a /\ b \in DOMAIN h /\ b # a
      <4>1. r[b].next \in DOMAIN r
        BY <2>4, <2>6, Neighbours DEF FreePair
      <4>2. DOMAIN r = DOMAIN h \ {a}
        BY <2>3 DEF Merged
      <4> QED BY <2>6, <4>1, <4>2
    <3>2. CASE b = p
      <4>1. h[a].next # Null /\ h[a].next = r[b].next /\ h[a].next # p
        BY <2>3, <2>4, <2>6, <3>2, Neighbours DEF FreePair, Merged
      <4>2. h[h[a].next].free
        BY <2>3, <2>6, <3>1, <3>2, <4>1 DEF FreePair, Merged
      <4>3. FreePair(h, a)
        BY <4>1, <4>2 DEF FreePair
      <4> QED BY <3>1, <4>1, <4>3
    <3>3. CASE b # p
      <4>1. h[b].free /\ h[b].next = r[b].next
        BY <2>3, <2>6, <3>1, <3>3 DEF FreePair, Merged
      <4>2. h[h[b].next].free
        BY <1>2, <2>3, <2>6, <3>1, <4>1 DEF FreePair, Merged
      <4>3. FreePair(h, b)
        BY <2>6, <4>1, <4>2 DEF FreePair
      <4> QED BY <3>1, <4>1, <4>3
    <3> QED BY <3>2, <3>3
  <2>7. NoFreePair(r)
    BY <2>6 DEF NoFreePair, FreePair
  <2> QED BY <2>4, <2>5, <2>7
<1>3. CASE ~(p # Null /\ h[p].free)
  <2>1. r = h
    BY <1>1, <1>3 DEF MergePrev
  <2>2. ASSUME NEW b \in DOMAIN h, FreePair(h, b) PROVE FALSE
    <3>1. h[b].next = a /\ h[b].next # Null /\ h[b].free
      BY <2>2 DEF FreePair
    <3>2. h[a].prev = b /\ b # Null
      BY <3>1, Neighbours
    <3> QED BY <1>1, <1>3, <3>1, <3>2
  <2>3. NoFreePair(h)
    BY <2>2 DEF NoFreePair, FreePair
  <2> QED BY <2>1, <2>3 DEF SameUsed
<1> QED BY <1>2, <1>3

\* kfree: block a is gone, nothing else has moved, and no free pair is left.
LEMMA FreeSound ==
    ASSUME NEW h, Sound(h), NoFreePair(h), NEW a \in UsedBlocks(h), NEW r, r = kfree(h, a + Header)
    PROVE  /\ Sound(r) /\ NoFreePair(r)
           /\ UsedBlocks(r) = UsedBlocks(h) \ {a}
           /\ \A b \in UsedBlocks(h) \ {a} : r[b].size = h[b].size
<1>1. a \in DOMAIN h /\ a \in Nat
  BY Places DEF UsedBlocks
<1>2. (a + Header) - Header = a
  BY <1>1, HeapAssumption
<1>3. PICK f : f = [h EXCEPT ![a].free = TRUE]
  OBVIOUS
<1>4. r = MergePrev(MergeNext(f, a), a)
  BY <1>2, <1>3 DEF kfree, coalesce
<1>5. Sound(f) /\ Flagged(h, a, TRUE, f)
  BY <1>1, <1>3, FlagSound
<1>6. UsedBlocks(f) = UsedBlocks(h) \ {a}
  BY <1>1, <1>5 DEF Flagged, UsedBlocks
<1>7. \A b \in UsedBlocks(h) \ {a} : f[b].size = h[b].size
  BY <1>5 DEF Flagged, UsedBlocks
<1>8. a \in DOMAIN f /\ f[a].free
  BY <1>1, <1>5 DEF Flagged
<1>9. ASSUME NEW b \in DOMAIN f, FreePair(f, b) PROVE b = a \/ f[b].next = a
  <2> SUFFICES ASSUME b # a, f[b].next # a PROVE FALSE
    OBVIOUS
  <2>1. b \in DOMAIN h /\ h[b].next = f[b].next /\ h[b].free
    BY <1>5, <1>9 DEF FreePair, Flagged
  <2>2. h[b].next # Null /\ h[b].next \in DOMAIN h
    BY <1>9, <2>1, Neighbours DEF FreePair
  <2>3. h[h[b].next].free
    BY <1>5, <1>9, <2>1, <2>2 DEF FreePair, Flagged
  <2> QED BY <2>1, <2>2, <2>3 DEF NoFreePair
<1>10. PICK g : g = MergeNext(f, a)
  OBVIOUS
<1>11. /\ Sound(g) /\ a \in DOMAIN g /\ g[a].free
       /\ SameUsed(f, g)
       /\ \A b \in DOMAIN g : FreePair(g, b) => g[b].next = a
  BY <1>5, <1>8, <1>9, <1>10, MergeNextSound
<1>12. Sound(r) /\ NoFreePair(r) /\ SameUsed(g, r)
  BY <1>4, <1>10, <1>11, MergePrevSound
<1> QED BY <1>6, <1>7, <1>11, <1>12 DEF SameUsed

-----------------------------------------------------------------------------
(* The calls *)

\* The least element of a set of natural numbers.
LEMMA LeastOf ==
    ASSUME NEW S \in SUBSET Nat, S # {}
    PROVE  Min(S) \in S
<1> DEFINE R == {ss \in Nat \X Nat : ss[1] < ss[2]}
<1>1. IsWellFoundedOn(R, Nat)
  BY NatLessThanWellFounded DEF OpToRel
<1>2. PICK x \in S : \A y \in S : ~(<<y, x>> \in R)
  <2> HIDE DEF R
  <2> QED BY <1>1, WFMin
<1>3. ASSUME NEW y \in S PROVE x <= y
  <2>1. x \in Nat /\ y \in Nat
    OBVIOUS
  <2>2. ~(y < x)
    BY <1>2, <2>1
  <2> QED BY <2>1, <2>2
<1> QED BY <1>3 DEF Min

\* The list before the first call, or a sound and coalesced one.
Good(h) == (h = NoBlocks \/ Sound(h)) /\ NoFreePair(h)

LEMMA BlocksGood == Good(NoBlocks) /\ UsedBlocks(NoBlocks) = {}
BY DEF Good, NoFreePair, UsedBlocks, NoBlocks

\* What kmalloc does: it refuses and at most sets the heap up, or it takes a block.
Refuses(h, n, r) ==
    /\ r.ptr = Null
    /\ r.heap = h \/ r.heap = heap_init(h)
    /\ n = 0 \/ Fits(heap_init(h), align8(n)) = {}

Takes(h, n, r, a) ==
    /\ n # 0
    /\ a \in Fits(heap_init(h), align8(n))
    /\ r.ptr = a + Header /\ r.ptr # Null
    /\ r.heap = Take(heap_init(h), a, align8(n))

LEMMA MallocCases ==
    ASSUME NEW h, Good(h), NEW n \in 0 .. Modulus - 1, NEW r, r = kmalloc(h, n)
    PROVE  Refuses(h, n, r) \/ \E a : Takes(h, n, r, a)
<1>1. PICK i : i = heap_init(h)
  OBVIOUS
<1>2. Sound(i)
  BY <1>1, InitSound DEF Good
<1>3. PICK F : F = Fits(i, align8(n))
  OBVIOUS
<1>4. F \in SUBSET Nat
  BY <1>2, <1>3 DEF Fits, Sound, Typed
<1>5. CASE n = 0
  BY <1>5 DEF kmalloc, Refuses
<1>6. CASE n # 0 /\ F = {}
  BY <1>1, <1>3, <1>6 DEF kmalloc, Refuses
<1>7. CASE n # 0 /\ F # {}
  <2>1. Min(F) \in F
    BY <1>4, <1>7, LeastOf
  <2>2. r.heap = Take(i, Min(F), align8(n)) /\ r.ptr = Min(F) + Header
    BY <1>1, <1>3, <1>7 DEF kmalloc
  <2>3. Min(F) \in Nat /\ Header \in Nat
    BY <1>4, <2>1, HeapAssumption
  <2>4. r.ptr # Null
    BY <2>2, <2>3 DEF Null
  <2>5. Takes(h, n, r, Min(F))
    BY <1>1, <1>3, <1>7, <2>1, <2>2, <2>4 DEF Takes
  <2> QED BY <2>5
<1> QED BY <1>5, <1>6, <1>7

\* Before and after the first call: the same blocks in use, in the same places.
LEMMA RefusedGood ==
    ASSUME NEW h, Good(h), NEW n, NEW r, Refuses(h, n, r)
    PROVE  /\ Good(r.heap)
           /\ UsedBlocks(r.heap) = UsedBlocks(h)
           /\ \A a \in UsedBlocks(h) : r.heap[a].size = h[a].size
<1>1. CASE r.heap = h
  BY <1>1
<1>2. CASE r.heap = heap_init(h)
  <2>1. CASE h = NoBlocks
    BY <1>2, <2>1, InitSound, BlocksGood DEF Good
  <2>2. CASE Sound(h)
    BY <1>2, <2>2 DEF Good, Sound, Typed, heap_init
  <2> QED BY <2>1, <2>2 DEF Good
<1> QED BY <1>1, <1>2 DEF Refuses

LEMMA TakenGood ==
    ASSUME NEW h, Good(h), NEW n \in 0 .. Modulus - 1, NEW r, NEW a, Takes(h, n, r, a)
    PROVE  /\ Good(r.heap) /\ Sound(r.heap)
           /\ a \notin UsedBlocks(h)
           /\ UsedBlocks(r.heap) = UsedBlocks(h) \union {a}
           /\ r.heap[a].size >= n \/ n > Modulus - Align
           /\ \A b \in UsedBlocks(h) : r.heap[b].size = h[b].size
<1>1. PICK i : i = heap_init(h)
  OBVIOUS
<1>2. PICK size : size = align8(n)
  OBVIOUS
<1>3. Sound(i) /\ NoFreePair(i) /\ UsedBlocks(i) = UsedBlocks(h)
  BY <1>1, InitSound DEF Good
<1>4. \A b \in UsedBlocks(h) : i[b].size = h[b].size
  <2>1. CASE h = NoBlocks
    BY <2>1, BlocksGood
  <2>2. CASE Sound(h)
    BY <1>1, <2>2 DEF Sound, Typed, heap_init
  <2> QED BY <2>1, <2>2 DEF Good
<1>5. size \in Nat /\ size % Align = 0 /\ (n <= Modulus - Align => size >= n)
  BY <1>2, Aligns
<1>6. a \in Fits(i, size) /\ r.heap = Take(i, a, size)
  BY <1>1, <1>2 DEF Takes
<1>7. PICK k : k = r.heap
  OBVIOUS
<1>8. /\ Sound(k) /\ NoFreePair(k)
      /\ UsedBlocks(k) = UsedBlocks(i) \union {a}
      /\ k[a].size >= size
      /\ \A b \in UsedBlocks(i) : b # a /\ k[b].size = i[b].size
  BY <1>3, <1>5, <1>6, <1>7, TakeSound
<1>9. k[a].size >= n \/ n > Modulus - Align
  <2>1. a \in DOMAIN k
    BY <1>8 DEF UsedBlocks
  <2>2. k[a].size \in Nat
    BY <1>8, <2>1, Places
  <2> QED BY <1>5, <1>8, <2>2, HeapAssumption
<1> QED BY <1>3, <1>4, <1>7, <1>8, <1>9 DEF Good

-----------------------------------------------------------------------------
(* KHeap *)

\* The callers' pointers are the blocks in use, one each, as large as asked.
Held(h, G) ==
    /\ \A g \in G : g.ptr \in Int /\ g.asked \in 0 .. Modulus - 1
    /\ UsedBlocks(h) = {g.ptr - Header : g \in G}
    /\ \A g \in G :
        /\ \A g2 \in G : g2.ptr = g.ptr => g2 = g
        /\ h[g.ptr - Header].size >= g.asked \/ g.asked > Modulus - Align

HeapInv == Good(blocks) /\ Held(blocks, given)

LEMMA HeapInvStep == HeapInv /\ [Next]_vars => HeapInv'
<1> SUFFICES ASSUME HeapInv, [Next]_vars PROVE HeapInv'
  OBVIOUS
<1>1. Good(blocks) /\ Held(blocks, given)
  BY DEF HeapInv
<1>2. Header \in Nat \ {0} /\ Modulus \in Nat /\ Align \in Nat
  BY HeapAssumption
<1>3. ASSUME NEW n \in Requests, Malloc(n) PROVE HeapInv'
  <2>1. PICK r : r = kmalloc(blocks, n)
    OBVIOUS
  <2>2. /\ blocks' = r.heap
        /\ given' = IF r.ptr = Null THEN given ELSE given \union {[ptr |-> r.ptr, asked |-> n]}
    BY <1>3, <2>1 DEF Malloc
  <2>3. n \in 0 .. Modulus - 1
    BY RequestsAssumption
  <2>4. CASE Refuses(blocks, n, r)
    <3>1. Good(blocks') /\ UsedBlocks(blocks') = UsedBlocks(blocks)
          /\ \A a \in UsedBlocks(blocks) : blocks'[a].size = blocks[a].size
      BY <1>1, <2>2, <2>4, RefusedGood
    <3>2. given' = given
      BY <2>2, <2>4 DEF Refuses
    <3>3. \A g \in given : g.ptr - Header \in UsedBlocks(blocks)
      BY <1>1 DEF Held
    <3>4. Held(blocks', given')
      BY <1>1, <3>1, <3>2, <3>3 DEF Held
    <3> QED BY <3>1, <3>4 DEF HeapInv
  <2>5. ASSUME NEW a, Takes(blocks, n, r, a) PROVE HeapInv'
    <3>1. /\ Good(blocks') /\ Sound(blocks')
          /\ a \notin UsedBlocks(blocks)
          /\ UsedBlocks(blocks') = UsedBlocks(blocks) \union {a}
          /\ blocks'[a].size >= n \/ n > Modulus - Align
          /\ \A b \in UsedBlocks(blocks) : blocks'[b].size = blocks[b].size
      BY <1>1, <2>2, <2>3, <2>5, TakenGood
    <3>2. PICK new : new = [ptr |-> r.ptr, asked |-> n]
      OBVIOUS
    <3>3. given' = given \union {new} /\ new.ptr = a + Header /\ new.asked = n
      BY <2>2, <2>5, <3>2 DEF Takes
    <3>4. a \in Nat
      BY <3>1, Places DEF UsedBlocks
    <3>5. new.ptr \in Int /\ new.ptr - Header = a
      BY <1>2, <3>3, <3>4
    <3>6. \A g \in given : g.ptr \in Int /\ g.asked \in 0 .. Modulus - 1
                           /\ g.ptr - Header \in UsedBlocks(blocks)
      BY <1>1 DEF Held
    <3>7. \A g \in given : g.ptr # new.ptr
      BY <3>1, <3>5, <3>6
    <3>8. UsedBlocks(blocks') = {g.ptr - Header : g \in given'}
      <4>1. UsedBlocks(blocks) = {g.ptr - Header : g \in given}
        BY <1>1 DEF Held
      <4> QED BY <3>1, <3>3, <3>5, <4>1
    <3>9. \A g \in given' : g.ptr \in Int /\ g.asked \in 0 .. Modulus - 1
      BY <2>3, <3>3, <3>5, <3>6
    <3>10. \A g \in given' : \A g2 \in given' : g2.ptr = g.ptr => g2 = g
      BY <1>1, <3>3, <3>7 DEF Held
    <3>11. \A g \in given' :
             blocks'[g.ptr - Header].size >= g.asked \/ g.asked > Modulus - Align
      <4>1. \A g \in given :
              blocks[g.ptr - Header].size >= g.asked \/ g.asked > Modulus - Align
        BY <1>1 DEF Held
      <4> QED BY <3>1, <3>3, <3>5, <3>6, <4>1
    <3> QED BY <3>1, <3>8, <3>9, <3>10, <3>11 DEF HeapInv, Held
  <2> QED BY <1>1, <2>1, <2>3, <2>4, <2>5, MallocCases
<1>4. ASSUME NEW g \in given, Free(g) PROVE HeapInv'
  <2>1. PICK a : a = g.ptr - Header
    OBVIOUS
  <2>2. a \in UsedBlocks(blocks) /\ g.ptr = a + Header /\ a \in Int
    BY <1>1, <1>2, <2>1 DEF Held
  <2>3. Sound(blocks) /\ NoFreePair(blocks)
    BY <1>1, <2>2, BlocksGood DEF Good
  <2>4. blocks' = kfree(blocks, a + Header) /\ given' = given \ {g}
    BY <1>4, <2>2 DEF Free
  <2>5. /\ Sound(blocks') /\ NoFreePair(blocks')
        /\ UsedBlocks(blocks') = UsedBlocks(blocks) \ {a}
        /\ \A b \in UsedBlocks(blocks) \ {a} : blocks'[b].size = blocks[b].size
    BY <2>2, <2>3, <2>4, FreeSound
  <2>6. \A x \in given : x.ptr \in Int /\ x.ptr - Header \in UsedBlocks(blocks)
                         /\ (x # g => x.ptr - Header # a)
    <3>1. ASSUME NEW x \in given PROVE x.ptr \in Int /\ x.ptr - Header \in UsedBlocks(blocks)
      BY <1>1 DEF Held
    <3>2. ASSUME NEW x \in given, x # g PROVE x.ptr # g.ptr
      BY <1>1, <3>2 DEF Held
    <3>3. ASSUME NEW x \in given, x # g PROVE x.ptr - Header # a
      BY <1>2, <2>1, <3>1, <3>2, <3>3
    <3> QED BY <3>1, <3>3
  <2>7. UsedBlocks(blocks') = {x.ptr - Header : x \in given'}
    <3>1. UsedBlocks(blocks) = {x.ptr - Header : x \in given}
      BY <1>1 DEF Held
    <3>2. \A b \in UsedBlocks(blocks) \ {a} : \E x \in given' : b = x.ptr - Header
      BY <2>1, <2>4, <3>1
    <3>3. \A x \in given' : x.ptr - Header \in UsedBlocks(blocks) \ {a}
      BY <2>4, <2>6
    <3> QED BY <2>5, <3>2, <3>3
  <2>8. \A x \in given' :
          blocks'[x.ptr - Header].size >= x.asked \/ x.asked > Modulus - Align
    <3>1. \A x \in given :
            blocks[x.ptr - Header].size >= x.asked \/ x.asked > Modulus - Align
      BY <1>1 DEF Held
    <3> QED BY <2>4, <2>5, <2>6, <3>1
  <2>9. \A x \in given' : /\ x.ptr \in Int /\ x.asked \in 0 .. Modulus - 1
                          /\ \A y \in given' : y.ptr = x.ptr => y = x
    BY <1>1, <2>4 DEF Held
  <2> QED BY <2>5, <2>7, <2>8, <2>9 DEF HeapInv, Good, Held
<1>5. CASE UNCHANGED vars
  BY <1>1, <1>5 DEF vars, HeapInv
<1> QED BY <1>3, <1>4, <1>5 DEF Next

\* The inductive invariant holds in every reachable state.
THEOREM HeapInvariant == Spec => []HeapInv
<1>1. Init => HeapInv
  BY BlocksGood DEF Init, HeapInv, Held
<1> QED BY <1>1, HeapInvStep, PTL DEF Spec

\* The block list is exact (kmalloc's split, kfree's two merges).
THEOREM ListIsExact == Spec => []HeapExact
<1>1. HeapInv => HeapExact
  <2> SUFFICES ASSUME HeapInv PROVE HeapExact
    OBVIOUS
  <2>1. CASE blocks = NoBlocks
    BY <2>1 DEF HeapExact, Blocks, NoBlocks
  <2>2. CASE Sound(blocks)
    <3>1. 0 \in Blocks
      BY <2>2 DEF Sound, Typed, Blocks
    <3>2. ASSUME NEW a \in Blocks
          PROVE  /\ blocks[a].size >= 0
                 /\ EndOf(blocks, a) <= HeapSize
      BY <2>2, Places DEF Blocks
    <3>3. ASSUME NEW a \in Blocks
          PROVE  /\ blocks[a].next = IF EndOf(blocks, a) = HeapSize THEN Null ELSE EndOf(blocks, a)
                 /\ blocks[a].next # Null => blocks[a].next \in Blocks /\ blocks[blocks[a].next].prev = a
                 /\ blocks[a].prev = Null <=> a = 0
      BY <2>2 DEF Sound, Linked, Blocks
    <3>4. ASSUME NEW a \in Blocks, NEW b \in Blocks PROVE a < b => EndOf(blocks, a) <= b
      BY <2>2 DEF Sound, Tiles, Blocks
    <3> QED BY <3>1, <3>2, <3>3, <3>4 DEF HeapExact
  <2> QED BY <2>1, <2>2 DEF HeapInv, Good
<1> QED BY <1>1, HeapInvariant, PTL

\* Free blocks never lie side by side (coalesce).
THEOREM AlwaysCoalesced == Spec => []Coalesced
<1>1. HeapInv => Coalesced
  BY DEF HeapInv, Good, NoFreePair, Coalesced, Blocks
<1> QED BY <1>1, HeapInvariant, PTL

\* Callers own the blocks in use, one each, as large as they asked for.
THEOREM CallersOwnTheirBlocks == Spec => []GivenExact
<1>1. HeapInv => GivenExact
  BY DEF HeapInv, Held, GivenExact
<1> QED BY <1>1, HeapInvariant, PTL

\* Whatever was allocated and freed in whatever order, the heap is whole again.
THEOREM NothingIsLost == Spec => []FreedIsWhole
<1>1. HeapInv => FreedIsWhole
  <2> SUFFICES ASSUME HeapInv, given = {}, Blocks # {} PROVE blocks = heap_init(NoBlocks)
    BY DEF FreedIsWhole
  <2>1. Sound(blocks) /\ NoFreePair(blocks) /\ UsedBlocks(blocks) = {}
    BY DEF HeapInv, Good, Held, Blocks, NoBlocks
  <2>2. \A a \in DOMAIN blocks : blocks[a].free
    BY <2>1 DEF UsedBlocks
  <2>3. 0 \in DOMAIN blocks
    BY <2>1 DEF Sound, Typed
  <2>4. blocks[0].next = Null
    BY <2>1, <2>2, <2>3, Neighbours DEF NoFreePair
  <2>5. EndOf(blocks, 0) = HeapSize /\ EndOf(blocks, 0) = 0 + Header + blocks[0].size
        /\ blocks[0].size \in Nat
    BY <2>1, <2>3, <2>4, Places
  <2>6. DOMAIN blocks = {0}
    <3> SUFFICES ASSUME NEW b \in DOMAIN blocks, b # 0 PROVE FALSE
      BY <2>3
    <3>1. b \in Nat /\ b < EndOf(blocks, b) /\ EndOf(blocks, b) <= HeapSize /\ EndOf(blocks, b) \in Nat
      BY <2>1, Places
    <3>2. EndOf(blocks, 0) <= b
      BY <2>1, <2>3, <3>1, NoneInside
    <3> QED BY <2>5, <3>1, <3>2, HeapAssumption
  <2>7. blocks[0].size = HeapSize - Header
    <3>1. Header \in Nat /\ HeapSize \in Nat
      BY HeapAssumption
    <3> QED BY <2>5, <3>1
  <2>8. blocks[0].prev = Null /\ blocks[0].free = TRUE
    <3>1. blocks[0].prev = Null
      BY <2>1, <2>3 DEF Sound, Linked
    <3>2. blocks[0].free \in BOOLEAN
      BY <2>1, <2>3, Places
    <3> QED BY <2>2, <2>3, <3>1, <3>2
  <2>9. blocks[0] = [size |-> HeapSize - Header, free |-> TRUE, next |-> Null, prev |-> Null]
    <3>1. blocks[0] \in BlockHeaders
      BY <2>1, <2>3 DEF Sound, Typed
    <3> QED BY <2>4, <2>7, <2>8, <3>1, HeaderFields
  <2>10. blocks = [a \in DOMAIN blocks |-> blocks[a]]
    BY <2>1 DEF Sound, Typed
  <2>11. heap_init(NoBlocks) = [a \in {0} |->
             [size |-> HeapSize - Header, free |-> TRUE, next |-> Null, prev |-> Null]]
    BY DEF heap_init, NoBlocks
  <2> QED BY <2>6, <2>9, <2>10, <2>11
<1> QED BY <1>1, HeapInvariant, PTL

-----------------------------------------------------------------------------
(* The heap implements the allocator *)

PieceOf(h, a) == [from |-> a, to |-> EndOf(h, a)]
Pieces(h) == {PieceOf(h, a) : a \in UsedBlocks(h)}

LEMMA SamePieces ==
    ASSUME NEW h, NEW k, UsedBlocks(k) = UsedBlocks(h),
           \A a \in UsedBlocks(h) : k[a].size = h[a].size
    PROVE  Pieces(k) = Pieces(h)
BY DEF Pieces, PieceOf, EndOf

\* When no block fits, there is no room for the request anywhere.
LEMMA NoRoom ==
    ASSUME NEW h, Sound(h), NoFreePair(h), NEW n \in 0 .. Modulus - 1, n # 0,
           Fits(h, align8(n)) = {},
           NEW from \in 0 .. HeapSize - (Header + n),
           \A x \in Pieces(h) : x.to <= from \/ from + (Header + n) <= x.from
    PROVE  FALSE
<1>1. Header \in Nat \ {0} /\ HeapSize \in Nat /\ n \in Nat /\ from \in Nat
  BY HeapAssumption
<1>2. from \in 0 .. HeapSize - 1 /\ from + Header + n <= HeapSize
  BY <1>1
<1>3. PICK a \in DOMAIN h : a <= from /\ from < EndOf(h, a)
  BY <1>2 DEF Sound, Tiles
<1>4. a \in Nat /\ h[a].size \in Nat /\ EndOf(h, a) \in Nat /\ EndOf(h, a) = a + Header + h[a].size
  BY Places
<1>5. ASSUME NEW b \in UsedBlocks(h) PROVE EndOf(h, b) <= from \/ from + (Header + n) <= b
  <2>1. PieceOf(h, b) \in Pieces(h)
    BY DEF Pieces
  <2>2. PieceOf(h, b).from = b /\ PieceOf(h, b).to = EndOf(h, b)
    BY DEF PieceOf
  <2> QED BY <2>1, <2>2
<1>6. h[a].free
  <2> SUFFICES ASSUME ~h[a].free PROVE FALSE
    OBVIOUS
  <2>1. EndOf(h, a) <= from \/ from + (Header + n) <= a
    BY <1>5 DEF UsedBlocks
  <2>2. ~(EndOf(h, a) <= from)
    BY <1>1, <1>3, <1>4
  <2>3. ~(from + (Header + n) <= a)
    BY <1>1, <1>3, <1>4
  <2> QED BY <2>1, <2>2, <2>3
<1>7. from + Header + n <= EndOf(h, a)
  <2> SUFFICES ASSUME ~(from + Header + n <= EndOf(h, a)) PROVE FALSE
    OBVIOUS
  <2>1. EndOf(h, a) # HeapSize
    BY <1>1, <1>2, <1>4
  <2>2. h[a].next # Null
    BY <2>1, Places
  <2>3. PICK c : c = h[a].next
    OBVIOUS
  <2>4. c \in DOMAIN h /\ c = EndOf(h, a) /\ ~h[c].free
    BY <1>6, <2>2, <2>3, Places DEF NoFreePair
  <2>5. EndOf(h, c) <= from \/ from + (Header + n) <= c
    BY <1>5, <2>4 DEF UsedBlocks
  <2>6. c < EndOf(h, c) /\ EndOf(h, c) \in Nat
    BY <2>4, Places
  <2> QED BY <1>1, <1>3, <1>4, <2>4, <2>5, <2>6
<1>8. h[a].size >= n
  BY <1>1, <1>3, <1>4, <1>7
<1>9. h[a].size % Align = 0
  BY DEF Sound, Typed
<1>10. h[a].size >= align8(n)
  BY <1>4, <1>8, <1>9, Aligns
<1> QED BY <1>6, <1>10 DEF Fits

\* kmalloc and kfree are an allocator: pieces never overlap, and a request is
\* refused only when no room is left for it anywhere.
THEOREM HeapIsAnAllocator == Spec => ImplementsAllocator
<1> USE DEF Abstract!Answer, Abstract!Piece
<1>1. Init => Abstract!Init
  BY BlocksGood DEF Init, Abstract!Init, NoCall, Null
<1>2. HeapInv /\ [Next]_vars => [Abstract!Next]_(Abstract!vars)
  <2> SUFFICES ASSUME HeapInv, [Next]_vars PROVE Abstract!Next \/ UNCHANGED Abstract!vars
    OBVIOUS
  <2>1. Good(blocks) /\ Held(blocks, given)
    BY DEF HeapInv
  <2>2. Header \in Nat \ {0} /\ Modulus \in Nat /\ Align \in Nat /\ HeapSize \in Nat
    BY HeapAssumption
  <2>3. ASSUME NEW n \in Requests, Malloc(n) PROVE Abstract!Next
    <3>1. PICK r : r = kmalloc(blocks, n)
      OBVIOUS
    <3>2. blocks' = r.heap /\ answer' = [asked |-> n, got |-> r.ptr]
      BY <2>3, <3>1 DEF Malloc
    <3>3. n \in 0 .. Modulus - 1
      BY RequestsAssumption
    <3>4. CASE Refuses(blocks, n, r)
      <4>1. Pieces(blocks') = Pieces(blocks)
        BY <2>1, <3>2, <3>4, RefusedGood, SamePieces
      <4>2. answer' = [asked |-> n, got |-> -1]
        BY <3>2, <3>4 DEF Refuses, Null
      <4>3. ASSUME n # 0, NEW from \in 0 .. HeapSize - (Header + n),
                   \A x \in Pieces(blocks) : x.to <= from \/ from + (Header + n) <= x.from
            PROVE  FALSE
        <5>1. PICK i : i = heap_init(blocks)
          OBVIOUS
        <5>2. Sound(i) /\ NoFreePair(i)
          BY <2>1, <5>1, InitSound DEF Good
        <5>3. Pieces(i) = Pieces(blocks)
          <6>1. UsedBlocks(i) = UsedBlocks(blocks)
            BY <2>1, <5>1, InitSound DEF Good
          <6>2. \A a \in UsedBlocks(blocks) : EndOf(i, a) = EndOf(blocks, a)
            BY <2>1, <5>1, InitSound DEF Good
          <6> QED BY <6>1, <6>2 DEF Pieces, PieceOf
        <5>4. Fits(i, align8(n)) = {}
          BY <3>4, <4>3, <5>1 DEF Refuses
        <5> QED BY <3>3, <4>3, <5>2, <5>3, <5>4, NoRoom
      <4>4. Abstract!Deny(n)
        BY <4>1, <4>2, <4>3 DEF Abstract!Deny, Abstract!Vacant, Abstract!Apart, Pieces, PieceOf
      <4> QED BY <4>4 DEF Abstract!Next
    <3>5. ASSUME NEW a, Takes(blocks, n, r, a) PROVE Abstract!Next
      <4>1. /\ Sound(blocks')
            /\ a \notin UsedBlocks(blocks)
            /\ UsedBlocks(blocks') = UsedBlocks(blocks) \union {a}
            /\ blocks'[a].size >= n \/ n > Modulus - Align
            /\ \A b \in UsedBlocks(blocks) : blocks'[b].size = blocks[b].size
        BY <2>1, <3>2, <3>3, <3>5, TakenGood
      <4>2. PICK to : to = EndOf(blocks', a)
        OBVIOUS
      <4>3. a \in DOMAIN blocks'
        BY <4>1 DEF UsedBlocks
      <4>4. a \in Nat /\ to \in Nat /\ to = a + Header + blocks'[a].size /\ a < to /\ to <= HeapSize
            /\ blocks'[a].size \in Nat
        BY <4>1, <4>2, <4>3, Places
      <4>5. a \in 0 .. HeapSize /\ to \in a .. HeapSize
        BY <2>2, <4>4
      <4>6. answer' = [asked |-> n, got |-> a + Header]
        BY <3>2, <3>5 DEF Takes
      <4>7. \A b \in UsedBlocks(blocks) : EndOf(blocks', b) = EndOf(blocks, b)
        BY <4>1 DEF EndOf
      <4>8. Pieces(blocks') = Pieces(blocks) \union {[from |-> a, to |-> to]}
        <5>1. \A b \in UsedBlocks(blocks) : PieceOf(blocks', b) = PieceOf(blocks, b)
          BY <4>7 DEF PieceOf
        <5>2. PieceOf(blocks', a) = [from |-> a, to |-> to]
          BY <4>2 DEF PieceOf
        <5> QED BY <4>1, <5>1, <5>2 DEF Pieces
      <4>9. n > 0
        BY <3>3, <3>5 DEF Takes
      <4>10. n > Modulus - Align \/ to - a >= Header + n
        BY <2>2, <3>3, <4>1, <4>4
      <4>11. \A b \in UsedBlocks(blocks) : EndOf(blocks, b) <= a \/ to <= b
        <5> SUFFICES ASSUME NEW b \in UsedBlocks(blocks) PROVE EndOf(blocks', b) <= a \/ to <= b
          BY <4>7
        <5>1. b \in DOMAIN blocks' /\ b # a
          BY <4>1 DEF UsedBlocks
        <5>2. b \in Nat
          BY <4>1, <5>1, Places
        <5>3. CASE b < a
          BY <4>1, <4>3, <5>1, <5>3 DEF Sound, Tiles
        <5>4. CASE a < b
          BY <4>1, <4>2, <4>3, <5>1, <5>4 DEF Sound, Tiles
        <5> QED BY <4>4, <5>1, <5>2, <5>3, <5>4
      <4>12. \A x \in Pieces(blocks) : x.to <= a \/ to <= x.from
        BY <4>11 DEF Pieces, PieceOf
      <4>13. Abstract!Grant(n)
        BY <4>5, <4>6, <4>8, <4>9, <4>10, <4>12
           DEF Abstract!Grant, Abstract!Vacant, Abstract!Apart, TooLarge, Pieces, PieceOf
      <4> QED BY <4>13 DEF Abstract!Next
    <3> QED BY <2>1, <3>1, <3>3, <3>4, <3>5, MallocCases
  <2>4. ASSUME NEW g \in given, Free(g) PROVE Abstract!Next
    <3>1. PICK a : a = g.ptr - Header
      OBVIOUS
    <3>2. a \in UsedBlocks(blocks) /\ g.ptr = a + Header
      BY <2>1, <2>2, <3>1 DEF Held
    <3>3. Sound(blocks) /\ NoFreePair(blocks)
      BY <2>1, <3>2, BlocksGood DEF Good
    <3>4. blocks' = kfree(blocks, a + Header) /\ answer' = [asked |-> 0, got |-> -1]
      BY <2>4, <3>2 DEF Free, NoCall, Null
    <3>5. /\ UsedBlocks(blocks') = UsedBlocks(blocks) \ {a}
          /\ \A b \in UsedBlocks(blocks) \ {a} : blocks'[b].size = blocks[b].size
      BY <3>2, <3>3, <3>4, FreeSound
    <3>6. \A b \in UsedBlocks(blocks) \ {a} : PieceOf(blocks', b) = PieceOf(blocks, b)
      BY <3>5 DEF PieceOf, EndOf
    <3>7. \A b \in UsedBlocks(blocks) \ {a} : PieceOf(blocks, b) # PieceOf(blocks, a)
      BY DEF PieceOf
    <3>8. Pieces(blocks') = Pieces(blocks) \ {PieceOf(blocks, a)} /\ PieceOf(blocks, a) \in Pieces(blocks)
      BY <3>2, <3>5, <3>6, <3>7 DEF Pieces
    <3>9. Abstract!Release
      BY <3>4, <3>8 DEF Abstract!Release, Pieces, PieceOf
    <3> QED BY <3>9 DEF Abstract!Next
  <2>5. CASE UNCHANGED vars
    BY <2>5 DEF vars, Abstract!vars
  <2> QED BY <2>3, <2>4, <2>5 DEF Next
<1> QED BY <1>1, <1>2, HeapInvariant, PTL DEF Spec, ImplementsAllocator, Abstract!Spec

-----------------------------------------------------------------------------
(* What a call does to a heap *)

\* From heap h to heap k.
Swaps(h, k, out, in) ==
    /\ Good(k)
    /\ UsedBlocks(k) = (UsedBlocks(h) \ out) \union in
    /\ in \intersect (UsedBlocks(h) \ out) = {}
    /\ \A b \in UsedBlocks(h) \ out : k[b].size = h[b].size

-----------------------------------------------------------------------------
(* kmalloc and kfree *)

LEMMA Allocated ==
    ASSUME NEW h, Good(h), NEW n \in 1 .. Modulus - Align, NEW r, r = kmalloc(h, n)
    PROVE  /\ r.ptr = Null => Swaps(h, r.heap, {}, {})
           /\ r.ptr # Null => /\ r.ptr \in Int
                              /\ Swaps(h, r.heap, {}, {r.ptr - Header})
                              /\ r.heap[r.ptr - Header].size >= n
<1>1. n \in 0 .. Modulus - 1 /\ ~(n > Modulus - Align) /\ Header \in Nat
  BY HeapAssumption
<1>2. CASE Refuses(h, n, r)
  <2>1. /\ Good(r.heap) /\ UsedBlocks(r.heap) = UsedBlocks(h)
        /\ \A a \in UsedBlocks(h) : r.heap[a].size = h[a].size
    BY <1>2, RefusedGood
  <2> QED BY <1>2, <2>1 DEF Refuses, Swaps
<1>3. ASSUME NEW a, Takes(h, n, r, a)
      PROVE  /\ r.ptr # Null /\ r.ptr \in Int
             /\ Swaps(h, r.heap, {}, {r.ptr - Header})
             /\ r.heap[r.ptr - Header].size >= n
  <2>1. /\ Good(r.heap) /\ Sound(r.heap)
        /\ a \notin UsedBlocks(h)
        /\ UsedBlocks(r.heap) = UsedBlocks(h) \union {a}
        /\ r.heap[a].size >= n \/ n > Modulus - Align
        /\ \A b \in UsedBlocks(h) : r.heap[b].size = h[b].size
    BY <1>1, <1>3, TakenGood
  <2>2. r.ptr = a + Header /\ r.ptr # Null
    BY <1>3 DEF Takes
  <2>3. a \in Nat
    BY <2>1 DEF Sound, Typed, UsedBlocks
  <2>4. r.ptr - Header = a /\ r.ptr \in Int
    BY <1>1, <2>2, <2>3
  <2> QED BY <1>1, <2>1, <2>2, <2>4 DEF Swaps
<1> QED BY <1>1, <1>2, <1>3, MallocCases

\* A heap with a block in use is set up.
LEMMA InUseSound ==
    ASSUME NEW h, Good(h), NEW a \in UsedBlocks(h)
    PROVE  /\ Sound(h) /\ NoFreePair(h) /\ a \in Nat
           /\ h[a].size \in Nat /\ h[a].size <= HeapSize
<1>1. Sound(h) /\ NoFreePair(h)
  BY BlocksGood DEF Good
<1>2. a \in DOMAIN h
  BY DEF UsedBlocks
<1>3. /\ a \in Nat /\ h[a].size \in Nat /\ EndOf(h, a) = a + Header + h[a].size
      /\ EndOf(h, a) <= HeapSize
  BY <1>1, <1>2, Places
<1> QED BY <1>1, <1>3, HeapAssumption

LEMMA Freed ==
    ASSUME NEW h, Good(h), NEW p \in Int, p - Header \in UsedBlocks(h), NEW k, k = kfree(h, p)
    PROVE  Swaps(h, k, {p - Header}, {})
<1>1. PICK a : a = p - Header
  OBVIOUS
<1>2. Sound(h) /\ NoFreePair(h) /\ a \in Nat
  BY <1>1, InUseSound
<1>3. p = a + Header
  BY <1>1, <1>2, HeapAssumption
<1>4. /\ Sound(k) /\ NoFreePair(k) /\ UsedBlocks(k) = UsedBlocks(h) \ {a}
      /\ \A b \in UsedBlocks(h) \ {a} : k[b].size = h[b].size
  BY <1>1, <1>2, <1>3, FreeSound
<1> QED BY <1>1, <1>4 DEF Swaps, Good

-----------------------------------------------------------------------------
(* Cells *)

LEMMA AtStored ==
    ASSUME NEW cs, NEW p, NEW i, NEW x
    PROVE  /\ At(Stored(cs, p, i, x), p, i) = x
           /\ \A q, j : <<q, j>> # <<p, i>> => At(Stored(cs, p, i, x), q, j) = At(cs, q, j)
<1> DEFINE ds == Stored(cs, p, i, x)
<1>1. /\ DOMAIN ds = DOMAIN cs \union {<<p, i>>}
      /\ \A c \in DOMAIN ds : ds[c] = IF c = <<p, i>> THEN x ELSE cs[c]
  BY DEF Stored
<1> HIDE DEF ds
<1>2. At(ds, p, i) = x
  BY <1>1 DEF At
<1>3. ASSUME NEW q, NEW j, <<q, j>> # <<p, i>> PROVE At(ds, q, j) = At(cs, q, j)
  BY <1>1, <1>3 DEF At
<1> QED BY <1>2, <1>3 DEF ds

LEMMA AtRemaining ==
    ASSUME NEW h, NEW cs, NEW p, p - Header \in UsedBlocks(h), NEW i
    PROVE  At(Remaining(h, cs), p, i) = At(cs, p, i)
<1> DEFINE ds == Remaining(h, cs)
<1>1. /\ DOMAIN ds = {d \in DOMAIN cs : d[1] - Header \in UsedBlocks(h)}
      /\ \A c \in DOMAIN ds : ds[c] = cs[c]
  BY DEF Remaining
<1> HIDE DEF ds
<1>2. <<p, i>>[1] = p
  OBVIOUS
<1>3. <<p, i>> \in DOMAIN ds <=> <<p, i>> \in DOMAIN cs
  BY <1>1, <1>2
<1>4. At(ds, p, i) = At(cs, p, i)
  BY <1>1, <1>3 DEF At
<1> QED BY <1>4 DEF ds

\* The loop that copies: its target, and what is beside it.
IsCopy(ds, cs, p, from, q, to, n) ==
    /\ \A i \in Nat : i < n => At(ds, q, to + i) = At(cs, p, from + i)
    /\ \A i \in Nat : i < to => At(ds, q, i) = At(cs, q, i)
    /\ \A x, i : x # q => At(ds, x, i) = At(cs, x, i)

LEMMA AtCopied ==
    ASSUME NEW cs, NEW p, NEW from \in Nat, NEW q, NEW to \in Nat, NEW n \in Int
    PROVE  IsCopy(Copied(cs, p, from, q, to, n), cs, p, from, q, to, n)
<1> DEFINE target == {<<q, to + k>> : k \in 0 .. n - 1}
           ds == Copied(cs, p, from, q, to, n)
<1>1. /\ DOMAIN ds = DOMAIN cs \union target
      /\ \A c \in DOMAIN ds : ds[c] = IF c \in target THEN At(cs, p, c[2] - to + from) ELSE cs[c]
  BY DEF Copied
<1>2. \A x, i : <<x, i>> \in target <=> x = q /\ \E k \in 0 .. n - 1 : i = to + k
  OBVIOUS
<1> HIDE DEF target, ds
<1>3. ASSUME NEW i \in Nat, i < n PROVE At(ds, q, to + i) = At(cs, p, from + i)
  <2>1. i \in 0 .. n - 1
    BY <1>3
  <2>2. <<q, to + i>> \in target /\ <<q, to + i>>[2] = to + i
    BY <1>2, <2>1
  <2>3. At(ds, q, to + i) = At(cs, p, (to + i) - to + from)
    BY <1>1, <2>2 DEF At
  <2>4. (to + i) - to + from = from + i
    OBVIOUS
  <2> QED BY <2>3, <2>4
<1>4. ASSUME NEW i \in Nat, i < to PROVE At(ds, q, i) = At(cs, q, i)
  <2>1. <<q, i>> \notin target
    BY <1>2, <1>4
  <2> QED BY <1>1, <2>1 DEF At
<1>5. ASSUME NEW x, NEW i, x # q PROVE At(ds, x, i) = At(cs, x, i)
  <2>1. <<x, i>> \notin target
    BY <1>2, <1>5
  <2> QED BY <1>1, <2>1 DEF At
<1>6. IsCopy(ds, cs, p, from, q, to, n)
  BY <1>3, <1>4, <1>5 DEF IsCopy
<1> QED BY <1>6 DEF ds

-----------------------------------------------------------------------------
(* One list *)

Lists == [data : Int, cap : Nat, len : Nat]
Storage(l) == IF l.data = Null THEN {} ELSE {l.data - Header}

\* The list's cells are in its own block.
Housed(h, l) ==
    /\ l.data = Null <=> l.cap = 0
    /\ l.len <= l.cap
    /\ Storage(l) \subseteq UsedBlocks(h)
    /\ l.data # Null => h[l.data - Header].size >= ItemSize * l.cap

\* From list l, heap h and cells cs to list m, heap k and cells ds: nobody
\* else's block changes size, and what is in those still in use stays.
Keeps(h, cs, l, k, ds, m) ==
    /\ Swaps(h, k, Storage(l), Storage(m))
    /\ Housed(k, m)
    /\ \A p : p \notin {l.data, m.data} /\ p - Header \in UsedBlocks(k) =>
                \A i : At(ds, p, i) = At(cs, p, i)

\* Operation r made list l, on heap h with cells cs, a list of the items s.
Gives(r, h, cs, l, s) ==
    /\ r.list \in Lists
    /\ Keeps(h, cs, l, r.heap, r.cells, r.list)
    /\ Items(r.list, r.cells) = s

\* Whatever the cells hold, the items are a sequence of it.
Listed(s, l, cs) ==
    /\ s \in Seq({At(cs, l.data, i - 1) : i \in 1 .. l.len})
    /\ Len(s) = l.len /\ DOMAIN s = 1 .. l.len
    /\ \A i \in 1 .. l.len : s[i] = At(cs, l.data, i - 1)

LEMMA ItemsAre ==
    ASSUME NEW l \in Lists, NEW cs
    PROVE  Listed(Items(l, cs), l, cs)
<1> DEFINE s == Items(l, cs)
<1>1. l.len \in Nat
  BY DEF Lists
<1>2. PICK n : n = l.len
  OBVIOUS
<1> DEFINE T == {At(cs, l.data, i - 1) : i \in 1 .. n}
<1>3. s = [i \in 1 .. n |-> At(cs, l.data, i - 1)] /\ n \in Nat
  BY <1>1, <1>2 DEF Items
<1>4. DOMAIN s = 1 .. n /\ \A i \in 1 .. n : s[i] = At(cs, l.data, i - 1) /\ s[i] \in T
  BY <1>3
<1> HIDE DEF T, s
<1>5. s \in Seq(T) /\ Len(s) = n
  BY <1>3, <1>4
<1>6. Listed(s, l, cs)
  BY <1>2, <1>4, <1>5 DEF T, Listed
<1> QED BY <1>6 DEF s

\* Two lists with the same number of items, and the same items.
LEMMA SameItems ==
    ASSUME NEW l \in Lists, NEW cs, NEW m \in Lists, NEW ds, m.len = l.len,
           \A i \in 1 .. l.len : At(ds, m.data, i - 1) = At(cs, l.data, i - 1)
    PROVE  Items(m, ds) = Items(l, cs)
<1>1. PICK n : n = l.len
  OBVIOUS
<1>2. /\ Items(m, ds) = [i \in 1 .. n |-> At(ds, m.data, i - 1)]
      /\ Items(l, cs) = [i \in 1 .. n |-> At(cs, l.data, i - 1)]
  BY <1>1 DEF Items
<1> QED BY <1>1, <1>2

\* What reserve and push_back need of the capacity: the product does not wrap.
LEMMA CellsFit ==
    ASSUME NEW n \in Nat \ {0}, ItemSize * n <= Modulus - Align
    PROVE  /\ ItemSize * n \in 1 .. Modulus - Align
           /\ (ItemSize * n) % Modulus = ItemSize * n
<1>1. /\ ItemSize \in Nat \ {0} /\ Align \in Nat \ {0} /\ Modulus \in Nat \ {0}
  BY HeapAssumption, ItemSizeAssumption
<1>2. PICK x : x = ItemSize * n
  OBVIOUS
<1>3. x \in Nat /\ x >= 1
  BY <1>1, <1>2
<1>4. x % Modulus = x
  BY <1>1, <1>2, <1>3
<1> QED BY <1>1, <1>2, <1>3, <1>4

\* A list that stays where it is, with no more items.
LEMMA SameStorage ==
    ASSUME NEW h, Good(h), NEW cs, NEW l \in Lists, Housed(h, l),
           NEW m \in Lists, m.data = l.data, m.cap = l.cap, m.len <= l.len,
           NEW ds, \A p : p # l.data => \A i : At(ds, p, i) = At(cs, p, i)
    PROVE  Keeps(h, cs, l, h, ds, m)
<1>1. Storage(m) = Storage(l)
  BY DEF Storage
<1>2. Swaps(h, h, Storage(l), Storage(m))
  BY <1>1 DEF Housed, Swaps
<1>3. Housed(h, m)
  BY <1>1 DEF Housed, Lists
<1>4. \A p : p \notin {l.data, m.data} /\ p - Header \in UsedBlocks(h) =>
               \A i : At(ds, p, i) = At(cs, p, i)
  OBVIOUS
<1> QED BY <1>2, <1>3, <1>4 DEF Keeps

LEMMA DataFreed ==
    ASSUME NEW h, Good(h), NEW l, l.data \in Int, Storage(l) \subseteq UsedBlocks(h)
    PROVE  Swaps(h, FreeData(h, l), Storage(l), {})
<1>1. CASE l.data = Null
  BY <1>1 DEF FreeData, Storage, Swaps
<1>2. CASE l.data # Null
  <2>1. l.data - Header \in UsedBlocks(h) /\ Storage(l) = {l.data - Header}
    BY <1>2 DEF Storage
  <2>2. FreeData(h, l) = kfree(h, l.data)
    BY <1>2 DEF FreeData
  <2> QED BY <2>1, <2>2, Freed
<1> QED BY <1>1, <1>2

\* What grow is for: as many items, the same ones, and room for n.
Grew(r, h, cs, l, n) ==
    r.list.len = l.len /\ r.list.cap = n /\ Gives(r, h, cs, l, Items(l, cs))

\* grow: the new storage has room, the old one is gone, and the new cells hold
\* what the old ones held, since they are copied before the old block is freed.
LEMMA Grown ==
    ASSUME NEW h, Good(h), NEW cs, NEW l \in Lists, Housed(h, l),
           NEW n \in Nat \ {0}, ItemSize * n <= Modulus - Align, l.len <= n,
           NEW r, r = grow(h, cs, l, n), r.ok
    PROVE  Grew(r, h, cs, l, n)
<1> DEFINE size == ItemSize * n
           q == (ItemSize * n) % Modulus
           new == kmalloc(h, q)
           g == FreeData(new.heap, l)
           b == Copied(cs, l.data, 0, new.ptr, 0, l.len)
           ds == Remaining(g, b)
           m == [l EXCEPT !.data = new.ptr, !.cap = n]
           done == new.ptr # Null
<1>1. size \in 1 .. Modulus - Align /\ q = size
  BY CellsFit
<1>2. r = Result(g, ds, m, done)
  BY Zenon DEF grow
<1>3. r.heap = g /\ r.cells = ds /\ r.list = m /\ new.ptr # Null
  <2> HIDE DEF g, ds, m
  <2>1. r.heap = g /\ r.cells = ds /\ r.list = m /\ r.ok = done
    <3> HIDE DEF done
    <3> QED BY <1>2 DEF Result
  <2> HIDE DEF new, done
  <2>2. done
    BY <2>1
  <2> QED BY <2>1, <2>2 DEF done
<1>4. new = kmalloc(h, size)
  <2> HIDE DEF q, size
  <2> QED BY <1>1
<1> HIDE DEF q, size, done, new
<1>5. /\ new.ptr \in Int
      /\ Swaps(h, new.heap, {}, {new.ptr - Header})
      /\ new.heap[new.ptr - Header].size >= size
  BY <1>1, <1>3, <1>4, Allocated
<1>6. l.data \in Int /\ l.cap \in Nat /\ l.len \in Nat
  BY DEF Lists
<1>7. m \in Lists /\ m.data = new.ptr /\ m.cap = n /\ m.len = l.len
  BY <1>5, <1>6 DEF Lists
<1> HIDE DEF m, g, ds, b
<1>8. Storage(m) = {new.ptr - Header} /\ Storage(l) \subseteq UsedBlocks(h)
  BY <1>3, <1>7 DEF Storage, Housed
<1>9. Good(new.heap) /\ Storage(l) \subseteq UsedBlocks(new.heap)
  BY <1>5, <1>8 DEF Swaps
<1>10. Swaps(new.heap, g, Storage(l), {})
  BY <1>6, <1>9, DataFreed DEF g
<1>11. new.ptr - Header \notin Storage(l)
  BY <1>5, <1>8 DEF Swaps
<1>12. Swaps(h, g, Storage(l), Storage(m))
  BY <1>5, <1>8, <1>10, <1>11 DEF Swaps
<1>13. new.ptr - Header \in UsedBlocks(new.heap) \ Storage(l)
  BY <1>5, <1>11 DEF Swaps
<1>14. g[new.ptr - Header].size >= size
  BY <1>5, <1>10, <1>13 DEF Swaps
<1>15. Storage(m) \subseteq UsedBlocks(g)
  BY <1>8, <1>12 DEF Swaps
<1>16. Housed(g, m)
  BY <1>3, <1>6, <1>7, <1>14, <1>15 DEF Housed, size
<1>17. /\ \A i \in Nat : i < l.len => At(b, new.ptr, 0 + i) = At(cs, l.data, 0 + i)
       /\ \A x, i : x # new.ptr => At(b, x, i) = At(cs, x, i)
  <2>1. 0 \in Nat /\ l.len \in Int
    BY <1>6
  <2>2. IsCopy(b, cs, l.data, 0, new.ptr, 0, l.len)
    BY <2>1, AtCopied DEF b
  <2> QED BY <2>2 DEF IsCopy
<1>18. \A p : p - Header \in UsedBlocks(g) => \A i : At(ds, p, i) = At(b, p, i)
  BY AtRemaining DEF ds
<1>19. \A p : p \notin {l.data, m.data} /\ p - Header \in UsedBlocks(g) =>
                \A i : At(ds, p, i) = At(cs, p, i)
  BY <1>7, <1>17, <1>18
<1>20. Keeps(h, cs, l, g, ds, m)
  BY <1>12, <1>16, <1>19 DEF Keeps
<1>21. Items(m, ds) = Items(l, cs)
  <2>1. new.ptr - Header \in UsedBlocks(g)
    BY <1>8, <1>15
  <2>2. ASSUME NEW i \in 1 .. l.len PROVE At(ds, m.data, i - 1) = At(cs, l.data, i - 1)
    <3>1. i - 1 \in Nat /\ i - 1 < l.len /\ 0 + (i - 1) = i - 1
      BY <1>6
    <3>2. At(b, new.ptr, i - 1) = At(cs, l.data, i - 1)
      BY <1>17, <3>1
    <3>3. At(ds, new.ptr, i - 1) = At(b, new.ptr, i - 1)
      BY <1>18, <2>1
    <3> QED BY <1>7, <3>2, <3>3
  <2> QED BY <1>7, <2>2, SameItems
<1> QED BY <1>3, <1>7, <1>20, <1>21 DEF Gives, Grew

\* The first capacity, and twice the one there is, do not wrap.
LEMMA NextCapacity ==
    ASSUME NEW h, Good(h), NEW l \in Lists, Housed(h, l),
           NEW n, n = IF l.cap = 0 THEN 4 ELSE l.cap * 2, l.len + 1 > l.cap
    PROVE  n \in Nat \ {0} /\ ItemSize * n <= Modulus - Align /\ l.len + 1 <= n
<1>1. /\ ItemSize \in Nat \ {0} /\ Align \in Nat \ {0} /\ Modulus \in Nat \ {0} /\ HeapSize \in Nat
      /\ 4 * ItemSize <= Modulus - Align /\ 2 * HeapSize <= Modulus - Align
  BY HeapAssumption, ItemSizeAssumption
<1>2. l.cap \in Nat
  BY DEF Lists
<1>3. l.len \in Nat /\ l.len <= l.cap
  BY DEF Housed, Lists
<1>4. CASE l.cap = 0
  <2>1. n = 4 /\ l.len = 0
    BY <1>3, <1>4
  <2> QED BY <1>1, <2>1
<1>5. CASE l.cap # 0
  <2>1. l.data # Null /\ l.data - Header \in UsedBlocks(h)
        /\ h[l.data - Header].size >= ItemSize * l.cap
    BY <1>5 DEF Housed, Storage
  <2>2. h[l.data - Header].size \in Nat /\ h[l.data - Header].size <= HeapSize
    BY <2>1, InUseSound
  <2>3. n = l.cap * 2 /\ l.len = l.cap
    BY <1>2, <1>3, <1>5
  <2>4. ItemSize * n = 2 * (ItemSize * l.cap)
    <3>1. PICK a, c : a = ItemSize /\ c = l.cap
      OBVIOUS
    <3>2. a * (c * 2) = 2 * (a * c)
      <4>1. a \in Nat /\ c \in Nat
        BY <1>1, <1>2, <3>1
      <4> QED BY <4>1
    <3> QED BY <2>3, <3>1, <3>2, Zenon
  <2>5. ItemSize * l.cap \in Nat
    BY <1>1, <1>2
  <2>6. ItemSize * l.cap <= HeapSize
    BY <1>1, <2>1, <2>2, <2>5
  <2>7. ItemSize * n <= Modulus - Align
    <3>1. PICK x, y : x = ItemSize * l.cap /\ y = ItemSize * n
      OBVIOUS
    <3>2. y = 2 * x
      BY <2>4, <3>1, Zenon
    <3>3. x \in Nat /\ x <= HeapSize
      BY <2>5, <2>6, <3>1, Zenon
    <3>4. y <= Modulus - Align
      BY <1>1, <3>2, <3>3
    <3> QED BY <3>1, <3>4, Zenon
  <2> QED BY <1>2, <1>5, <2>3, <2>7
<1> QED BY <1>4, <1>5


LEMMA Reserved ==
    ASSUME NEW h, Good(h), NEW cs, NEW l \in Lists, Housed(h, l),
           NEW n \in Nat, ItemSize * n <= Modulus - Align,
           NEW r, r = reserve(h, cs, l, n), r.ok
    PROVE  Gives(r, h, cs, l, Items(l, cs))
<1>1. l.cap \in Nat /\ l.len \in Nat /\ l.len <= l.cap
  BY DEF Lists, Housed
<1>2. CASE n <= l.cap
  <2>1. r.heap = h /\ r.cells = cs /\ r.list = l
    BY <1>2 DEF reserve, Result
  <2>2. Keeps(h, cs, l, h, cs, l)
    BY <1>1, SameStorage
  <2> QED BY <2>1, <2>2 DEF Gives
<1>3. CASE ~(n <= l.cap)
  <2>1. n \in Nat \ {0} /\ l.len <= n
    BY <1>1, <1>3
  <2>2. r = grow(h, cs, l, n)
    BY <1>3 DEF reserve
  <2>3. Grew(r, h, cs, l, n)
    BY <2>1, <2>2, Grown
  <2> QED BY <2>3 DEF Grew
<1> QED BY <1>2, <1>3

\* A value put behind the last item, where there is room for it.
Longer(m, ds, l, cs, x) == Items(m, ds) = Append(Items(l, cs), x)

LEMMA OneMore ==
    ASSUME NEW l \in Lists, NEW cs, NEW x, NEW m \in Lists, m.data = l.data, m.len = l.len + 1,
           NEW ds, ds = Stored(cs, l.data, l.len, x)
    PROVE  Longer(m, ds, l, cs, x)
<1> DEFINE s == Items(l, cs)
           t == Items(m, ds)
           T == {At(cs, l.data, i - 1) : i \in 1 .. l.len}
           U == {At(ds, m.data, i - 1) : i \in 1 .. m.len}
<1>1. s \in Seq(T) /\ Len(s) = l.len /\ \A i \in 1 .. l.len : s[i] = At(cs, l.data, i - 1)
  <2>1. Listed(Items(l, cs), l, cs)
    BY ItemsAre
  <2> QED BY <2>1 DEF Listed
<1>2. t \in Seq(U) /\ Len(t) = m.len /\ \A i \in 1 .. m.len : t[i] = At(ds, m.data, i - 1)
  <2>1. Listed(Items(m, ds), m, ds)
    BY ItemsAre
  <2> QED BY <2>1 DEF Listed
<1>3. PICK n, p : n = l.len /\ p = l.data
  OBVIOUS
<1>4. n \in Nat
  BY <1>3 DEF Lists
<1>5. At(ds, p, n) = x /\ \A j : j # n => At(ds, p, j) = At(cs, p, j)
  BY <1>3, AtStored
<1> HIDE DEF s, t, T, U
<1>6. /\ Len(Append(s, x)) = n + 1 /\ Append(s, x)[n + 1] = x
      /\ \A i \in 1 .. n : Append(s, x)[i] = s[i]
      /\ Append(s, x) \in Seq(T \union {x})
  <2>1. s \in Seq(T \union {x}) /\ x \in T \union {x}
    BY <1>1
  <2> QED BY <1>1, <1>3, <2>1, AppendProperties
<1>7. ASSUME NEW i \in 1 .. n + 1 PROVE t[i] = Append(s, x)[i]
  <2>1. t[i] = At(ds, p, i - 1)
    BY <1>2, <1>3
  <2>2. CASE i = n + 1
    BY <1>4, <1>5, <1>6, <2>1, <2>2
  <2>3. CASE i # n + 1
    <3>1. i \in 1 .. n /\ i - 1 # n
      BY <1>4, <2>3
    <3> QED BY <1>1, <1>3, <1>5, <1>6, <2>1, <3>1
  <2> QED BY <2>2, <2>3
<1>8. Len(t) = n + 1
  BY <1>2, <1>3
<1>9. t = Append(s, x)
  BY <1>2, <1>6, <1>7, <1>8, SeqEqual
<1> QED BY <1>9 DEF s, t, Longer

\* push_back: when it had to grow, and when it had not.
LEMMA Pushed ==
    ASSUME NEW h, Good(h), NEW cs, NEW l \in Lists, Housed(h, l), NEW x,
           NEW r, r = push_back(h, cs, l, x), r.ok
    PROVE  Gives(r, h, cs, l, Append(Items(l, cs), x))
<1> DEFINE n == IF l.cap = 0 THEN 4 ELSE l.cap * 2
           full == l.len + 1 > l.cap
           room == IF full THEN grow(h, cs, l, n) ELSE Result(h, cs, l, TRUE)
           t == room.list
           m == [t EXCEPT !.len = @ + 1]
           ds == Stored(room.cells, t.data, t.len, x)
<1>1. l.cap \in Nat /\ l.len \in Nat /\ l.len <= l.cap
  BY DEF Lists, Housed
<1>2. r = WithItem(room, x)
  BY Zenon DEF push_back
<1>3. \E k, c, u, b : room = Result(k, c, u, b)
  <2>1. CASE full
    <3>1. \E k, c, u, b : grow(h, cs, l, n) = Result(k, c, u, b)
      BY Zenon DEF grow
    <3> QED BY <2>1, <3>1, Zenon
  <2>2. CASE ~full
    BY <2>2, Zenon
  <2> QED BY <2>1, <2>2
<1> HIDE DEF room
<1>4. r.heap = room.heap /\ r.cells = ds /\ r.list = m /\ room.ok
  BY <1>2, <1>3 DEF WithItem, Result
<1>5. /\ t \in Lists /\ t.len = l.len /\ Items(t, room.cells) = Items(l, cs)
      /\ Keeps(h, cs, l, room.heap, room.cells, t)
      /\ l.len + 1 <= t.cap
  <2>1. CASE full
    <3>1. n \in Nat \ {0} /\ ItemSize * n <= Modulus - Align /\ l.len + 1 <= n
      BY <2>1, NextCapacity
    <3>2. room = grow(h, cs, l, n) /\ l.len <= n /\ room.ok
      BY <1>1, <1>4, <2>1, <3>1 DEF room
    <3> HIDE DEF n
    <3>3. Grew(room, h, cs, l, n)
      BY <3>1, <3>2, Grown
    <3> QED BY <3>1, <3>3 DEF Grew, Gives
  <2>2. CASE ~full
    <3>1. room.heap = h /\ room.cells = cs /\ t = l
      BY <2>2 DEF room, Result
    <3>2. Keeps(h, cs, l, h, cs, l)
      BY <1>1, SameStorage
    <3> QED BY <1>1, <2>2, <3>1, <3>2
  <2> QED BY <2>1, <2>2
<1> HIDE DEF t
<1>6. m \in Lists /\ m.data = t.data /\ m.cap = t.cap /\ m.len = t.len + 1
  BY <1>5 DEF Lists
<1>7. Storage(m) = Storage(t)
  BY <1>6 DEF Storage
<1> HIDE DEF m
<1>8. Items(m, ds) = Append(Items(l, cs), x)
  <2> DEFINE c == room.cells
  <2>1. ds = Stored(c, t.data, t.len, x) /\ t \in Lists
    BY <1>5
  <2> HIDE DEF ds, c
  <2>2. Longer(m, ds, t, c, x)
    BY <1>6, <2>1, OneMore
  <2> QED BY <1>5, <2>2 DEF c, Longer
<1>9. \A p, i : p # t.data => At(ds, p, i) = At(room.cells, p, i)
  BY AtStored
<1> HIDE DEF ds
<1>10. Housed(room.heap, m)
  BY <1>5, <1>6, <1>7 DEF Keeps, Housed
<1>11. Keeps(h, cs, l, room.heap, ds, m)
  BY <1>5, <1>6, <1>7, <1>9, <1>10 DEF Keeps
<1> QED BY <1>4, <1>6, <1>8, <1>11 DEF Gives


\* A list cut to its first items; what the cells bs held of them, it still has.
LEMMA CutShort ==
    ASSUME NEW h, Good(h), NEW cs, NEW l \in Lists, Housed(h, l),
           NEW bs, \A p : p # l.data => \A i : At(bs, p, i) = At(cs, p, i),
           NEW n \in Nat, n <= l.len, NEW r, r = Shortened(h, bs, l, n)
    PROVE  /\ Gives(r, h, cs, l, [i \in 1 .. n |-> At(bs, l.data, i - 1)])
           /\ r.ok
<1> DEFINE ds == [c \in {d \in DOMAIN bs : d[1] = l.data => d[2] < n} |-> bs[c]]
           m == [l EXCEPT !.len = n]
<1>1. r.heap = h /\ r.cells = ds /\ r.list = m /\ r.ok
  BY DEF Shortened, Result
<1>2. m \in Lists /\ m.data = l.data /\ m.cap = l.cap /\ m.len = n
  BY DEF Lists
<1>3. /\ DOMAIN ds = {d \in DOMAIN bs : d[1] = l.data => d[2] < n}
      /\ \A c \in DOMAIN ds : ds[c] = bs[c]
  OBVIOUS
<1> HIDE DEF ds, m
<1>4. ASSUME NEW p, NEW i, p = l.data => i < n PROVE At(ds, p, i) = At(bs, p, i)
  <2>1. <<p, i>>[1] = p /\ <<p, i>>[2] = i
    OBVIOUS
  <2>2. <<p, i>> \in DOMAIN ds <=> <<p, i>> \in DOMAIN bs
    BY <1>3, <1>4, <2>1
  <2> QED BY <1>3, <2>2 DEF At
<1>5. \A p : p # l.data => \A i : At(ds, p, i) = At(cs, p, i)
  BY <1>4
<1>6. Keeps(h, cs, l, h, ds, m)
  BY <1>2, <1>5, SameStorage
<1>7. Items(m, ds) = [i \in 1 .. n |-> At(bs, l.data, i - 1)]
  <2>1. Items(m, ds) = [i \in 1 .. n |-> At(ds, l.data, i - 1)]
    BY <1>2 DEF Items
  <2>2. ASSUME NEW i \in 1 .. n PROVE At(ds, l.data, i - 1) = At(bs, l.data, i - 1)
    <3>1. i - 1 < n
      OBVIOUS
    <3> QED BY <1>4, <3>1
  <2> QED BY <2>1, <2>2
<1> QED BY <1>1, <1>2, <1>6, <1>7 DEF Gives

\* A list without items has the empty sequence, and no other list has.
LEMMA NoItems ==
    ASSUME NEW l \in Lists, NEW cs
    PROVE  Items(l, cs) = <<>> <=> l.len = 0
<1>1. Listed(Items(l, cs), l, cs)
  BY ItemsAre
<1>2. l.len \in Nat
  BY DEF Lists
<1>3. CASE l.len = 0
  BY <1>1, <1>3, EmptySeq DEF Listed
<1>4. CASE l.len # 0
  <2>1. Len(Items(l, cs)) # 0
    BY <1>1, <1>4 DEF Listed
  <2>2. Items(l, cs) # <<>>
    BY <2>1
  <2> QED BY <1>4, <2>2
<1> QED BY <1>3, <1>4

LEMMA Popped ==
    ASSUME NEW h, Good(h), NEW cs, NEW l \in Lists, Housed(h, l), NEW r, r = pop_back(h, cs, l)
    PROVE  /\ Gives(r, h, cs, l, IF Items(l, cs) = <<>> THEN <<>> ELSE Front(Items(l, cs)))
           /\ r.ok
<1> DEFINE s == Items(l, cs)
           n == l.len - 1
           t == [i \in 1 .. n |-> At(cs, l.data, i - 1)]
<1>1. /\ s \in Seq({At(cs, l.data, i - 1) : i \in 1 .. l.len}) /\ Len(s) = l.len
      /\ \A i \in 1 .. l.len : s[i] = At(cs, l.data, i - 1)
  <2>1. Listed(s, l, cs)
    BY ItemsAre
  <2> QED BY <2>1 DEF Listed
<1>2. l.len \in Nat
  BY DEF Lists
<1>3. CASE l.len = 0
  <2>1. r.heap = h /\ r.cells = cs /\ r.list = l /\ r.ok
    BY <1>3 DEF pop_back, Result
  <2>2. Keeps(h, cs, l, h, cs, l)
    BY <1>2, SameStorage
  <2>3. s = <<>>
    BY <1>3, NoItems
  <2>4. Gives(r, h, cs, l, s)
    BY <2>1, <2>2 DEF Gives
  <2> QED BY <2>1, <2>3, <2>4
<1>4. CASE l.len # 0
  <2>1. n \in Nat /\ n <= l.len /\ r = Shortened(h, cs, l, n)
    BY <1>2, <1>4 DEF pop_back
  <2>2. Gives(r, h, cs, l, t) /\ r.ok
    <3> HIDE DEF n
    <3> QED BY <2>1, CutShort
  <2>3. s # <<>>
    BY <1>4, NoItems
  <2> HIDE DEF s
  <2>4. Front(s) = t
    <3>1. 1 \in 1 .. Len(s) + 1 /\ Len(s) - 1 \in 0 .. Len(s) /\ Len(s) - 1 = n
      BY <1>1, <1>2, <1>4
    <3>2. /\ Front(s) = SubSeq(s, 1, n)
          /\ SubSeq(s, 1, n) = [i \in 1 .. n |-> s[i]]
      <4>1. Front(s) = SubSeq(s, 1, Len(s) - 1)
        BY DEF Front
      <4>2. SubSeq(s, 1, n) = [i \in 1 .. n |-> s[i]]
        <5> PICK k : k = n
          OBVIOUS
        <5>1. k \in Nat /\ k <= Len(s)
          BY <1>1, <2>1
        <5>2. SubSeq(s, 1, k) = [i \in 1 .. k |-> s[i]]
          BY <1>1, <5>1
        <5> QED BY <5>2
      <4> QED BY <3>1, <4>1, <4>2
    <3>3. \A i \in 1 .. n : s[i] = At(cs, l.data, i - 1)
      BY <1>1, <1>2, <1>4
    <3> QED BY <3>2, <3>3
  <2> HIDE DEF t
  <2>5. Gives(r, h, cs, l, IF s = <<>> THEN <<>> ELSE Front(s)) /\ r.ok
    BY <2>2, <2>3, <2>4
  <2> QED BY <2>5 DEF s
<1> QED BY <1>3, <1>4

\* remove_at's loop: the items before index stay, those behind it move one down.
LEMMA RemovedItems ==
    ASSUME NEW S, NEW s \in Seq(S), NEW i \in Nat, i < Len(s),
           NEW t, t = [k \in 1 .. Len(s) - 1 |-> IF k - 1 < i THEN s[k] ELSE s[k + 1]]
    PROVE  t \in Seq(S) /\ Len(t) = Len(s) - 1 /\ t = RemoveAt(s, i + 1)
<1>1. PICK n : n = Len(s)
  OBVIOUS
<1>2. n \in Nat /\ i + 1 \in 1 .. n /\ \A k \in 1 .. n : s[k] \in S
  BY <1>1, LenProperties, ElementOfSeq
<1>3. \A k \in 1 .. n - 1 : k \in 1 .. n /\ k + 1 \in 1 .. n
  BY <1>2
<1>4. \A k \in 1 .. n - 1 : t[k] \in S
  BY <1>1, <1>2, <1>3
<1>5. n - 1 \in Nat /\ DOMAIN t = 1 .. n - 1
  BY <1>1, <1>2
<1>6. t \in Seq(S) /\ Len(t) = n - 1
  BY <1>1, <1>4, <1>5
<1>7. RemoveAt(s, i + 1) = SubSeq(s, 1, i) \o SubSeq(s, i + 2, n)
  <2>1. PICK j, k : j = (i + 1) - 1 /\ k = (i + 1) + 1
    OBVIOUS
  <2>2. j = i /\ k = i + 2
    BY <1>2, <2>1
  <2>3. RemoveAt(s, i + 1) = SubSeq(s, 1, j) \o SubSeq(s, k, n)
    BY <1>1, <2>1, Zenon DEF RemoveAt
  <2> QED BY <2>2, <2>3
<1>8. /\ SubSeq(s, 1, i) \in Seq(S) /\ Len(SubSeq(s, 1, i)) = i
      /\ \A k \in 1 .. i : SubSeq(s, 1, i)[k] = s[k]
  BY <1>1, <1>2, SubSeqProperties
<1>9. /\ SubSeq(s, i + 2, n) \in Seq(S) /\ Len(SubSeq(s, i + 2, n)) = n - i - 1
      /\ \A k \in 1 .. n - i - 1 : SubSeq(s, i + 2, n)[k] = s[i + 1 + k]
  BY <1>1, <1>2, SubSeqProperties
<1> DEFINE u == SubSeq(s, 1, i)
           v == SubSeq(s, i + 2, n)
<1>10. /\ u \o v \in Seq(S) /\ Len(u \o v) = n - 1
       /\ \A k \in 1 .. n - 1 : (u \o v)[k] = IF k <= i THEN u[k] ELSE v[k - i]
  <2>1. u \in Seq(S) /\ Len(u) = i /\ v \in Seq(S) /\ Len(v) = n - i - 1
    BY <1>8, <1>9
  <2> HIDE DEF u, v
  <2>2. /\ u \o v \in Seq(S) /\ Len(u \o v) = Len(u) + Len(v)
        /\ \A k \in 1 .. Len(u) + Len(v) :
             (u \o v)[k] = IF k <= Len(u) THEN u[k] ELSE v[k - Len(u)]
    BY <2>1, ConcatProperties
  <2>3. i + (n - i - 1) = n - 1
    BY <1>2
  <2> QED BY <2>1, <2>2, <2>3
<1> HIDE DEF u, v
<1>11. ASSUME NEW k \in 1 .. n - 1 PROVE t[k] = (u \o v)[k]
  <2>1. CASE k <= i
    BY <1>1, <1>2, <1>8, <1>10, <2>1 DEF u
  <2>2. CASE ~(k <= i)
    <3>1. k - i \in 1 .. n - i - 1 /\ i + 1 + (k - i) = k + 1 /\ ~(k - 1 < i)
      BY <1>2, <2>2
    <3>2. v[k - i] = s[k + 1]
      BY <1>9, <3>1 DEF v
    <3> QED BY <1>1, <1>10, <2>2, <3>1, <3>2
  <2> QED BY <2>1, <2>2
<1>12. t = u \o v
  BY <1>6, <1>10, <1>11, SeqEqual
<1> QED BY <1>1, <1>6, <1>7, <1>12 DEF u, v

LEMMA Removed ==
    ASSUME NEW h, Good(h), NEW cs, NEW l \in Lists, Housed(h, l), NEW i \in Nat,
           NEW r, r = remove_at(h, cs, l, i)
    PROVE  /\ Gives(r, h, cs, l, IF i < Len(Items(l, cs)) THEN RemoveAt(Items(l, cs), i + 1)
                                 ELSE Items(l, cs))
           /\ r.ok
<1> DEFINE s == Items(l, cs)
           T == {At(cs, l.data, k - 1) : k \in 1 .. l.len}
           rest == l.len - i - 1
           bs == Copied(cs, l.data, i + 1, l.data, i, rest)
           n == l.len - 1
           t == [k \in 1 .. n |-> At(bs, l.data, k - 1)]
<1>1. /\ s \in Seq(T) /\ Len(s) = l.len
      /\ \A k \in 1 .. l.len : s[k] = At(cs, l.data, k - 1)
  <2>1. Listed(s, l, cs)
    BY ItemsAre
  <2> QED BY <2>1 DEF Listed
<1>2. l.len \in Nat
  BY DEF Lists
<1>3. CASE i >= l.len
  <2>1. r.heap = h /\ r.cells = cs /\ r.list = l /\ r.ok
    BY <1>3 DEF remove_at, Result
  <2>2. Keeps(h, cs, l, h, cs, l)
    BY <1>2, SameStorage
  <2>3. Gives(r, h, cs, l, s)
    BY <2>1, <2>2 DEF Gives
  <2>4. ~(i < Len(s))
    BY <1>1, <1>2, <1>3
  <2> QED BY <2>1, <2>3, <2>4
<1>4. CASE ~(i >= l.len)
  <2>1. i < l.len /\ n \in Nat /\ n <= l.len /\ rest \in Nat
    BY <1>2, <1>4
  <2>2. r = Shortened(h, bs, l, n)
    BY <1>4, Zenon DEF remove_at
  <2>3. IsCopy(bs, cs, l.data, i + 1, l.data, i, rest)
    <3>1. i + 1 \in Nat /\ rest \in Int
      BY <2>1
    <3> HIDE DEF rest
    <3> QED BY <3>1, AtCopied
  <2> HIDE DEF bs, s, T
  <2>4. /\ \A k \in Nat : k < rest => At(bs, l.data, i + k) = At(cs, l.data, (i + 1) + k)
        /\ \A k \in Nat : k < i => At(bs, l.data, k) = At(cs, l.data, k)
        /\ \A p : p # l.data => \A k : At(bs, p, k) = At(cs, p, k)
    BY <2>3 DEF IsCopy
  <2>5. Gives(r, h, cs, l, t) /\ r.ok
    <3> HIDE DEF n
    <3> QED BY <2>1, <2>2, <2>4, CutShort
  <2>6. ASSUME NEW k \in 1 .. n
        PROVE  At(bs, l.data, k - 1) = IF k - 1 < i THEN s[k] ELSE s[k + 1]
    <3>1. k \in 1 .. l.len /\ k + 1 \in 1 .. l.len /\ k - 1 \in Nat
      BY <1>2
    <3>2. CASE k - 1 < i
      BY <1>1, <2>4, <3>1, <3>2
    <3>3. CASE ~(k - 1 < i)
      <4>1. PICK j : j = k - 1 - i
        OBVIOUS
      <4>2. j \in Nat /\ j < rest /\ i + j = k - 1 /\ (i + 1) + j = k
        BY <1>2, <3>1, <3>3, <4>1
      <4>3. At(bs, l.data, k - 1) = At(cs, l.data, k)
        BY <2>4, <4>2
      <4>4. s[k + 1] = At(cs, l.data, k)
        BY <1>1, <3>1
      <4> QED BY <3>3, <4>3, <4>4
    <3> QED BY <3>2, <3>3
  <2>7. t = [k \in 1 .. Len(s) - 1 |-> IF k - 1 < i THEN s[k] ELSE s[k + 1]]
    <3>1. Len(s) - 1 = n
      BY <1>1
    <3> QED BY <2>6, <3>1
  <2> HIDE DEF t
  <2>8. t = RemoveAt(s, i + 1) /\ i < Len(s)
    BY <1>1, <2>1, <2>7, RemovedItems
  <2> QED BY <2>5, <2>8 DEF s
<1> QED BY <1>3, <1>4

LEMMA Cleared ==
    ASSUME NEW h, Good(h), NEW cs, NEW l \in Lists, Housed(h, l), NEW r, r = clear(h, cs, l)
    PROVE  Gives(r, h, cs, l, <<>>) /\ r.ok
<1>1. 0 \in Nat /\ 0 <= l.len /\ r = Shortened(h, cs, l, 0)
  BY DEF clear, Lists
<1>2. Gives(r, h, cs, l, [i \in 1 .. 0 |-> At(cs, l.data, i - 1)]) /\ r.ok
  BY <1>1, CutShort
<1>3. [i \in 1 .. 0 |-> At(cs, l.data, i - 1)] = <<>>
  OBVIOUS
<1> QED BY <1>2, <1>3

LEMMA EmptyHoused ==
    ASSUME NEW h
    PROVE  /\ EmptyList \in Lists /\ EmptyList.data = Null /\ EmptyList.len = 0
           /\ Storage(EmptyList) = {} /\ Housed(h, EmptyList)
           /\ \A cs : Items(EmptyList, cs) = <<>>
<1>1. /\ EmptyList \in Lists /\ EmptyList.data = Null /\ EmptyList.len = 0
      /\ Storage(EmptyList) = {} /\ Housed(h, EmptyList)
  BY DEF EmptyList, Lists, Storage, Housed, Null
<1>2. \A cs : Items(EmptyList, cs) = <<>>
  BY <1>1, NoItems
<1> QED BY <1>1, <1>2

LEMMA Released ==
    ASSUME NEW h, Good(h), NEW cs, NEW l \in Lists, Housed(h, l), NEW r, r = release(h, cs, l)
    PROVE  r.list = EmptyList /\ Gives(r, h, cs, l, <<>>) /\ r.ok
<1> DEFINE g == FreeData(h, l)
           ds == Remaining(g, cs)
<1>1. r.heap = g /\ r.cells = ds /\ r.list = EmptyList /\ r.ok
  BY DEF release, Result
<1>2. Swaps(h, g, Storage(l), {})
  BY DataFreed DEF Lists, Housed
<1> HIDE DEF g
<1>3. \A p : p - Header \in UsedBlocks(g) => \A i : At(ds, p, i) = At(cs, p, i)
  BY AtRemaining
<1> HIDE DEF ds
<1>4. Keeps(h, cs, l, g, ds, EmptyList)
  BY <1>2, <1>3, EmptyHoused DEF Keeps
<1>5. Items(EmptyList, ds) = <<>> /\ EmptyList \in Lists
  BY EmptyHoused
<1> QED BY <1>1, <1>4, <1>5 DEF Gives


-----------------------------------------------------------------------------
(* Lists under several names *)

\* A block in use is the storage of one list, and of one only.
Owners ==
    /\ UsedBlocks(heap) = UNION {Storage(lists[v]) : v \in Names}
    /\ \A v, w \in Names : v # w => Storage(lists[v]) \intersect Storage(lists[w]) = {}

\* The inductive invariant.  After a lost allocation nothing runs any more.
ListInv ==
    /\ lists \in [Names -> Lists]
    /\ lost \in BOOLEAN
    /\ ~lost => /\ Good(heap)
                /\ \A v \in Names : Housed(heap, lists[v])
                /\ Owners

LEMMA ListInvInit == ListInit => ListInv
<1> SUFFICES ASSUME ListInit PROVE ListInv
  OBVIOUS
<1>1. /\ heap = NoBlocks /\ lists = [v \in Names |-> EmptyList] /\ lost = FALSE
  BY DEF ListInit
<1>2. Good(heap) /\ UsedBlocks(heap) = {}
  BY <1>1, BlocksGood
<1>3. lists \in [Names -> Lists]
  BY <1>1, EmptyHoused
<1>4. \A v \in Names : lists[v] = EmptyList
  BY <1>1
<1>5. \A v \in Names : Storage(lists[v]) = {} /\ Housed(heap, lists[v])
  BY <1>4, EmptyHoused
<1> QED BY <1>1, <1>2, <1>3, <1>5 DEF ListInv, Owners

\* A block that stays in use through the change of another list's storage.
LEMMA OthersKept ==
    ASSUME NEW h, NEW k, NEW out, NEW in, Swaps(h, k, out, in),
           NEW l, Housed(h, l), Storage(l) \intersect out = {}
    PROVE  Housed(k, l) /\ Storage(l) \intersect in = {}
<1>1. Storage(l) \subseteq UsedBlocks(h) \ out
  BY DEF Housed
<1>2. Storage(l) \subseteq UsedBlocks(k) /\ Storage(l) \intersect in = {}
  BY <1>1 DEF Swaps
<1>3. ASSUME l.data # Null PROVE k[l.data - Header].size = h[l.data - Header].size
  BY <1>1, <1>3 DEF Storage, Swaps
<1> QED BY <1>2, <1>3 DEF Housed

\* ... and what is in it.
LEMMA OthersItems ==
    ASSUME NEW h, NEW cs, NEW l \in Lists, NEW k, NEW ds, NEW m \in Lists,
           Keeps(h, cs, l, k, ds, m),
           NEW o \in Lists, Housed(h, o), Storage(o) \intersect Storage(l) = {}
    PROVE  Items(o, ds) = Items(o, cs)
<1>1. Swaps(h, k, Storage(l), Storage(m))
  BY DEF Keeps
<1>2. Housed(k, o) /\ Storage(o) \intersect Storage(m) = {}
  BY <1>1, OthersKept
<1>3. CASE o.data = Null
  <2>1. o.len = 0
    BY <1>2, <1>3 DEF Housed, Lists
  <2>2. Items(o, ds) = <<>> /\ Items(o, cs) = <<>>
    BY <2>1, NoItems
  <2> QED BY <2>2
<1>4. CASE o.data # Null
  <2>1. o.data - Header \in UsedBlocks(k)
    BY <1>2, <1>4 DEF Housed, Storage
  <2>2. o.data \notin {l.data, m.data}
    BY <1>2, <1>4 DEF Storage
  <2>3. \A i : At(ds, o.data, i) = At(cs, o.data, i)
    BY <2>1, <2>2 DEF Keeps
  <2> QED BY <2>3, SameItems
<1> QED BY <1>3, <1>4

\* List v has become m; the others are as they were.
LEMMA OneChanged ==
    ASSUME ListInv, ~lost, NEW v \in Names, NEW m \in Lists,
           Swaps(heap, heap', Storage(lists[v]), Storage(m)), Housed(heap', m),
           lists' = [lists EXCEPT ![v] = m], lost' = FALSE
    PROVE  ListInv'
<1>1. /\ lists \in [Names -> Lists]
      /\ \A w \in Names : Housed(heap, lists[w])
      /\ UsedBlocks(heap) = UNION {Storage(lists[w]) : w \in Names}
      /\ \A w, z \in Names : w # z => Storage(lists[w]) \intersect Storage(lists[z]) = {}
  BY DEF ListInv, Owners
<1>2. /\ lists' \in [Names -> Lists]
      /\ lists'[v] = m /\ \A w \in Names \ {v} : lists'[w] = lists[w]
  BY <1>1
<1>3. \A w \in Names \ {v} :
        Housed(heap', lists[w]) /\ Storage(lists[w]) \intersect Storage(m) = {}
  BY <1>1, OthersKept
<1>4. \A w \in Names : Housed(heap', lists'[w])
  BY <1>2, <1>3
<1>5. \A w, z \in Names : w # z => Storage(lists'[w]) \intersect Storage(lists'[z]) = {}
  BY <1>1, <1>2, <1>3
<1>6. UsedBlocks(heap') = (UsedBlocks(heap) \ Storage(lists[v])) \union Storage(m)
  BY DEF Swaps
<1>7. UsedBlocks(heap) \ Storage(lists[v]) = UNION {Storage(lists[w]) : w \in Names \ {v}}
  BY <1>1
<1>8. UsedBlocks(heap') = UNION {Storage(lists'[w]) : w \in Names}
  BY <1>2, <1>6, <1>7
<1>9. Good(heap')
  BY DEF Swaps
<1> QED BY <1>2, <1>4, <1>5, <1>8, <1>9 DEF ListInv, Owners

\* What an operation of a list starts from.
LEMMA AtList ==
    ASSUME ListInv, ~lost, NEW v \in Names
    PROVE  Good(heap) /\ lists[v] \in Lists /\ Housed(heap, lists[v])
BY DEF ListInv

\* The items of all the lists.
ItemsOf == [v \in Names |-> Items(lists[v], held)]
SetItems(v, s) == ItemsOf' = [ItemsOf EXCEPT ![v] = s]

\* The end of an operation of v: its list has the items s, and the others have
\* the items they had.
LEMMA Finished ==
    ASSUME ListInv, NEW v \in Names, NEW op, NEW r, Finish(v, op, r), NEW s,
           r.ok => Gives(r, heap, held, lists[v], s)
    PROVE  /\ ListInv'
           /\ \/ last' = op /\ SetItems(v, s)
              \/ last' = Op("out of memory", "", 0) /\ UNCHANGED ItemsOf
<1>1. /\ ~lost /\ heap' = r.heap /\ lost' = ~r.ok
      /\ held' = IF r.ok THEN r.cells ELSE held
      /\ lists' = IF r.ok THEN [lists EXCEPT ![v] = r.list] ELSE lists
      /\ last' = IF r.ok THEN op ELSE Op("out of memory", "", 0)
  BY DEF Finish
<1>2. CASE r.ok
  <2> DEFINE m == r.list
             l == lists[v]
  <2>1. m \in Lists /\ Keeps(heap, held, l, heap', held', m) /\ Items(m, held') = s
    BY <1>1, <1>2 DEF Gives
  <2>2. Swaps(heap, heap', Storage(l), Storage(m)) /\ Housed(heap', m)
    BY <2>1 DEF Keeps
  <2>3. lists' = [lists EXCEPT ![v] = m] /\ lost' = FALSE /\ last' = op
    BY <1>1, <1>2
  <2> HIDE DEF m
  <2>4. ListInv'
    BY <1>1, <2>1, <2>2, <2>3, OneChanged
  <2>5. /\ lists \in [Names -> Lists] /\ \A w \in Names : Housed(heap, lists[w])
        /\ \A w \in Names \ {v} : Storage(lists[w]) \intersect Storage(l) = {}
    BY <1>1 DEF ListInv, Owners
  <2>6. lists'[v] = m /\ \A w \in Names \ {v} : lists'[w] = lists[w]
    BY <2>3, <2>5
  <2>7. l \in Lists
    BY <2>5
  <2>8. ASSUME NEW w \in Names \ {v} PROVE Items(lists[w], held') = Items(lists[w], held)
    <3>1. lists[w] \in Lists /\ Housed(heap, lists[w]) /\ Storage(lists[w]) \intersect Storage(l) = {}
      BY <2>5
    <3> HIDE DEF l
    <3> QED BY <2>1, <2>7, <3>1, OthersItems
  <2>9. ItemsOf' = [w \in Names |-> Items(lists'[w], held')]
    BY DEF ItemsOf
  <2>10. \A w \in Names : Items(lists'[w], held') = IF w = v THEN s ELSE ItemsOf[w]
    BY <2>1, <2>6, <2>8 DEF ItemsOf
  <2>11. DOMAIN ItemsOf = Names /\ ItemsOf = [w \in Names |-> ItemsOf[w]]
    BY DEF ItemsOf
  <2> HIDE DEF ItemsOf
  <2>12. SetItems(v, s)
    BY <2>9, <2>10, <2>11 DEF SetItems
  <2> QED BY <2>3, <2>4, <2>12
<1>3. CASE ~r.ok
  BY <1>1, <1>3 DEF ListInv, ItemsOf
<1> QED BY <1>2, <1>3


\* A list moved into another: its storage and its items go with it.
LEMMA MoveKeeps ==
    ASSUME ListInv, NEW v \in Names, NEW w \in Names, Move(v, w)
    PROVE  /\ ListInv'
           /\ v = w => UNCHANGED ItemsOf
           /\ v # w => ItemsOf' = [ItemsOf EXCEPT ![v] = ItemsOf[w], ![w] = <<>>]
<1>1. ~lost /\ lost' = FALSE
  BY DEF Move, ListInv
<1>2. CASE v = w
  <2>1. UNCHANGED <<heap, held, lists>>
    BY <1>2 DEF Move
  <2> QED BY <1>1, <1>2, <2>1 DEF ListInv, Owners, ItemsOf
<1>3. CASE v # w
  <2> DEFINE l == lists[v]
             r == release(heap, held, l)
  <2>1. /\ heap' = r.heap /\ held' = r.cells
        /\ lists' = [lists EXCEPT ![v] = lists[w], ![w] = EmptyList]
    BY <1>3 DEF Move, Moved
  <2>2. /\ lists \in [Names -> Lists] /\ Good(heap)
        /\ \A u \in Names : lists[u] \in Lists /\ Housed(heap, lists[u])
        /\ UsedBlocks(heap) = UNION {Storage(lists[u]) : u \in Names}
        /\ \A u, z \in Names : u # z => Storage(lists[u]) \intersect Storage(lists[z]) = {}
    BY <1>1 DEF ListInv, Owners
  <2>3. EmptyList \in Lists /\ Storage(EmptyList) = {} /\ Housed(heap', EmptyList)
        /\ Items(EmptyList, held') = <<>>
    BY EmptyHoused
  <2>4. l \in Lists /\ Housed(heap, l)
    BY <2>2
  <2>5. Keeps(heap, held, l, heap', held', EmptyList)
    <3>1. PICK m : m = l
      OBVIOUS
    <3>2. r = release(heap, held, m) /\ m \in Lists /\ Housed(heap, m)
      BY <2>4, <3>1
    <3> HIDE DEF l, r
    <3>3. r.list = EmptyList /\ Gives(r, heap, held, m, <<>>)
      BY <2>2, <3>2, Released
    <3> QED BY <2>1, <3>1, <3>3 DEF Gives
  <2> HIDE DEF r
  <2>6. Swaps(heap, heap', Storage(l), {})
    BY <2>3, <2>5 DEF Keeps
  <2>7. /\ lists' \in [Names -> Lists]
        /\ lists'[v] = lists[w] /\ lists'[w] = EmptyList
        /\ \A u \in Names \ {v, w} : lists'[u] = lists[u]
    BY <1>3, <2>1, <2>2, <2>3
  <2>8. ASSUME NEW u \in Names \ {v}
        PROVE  Housed(heap', lists[u]) /\ Items(lists[u], held') = Items(lists[u], held)
    <3>1. PICK o : o = lists[u]
      OBVIOUS
    <3>2. o \in Lists /\ Housed(heap, o) /\ Storage(o) \intersect Storage(l) = {}
      BY <2>2, <3>1
    <3> HIDE DEF l
    <3>3. Housed(heap', o)
      BY <2>6, <3>2, OthersKept
    <3>4. Items(o, held') = Items(o, held)
      BY <2>3, <2>4, <2>5, <3>2, OthersItems
    <3> QED BY <3>1, <3>3, <3>4
  <2>9. \A u \in Names : Housed(heap', lists'[u])
    <3> TAKE u \in Names
    <3>1. CASE u = v
      BY <1>3, <2>7, <2>8, <3>1
    <3>2. CASE u = w
      BY <2>3, <2>7, <3>2
    <3>3. CASE u \notin {v, w}
      BY <2>7, <2>8, <3>3
    <3> QED BY <3>1, <3>2, <3>3
  <2>10. \A u, z \in Names : u # z => Storage(lists'[u]) \intersect Storage(lists'[z]) = {}
    BY <2>2, <2>3, <2>7
  <2>11. UsedBlocks(heap') = UsedBlocks(heap) \ Storage(lists[v])
    BY <2>6 DEF Swaps
  <2>12. UsedBlocks(heap) \ Storage(lists[v]) = UNION {Storage(lists[u]) : u \in Names \ {v}}
    BY <2>2
  <2>13. UNION {Storage(lists'[u]) : u \in Names} = UNION {Storage(lists[u]) : u \in Names \ {v}}
    <3>1. ASSUME NEW b, NEW u \in Names, b \in Storage(lists'[u])
          PROVE  \E z \in Names \ {v} : b \in Storage(lists[z])
      BY <1>3, <2>3, <2>7, <3>1
    <3>2. ASSUME NEW b, NEW u \in Names \ {v}, b \in Storage(lists[u])
          PROVE  \E z \in Names : b \in Storage(lists'[z])
      BY <2>7, <3>2
    <3> QED BY <3>1, <3>2
  <2>14. Good(heap')
    BY <2>6 DEF Swaps
  <2>15. ListInv'
    BY <1>1, <2>7, <2>9, <2>10, <2>11, <2>12, <2>13, <2>14 DEF ListInv, Owners
  <2>16. ItemsOf' = [ItemsOf EXCEPT ![v] = ItemsOf[w], ![w] = <<>>]
    <3> DEFINE E == [ItemsOf EXCEPT ![v] = ItemsOf[w], ![w] = <<>>]
    <3>1. E = [u \in Names |-> E[u]] /\ ItemsOf' = [u \in Names |-> Items(lists'[u], held')]
      BY DEF ItemsOf
    <3>2. ASSUME NEW u \in Names PROVE E[u] = Items(lists'[u], held')
      <4>1. CASE u = v
        BY <1>3, <2>7, <2>8, <4>1 DEF ItemsOf
      <4>2. CASE u = w
        BY <1>3, <2>3, <2>7, <4>2 DEF ItemsOf
      <4>3. CASE u \notin {v, w}
        BY <2>7, <2>8, <4>3 DEF ItemsOf
      <4> QED BY <4>1, <4>2, <4>3
    <3> HIDE DEF E
    <3>3. ItemsOf' = E
      BY <3>1, <3>2
    <3> QED BY <3>3 DEF E
  <2> QED BY <1>3, <2>15, <2>16
<1> QED BY <1>2, <1>3

-----------------------------------------------------------------------------
(* Each operation: the invariant, and the step of TwoSequences it makes *)

LEMMA ListStep ==
    ASSUME ListInv, ListNext
    PROVE  ListInv' /\ Sequences!Next
<1> USE DEF Sequences!Op, Op
<1> PICK v \in Names :
        \/ \E x \in Values : PushBack(v, x)
        \/ \E i \in Indexes : RemoveItem(v, i)
        \/ \E n \in Capacities : Reserve(v, n)
        \/ \E w \in Names : Move(v, w)
        \/ PopBack(v)
        \/ Clear(v)
        \/ Release(v)
  BY Zenon DEF ListNext
<1> DEFINE l == lists[v]
           s == ItemsOf[v]
<1>1. ASSUME last' = Op("out of memory", "", 0), UNCHANGED ItemsOf PROVE Sequences!Next
  <2>1. Sequences!Fail
    BY <1>1 DEF Sequences!Fail, ItemsOf
  <2> QED BY <2>1 DEF Sequences!Next
<1>2. s = Items(l, held)
  BY DEF ItemsOf
<1>3. ASSUME NEW t, SetItems(v, t) PROVE Sequences!Set(v, t)
  BY <1>3 DEF Sequences!Set, SetItems, ItemsOf
<1> HIDE DEF s
<1>4. ASSUME NEW x \in Values, PushBack(v, x) PROVE ListInv' /\ Sequences!Next
  <2> DEFINE r == push_back(heap, held, l, x)
  <2>1. Finish(v, Op("push_back", v, x), r)
    BY <1>4, Zenon DEF PushBack
  <2>2. ~lost
    BY <2>1, Zenon DEF Finish
  <2>3. Good(heap) /\ l \in Lists /\ Housed(heap, l)
    BY <2>2, AtList
  <2>4. r.ok => Gives(r, heap, held, l, Append(s, x))
    <3> HIDE DEF l
    <3> QED BY <1>2, <2>3, Pushed
  <2> HIDE DEF r
  <2>5. /\ ListInv'
        /\ \/ last' = Op("push_back", v, x) /\ SetItems(v, Append(s, x))
           \/ last' = Op("out of memory", "", 0) /\ UNCHANGED ItemsOf
    BY <2>1, <2>4, Finished
  <2>6. ASSUME last' = Op("push_back", v, x), SetItems(v, Append(s, x))
        PROVE  Sequences!Next
    <3>1. Sequences!PushBack(v, x)
      BY <1>3, <2>6 DEF Sequences!PushBack, Sequences!Set, s, ItemsOf
    <3> QED BY <3>1 DEF Sequences!Next
  <2> QED BY <1>1, <2>5, <2>6
<1>5. ASSUME NEW i \in Indexes, RemoveItem(v, i) PROVE ListInv' /\ Sequences!Next
  <2> DEFINE r == remove_at(heap, held, l, i)
             t == IF i < Len(s) THEN RemoveAt(s, i + 1) ELSE s
  <2>1. Finish(v, Op("remove_at", v, i), r)
    BY <1>5, Zenon DEF RemoveItem
  <2>2. ~lost
    BY <2>1, Zenon DEF Finish
  <2>3. Good(heap) /\ l \in Lists /\ Housed(heap, l) /\ i \in Nat
    BY <2>2, AtList, ListsAssumption
  <2>4. Gives(r, heap, held, l, t)
    <3> HIDE DEF l
    <3> QED BY <1>2, <2>3, Removed
  <2> HIDE DEF r, t
  <2>5. /\ ListInv'
        /\ \/ last' = Op("remove_at", v, i) /\ SetItems(v, t)
           \/ last' = Op("out of memory", "", 0) /\ UNCHANGED ItemsOf
    BY <2>1, <2>4, Finished
  <2>6. ASSUME last' = Op("remove_at", v, i), SetItems(v, t)
        PROVE  Sequences!Next
    <3>1. Sequences!RemoveItem(v, i)
      BY <1>3, <2>6 DEF Sequences!RemoveItem, Sequences!Set, t, s, ItemsOf, RemoveAt, Sequences!RemoveAt
    <3> QED BY <3>1 DEF Sequences!Next
  <2> QED BY <1>1, <2>5, <2>6
<1>6. ASSUME NEW n \in Capacities, Reserve(v, n) PROVE ListInv' /\ Sequences!Next
  <2> DEFINE r == reserve(heap, held, l, n)
  <2>1. Finish(v, Op("reserve", v, n), r)
    BY <1>6, Zenon DEF Reserve
  <2>2. ~lost
    BY <2>1, Zenon DEF Finish
  <2>3. Good(heap) /\ l \in Lists /\ Housed(heap, l) /\ n \in Nat /\ ItemSize * n <= Modulus - Align
    BY <2>2, AtList, ListsAssumption
  <2>4. r.ok => Gives(r, heap, held, l, s)
    <3> HIDE DEF l
    <3> QED BY <1>2, <2>3, Reserved
  <2> HIDE DEF r
  <2>5. /\ ListInv'
        /\ \/ last' = Op("reserve", v, n) /\ SetItems(v, s)
           \/ last' = Op("out of memory", "", 0) /\ UNCHANGED ItemsOf
    BY <2>1, <2>4, Finished
  <2>6. ASSUME last' = Op("reserve", v, n), SetItems(v, s)
        PROVE  Sequences!Next
    <3>1. ItemsOf = [w \in Names |-> ItemsOf[w]]
      BY DEF ItemsOf
    <3>2. UNCHANGED ItemsOf
      BY <2>6, <3>1 DEF SetItems, s
    <3>3. Sequences!Reserve(v, n)
      BY <2>6, <3>2 DEF Sequences!Reserve, ItemsOf
    <3> QED BY <3>3 DEF Sequences!Next
  <2> QED BY <1>1, <2>5, <2>6
<1>7. ASSUME NEW w \in Names, Move(v, w) PROVE ListInv' /\ Sequences!Next
  <2>1. /\ ListInv'
        /\ v = w => UNCHANGED ItemsOf
        /\ v # w => ItemsOf' = [ItemsOf EXCEPT ![v] = ItemsOf[w], ![w] = <<>>]
    BY <1>7, MoveKeeps
  <2>2. last' = Op("move", v, w)
    BY <1>7 DEF Move
  <2>3. Sequences!Move(v, w)
    BY <2>1, <2>2 DEF Sequences!Move, ItemsOf
  <2> QED BY <2>1, <2>3 DEF Sequences!Next
<1>8. ASSUME PopBack(v) PROVE ListInv' /\ Sequences!Next
  <2> DEFINE r == pop_back(heap, held, l)
             t == IF s = <<>> THEN <<>> ELSE Front(s)
  <2>1. Finish(v, Op("pop_back", v, 0), r)
    BY <1>8, Zenon DEF PopBack
  <2>2. ~lost
    BY <2>1, Zenon DEF Finish
  <2>3. Good(heap) /\ l \in Lists /\ Housed(heap, l)
    BY <2>2, AtList
  <2>4. Gives(r, heap, held, l, t)
    <3> HIDE DEF l
    <3> QED BY <1>2, <2>3, Popped
  <2> HIDE DEF r, t
  <2>5. /\ ListInv'
        /\ \/ last' = Op("pop_back", v, 0) /\ SetItems(v, t)
           \/ last' = Op("out of memory", "", 0) /\ UNCHANGED ItemsOf
    BY <2>1, <2>4, Finished
  <2>6. ASSUME last' = Op("pop_back", v, 0), SetItems(v, t)
        PROVE  Sequences!Next
    <3>1. Sequences!PopBack(v)
      BY <1>3, <2>6 DEF Sequences!PopBack, Sequences!Set, t, s, ItemsOf, Front, Sequences!Front
    <3> QED BY <3>1 DEF Sequences!Next
  <2> QED BY <1>1, <2>5, <2>6
<1>9. ASSUME Clear(v) PROVE ListInv' /\ Sequences!Next
  <2> DEFINE r == clear(heap, held, l)
  <2>1. Finish(v, Op("clear", v, 0), r)
    BY <1>9, Zenon DEF Clear
  <2>2. ~lost
    BY <2>1, Zenon DEF Finish
  <2>3. Good(heap) /\ l \in Lists /\ Housed(heap, l)
    BY <2>2, AtList
  <2>4. Gives(r, heap, held, l, <<>>)
    <3> HIDE DEF l
    <3> QED BY <2>3, Cleared
  <2> HIDE DEF r
  <2>5. /\ ListInv'
        /\ \/ last' = Op("clear", v, 0) /\ SetItems(v, <<>>)
           \/ last' = Op("out of memory", "", 0) /\ UNCHANGED ItemsOf
    BY <2>1, <2>4, Finished
  <2>6. ASSUME last' = Op("clear", v, 0), SetItems(v, <<>>)
        PROVE  Sequences!Next
    <3>1. Sequences!Empty(v)
      BY <1>3, <2>6 DEF Sequences!Empty, Sequences!Set
    <3> QED BY <3>1 DEF Sequences!Next
  <2> QED BY <1>1, <2>5, <2>6
<1>10. ASSUME Release(v) PROVE ListInv' /\ Sequences!Next
  <2> DEFINE r == release(heap, held, l)
  <2>1. Finish(v, Op("release", v, 0), r)
    BY <1>10, Zenon DEF Release
  <2>2. ~lost
    BY <2>1, Zenon DEF Finish
  <2>3. Good(heap) /\ l \in Lists /\ Housed(heap, l)
    BY <2>2, AtList
  <2>4. Gives(r, heap, held, l, <<>>)
    <3> HIDE DEF l
    <3> QED BY <2>3, Released
  <2> HIDE DEF r
  <2>5. /\ ListInv'
        /\ \/ last' = Op("release", v, 0) /\ SetItems(v, <<>>)
           \/ last' = Op("out of memory", "", 0) /\ UNCHANGED ItemsOf
    BY <2>1, <2>4, Finished
  <2>6. ASSUME last' = Op("release", v, 0), SetItems(v, <<>>)
        PROVE  Sequences!Next
    <3>1. Sequences!Empty(v)
      BY <1>3, <2>6 DEF Sequences!Empty, Sequences!Set
    <3> QED BY <3>1 DEF Sequences!Next
  <2> QED BY <1>1, <2>5, <2>6
<1> QED BY <1>4, <1>5, <1>6, <1>7, <1>8, <1>9, <1>10

LEMMA ListsOrNothing == [LibraryNext]_libraryVars => ListNext \/ UNCHANGED listVars
BY DEF LibraryNext, libraryVars

LEMMA ListInvStep == ListInv /\ [LibraryNext]_libraryVars => ListInv'
<1> SUFFICES ASSUME ListInv, [LibraryNext]_libraryVars PROVE ListInv'
  OBVIOUS
<1>1. CASE ListNext
  BY <1>1, ListStep
<1>2. CASE UNCHANGED listVars
  BY <1>2 DEF listVars, ListInv, Owners
<1> QED BY <1>1, <1>2, ListsOrNothing

LEMMA ListInvariant == LibrarySpec => []ListInv
<1>1. LibraryInit => ListInv
  BY ListInvInit DEF LibraryInit
<1> QED BY <1>1, ListInvStep, PTL DEF LibrarySpec

\* Each list has its own storage, which is large enough for what is in it and
\* for what push_back puts there next, and no block is left behind, after any
\* push_back, reserve, remove_at, release and move of any lists.
THEOREM StorageHasOneOwner == LibrarySpec => []StorageIsOwned
<1>1. ListInv => StorageIsOwned
  <2> SUFFICES ASSUME ListInv, ~lost
               PROVE  /\ UsedBlocks(heap) = {lists[v].data - Header : v \in HasStorage}
                      /\ \A v, w \in HasStorage : lists[v].data = lists[w].data => v = w
                      /\ \A v \in Names :
                          /\ lists[v].len <= lists[v].cap
                          /\ lists[v].cap > 0 =>
                               heap[lists[v].data - Header].size >= ItemSize * lists[v].cap
    BY DEF StorageIsOwned, OwnsExactly, ItemsFit
  <2>1. /\ lists \in [Names -> Lists]
        /\ \A v \in Names : Housed(heap, lists[v])
        /\ UsedBlocks(heap) = UNION {Storage(lists[v]) : v \in Names}
        /\ \A v, w \in Names : v # w => Storage(lists[v]) \intersect Storage(lists[w]) = {}
    BY DEF ListInv, Owners
  <2>2. \A v \in Names : Storage(lists[v]) = IF v \in HasStorage THEN {lists[v].data - Header} ELSE {}
    BY DEF HasStorage, Storage
  <2>3. HasStorage \subseteq Names
    BY DEF HasStorage
  <2>4. UsedBlocks(heap) = {lists[v].data - Header : v \in HasStorage}
    BY <2>1, <2>2, <2>3
  <2>5. ASSUME NEW v \in HasStorage, NEW w \in HasStorage, lists[v].data = lists[w].data
        PROVE  v = w
    BY <2>1, <2>2, <2>3, <2>5
  <2>6. ASSUME NEW v \in Names
        PROVE  /\ lists[v].len <= lists[v].cap
               /\ lists[v].cap > 0 =>
                    heap[lists[v].data - Header].size >= ItemSize * lists[v].cap
    <3>1. Housed(heap, lists[v]) /\ lists[v].cap \in Nat
      BY <2>1 DEF Lists
    <3> QED BY <3>1 DEF Housed
  <2> QED BY <2>4, <2>5, <2>6
<1> QED BY <1>1, ListInvariant, PTL

\* What the cells behind each list's data hold is a sequence, one under each
\* name, and none of them changes with another: grow has copied every cell
\* before it frees the old block, remove_at moves those behind the index down
\* and leaves the others, and the two moves take the cells with the pointer.
THEOREM ListsAreSequences == LibrarySpec => ImplementsSequences
<1>1. LibraryInit => Sequences!Init
  <2> SUFFICES ASSUME LibraryInit PROVE Sequences!Init
    OBVIOUS
  <2>1. lists = [v \in Names |-> EmptyList] /\ last = Op("none", "", 0)
    BY DEF LibraryInit, ListInit
  <2>2. \A v \in Names : Items(lists[v], held) = <<>>
    BY <2>1, EmptyHoused
  <2> QED BY <2>1, <2>2 DEF Sequences!Init, Op, Sequences!Op
<1>2. ListInv /\ [LibraryNext]_libraryVars => [Sequences!Next]_(Sequences!vars)
  <2>1. UNCHANGED listVars => UNCHANGED Sequences!vars
    BY DEF listVars, Sequences!vars
  <2> QED BY <2>1, ListStep, ListsOrNothing
<1> QED BY <1>1, <1>2, ListInvariant, PTL DEF LibrarySpec, ImplementsSequences, Sequences!Spec


-----------------------------------------------------------------------------
(* The Strings of the commands *)

\* An element of the list: a String.
Elements == [data : Int, len : Nat]
Headers(ss) == {p - Header : p \in ss}

\* On heap h, list l and the characters ss are all there is; the elements of
\* the list have theirs among ss, each its own, and room in them.
Accounts(h, cs, l, ss) ==
    /\ Good(h) /\ l \in Lists /\ Housed(h, l)
    /\ Items(l, cs) \in Seq(Elements)
    /\ ss \subseteq Int /\ Null \notin ss /\ l.data \notin ss
    /\ UsedBlocks(h) = Headers(ss) \union Storage(l)
    /\ \A i \in DOMAIN Items(l, cs) :
        /\ Items(l, cs)[i].data \in ss
        /\ h[Items(l, cs)[i].data - Header].size >= Items(l, cs)[i].len + 1
    /\ \A i, j \in DOMAIN Items(l, cs) : Items(l, cs)[i].data = Items(l, cs)[j].data => i = j

\* A header belongs to one pointer.
LEMMA HeaderOf ==
    ASSUME NEW ss, ss \subseteq Int, NEW p \in Int
    PROVE  /\ p - Header \in Headers(ss) <=> p \in ss
           /\ Headers(ss \union {p}) = Headers(ss) \union {p - Header}
           /\ Headers(ss \ {p}) = Headers(ss) \ {p - Header}
<1>1. Header \in Int
  BY HeapAssumption
<1>2. ASSUME NEW q \in ss, q - Header = p - Header PROVE q = p
  BY <1>1, <1>2
<1>3. p - Header \in Headers(ss) <=> p \in ss
  BY <1>2 DEF Headers
<1>4. Headers(ss \union {p}) = Headers(ss) \union {p - Header}
  BY DEF Headers
<1>5. Headers(ss \ {p}) = Headers(ss) \ {p - Header}
  BY <1>2 DEF Headers
<1> QED BY <1>3, <1>4, <1>5

\* The blocks of a list are not those of the characters.
LEMMA Apart ==
    ASSUME NEW h, NEW cs, NEW l, NEW ss, Accounts(h, cs, l, ss)
    PROVE  /\ Headers(ss) \intersect Storage(l) = {}
           /\ Items(l, cs) \in Seq(Elements) /\ l.data \in Int
<1>1. l.data \in Int /\ Items(l, cs) \in Seq(Elements) /\ ss \subseteq Int /\ l.data \notin ss
  BY DEF Accounts, Lists
<1>2. l.data - Header \notin Headers(ss)
  BY <1>1, HeaderOf
<1> QED BY <1>1, <1>2 DEF Storage

\* new characters
LEMMA NewChars ==
    ASSUME NEW h, NEW cs, NEW l, NEW ss, Accounts(h, cs, l, ss), NEW n \in Sizes,
           NEW r, r = kmalloc(h, n), r.ptr # Null
    PROVE  /\ Accounts(r.heap, cs, l, ss \union {r.ptr})
           /\ r.ptr \in Int /\ r.ptr \notin ss
           /\ r.heap[r.ptr - Header].size >= n
           /\ \A p \in ss : r.heap[p - Header].size = h[p - Header].size
<1>1. /\ Good(h) /\ l \in Lists /\ Housed(h, l)
      /\ ss \subseteq Int /\ Null \notin ss /\ l.data \notin ss
      /\ UsedBlocks(h) = Headers(ss) \union Storage(l)
  BY DEF Accounts
<1>2. /\ r.ptr \in Int /\ Swaps(h, r.heap, {}, {r.ptr - Header})
      /\ r.heap[r.ptr - Header].size >= n
  BY <1>1, Allocated DEF Sizes
<1>3. r.ptr - Header \notin UsedBlocks(h)
  BY <1>2 DEF Swaps
<1>4. Good(r.heap) /\ UsedBlocks(r.heap) = UsedBlocks(h) \union {r.ptr - Header}
  BY <1>2 DEF Swaps
<1>5. r.ptr \notin ss /\ Headers(ss \union {r.ptr}) = Headers(ss) \union {r.ptr - Header}
  BY <1>1, <1>2, <1>3, HeaderOf
<1>6. r.ptr # l.data
  BY <1>1, <1>3 DEF Storage
<1>7. Housed(r.heap, l)
  BY <1>1, <1>2, OthersKept
<1>8. \A p \in ss : r.heap[p - Header].size = h[p - Header].size
  <2> TAKE p \in ss
  <2>1. p - Header \in UsedBlocks(h)
    BY <1>1 DEF Headers
  <2> QED BY <1>2, <2>1 DEF Swaps
<1>9. UsedBlocks(r.heap) = Headers(ss \union {r.ptr}) \union Storage(l)
  BY <1>1, <1>4, <1>5
<1>10. /\ \A i \in DOMAIN Items(l, cs) :
           /\ Items(l, cs)[i].data \in ss \union {r.ptr}
           /\ r.heap[Items(l, cs)[i].data - Header].size >= Items(l, cs)[i].len + 1
       /\ \A i, j \in DOMAIN Items(l, cs) : Items(l, cs)[i].data = Items(l, cs)[j].data => i = j
  BY <1>8 DEF Accounts
<1>11. Accounts(r.heap, cs, l, ss \union {r.ptr})
  BY <1>1, <1>2, <1>4, <1>6, <1>7, <1>9, <1>10 DEF Accounts
<1> QED BY <1>2, <1>5, <1>8, <1>11

\* delete[] temp
LEMMA Dropped ==
    ASSUME NEW h, NEW cs, NEW l, NEW ss, Accounts(h, cs, l, ss), NEW p \in ss,
           \A i \in DOMAIN Items(l, cs) : Items(l, cs)[i].data # p,
           NEW k, k = kfree(h, p)
    PROVE  /\ Accounts(k, cs, l, ss \ {p})
           /\ \A q \in ss \ {p} : k[q - Header].size = h[q - Header].size
<1>1. /\ Good(h) /\ l \in Lists /\ Housed(h, l)
      /\ ss \subseteq Int /\ Null \notin ss /\ l.data \notin ss
      /\ UsedBlocks(h) = Headers(ss) \union Storage(l)
  BY DEF Accounts
<1>2. p \in Int /\ p - Header \in UsedBlocks(h)
  BY <1>1, HeaderOf
<1>3. Swaps(h, k, {p - Header}, {})
  BY <1>1, <1>2, Freed
<1>4. Headers(ss \ {p}) = Headers(ss) \ {p - Header} /\ p - Header \notin Storage(l)
  <2>1. p - Header \in Headers(ss)
    BY DEF Headers
  <2> QED BY <1>1, <1>2, <2>1, HeaderOf, Apart
<1>5. Housed(k, l)
  BY <1>1, <1>3, <1>4, OthersKept
<1>6. Good(k) /\ UsedBlocks(k) = Headers(ss \ {p}) \union Storage(l)
  BY <1>1, <1>3, <1>4 DEF Swaps
<1>7. \A q \in ss \ {p} : k[q - Header].size = h[q - Header].size
  <2> TAKE q \in ss \ {p}
  <2>1. q - Header \in Headers(ss \ {p})
    BY DEF Headers
  <2>2. q - Header \in UsedBlocks(h) \ {p - Header}
    BY <1>1, <1>4, <2>1
  <2> QED BY <1>3, <2>2 DEF Swaps
<1>8. /\ \A i \in DOMAIN Items(l, cs) :
          /\ Items(l, cs)[i].data \in ss \ {p}
          /\ k[Items(l, cs)[i].data - Header].size >= Items(l, cs)[i].len + 1
      /\ \A i, j \in DOMAIN Items(l, cs) : Items(l, cs)[i].data = Items(l, cs)[j].data => i = j
  BY <1>7 DEF Accounts
<1>9. Accounts(k, cs, l, ss \ {p})
  BY <1>1, <1>5, <1>6, <1>8 DEF Accounts
<1> QED BY <1>7, <1>9

\* push_back(part)
LEMMA PartPushed ==
    ASSUME NEW h, NEW cs, NEW l, NEW ss, Accounts(h, cs, l, ss), NEW x \in Elements, x.data \in ss,
           h[x.data - Header].size >= x.len + 1,
           \A i \in DOMAIN Items(l, cs) : Items(l, cs)[i].data # x.data,
           NEW r, r = push_back(h, cs, l, x), r.ok
    PROVE  Accounts(r.heap, r.cells, r.list, ss)
<1> DEFINE m == r.list
           k == r.heap
           ds == r.cells
<1>1. /\ Good(h) /\ l \in Lists /\ Housed(h, l)
      /\ ss \subseteq Int /\ Null \notin ss /\ l.data \notin ss
      /\ UsedBlocks(h) = Headers(ss) \union Storage(l)
  BY DEF Accounts
<1>2. m \in Lists /\ Items(m, ds) = Append(Items(l, cs), x) /\ Keeps(h, cs, l, k, ds, m)
  <2>1. Gives(r, h, cs, l, Append(Items(l, cs), x))
    BY <1>1, Pushed
  <2> QED BY <2>1 DEF Gives
<1> HIDE DEF m, k, ds
<1>3. Swaps(h, k, Storage(l), Storage(m)) /\ Housed(k, m)
  BY <1>2 DEF Keeps
<1>4. Headers(ss) \intersect Storage(l) = {} /\ Items(l, cs) \in Seq(Elements)
  BY Apart
<1>5. UsedBlocks(h) \ Storage(l) = Headers(ss)
  BY <1>1, <1>4
<1>6. /\ Good(k) /\ UsedBlocks(k) = Headers(ss) \union Storage(m)
      /\ Storage(m) \intersect Headers(ss) = {}
  BY <1>3, <1>5 DEF Swaps
<1>7. \A q \in ss : k[q - Header].size = h[q - Header].size
  BY <1>3, <1>5 DEF Swaps, Headers
<1>8. m.data \notin ss
  <2>1. CASE m.data = Null
    BY <1>1, <2>1
  <2>2. CASE m.data # Null
    BY <1>6, <2>2 DEF Storage, Headers
  <2> QED BY <2>1, <2>2
<1>9. PICK n : n = Len(Items(l, cs))
  OBVIOUS
<1>10. /\ n \in Nat /\ DOMAIN Items(l, cs) = 1 .. n /\ DOMAIN Items(m, ds) = 1 .. n + 1
       /\ Items(m, ds)[n + 1] = x /\ \A i \in 1 .. n : Items(m, ds)[i] = Items(l, cs)[i]
  BY <1>2, <1>4, <1>9, AppendProperties, LenProperties
<1>11. ASSUME NEW i \in DOMAIN Items(m, ds)
       PROVE  /\ Items(m, ds)[i].data \in ss
              /\ k[Items(m, ds)[i].data - Header].size >= Items(m, ds)[i].len + 1
  <2>1. CASE i = n + 1
    BY <1>7, <1>10, <2>1
  <2>2. CASE i \in 1 .. n
    <3>1. /\ Items(l, cs)[i].data \in ss
          /\ h[Items(l, cs)[i].data - Header].size >= Items(l, cs)[i].len + 1
      BY <1>10, <2>2 DEF Accounts
    <3> QED BY <1>7, <1>10, <2>2, <3>1
  <2> QED BY <1>10, <2>1, <2>2
<1>12. ASSUME NEW i \in DOMAIN Items(m, ds), NEW j \in DOMAIN Items(m, ds),
              Items(m, ds)[i].data = Items(m, ds)[j].data
       PROVE  i = j
  <2>1. CASE i \in 1 .. n /\ j \in 1 .. n
    <3>1. Items(l, cs)[i].data = Items(l, cs)[j].data /\ i \in DOMAIN Items(l, cs) /\ j \in DOMAIN Items(l, cs)
      BY <1>10, <1>12, <2>1
    <3> QED BY <3>1 DEF Accounts
  <2>2. CASE i = n + 1 /\ j \in 1 .. n
    BY <1>10, <1>12, <2>2
  <2>3. CASE i \in 1 .. n /\ j = n + 1
    BY <1>10, <1>12, <2>3
  <2> QED BY <1>10, <2>1, <2>2, <2>3
<1>13. Accounts(k, ds, m, ss)
  BY <1>1, <1>2, <1>3, <1>6, <1>8, <1>11, <1>12 DEF Accounts
<1> QED BY <1>13 DEF m, k, ds

\* The list's destructor.
LEMMA PartsReleased ==
    ASSUME NEW h, NEW cs, NEW l, NEW ss, Accounts(h, cs, l, ss), NEW r, r = release(h, cs, l)
    PROVE  r.list = EmptyList /\ Accounts(r.heap, r.cells, EmptyList, ss)
<1>1. /\ Good(h) /\ l \in Lists /\ Housed(h, l)
      /\ ss \subseteq Int /\ Null \notin ss
      /\ UsedBlocks(h) = Headers(ss) \union Storage(l)
  BY DEF Accounts
<1>2. r.list = EmptyList /\ Keeps(h, cs, l, r.heap, r.cells, EmptyList)
  <2>1. r.list = EmptyList /\ Gives(r, h, cs, l, <<>>)
    BY <1>1, Released
  <2> QED BY <2>1 DEF Gives
<1>3. /\ EmptyList \in Lists /\ Items(EmptyList, r.cells) = <<>> /\ EmptyList.data = Null
      /\ Storage(EmptyList) = {} /\ Housed(r.heap, EmptyList)
  BY EmptyHoused
<1>4. Headers(ss) \intersect Storage(l) = {}
  BY Apart
<1>5. Good(r.heap) /\ UsedBlocks(r.heap) = Headers(ss)
  BY <1>1, <1>2, <1>3, <1>4 DEF Keeps, Swaps
<1>6. DOMAIN <<>> = {}
  OBVIOUS
<1> QED BY <1>1, <1>2, <1>3, <1>5, <1>6 DEF Accounts

\* What a command allocates has a size.
LEMMA SizesTyped ==
    ASSUME NEW l \in Lines
    PROVE  SizesOf(l) \in Seq(Sizes)
<1> DEFINE words == l.words
           n == Len(words)
           text == Joined(SubSeq(words, 3, Len(words)))
<1>1. /\ words \in Seq(Nat)
      /\ \A m \in Range(words) \union {Joined(words), text} : m \in Nat /\ m + 1 \in Sizes
  BY LinesAssumption
<1>2. n \in Nat /\ \A i \in 1 .. n : words[i] \in Range(words)
  BY <1>1, LenProperties DEF Range
<1>3. \A i \in 1 .. n : words[i] + 1 \in Sizes
  BY <1>1, <1>2
<1>4. text \in Nat /\ text + 1 \in Sizes /\ 1 \in Sizes
  <2>1. text \in Nat /\ text + 1 \in Sizes
    BY <1>1
  <2> HIDE DEF text
  <2> QED BY <2>1, HeapAssumption DEF Sizes
<1> HIDE DEF words, n, text
<1>5. SizesOf(l) =
        CASE l.cmd = "write" /\ n >= 3 -> <<1>> \o AppendSizes(text)
          [] l.cmd = "touch" -> IF n > 1 THEN <<1, words[2] + 1>> ELSE <<1>>
          [] l.cmd = "rm" -> [i \in 1 .. n - 1 |-> words[i + 1] + 1]
          [] OTHER -> <<>>
  BY Zenon DEF SizesOf, words, n, text
<1>6. <<1>> \o AppendSizes(text) \in Seq(Sizes)
  <2>1. ASSUME NEW i \in 1 .. text PROVE i + 1 \in Sizes
    BY <1>4, HeapAssumption DEF Sizes
  <2>2. AppendSizes(text) \in Seq(Sizes)
    BY <1>4, <2>1 DEF AppendSizes
  <2>3. <<1>> \in Seq(Sizes)
    BY <1>4
  <2> QED BY <2>2, <2>3, ConcatProperties
<1>7. (IF n > 1 THEN <<1, words[2] + 1>> ELSE <<1>>) \in Seq(Sizes)
  <2>1. CASE n > 1
    <3>1. words[2] + 1 \in Sizes
      BY <1>2, <1>3, <2>1
    <3> QED BY <1>4, <2>1, <3>1
  <2>2. CASE ~(n > 1)
    BY <1>4, <2>2
  <2> QED BY <2>1, <2>2
<1>8. [i \in 1 .. n - 1 |-> words[i + 1] + 1] \in Seq(Sizes)
  <2> DEFINE t == [i \in 1 .. n - 1 |-> words[i + 1] + 1]
  <2>1. CASE n = 0
    <3>1. 1 .. n - 1 = 1 .. 0 /\ \A i \in 1 .. 0 : FALSE
      BY <2>1
    <3>2. t = [i \in 1 .. 0 |-> words[i + 1] + 1]
      BY <3>1
    <3>3. [i \in 1 .. 0 |-> words[i + 1] + 1] \in Seq(Sizes)
      BY <3>1
    <3> QED BY <3>2, <3>3
  <2>2. CASE n # 0
    <3>1. n - 1 \in Nat /\ \A i \in 1 .. n - 1 : i + 1 \in 1 .. n
      BY <1>2, <2>2
    <3>2. \A i \in 1 .. n - 1 : words[i + 1] + 1 \in Sizes
      BY <1>3, <3>1
    <3> QED BY <3>1, <3>2
  <2> QED BY <2>1, <2>2
<1>9. <<>> \in Seq(Sizes)
  OBVIOUS
<1> QED BY <1>5, <1>6, <1>7, <1>8, <1>9

\* The inductive invariant, while memory lasts.
MemInv ==
    pc # "lost" =>
        /\ Accounts(memory, cells, parts, strings)
        /\ next \in Nat
        /\ todo \in Seq(Sizes)
        /\ pc \in {"split", "run"} => line \in Lines

LEMMA MemInvInit == StringsInit => MemInv
<1> SUFFICES ASSUME StringsInit PROVE MemInv
  OBVIOUS
<1>1. /\ memory = NoBlocks /\ parts = EmptyList /\ strings = {}
      /\ next = 0 /\ todo = <<>> /\ pc = "prompt"
  BY DEF StringsInit
<1>2. Good(memory) /\ UsedBlocks(memory) = {}
  BY <1>1, BlocksGood
<1>3. /\ EmptyList \in Lists /\ Items(EmptyList, cells) = <<>> /\ EmptyList.data = Null
      /\ Storage(EmptyList) = {} /\ Housed(memory, EmptyList)
  BY EmptyHoused
<1>4. DOMAIN <<>> = {} /\ Headers({}) = {} /\ <<>> \in Seq(Sizes)
  BY DEF Headers
<1>5. Accounts(memory, cells, parts, strings)
  BY <1>1, <1>2, <1>3, <1>4 DEF Accounts
<1> QED BY <1>1, <1>4, <1>5 DEF MemInv

\* What a line and its words ask for.
LEMMA LineSizes ==
    ASSUME NEW l \in Lines
    PROVE  /\ Joined(l.words) \in Nat /\ Joined(l.words) + 1 \in Sizes
           /\ Len(l.words) \in Nat
           /\ \A i \in 1 .. Len(l.words) : l.words[i] \in Nat /\ l.words[i] + 1 \in Sizes
<1>1. /\ l.words \in Seq(Nat)
      /\ \A m \in Range(l.words) \union {Joined(l.words)} : m \in Nat /\ m + 1 \in Sizes
  BY LinesAssumption
<1>2. Len(l.words) \in Nat /\ \A i \in 1 .. Len(l.words) : l.words[i] \in Range(l.words)
  BY <1>1, LenProperties DEF Range
<1>3. Joined(l.words) \in Range(l.words) \union {Joined(l.words)}
  OBVIOUS
<1> QED BY <1>1, <1>2, <1>3

\* SplitWord, once both copies of the segment have been asked for.
AfterCopies(n, temp, chars) ==
    IF Null \in {temp.ptr, chars.ptr} THEN
        /\ pc' = "lost"
        /\ UNCHANGED <<memory, cells, parts, strings>>
    ELSE \E piece \in {[data |-> chars.ptr, len |-> n]} :
         \E freed \in {DropTemp(chars.heap, temp.ptr)} :
         \E pushed \in {push_back(freed, cells, parts, piece)} :
            /\ cells' = pushed.cells
            /\ memory' = DestroyString(pushed.heap, piece)
            /\ parts' = pushed.list
            /\ pc' = IF pushed.ok THEN "split" ELSE "lost"
            /\ strings' = strings \union {piece.data}

LEMMA SplitWordKeeps ==
    ASSUME MemInv, SplitWord
    PROVE  MemInv'
<1>1. /\ pc = "split" /\ next < Len(line.words) /\ next' = next + 1
      /\ UNCHANGED <<line, command, todo>>
  BY DEF SplitWord
<1>2. /\ Accounts(memory, cells, parts, strings) /\ next \in Nat /\ todo \in Seq(Sizes) /\ line \in Lines
  BY <1>1 DEF MemInv
<1> PICK n \in {line.words[next + 1]} : \E temp \in {kmalloc(memory, n + 1)} :
      \E chars \in {NewString(temp.heap, n)} : AfterCopies(n, temp, chars)
  BY Zenon DEF SplitWord, AfterCopies
<1> PICK temp \in {kmalloc(memory, n + 1)} :
      \E chars \in {NewString(temp.heap, n)} : AfterCopies(n, temp, chars)
  OBVIOUS
<1>3. PICK chars \in {NewString(temp.heap, n)} : AfterCopies(n, temp, chars)
  OBVIOUS
<1>4. CASE Null \in {temp.ptr, chars.ptr}
  <2>1. pc' = "lost"
    BY <1>3, <1>4 DEF AfterCopies
  <2> QED BY <2>1 DEF MemInv
<1>5. CASE Null \notin {temp.ptr, chars.ptr}
  <2>1. PICK piece, freed, pushed :
          /\ piece = [data |-> chars.ptr, len |-> n]
          /\ freed = kfree(chars.heap, temp.ptr)
          /\ pushed = push_back(freed, cells, parts, piece)
          /\ memory' = pushed.heap /\ cells' = pushed.cells /\ parts' = pushed.list
          /\ pc' = IF pushed.ok THEN "split" ELSE "lost"
          /\ strings' = strings \union {piece.data}
    BY <1>3, <1>5 DEF AfterCopies, DropTemp, DestroyString
  <2>2. n \in Nat /\ n + 1 \in Sizes
    <3>1. next + 1 \in 1 .. Len(line.words)
      BY <1>1, <1>2, LineSizes
    <3> QED BY <1>2, <1>3, <3>1, LineSizes
  <2>3. CASE ~pushed.ok
    <3>1. pc' = "lost"
      BY <2>1, <2>3
    <3> QED BY <3>1 DEF MemInv
  <2>4. CASE pushed.ok
    <3> DEFINE s1 == strings \union {temp.ptr}
               s2 == s1 \union {chars.ptr}
               s3 == strings \union {chars.ptr}
               size == n + 1
    <3>0. temp = kmalloc(memory, size) /\ chars = kmalloc(temp.heap, size) /\ size \in Sizes
      BY <1>3, <2>2 DEF NewString
    <3>1. temp.ptr # Null /\ chars.ptr # Null
      BY <1>5
    <3> HIDE DEF size
    <3>2. /\ Accounts(temp.heap, cells, parts, s1) /\ temp.ptr \in Int /\ temp.ptr \notin strings
      BY <1>2, <3>0, <3>1, NewChars
    <3> HIDE DEF s1
    <3>3. /\ Accounts(chars.heap, cells, parts, s2)
          /\ chars.ptr \in Int /\ chars.ptr \notin s1
          /\ chars.heap[chars.ptr - Header].size >= size
      BY <3>0, <3>1, <3>2, NewChars
    <3>4. temp.ptr \in s2 /\ chars.ptr # temp.ptr /\ chars.ptr \notin strings
      BY <3>3 DEF s1
    <3>5. \A i \in DOMAIN Items(parts, cells) : Items(parts, cells)[i].data \in strings
      BY <1>2 DEF Accounts
    <3>6. \A i \in DOMAIN Items(parts, cells) :
            Items(parts, cells)[i].data # temp.ptr /\ Items(parts, cells)[i].data # chars.ptr
      BY <3>2, <3>4, <3>5
    <3>7. s2 \ {temp.ptr} = s3
      BY <3>2, <3>4 DEF s1
    <3>8. chars.ptr \in s2 \ {temp.ptr}
      BY <3>4
    <3> HIDE DEF s2
    <3>9. /\ Accounts(freed, cells, parts, s2 \ {temp.ptr})
          /\ \A q \in s2 \ {temp.ptr} : freed[q - Header].size = chars.heap[q - Header].size
      <4>1. PICK p, g, ss : p = temp.ptr /\ g = chars.heap /\ ss = s2
        OBVIOUS
      <4>2. /\ Accounts(g, cells, parts, ss) /\ p \in ss /\ freed = kfree(g, p)
            /\ \A i \in DOMAIN Items(parts, cells) : Items(parts, cells)[i].data # p
        BY <2>1, <3>3, <3>4, <3>6, <4>1
      <4>3. /\ Accounts(freed, cells, parts, ss \ {p})
            /\ \A q \in ss \ {p} : freed[q - Header].size = g[q - Header].size
        BY <4>2, Dropped
      <4> QED BY <4>1, <4>3
    <3>10. Accounts(freed, cells, parts, s3) /\ freed[chars.ptr - Header].size >= size
      BY <3>3, <3>7, <3>8, <3>9
    <3>11. piece \in Elements /\ piece.data = chars.ptr /\ piece.len + 1 = size
      BY <2>1, <2>2, <3>3 DEF Elements, size
    <3>12. piece.data \in s3 /\ strings' = s3
      BY <2>1, <3>11
    <3> HIDE DEF s3
    <3>13. Accounts(memory', cells', parts', s3)
      BY <2>1, <2>4, <3>6, <3>10, <3>11, <3>12, PartPushed
    <3>14. next' \in Nat
      BY <1>1, <1>2
    <3> QED BY <1>1, <1>2, <3>12, <3>13, <3>14 DEF MemInv
  <2> QED BY <2>3, <2>4
<1> QED BY <1>4, <1>5

LEMMA MemInvSteps ==
    ASSUME MemInv, StringsNext
    PROVE  MemInv'
<1>1. ASSUME NEW l \in Lines, ReadLine(l) PROVE MemInv'
  <2> DEFINE r == NewString(memory, Joined(l.words))
             size == Joined(l.words) + 1
  <2>1. /\ pc = "prompt" /\ memory' = r.heap
        /\ pc' = IF r.ptr = Null THEN "lost" ELSE "split"
        /\ line' = l /\ strings' = strings \union {r.ptr}
        /\ UNCHANGED <<cells, next, parts, todo>>
    BY <1>1 DEF ReadLine
  <2>2. Accounts(memory, cells, parts, strings) /\ next \in Nat /\ todo \in Seq(Sizes)
    BY <2>1 DEF MemInv
  <2>3. r = kmalloc(memory, size) /\ size \in Sizes
    BY LineSizes DEF NewString
  <2> HIDE DEF r, size
  <2>4. CASE r.ptr = Null
    <3>1. pc' = "lost"
      BY <2>1, <2>4
    <3> QED BY <3>1 DEF MemInv
  <2>5. CASE r.ptr # Null
    <3>1. Accounts(r.heap, cells, parts, strings \union {r.ptr})
      BY <2>2, <2>3, <2>5, NewChars
    <3>2. Accounts(memory', cells', parts', strings')
      BY <2>1, <3>1
    <3> QED BY <2>1, <2>2, <3>2 DEF MemInv
  <2> QED BY <2>4, <2>5
<1>2. CASE SplitWord
  BY <1>2, SplitWordKeeps
<1>3. CASE RunCommand
  <2>1. /\ pc = "split" /\ pc' = "run"
        /\ UNCHANGED <<memory, cells, line, command, next, parts, strings>>
    BY <1>3 DEF RunCommand
  <2>2. PICK n \in Secrets : todo' = IF line.cmd = "passwd" THEN <<n + 1>> ELSE SizesOf(line)
    BY <1>3 DEF RunCommand
  <2>3. Accounts(memory, cells, parts, strings) /\ next \in Nat /\ line \in Lines
    BY <2>1 DEF MemInv
  <2>4. todo' \in Seq(Sizes)
    <3>1. n + 1 \in Sizes
      BY LinesAssumption
    <3>2. <<n + 1>> \in Seq(Sizes)
      BY <3>1
    <3>3. SizesOf(line) \in Seq(Sizes)
      BY <2>3, SizesTyped
    <3> QED BY <2>2, <3>2, <3>3
  <2>5. Accounts(memory', cells', parts', strings')
    BY <2>1, <2>3
  <2> QED BY <2>1, <2>3, <2>4, <2>5 DEF MemInv
<1>4. CASE Allocate
  <2> DEFINE r == kmalloc(memory, Head(todo))
             size == Head(todo)
  <2>1. /\ pc = "run" /\ todo # <<>> /\ memory' = r.heap
        /\ pc' = IF r.ptr = Null THEN "lost" ELSE "run"
        /\ todo' = Tail(todo) /\ strings' = strings \union {r.ptr}
        /\ UNCHANGED <<cells, line, command, next, parts>>
    BY <1>4 DEF Allocate
  <2>2. /\ Accounts(memory, cells, parts, strings) /\ next \in Nat /\ todo \in Seq(Sizes)
        /\ line \in Lines
    BY <2>1 DEF MemInv
  <2>3. size \in Sizes /\ Tail(todo) \in Seq(Sizes) /\ r = kmalloc(memory, size)
    BY <2>1, <2>2, HeadTailProperties
  <2> HIDE DEF r, size
  <2>4. CASE r.ptr = Null
    <3>1. pc' = "lost"
      BY <2>1, <2>4
    <3> QED BY <3>1 DEF MemInv
  <2>5. CASE r.ptr # Null
    <3>1. Accounts(r.heap, cells, parts, strings \union {r.ptr})
      BY <2>2, <2>3, <2>5, NewChars
    <3>2. Accounts(memory', cells', parts', strings')
      BY <2>1, <3>1
    <3> QED BY <2>1, <2>2, <2>3, <3>2 DEF MemInv
  <2> QED BY <2>4, <2>5
<1>5. CASE AskAgain
  <2>1. /\ pc = "run" /\ UNCHANGED <<memory, cells, pc, line, command, next, parts, strings>>
    BY <1>5 DEF AskAgain
  <2>2. PICK m, n \in Secrets : todo' = <<m + 1, n + 1>>
    BY <1>5 DEF AskAgain
  <2>3. todo' \in Seq(Sizes)
    <3>1. m + 1 \in Sizes /\ n + 1 \in Sizes
      BY LinesAssumption
    <3> QED BY <2>2, <3>1
  <2>4. Accounts(memory, cells, parts, strings) /\ next \in Nat /\ line \in Lines
    BY <2>1 DEF MemInv
  <2>5. Accounts(memory', cells', parts', strings')
    BY <2>1, <2>4
  <2> QED BY <2>1, <2>3, <2>4, <2>5 DEF MemInv
<1>6. CASE EndCommand
  <2> DEFINE freed == release(memory, cells, parts)
  <2>1. /\ pc = "run" /\ memory' = freed.heap /\ cells' = freed.cells
        /\ parts' = freed.list
        /\ pc' = "prompt" /\ next' = 0 /\ UNCHANGED <<todo, strings>>
    BY <1>6 DEF EndCommand, DestroyString
  <2>2. Accounts(memory, cells, parts, strings) /\ todo \in Seq(Sizes)
    BY <2>1 DEF MemInv
  <2>3. freed.list = EmptyList /\ Accounts(freed.heap, freed.cells, EmptyList, strings)
    BY <2>2, PartsReleased
  <2> HIDE DEF freed
  <2>4. Accounts(memory', cells', parts', strings')
    BY <2>1, <2>3
  <2> QED BY <2>1, <2>2, <2>4 DEF MemInv
<1> QED BY <1>1, <1>2, <1>3, <1>4, <1>5, <1>6 DEF StringsNext

LEMMA MemInvariant == LibrarySpec => []MemInv
<1>1. LibraryInit => MemInv
  BY MemInvInit DEF LibraryInit
<1>2. MemInv /\ [LibraryNext]_libraryVars => MemInv'
  <2> SUFFICES ASSUME MemInv, [LibraryNext]_libraryVars PROVE MemInv'
    OBVIOUS
  <2>1. StringsNext \/ UNCHANGED stringVars
    BY DEF LibraryNext, libraryVars
  <2>2. CASE UNCHANGED stringVars
    <3>1. UNCHANGED <<memory, cells, pc, line, next, parts, todo, strings>>
      BY <2>2 DEF stringVars
    <3> QED BY <3>1 DEF MemInv
  <2> QED BY <2>1, <2>2, MemInvSteps
<1> QED BY <1>1, <1>2, PTL DEF LibrarySpec

\* Whatever lines are typed, nothing is in use but the characters of the
\* Strings made so far and the cells of the list, and every element of the list
\* has characters of its own, with room for all of them: split's temp and grow
\* leave nothing behind, and no destructor frees what is still read.
THEOREM NothingElseIsInUse == LibrarySpec => []MemoryAccounted
<1>1. MemInv => MemoryAccounted
  <2> DEFINE items == Items(parts, cells)
  <2> SUFFICES ASSUME MemInv, pc # "lost"
               PROVE  /\ UsedBlocks(memory) =
                           {p - Header : p \in strings \union ({parts.data} \ {Null})}
                      /\ \A i \in DOMAIN items :
                          /\ Owned(items[i].data)
                          /\ memory[items[i].data - Header].size >= items[i].len + 1
                          /\ items[i].data # parts.data
                      /\ \A i, j \in DOMAIN items :
                          items[i].data = items[j].data => i = j
    BY DEF MemoryAccounted, OnlyStringsStay, ElementsAlive
  <2>1. Accounts(memory, cells, parts, strings)
    BY DEF MemInv
  <2>2. /\ UsedBlocks(memory) = Headers(strings) \union Storage(parts)
        /\ parts.data \notin strings
        /\ \A i \in DOMAIN items :
            /\ items[i].data \in strings
            /\ memory[items[i].data - Header].size >= items[i].len + 1
        /\ \A i, j \in DOMAIN items : items[i].data = items[j].data => i = j
    BY <2>1 DEF Accounts
  <2>3. Headers(strings) \union Storage(parts)
          = {p - Header : p \in strings \union ({parts.data} \ {Null})}
    BY DEF Headers, Storage
  <2>4. \A i \in DOMAIN items : Owned(items[i].data)
    BY <2>2 DEF Owned, Headers
  <2> QED BY <2>2, <2>3, <2>4
<1> QED BY <1>1, MemInvariant, PTL

-----------------------------------------------------------------------------
(* Sizes *)

LEMMA RoundedIsNear ==
    ASSUME NEW size \in Nat, NEW unit \in Nat \ {0}
    PROVE  2 * (Rounded(size, unit) * unit - size) \in -unit .. unit
<1>1. PICK half \in Nat : half = unit \div 2 /\ 2 * half <= unit /\ unit <= 2 * half + 1
  <2>1. unit \div 2 \in Nat /\ 2 * (unit \div 2) <= unit /\ unit <= 2 * (unit \div 2) + 1
    OBVIOUS
  <2> QED BY <2>1
<1>2. PICK val \in Nat, rest \in 0 .. unit - 1 :
        val = Rounded(size, unit) /\ size + half = unit * val + rest
  <2>1. PICK sum \in Nat : sum = size + half
    OBVIOUS
  <2>2. sum = unit * (sum \div unit) + (sum % unit) /\ sum \div unit \in Nat /\ sum % unit \in 0 .. unit - 1
    BY DivMod
  <2> QED BY <1>1, <2>1, <2>2 DEF Rounded
<1>3. PICK whole \in Nat : whole = val * unit /\ whole = unit * val
  OBVIOUS
<1>4. whole - size = half - rest
  BY <1>2, <1>3
<1> QED BY <1>1, <1>2, <1>3, <1>4

\* Rounded up.
LEMMA SmallIsNear ==
    ASSUME NEW size \in Nat, NEW unit \in Nat \ {0}
    PROVE  ((size + unit - 1) \div unit) * unit - size \in 0 .. unit - 1
<1>1. PICK sum \in Nat : sum = size + unit - 1
  OBVIOUS
<1>2. PICK val \in Nat, rest \in 0 .. unit - 1 : val = sum \div unit /\ sum = unit * val + rest
  <2>1. sum = unit * (sum \div unit) + (sum % unit) /\ sum \div unit \in Nat /\ sum % unit \in 0 .. unit - 1
    BY DivMod
  <2> QED BY <2>1
<1>3. PICK whole \in Nat : whole = val * unit /\ whole = unit * val
  OBVIOUS
<1> QED BY <1>1, <1>2, <1>3

LEMMA SizeIsShown == bytes \in Nat => SizeIsNear
<1> SUFFICES ASSUME bytes \in Nat PROVE SizeIsNear
  OBVIOUS
<1>1. PICK kb \in Nat \ {0}, mb \in Nat \ {0}, gb \in Nat \ {0} :
        kb = Unit[1] /\ mb = Unit[2] /\ gb = Unit[3] /\ kb = Base
  <2>1. PICK b \in Nat \ {0} : b = Base
    BY NumbersAssumption
  <2>2. b * b \in Nat \ {0}
    OBVIOUS
  <2>3. \A x, y \in Nat \ {0} : x * y \in Nat \ {0}
    OBVIOUS
  <2>4. b * b * b \in Nat \ {0}
    BY <2>2, <2>3
  <2> QED BY <2>1, <2>2, <2>4 DEF Unit
<1>2. PICK shown : shown = print_size_auto(bytes)
  OBVIOUS
<1>3. CASE bytes >= gb
  <2>1. shown.unit = 3 /\ shown.val = Rounded(bytes, gb)
    BY <1>1, <1>2, <1>3 DEF print_size_auto
  <2>2. 2 * (shown.val * gb - bytes) \in -gb .. gb
    BY <2>1, RoundedIsNear
  <2> QED BY <1>1, <1>2, <2>1, <2>2 DEF SizeIsNear
<1>4. CASE ~(bytes >= gb) /\ bytes >= mb
  <2>1. shown.unit = 2 /\ shown.val = Rounded(bytes, mb)
    BY <1>1, <1>2, <1>4 DEF print_size_auto
  <2>2. 2 * (shown.val * mb - bytes) \in -mb .. mb
    BY <2>1, RoundedIsNear
  <2> QED BY <1>1, <1>2, <2>1, <2>2 DEF SizeIsNear
<1>5. CASE ~(bytes >= gb) /\ ~(bytes >= mb)
  <2>1. shown.unit = 1 /\ shown.val = (bytes + kb - 1) \div kb
    BY <1>1, <1>2, <1>5 DEF print_size_auto
  <2>2. shown.val * kb - bytes \in 0 .. kb - 1
    BY <2>1, SmallIsNear
  <2> QED BY <1>1, <1>2, <2>1, <2>2 DEF SizeIsNear
<1> QED BY <1>3, <1>4, <1>5


-----------------------------------------------------------------------------
(* The digits of a number *)

Lower == 0 .. 9
DigitsTo(f, m) == \A n \in 0 .. m : f[n] = IF n = 0 THEN <<>> ELSE <<n % 10>> \o f[n \div 10]

LEMMA TenthIs ==
    ASSUME NEW n \in Nat
    PROVE  /\ n \div 10 \in Nat /\ n % 10 \in Lower /\ n = 10 * (n \div 10) + (n % 10)
           /\ n # 0 => n \div 10 < n
<1>1. PICK q, d : q = n \div 10 /\ d = n % 10
  OBVIOUS
<1>2. n = 10 * q + d /\ q \in Nat /\ d \in 0 .. 9
  BY <1>1, DivMod
<1> QED BY <1>1, <1>2 DEF Lower

\* The recursive function exists: it is built for the numbers up to m, and from
\* them for m + 1.
LEMMA DigitsExist ==
    ASSUME NEW top \in Nat
    PROVE  \E f \in [0 .. top -> Seq(Lower)] : DigitsTo(f, top)
<1> DEFINE Has(m) == \E f \in [0 .. m -> Seq(Lower)] : DigitsTo(f, m)
           K == {m \in Nat : Has(m)}
<1>1. Has(0)
  <2>1. PICK f : f = [n \in 0 .. 0 |-> <<>>]
    OBVIOUS
  <2>2. <<>> \in Seq(Lower)
    OBVIOUS
  <2>3. f \in [0 .. 0 -> Seq(Lower)]
    BY <2>1, <2>2
  <2>4. DigitsTo(f, 0)
    BY <2>1 DEF DigitsTo
  <2> QED BY <2>3, <2>4
<1>2. ASSUME NEW m \in Nat, Has(m) PROVE Has(m + 1)
  <2>1. PICK f \in [0 .. m -> Seq(Lower)] : DigitsTo(f, m)
    BY <1>2
  <2>2. PICK q \in 0 .. m, d \in Lower : q = (m + 1) \div 10 /\ d = (m + 1) % 10
    <3>1. PICK n \in Nat : n = m + 1
      OBVIOUS
    <3>2. n \div 10 \in 0 .. m /\ n % 10 \in Lower
      BY <3>1, TenthIs
    <3> QED BY <3>1, <3>2
  <2>3. PICK text \in Seq(Lower) : text = <<d>> \o f[q]
    <3>1. \A s \in Seq(Lower) : \A x \in Lower : <<x>> \o s \in Seq(Lower)
      OBVIOUS
    <3>2. <<d>> \o f[q] \in Seq(Lower)
      BY <3>1
    <3> QED BY <3>2
  <2>4. PICK g : g = [n \in 0 .. m + 1 |-> IF n = m + 1 THEN text ELSE f[n]]
    OBVIOUS
  <2>5. g \in [0 .. m + 1 -> Seq(Lower)]
    <3>1. \A n \in 0 .. m + 1 : n # m + 1 => n \in 0 .. m
      OBVIOUS
    <3> QED BY <2>4, <3>1
  <2>6. \A n \in 0 .. m : g[n] = f[n]
    BY <2>4
  <2>7. ASSUME NEW n \in 0 .. m + 1
        PROVE  g[n] = IF n = 0 THEN <<>> ELSE <<n % 10>> \o g[n \div 10]
    <3>1. CASE n = m + 1
      BY <2>2, <2>3, <2>4, <2>6, <3>1
    <3>2. CASE n # m + 1
      <4>1. n \in 0 .. m /\ n \div 10 \in 0 .. m
        <5>1. n \in Nat /\ n <= m
          BY <3>2
        <5>2. n \div 10 \in Nat /\ n \div 10 <= n
          BY <5>1, TenthIs
        <5> QED BY <5>1, <5>2
      <4>2. f[n] = IF n = 0 THEN <<>> ELSE <<n % 10>> \o f[n \div 10]
        BY <2>1, <4>1 DEF DigitsTo
      <4>3. g[n] = f[n] /\ g[n \div 10] = f[n \div 10]
        BY <2>6, <4>1
      <4> QED BY <4>2, <4>3
    <3> QED BY <3>1, <3>2
  <2>8. DigitsTo(g, m + 1)
    BY <2>7 DEF DigitsTo
  <2> QED BY <2>5, <2>8
<1>3. K = Nat
  <2> HIDE DEF Has
  <2>1. K \in SUBSET Nat /\ 0 \in K /\ \A m \in K : m + 1 \in K
    BY <1>1, <1>2
  <2> HIDE DEF K
  <2> QED BY <2>1, AllNat
<1>4. Has(top)
  <2> HIDE DEF Has
  <2> QED BY <1>3
<1> QED BY <1>4

LEMMA DigitsAre == Digits \in [0 .. MaxInt -> Seq(Lower)] /\ DigitsTo(Digits, MaxInt)
<1>1. PICK top \in Nat : top = MaxInt
  BY NumbersAssumption
<1> DEFINE Are(f) == f = [n \in 0 .. top |-> IF n = 0 THEN <<>> ELSE <<n % 10>> \o f[n \div 10]]
<1>2. \E f : Are(f)
  <2>1. PICK f \in [0 .. top -> Seq(Lower)] : DigitsTo(f, top)
    BY DigitsExist
  <2>2. Are(f)
    BY <2>1 DEF DigitsTo
  <2> QED BY <2>2
<1>3. Are(Digits)
  <2>1. Digits = CHOOSE f : Are(f)
    BY <1>1 DEF Digits
  <2> HIDE DEF Are
  <2> QED BY <1>2, <2>1
<1>4. DOMAIN Digits = 0 .. top /\ DigitsTo(Digits, top)
  BY <1>3 DEF DigitsTo
<1> HIDE DEF Are
<1>5. ASSUME NEW n \in 0 .. top PROVE Digits[n] \in Seq(Lower)
  <2> DEFINE K == {m \in Nat : \A k \in 0 .. m : k <= top => Digits[k] \in Seq(Lower)}
  <2>1. 0 \in K
    <3>1. 0 \in 0 .. top /\ <<>> \in Seq(Lower)
      OBVIOUS
    <3>2. Digits[0] = <<>>
      BY <1>4, <3>1 DEF DigitsTo
    <3>3. \A k \in 0 .. 0 : k = 0
      OBVIOUS
    <3> QED BY <3>1, <3>2, <3>3
  <2>2. ASSUME NEW m \in K PROVE m + 1 \in K
    <3>1. ASSUME m + 1 <= top PROVE Digits[m + 1] \in Seq(Lower)
      <4>1. PICK k \in 0 .. top : k = m + 1 /\ k # 0
        BY <3>1
      <4>2. k \div 10 \in 0 .. m /\ k % 10 \in Lower /\ k \div 10 <= top
        <5>1. k \in Nat
          OBVIOUS
        <5>2. k \div 10 \in Nat /\ k \div 10 < k /\ k % 10 \in Lower
          BY <4>1, <5>1, TenthIs
        <5> QED BY <4>1, <5>2
      <4>3. Digits[k \div 10] \in Seq(Lower)
        BY <4>2
      <4>4. Digits[k] = <<k % 10>> \o Digits[k \div 10]
        BY <1>4, <4>1 DEF DigitsTo
      <4>5. \A s \in Seq(Lower) : \A x \in Lower : <<x>> \o s \in Seq(Lower)
        OBVIOUS
      <4> QED BY <4>1, <4>2, <4>3, <4>4, <4>5
    <3>2. \A k \in 0 .. m + 1 : k = m + 1 \/ k \in 0 .. m
      OBVIOUS
    <3> QED BY <3>1, <3>2
  <2> HIDE DEF K
  <2>3. K = Nat
    <3>1. K \in SUBSET Nat
      BY DEF K
    <3> QED BY <2>1, <2>2, <3>1, AllNat
  <2> QED BY <2>3 DEF K
<1>6. Digits = [n \in 0 .. top |-> Digits[n]]
  BY <1>3 DEF Are
<1> QED BY <1>1, <1>4, <1>5, <1>6


\* What is left of n as its digits are taken off, the lowest first.
Quotients(digits, n, q) ==
    /\ q[0] = n /\ q[Len(digits)] = 0
    /\ \A j \in 0 .. Len(digits) - 1 : digits[j + 1] = q[j] % 10 /\ q[j + 1] = q[j] \div 10

Spells(digits, n) ==
    /\ \E q \in [0 .. Len(digits) -> Nat] : Quotients(digits, n, q)
    /\ n # 0 => Len(digits) >= 1 /\ digits[Len(digits)] # 0

LEMMA OneMoreDigit ==
    ASSUME NEW n \in Nat \ {0}, NEW e \in Seq(Lower), Spells(e, n \div 10), n \div 10 = 0 => e = <<>>
    PROVE  Spells(<<n % 10>> \o e, n)
<1>1. PICK tenth \in Nat, digit \in Lower : tenth = n \div 10 /\ digit = n % 10 /\ n = 10 * tenth + digit
  <2>1. n \div 10 \in Nat /\ n % 10 \in Lower /\ n = 10 * (n \div 10) + (n % 10)
    BY TenthIs
  <2> QED BY <2>1
<1>2. PICK len \in Nat : len = Len(e)
  OBVIOUS
<1>3. PICK d \in Seq(Lower) : /\ d = <<digit>> \o e /\ Len(d) = len + 1 /\ d[1] = digit
                              /\ \A j \in 1 .. len : d[j + 1] = e[j]
  <2>1. \A x \in Lower : \A s \in Seq(Lower) :
          /\ <<x>> \o s \in Seq(Lower) /\ Len(<<x>> \o s) = Len(s) + 1 /\ (<<x>> \o s)[1] = x
          /\ \A j \in 1 .. Len(s) : (<<x>> \o s)[j + 1] = s[j]
    OBVIOUS
  <2>2. /\ <<digit>> \o e \in Seq(Lower) /\ Len(<<digit>> \o e) = len + 1 /\ (<<digit>> \o e)[1] = digit
        /\ \A j \in 1 .. len : (<<digit>> \o e)[j + 1] = e[j]
    BY <1>2, <2>1
  <2> QED BY <2>2
<1>4. PICK p \in [0 .. len -> Nat] : Quotients(e, tenth, p)
  BY <1>1, <1>2 DEF Spells
<1>5. PICK q : q = [j \in 0 .. len + 1 |-> IF j = 0 THEN n ELSE p[j - 1]]
  OBVIOUS
<1>6. q \in [0 .. len + 1 -> Nat]
  <2>1. \A j \in 0 .. len + 1 : j # 0 => j - 1 \in 0 .. len
    OBVIOUS
  <2> QED BY <1>5, <2>1
<1>7. q[0] = n /\ \A j \in 0 .. len : q[j + 1] = p[j]
  <2>1. \A j \in 0 .. len : j + 1 \in 0 .. len + 1 /\ j + 1 # 0 /\ (j + 1) - 1 = j
    OBVIOUS
  <2> QED BY <1>5, <2>1
<1>8. Quotients(d, n, q)
  <2>1. q[len + 1] = 0
    BY <1>2, <1>4, <1>7 DEF Quotients
  <2>2. ASSUME NEW j \in 0 .. len PROVE d[j + 1] = q[j] % 10 /\ q[j + 1] = q[j] \div 10
    <3>1. CASE j = 0
      <4>1. d[1] = n % 10 /\ q[1] = p[0] /\ p[0] = tenth
        BY <1>1, <1>3, <1>4, <1>7, <3>1 DEF Quotients
      <4> QED BY <1>1, <1>7, <3>1, <4>1
    <3>2. CASE j # 0
      <4>1. PICK i \in 0 .. len - 1 : j = i + 1
        <5>1. j - 1 \in 0 .. len - 1 /\ j = (j - 1) + 1
          BY <3>2
        <5> QED BY <5>1
      <4>2. e[i + 1] = p[i] % 10 /\ p[i + 1] = p[i] \div 10
        BY <1>2, <1>4 DEF Quotients
      <4>3. d[j + 1] = e[j] /\ q[j] = p[i] /\ q[j + 1] = p[j]
        <5>1. j \in 1 .. len /\ i \in 0 .. len
          BY <3>2, <4>1
        <5> QED BY <1>3, <1>7, <4>1, <5>1
      <4> QED BY <4>1, <4>2, <4>3
    <3> QED BY <3>1, <3>2
  <2>3. Len(d) = len + 1 /\ (len + 1) - 1 = len
    BY <1>3
  <2> QED BY <1>7, <2>1, <2>2, <2>3 DEF Quotients
<1>9. d[len + 1] # 0
  <2>1. CASE tenth = 0
    <3>1. len = 0 /\ d[1] = n
      BY <1>1, <1>2, <1>3, <2>1 DEF Lower
    <3> QED BY <3>1
  <2>2. CASE tenth # 0
    <3>1. len >= 1 /\ e[len] # 0
      BY <1>1, <1>2, <2>2 DEF Spells
    <3>2. d[len + 1] = e[len]
      BY <1>3, <3>1
    <3> QED BY <3>1, <3>2
  <2> QED BY <2>1, <2>2
<1>10. Spells(d, n)
  <2>1. Len(d) = len + 1 /\ len + 1 >= 1
    BY <1>3
  <2>2. \E r \in [0 .. Len(d) -> Nat] : Quotients(d, n, r)
    BY <1>6, <1>8, <2>1
  <2> QED BY <1>9, <2>1, <2>2 DEF Spells
<1> QED BY <1>1, <1>3, <1>10

LEMMA DigitsSpell ==
    ASSUME NEW n \in 0 .. MaxInt
    PROVE  Spells(Digits[n], n)
<1>1. PICK top \in Nat : top = MaxInt
  BY NumbersAssumption
<1>2. \A k \in 0 .. top : /\ Digits[k] \in Seq(Lower)
                          /\ Digits[k] = IF k = 0 THEN <<>> ELSE <<k % 10>> \o Digits[k \div 10]
  BY <1>1, DigitsAre DEF DigitsTo
<1>3. 0 \in 0 .. top /\ Digits[0] = <<>>
  <2>1. 0 \in 0 .. top
    OBVIOUS
  <2> QED BY <1>2, <2>1
<1> DEFINE K == {m \in Nat : \A k \in 0 .. m : k <= top => Spells(Digits[k], k)}
<1>4. 0 \in K
  <2>1. PICK q : q = [j \in 0 .. 0 |-> 0]
    OBVIOUS
  <2>2. Len(<<>>) = 0 /\ q \in [0 .. 0 -> Nat] /\ q[0] = 0
    BY <2>1
  <2>3. Quotients(<<>>, 0, q)
    BY <2>2 DEF Quotients
  <2>4. Spells(<<>>, 0)
    BY <2>2, <2>3 DEF Spells
  <2>5. \A k \in 0 .. 0 : k = 0
    OBVIOUS
  <2> QED BY <1>3, <2>4, <2>5
<1>5. ASSUME NEW m \in K PROVE m + 1 \in K
  <2>1. ASSUME m + 1 <= top PROVE Spells(Digits[m + 1], m + 1)
    <3>1. PICK k \in Nat \ {0} : k = m + 1 /\ k \in 0 .. top
      BY <2>1
    <3>2. PICK tenth \in 0 .. m : tenth = k \div 10 /\ tenth \in 0 .. top /\ tenth <= top
      <4>1. k \div 10 \in Nat /\ k \div 10 < k
        BY TenthIs
      <4>2. k \div 10 \in 0 .. m /\ k \div 10 \in 0 .. top /\ k \div 10 <= top
        BY <3>1, <4>1
      <4> QED BY <4>2
    <3>3. Spells(Digits[tenth], tenth)
      BY <3>2
    <3>4. Digits[tenth] \in Seq(Lower) /\ (tenth = 0 => Digits[tenth] = <<>>)
      BY <1>2, <1>3, <3>2
    <3>5. Spells(<<k % 10>> \o Digits[tenth], k)
      BY <3>2, <3>3, <3>4, OneMoreDigit
    <3>6. Digits[k] = <<k % 10>> \o Digits[tenth]
      BY <1>2, <3>1, <3>2
    <3> QED BY <3>1, <3>5, <3>6
  <2>2. \A k \in 0 .. m + 1 : k = m + 1 \/ k \in 0 .. m
    OBVIOUS
  <2> QED BY <2>1, <2>2
<1> HIDE DEF K
<1>6. K = Nat
  <2>1. K \in SUBSET Nat
    BY DEF K
  <2> QED BY <1>4, <1>5, <2>1, AllNat
<1> QED BY <1>1, <1>6 DEF K


-----------------------------------------------------------------------------
(* The text of a number *)

\* After k rounds of reverse: k characters at each end have changed places.
Turned(str, s, k) ==
    \A i \in 1 .. Len(str) :
        s[i] = IF i <= k \/ i > Len(str) - k THEN str[Len(str) + 1 - i] ELSE str[i]

LEMMA TurnOne ==
    ASSUME NEW len \in Nat, NEW str \in [1 .. len -> Int], NEW s \in [1 .. len -> Int],
           NEW k \in Nat, 2 * (k + 1) <= len, Len(str) = len, Len(s) = len, Turned(str, s, k)
    PROVE  Turned(str, Swapped(s, k + 1, Len(s) + 1 - (k + 1)), k + 1)
<1>1. PICK a \in 1 .. len, b \in 1 .. len : a = k + 1 /\ b = len - k /\ a < b
  <2>1. k + 1 \in 1 .. len /\ len - k \in 1 .. len /\ k + 1 < len - k
    OBVIOUS
  <2> QED BY <2>1
<1>2. PICK t : t = Swapped(s, a, b)
  OBVIOUS
<1>3. t[a] = s[b] /\ t[b] = s[a] /\ \A i \in 1 .. len : i # a /\ i # b => t[i] = s[i]
  BY <1>1, <1>2 DEF Swapped
<1>4. s[a] = str[a] /\ s[b] = str[b]
  <2>1. ~(a <= k \/ a > len - k) /\ ~(b <= k \/ b > len - k)
    BY <1>1
  <2> QED BY <2>1 DEF Turned
<1>5. ASSUME NEW i \in 1 .. len
      PROVE  t[i] = IF i <= k + 1 \/ i > len - (k + 1) THEN str[len + 1 - i] ELSE str[i]
  <2>1. CASE i = a
    <3>1. i <= k + 1 /\ len + 1 - i = b
      BY <1>1, <2>1
    <3> QED BY <1>3, <1>4, <2>1, <3>1
  <2>2. CASE i = b
    <3>1. i > len - (k + 1) /\ len + 1 - i = a
      BY <1>1, <2>2
    <3> QED BY <1>3, <1>4, <2>2, <3>1
  <2>3. CASE i # a /\ i # b
    <3>1. (i <= k + 1 <=> i <= k) /\ (i > len - (k + 1) <=> i > len - k)
      BY <1>1, <2>3
    <3>2. s[i] = IF i <= k \/ i > len - k THEN str[len + 1 - i] ELSE str[i]
      BY DEF Turned
    <3> QED BY <1>3, <2>3, <3>1, <3>2
  <2> QED BY <2>1, <2>2, <2>3
<1>6. Len(s) + 1 - (k + 1) = b
  BY <1>1
<1> QED BY <1>1, <1>2, <1>5, <1>6 DEF Turned

LEMMA ReverseRuns ==
    ASSUME NEW str \in Seq(Int), NEW half \in Nat, half = Len(str) \div 2
    PROVE  \E r : /\ r[0] = str /\ reverse(str) = r[half]
                  /\ \A k \in 1 .. half : r[k] = Swapped(r[k - 1], k, Len(r[k - 1]) + 1 - k)
<1>1. PICK len \in Nat : len = Len(str) /\ half = len \div 2 /\ 2 * half <= len
  <2>1. PICK m \in Nat : m = Len(str)
    OBVIOUS
  <2>2. 2 * (m \div 2) <= m
    OBVIOUS
  <2> QED BY <2>1, <2>2
<1>2. PICK rounds, texts : rounds = [i \in 1 .. half |-> i] /\ texts = [1 .. len -> Int]
  OBVIOUS
<1>3. str \in texts
  BY <1>1, <1>2
<1> DEFINE Turn(s, i) == Swapped(s, i, Len(s) + 1 - i)
           step == [z \in texts \X (1 .. half) |-> Turn(z[1], z[2])]
<1>4. ASSUME NEW s \in texts, NEW i \in 1 .. half PROVE Turn(s, i) \in texts
  <2>1. Len(s) = len
    BY <1>2
  <2>2. i \in 1 .. len /\ len + 1 - i \in 1 .. len
    BY <1>1
  <2> QED BY <1>2, <2>1, <2>2 DEF Swapped
<1> HIDE DEF Turn
<1>5. step \in [texts \X (1 .. half) -> texts]
  BY <1>4
<1>6. \A z \in texts, i \in 1 .. half : step[<<z, i>>] = Turn(z, i)
  OBVIOUS
<1> HIDE DEF step
<1> DEFINE Runs(iter) ==
             iter = [S \in SUBSET (1 .. half) |-> IF S = {} THEN str
                                                  ELSE Turn(iter[S \ {Max(S)}], rounds[Max(S)])]
<1>7. PICK f \in [SUBSET (1 .. half) -> texts] : FoldsTo(f, half, str, step, rounds)
  <2>1. \A i \in 1 .. half : rounds[i] \in 1 .. half
    BY <1>2
  <2> QED BY <1>3, <1>5, <2>1, FoldExists, Zenon
<1>8. ASSUME NEW S \in SUBSET (1 .. half), S # {} PROVE Max(S) \in S
  <2>1. S \in SUBSET Nat /\ \A i \in S : i <= half
    OBVIOUS
  <2> QED BY <1>8, <2>1, GreatestNat
<1>9. \E iter : Runs(iter)
  <2>1. ASSUME NEW S \in SUBSET (1 .. half)
        PROVE  f[S] = IF S = {} THEN str ELSE Turn(f[S \ {Max(S)}], rounds[Max(S)])
    <3>1. f[S] = IF S = {} THEN str ELSE step[<<f[S \ {Max(S)}], rounds[Max(S)]>>]
      BY <1>7 DEF FoldsTo
    <3>2. CASE S # {}
      <4>1. Max(S) \in 1 .. half /\ S \ {Max(S)} \in SUBSET (1 .. half)
        BY <1>8, <3>2
      <4>2. rounds[Max(S)] \in 1 .. half
        BY <1>2, <4>1
      <4>3. f[S \ {Max(S)}] \in texts
        BY <1>7, <4>1
      <4> QED BY <1>6, <3>1, <3>2, <4>2, <4>3
    <3> QED BY <3>1, <3>2
  <2>2. Runs(f)
    BY <2>1
  <2> QED BY <2>2
<1>10. PICK g : g = (CHOOSE iter : Runs(iter))
  OBVIOUS
<1>11. Runs(g)
  BY <1>9, <1>10
<1>12. reverse(str) = g[1 .. half]
  <2>1. DOMAIN rounds = 1 .. half
    BY <1>2
  <2>2. reverse(str) =
          (CHOOSE iter : iter = [S \in SUBSET DOMAIN rounds |->
              IF S = {} THEN str
              ELSE Turn(iter[S \ {Max(S)}], rounds[Max(S)])])[DOMAIN rounds]
    BY <1>2 DEF reverse, FoldLeft, MapThenFoldSet, Turn
  <2> QED BY <1>10, <2>1, <2>2
<1>13. g[1 .. 0] = str
  BY <1>11
<1>14. ASSUME NEW k \in 1 .. half PROVE g[1 .. k] = Turn(g[1 .. (k - 1)], k)
  <2>1. PICK S : S = 1 .. k
    OBVIOUS
  <2>2. k - 1 \in Nat /\ S \in SUBSET (1 .. (k - 1) + 1) /\ (k - 1) + 1 \in S /\ (k - 1) + 1 = k
    BY <2>1
  <2>3. Max(S) = k
    BY <2>2, MaxAt
  <2>4. S \ {k} = 1 .. (k - 1) /\ S # {} /\ S \in SUBSET (1 .. half)
    <3>1. \A i : i \in S \ {k} <=> i \in 1 .. (k - 1)
      BY <2>1
    <3>2. k \in S /\ \A i \in S : i \in 1 .. half
      BY <2>1
    <3> QED BY <3>1, <3>2, Zenon
  <2>5. g[S] = Turn(g[S \ {Max(S)}], rounds[Max(S)])
    BY <1>11, <2>4
  <2> QED BY <1>2, <2>1, <2>3, <2>4, <2>5
<1> DEFINE r == [k \in 0 .. half |-> g[1 .. k]]
<1>15. r[0] = str /\ reverse(str) = r[half]
  BY <1>12, <1>13
<1>16. \A k \in 1 .. half : r[k] = Swapped(r[k - 1], k, Len(r[k - 1]) + 1 - k)
  BY <1>14 DEF Turn
<1> HIDE DEF r, Runs
<1> QED BY <1>15, <1>16


LEMMA ReverseIs ==
    ASSUME NEW str \in Seq(Int)
    PROVE  \E t \in Seq(Int) : /\ t = reverse(str) /\ Len(t) = Len(str)
                               /\ \A i \in 1 .. Len(str) : t[i] = str[Len(str) + 1 - i]
<1>1. PICK len \in Nat, half \in Nat :
        len = Len(str) /\ half = len \div 2 /\ 2 * half <= len /\ len <= 2 * half + 1
  <2>1. PICK m \in Nat : m = Len(str)
    OBVIOUS
  <2>2. m \div 2 \in Nat /\ 2 * (m \div 2) <= m /\ m <= 2 * (m \div 2) + 1
    OBVIOUS
  <2> QED BY <2>1, <2>2
<1>2. PICK r : /\ r[0] = str /\ reverse(str) = r[half]
               /\ \A k \in 1 .. half : r[k] = Swapped(r[k - 1], k, Len(r[k - 1]) + 1 - k)
  BY <1>1, ReverseRuns
<1> DEFINE K == {k \in Nat : k <= half => r[k] \in [1 .. len -> Int] /\ Turned(str, r[k], k)}
<1>3. str \in [1 .. len -> Int]
  BY <1>1
<1>4. 0 \in K
  <2>1. Turned(str, str, 0)
    BY <1>1 DEF Turned
  <2> QED BY <1>2, <1>3, <2>1
<1>5. ASSUME NEW k \in K PROVE k + 1 \in K
  <2> SUFFICES ASSUME k + 1 <= half
               PROVE  r[k + 1] \in [1 .. len -> Int] /\ Turned(str, r[k + 1], k + 1)
    OBVIOUS
  <2>1. PICK s \in [1 .. len -> Int] : s = r[k] /\ Turned(str, s, k)
    OBVIOUS
  <2>2. Len(s) = len /\ 2 * (k + 1) <= len /\ k + 1 \in 1 .. half /\ (k + 1) - 1 = k
    BY <1>1
  <2>3. r[k + 1] = Swapped(s, k + 1, Len(s) + 1 - (k + 1))
    BY <1>2, <2>1, <2>2
  <2>4. Turned(str, r[k + 1], k + 1)
    <3>1. k \in Nat /\ Len(str) = len
      BY <1>1
    <3> QED BY <1>3, <2>1, <2>2, <2>3, <3>1, TurnOne
  <2>5. Swapped(s, k + 1, Len(s) + 1 - (k + 1)) \in [1 .. len -> Int]
    <3>1. k + 1 \in 1 .. len /\ Len(s) + 1 - (k + 1) \in 1 .. len
      BY <1>1, <2>2
    <3> QED BY <3>1 DEF Swapped
  <2> QED BY <2>3, <2>4, <2>5
<1> HIDE DEF K
<1>6. K = Nat
  <2>1. K \in SUBSET Nat
    BY DEF K
  <2> QED BY <1>4, <1>5, <2>1, AllNat
<1>7. PICK t \in [1 .. len -> Int] : t = reverse(str) /\ Turned(str, t, half)
  <2>1. r[half] \in [1 .. len -> Int] /\ Turned(str, r[half], half)
    BY <1>6 DEF K
  <2> QED BY <1>2, <2>1
<1>8. t \in Seq(Int) /\ Len(t) = len
  OBVIOUS
<1>9. ASSUME NEW i \in 1 .. len PROVE t[i] = str[len + 1 - i]
  <2>1. t[i] = IF i <= half \/ i > len - half THEN str[len + 1 - i] ELSE str[i]
    BY <1>1, <1>7 DEF Turned
  <2>2. CASE ~(i <= half \/ i > len - half)
    <3>1. 2 * half <= len /\ len <= 2 * half + 1 /\ half < i /\ i <= len - half
      BY <1>1, <2>2
    <3>2. i = len + 1 - i
      BY <3>1
    <3> QED BY <2>1, <2>2, <3>2
  <2> QED BY <2>1, <2>2
<1> QED BY <1>1, <1>7, <1>8, <1>9

LEMMA ValueRuns ==
    ASSUME NEW text \in Seq(Int), NEW n \in Nat, n = Len(text)
    PROVE  \E v : /\ v[0] = 0 /\ Value(text) = v[n]
                  /\ \A k \in 1 .. n : v[k] = 10 * v[k - 1] + text[k]
<1> DEFINE step == [z \in Int \X Int |-> 10 * z[1] + z[2]]
<1>1. step \in [Int \X Int -> Int] /\ \A v, d \in Int : step[<<v, d>>] = 10 * v + d
  OBVIOUS
<1> HIDE DEF step
<1> DEFINE Runs(iter) ==
             iter = [S \in SUBSET (1 .. n) |-> IF S = {} THEN 0
                                               ELSE 10 * iter[S \ {Max(S)}] + text[Max(S)]]
<1>2. PICK f \in [SUBSET (1 .. n) -> Int] : FoldsTo(f, n, 0, step, text)
  <2>1. 0 \in Int /\ \A i \in 1 .. n : text[i] \in Int
    OBVIOUS
  <2> QED BY <1>1, <2>1, FoldExists, Zenon
<1>3. ASSUME NEW S \in SUBSET (1 .. n), S # {} PROVE Max(S) \in S
  <2>1. S \in SUBSET Nat /\ \A i \in S : i <= n
    OBVIOUS
  <2> QED BY <1>3, <2>1, GreatestNat
<1>4. \E iter : Runs(iter)
  <2>1. ASSUME NEW S \in SUBSET (1 .. n)
        PROVE  f[S] = IF S = {} THEN 0 ELSE 10 * f[S \ {Max(S)}] + text[Max(S)]
    <3>1. f[S] = IF S = {} THEN 0 ELSE step[<<f[S \ {Max(S)}], text[Max(S)]>>]
      BY <1>2 DEF FoldsTo
    <3>2. CASE S # {}
      <4>1. Max(S) \in 1 .. n /\ S \ {Max(S)} \in SUBSET (1 .. n)
        BY <1>3, <3>2
      <4>2. text[Max(S)] \in Int /\ f[S \ {Max(S)}] \in Int
        BY <1>2, <4>1
      <4> QED BY <1>1, <3>1, <3>2, <4>2
    <3> QED BY <3>1, <3>2
  <2>2. Runs(f)
    BY <2>1
  <2> QED BY <2>2
<1>5. PICK g : g = (CHOOSE iter : Runs(iter))
  OBVIOUS
<1>6. Runs(g)
  BY <1>4, <1>5
<1>7. Value(text) = g[1 .. n]
  <2>1. DOMAIN text = 1 .. n
    OBVIOUS
  <2>2. Value(text) =
          (CHOOSE iter : iter = [S \in SUBSET DOMAIN text |->
              IF S = {} THEN 0
              ELSE 10 * iter[S \ {Max(S)}] + text[Max(S)]])[DOMAIN text]
    BY DEF Value, FoldLeft, MapThenFoldSet
  <2> QED BY <1>5, <2>1, <2>2
<1>8. g[1 .. 0] = 0
  BY <1>6
<1>9. ASSUME NEW k \in 1 .. n PROVE g[1 .. k] = 10 * g[1 .. (k - 1)] + text[k]
  <2>1. PICK S : S = 1 .. k
    OBVIOUS
  <2>2. k - 1 \in Nat /\ S \in SUBSET (1 .. (k - 1) + 1) /\ (k - 1) + 1 \in S /\ (k - 1) + 1 = k
    BY <2>1
  <2>3. Max(S) = k
    BY <2>2, MaxAt
  <2>4. S \ {k} = 1 .. (k - 1) /\ S # {} /\ S \in SUBSET (1 .. n)
    <3>1. \A i : i \in S \ {k} <=> i \in 1 .. (k - 1)
      BY <2>1
    <3>2. k \in S /\ \A i \in S : i \in 1 .. n
      BY <2>1
    <3> QED BY <3>1, <3>2, Zenon
  <2>5. g[S] = 10 * g[S \ {Max(S)}] + text[Max(S)]
    BY <1>6, <2>4
  <2> QED BY <2>1, <2>3, <2>4, <2>5
<1> DEFINE v == [k \in 0 .. n |-> g[1 .. k]]
<1>10. v[0] = 0 /\ Value(text) = v[n]
  BY <1>7, <1>8
<1>11. \A k \in 1 .. n : v[k] = 10 * v[k - 1] + text[k]
  BY <1>9
<1> HIDE DEF v, Runs
<1> QED BY <1>10, <1>11


\* A text in which the digits stand the highest first.
LEMMA ReadIs ==
    ASSUME NEW n \in Nat, NEW digits \in Seq(Lower), Spells(digits, n),
           NEW text \in Seq(Int), Len(text) = Len(digits),
           \A i \in 1 .. Len(digits) : text[i] = digits[Len(digits) + 1 - i]
    PROVE  Value(text) = n
<1>1. PICK len \in Nat : len = Len(digits) /\ len = Len(text)
  OBVIOUS
<1>2. PICK q \in [0 .. len -> Nat] : Quotients(digits, n, q)
  BY <1>1 DEF Spells
<1>3. PICK v : /\ v[0] = 0 /\ Value(text) = v[len]
               /\ \A k \in 1 .. len : v[k] = 10 * v[k - 1] + text[k]
  BY <1>1, ValueRuns
<1> DEFINE K == {k \in Nat : k <= len => v[k] = q[len - k]}
<1>4. 0 \in K
  BY <1>1, <1>2, <1>3 DEF Quotients
<1>5. ASSUME NEW k \in K PROVE k + 1 \in K
  <2> SUFFICES ASSUME k + 1 <= len PROVE v[k + 1] = q[len - (k + 1)]
    OBVIOUS
  <2>1. PICK j \in 0 .. len - 1 : j = len - (k + 1) /\ j + 1 = len - k /\ k + 1 \in 1 .. len
                                  /\ len + 1 - (k + 1) = j + 1 /\ (k + 1) - 1 = k
    <3>1. len - (k + 1) \in 0 .. len - 1
      OBVIOUS
    <3> QED BY <3>1
  <2>2. digits[j + 1] = q[j] % 10 /\ q[j + 1] = q[j] \div 10
    BY <1>1, <1>2 DEF Quotients
  <2>3. v[k + 1] = 10 * v[k] + text[k + 1] /\ v[k] = q[j + 1]
    BY <1>3, <2>1
  <2>4. text[k + 1] = digits[j + 1]
    BY <1>1, <2>1
  <2>5. q[j] \in Nat /\ q[j] = 10 * (q[j] \div 10) + (q[j] % 10)
    <3>1. q[j] \in Nat
      OBVIOUS
    <3> QED BY <3>1, TenthIs
  <2> QED BY <2>1, <2>2, <2>3, <2>4, <2>5
<1> HIDE DEF K
<1>6. K = Nat
  <2>1. K \in SUBSET Nat
    BY DEF K
  <2> QED BY <1>4, <1>5, <2>1, AllNat
<1>7. v[len] = q[0]
  BY <1>6 DEF K
<1> QED BY <1>2, <1>3, <1>7 DEF Quotients

\* The text of a number that is not 0, and of its opposite.
LEMMA TextIs ==
    ASSUME NEW n \in 1 .. MaxInt
    PROVE  /\ LET text == reverse(Digits[n])
              IN  Value(text) = n /\ Head(text) \in Lower \ {0}
           /\ LET text == reverse(Append(Digits[n], Minus))
              IN  Value(Tail(text)) = n /\ Head(text) = Minus /\ Head(Tail(text)) \in Lower \ {0}
<1>1. PICK top \in Nat : top = MaxInt
  BY NumbersAssumption
<1>2. n \in 0 .. MaxInt /\ n \in Nat /\ n # 0
  BY <1>1
<1>3. PICK d \in Seq(Lower), len \in Nat :
        d = Digits[n] /\ len = Len(d) /\ Spells(d, n) /\ len >= 1 /\ d[len] # 0
  <2>1. Digits[n] \in Seq(Lower) /\ Spells(Digits[n], n)
    BY <1>2, DigitsAre, DigitsSpell
  <2>2. Len(Digits[n]) \in Nat
    BY <2>1
  <2> QED BY <1>2, <2>1, <2>2 DEF Spells
<1>4. PICK str \in Seq(Int) : str = d
  <2>1. \A i \in 1 .. len : d[i] \in Int
    BY <1>3 DEF Lower
  <2>2. d = [i \in 1 .. len |-> d[i]]
    BY <1>3
  <2>3. [i \in 1 .. len |-> d[i]] \in Seq(Int)
    BY <2>1
  <2> QED BY <2>2, <2>3
<1>5. PICK t \in Seq(Int) : /\ t = reverse(str) /\ Len(t) = len
                            /\ \A i \in 1 .. len : t[i] = str[len + 1 - i]
  BY <1>3, <1>4, ReverseIs
<1>6. d[len] \in Lower \ {0}
  BY <1>3
<1>7. Value(t) = n /\ Head(t) \in Lower \ {0}
  <2>1. Value(t) = n
    <3>1. Len(t) = Len(d) /\ \A i \in 1 .. Len(d) : t[i] = d[Len(d) + 1 - i]
      BY <1>3, <1>4, <1>5
    <3> QED BY <1>2, <1>3, <3>1, ReadIs, Zenon
  <2>2. 1 \in 1 .. len /\ len + 1 - 1 = len
    BY <1>3
  <2>3. Head(t) = t[1]
    BY <1>3, <1>5
  <2> QED BY <1>4, <1>5, <1>6, <2>1, <2>2, <2>3
<1>8. PICK signed \in Seq(Int) : /\ signed = Append(str, Minus) /\ Len(signed) = len + 1
                                 /\ signed[len + 1] = Minus /\ \A i \in 1 .. len : signed[i] = str[i]
  <2>1. \A x \in Int : Append(str, x) \in Seq(Int) /\ Len(Append(str, x)) = Len(str) + 1
                       /\ Append(str, x)[Len(str) + 1] = x
                       /\ \A i \in 1 .. Len(str) : Append(str, x)[i] = str[i]
    OBVIOUS
  <2>2. Minus \in Int
    BY DEF Minus
  <2> QED BY <1>3, <1>4, <2>1, <2>2
<1>9. PICK u \in Seq(Int) : /\ u = reverse(signed) /\ Len(u) = len + 1
                            /\ \A i \in 1 .. len + 1 : u[i] = signed[len + 2 - i]
  <2>1. PICK w \in Seq(Int) : /\ w = reverse(signed) /\ Len(w) = Len(signed)
                              /\ \A i \in 1 .. Len(signed) : w[i] = signed[Len(signed) + 1 - i]
    BY ReverseIs, Zenon
  <2>2. \A i \in 1 .. len + 1 : w[i] = signed[(len + 1) + 1 - i]
    BY <1>8, <2>1
  <2>3. \A i \in 1 .. len + 1 : (len + 1) + 1 - i = len + 2 - i
    OBVIOUS
  <2>4. Len(w) = len + 1
    BY <1>8, <2>1
  <2> QED BY <2>1, <2>2, <2>3, <2>4
<1>10. PICK rest \in Seq(Int) : rest = Tail(u) /\ Len(rest) = len /\ \A i \in 1 .. len : rest[i] = u[i + 1]
  <2>1. u # <<>>
    BY <1>9
  <2>2. Tail(u) \in Seq(Int) /\ Len(Tail(u)) = Len(u) - 1 /\ \A i \in 1 .. Len(u) - 1 : Tail(u)[i] = u[i + 1]
    BY <2>1
  <2>3. Len(u) - 1 = len
    BY <1>9
  <2>4. Tail(u) \in Seq(Int) /\ Len(Tail(u)) = len /\ \A i \in 1 .. len : Tail(u)[i] = u[i + 1]
    BY <2>2, <2>3
  <2> QED BY <2>4
<1>11. \A i \in 1 .. len : rest[i] = d[len + 1 - i]
  <2>1. ASSUME NEW i \in 1 .. len PROVE rest[i] = d[len + 1 - i]
    <3>1. i + 1 \in 1 .. len + 1 /\ len + 2 - (i + 1) = len + 1 - i /\ len + 1 - i \in 1 .. len
      OBVIOUS
    <3>2. rest[i] = u[i + 1]
      BY <1>10
    <3>3. u[i + 1] = signed[len + 1 - i]
      BY <1>9, <3>1
    <3>4. signed[len + 1 - i] = str[len + 1 - i]
      BY <1>8, <3>1
    <3> QED BY <1>4, <3>2, <3>3, <3>4
  <2> QED BY <2>1
<1>12. Value(rest) = n
  <2>1. Len(rest) = Len(d) /\ \A i \in 1 .. Len(d) : rest[i] = d[Len(d) + 1 - i]
    BY <1>3, <1>10, <1>11
  <2> QED BY <1>2, <1>3, <2>1, ReadIs, Zenon
<1>13. Head(u) = Minus
  <2>1. 1 \in 1 .. len + 1 /\ len + 2 - 1 = len + 1
    OBVIOUS
  <2>2. Head(u) = u[1]
    BY <1>9
  <2> QED BY <1>8, <1>9, <2>1, <2>2
<1>14. Head(rest) \in Lower \ {0}
  <2>1. 1 \in 1 .. len /\ len + 1 - 1 = len
    BY <1>3
  <2>2. Head(rest) = rest[1]
    BY <1>3, <1>10
  <2> QED BY <1>6, <1>11, <2>1, <2>2
<1> QED BY <1>3, <1>4, <1>5, <1>7, <1>8, <1>9, <1>10, <1>12, <1>13, <1>14

LEMMA NumberIsShown == number \in -MaxInt .. MaxInt => ReadsBack
<1> SUFFICES ASSUME number \in -MaxInt .. MaxInt PROVE ReadsBack
  OBVIOUS
<1>1. MaxInt \in Nat
  BY NumbersAssumption
<1>2. CASE number = 0
  <2>1. PICK text \in Seq(Int) : text = <<0>> /\ Len(text) = 1 /\ text[1] = 0 /\ Head(text) = 0
    <3>1. <<0>> \in Seq(Int) /\ Len(<<0>>) = 1 /\ <<0>>[1] = 0 /\ Head(<<0>>) = 0
      OBVIOUS
    <3> QED BY <3>1
  <2>2. int_to_str(number) = text
    BY <1>2, <2>1 DEF int_to_str
  <2>3. Value(text) = 0
    <3>1. PICK v : v[0] = 0 /\ Value(text) = v[1] /\ \A k \in 1 .. 1 : v[k] = 10 * v[k - 1] + text[k]
      BY <2>1, ValueRuns
    <3>2. v[1] = 10 * v[0] + text[1]
      <4>1. 1 \in 1 .. 1 /\ 1 - 1 = 0
        OBVIOUS
      <4> QED BY <3>1, <4>1
    <3> QED BY <2>1, <3>1, <3>2
  <2>4. ~(number < 0) /\ 0 # Minus
    BY <1>2 DEF Minus
  <2> QED BY <1>2, <2>1, <2>2, <2>3, <2>4 DEF ReadsBack
<1>3. CASE number > 0
  <2>1. number \in 1 .. MaxInt /\ ~(number < 0) /\ number # 0
    BY <1>1, <1>3
  <2>2. int_to_str(number) = reverse(Digits[number])
    BY <2>1 DEF int_to_str
  <2>3. PICK text : text = int_to_str(number) /\ Value(text) = number /\ Head(text) \in Lower \ {0}
    BY <2>1, <2>2, TextIs
  <2>4. Head(text) # Minus /\ Head(text) # 0
    BY <2>3 DEF Minus, Lower
  <2> QED BY <2>1, <2>3, <2>4 DEF ReadsBack
<1>4. CASE number < 0
  <2>1. PICK n \in 1 .. MaxInt : n = -number
    <3>1. -number \in 1 .. MaxInt
      BY <1>1, <1>4
    <3> QED BY <3>1
  <2>2. int_to_str(number) = reverse(Append(Digits[n], Minus))
    BY <1>4, <2>1 DEF int_to_str
  <2>3. PICK text : /\ text = int_to_str(number) /\ Value(Tail(text)) = n /\ Head(text) = Minus
                    /\ Head(Tail(text)) \in Lower \ {0}
    BY <2>2, TextIs
  <2> QED BY <1>4, <2>1, <2>3 DEF ReadsBack
<1> QED BY <1>1, <1>2, <1>3, <1>4

\* int_to_str and print_size_auto: the text of every int but the smallest is
\* read as that int, with its sign and without zeros before it, and the size
\* shown is at most half a unit from the size -- or, in KB, rounded up.
THEOREM WhatIsPrinted == LibrarySpec => []NumbersAreShown
<1> DEFINE Inv == number \in -MaxInt .. MaxInt /\ bytes \in Nat
<1>1. MaxInt \in Nat /\ MaxBytes \in Nat
  BY NumbersAssumption
<1>2. LibraryInit => Inv
  BY <1>1 DEF LibraryInit, NumbersInit
<1>3. Inv /\ [LibraryNext]_libraryVars => Inv'
  <2> SUFFICES ASSUME Inv, [LibraryNext]_libraryVars PROVE Inv'
    OBVIOUS
  <2>1. NumbersNext \/ UNCHANGED numberVars
    BY DEF LibraryNext, libraryVars, numberVars
  <2> QED BY <1>1, <2>1 DEF NumbersNext, numberVars
<1>4. Inv => NumbersAreShown
  BY NumberIsShown, SizeIsShown DEF NumbersAreShown
<1> QED BY <1>2, <1>3, <1>4, PTL DEF LibrarySpec


=============================================================================
