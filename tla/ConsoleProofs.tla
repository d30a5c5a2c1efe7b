---------------------------- MODULE ConsoleProofs ----------------------------
(***************************************************************************)
(* Proofs about modules Terminal and Console, for every size of the        *)
(* screen, the key buffer and the command line, every prompt and every     *)
(* text that is printed.                                                   *)
(***************************************************************************)
EXTENDS Console, SequenceTheorems, Induction, TLAPS
LOCAL INSTANCE SequencesExt

W == VGA_WIDTH
H == VGA_HEIGHT
Text == Glyphs \cup {Blank}

-----------------------------------------------------------------------------
(***************************************************************************)
(* Where the cells are.                                                    *)
(***************************************************************************)
LEMMA Products ==
    ASSUME NEW w \in Nat, NEW a \in Nat, NEW b \in Nat, a < b
    PROVE  a * w + w <= b * w /\ a * w \in Nat /\ b * w \in Nat
<1>1. PICK d \in Nat : b = a + 1 + d
  <2>1. b - a - 1 \in Nat /\ b = a + 1 + (b - a - 1)
    OBVIOUS
  <2>. QED BY <2>1
<1>2. (a + 1 + d) * w = a * w + w + d * w
  OBVIOUS
<1>3. d * w \in Nat /\ a * w \in Nat
  OBVIOUS
<1>. QED BY <1>1, <1>2, <1>3

LEMMA Sizes ==
    /\ W = VGA_WIDTH /\ W \in Nat /\ W > 1
    /\ H = VGA_HEIGHT /\ H \in Nat /\ H > 1
    /\ TabStop \in Nat /\ TabStop > 0 /\ W % TabStop = 0
    /\ ScreenSize \in Nat /\ ScreenSize >= 2 * W
    /\ Cells = 0 .. (ScreenSize + W - 1)
    /\ At(0, 0) = 0 /\ At(0, H) = ScreenSize /\ At(0, H - 1) = ScreenSize - W
<1>1. /\ W = VGA_WIDTH /\ W \in Nat /\ W > 1
      /\ H = VGA_HEIGHT /\ H \in Nat /\ H > 1
      /\ TabStop \in Nat /\ TabStop > 0 /\ W % TabStop = 0
  BY TerminalAssumption DEF W, H
<1>2. ScreenSize = H * W /\ At(0, H) = H * W + 0 /\ At(0, 0) = 0 * W + 0 /\ At(0, H - 1) = (H - 1) * W + 0
  BY DEF ScreenSize, At, W, H
<1>3. PICK d \in Nat : H = d + 2
  <2>1. H - 2 \in Nat /\ H = (H - 2) + 2
    BY <1>1
  <2>. QED BY <2>1
<1>4. H * W = d * W + 2 * W /\ (H - 1) * W = d * W + W /\ d * W \in Nat /\ H * W \in Nat
  <2>1. (d + 2) * W = d * W + 2 * W /\ (d + 1) * W = d * W + W /\ d * W \in Nat
    BY <1>1
  <2>2. H - 1 = d + 1
    BY <1>3
  <2>. QED BY <1>1, <1>3, <2>1, <2>2
<1>5. ScreenSize \in Nat /\ ScreenSize >= 2 * W /\ At(0, 0) = 0 /\ At(0, H) = ScreenSize
      /\ At(0, H - 1) = ScreenSize - W
  BY <1>1, <1>2, <1>4
<1>. QED BY <1>1, <1>5 DEF Cells

\* Rows follow each other without overlap or gap.
LEMMA AtFacts ==
    /\ \A x \in Int, y \in 0 .. H : At(x, y) = At(0, y) + x /\ At(0, y) \in Nat
    /\ \A y, z \in 0 .. H : y < z => At(0, y) + W <= At(0, z)
    /\ \A y \in 0 .. (H - 1) : At(0, y + 1) = At(0, y) + W
<1>0. W = VGA_WIDTH /\ W \in Nat /\ H \in Nat
  BY Sizes
<1>1. ASSUME NEW x \in Int, NEW y \in 0 .. H PROVE At(x, y) = At(0, y) + x /\ At(0, y) \in Nat
  <2>1. y \in Nat
    BY <1>0
  <2>2. y * W \in Nat
    BY <1>0, <2>1
  <2>3. At(x, y) = y * W + x /\ At(0, y) = y * W + 0
    BY <1>0 DEF At
  <2>. QED BY <2>2, <2>3
<1>2. ASSUME NEW y \in 0 .. H, NEW z \in 0 .. H, y < z PROVE At(0, y) + W <= At(0, z)
  <2>1. y \in Nat /\ z \in Nat
    BY <1>0
  <2>2. y * W + W <= z * W /\ y * W \in Nat /\ z * W \in Nat
    BY <1>0, <1>2, <2>1, Products
  <2>3. At(0, z) = z * W + 0 /\ At(0, y) = y * W + 0
    BY <1>0 DEF At
  <2>. QED BY <1>0, <2>2, <2>3
<1>3. ASSUME NEW y \in 0 .. (H - 1) PROVE At(0, y + 1) = At(0, y) + W
  <2>1. y \in Nat
    BY <1>0
  <2>2. (y + 1) * W = y * W + W /\ y * W \in Nat
    BY <1>0, <2>1
  <2>3. At(0, y + 1) = (y + 1) * W + 0 /\ At(0, y) = y * W + 0
    BY <1>0 DEF At
  <2>. QED BY <1>0, <2>2, <2>3
<1>. QED BY <1>1, <1>2, <1>3

\* The cells of the screen, and those that a cursor within reach may write.
LEMMA CellFacts ==
    /\ \A x \in 0 .. (W - 1), y \in 0 .. (H - 1) : At(x, y) \in 0 .. (ScreenSize - 1)
    /\ \A x \in 0 .. W, y \in 0 .. H : At(x, y) \in Nat /\ (x < W \/ y < H => At(x, y) \in Cells)
    /\ 0 .. (ScreenSize - 1) \subseteq Cells
<1>1. ASSUME NEW x \in 0 .. (W - 1), NEW y \in 0 .. (H - 1) PROVE At(x, y) \in 0 .. (ScreenSize - 1)
  <2>1. y \in 0 .. H /\ H \in 0 .. H /\ y < H /\ x \in Int
    BY Sizes
  <2>2. At(x, y) = At(0, y) + x /\ At(0, y) \in Nat /\ At(0, y) + W <= At(0, H)
    BY <2>1, AtFacts
  <2>. QED BY <2>2, Sizes
<1>2. ASSUME NEW x \in 0 .. W, NEW y \in 0 .. H
      PROVE  At(x, y) \in Nat /\ (x < W \/ y < H => At(x, y) \in Cells)
  <2>1. H \in 0 .. H /\ x \in Int
    BY Sizes
  <2>2. At(x, y) = At(0, y) + x /\ At(0, y) \in Nat /\ (y < H => At(0, y) + W <= At(0, H))
    BY <2>1, AtFacts
  <2>3. CASE y < H
    BY <2>2, <2>3, Sizes
  <2>4. CASE y = H
    BY <2>2, <2>4, Sizes
  <2>. QED BY <2>3, <2>4, Sizes
<1>3. 0 .. (ScreenSize - 1) \subseteq Cells
  BY Sizes
<1>. QED BY <1>1, <1>2, <1>3

\* The columns of one row up to x are the cells between its cursor positions.
LEMMA RowCells ==
    ASSUME NEW x \in 0 .. (W - 1), NEW y \in 0 .. (H - 1),
           NEW a \in 0 .. W, NEW b \in 0 .. W, NEW r \in 0 .. (H - 1)
    PROVE  At(x, y) \in At(a, r) .. (At(b, r) - 1) <=> y = r /\ a <= x /\ x < b
<1>1. y \in 0 .. H /\ r \in 0 .. H /\ x \in Int /\ a \in Int /\ b \in Int /\ W \in Nat /\ H \in Nat
  BY Sizes
<1>2. /\ At(x, y) = At(0, y) + x /\ At(a, r) = At(0, r) + a /\ At(b, r) = At(0, r) + b
      /\ At(0, y) \in Nat /\ At(0, r) \in Nat
      /\ (y < r => At(0, y) + W <= At(0, r)) /\ (r < y => At(0, r) + W <= At(0, y))
  BY <1>1, AtFacts
<1>3. CASE y = r
  BY <1>1, <1>2, <1>3
<1>4. CASE y < r
  BY <1>1, <1>2, <1>4
<1>5. CASE r < y
  BY <1>1, <1>2, <1>5
<1>. QED BY <1>1, <1>3, <1>4, <1>5

-----------------------------------------------------------------------------
(***************************************************************************)
(* Tab stops.                                                              *)
(***************************************************************************)
LEMMA DivMod ==
    ASSUME NEW b \in Nat, b > 0, NEW a \in Nat
    PROVE  /\ a \div b \in Nat /\ a % b \in 0 .. (b - 1)
           /\ a = (a \div b) * b + (a % b)
OBVIOUS

LEMMA ModUnique ==
    ASSUME NEW b \in Nat, b > 0, NEW q \in Nat, NEW r \in 0 .. (b - 1)
    PROVE  (q * b + r) % b = r
OBVIOUS

\* The next stop is the first column to the right that is a multiple of
\* TabStop, and it is not beyond the edge.
LEMMA Stops ==
    ASSUME NEW x \in 0 .. (W - 1)
    PROVE  /\ NextStop(x) \in (x + 1) .. W
           /\ NextStop(x) = x + (TabStop - (x % TabStop))
           /\ \A z \in (x + 1) .. NextStop(x) : z % TabStop = 0 <=> z = NextStop(x)
<1>. DEFINE T == TabStop
            q == x \div T
            r == x % T
            e == W \div T
<1>1. T \in Nat /\ T > 0 /\ W \in Nat /\ x \in Nat /\ x < W /\ W % T = 0 /\ VGA_WIDTH = W
  BY Sizes
<1>2. q \in Nat /\ r \in 0 .. (T - 1) /\ x = q * T + r
  BY <1>1, DivMod
<1>3. e \in Nat /\ W = e * T + 0
  BY <1>1, DivMod
<1>4. NextStop(x) = (q + 1) * T
  BY <1>1 DEF NextStop
<1>. HIDE DEF T, q, r, e
<1>5. (q + 1) * T = q * T + T /\ q * T \in Nat /\ e * T \in Nat
  BY <1>1, <1>2, <1>3
<1>6. NextStop(x) = x + (T - r)
  BY <1>1, <1>2, <1>4, <1>5
<1>7. q < e
  <2>1. CASE e <= q
    <3>1. e < q + 1 /\ q + 1 \in Nat
      BY <1>2, <1>3, <2>1
    <3>2. e * T + T <= (q + 1) * T
      BY <1>1, <1>3, <3>1, Products
    <3>. QED BY <1>1, <1>2, <1>3, <1>5, <3>2
  <2>. QED BY <1>2, <1>3, <2>1
<1>8. NextStop(x) \in (x + 1) .. W
  <2>1. q * T + T <= e * T
    BY <1>1, <1>2, <1>3, <1>7, Products
  <2>. QED BY <1>1, <1>2, <1>3, <1>4, <1>5, <2>1
<1>9. ASSUME NEW z \in (x + 1) .. NextStop(x) PROVE z % T = 0 <=> z = NextStop(x)
  <2>0. z \in Nat
    BY <1>1, <1>8
  <2>1. CASE z = NextStop(x)
    <3>1. z = (q + 1) * T + 0 /\ q + 1 \in Nat /\ 0 \in 0 .. (T - 1)
      BY <1>1, <1>2, <1>4, <1>5, <2>1
    <3>2. ((q + 1) * T + 0) % T = 0
      BY <1>1, <3>1, ModUnique
    <3>. QED BY <2>1, <3>1, <3>2
  <2>2. CASE z # NextStop(x)
    <3>. DEFINE d == z - q * T
    <3>1. z = q * T + d /\ d \in 0 .. (T - 1) /\ d # 0
      BY <1>1, <1>2, <1>4, <1>5, <2>0, <2>2
    <3>. HIDE DEF d
    <3>2. (q * T + d) % T = d
      BY <1>1, <1>2, <3>1, ModUnique
    <3>. QED BY <2>2, <3>1, <3>2
  <2>. QED BY <2>1, <2>2
<1>. QED BY <1>6, <1>8, <1>9 DEF T, r

-----------------------------------------------------------------------------
(***************************************************************************)
(* Whole terminal calls keep the cursor and the text memory.               *)
(***************************************************************************)
Terminals == [buffer : [Cells -> Text], row : 0 .. H, column : 0 .. W]

\* The cursor is on the screen.
OnScreen == {t \in Terminals : t.row < H /\ t.column < W}

Term(b, y, x) == [buffer |-> b, row |-> y, column |-> x]

LEMMA TermFields ==
    ASSUME NEW b, NEW y, NEW x
    PROVE  /\ Term(b, y, x).buffer = b /\ Term(b, y, x).row = y /\ Term(b, y, x).column = x
           /\ b \in [Cells -> Text] /\ y \in 0 .. H /\ x \in 0 .. W => Term(b, y, x) \in Terminals
BY DEF Term, Terminals

LEMMA TermIs ==
    ASSUME NEW t \in Terminals
    PROVE  /\ t = Term(t.buffer, t.row, t.column)
           /\ t.buffer \in [Cells -> Text] /\ t.row \in 0 .. H /\ t.column \in 0 .. W
BY DEF Term, Terminals

\* Two terminals that differ in their columns only go to the same next row.
LEMMA NextRowIs ==
    ASSUME NEW b, NEW y, NEW x
    PROVE  NextRow(Term(b, y, x)) =
              IF y + 1 >= H THEN Term(terminal_scroll(b), H - 1, 0) ELSE Term(b, y + 1, 0)
<1>. DEFINE t == Term(b, y, x)
<1>1. t.row = y /\ t.buffer = b
  BY TermFields
<1>. HIDE DEF t
<1>2. NextRow(t) = IF y + 1 >= H THEN Term(terminal_scroll(b), H - 1, 0) ELSE Term(b, y + 1, 0)
  BY <1>1 DEF NextRow, H, Term
<1>. QED BY <1>2 DEF t

LEMMA ScrollText ==
    ASSUME NEW b \in [Cells -> Text]
    PROVE  terminal_scroll(b) \in [Cells -> Text]
<1>0. W = VGA_WIDTH /\ W \in Nat /\ W > 1 /\ ScreenSize \in Nat
      /\ Cells = 0 .. (ScreenSize + W - 1) /\ ScreenSize >= 2 * W
  BY Sizes
<1>. SUFFICES ASSUME NEW i \in Cells
              PROVE  (IF i < ScreenSize - W THEN b[i + W]
                      ELSE IF i < ScreenSize THEN Blank ELSE b[i]) \in Text
  BY <1>0 DEF terminal_scroll
<1>1. i < ScreenSize - W => i + W \in Cells
  BY <1>0
<1>. QED BY <1>1 DEF Text

LEMMA NextRowOnScreen ==
    ASSUME NEW b \in [Cells -> Text], NEW y \in 0 .. H, NEW x
    PROVE  NextRow(Term(b, y, x)) \in OnScreen /\ NextRow(Term(b, y, x)).column = 0
<1>0. H \in Nat /\ W \in Nat /\ H > 1 /\ W > 1
  BY Sizes
<1>1. CASE y + 1 >= H
  <2>1. NextRow(Term(b, y, x)) = Term(terminal_scroll(b), H - 1, 0)
    BY <1>1, NextRowIs
  <2>2. terminal_scroll(b) \in [Cells -> Text] /\ H - 1 \in 0 .. H /\ 0 \in 0 .. W /\ H - 1 < H /\ 0 < W
    BY <1>0, ScrollText
  <2>3. Term(terminal_scroll(b), H - 1, 0) \in Terminals
    BY <2>2, TermFields
  <2>. QED BY <2>1, <2>2, <2>3, TermFields DEF OnScreen
<1>2. CASE ~(y + 1 >= H)
  <2>1. NextRow(Term(b, y, x)) = Term(b, y + 1, 0)
    BY <1>2, NextRowIs
  <2>2. y + 1 \in 0 .. H /\ 0 \in 0 .. W /\ y + 1 < H /\ 0 < W
    BY <1>0, <1>2
  <2>3. Term(b, y + 1, 0) \in Terminals
    BY <2>2, TermFields
  <2>. QED BY <2>1, <2>2, <2>3, TermFields DEF OnScreen
<1>. QED BY <1>1, <1>2

\* The text memory with the cells of row y from column x up to z drawn.
Drawn(b, y, x, z, c) == [i \in Cells |-> IF i \in At(x, y) .. (At(z, y) - 1) THEN c ELSE b[i]]

\* What is drawn at the cursor, and wraps at the edge.
LEMMA DrawnFields ==
    ASSUME NEW b \in [Cells -> Text], NEW y \in 0 .. H, NEW x \in 0 .. W,
           NEW c \in Text, NEW z \in Nat, NEW d, d = Drawn(b, y, x, z, c),
           NEW u, u = Wrapped(Filled(Term(b, y, x), c, z))
    PROVE  /\ u \in Terminals /\ u.column < W /\ (u.row = H => y = H)
           /\ d \in [Cells -> Text]
           /\ z < W => u = Term(d, y, z)
           /\ z >= W => u = NextRow(Term(d, y, W))
<1>0. W = VGA_WIDTH /\ H \in Nat /\ W \in Nat /\ H > 1 /\ W > 1
  BY Sizes
<1>1. d \in [Cells -> Text]
  BY DEF Drawn
<1>2. Filled(Term(b, y, x), c, z) = Term(d, y, z)
  <2>. DEFINE t == Term(b, y, x)
  <2>1. t.buffer = b /\ t.row = y /\ t.column = x
    BY TermFields
  <2>2. Filled(t, c, z) = Term(Drawn(b, y, x, z, c), y, z)
    <3>. HIDE DEF t
    <3>. QED BY <2>1 DEF Filled, Drawn, Term
  <2>. QED BY <2>2
<1>3. CASE z < W
  <2>1. u = Term(d, y, z)
    BY <1>0, <1>2, <1>3, TermFields DEF Wrapped
  <2>2. z \in 0 .. W
    BY <1>0, <1>3
  <2>3. Term(d, y, z) \in Terminals
    BY <1>1, <2>2, TermFields
  <2>. QED BY <1>0, <1>1, <1>3, <2>1, <2>3, TermFields
<1>4. CASE z >= W
  <2>1. u = NextRow(Term(d, y, z))
    BY <1>0, <1>2, <1>4, TermFields DEF Wrapped
  <2>2. u = NextRow(Term(d, y, W))
    BY <2>1, NextRowIs
  <2>3. u \in OnScreen /\ u.column = 0
    BY <1>1, <2>1, NextRowOnScreen
  <2>. QED BY <1>0, <1>1, <1>4, <2>2, <2>3 DEF OnScreen
<1>. QED BY <1>0, <1>3, <1>4

LEMMA Puts ==
    ASSUME NEW t
    PROVE  /\ terminal_putchar(t, NL) = NextRow(t)
           /\ terminal_putchar(t, BS) = Erased(t)
           /\ terminal_putchar(t, TAB) = Wrapped(Filled(t, Blank, NextStop(t.column)))
           /\ \A c : c \notin {NL, BS, TAB} =>
                        terminal_putchar(t, c) = Wrapped(Filled(t, c, t.column + 1))
BY DEF terminal_putchar, NL, BS, TAB

LEMMA ErasedFields ==
    ASSUME NEW b \in [Cells -> Text], NEW y \in 0 .. H, NEW x \in 1 .. W
    PROVE  /\ Erased(Term(b, y, x)) = Term([b EXCEPT ![At(x - 1, y)] = Blank], y, x - 1)
           /\ [b EXCEPT ![At(x - 1, y)] = Blank] \in [Cells -> Text]
<1>1. x # 0
  BY Sizes
<1>. DEFINE t == Term(b, y, x)
            d == [b EXCEPT ![At(x - 1, y)] = Blank]
<1>2. t.buffer = b /\ t.row = y /\ t.column = x
  BY TermFields
<1>3. Erased(t) = Term(d, y, x - 1)
  <2>. HIDE DEF t
  <2>. QED BY <1>1, <1>2 DEF Erased, Term
<1>. QED BY <1>3 DEF Text

\* A whole call leaves the column on the screen, and takes the row below
\* the screen only from there.
LEMMA PutKeeps ==
    ASSUME NEW t \in Terminals, NEW c \in Chars, t.column < W \/ c # BS,
           NEW u, u = terminal_putchar(t, c)
    PROVE  u \in Terminals /\ u.column < W /\ (u.row = H => t.row = H)
<1>0. W = VGA_WIDTH /\ H \in Nat /\ W \in Nat /\ H > 1 /\ W > 1
  BY Sizes
<1>. DEFINE b == t.buffer
            y == t.row
            x == t.column
<1>1. t = Term(b, y, x) /\ b \in [Cells -> Text] /\ y \in 0 .. H /\ x \in 0 .. W
  BY TermIs
<1>. HIDE DEF b, y, x
<1>2. CASE c = NL
  <2>1. u = NextRow(t)
    BY <1>2, Puts
  <2>2. u \in OnScreen /\ u.column = 0
    BY <1>1, <2>1, NextRowOnScreen
  <2>. QED BY <1>0, <2>2 DEF OnScreen
<1>3. CASE c = BS
  <2>1. u = Erased(t)
    BY <1>3, Puts
  <2>2. CASE x = 0
    BY <1>0, <1>1, <2>1, <2>2, TermFields DEF Erased
  <2>3. CASE x # 0
    <3>. DEFINE d == [b EXCEPT ![At(x - 1, y)] = Blank]
    <3>1. x \in 1 .. W
      BY <1>0, <1>1, <2>3
    <3>2. u = Term(d, y, x - 1) /\ d \in [Cells -> Text]
      BY <1>1, <2>1, <3>1, ErasedFields
    <3>. HIDE DEF d
    <3>3. x - 1 \in 0 .. W /\ x - 1 < W
      BY <1>0, <3>1
    <3>4. u \in Terminals
      BY <1>1, <3>2, <3>3, TermFields
    <3>. QED BY <1>1, <3>2, <3>3, <3>4, TermFields
  <2>. QED BY <2>2, <2>3
<1>4. CASE c = TAB
  <2>. DEFINE z == NextStop(x)
              d == Drawn(b, y, x, z, Blank)
  <2>1. u = Wrapped(Filled(t, Blank, z))
    BY <1>4, Puts DEF x
  <2>2. z \in Nat
    <3>1. CASE x < W
      <4>1. x \in 0 .. (W - 1)
        BY <1>0, <1>1, <3>1
      <4>2. z \in (x + 1) .. W
        BY <4>1, Stops
      <4>. HIDE DEF z
      <4>. QED BY <1>0, <4>1, <4>2
    <3>2. CASE x = W
      BY <1>0, <3>2 DEF NextStop
    <3>. QED BY <1>0, <1>1, <3>1, <3>2
  <2>3. d = Drawn(b, y, x, z, Blank) /\ Blank \in Text
    BY DEF Text
  <2>. HIDE DEF z, d
  <2>. QED BY <1>1, <2>1, <2>2, <2>3, DrawnFields, TermFields
<1>5. CASE c \notin {NL, BS, TAB}
  <2>. DEFINE z == x + 1
              d == Drawn(b, y, x, z, c)
  <2>1. u = Wrapped(Filled(t, c, z))
    BY <1>5, Puts DEF x
  <2>2. z \in Nat /\ c \in Text
    BY <1>0, <1>1, <1>5 DEF Chars, Text
  <2>3. d = Drawn(b, y, x, z, c)
    OBVIOUS
  <2>. HIDE DEF z, d
  <2>. QED BY <1>1, <2>1, <2>2, <2>3, DrawnFields, TermFields
<1>. QED BY <1>2, <1>3, <1>4, <1>5

LEMMA PutOnScreen ==
    ASSUME NEW t \in OnScreen, NEW c \in Chars
    PROVE  terminal_putchar(t, c) \in OnScreen
<1>1. t \in Terminals /\ t.row < H /\ t.column < W
  BY DEF OnScreen
<1>2. DEFINE u == terminal_putchar(t, c)
<1>3. u \in Terminals /\ u.column < W /\ (u.row = H => t.row = H)
  <2>. HIDE DEF u
  <2>1. u = terminal_putchar(t, c)
    BY DEF u
  <2>. QED BY <1>1, <2>1, PutKeeps
<1>. HIDE DEF u
<1>4. u.row \in 0 .. H /\ H \in Nat
  BY <1>3, Sizes DEF Terminals
<1>. QED BY <1>1, <1>3, <1>4 DEF OnScreen, u

\* The values of the recursion of terminal_writestring.
Prints(t, data, g) ==
    g = [n \in 0 .. Len(data) |-> IF n = 0 THEN t ELSE terminal_putchar(g[n - 1], data[n])]

LEMMA PrintsExist ==
    ASSUME NEW t \in OnScreen, NEW data \in Seq(Chars)
    PROVE  \E g \in [0 .. Len(data) -> OnScreen] : Prints(t, data, g)
<1>. DEFINE n == Len(data)
            F == [i \in 1 .. n |-> [u \in OnScreen |-> terminal_putchar(u, data[i])]]
<1>1. n \in Nat /\ \A i \in 1 .. n : data[i] \in Chars
  OBVIOUS
<1>2. F \in [1 .. n -> [OnScreen -> OnScreen]]
  BY <1>1, PutOnScreen
<1>4. PICK g \in [0 .. n -> OnScreen] : Steps(g, n, t, F)
  <2>. HIDE DEF F, n
  <2>. QED BY <1>1, <1>2, RecursionIn
<1>5. ASSUME NEW i \in 0 .. n, i # 0 PROVE F[i][g[i - 1]] = terminal_putchar(g[i - 1], data[i])
  <2>1. i \in 1 .. n /\ i - 1 \in 0 .. n
    BY <1>1, <1>5
  <2>2. g[i - 1] \in OnScreen
    BY <2>1
  <2>. QED BY <2>1, <2>2
<1>. HIDE DEF F
<1>6. Prints(t, data, g)
  BY <1>4, <1>5 DEF Prints, Steps
<1>. QED BY <1>6

LEMMA WriteStringPrints ==
    ASSUME NEW t, NEW data, \E g : Prints(t, data, g)
    PROVE  \E g : Prints(t, data, g) /\ terminal_writestring(t, data) = g[Len(data)]
<1>. DEFINE G == CHOOSE g : Prints(t, data, g)
<1>1. Prints(t, data, G)
  OBVIOUS
<1>2. terminal_writestring(t, data) = G[Len(data)]
  BY DEF terminal_writestring, Prints
<1>. HIDE DEF G
<1>. QED BY <1>1, <1>2

LEMMA WriteStringOnScreen ==
    ASSUME NEW t \in OnScreen, NEW data \in Seq(Chars)
    PROVE  \E g \in [0 .. Len(data) -> OnScreen] :
              Prints(t, data, g) /\ terminal_writestring(t, data) = g[Len(data)]
<1>. DEFINE n == Len(data)
<1>1. n \in Nat
  OBVIOUS
<1>2. PICK f \in [0 .. n -> OnScreen] : Prints(t, data, f)
  BY PrintsExist
<1>3. PICK g : Prints(t, data, g) /\ terminal_writestring(t, data) = g[n]
  BY <1>2, WriteStringPrints
<1>. DEFINE T == {m \in Nat : m <= n => g[m] = f[m]}
<1>4. 0 \in T
  <2>1. 0 \in 0 .. n
    BY <1>1
  <2>. QED BY <1>2, <1>3, <2>1 DEF Prints
<1>5. ASSUME NEW m \in Nat, m \in T PROVE m + 1 \in T
  <2>. SUFFICES ASSUME m + 1 <= n PROVE g[m + 1] = f[m + 1]
    OBVIOUS
  <2>. HIDE DEF n
  <2>1. m + 1 \in 0 .. n /\ m + 1 # 0 /\ m + 1 - 1 = m /\ m <= n
    BY <1>1
  <2>2. g[m + 1] = terminal_putchar(g[m], data[m + 1]) /\ f[m + 1] = terminal_putchar(f[m], data[m + 1])
    BY <1>2, <1>3, <2>1 DEF Prints, n
  <2>. QED BY <1>5, <2>1, <2>2
<1>. HIDE DEF T, n
<1>6. Nat \subseteq T
  BY <1>4, <1>5, SetInduction
<1>7. \A m \in 0 .. n : g[m] = f[m]
  BY <1>1, <1>6 DEF T
<1>8. n \in 0 .. n
  BY <1>1
<1>. QED BY <1>2, <1>3, <1>7, <1>8 DEF n

-----------------------------------------------------------------------------
(***************************************************************************)
(* The control of a terminal call: what each label stands for.             *)
(***************************************************************************)
Putting == {"row", "write", "right", "left", "blank", "tab", "stop", "home", "down", "scroll", "bottom"}
Clearing == {"clear", "top", "corner"}

CallInv ==
    /\ pc \in Putting => todo # <<>>
    /\ pc = "row" => Head(todo) # NL /\ reg.column < W /\ (Head(todo) = BS => reg.column > 0)
    /\ pc = "write" => Head(todo) \in Text /\ reg.column < W
    /\ pc = "right" => Head(todo) \in Text /\ reg.column + 1 < W
    /\ pc \in {"left", "blank"} => Head(todo) = BS /\ reg.column \in 1 .. (W - 1)
    /\ pc = "tab" => Head(todo) = TAB /\ reg.column < W
    /\ pc = "stop" => Head(todo) = TAB
    /\ pc \in {"home", "down", "scroll", "bottom"} => Head(todo) # BS
    /\ pc \in {"scroll", "clear"} => k < ScreenSize
    /\ pc \notin {"scroll", "bottom"} \cup Clearing => k = 0
    /\ pc \in Clearing => todo = Prompt

ConsoleInv == TypeOK /\ CursorStays /\ CallInv

LEMMA ScreenIs ==
    ASSUME TypeOK
    PROVE  Screen = Term(buffer, row, column) /\ Screen \in Terminals
<1>1. W = VGA_WIDTH /\ H = VGA_HEIGHT
  BY DEF W, H
<1>2. Screen = Term(buffer, row, column)
  BY DEF Screen, Term
<1>3. buffer \in [Cells -> Text] /\ row \in 0 .. H /\ column \in 0 .. W
  BY <1>1 DEF TypeOK, Text
<1>. QED BY <1>2, <1>3, TermFields

LEMMA CharFacts ==
    /\ Keys \subseteq Chars /\ Text \subseteq Chars /\ NL \in Chars /\ BS \in Chars
    /\ NL \notin Text /\ BS \notin Text /\ TAB \notin Text /\ Blank \in Text
    /\ NL # BS /\ NL # TAB /\ BS # TAB
    /\ \A c \in Chars : c \notin {NL, BS, TAB} => c \in Text
    /\ Prompt \in Seq(Chars) /\ Outputs \subseteq Seq(Chars) /\ Writes \subseteq Seq(Chars)
    /\ KeyMax \in Nat /\ LineMax \in Nat /\ EchoMax \in Nat
<1>1. Glyphs \cap {NL, BS, TAB, Blank} = {}
  BY TerminalAssumption
<1>2. NL # BS /\ NL # TAB /\ BS # TAB /\ Blank # NL /\ Blank # BS /\ Blank # TAB
  BY DEF NL, BS, TAB, Blank
<1>3. Seq(Glyphs \cup {Blank}) \subseteq Seq(Chars) /\ Seq(Glyphs \cup {Blank, TAB, NL}) \subseteq Seq(Chars)
  BY DEF Chars
<1>. QED BY <1>1, <1>2, <1>3, ConsoleAssumption DEF Chars, Text

LEMMA ConsoleInit == Init => ConsoleInv
<1>. SUFFICES ASSUME Init PROVE ConsoleInv
  OBVIOUS
<1>0. W = VGA_WIDTH /\ H = VGA_HEIGHT /\ H \in Nat /\ W \in Nat /\ H > 1 /\ W > 1 /\ ScreenSize \in Nat
  BY Sizes
<1>1. buffer = [i \in Cells |-> Blank] /\ row = 0 /\ column = 0
  BY DEF Init, terminal_initialize
<1>2. todo \in Seq(Chars)
  BY CharFacts DEF Init
<1>3. TypeOK
  <2>1. buffer \in [Cells -> Glyphs \cup {Blank}] /\ row \in 0 .. VGA_HEIGHT /\ column \in 0 .. VGA_WIDTH
    BY <1>0, <1>1
  <2>2. reg \in [row : 0 .. (VGA_HEIGHT - 1), column : 0 .. VGA_WIDTH]
    <3>1. 0 \in 0 .. (VGA_HEIGHT - 1) /\ 0 \in 0 .. VGA_WIDTH
      BY <1>0
    <3>. QED BY <3>1 DEF Init
  <2>3. k \in 0 .. ScreenSize /\ echoes \in 0 .. EchoMax
    BY <1>0, CharFacts DEF Init
  <2>4. queue \in Seq(Keys) /\ Len(queue) <= KeyMax /\ cmd \in Seq(Keys \ {NL, BS}) /\ Len(cmd) <= LineMax
    BY CharFacts DEF Init
  <2>. QED BY <1>2, <2>1, <2>2, <2>3, <2>4 DEF Init, TypeOK
<1>4. CursorStays /\ CallInv
  BY <1>0, <1>1 DEF Init, CursorStays, CallInv, Putting, Clearing
<1>. QED BY <1>3, <1>4 DEF ConsoleInv

LEMMA IrqKeeps ==
    ASSUME ConsoleInv, NEW c \in Keys, keyboard_irq(c)
    PROVE  ConsoleInv'
<1>0. W = VGA_WIDTH /\ H = VGA_HEIGHT /\ H \in Nat /\ W \in Nat /\ H > 1 /\ W > 1 /\ ScreenSize \in Nat
  BY Sizes
<1>1. TypeOK /\ CursorStays /\ CallInv
  BY DEF ConsoleInv
<1>2. queue' \in Seq(Keys) /\ Len(queue') <= KeyMax
  BY <1>1, CharFacts DEF TypeOK, keyboard_irq
<1>3. CASE Echoed(c)
  <2>. DEFINE u == terminal_putchar(Screen, c)
  <2>1. Screen \in Terminals /\ c \in Chars /\ c # BS
    BY <1>1, <1>3, ScreenIs, CharFacts DEF Echoed
  <2>2. u \in Terminals /\ u.column < W /\ (u.row = H => Screen.row = H)
    <3>. HIDE DEF u
    <3>1. u = terminal_putchar(Screen, c)
      BY DEF u
    <3>. QED BY <2>1, <3>1, PutKeeps
  <2>. HIDE DEF u
  <2>3. buffer' = u.buffer /\ row' = u.row /\ column' = u.column /\ Screen.row = row
    BY <1>3 DEF keyboard_irq, SetScreen, Screen, u
  <2>4. buffer' \in [Cells -> Glyphs \cup {Blank}] /\ row' \in 0 .. H /\ column' \in 0 .. W
        /\ column' < W /\ (row' = H => row = H)
    BY <2>2, <2>3, TermIs DEF Text
  <2>5. echoes' \in 0 .. EchoMax /\ torn' \in BOOLEAN /\ disturbed' \in BOOLEAN
    <3>1. echoes' \in 0 .. EchoMax
      BY <1>1, <1>3, CharFacts, SMTT(30) DEF keyboard_irq, TypeOK
    <3>2. torn' \in BOOLEAN /\ disturbed' \in BOOLEAN
      BY <1>1, <1>3 DEF keyboard_irq, TypeOK
    <3>. QED BY <3>1, <3>2
  <2>6. UNCHANGED <<pc, reg, k, todo, after, cmd>>
    BY DEF keyboard_irq
  <2>7. TypeOK'
    BY <1>0, <1>1, <1>2, <2>4, <2>5, <2>6 DEF TypeOK
  <2>8. CursorStays'
    <3>1. row' = H => pc' \in {"scroll", "bottom"}
      BY <1>0, <1>1, <2>4, <2>6 DEF CursorStays
    <3>2. column' # W
      BY <1>0, <2>4
    <3>. QED BY <1>0, <1>1, <2>6, <3>1, <3>2 DEF CursorStays
  <2>9. CallInv'
    BY <1>1, <2>6 DEF CallInv
  <2>. QED BY <2>7, <2>8, <2>9 DEF ConsoleInv
<1>4. CASE ~Echoed(c)
  <2>1. UNCHANGED <<buffer, row, column, pc, reg, k, echoes, todo, after, cmd, torn, disturbed>>
    BY <1>4 DEF keyboard_irq, term
  <2>. QED BY <1>1, <1>2, <2>1 DEF ConsoleInv, TypeOK, CursorStays, CallInv
<1>. QED BY <1>3, <1>4

\* A call that returns with the cursor on the screen.
LEMMA PutDoneKeeps ==
    ASSUME ConsoleInv, todo # <<>>, PutDone, CallOnly, disturbed' \in BOOLEAN,
           buffer' \in [Cells -> Text], row' \in 0 .. (H - 1), column' \in 0 .. (W - 1)
    PROVE  ConsoleInv'
<1>0. W = VGA_WIDTH /\ H = VGA_HEIGHT /\ H \in Nat /\ W \in Nat /\ H > 1 /\ W > 1 /\ ScreenSize \in Nat
      /\ EchoMax \in Nat
  BY Sizes, CharFacts
<1>1. TypeOK /\ CursorStays /\ CallInv
  BY DEF ConsoleInv
<1>2. /\ pc' = "free" /\ todo' = Tail(todo) /\ reg' = [row |-> 0, column |-> 0] /\ k' = 0 /\ echoes' = 0
      /\ after' = after /\ queue' = queue /\ cmd' = cmd /\ torn' = torn
  BY DEF PutDone, CallOnly, Goto
<1>3. todo' \in Seq(Chars)
  BY <1>1, <1>2 DEF TypeOK
<1>4. reg' \in [row : 0 .. (VGA_HEIGHT - 1), column : 0 .. VGA_WIDTH]
  <2>1. 0 \in 0 .. (VGA_HEIGHT - 1) /\ 0 \in 0 .. VGA_WIDTH
    BY <1>0
  <2>. QED BY <1>2, <2>1
<1>5. k' \in 0 .. ScreenSize /\ echoes' \in 0 .. EchoMax /\ row' \in 0 .. VGA_HEIGHT /\ column' \in 0 .. VGA_WIDTH
      /\ row' # H /\ column' # W
  BY <1>0, <1>2
<1>6. TypeOK'
  BY <1>1, <1>2, <1>3, <1>4, <1>5 DEF TypeOK, Text
<1>7. CursorStays'
  BY <1>0, <1>2, <1>5 DEF CursorStays
<1>8. CallInv'
  BY <1>2 DEF CallInv, Putting, Clearing
<1>. QED BY <1>6, <1>7, <1>8 DEF ConsoleInv

\* A call that goes on.
LEMMA PutOnKeeps ==
    ASSUME ConsoleInv, CallOnly, PutOn, UNCHANGED disturbed,
           pc' \in Putting \cup Clearing, k' \in 0 .. ScreenSize,
           buffer' \in [Cells -> Text], row' \in 0 .. H, column' \in 0 .. W,
           reg' \in [row : 0 .. (H - 1), column : 0 .. W]
    PROVE  TypeOK'
<1>1. TypeOK
  BY DEF ConsoleInv
<1>2. UNCHANGED <<todo, echoes, after, queue, cmd, torn, disturbed>>
  BY DEF PutOn, CallOnly
<1>. QED BY <1>1, <1>2 DEF TypeOK, Putting, Clearing, Text, W, H

LEMMA TerminalStepKeeps ==
    ASSUME ConsoleInv, TerminalStep
    PROVE  ConsoleInv'
<1>0. W = VGA_WIDTH /\ H = VGA_HEIGHT /\ H \in Nat /\ W \in Nat /\ H > 1 /\ W > 1 /\ ScreenSize \in Nat
      /\ ScreenSize > 0 /\ 0 .. (ScreenSize - 1) \subseteq Cells /\ Blank \in Text
  BY Sizes, CellFacts, CharFacts
<1>1. TypeOK /\ CursorStays /\ CallInv
  BY DEF ConsoleInv
<1>2. /\ buffer \in [Cells -> Text] /\ row \in 0 .. H /\ column \in 0 .. W
      /\ reg \in [row : 0 .. (H - 1), column : 0 .. W]
      /\ reg.row \in 0 .. (H - 1) /\ reg.column \in 0 .. W
      /\ k \in 0 .. ScreenSize /\ todo \in Seq(Chars) /\ disturbed \in BOOLEAN
      /\ (todo # <<>> => Head(todo) \in Chars)
  BY <1>0, <1>1 DEF TypeOK, Text
<1>3. CASE NewlineLoad
  <2>1. row < H /\ column < W
    BY <1>0, <1>1, <1>2, <1>3 DEF NewlineLoad, CursorStays
  <2>2. reg' \in [row : 0 .. (H - 1), column : 0 .. W]
    BY <1>0, <1>2, <1>3, <2>1 DEF NewlineLoad
  <2>3. UNCHANGED term
    BY <1>3 DEF NewlineLoad
  <2>8. TypeOK'
    BY <1>0, <1>1, <1>2, <1>3, <2>1, <2>2, <2>3, PutOnKeeps DEF term, NewlineLoad, Goto, Putting, Clearing
  <2>9. CursorStays'
    BY <1>0, <1>1, <1>2, <1>3, <2>1, <2>2, <2>3, CellFacts DEF NewlineLoad, Goto, CursorStays, CallInv, PutOn, CallOnly, term
  <2>10. CallInv'
    BY <1>0, <1>1, <1>2, <1>3, <2>1, <2>2, <2>3, CharFacts DEF NewlineLoad, Goto, CallInv, Putting, Clearing, PutOn, CallOnly, term
  <2>. QED BY <2>8, <2>9, <2>10 DEF ConsoleInv
<1>4. CASE LoadColumn
  <2>1. row < H /\ column < W
    BY <1>0, <1>1, <1>2, <1>4 DEF LoadColumn, CursorStays
  <2>2. reg' \in [row : 0 .. (H - 1), column : 0 .. W]
    BY <1>0, <1>2, <1>4, <2>1 DEF LoadColumn
  <2>3. UNCHANGED term
    BY <1>4 DEF LoadColumn
  <2>8. TypeOK'
    BY <1>0, <1>1, <1>2, <1>4, <2>1, <2>2, <2>3, PutOnKeeps DEF term, LoadColumn, Goto, Putting, Clearing
  <2>9. CursorStays'
    BY <1>0, <1>1, <1>2, <1>4, <2>1, <2>2, <2>3, CellFacts DEF LoadColumn, Goto, CursorStays, CallInv, PutOn, CallOnly, term
  <2>10. CallInv'
    BY <1>0, <1>1, <1>2, <1>4, <2>1, <2>2, <2>3, CharFacts DEF LoadColumn, Goto, CallInv, Putting, Clearing, PutOn, CallOnly, term
  <2>. QED BY <2>8, <2>9, <2>10 DEF ConsoleInv
<1>5. CASE LoadRow
  <2>1. row < H /\ column < W
    BY <1>0, <1>1, <1>2, <1>5 DEF LoadRow, CursorStays
  <2>2. reg' \in [row : 0 .. (H - 1), column : 0 .. W]
    BY <1>0, <1>2, <1>5, <2>1 DEF LoadRow
  <2>3. UNCHANGED term
    BY <1>5 DEF LoadRow
  <2>8. TypeOK'
    BY <1>0, <1>1, <1>2, <1>5, <2>1, <2>2, <2>3, PutOnKeeps DEF term, LoadRow, Goto, Putting, Clearing
  <2>4. /\ reg'.column = reg.column /\ reg'.row = row /\ reg.column < W
        /\ UNCHANGED <<row, column, todo, k>> /\ todo # <<>>
        /\ Head(todo) # NL /\ (Head(todo) = BS => reg.column > 0)
    BY <1>0, <1>1, <1>2, <1>5, <2>3 DEF LoadRow, PutOn, CallInv, Putting, term
  <2>5. /\ pc' \in {"left", "tab", "write"} /\ k = 0
        /\ (pc' = "left" => Head(todo) = BS) /\ (pc' = "tab" => Head(todo) = TAB)
        /\ (pc' = "write" => Head(todo) \notin {BS, TAB})
    BY <1>1, <1>5, CharFacts DEF LoadRow, Goto, CallInv, Clearing
  <2>9. CursorStays'
    <3>1. reg'.column \in 0 .. (W - 1) /\ reg'.row \in 0 .. (H - 1)
      BY <1>0, <1>2, <2>1, <2>4
    <3>2. At(reg'.column, reg'.row) \in 0 .. (ScreenSize - 1)
      BY <3>1, CellFacts
    <3>. QED BY <1>0, <1>2, <2>1, <2>4, <2>5, <3>2 DEF CursorStays
  <2>10. CallInv'
    BY <1>0, <1>2, <2>4, <2>5, CharFacts DEF CallInv, Putting, Clearing
  <2>. QED BY <2>8, <2>9, <2>10 DEF ConsoleInv
<1>6. CASE EraseAtEdge
  <2>1. UNCHANGED <<buffer, row, column>> /\ row < H /\ column < W /\ todo # <<>> /\ disturbed' = TRUE
    BY <1>0, <1>1, <1>2, <1>6 DEF EraseAtEdge, CursorStays, term
  <2>. QED BY <1>0, <1>2, <1>6, <2>1, PutDoneKeeps DEF EraseAtEdge
<1>7. CASE WriteGlyph
  <2>1. buffer' \in [Cells -> Text]
    BY <1>0, <1>1, <1>2, <1>7 DEF WriteGlyph, PutEntry, CallInv
  <2>8. TypeOK'
    BY <1>0, <1>1, <1>2, <1>7, <2>1, PutOnKeeps DEF WriteGlyph, Goto, Putting, Clearing
  <2>9. CursorStays'
    BY <1>0, <1>1, <1>2, <1>7, <2>1, CellFacts DEF WriteGlyph, Goto, CursorStays, CallInv, PutOn, CallOnly, term
  <2>10. CallInv'
    BY <1>0, <1>1, <1>2, <1>7, <2>1, CharFacts DEF WriteGlyph, Goto, CallInv, Putting, Clearing, PutOn, CallOnly, term
  <2>. QED BY <2>8, <2>9, <2>10 DEF ConsoleInv
<1>8. CASE MoveRight
  BY <1>0, <1>1, <1>2, <1>8, PutDoneKeeps DEF MoveRight, CallInv, Putting, CursorStays
<1>9. CASE MoveLeft
  <2>8. TypeOK'
    BY <1>0, <1>1, <1>2, <1>9, PutOnKeeps DEF MoveLeft, Goto, CallInv, Putting, Clearing
  <2>9. CursorStays'
    BY <1>0, <1>1, <1>2, <1>9, CellFacts DEF MoveLeft, Goto, CursorStays, CallInv, PutOn, CallOnly, term
  <2>10. CallInv'
    BY <1>0, <1>1, <1>2, <1>9, CharFacts DEF MoveLeft, Goto, CallInv, Putting, Clearing, PutOn, CallOnly, term
  <2>. QED BY <2>8, <2>9, <2>10 DEF ConsoleInv
<1>10. CASE BlankErased
  <2>1. buffer' \in [Cells -> Text]
    BY <1>0, <1>2, <1>10 DEF BlankErased, PutEntry
  <2>2. row' = row /\ column' = column /\ row < H /\ column < W /\ todo # <<>>
    BY <1>0, <1>1, <1>2, <1>10 DEF BlankErased, CallInv, Putting, CursorStays
  <2>. QED BY <1>0, <1>1, <1>2, <1>10, <2>1, <2>2, PutDoneKeeps DEF BlankErased
<1>11. CASE TabBlank
  <2>1. buffer' \in [Cells -> Text]
    BY <1>0, <1>1, <1>2, <1>11 DEF TabBlank, PutEntry, CallInv
  <2>2. reg.column < W /\ reg.column + 1 \in 0 .. W
    BY <1>0, <1>1, <1>2, <1>11 DEF TabBlank, CallInv
  <2>3. reg' = [reg EXCEPT !.column = reg.column + 1] /\ pc' \in {"stop", "tab"}
    BY <1>11 DEF TabBlank, Goto
  <2>4. reg' \in [row : 0 .. (H - 1), column : 0 .. W] /\ reg'.column = reg.column + 1
    BY <1>2, <2>2, <2>3
  <2>5. pc' = "tab" => reg.column + 1 # W
    BY <1>0, <1>11, Sizes DEF TabBlank, Goto
  <2>8. TypeOK'
    BY <1>0, <1>1, <1>2, <1>11, <2>1, <2>2, <2>3, <2>4, <2>5, PutOnKeeps DEF TabBlank, Goto, Putting, Clearing
  <2>6. UNCHANGED <<row, column>> /\ row < H /\ column < W /\ reg'.row = reg.row
    BY <1>0, <1>1, <1>2, <1>11, <2>3 DEF TabBlank, CursorStays
  <2>9. CursorStays'
    <3>1. pc' = "tab" => At(reg'.column, reg'.row) \in 0 .. (ScreenSize - 1)
      <4>. SUFFICES ASSUME pc' = "tab" PROVE At(reg'.column, reg'.row) \in 0 .. (ScreenSize - 1)
        OBVIOUS
      <4>1. reg'.column \in 0 .. (W - 1) /\ reg'.row \in 0 .. (H - 1)
        BY <1>0, <1>2, <2>2, <2>4, <2>5, <2>6
      <4>. QED BY <4>1, CellFacts
    <3>. QED BY <1>0, <1>2, <2>3, <2>6, <3>1 DEF CursorStays
  <2>10. CallInv'
    BY <1>0, <1>1, <1>2, <1>11, <2>1, <2>2, <2>3, <2>4, <2>5, CharFacts, SMTT(30) DEF TabBlank, Goto, CallInv, Putting, Clearing, PutOn, CallOnly, term
  <2>. QED BY <2>8, <2>9, <2>10 DEF ConsoleInv
<1>12. CASE TabAtStop
  <2>0. row < H /\ todo # <<>>
    BY <1>0, <1>1, <1>2, <1>12 DEF TabAtStop, CursorStays, CallInv, Putting
  <2>1. CASE reg.column >= VGA_WIDTH
    <3>1. pc' = "home" /\ PutOn /\ UNCHANGED <<reg, k, buffer, row, disturbed>> /\ CallOnly /\ column' = reg.column
      BY <1>12, <2>1 DEF TabAtStop, Goto
    <3>2. TypeOK'
      BY <1>0, <1>1, <1>2, <3>1, PutOnKeeps DEF Putting
    <3>3. CursorStays'
      BY <1>0, <1>1, <1>2, <2>0, <3>1 DEF CursorStays
    <3>4. CallInv'
      BY <1>0, <1>1, <1>2, <1>12, <2>0, <3>1, CharFacts DEF TabAtStop, CallInv, Putting, Clearing, PutOn
    <3>. QED BY <3>2, <3>3, <3>4 DEF ConsoleInv
  <2>2. CASE ~(reg.column >= VGA_WIDTH)
    BY <1>0, <1>2, <1>12, <2>0, <2>2, PutDoneKeeps DEF TabAtStop
  <2>. QED BY <2>1, <2>2
<1>13. CASE MoveHome
  <2>8. TypeOK'
    BY <1>0, <1>1, <1>2, <1>13, PutOnKeeps DEF MoveHome, Goto, Putting, Clearing
  <2>9. CursorStays'
    BY <1>0, <1>1, <1>2, <1>13, CellFacts DEF MoveHome, Goto, CursorStays, CallInv, PutOn, CallOnly, term
  <2>10. CallInv'
    BY <1>0, <1>1, <1>2, <1>13, CharFacts DEF MoveHome, Goto, CallInv, Putting, Clearing, PutOn, CallOnly, term
  <2>. QED BY <2>8, <2>9, <2>10 DEF ConsoleInv
<1>14. CASE MoveDown
  <2>0. column < W /\ todo # <<>> /\ k = 0 /\ Head(todo) # BS
    BY <1>0, <1>1, <1>2, <1>14 DEF MoveDown, CursorStays, CallInv, Putting, Clearing
  <2>1. CASE reg.row + 1 >= VGA_HEIGHT
    <3>1. pc' = "scroll" /\ PutOn /\ UNCHANGED <<reg, k, buffer, column, disturbed>> /\ CallOnly /\ row' = reg.row + 1
      BY <1>14, <2>1 DEF MoveDown, Goto
    <3>2. TypeOK'
      BY <1>0, <1>1, <1>2, <3>1, PutOnKeeps DEF Putting
    <3>3. CursorStays'
      BY <1>0, <1>1, <1>2, <2>0, <3>1 DEF CursorStays
    <3>4. CallInv'
      BY <1>0, <1>1, <1>2, <2>0, <3>1, CharFacts DEF CallInv, Putting, Clearing, PutOn
    <3>. QED BY <3>2, <3>3, <3>4 DEF ConsoleInv
  <2>2. CASE ~(reg.row + 1 >= VGA_HEIGHT)
    BY <1>0, <1>2, <1>14, <2>0, <2>2, PutDoneKeeps DEF MoveDown
  <2>. QED BY <2>1, <2>2
<1>15. CASE ScrollCell
  <2>1. k < ScreenSize /\ k + 1 \in 0 .. ScreenSize
    BY <1>0, <1>1, <1>2, <1>15 DEF ScrollCell, CallInv
  <2>2. buffer' \in [Cells -> Text]
    <3>1. k < ScreenSize - VGA_WIDTH => k + VGA_WIDTH \in Cells
      BY <1>0, <1>2
    <3>2. (IF k < ScreenSize - VGA_WIDTH THEN buffer[k + VGA_WIDTH] ELSE Blank) \in Text
      BY <1>0, <1>2, <3>1
    <3>. QED BY <1>0, <1>2, <1>15, <3>2 DEF ScrollCell
  <2>8. TypeOK'
    BY <1>0, <1>1, <1>2, <1>15, <2>1, <2>2, PutOnKeeps DEF ScrollCell, Goto, Putting, Clearing
  <2>9. CursorStays'
    BY <1>0, <1>1, <1>2, <1>15, <2>1, <2>2, CellFacts DEF ScrollCell, Goto, CursorStays, CallInv, PutOn, CallOnly, term
  <2>10. CallInv'
    BY <1>0, <1>1, <1>2, <1>15, <2>1, <2>2, CharFacts DEF ScrollCell, Goto, CallInv, Putting, Clearing, PutOn, CallOnly, term
  <2>. QED BY <2>8, <2>9, <2>10 DEF ConsoleInv
<1>16. CASE BackOnScreen
  BY <1>0, <1>1, <1>2, <1>16, PutDoneKeeps DEF BackOnScreen, CallInv, Putting, CursorStays
<1>17. CASE ClearCell
  <2>1. k < ScreenSize /\ k + 1 \in 0 .. ScreenSize
    BY <1>0, <1>1, <1>2, <1>17 DEF ClearCell, CallInv
  <2>2. buffer' \in [Cells -> Text]
    BY <1>0, <1>2, <1>17 DEF ClearCell
  <2>8. TypeOK'
    BY <1>0, <1>1, <1>2, <1>17, <2>1, <2>2, PutOnKeeps DEF ClearCell, Goto, Putting, Clearing
  <2>9. CursorStays'
    BY <1>0, <1>1, <1>2, <1>17, <2>1, <2>2, CellFacts DEF ClearCell, Goto, CursorStays, CallInv, PutOn, CallOnly, term
  <2>10. CallInv'
    BY <1>0, <1>1, <1>2, <1>17, <2>1, <2>2, CharFacts DEF ClearCell, Goto, CallInv, Putting, Clearing, PutOn, CallOnly, term
  <2>. QED BY <2>8, <2>9, <2>10 DEF ConsoleInv
<1>18. CASE ClearRow
  <2>8. TypeOK'
    BY <1>0, <1>1, <1>2, <1>18, PutOnKeeps DEF ClearRow, Goto, Putting, Clearing
  <2>9. CursorStays'
    BY <1>0, <1>1, <1>2, <1>18, CellFacts DEF ClearRow, Goto, CursorStays, CallInv, PutOn, CallOnly, term
  <2>10. CallInv'
    BY <1>0, <1>1, <1>2, <1>18, CharFacts DEF ClearRow, Goto, CallInv, Putting, Clearing, PutOn, CallOnly, term
  <2>. QED BY <2>8, <2>9, <2>10 DEF ConsoleInv
<1>19. CASE ClearColumn
  <2>1. pc' = "free" /\ column' = 0 /\ k' = 0 /\ echoes' = 0 /\ row < H
        /\ UNCHANGED <<buffer, row, reg, todo, disturbed, after, queue, cmd, torn>>
    BY <1>0, <1>1, <1>2, <1>19 DEF ClearColumn, Goto, CallOnly, CursorStays
  <2>2. TypeOK'
    BY <1>0, <1>1, <2>1, CharFacts DEF TypeOK
  <2>3. CursorStays' /\ CallInv'
    BY <1>0, <1>2, <2>1 DEF CursorStays, CallInv, Putting, Clearing
  <2>. QED BY <2>2, <2>3 DEF ConsoleInv
<1>. QED BY <1>3, <1>4, <1>5, <1>6, <1>7, <1>8, <1>9, <1>10, <1>11, <1>12, <1>13, <1>14, <1>15, <1>16, <1>17, <1>18, <1>19 DEF TerminalStep

\* What the shell does between terminal calls.
LEMMA FreeStepKeeps ==
    ASSUME ConsoleInv, pc = "free", pc' = "free", UNCHANGED <<reg, k, echoes, torn>>,
           buffer' \in [Cells -> Text], row' \in 0 .. (H - 1), column' \in 0 .. (W - 1),
           todo' \in Seq(Chars), after' \in {"input", "exec", "halt"},
           queue' \in Seq(Keys), Len(queue') <= KeyMax,
           cmd' \in Seq(Keys \ {NL, BS}), Len(cmd') <= LineMax, disturbed' \in BOOLEAN
    PROVE  ConsoleInv'
<1>0. W = VGA_WIDTH /\ H = VGA_HEIGHT /\ H \in Nat /\ W \in Nat /\ H > 1 /\ W > 1
  BY Sizes
<1>1. TypeOK /\ CursorStays /\ CallInv
  BY DEF ConsoleInv
<1>2. row' \in 0 .. H /\ column' \in 0 .. W /\ row' # H /\ column' # W /\ k = 0
  BY <1>0, <1>1 DEF CallInv, Clearing
<1>3. TypeOK'
  BY <1>0, <1>1, <1>2 DEF TypeOK, Text
<1>4. CursorStays' /\ CallInv'
  BY <1>0, <1>2 DEF CursorStays, CallInv, Putting, Clearing
<1>. QED BY <1>3, <1>4 DEF ConsoleInv

LEMMA EnterKeeps ==
    ASSUME ConsoleInv, InputEnter, pc' = "free", UNCHANGED <<buffer, row, column, reg, k, echoes, torn>>,
           todo' \in Seq(Chars), after' \in {"input", "exec", "halt"}
    PROVE  ConsoleInv'
<1>1. TypeOK /\ CursorStays /\ pc = "free"
  BY DEF ConsoleInv, InputEnter, Reading
<1>2. queue # <<>> /\ queue' = Tail(queue) /\ cmd' = <<>> /\ disturbed' \in BOOLEAN
  BY DEF InputEnter, Reading
<1>3. /\ queue' \in Seq(Keys) /\ Len(queue') <= KeyMax
      /\ cmd' \in Seq(Keys \ {NL, BS}) /\ Len(cmd') <= LineMax
  BY <1>1, <1>2, CharFacts DEF TypeOK
<1>4. buffer' \in [Cells -> Text] /\ row' \in 0 .. (H - 1) /\ column' \in 0 .. (W - 1)
  BY <1>1, Sizes DEF TypeOK, CursorStays, Text
<1>. QED BY <1>1, <1>2, <1>3, <1>4, FreeStepKeeps

LEMMA ShellStepKeeps ==
    ASSUME ConsoleInv, ShellStep
    PROVE  ConsoleInv'
<1>0. W = VGA_WIDTH /\ H = VGA_HEIGHT /\ H \in Nat /\ W \in Nat /\ H > 1 /\ W > 1 /\ ScreenSize \in Nat
      /\ ScreenSize > 0 /\ LineMax \in Nat
  BY Sizes, CharFacts
<1>1. TypeOK /\ CursorStays /\ CallInv
  BY DEF ConsoleInv
<1>2. pc = "free" => row < H /\ column < W /\ row \in 0 .. (H - 1) /\ column \in 0 .. (W - 1) /\ buffer \in [Cells -> Text]
  BY <1>0, <1>1 DEF TypeOK, CursorStays, Text
<1>3. CASE InputChar
  <2>1. pc = "free" /\ queue # <<>> /\ queue' = Tail(queue) /\ disturbed' \in BOOLEAN
        /\ UNCHANGED <<buffer, row, column, pc, reg, k, echoes, todo, after, torn>>
    BY <1>3 DEF InputChar, Reading, term, call
  <2>2. queue' \in Seq(Keys) /\ Len(queue') <= KeyMax /\ Head(queue) \in Keys \ {NL, BS}
    BY <1>1, <1>3, <2>1, CharFacts DEF TypeOK, InputChar, Echoed
  <2>3. cmd' \in Seq(Keys \ {NL, BS}) /\ Len(cmd') <= LineMax
    BY <1>0, <1>1, <1>3, <2>2 DEF TypeOK, InputChar
  <2>4. todo' \in Seq(Chars) /\ after' \in {"input", "exec", "halt"}
    BY <1>1, <2>1 DEF TypeOK
  <2>. QED BY <1>2, <2>1, <2>2, <2>3, <2>4, FreeStepKeeps
<1>4. CASE InputErase
  <2>1. pc = "free" /\ queue # <<>> /\ queue' = Tail(queue)
        /\ UNCHANGED <<buffer, row, column, pc, reg, k, echoes, after, torn, disturbed>>
    BY <1>4 DEF InputErase, Reading, term, call
  <2>2. queue' \in Seq(Keys) /\ Len(queue') <= KeyMax /\ disturbed' \in BOOLEAN
        /\ after' \in {"input", "exec", "halt"}
    BY <1>1, <2>1, CharFacts DEF TypeOK
  <2>3. cmd' \in Seq(Keys \ {NL, BS}) /\ Len(cmd') <= LineMax /\ todo' \in Seq(Chars)
    <3>1. CASE cmd = <<>>
      BY <1>1, <1>4, <3>1 DEF InputErase, TypeOK
    <3>2. CASE cmd # <<>>
      <4>1. cmd' = Front(cmd) /\ todo' = <<BS>>
        BY <1>4, <3>2 DEF InputErase
      <4>2. cmd \in Seq(Keys \ {NL, BS}) /\ Len(cmd) <= LineMax
        BY <1>1 DEF TypeOK
      <4>3. Front(cmd) \in Seq(Keys \ {NL, BS}) /\ Len(Front(cmd)) <= LineMax
        BY <1>0, <3>2, <4>2 DEF Front
      <4>. QED BY <4>1, <4>3, CharFacts
    <3>. QED BY <3>1, <3>2
  <2>. QED BY <1>2, <2>1, <2>2, <2>3, FreeStepKeeps
<1>5. CASE EnterNothing
  BY <1>1, <1>5, CharFacts, EnterKeeps DEF EnterNothing, TypeOK, term, call, InputEnter, Reading
<1>6. CASE \E out \in Outputs : EnterCommand(out) \/ EnterShutdown(out)
  <2>1. PICK out \in Outputs : EnterCommand(out) \/ EnterShutdown(out)
    BY <1>6
  <2>2. out \in Seq(Chars) /\ out \o <<NL>> \o Prompt \in Seq(Chars)
    BY CharFacts
  <2>3. CASE EnterCommand(out)
    BY <1>1, <2>2, <2>3, EnterKeeps DEF EnterCommand, TypeOK, term, call, InputEnter, Reading
  <2>4. CASE EnterShutdown(out)
    BY <1>1, <2>2, <2>4, EnterKeeps DEF EnterShutdown, TypeOK, term, call, InputEnter, Reading
  <2>. QED BY <2>1, <2>3, <2>4
<1>7. CASE EnterClear
  <2>1. InputEnter /\ pc = "free" /\ pc' = "clear" /\ todo' = Prompt /\ torn' = FALSE
        /\ UNCHANGED <<buffer, row, column, reg, k, echoes, after>>
    BY <1>7 DEF EnterClear, InputEnter, Reading, Goto, term
  <2>2. queue # <<>> /\ queue' = Tail(queue) /\ cmd' = <<>> /\ disturbed' \in BOOLEAN
    BY <2>1 DEF InputEnter, Reading
  <2>3. queue' \in Seq(Keys) /\ Len(queue') <= KeyMax /\ cmd' \in Seq(Keys \ {NL, BS}) /\ Len(cmd') <= LineMax
    BY <1>1, <2>2, CharFacts DEF TypeOK
  <2>4. TypeOK'
    BY <1>1, <2>1, <2>2, <2>3, CharFacts DEF TypeOK
  <2>5. CursorStays'
    BY <1>0, <1>2, <2>1 DEF CursorStays
  <2>6. CallInv'
    BY <1>0, <1>1, <2>1 DEF CallInv, Putting, Clearing
  <2>. QED BY <2>4, <2>5, <2>6 DEF ConsoleInv
<1>8. CASE EnterExec
  BY <1>1, <1>8, CharFacts, EnterKeeps DEF EnterExec, term, call, InputEnter, Reading
<1>9. CASE \E data \in Writes : do_write(data)
  <2>1. PICK data \in Writes : do_write(data)
    BY <1>9
  <2>2. pc = "free" /\ UNCHANGED <<pc, reg, k, echoes, todo, after, queue, cmd, torn, disturbed>>
        /\ SetScreen(terminal_writestring(Screen, data))
    BY <2>1 DEF do_write, call
  <2>3. data \in Seq(Chars) /\ Screen \in OnScreen
    <3>1. Screen \in Terminals /\ Screen.row = row /\ Screen.column = column
      BY <1>1, ScreenIs DEF Screen
    <3>. QED BY <1>2, <2>2, <3>1, CharFacts DEF OnScreen
  <2>. DEFINE u == terminal_writestring(Screen, data)
  <2>4. u \in OnScreen
    <3>1. PICK g \in [0 .. Len(data) -> OnScreen] : u = g[Len(data)]
      BY <2>3, WriteStringOnScreen
    <3>2. Len(data) \in 0 .. Len(data)
      BY <2>3
    <3>. QED BY <3>1, <3>2
  <2>. HIDE DEF u
  <2>5. buffer' = u.buffer /\ row' = u.row /\ column' = u.column
    BY <2>2 DEF SetScreen, u
  <2>6. buffer' \in [Cells -> Text] /\ row' \in 0 .. (H - 1) /\ column' \in 0 .. (W - 1)
    BY <1>0, <2>4, <2>5, TermIs DEF OnScreen
  <2>. QED BY <1>1, <2>2, <2>6, FreeStepKeeps DEF TypeOK
<1>10. CASE ExecReturns
  <2>1. pc = "free" /\ UNCHANGED <<buffer, row, column, pc, reg, k, echoes, queue, cmd, torn, disturbed>>
        /\ todo' = <<NL>> \o Prompt /\ after' = "input"
    BY <1>10 DEF ExecReturns, term, call
  <2>2. todo' \in Seq(Chars)
    BY <2>1, CharFacts
  <2>. QED BY <1>1, <1>2, <2>1, <2>2, FreeStepKeeps DEF TypeOK
<1>11. CASE Halt
  <2>1. pc = "free" /\ pc' = "halted"
        /\ UNCHANGED <<buffer, row, column, reg, k, echoes, todo, after, queue, cmd, torn, disturbed>>
    BY <1>11 DEF Halt, term, Goto
  <2>2. TypeOK'
    BY <1>1, <2>1 DEF TypeOK
  <2>3. CursorStays' /\ CallInv'
    BY <1>0, <1>1, <1>2, <2>1 DEF CursorStays, CallInv, Putting, Clearing
  <2>. QED BY <2>2, <2>3 DEF ConsoleInv
<1>. QED BY <1>3, <1>4, <1>5, <1>6, <1>7, <1>8, <1>9, <1>10, <1>11 DEF ShellStep

LEMMA ConsoleStep == ConsoleInv /\ [Next]_vars => ConsoleInv'
<1>. SUFFICES ASSUME ConsoleInv, [Next]_vars PROVE ConsoleInv'
  OBVIOUS
<1>1. CASE Next
  BY <1>1, IrqKeeps, TerminalStepKeeps, ShellStepKeeps DEF Next
<1>2. CASE UNCHANGED vars
  BY <1>2 DEF vars, ConsoleInv, TypeOK, CursorStays, CallInv
<1>. QED BY <1>1, <1>2

\* Wherever the keyboard interrupt comes in between the accesses of a
\* terminal call, the registers and the cell counter of the call fit the
\* label at which it is.
THEOREM ConsoleInvariant == Spec => []ConsoleInv
BY ConsoleInit, ConsoleStep, PTL DEF Spec

\* The screen, the registers, the key buffer and cmd_buffer stay within their
\* sizes.
THEOREM ConsoleTypeOK == Spec => []TypeOK
<1>1. ConsoleInv => TypeOK
  BY DEF ConsoleInv
<1>. QED BY <1>1, ConsoleInvariant, PTL

\* No order of echo and output moves the cursor off the screen but to the row
\* below it during a scroll and to the right at the end of a tab, and
\* terminal_putchar writes on the screen.
THEOREM ConsoleCursorStays == Spec => []CursorStays
<1>1. ConsoleInv => CursorStays
  BY DEF ConsoleInv
<1>. QED BY <1>1, ConsoleInvariant, PTL

-----------------------------------------------------------------------------
(***************************************************************************)
(* A call of the kernel thread without an echo inside it: at every label   *)
(* the accesses still to come lead to the terminal that the whole call     *)
(* returns.  c is the character, r the registers, j the cell reached.      *)
(***************************************************************************)
\* What is in the registers is what is in the memory.
RegsOK ==
    /\ pc \in {"row", "write", "right", "left"} => reg.column = column
    /\ pc = "blank" => reg.column = column + 1
    /\ pc \in {"write", "right", "left", "blank", "tab", "stop", "home", "down"} => reg.row = row
    /\ pc \in {"down", "scroll", "bottom"} => column = 0

\* terminal_scroll from cell j on.
Scrolled(b, j) ==
    [i \in Cells |-> IF i < j THEN b[i]
                     ELSE IF i < ScreenSize - W THEN b[i + W]
                     ELSE IF i < ScreenSize THEN Blank ELSE b[i]]

Returns(p, b, y, x, r, j, c) ==
    CASE p \in {"row", "write", "left"} -> terminal_putchar(Term(b, y, x), c)
      [] p = "right"  -> Term(b, y, x + 1)
      [] p = "blank"  -> Term([b EXCEPT ![At(x, y)] = Blank], y, x)
      [] p = "tab"    -> Wrapped(Filled(Term(b, y, r.column), Blank, NextStop(r.column)))
      [] p = "stop"   -> Wrapped(Term(b, y, r.column))
      [] p \in {"home", "down"} -> NextRow(Term(b, y, 0))
      [] p = "scroll" -> Term(Scrolled(b, j), H - 1, 0)
      [] OTHER        -> Term(b, H - 1, 0)

\* The terminal that the current call returns.
Result == Returns(pc, buffer, row, column, reg, k, Head(todo))

LEMMA ResultIs ==
    /\ pc \in {"row", "write", "left"} =>
          Result = terminal_putchar(Term(buffer, row, column), Head(todo))
    /\ pc = "right" => Result = Term(buffer, row, column + 1)
    /\ pc = "blank" =>
          Result = Term([buffer EXCEPT ![At(column, row)] = Blank], row, column)
    /\ pc = "tab" => Result = Wrapped(Filled(Term(buffer, row, reg.column), Blank,
                                                NextStop(reg.column)))
    /\ pc = "stop" => Result = Wrapped(Term(buffer, row, reg.column))
    /\ pc \in {"home", "down"} => Result = NextRow(Term(buffer, row, 0))
    /\ pc = "scroll" => Result = Term(Scrolled(buffer, k), H - 1, 0)
    /\ pc = "bottom" => Result = Term(buffer, H - 1, 0)
BY DEF Result, Returns

\* The same of the next state.
LEMMA NextResultIs ==
    /\ pc' \in {"row", "write", "left"} =>
          Result' = terminal_putchar(Term(buffer', row', column'), Head(todo'))
    /\ pc' = "right" => Result' = Term(buffer', row', column' + 1)
    /\ pc' = "blank" =>
          Result' = Term([buffer' EXCEPT ![At(column', row')] = Blank], row', column')
    /\ pc' = "tab" => Result' = Wrapped(Filled(Term(buffer', row', reg'.column), Blank,
                                                NextStop(reg'.column)))
    /\ pc' = "stop" => Result' = Wrapped(Term(buffer', row', reg'.column))
    /\ pc' \in {"home", "down"} => Result' = NextRow(Term(buffer', row', 0))
    /\ pc' = "scroll" => Result' = Term(Scrolled(buffer', k'), H - 1, 0)
    /\ pc' = "bottom" => Result' = Term(buffer', H - 1, 0)
BY DEF Result, Returns

LEMMA FilledIs ==
    ASSUME NEW b, NEW y, NEW x, NEW c, NEW z
    PROVE  Filled(Term(b, y, x), c, z) = Term(Drawn(b, y, x, z, c), y, z)
<1>. DEFINE t == Term(b, y, x)
<1>1. t.buffer = b /\ t.row = y /\ t.column = x
  BY TermFields
<1>2. Filled(t, c, z) = Term(Drawn(b, y, x, z, c), y, z)
  <2>. HIDE DEF t
  <2>. QED BY <1>1 DEF Filled, Drawn, Term
<1>. QED BY <1>2

LEMMA WrappedIs ==
    ASSUME NEW b, NEW y, NEW x \in Int
    PROVE  Wrapped(Term(b, y, x)) = IF x >= W THEN NextRow(Term(b, y, 0)) ELSE Term(b, y, x)
<1>. DEFINE t == Term(b, y, x)
<1>1. t.column = x
  BY TermFields
<1>2. NextRow(t) = NextRow(Term(b, y, 0))
  BY NextRowIs
<1>3. Wrapped(t) = IF x >= W THEN NextRow(Term(b, y, 0)) ELSE t
  <2>. HIDE DEF t
  <2>. QED BY <1>1, <1>2 DEF Wrapped, W
<1>. QED BY <1>3

Entry(b, x, y, c) == [b EXCEPT ![At(x, y)] = c]

LEMMA DrawnOne ==
    ASSUME NEW b \in [Cells -> Text], NEW y \in 0 .. H, NEW x \in 0 .. W, NEW c
    PROVE  Entry(b, x, y, c) = Drawn(b, y, x, x + 1, c)
<1>1. At(x, y) \in Int /\ At(x + 1, y) = At(x, y) + 1
  <2>1. x \in Int /\ x + 1 \in Int
    BY Sizes
  <2>2. At(x, y) = At(0, y) + x /\ At(x + 1, y) = At(0, y) + (x + 1) /\ At(0, y) \in Nat
    BY <2>1, AtFacts
  <2>. QED BY <2>1, <2>2
<1>2. \A i \in Cells : i \in At(x, y) .. (At(x + 1, y) - 1) <=> i = At(x, y)
  BY <1>1, Sizes
<1>. QED BY <1>2 DEF Drawn, Entry

LEMMA DrawnMore ==
    ASSUME NEW b \in [Cells -> Text], NEW y \in 0 .. H, NEW x \in Nat, NEW z \in Nat, x < z, NEW c
    PROVE  Drawn(Drawn(b, y, x, x + 1, c), y, x + 1, z, c) = Drawn(b, y, x, z, c)
<1>1. x \in Int /\ x + 1 \in Int /\ z \in Int
  OBVIOUS
<1>2. At(x, y) = At(0, y) + x /\ At(x + 1, y) = At(0, y) + (x + 1) /\ At(z, y) = At(0, y) + z /\ At(0, y) \in Nat
  BY <1>1, AtFacts
<1>3. \A i \in Cells : i \in At(x, y) .. (At(z, y) - 1) <=>
                          \/ i \in At(x, y) .. (At(x + 1, y) - 1)
                          \/ i \in At(x + 1, y) .. (At(z, y) - 1)
  BY <1>2, Sizes, SMTT(30)
<1>. QED BY <1>3 DEF Drawn

\* From the columns between two stops the next stop is the same.
LEMMA NextStopSame ==
    ASSUME NEW x \in 0 .. (W - 1), (x + 1) % TabStop # 0
    PROVE  x + 1 \in 0 .. (W - 1) /\ NextStop(x + 1) = NextStop(x)
<1>0. W \in Nat /\ W > 1 /\ W % TabStop = 0
  BY Sizes
<1>1. x + 1 \in 0 .. (W - 1)
  BY <1>0
<1>. DEFINE w == x + 1
            n == NextStop(x)
            m == NextStop(w)
<1>2. n \in (x + 1) .. W /\ \A z \in (x + 1) .. n : z % TabStop = 0 <=> z = n
  BY Stops
<1>. HIDE DEF n
<1>3. w \in 0 .. (W - 1)
  BY <1>1
<1>. HIDE DEF w, m
<1>4. m \in (w + 1) .. W /\ \A z \in (w + 1) .. m : z % TabStop = 0 <=> z = m
  BY <1>3, Stops DEF m
<1>5. w = x + 1 /\ n # w
  BY <1>0, <1>2 DEF w
<1>6. n % TabStop = 0 /\ m % TabStop = 0
  BY <1>0, <1>2, <1>4
<1>7. m = n
  <2>1. CASE n <= m
    <3>1. n \in (w + 1) .. m
      BY <1>0, <1>2, <1>4, <1>5, <2>1
    <3>. QED BY <1>4, <1>6, <3>1
  <2>2. CASE m < n
    <3>1. m \in (x + 1) .. n
      BY <1>0, <1>2, <1>4, <1>5, <2>2
    <3>. QED BY <1>2, <1>6, <3>1
  <2>. QED BY <1>0, <1>2, <1>4, <1>5, <2>1, <2>2
<1>. QED BY <1>1, <1>7 DEF w, m, n

LEMMA ScrolledAll ==
    ASSUME NEW b \in [Cells -> Text]
    PROVE  Scrolled(b, 0) = terminal_scroll(b) /\ Scrolled(b, ScreenSize) = b
<1>0. W = VGA_WIDTH /\ W \in Nat /\ ScreenSize \in Nat /\ Cells = 0 .. (ScreenSize + W - 1)
  BY Sizes
<1>1. \A i \in Cells : ~(i < 0)
  BY <1>0
<1>2. Scrolled(b, 0) = terminal_scroll(b)
  BY <1>0, <1>1 DEF Scrolled, terminal_scroll
<1>3. \A i \in Cells : ~(i < ScreenSize) => ~(i < ScreenSize - W)
  BY <1>0
<1>4. Scrolled(b, ScreenSize) = b
  BY <1>3 DEF Scrolled
<1>. QED BY <1>2, <1>4

LEMMA ScrolledOne ==
    ASSUME NEW b \in [Cells -> Text], NEW j \in 0 .. (ScreenSize - 1),
           NEW d, d = [b EXCEPT ![j] = IF j < ScreenSize - W THEN b[j + W] ELSE Blank]
    PROVE  Scrolled(d, j + 1) = Scrolled(b, j)
<1>0. W \in Nat /\ W > 1 /\ ScreenSize \in Nat /\ Cells = 0 .. (ScreenSize + W - 1) /\ j \in Cells
  BY Sizes, CellFacts
<1>. SUFFICES ASSUME NEW i \in Cells
              PROVE  (IF i < j + 1 THEN d[i]
                      ELSE IF i < ScreenSize - W THEN d[i + W]
                      ELSE IF i < ScreenSize THEN Blank ELSE d[i])
                     = (IF i < j THEN b[i]
                        ELSE IF i < ScreenSize - W THEN b[i + W]
                        ELSE IF i < ScreenSize THEN Blank ELSE b[i])
  BY DEF Scrolled
<1>1. CASE i < j
  BY <1>0, <1>1
<1>2. CASE i = j
  BY <1>0, <1>2
<1>3. CASE i > j
  <2>1. i # j /\ ~(i < j + 1) /\ ~(i < j)
    BY <1>0, <1>3
  <2>2. i < ScreenSize - W => i + W \in Cells /\ i + W # j
    BY <1>0, <1>3
  <2>. QED BY <2>1, <2>2
<1>. QED BY <1>0, <1>1, <1>2, <1>3

\* The call goes on and will return the same, or it returns that.
Onward == /\ CallOnly /\ UNCHANGED disturbed
          /\ \/ pc' \in Putting /\ PutOn /\ RegsOK' /\ Result' = Result
             \/ pc' = "free" /\ PutDone /\ Screen' = Result

LEMMA CallStarts ==
    ASSUME ConsoleInv, NewlineLoad \/ LoadColumn
    PROVE  /\ CallOnly /\ UNCHANGED disturbed /\ pc' \in Putting /\ PutOn /\ RegsOK'
           /\ Result' = terminal_putchar(Screen, Head(todo))
<1>1. TypeOK
  BY DEF ConsoleInv
<1>2. Screen = Term(buffer, row, column) /\ reg \in [row : 0 .. (H - 1), column : 0 .. W]
  BY <1>1, ScreenIs DEF TypeOK, W, H
<1>3. CallOnly /\ PutOn /\ UNCHANGED <<buffer, row, column, disturbed, todo>>
  BY DEF NewlineLoad, LoadColumn, PutOn, term
<1>4. CASE NewlineLoad
  <2>1. pc' = "home" /\ reg'.row = row /\ Head(todo) = NL
    BY <1>2, <1>4 DEF NewlineLoad, Goto
  <2>2. Result' = NextRow(Term(buffer, row, 0))
    BY <1>3, <2>1, ResultIs, NextResultIs
  <2>3. terminal_putchar(Screen, Head(todo)) = NextRow(Term(buffer, row, 0))
    BY <1>2, <2>1, Puts, NextRowIs
  <2>. QED BY <1>3, <2>1, <2>2, <2>3 DEF RegsOK, Putting
<1>5. CASE LoadColumn
  <2>1. pc' = "row" /\ reg'.column = column
    BY <1>2, <1>5 DEF LoadColumn, Goto
  <2>2. Result' = terminal_putchar(Term(buffer, row, column), Head(todo))
    BY <1>3, <2>1, ResultIs, NextResultIs
  <2>. QED BY <1>2, <1>3, <2>1, <2>2 DEF RegsOK, Putting
<1>. QED BY <1>4, <1>5

LEMMA CallGoesOn ==
    ASSUME ConsoleInv, RegsOK, pc \in Putting, TerminalStep
    PROVE  Onward
<1>0. W = VGA_WIDTH /\ H = VGA_HEIGHT /\ H \in Nat /\ W \in Nat /\ H > 1 /\ W > 1 /\ ScreenSize \in Nat
      /\ Blank \in Text
  BY Sizes, CharFacts
<1>1. TypeOK /\ CursorStays /\ CallInv
  BY DEF ConsoleInv
<1>2. /\ buffer \in [Cells -> Text] /\ row \in 0 .. H /\ column \in 0 .. W
      /\ reg \in [row : 0 .. (H - 1), column : 0 .. W]
      /\ reg.row \in 0 .. (H - 1) /\ reg.column \in 0 .. W
      /\ k \in 0 .. ScreenSize
  BY <1>0, <1>1 DEF TypeOK, Text
<1>3. /\ Screen = Term(buffer, row, column) /\ Screen' = Term(buffer', row', column')
  BY DEF Screen, Term
<1>. DEFINE c == Head(todo)
<1>4. CASE LoadRow
  <2>1. pc = "row" /\ reg'.row = row /\ reg'.column = reg.column /\ reg.column = column
        /\ CallOnly /\ PutOn /\ UNCHANGED <<buffer, row, column, todo, k, disturbed>>
    BY <1>2, <1>4 DEF LoadRow, RegsOK, PutOn, term
  <2>2. pc' \in {"left", "tab", "write"} /\ (pc' = "tab" => c = TAB)
    BY <1>4 DEF LoadRow, Goto
  <2>3. Result = terminal_putchar(Term(buffer, row, column), c)
    BY <2>1, ResultIs, NextResultIs
  <2>4. CASE pc' = "tab"
    <3>1. Result' = Wrapped(Filled(Term(buffer, row, column), Blank, NextStop(column)))
      BY <2>1, <2>4, ResultIs, NextResultIs
    <3>2. Result = Wrapped(Filled(Term(buffer, row, column), Blank, NextStop(column)))
      BY <2>2, <2>3, <2>4, Puts, TermFields
    <3>. QED BY <2>1, <2>4, <3>1, <3>2 DEF Onward, RegsOK, Putting
  <2>5. CASE pc' \in {"left", "write"}
    <3>1. Result' = terminal_putchar(Term(buffer, row, column), c)
      BY <2>1, <2>5, ResultIs, NextResultIs
    <3>. QED BY <2>1, <2>3, <2>5, <3>1 DEF Onward, RegsOK, Putting
  <2>. QED BY <2>2, <2>4, <2>5
<1>5. CASE WriteGlyph
  <2>1. /\ pc = "write" /\ c \in Text /\ column < W /\ row < H /\ reg.row = row /\ reg.column = column
        /\ CallOnly /\ PutOn /\ UNCHANGED <<row, column, todo, k, reg, disturbed>>
        /\ pc' = IF column + 1 >= W THEN "home" ELSE "right"
    <3>1. pc = "write" /\ UNCHANGED <<row, column, todo, k, reg, disturbed>> /\ CallOnly /\ PutOn
          /\ pc' = IF reg.column + 1 >= VGA_WIDTH THEN "home" ELSE "right"
      BY <1>5 DEF WriteGlyph, PutOn, Goto
    <3>2. c \in Text /\ reg.column < W /\ reg.row = row /\ reg.column = column
      BY <1>1, <3>1 DEF CallInv, RegsOK
    <3>3. row < H
      BY <1>0, <1>1, <1>2, <3>1 DEF CursorStays
    <3>. QED BY <1>0, <3>1, <3>2, <3>3
  <2>2. buffer' = Drawn(buffer, row, column, column + 1, c)
    <3>1. buffer' = Entry(buffer, column, row, c)
      BY <1>5, <2>1 DEF WriteGlyph, PutEntry, Entry
    <3>. HIDE DEF c
    <3>. QED BY <1>2, <3>1, DrawnOne
  <2>3. Result = Wrapped(Term(buffer', row, column + 1))
    <3>1. Result = terminal_putchar(Term(buffer, row, column), c)
      BY <2>1, ResultIs, NextResultIs
    <3>2. c \notin {NL, BS, TAB}
      BY <2>1, CharFacts
    <3>3. Result = Wrapped(Filled(Term(buffer, row, column), c, column + 1))
      BY <3>1, <3>2, Puts, TermFields
    <3>. QED BY <2>2, <3>3, FilledIs
  <2>4. column + 1 \in Int
    BY <1>0, <1>2
  <2>5. Result = IF column + 1 >= W THEN NextRow(Term(buffer', row, 0)) ELSE Term(buffer', row, column + 1)
    BY <2>3, <2>4, WrappedIs
  <2>6. CASE column + 1 >= W
    <3>1. pc' = "home" /\ Result' = NextRow(Term(buffer', row, 0))
      BY <2>1, <2>6, ResultIs, NextResultIs
    <3>. QED BY <2>1, <2>5, <2>6, <3>1 DEF Onward, RegsOK, Putting
  <2>7. CASE ~(column + 1 >= W)
    <3>1. pc' = "right" /\ Result' = Term(buffer', row, column + 1)
      BY <2>1, <2>7, ResultIs, NextResultIs
    <3>. QED BY <2>1, <2>5, <2>7, <3>1 DEF Onward, RegsOK, Putting
  <2>. QED BY <2>6, <2>7
<1>6. CASE MoveRight
  <2>1. pc = "right" /\ reg.column = column /\ column' = column + 1 /\ UNCHANGED <<buffer, row, disturbed>>
        /\ CallOnly /\ PutDone /\ pc' = "free"
    BY <1>6 DEF MoveRight, RegsOK, PutDone, Goto
  <2>2. Result = Term(buffer, row, column + 1)
    BY <2>1, ResultIs, NextResultIs
  <2>. QED BY <1>3, <2>1, <2>2 DEF Onward
<1>7. CASE MoveLeft
  <2>1. /\ pc = "left" /\ c = BS /\ reg.column = column /\ column \in 1 .. W /\ reg.row = row
        /\ pc' = "blank" /\ column' = column - 1
        /\ CallOnly /\ PutOn /\ UNCHANGED <<buffer, row, todo, k, reg, disturbed>>
    BY <1>0, <1>1, <1>2, <1>7 DEF MoveLeft, RegsOK, PutOn, CallInv, Goto
  <2>2. Result = Erased(Term(buffer, row, column))
    <3>1. Result = terminal_putchar(Term(buffer, row, column), c)
      BY <2>1, ResultIs, NextResultIs
    <3>. QED BY <2>1, <3>1, Puts
  <2>3. Result = Term([buffer EXCEPT ![At(column - 1, row)] = Blank], row, column - 1)
    <3>1. buffer \in [Cells -> Text] /\ row \in 0 .. H /\ column \in 1 .. W
      BY <1>2, <2>1
    <3>2. Erased(Term(buffer, row, column)) = Term([buffer EXCEPT ![At(column - 1, row)] = Blank], row, column - 1)
      BY ONLY <3>1, ErasedFields, Zenon
    <3>. QED BY ONLY <2>2, <3>2, Zenon
  <2>4. Result' = Term([buffer EXCEPT ![At(column - 1, row)] = Blank], row, column - 1)
    BY <2>1, ResultIs, NextResultIs
  <2>5. reg'.column = column' + 1
    BY <1>0, <2>1
  <2>. QED BY <2>1, <2>3, <2>4, <2>5 DEF Onward, RegsOK, Putting
<1>8. CASE BlankErased
  <2>1. /\ pc = "blank" /\ reg.column - 1 = column /\ reg.row = row /\ UNCHANGED <<row, column, disturbed>>
        /\ CallOnly /\ PutDone /\ pc' = "free"
        /\ buffer' = [buffer EXCEPT ![At(reg.column - 1, reg.row)] = Blank]
    BY <1>0, <1>2, <1>8 DEF BlankErased, RegsOK, PutDone, PutEntry, Goto
  <2>2. Result = Term([buffer EXCEPT ![At(column, row)] = Blank], row, column)
    BY <2>1, ResultIs, NextResultIs
  <2>. QED BY <1>3, <2>1, <2>2 DEF Onward
<1>9. CASE TabBlank
  <2>. DEFINE x == reg.column
  <2>1. /\ pc = "tab" /\ x < W /\ row < H /\ reg.row = row
        /\ CallOnly /\ PutOn /\ UNCHANGED <<row, column, todo, k, disturbed>>
        /\ reg' = [reg EXCEPT !.column = x + 1]
        /\ pc' = IF (x + 1) % TabStop = 0 THEN "stop" ELSE "tab"
    <3>1. /\ pc = "tab" /\ UNCHANGED <<row, column, todo, k, disturbed>> /\ CallOnly /\ PutOn
          /\ pc' = IF (x + 1) % TabStop = 0 THEN "stop" ELSE "tab"
          /\ reg' = [reg EXCEPT !.column = x + 1]
      BY <1>9 DEF TabBlank, PutOn, Goto
    <3>2. x < W /\ reg.row = row
      BY <1>1, <3>1 DEF CallInv, RegsOK
    <3>3. row < H
      BY <1>0, <1>1, <1>2, <3>1 DEF CursorStays
    <3>. QED BY <3>1, <3>2, <3>3
  <2>2. reg'.column = x + 1 /\ reg'.row = row
    BY <1>2, <2>1
  <2>3. x \in 0 .. (W - 1) /\ x \in 0 .. W
    BY <1>0, <1>2, <2>1
  <2>4. buffer' = Drawn(buffer, row, x, x + 1, Blank)
    <3>1. buffer' = Entry(buffer, x, row, Blank)
      BY <1>9, <2>1 DEF TabBlank, PutEntry, Entry
    <3>. HIDE DEF x
    <3>. QED BY <1>2, <2>3, <3>1, DrawnOne
  <2>. DEFINE z == NextStop(x)
  <2>5. Result = Wrapped(Term(Drawn(buffer, row, x, z, Blank), row, z))
    <3>1. Result = Wrapped(Filled(Term(buffer, row, x), Blank, z))
      BY <2>1, ResultIs, NextResultIs
    <3>. QED BY <3>1, FilledIs
  <2>6. CASE (x + 1) % TabStop = 0
    <3>1. z = x + 1
      BY <1>0, <2>3, <2>6, Stops
    <3>2. pc' = "stop" /\ Result' = Wrapped(Term(buffer', row, x + 1))
      BY <2>1, <2>2, <2>6, ResultIs, NextResultIs
    <3>3. Result' = Result
      BY <2>4, <2>5, <3>1, <3>2
    <3>. QED BY <2>1, <2>2, <3>2, <3>3 DEF Onward, RegsOK, Putting
  <2>7. CASE (x + 1) % TabStop # 0
    <3>1. x + 1 \in 0 .. (W - 1) /\ NextStop(x + 1) = z
      BY <2>3, <2>7, NextStopSame
    <3>2. pc' = "tab" /\ Result' = Wrapped(Filled(Term(buffer', row, x + 1), Blank, z))
      BY <2>1, <2>2, <2>7, <3>1, ResultIs, NextResultIs
    <3>3. Result' = Wrapped(Term(Drawn(buffer', row, x + 1, z, Blank), row, z))
      BY <3>2, FilledIs
    <3>4. Drawn(buffer', row, x + 1, z, Blank) = Drawn(buffer, row, x, z, Blank)
      <4>1. z \in Nat /\ x < z /\ x \in Nat
        BY <1>0, <2>3, Stops
      <4>. HIDE DEF z, x
      <4>. QED BY <1>2, <2>4, <4>1, DrawnMore
    <3>. QED BY <2>1, <2>2, <2>5, <3>2, <3>3, <3>4 DEF Onward, RegsOK, Putting
  <2>. QED BY <2>6, <2>7
<1>10. CASE TabAtStop
  <2>1. pc = "stop" /\ column' = reg.column /\ reg.row = row /\ CallOnly /\ UNCHANGED <<buffer, row, disturbed>>
    BY <1>10 DEF TabAtStop, RegsOK
  <2>2. Result = Wrapped(Term(buffer, row, reg.column))
    BY <2>1, ResultIs, NextResultIs
  <2>3. reg.column \in Int
    BY <1>0, <1>2
  <2>4. Result = IF reg.column >= W THEN NextRow(Term(buffer, row, 0)) ELSE Term(buffer, row, reg.column)
    BY <2>2, <2>3, WrappedIs
  <2>5. CASE reg.column >= W
    <3>1. pc' = "home" /\ PutOn /\ UNCHANGED <<reg, k>>
      BY <1>0, <1>10, <2>5 DEF TabAtStop, Goto
    <3>2. Result' = NextRow(Term(buffer, row, 0))
      BY <2>1, <3>1, ResultIs, NextResultIs
    <3>. QED BY <2>1, <2>4, <2>5, <3>1, <3>2 DEF Onward, RegsOK, Putting
  <2>6. CASE ~(reg.column >= W)
    <3>1. PutDone /\ pc' = "free"
      BY <1>0, <1>10, <2>6 DEF TabAtStop, PutDone, Goto
    <3>. QED BY <1>3, <2>1, <2>4, <2>6, <3>1 DEF Onward
  <2>. QED BY <2>5, <2>6
<1>11. CASE MoveHome
  <2>1. pc = "home" /\ pc' = "down" /\ column' = 0 /\ reg.row = row /\ CallOnly /\ PutOn
        /\ UNCHANGED <<buffer, row, reg, k, disturbed>>
    BY <1>11 DEF MoveHome, RegsOK, Goto
  <2>2. Result = NextRow(Term(buffer, row, 0)) /\ Result' = NextRow(Term(buffer, row, 0))
    BY <2>1, ResultIs, NextResultIs
  <2>. QED BY <2>1, <2>2 DEF Onward, RegsOK, Putting
<1>12. CASE MoveDown
  <2>1. /\ pc = "down" /\ row' = row + 1 /\ reg.row = row /\ column = 0 /\ k = 0
        /\ CallOnly /\ UNCHANGED <<buffer, column, disturbed>>
    BY <1>1, <1>12 DEF MoveDown, RegsOK, CallInv, Clearing
  <2>2. Result = IF row + 1 >= H THEN Term(terminal_scroll(buffer), H - 1, 0) ELSE Term(buffer, row + 1, 0)
    BY <2>1, ResultIs, NextRowIs
  <2>3. CASE row + 1 >= H
    <3>1. pc' = "scroll" /\ PutOn /\ UNCHANGED <<reg, k>>
      BY <1>0, <1>12, <2>1, <2>3 DEF MoveDown, Goto
    <3>2. Result' = Term(Scrolled(buffer, 0), H - 1, 0)
      BY <2>1, <3>1, ResultIs, NextResultIs
    <3>. QED BY <1>2, <2>1, <2>2, <2>3, <3>1, <3>2, ScrolledAll DEF Onward, RegsOK, Putting
  <2>4. CASE ~(row + 1 >= H)
    <3>1. PutDone /\ pc' = "free"
      BY <1>0, <1>12, <2>1, <2>4 DEF MoveDown, PutDone, Goto
    <3>. QED BY <1>3, <2>1, <2>2, <2>4, <3>1 DEF Onward
  <2>. QED BY <2>3, <2>4
<1>13. CASE ScrollCell
  <2>1. /\ pc = "scroll" /\ k' = k + 1 /\ column = 0 /\ k \in 0 .. (ScreenSize - 1)
        /\ CallOnly /\ PutOn /\ UNCHANGED <<row, column, reg, disturbed>>
        /\ buffer' = [buffer EXCEPT ![k] = IF k < ScreenSize - W THEN buffer[k + W] ELSE Blank]
        /\ pc' = IF k + 1 = ScreenSize THEN "bottom" ELSE "scroll"
    BY <1>0, <1>1, <1>2, <1>13 DEF ScrollCell, RegsOK, CallInv, Goto
  <2>2. Scrolled(buffer', k + 1) = Scrolled(buffer, k)
    BY <1>2, <2>1, ScrolledOne
  <2>3. Result = Term(Scrolled(buffer, k), H - 1, 0)
    BY <2>1, ResultIs, NextResultIs
  <2>4. CASE k + 1 = ScreenSize
    <3>1. buffer' \in [Cells -> Text]
      <4>1. k < ScreenSize - W => k + W \in Cells
        BY <1>0, <2>1, Sizes
      <4>. QED BY <1>0, <1>2, <2>1, <4>1
    <3>2. Scrolled(buffer', ScreenSize) = buffer'
      BY <3>1, ScrolledAll
    <3>3. pc' = "bottom" /\ Result' = Term(buffer', H - 1, 0)
      BY <2>1, <2>4, ResultIs, NextResultIs
    <3>. QED BY <2>1, <2>2, <2>3, <2>4, <3>2, <3>3 DEF Onward, RegsOK, Putting
  <2>5. CASE k + 1 # ScreenSize
    <3>1. pc' = "scroll" /\ Result' = Term(Scrolled(buffer', k + 1), H - 1, 0)
      BY <2>1, <2>5, ResultIs, NextResultIs
    <3>. QED BY <2>1, <2>2, <2>3, <3>1 DEF Onward, RegsOK, Putting
  <2>. QED BY <2>4, <2>5
<1>14. CASE BackOnScreen
  <2>1. pc = "bottom" /\ row' = H - 1 /\ column = 0 /\ CallOnly /\ PutDone /\ pc' = "free"
        /\ UNCHANGED <<buffer, column, disturbed>>
    BY <1>0, <1>14 DEF BackOnScreen, RegsOK, PutDone, Goto
  <2>2. Result = Term(buffer, H - 1, 0)
    BY <2>1, ResultIs, NextResultIs
  <2>. QED BY <1>3, <2>1, <2>2 DEF Onward
<1>15. ~(NewlineLoad \/ EraseAtEdge \/ LoadColumn \/ ClearCell \/ ClearRow \/ ClearColumn)
  BY DEF NewlineLoad, EraseAtEdge, LoadColumn, ClearCell, ClearRow, ClearColumn, Putting
<1>. QED BY <1>4, <1>5, <1>6, <1>7, <1>8, <1>9, <1>10, <1>11, <1>12, <1>13, <1>14, <1>15 DEF TerminalStep

-----------------------------------------------------------------------------
(***************************************************************************)
(* A terminal that shows a roll shows it after every character.            *)
(***************************************************************************)
Lines == {r \in Seq(Seq(Text)) : Len(r) \in 1 .. H}

\* The rolls between two characters: the last line is not full.
Rolls == {r \in Lines : Len(r[Len(r)]) < W}

\* What the roll r shows in row y and column x.
RollCell(r, y, x) == IF y < Len(r) /\ x < Len(r[y + 1]) THEN r[y + 1][x + 1] ELSE Blank

LEMMA ShowsIs ==
    ASSUME NEW b, NEW y, NEW x, NEW r
    PROVE  Shows(Term(b, y, x), r) <=>
              /\ y = Len(r) - 1 /\ x = Len(r[Len(r)])
              /\ \A yy \in 0 .. (H - 1), xx \in 0 .. (W - 1) : b[At(xx, yy)] = RollCell(r, yy, xx)
<1>. DEFINE t == Term(b, y, x)
<1>1. t.buffer = b /\ t.row = y /\ t.column = x
  BY TermFields
<1>. HIDE DEF t
<1>2. Shows(t, r) <=>
         /\ y = Len(r) - 1 /\ x = Len(r[Len(r)])
         /\ \A yy \in 0 .. (H - 1), xx \in 0 .. (W - 1) : b[At(xx, yy)] = RollCell(r, yy, xx)
  BY <1>1 DEF Shows, RollCell, Last, W, H
<1>. QED BY <1>2 DEF t

LEMMA BlankRollShows ==
    /\ BlankRoll \in Rolls
    /\ \A b : (\A i \in 0 .. (ScreenSize - 1) : b[i] = Blank) => Shows(Term(b, 0, 0), BlankRoll)
<1>0. W \in Nat /\ H \in Nat /\ W > 1 /\ H > 1
  BY Sizes
<1>1. BlankRoll \in Seq(Seq(Text)) /\ Len(BlankRoll) = 1 /\ BlankRoll[1] = <<>> /\ Len(BlankRoll[1]) = 0
  BY DEF BlankRoll
<1>2. BlankRoll \in Rolls
  <2>1. Len(BlankRoll) \in 1 .. H /\ Len(BlankRoll[Len(BlankRoll)]) < W
    BY <1>0, <1>1
  <2>. QED BY <1>1, <2>1 DEF Rolls, Lines
<1>3. ASSUME NEW b, \A i \in 0 .. (ScreenSize - 1) : b[i] = Blank
      PROVE  Shows(Term(b, 0, 0), BlankRoll)
  <2>1. ASSUME NEW yy \in 0 .. (H - 1), NEW xx \in 0 .. (W - 1)
        PROVE  b[At(xx, yy)] = RollCell(BlankRoll, yy, xx)
    <3>1. b[At(xx, yy)] = Blank
      BY <1>3, CellFacts
    <3>2. yy < 1 => yy + 1 = 1
      BY <1>0
    <3>3. RollCell(BlankRoll, yy, xx) = Blank
      BY <1>0, <1>1, <3>2 DEF RollCell
    <3>. QED BY <3>1, <3>3
  <2>2. 0 = Len(BlankRoll) - 1 /\ 0 = Len(BlankRoll[Len(BlankRoll)])
    BY <1>1
  <2>. HIDE DEF BlankRoll
  <2>. QED BY <2>1, <2>2, ShowsIs
<1>. QED BY <1>2, <1>3

LEMMA ShowsNewLine ==
    ASSUME NEW b \in [Cells -> Text], NEW y \in 0 .. (H - 1), NEW x \in 0 .. W, NEW r \in Lines,
           Shows(Term(b, y, x), r)
    PROVE  NewLine(r) \in Rolls /\ Shows(NextRow(Term(b, y, x)), NewLine(r))
<1>0. W = VGA_WIDTH /\ H = VGA_HEIGHT /\ H \in Nat /\ W \in Nat /\ H > 1 /\ W > 1 /\ ScreenSize \in Nat
  BY Sizes
<1>1. r \in Seq(Seq(Text)) /\ Len(r) \in 1 .. H /\ y = Len(r) - 1
      /\ \A yy \in 0 .. (H - 1), xx \in 0 .. (W - 1) : b[At(xx, yy)] = RollCell(r, yy, xx)
  BY ShowsIs DEF Lines
<1>. DEFINE long == Append(r, <<>>)
<1>2. /\ long \in Seq(Seq(Text)) /\ Len(long) = Len(r) + 1 /\ long[Len(r) + 1] = <<>>
      /\ \A i \in 1 .. Len(r) : long[i] = r[i]
  <2>1. <<>> \in Seq(Text)
    OBVIOUS
  <2>. QED BY <1>1, <2>1
<1>3. Len(<<>>) = 0
  OBVIOUS
<1>. HIDE DEF long
<1>4. NewLine(r) = IF Len(long) > H THEN Tail(long) ELSE long
  BY <1>0 DEF NewLine, long
<1>5. CASE y + 1 >= H
  <2>. DEFINE n == Tail(long)
  <2>1. Len(r) = H /\ NewLine(r) = n
    BY <1>0, <1>1, <1>2, <1>4, <1>5
  <2>2. n \in Seq(Seq(Text)) /\ Len(n) = H /\ \A i \in 1 .. H : n[i] = long[i + 1]
    BY <1>0, <1>2, <2>1
  <2>. HIDE DEF n
  <2>3. \A i \in 1 .. (H - 1) : n[i] = r[i + 1]
    <3>. SUFFICES ASSUME NEW i \in 1 .. (H - 1) PROVE n[i] = r[i + 1]
      OBVIOUS
    <3>1. i \in 1 .. H /\ i + 1 \in 1 .. Len(r)
      BY <1>0, <2>1
    <3>. QED BY <1>2, <2>2, <3>1
  <2>4. n[H] = <<>>
    <3>1. H \in 1 .. H
      BY <1>0
    <3>. QED BY <1>2, <2>1, <2>2, <3>1
  <2>5. NextRow(Term(b, y, x)) = Term(terminal_scroll(b), H - 1, 0)
    BY <1>5, NextRowIs
  <2>6. ASSUME NEW yy \in 0 .. (H - 1), NEW xx \in 0 .. (W - 1)
        PROVE  terminal_scroll(b)[At(xx, yy)] = RollCell(n, yy, xx)
    <3>1. At(xx, yy) \in 0 .. (ScreenSize - 1) /\ At(xx, yy) \in Cells
      BY CellFacts
    <3>2. xx \in Int /\ yy \in 0 .. H /\ yy + 1 \in 0 .. H /\ H \in 0 .. H /\ H - 1 \in 0 .. H
      BY <1>0
    <3>3. /\ At(xx, yy) = At(0, yy) + xx /\ At(0, yy) \in Nat /\ At(0, H - 1) = ScreenSize - W
          /\ At(xx, yy + 1) = At(0, yy + 1) + xx /\ At(0, yy + 1) = At(0, yy) + W
          /\ (yy < H - 1 => At(0, yy) + W <= At(0, H - 1))
      BY <3>2, AtFacts, Sizes
    <3>4. CASE yy < H - 1
      <4>1. terminal_scroll(b)[At(xx, yy)] = b[At(xx, yy) + W]
        <5>1. At(xx, yy) < ScreenSize - W
          BY <1>0, <3>1, <3>3, <3>4
        <5>. QED BY <1>0, <3>1, <5>1 DEF terminal_scroll
      <4>2. At(xx, yy) + W = At(xx, yy + 1)
        BY <1>0, <3>3
      <4>3. yy + 1 \in 0 .. (H - 1)
        BY <1>0, <3>4
      <4>4. terminal_scroll(b)[At(xx, yy)] = RollCell(r, yy + 1, xx)
        BY <1>1, <4>1, <4>2, <4>3
      <4>5. yy + 1 < Len(r) /\ yy < Len(n) /\ n[yy + 1] = r[yy + 1 + 1]
        <5>1. yy + 1 \in 1 .. (H - 1)
          BY <1>0, <3>4
        <5>. QED BY <1>0, <2>1, <2>2, <2>3, <3>4, <5>1
      <4>. QED BY <4>4, <4>5 DEF RollCell
    <3>5. CASE yy = H - 1
      <4>1. ~(At(xx, yy) < ScreenSize - W) /\ At(xx, yy) < ScreenSize
        BY <1>0, <3>1, <3>3, <3>5
      <4>2. terminal_scroll(b)[At(xx, yy)] = Blank
        BY <1>0, <3>1, <4>1 DEF terminal_scroll
      <4>3. n[yy + 1] = <<>> /\ ~(xx < Len(n[yy + 1]))
        BY <1>0, <1>3, <2>4, <3>5
      <4>. QED BY <4>2, <4>3 DEF RollCell
    <3>. QED BY <1>0, <3>4, <3>5
  <2>7. H - 1 = Len(n) - 1 /\ 0 = Len(n[Len(n)])
    BY <1>3, <2>2, <2>4
  <2>8. Shows(Term(terminal_scroll(b), H - 1, 0), n)
    BY <2>6, <2>7, ShowsIs
  <2>9. n \in Rolls
    <3>1. Len(n) \in 1 .. H /\ Len(n[Len(n)]) < W
      BY <1>0, <1>3, <2>2, <2>4
    <3>. QED BY <2>2, <3>1 DEF Rolls, Lines
  <2>. QED BY <2>1, <2>5, <2>8, <2>9
<1>6. CASE ~(y + 1 >= H)
  <2>1. NewLine(r) = long /\ Len(long) = y + 2 /\ Len(long) \in 1 .. H /\ Len(r) = y + 1
    BY <1>0, <1>1, <1>2, <1>4, <1>6, SMTT(30)
  <2>2. NextRow(Term(b, y, x)) = Term(b, y + 1, 0)
    BY <1>6, NextRowIs
  <2>3. ASSUME NEW yy \in 0 .. (H - 1), NEW xx \in 0 .. (W - 1)
        PROVE  b[At(xx, yy)] = RollCell(long, yy, xx)
    <3>1. b[At(xx, yy)] = RollCell(r, yy, xx)
      BY <1>1
    <3>2. CASE yy < Len(r)
      <4>1. yy + 1 \in 1 .. Len(r) /\ yy < Len(long)
        BY <1>0, <1>1, <1>2, <3>2, SMTT(30)
      <4>2. long[yy + 1] = r[yy + 1]
        BY <1>2, <4>1
      <4>. QED BY <3>1, <3>2, <4>1, <4>2 DEF RollCell
    <3>3. CASE yy = Len(r)
      <4>1. long[yy + 1] = <<>> /\ ~(xx < Len(long[yy + 1])) /\ ~(yy < Len(r))
        BY <1>0, <1>1, <1>2, <1>3, <3>3, SMTT(30)
      <4>. QED BY <3>1, <4>1 DEF RollCell
    <3>4. CASE yy > Len(r)
      <4>1. ~(yy < Len(r)) /\ ~(yy < Len(long))
        BY <1>0, <1>1, <1>2, <3>4, SMTT(30)
      <4>. QED BY <3>1, <4>1 DEF RollCell
    <3>. QED BY <1>0, <1>1, <3>2, <3>3, <3>4
  <2>4. y + 1 = Len(long) - 1 /\ 0 = Len(long[Len(long)])
    BY <1>0, <1>2, <1>3, <2>1
  <2>5. Shows(Term(b, y + 1, 0), long)
    BY <2>3, <2>4, ShowsIs
  <2>6. long \in Rolls
    BY <1>0, <1>2, <1>3, <2>1 DEF Rolls, Lines
  <2>. QED BY <2>1, <2>2, <2>5, <2>6
<1>. QED BY <1>5, <1>6

\* The last line of a roll is replaced.
LEMMA WithLastIs ==
    ASSUME NEW r \in Lines, NEW line \in Seq(Text)
    PROVE  /\ WithLast(r, line) \in Lines /\ Len(WithLast(r, line)) = Len(r)
           /\ WithLast(r, line)[Len(r)] = line
           /\ \A i \in 1 .. (Len(r) - 1) : WithLast(r, line)[i] = r[i]
<1>1. r \in Seq(Seq(Text)) /\ Len(r) \in 1 .. H /\ Len(r) \in Nat
  BY Sizes DEF Lines
<1>. DEFINE n == WithLast(r, line)
<1>2. n = [r EXCEPT ![Len(r)] = line]
  BY DEF WithLast
<1>3. n \in Seq(Seq(Text)) /\ Len(n) = Len(r) /\ n[Len(r)] = line /\ \A i \in 1 .. (Len(r) - 1) : n[i] = r[i]
  BY <1>1, <1>2
<1>. HIDE DEF n
<1>4. n \in Lines
  BY <1>1, <1>3 DEF Lines
<1>. QED BY <1>3, <1>4 DEF n

\* A row in which the columns from x up to z get c shows the line with as
\* many c behind it.
LEMMA ShowsDrawn ==
    ASSUME NEW b \in [Cells -> Text], NEW y \in 0 .. (H - 1), NEW x \in 0 .. (W - 1), NEW r \in Rolls,
           Shows(Term(b, y, x), r), NEW c \in Text, NEW z \in (x + 1) .. W,
           NEW text, text = [i \in 1 .. (z - x) |-> c],
           NEW t, t = Wrapped(Term(Drawn(b, y, x, z, c), y, z))
    PROVE  RollWrite(r, text) \in Rolls /\ Shows(t, RollWrite(r, text))
<1>0. W = VGA_WIDTH /\ H = VGA_HEIGHT /\ H \in Nat /\ W \in Nat /\ H > 1 /\ W > 1
  BY Sizes
<1>1. r \in Lines /\ Len(r) \in 1 .. H /\ y = Len(r) - 1 /\ x = Len(r[Len(r)]) /\ r[Len(r)] \in Seq(Text)
      /\ \A yy \in 0 .. (H - 1), xx \in 0 .. (W - 1) : b[At(xx, yy)] = RollCell(r, yy, xx)
  BY <1>0, ShowsIs DEF Rolls, Lines
<1>. DEFINE last == r[Len(r)]
            line == last \o text
            n == WithLast(r, line)
            d == Drawn(b, y, x, z, c)
<1>2. text \in Seq(Text) /\ Len(text) = z - x /\ \A i \in 1 .. (z - x) : text[i] = c
  BY <1>0
<1>3. /\ line \in Seq(Text) /\ Len(line) = z
      /\ \A i \in 1 .. x : line[i] = last[i]
      /\ \A i \in (x + 1) .. z : line[i] = c
  <2>. HIDE DEF last
  <2>1. last \in Seq(Text) /\ Len(last) = x
    BY <1>1 DEF last
  <2>2. line \in Seq(Text) /\ Len(line) = z
    BY <1>0, <1>2, <2>1
  <2>3. \A i \in 1 .. x : line[i] = last[i]
    BY <1>0, <1>2, <2>1
  <2>4. ASSUME NEW i \in (x + 1) .. z PROVE line[i] = c
    <3>1. i - x \in 1 .. (z - x) /\ i \in 1 .. z /\ i > x
      BY <1>0
    <3>. QED BY <1>0, <1>2, <2>1, <3>1
  <2>. QED BY <2>2, <2>3, <2>4
<1>. HIDE DEF line
<1>4. n \in Lines /\ Len(n) = Len(r) /\ n[Len(r)] = line /\ \A i \in 1 .. (Len(r) - 1) : n[i] = r[i]
  BY <1>1, <1>3, WithLastIs
<1>. HIDE DEF n
<1>5. ASSUME NEW yy \in 0 .. (H - 1), NEW xx \in 0 .. (W - 1) PROVE d[At(xx, yy)] = RollCell(n, yy, xx)
  <2>1. At(xx, yy) \in Cells
    BY CellFacts
  <2>2. At(xx, yy) \in At(x, y) .. (At(z, y) - 1) <=> yy = y /\ x <= xx /\ xx < z
    <3>1. x \in 0 .. W /\ z \in 0 .. W
      BY <1>0
    <3>. QED BY <3>1, RowCells
  <2>3. d[At(xx, yy)] = IF yy = y /\ x <= xx /\ xx < z THEN c ELSE RollCell(r, yy, xx)
    BY <1>1, <2>1, <2>2 DEF Drawn
  <2>4. CASE yy = y
    <3>1. yy < Len(r) /\ yy + 1 = Len(r) /\ n[yy + 1] = line /\ r[yy + 1] = last
      BY <1>0, <1>1, <1>4, <2>4
    <3>2. RollCell(n, yy, xx) = IF xx < z THEN line[xx + 1] ELSE Blank
      BY <1>3, <1>4, <3>1 DEF RollCell
    <3>3. RollCell(r, yy, xx) = IF xx < x THEN last[xx + 1] ELSE Blank
      <4>1. Len(last) = x
        BY <1>1
      <4>. HIDE DEF last
      <4>. QED BY <3>1, <4>1 DEF RollCell
    <3>. HIDE DEF last
    <3>4. CASE xx < x
      <4>1. xx + 1 \in 1 .. x /\ xx < z
        BY <1>0, <3>4
      <4>. QED BY <1>0, <1>3, <2>3, <3>2, <3>3, <3>4, <4>1
    <3>5. CASE x <= xx /\ xx < z
      <4>1. xx + 1 \in (x + 1) .. z
        BY <1>0, <3>5
      <4>. QED BY <1>3, <2>3, <2>4, <3>2, <3>5, <4>1
    <3>6. CASE ~(xx < z)
      <4>1. ~(xx < x)
        BY <1>0, <3>6
      <4>. QED BY <2>3, <3>2, <3>3, <3>6, <4>1
    <3>. QED BY <1>0, <3>4, <3>5, <3>6
  <2>5. CASE yy # y
    <3>1. yy < Len(r) => yy + 1 \in 1 .. (Len(r) - 1)
      BY <1>0, <1>1, <2>5
    <3>. QED BY <1>4, <2>3, <2>5, <3>1 DEF RollCell
  <2>. QED BY <2>4, <2>5
<1>6. Shows(Term(d, y, z), n)
  <2>1. y = Len(n) - 1 /\ z = Len(n[Len(n)])
    BY <1>1, <1>3, <1>4
  <2>. HIDE DEF d
  <2>. QED BY <1>5, <2>1, ShowsIs
<1>7. RollWrite(r, text) = IF z >= W THEN NewLine(n) ELSE n
  BY <1>0, <1>3 DEF RollWrite, Last, n, line
<1>8. t = IF z >= W THEN NextRow(Term(d, y, z)) ELSE Term(d, y, z)
  <2>1. z \in Int
    BY <1>0
  <2>2. NextRow(Term(d, y, z)) = NextRow(Term(d, y, 0))
    BY NextRowIs
  <2>. HIDE DEF d
  <2>3. t = Wrapped(Term(d, y, z))
    BY DEF d
  <2>. QED BY <2>1, <2>2, <2>3, WrappedIs
<1>9. d \in [Cells -> Text] /\ z \in 0 .. W
  BY <1>0 DEF Drawn
<1>. HIDE DEF d
<1>10. CASE z >= W
  BY <1>4, <1>6, <1>7, <1>8, <1>9, <1>10, ShowsNewLine
<1>11. CASE ~(z >= W)
  <2>1. n \in Rolls
    BY <1>0, <1>3, <1>4, <1>11 DEF Rolls
  <2>. QED BY <1>6, <1>7, <1>8, <1>11, <2>1
<1>. QED BY <1>10, <1>11

LEMMA RollPuts ==
    ASSUME NEW r
    PROVE  /\ RollPut(r, NL) = NewLine(r)
           /\ RollPut(r, BS) = IF r[Len(r)] = <<>> THEN r ELSE WithLast(r, Front(r[Len(r)]))
           /\ RollPut(r, TAB) =
                 RollWrite(r, [i \in 1 .. (TabStop - (Len(r[Len(r)]) % TabStop)) |-> Blank])
           /\ \A c : c \notin {NL, BS, TAB} => RollPut(r, c) = RollWrite(r, <<c>>)
<1>. DEFINE erased == IF r[Len(r)] = <<>> THEN r ELSE WithLast(r, Front(r[Len(r)]))
            tabbed == RollWrite(r, [i \in 1 .. (TabStop - (Len(r[Len(r)]) % TabStop)) |-> Blank])
<1>1. \A c : RollPut(r, c) = CASE c = NL  -> NewLine(r)
                               [] c = BS  -> erased
                               [] c = TAB -> tabbed
                               [] OTHER   -> RollWrite(r, <<c>>)
  BY DEF RollPut, Last
<1>. HIDE DEF erased, tabbed
<1>2. /\ RollPut(r, NL) = NewLine(r) /\ RollPut(r, BS) = erased /\ RollPut(r, TAB) = tabbed
      /\ \A c : c \notin {NL, BS, TAB} => RollPut(r, c) = RollWrite(r, <<c>>)
  BY <1>1 DEF NL, BS, TAB
<1>. QED BY <1>2 DEF erased, tabbed

\* The erasure of the last character of a line.
LEMMA ShowsErased ==
    ASSUME NEW b \in [Cells -> Text], NEW y \in 0 .. (H - 1), NEW x \in 1 .. (W - 1), NEW r \in Rolls,
           Shows(Term(b, y, x), r), NEW d, d = Entry(b, x - 1, y, Blank),
           NEW n, n = WithLast(r, Front(r[Len(r)]))
    PROVE  n \in Rolls /\ Shows(Term(d, y, x - 1), n)
<1>0. H \in Nat /\ W \in Nat /\ H > 1 /\ W > 1 /\ x - 1 \in 0 .. (W - 1)
  BY Sizes
<1>1. r \in Lines /\ Len(r) \in 1 .. H /\ y = Len(r) - 1 /\ x = Len(r[Len(r)]) /\ r[Len(r)] \in Seq(Text)
      /\ \A yy \in 0 .. (H - 1), xx \in 0 .. (W - 1) : b[At(xx, yy)] = RollCell(r, yy, xx)
  BY <1>0, ShowsIs DEF Rolls, Lines
<1>. DEFINE last == r[Len(r)]
            line == Front(last)
<1>2. line \in Seq(Text) /\ Len(line) = x - 1 /\ \A i \in 1 .. (x - 1) : line[i] = last[i]
  <2>1. last \in Seq(Text) /\ Len(last) = x
    BY <1>1
  <2>. HIDE DEF last
  <2>. QED BY <1>0, <2>1 DEF Front
<1>. HIDE DEF line
<1>3. n \in Lines /\ Len(n) = Len(r) /\ n[Len(r)] = line /\ \A i \in 1 .. (Len(r) - 1) : n[i] = r[i]
  <2>1. n = WithLast(r, line)
    BY DEF line
  <2>. QED BY <1>1, <1>2, <2>1, WithLastIs
<1>4. ASSUME NEW yy \in 0 .. (H - 1), NEW xx \in 0 .. (W - 1) PROVE d[At(xx, yy)] = RollCell(n, yy, xx)
  <2>1. At(xx, yy) \in Cells /\ At(x - 1, y) \in Cells
    BY <1>0, CellFacts
  <2>2. At(xx, yy) = At(x - 1, y) <=> yy = y /\ xx = x - 1
    <3>1. x - 1 \in 0 .. W /\ x \in 0 .. W
      BY <1>0
    <3>2. At(x, y) = At(x - 1, y) + 1 /\ At(x - 1, y) \in Int /\ At(xx, yy) \in Int
      <4>1. x \in Int /\ x - 1 \in Int /\ y \in 0 .. H /\ xx \in Int /\ yy \in 0 .. H
        BY <1>0
      <4>2. At(x, y) = At(0, y) + x /\ At(x - 1, y) = At(0, y) + (x - 1) /\ At(0, y) \in Nat
            /\ At(xx, yy) = At(0, yy) + xx /\ At(0, yy) \in Nat
        BY <4>1, AtFacts
      <4>. QED BY <4>1, <4>2
    <3>3. At(xx, yy) \in At(x - 1, y) .. (At(x, y) - 1) <=> yy = y /\ x - 1 <= xx /\ xx < x
      <4>. DEFINE a == x - 1
      <4>1. a \in 0 .. W
        BY <3>1
      <4>. HIDE DEF a
      <4>2. At(xx, yy) \in At(a, y) .. (At(x, y) - 1) <=> yy = y /\ a <= xx /\ xx < x
        BY <3>1, <4>1, RowCells
      <4>. QED BY <4>2 DEF a
    <3>. QED BY <1>0, <3>2, <3>3
  <2>3. d[At(xx, yy)] = IF yy = y /\ xx = x - 1 THEN Blank ELSE RollCell(r, yy, xx)
    BY <1>1, <2>1, <2>2 DEF Entry
  <2>4. CASE yy = y
    <3>1. yy < Len(r) /\ yy + 1 = Len(r) /\ n[yy + 1] = line /\ r[yy + 1] = last
      BY <1>0, <1>1, <1>3, <2>4
    <3>2. RollCell(n, yy, xx) = IF xx < x - 1 THEN line[xx + 1] ELSE Blank
      BY <1>2, <1>3, <3>1 DEF RollCell
    <3>3. RollCell(r, yy, xx) = IF xx < x THEN last[xx + 1] ELSE Blank
      <4>1. Len(last) = x
        BY <1>1
      <4>. HIDE DEF last
      <4>. QED BY <3>1, <4>1 DEF RollCell
    <3>. HIDE DEF last
    <3>4. CASE xx < x - 1
      <4>1. xx + 1 \in 1 .. (x - 1) /\ xx < x /\ xx # x - 1
        BY <1>0, <3>4
      <4>. QED BY <1>2, <2>3, <3>2, <3>3, <3>4, <4>1
    <3>5. CASE xx = x - 1
      <4>1. ~(xx < x - 1)
        BY <1>0, <3>5
      <4>. QED BY <2>3, <2>4, <3>2, <3>5, <4>1
    <3>6. CASE xx > x - 1
      <4>1. ~(xx < x) /\ ~(xx < x - 1) /\ xx # x - 1
        BY <1>0, <3>6
      <4>. QED BY <2>3, <3>2, <3>3, <4>1
    <3>. QED BY <1>0, <3>4, <3>5, <3>6
  <2>5. CASE yy # y
    <3>1. yy < Len(r) => yy + 1 \in 1 .. (Len(r) - 1)
      BY <1>0, <1>1, <2>5
    <3>. QED BY <1>3, <2>3, <2>5, <3>1 DEF RollCell
  <2>. QED BY <2>4, <2>5
<1>5. y = Len(n) - 1 /\ x - 1 = Len(n[Len(n)])
  BY <1>1, <1>2, <1>3
<1>6. Shows(Term(d, y, x - 1), n)
  <2>. DEFINE a == x - 1
  <2>1. a = Len(n[Len(n)])
    BY <1>5
  <2>. HIDE DEF a
  <2>2. Shows(Term(d, y, a), n)
    BY <1>4, <1>5, <2>1, ShowsIs
  <2>. QED BY <2>2 DEF a
<1>7. n \in Rolls
  BY <1>0, <1>2, <1>3 DEF Rolls
<1>. QED BY <1>6, <1>7

\* Whatever the character, the terminal and the roll stay together.
LEMMA PutShows ==
    ASSUME NEW t \in OnScreen, NEW r \in Rolls, Shows(t, r), NEW c \in Chars
    PROVE  RollPut(r, c) \in Rolls /\ Shows(terminal_putchar(t, c), RollPut(r, c))
<1>0. W = VGA_WIDTH /\ H \in Nat /\ W \in Nat /\ H > 1 /\ W > 1 /\ TabStop \in Nat /\ TabStop > 0
  BY Sizes
<1>. DEFINE b == t.buffer
            y == t.row
            x == t.column
<1>1. t = Term(b, y, x) /\ b \in [Cells -> Text] /\ y \in 0 .. (H - 1) /\ x \in 0 .. (W - 1)
  <2>1. t \in Terminals /\ t.row < H /\ t.column < W
    BY DEF OnScreen
  <2>. QED BY <1>0, <2>1, TermIs
<1>2. t.column = x
  OBVIOUS
<1>. HIDE DEF b, y, x
<1>3. Shows(Term(b, y, x), r) /\ r \in Lines /\ x = Len(r[Len(r)]) /\ Len(r) \in 1 .. H /\ r[Len(r)] \in Seq(Text)
  BY <1>0, <1>1, ShowsIs DEF Rolls, Lines
<1>4. CASE c = NL
  <2>1. x \in 0 .. W
    BY <1>0, <1>1
  <2>. QED BY <1>1, <1>3, <1>4, <2>1, Puts, RollPuts, ShowsNewLine
<1>5. CASE c = BS
  <2>1. terminal_putchar(t, c) = Erased(t)
    BY <1>5, Puts
  <2>2. CASE x = 0
    <3>1. r[Len(r)] = <<>>
      BY <1>3, <2>2, EmptySeq
    <3>2. RollPut(r, c) = r
      BY <1>5, <3>1, RollPuts
    <3>3. Erased(t) = t
      BY <1>2, <2>2 DEF Erased
    <3>. QED BY <2>1, <3>2, <3>3
  <2>3. CASE x # 0
    <3>1. x \in 1 .. (W - 1) /\ x \in 1 .. W /\ y \in 0 .. H
      BY <1>0, <1>1, <2>3
    <3>. DEFINE d == [b EXCEPT ![At(x - 1, y)] = Blank]
                n == WithLast(r, Front(r[Len(r)]))
    <3>2. Erased(t) = Term(d, y, x - 1)
      BY <1>1, <3>1, ErasedFields
    <3>3. r[Len(r)] # <<>>
      BY <1>3, <2>3
    <3>4. RollPut(r, c) = n
      BY <1>5, <3>3, RollPuts
    <3>5. d = Entry(b, x - 1, y, Blank) /\ n = WithLast(r, Front(r[Len(r)]))
      BY DEF Entry
    <3>. HIDE DEF d, n
    <3>6. n \in Rolls /\ Shows(Term(d, y, x - 1), n)
      BY <1>1, <1>3, <3>1, <3>5, ShowsErased
    <3>. QED BY <2>1, <3>2, <3>4, <3>6
  <2>. QED BY <2>2, <2>3
<1>6. CASE c = TAB
  <2>. DEFINE z == NextStop(x)
              text == [i \in 1 .. (z - x) |-> Blank]
              u == terminal_putchar(t, c)
  <2>1. z \in (x + 1) .. W /\ z - x = TabStop - (x % TabStop)
    <3>1. z \in (x + 1) .. W /\ z = x + (TabStop - (x % TabStop))
      BY <1>1, Stops
    <3>2. x % TabStop \in Int /\ x \in Int
      BY <1>0, <1>1, DivMod
    <3>. HIDE DEF z
    <3>. QED BY <1>0, <3>1, <3>2
  <2>2. u = Wrapped(Term(Drawn(b, y, x, z, Blank), y, z))
    BY <1>1, <1>2, <1>6, Puts, FilledIs
  <2>3. RollPut(r, c) = RollWrite(r, text)
    BY <1>3, <1>6, <2>1, RollPuts
  <2>4. text = [i \in 1 .. (z - x) |-> Blank] /\ Blank \in Text
    BY CharFacts
  <2>. HIDE DEF z, text, u
  <2>5. RollWrite(r, text) \in Rolls /\ Shows(u, RollWrite(r, text))
    BY <1>1, <1>3, <2>1, <2>2, <2>4, ShowsDrawn
  <2>. QED BY <2>3, <2>5 DEF u
<1>7. CASE c \notin {NL, BS, TAB}
  <2>. DEFINE z == x + 1
              text == <<c>>
              u == terminal_putchar(t, c)
  <2>1. z \in (x + 1) .. W /\ text = [i \in 1 .. (z - x) |-> c]
    <3>1. z - x = 1 /\ 1 .. 1 = {1} /\ z \in (x + 1) .. W
      BY <1>0, <1>1
    <3>2. <<c>> = [i \in 1 .. 1 |-> c]
      OBVIOUS
    <3>. HIDE DEF z
    <3>. QED BY <3>1, <3>2
  <2>2. u = Wrapped(Term(Drawn(b, y, x, z, c), y, z))
    BY <1>1, <1>2, <1>7, Puts, FilledIs
  <2>3. RollPut(r, c) = RollWrite(r, text)
    BY <1>7, RollPuts
  <2>4. c \in Text
    BY <1>7, CharFacts
  <2>. HIDE DEF z, text, u
  <2>5. RollWrite(r, text) \in Rolls /\ Shows(u, RollWrite(r, text))
    BY <1>1, <1>3, <2>1, <2>2, <2>4, ShowsDrawn
  <2>. QED BY <2>3, <2>5 DEF u
<1>. QED BY <1>4, <1>5, <1>6, <1>7

\* The values of the recursion of RollPutString.
RollPrints(r, data, g) ==
    g = [n \in 0 .. Len(data) |-> IF n = 0 THEN r ELSE RollPut(g[n - 1], data[n])]

LEMMA RollPutStringPrints ==
    ASSUME NEW r, NEW data, \E g : RollPrints(r, data, g)
    PROVE  \E g : RollPrints(r, data, g) /\ RollPutString(r, data) = g[Len(data)]
<1>. DEFINE G == CHOOSE g : RollPrints(r, data, g)
<1>1. RollPrints(r, data, G)
  OBVIOUS
<1>2. RollPutString(r, data) = G[Len(data)]
  BY DEF RollPutString, RollPrints
<1>. HIDE DEF G
<1>. QED BY <1>1, <1>2

\* A string printed on both.
LEMMA WriteStringShows ==
    ASSUME NEW t \in OnScreen, NEW r \in Rolls, Shows(t, r), NEW data \in Seq(Chars)
    PROVE  /\ RollPutString(r, data) \in Rolls
           /\ Shows(terminal_writestring(t, data), RollPutString(r, data))
<1>. DEFINE n == Len(data)
            S == {p \in OnScreen \X Rolls : Shows(p[1], p[2])}
            F == [i \in 1 .. n |-> [p \in S |-> <<terminal_putchar(p[1], data[i]), RollPut(p[2], data[i])>>]]
<1>1. n \in Nat /\ \A i \in 1 .. n : data[i] \in Chars
  OBVIOUS
<1>2. ASSUME NEW i \in 1 .. n, NEW p \in S
      PROVE  <<terminal_putchar(p[1], data[i]), RollPut(p[2], data[i])>> \in S
  <2>1. p[1] \in OnScreen /\ p[2] \in Rolls /\ Shows(p[1], p[2]) /\ data[i] \in Chars
    BY <1>1
  <2>2. terminal_putchar(p[1], data[i]) \in OnScreen
    BY <2>1, PutOnScreen
  <2>3. RollPut(p[2], data[i]) \in Rolls /\ Shows(terminal_putchar(p[1], data[i]), RollPut(p[2], data[i]))
    BY <2>1, PutShows
  <2>. QED BY <2>2, <2>3
<1>3. <<t, r>> \in S
  OBVIOUS
<1>. HIDE DEF S, n
<1>4. F \in [1 .. n -> [S -> S]]
  BY <1>2
<1>5. \A i \in 1 .. n : \A p \in S : F[i][p] = <<terminal_putchar(p[1], data[i]), RollPut(p[2], data[i])>>
  OBVIOUS
<1>. HIDE DEF F
<1>. DEFINE start == <<t, r>>
<1>6. PICK g \in [0 .. n -> S] : Steps(g, n, start, F)
  <2>1. start \in S
    BY <1>3
  <2>. HIDE DEF start
  <2>. QED BY <1>1, <1>4, <2>1, RecursionIn
<1>7. g[0] = <<t, r>>
  BY <1>1, <1>6 DEF Steps
<1>8. ASSUME NEW i \in 1 .. n
      PROVE  g[i] = <<terminal_putchar(g[i - 1][1], data[i]), RollPut(g[i - 1][2], data[i])>>
  <2>1. i \in 0 .. n /\ i # 0 /\ i - 1 \in 0 .. n
    BY <1>1
  <2>2. g[i] = F[i][g[i - 1]] /\ g[i - 1] \in S
    BY <1>6, <2>1 DEF Steps
  <2>. QED BY <1>5, <2>2
<1>9. PICK h : RollPrints(r, data, h) /\ RollPutString(r, data) = h[n]
  <2>. DEFINE hh == [i \in 0 .. n |-> g[i][2]]
  <2>1. RollPrints(r, data, hh)
    <3>. SUFFICES ASSUME NEW i \in 0 .. n
                  PROVE  hh[i] = IF i = 0 THEN r ELSE RollPut(hh[i - 1], data[i])
      BY DEF RollPrints, n
    <3>1. CASE i = 0
      BY <1>7, <3>1
    <3>2. CASE i # 0
      <4>1. i \in 1 .. n /\ i - 1 \in 0 .. n
        BY <1>1, <3>2
      <4>2. hh[i] = RollPut(g[i - 1][2], data[i]) /\ hh[i - 1] = g[i - 1][2]
        BY <1>8, <4>1
      <4>. QED BY <3>2, <4>2
    <3>. QED BY <3>1, <3>2
  <2>. HIDE DEF hh
  <2>. QED BY <2>1, RollPutStringPrints DEF n
<1>10. PICK f : Prints(t, data, f) /\ terminal_writestring(t, data) = f[n]
  BY WriteStringOnScreen DEF n
<1>. DEFINE T == {m \in Nat : m <= n => f[m] = g[m][1] /\ h[m] = g[m][2]}
<1>11. 0 \in T
  <2>1. 0 \in 0 .. n
    BY <1>1
  <2>. QED BY <1>7, <1>9, <1>10, <2>1 DEF Prints, RollPrints, n
<1>12. ASSUME NEW m \in Nat, m \in T PROVE m + 1 \in T
  <2>. SUFFICES ASSUME m + 1 <= n PROVE f[m + 1] = g[m + 1][1] /\ h[m + 1] = g[m + 1][2]
    OBVIOUS
  <2>1. m + 1 \in 0 .. n /\ m + 1 \in 1 .. n /\ m + 1 # 0 /\ m + 1 - 1 = m /\ m <= n
    BY <1>1
  <2>2. f[m + 1] = terminal_putchar(f[m], data[m + 1]) /\ h[m + 1] = RollPut(h[m], data[m + 1])
    BY <1>9, <1>10, <2>1 DEF Prints, RollPrints, n
  <2>3. g[m + 1] = <<terminal_putchar(g[m][1], data[m + 1]), RollPut(g[m][2], data[m + 1])>>
    BY <1>8, <2>1
  <2>. QED BY <1>12, <2>1, <2>2, <2>3
<1>. HIDE DEF T
<1>13. Nat \subseteq T
  BY <1>11, <1>12, SetInduction
<1>14. f[n] = g[n][1] /\ h[n] = g[n][2]
  BY <1>1, <1>13 DEF T
<1>15. g[n] \in S
  <2>1. n \in 0 .. n
    BY <1>1
  <2>. QED BY <2>1
<1>16. g[n][2] \in Rolls /\ Shows(g[n][1], g[n][2])
  BY <1>15 DEF S
<1>. QED BY <1>9, <1>10, <1>14, <1>16

-----------------------------------------------------------------------------
(***************************************************************************)
(* The screen is the end of the roll, until an echo falls inside a call.   *)
(***************************************************************************)
Pictured ==
    /\ pc \in {"free", "halted"} => Shows(Screen, roll)
    /\ pc \in Putting => RollPut(roll, Head(todo)) \in Rolls /\ Shows(Result, RollPut(roll, Head(todo)))
    /\ pc \in Clearing => roll = BlankRoll /\ \A i \in 0 .. (k - 1) : buffer[i] = Blank
    /\ pc \in {"top", "corner"} => k = ScreenSize
    /\ pc = "corner" => row = 0

RollInv == roll \in Rolls /\ (~torn => RegsOK /\ Pictured)

LEMMA FreeOnScreen ==
    ASSUME ConsoleInv, pc = "free"
    PROVE  Screen \in OnScreen
<1>1. Screen \in Terminals /\ Screen.row = row /\ Screen.column = column
  BY ScreenIs DEF ConsoleInv, Screen
<1>2. row < H /\ column < W
  BY Sizes DEF ConsoleInv, TypeOK, CursorStays
<1>. QED BY <1>1, <1>2 DEF OnScreen

LEMMA RollInit == Init => RollInv
<1>. SUFFICES ASSUME Init PROVE RollInv
  OBVIOUS
<1>1. buffer = [i \in Cells |-> Blank] /\ row = 0 /\ column = 0 /\ pc = "free" /\ roll = BlankRoll
  BY DEF Init, terminal_initialize
<1>2. Screen = Term(buffer, 0, 0)
  BY <1>1 DEF Screen, Term
<1>3. \A i \in 0 .. (ScreenSize - 1) : buffer[i] = Blank
  BY <1>1, CellFacts
<1>4. Shows(Screen, roll) /\ roll \in Rolls
  BY <1>1, <1>2, <1>3, BlankRollShows
<1>. QED BY <1>1, <1>4 DEF RollInv, RegsOK, Pictured, Putting, Clearing

LEMMA IrqPictured ==
    ASSUME ConsoleInv, RollInv, NEW c \in Keys, keyboard_irq(c)
    PROVE  RollInv'
<1>1. UNCHANGED <<pc, reg, k, todo, after, cmd>>
  BY DEF keyboard_irq
<1>2. CASE ~Echoed(c)
  <2>1. UNCHANGED <<buffer, row, column, echoes, roll, torn, disturbed>>
    BY <1>2 DEF keyboard_irq, term
  <2>. QED BY <1>1, <2>1 DEF RollInv, RegsOK, Pictured, Screen, Result
<1>3. CASE Echoed(c) /\ (torn \/ pc # "free")
  <2>1. torn' /\ roll' = BlankRoll
    BY <1>3 DEF keyboard_irq
  <2>. QED BY <2>1, BlankRollShows DEF RollInv
<1>4. CASE Echoed(c) /\ ~torn /\ pc = "free"
  <2>. DEFINE u == terminal_putchar(Screen, c)
  <2>1. Screen \in OnScreen /\ c \in Chars /\ Shows(Screen, roll) /\ roll \in Rolls
    BY <1>4, FreeOnScreen, CharFacts DEF RollInv, Pictured
  <2>2. u \in OnScreen /\ RollPut(roll, c) \in Rolls /\ Shows(u, RollPut(roll, c))
    BY <2>1, PutOnScreen, PutShows
  <2>3. SetScreen(u) /\ torn' = FALSE /\ roll' = RollPut(roll, c) /\ pc' = "free"
    BY <1>1, <1>4 DEF keyboard_irq, ConsoleInv, TypeOK
  <2>. HIDE DEF u
  <2>4. Screen' = u
    <3>1. u = Term(u.buffer, u.row, u.column)
      BY <2>2, TermIs DEF OnScreen
    <3>. QED BY <2>3, <3>1 DEF SetScreen, Screen, Term
  <2>. QED BY <2>2, <2>3, <2>4 DEF RollInv, RegsOK, Pictured, Putting, Clearing
<1>. QED BY <1>2, <1>3, <1>4

LEMMA TerminalStepPictured ==
    ASSUME ConsoleInv, RollInv, TerminalStep
    PROVE  RollInv'
<1>0. W = VGA_WIDTH /\ H = VGA_HEIGHT /\ H \in Nat /\ W \in Nat /\ H > 1 /\ W > 1 /\ ScreenSize \in Nat
      /\ 0 .. (ScreenSize - 1) \subseteq Cells
  BY Sizes, CellFacts
<1>1. TypeOK /\ CallInv
  BY DEF ConsoleInv
<1>2. torn' = torn /\ (roll' = roll \/ roll' = IF torn THEN BlankRoll ELSE RollPut(roll, Head(todo)))
  BY DEF TerminalStep, NewlineLoad, EraseAtEdge, LoadColumn, LoadRow, WriteGlyph, MoveRight, MoveLeft,
         BlankErased, TabBlank, TabAtStop, MoveHome, MoveDown, ScrollCell, BackOnScreen, ClearCell,
         ClearRow, ClearColumn, CallOnly, PutOn, PutDone
<1>3. CASE torn
  BY <1>2, <1>3, BlankRollShows DEF RollInv
<1>4. CASE ~torn /\ pc \in Putting
  <2>1. Onward
    BY <1>4, CallGoesOn DEF RollInv
  <2>2. RollPut(roll, Head(todo)) \in Rolls /\ Shows(Result, RollPut(roll, Head(todo))) /\ roll \in Rolls
    BY <1>4 DEF RollInv, Pictured
  <2>3. CASE pc' \in Putting /\ PutOn /\ RegsOK' /\ Result' = Result
    <3>1. roll' = roll /\ todo' = todo
      BY <2>3 DEF PutOn
    <3>2. ~(pc' \in {"free", "halted"} \cup Clearing)
      BY <2>3 DEF Putting, Clearing
    <3>. QED BY <2>2, <2>3, <3>1, <3>2 DEF RollInv, Pictured, Clearing
  <2>4. CASE pc' = "free" /\ PutDone /\ Screen' = Result
    <3>1. roll' = RollPut(roll, Head(todo))
      BY <1>4, <2>4 DEF PutDone
    <3>. QED BY <2>2, <2>4, <3>1 DEF RollInv, RegsOK, Pictured, Putting, Clearing
  <2>. QED BY <2>1, <2>3, <2>4 DEF Onward
<1>5. CASE ~torn /\ pc = "free"
  <2>1. Screen \in OnScreen /\ Shows(Screen, roll) /\ roll \in Rolls
    BY <1>5, FreeOnScreen DEF RollInv, Pictured
  <2>2. todo # <<>> /\ Head(todo) \in Chars
    <3>1. todo # <<>>
      BY <1>5 DEF TerminalStep, NewlineLoad, EraseAtEdge, LoadColumn, LoadRow, WriteGlyph, MoveRight,
         MoveLeft, BlankErased, TabBlank, TabAtStop, MoveHome, MoveDown, ScrollCell, BackOnScreen,
         ClearCell, ClearRow, ClearColumn
    <3>. QED BY <1>1, <3>1 DEF TypeOK
  <2>. DEFINE c == Head(todo)
  <2>3. RollPut(roll, c) \in Rolls /\ Shows(terminal_putchar(Screen, c), RollPut(roll, c))
    BY <2>1, <2>2, PutShows
  <2>4. CASE NewlineLoad \/ LoadColumn
    <3>1. pc' \in Putting /\ PutOn /\ RegsOK' /\ Result' = terminal_putchar(Screen, c)
      BY <2>4, CallStarts
    <3>2. roll' = roll /\ todo' = todo
      BY <3>1 DEF PutOn
    <3>3. ~(pc' \in {"free", "halted"} \cup Clearing)
      BY <3>1 DEF Putting, Clearing
    <3>. QED BY <2>1, <2>3, <3>1, <3>2, <3>3 DEF RollInv, Pictured, Clearing
  <2>5. CASE EraseAtEdge
    <3>1. pc' = "free" /\ roll' = RollPut(roll, c) /\ Screen' = Screen /\ c = BS /\ Screen.column = 0
      BY <1>5, <2>5 DEF EraseAtEdge, PutDone, Goto, term, Screen
    <3>2. terminal_putchar(Screen, c) = Screen
      BY <3>1, Puts DEF Erased
    <3>. QED BY <2>3, <3>1, <3>2 DEF RollInv, RegsOK, Pictured, Putting, Clearing
  <2>6. NewlineLoad \/ LoadColumn \/ EraseAtEdge
    BY <1>5 DEF TerminalStep, LoadRow, WriteGlyph, MoveRight, MoveLeft, BlankErased, TabBlank, TabAtStop,
         MoveHome, MoveDown, ScrollCell, BackOnScreen, ClearCell, ClearRow, ClearColumn
  <2>. QED BY <2>4, <2>5, <2>6
<1>6. CASE ~torn /\ pc \in Clearing
  <2>1. roll = BlankRoll /\ \A i \in 0 .. (k - 1) : buffer[i] = Blank
    BY <1>6 DEF RollInv, Pictured
  <2>2. CASE ClearCell
    <3>1. /\ k' = k + 1 /\ buffer' = [buffer EXCEPT ![k] = Blank] /\ roll' = roll /\ k \in 0 .. (ScreenSize - 1)
          /\ pc' = IF k + 1 = ScreenSize THEN "top" ELSE "clear"
      BY <1>0, <1>1, <2>2 DEF ClearCell, PutOn, Goto, CallInv, TypeOK
    <3>2. \A i \in 0 .. (k' - 1) : buffer'[i] = Blank
      <4>. SUFFICES ASSUME NEW i \in 0 .. (k' - 1) PROVE buffer'[i] = Blank
        OBVIOUS
      <4>1. i \in Cells /\ (i # k => i \in 0 .. (k - 1))
        BY <1>0, <3>1
      <4>2. buffer \in [Cells -> Text]
        BY <1>1 DEF TypeOK, Text
      <4>. QED BY <2>1, <3>1, <4>1, <4>2
    <3>. QED BY <2>1, <3>1, <3>2, BlankRollShows DEF RollInv, RegsOK, Pictured, Putting, Clearing
  <2>3. CASE ClearRow
    <3>1. pc = "top" /\ pc' = "corner" /\ row' = 0 /\ UNCHANGED <<buffer, k, roll>>
      BY <2>3 DEF ClearRow, PutOn, Goto
    <3>2. k = ScreenSize
      BY <1>6, <3>1 DEF RollInv, Pictured
    <3>. QED BY <2>1, <3>1, <3>2, BlankRollShows DEF RollInv, RegsOK, Pictured, Putting, Clearing
  <2>4. CASE ClearColumn
    <3>1. k = ScreenSize /\ row = 0 /\ pc' = "free" /\ column' = 0 /\ UNCHANGED <<buffer, row, roll>>
      BY <1>6, <2>4 DEF ClearColumn, Goto, RollInv, Pictured
    <3>2. Screen' = Term(buffer, 0, 0)
      BY <3>1 DEF Screen, Term
    <3>3. Shows(Screen', roll') /\ roll' \in Rolls
      BY <2>1, <3>1, <3>2, BlankRollShows
    <3>. QED BY <3>1, <3>3 DEF RollInv, RegsOK, Pictured, Putting, Clearing
  <2>5. ClearCell \/ ClearRow \/ ClearColumn
    BY <1>6 DEF TerminalStep, NewlineLoad, EraseAtEdge, LoadColumn, LoadRow, WriteGlyph, MoveRight, MoveLeft,
         BlankErased, TabBlank, TabAtStop, MoveHome, MoveDown, ScrollCell, BackOnScreen, Clearing
  <2>. QED BY <2>2, <2>3, <2>4, <2>5
<1>7. pc # "halted"
  BY DEF TerminalStep, NewlineLoad, EraseAtEdge, LoadColumn, LoadRow, WriteGlyph, MoveRight, MoveLeft,
         BlankErased, TabBlank, TabAtStop, MoveHome, MoveDown, ScrollCell, BackOnScreen,
         ClearCell, ClearRow, ClearColumn
<1>. QED BY <1>1, <1>3, <1>4, <1>5, <1>6, <1>7 DEF TypeOK, Putting, Clearing

LEMMA ShellStepPictured ==
    ASSUME ConsoleInv, RollInv, ShellStep
    PROVE  RollInv'
<1>1. pc = "free"
  BY DEF ShellStep, InputChar, InputErase, EnterNothing, EnterCommand, EnterShutdown, EnterClear,
         EnterExec, do_write, ExecReturns, Halt, InputEnter, Reading
<1>2. CASE UNCHANGED <<buffer, row, column, roll, torn>> /\ pc' \in {"free", "halted"}
  BY <1>1, <1>2 DEF RollInv, RegsOK, Pictured, Putting, Clearing, Screen
<1>3. CASE EnterClear
  <2>1. pc' = "clear" /\ roll' = BlankRoll /\ k' = 0
    BY <1>1, <1>3 DEF EnterClear, Goto, ConsoleInv, CallInv, Clearing
  <2>. QED BY <2>1, BlankRollShows DEF RollInv, RegsOK, Pictured, Putting, Clearing
<1>4. CASE \E data \in Writes : do_write(data)
  <2>1. PICK data \in Writes : do_write(data)
    BY <1>4
  <2>. DEFINE u == terminal_writestring(Screen, data)
  <2>2. SetScreen(u) /\ pc' = "free" /\ torn' = torn /\ data \in Seq(Chars) /\ Screen \in OnScreen
        /\ roll' = IF torn THEN BlankRoll ELSE RollPutString(roll, data)
    BY <1>1, <2>1, FreeOnScreen, CharFacts DEF do_write, call
  <2>3. CASE torn
    BY <2>2, <2>3, BlankRollShows DEF RollInv
  <2>4. CASE ~torn
    <3>1. Shows(Screen, roll) /\ roll \in Rolls
      BY <1>1, <2>4 DEF RollInv, Pictured
    <3>2. RollPutString(roll, data) \in Rolls /\ Shows(u, RollPutString(roll, data))
      BY <2>2, <3>1, WriteStringShows
    <3>3. u \in OnScreen
      <4>1. PICK g \in [0 .. Len(data) -> OnScreen] : u = g[Len(data)]
        BY <2>2, WriteStringOnScreen
      <4>2. Len(data) \in 0 .. Len(data)
        BY <2>2
      <4>. QED BY <4>1, <4>2
    <3>. HIDE DEF u
    <3>4. Screen' = u
      <4>1. u = Term(u.buffer, u.row, u.column)
        BY <3>3, TermIs DEF OnScreen
      <4>. QED BY <2>2, <4>1 DEF SetScreen, Screen, Term
    <3>. QED BY <2>2, <2>4, <3>2, <3>4 DEF RollInv, RegsOK, Pictured, Putting, Clearing
  <2>. QED BY <2>3, <2>4
<1>5. \/ UNCHANGED <<buffer, row, column, roll, torn>> /\ pc' \in {"free", "halted"}
      \/ EnterClear
      \/ \E data \in Writes : do_write(data)
  BY <1>1 DEF ShellStep, InputChar, InputErase, EnterNothing, EnterCommand, EnterShutdown, EnterExec,
         ExecReturns, Halt, Goto, term, call
<1>. QED BY <1>2, <1>3, <1>4, <1>5

\* Until an echo falls inside a call, what the current terminal call returns
\* is the roll with the call's character printed.
THEOREM ConsoleRollInvariant == Spec => []RollInv
<1>1. ConsoleInv /\ RollInv /\ [Next]_vars => RollInv'
  <2>. SUFFICES ASSUME ConsoleInv, RollInv, [Next]_vars PROVE RollInv'
    OBVIOUS
  <2>1. CASE Next
    BY <2>1, IrqPictured, TerminalStepPictured, ShellStepPictured DEF Next
  <2>2. CASE UNCHANGED vars
    BY <2>2 DEF vars, RollInv, RegsOK, Pictured, Screen, Result
  <2>. QED BY <2>1, <2>2
<1>. QED BY <1>1, RollInit, ConsoleInvariant, PTL DEF Spec

\* Between two terminal calls the screen is the end of the roll of all that
\* was printed and echoed: scrolling, wrapping, tabs and erasures lose and
\* repeat nothing.
THEOREM ConsoleScreenIsRoll == Spec => []ScreenIsRoll
<1>1. RollInv => ScreenIsRoll
  BY DEF RollInv, Pictured, ScreenIsRoll
<1>. QED BY <1>1, ConsoleRollInvariant, PTL

-----------------------------------------------------------------------------
(***************************************************************************)
(* A line that stands before the cursor.                                   *)
(***************************************************************************)
\* The line's characters are in the cells before cell e.
EndsAt(b, e, line) ==
    /\ e >= Len(line)
    /\ \A i \in 1 .. Len(line) : b[e - Len(line) + i - 1] = line[i]

\* The line stands before the cursor of t.
Ends(t, line) == EndsAt(t.buffer, At(t.column, t.row), line)

LEMMA EndsIs ==
    ASSUME NEW b, NEW y, NEW x, NEW line
    PROVE  Ends(Term(b, y, x), line) <=> EndsAt(b, At(x, y), line)
BY TermFields DEF Ends

\* The next row starts behind the end of the row, also when all moves up.
LEMMA NextRowEnds ==
    ASSUME NEW b \in [Cells -> Text], NEW y \in 0 .. (H - 1), NEW line \in Seq(Chars),
           Len(line) <= ScreenSize - W, EndsAt(b, At(0, y) + W, line)
    PROVE  Ends(NextRow(Term(b, y, W)), line)
<1>0. /\ H \in Nat /\ W \in Nat /\ ScreenSize \in Nat /\ H > 1 /\ W > 1 /\ ScreenSize >= 2 * W
      /\ Cells = 0 .. (ScreenSize + W - 1) /\ Len(line) \in Nat /\ W = VGA_WIDTH
  BY Sizes
<1>1. At(0, y) \in Nat /\ At(0, y + 1) = At(0, y) + W /\ At(0, H - 1) = ScreenSize - W
  <2>1. y \in 0 .. H
    BY <1>0
  <2>. QED BY <1>0, <2>1, AtFacts, Sizes
<1>2. CASE y + 1 >= H
  <2>. DEFINE d == terminal_scroll(b)
  <2>1. y = H - 1 /\ At(0, y) + W = ScreenSize
    BY <1>0, <1>1, <1>2
  <2>2. NextRow(Term(b, y, W)) = Term(d, H - 1, 0)
    BY <1>2, NextRowIs
  <2>3. ASSUME NEW i \in 1 .. Len(line)
        PROVE  d[ScreenSize - W - Len(line) + i - 1] = line[i]
    <3>. DEFINE j == ScreenSize - W - Len(line) + i - 1
    <3>1. j \in Cells /\ j < ScreenSize - W /\ j + W = ScreenSize - Len(line) + i - 1
      BY <1>0
    <3>2. d[j] = b[j + W]
      <4>. HIDE DEF j
      <4>. QED BY <1>0, <3>1 DEF terminal_scroll
    <3>3. b[ScreenSize - Len(line) + i - 1] = line[i]
      BY <2>1 DEF EndsAt
    <3>. QED BY <3>1, <3>2, <3>3
  <2>4. EndsAt(d, ScreenSize - W, line)
    BY <1>0, <2>3 DEF EndsAt
  <2>. QED BY <1>1, <2>2, <2>4, EndsIs
<1>3. CASE ~(y + 1 >= H)
  BY <1>1, <1>3, NextRowIs, EndsIs
<1>. QED BY <1>2, <1>3

\* A character put behind the line.
LEMMA PutEnds ==
    ASSUME NEW t \in OnScreen, NEW line \in Seq(Chars), Ends(t, line), NEW c \in Text,
           Len(line) + 1 <= ScreenSize - W
    PROVE  Ends(terminal_putchar(t, c), Append(line, c))
<1>. DEFINE b == t.buffer
            y == t.row
            x == t.column
            e == At(x, y)
            d == Drawn(b, y, x, x + 1, c)
            new == Append(line, c)
            u == terminal_putchar(t, c)
<1>0. /\ H \in Nat /\ W \in Nat /\ ScreenSize \in Nat /\ H > 1 /\ W > 1
      /\ Cells = 0 .. (ScreenSize + W - 1) /\ Len(line) \in Nat
  BY Sizes
<1>1. t = Term(b, y, x) /\ b \in [Cells -> Text] /\ y \in 0 .. (H - 1) /\ x \in 0 .. (W - 1)
  <2>1. t \in Terminals /\ t.row < H /\ t.column < W
    BY DEF OnScreen
  <2>. QED BY <1>0, <2>1, TermIs
<1>2. c \in Chars /\ c \notin {NL, BS, TAB}
  BY CharFacts
<1>3. new \in Seq(Chars) /\ Len(new) = Len(line) + 1 /\ new[Len(line) + 1] = c
      /\ \A i \in 1 .. Len(line) : new[i] = line[i]
  BY <1>2, AppendProperties
<1>. HIDE DEF new, b, y, x
<1>4. y \in 0 .. H /\ x \in 0 .. W /\ x \in Int /\ x + 1 \in Int /\ x + 1 \in Nat
  BY <1>0, <1>1
<1>5. e \in Nat /\ e \in Cells /\ e = At(0, y) + x /\ At(x + 1, y) = e + 1 /\ At(0, y) \in Nat
  BY <1>0, <1>1, <1>4, AtFacts, CellFacts
<1>. HIDE DEF e
<1>6. d \in [Cells -> Text] /\ d[e] = c /\ \A i \in Cells : i # e => d[i] = b[i]
  <2>1. \A i \in Cells : i \in At(x, y) .. (At(x + 1, y) - 1) <=> i = e
    BY <1>0, <1>5 DEF e
  <2>. QED BY <1>1, <1>5, <2>1 DEF Drawn
<1>. HIDE DEF d
<1>7. EndsAt(b, e, line)
  BY DEF Ends, b, e, x, y
<1>8. EndsAt(d, e + 1, new)
  <2>1. e + 1 >= Len(new)
    BY <1>0, <1>3, <1>5, <1>7 DEF EndsAt
  <2>2. ASSUME NEW i \in 1 .. Len(new)
        PROVE  d[(e + 1) - Len(new) + i - 1] = new[i]
    <3>1. CASE i = Len(line) + 1
      <4>1. (e + 1) - Len(new) + i - 1 = e
        BY <1>0, <1>3, <1>5, <3>1
      <4>. QED BY <1>3, <1>6, <3>1, <4>1
    <3>2. CASE i # Len(line) + 1
      <4>1. i \in 1 .. Len(line) /\ (e + 1) - Len(new) + i - 1 = e - Len(line) + i - 1
        BY <1>0, <1>3, <1>5, <3>2, SMTT(30)
      <4>2. e - Len(line) + i - 1 \in Cells /\ e - Len(line) + i - 1 # e
        BY <1>0, <1>5, <1>7, <4>1, SMTT(30) DEF EndsAt
      <4>3. b[e - Len(line) + i - 1] = line[i]
        BY <1>7, <4>1 DEF EndsAt
      <4>. QED BY <1>3, <1>6, <4>1, <4>2, <4>3
    <3>. QED BY <3>1, <3>2
  <2>. QED BY <2>1, <2>2 DEF EndsAt
<1>9. u = Wrapped(Filled(Term(b, y, x), c, x + 1))
  BY <1>1, <1>2, Puts DEF x
<1>. HIDE DEF u
<1>10. (x + 1 < W => u = Term(d, y, x + 1)) /\ (x + 1 >= W => u = NextRow(Term(d, y, W)))
  BY <1>1, <1>4, <1>9, DrawnFields DEF d
<1>11. CASE x + 1 < W
  BY <1>5, <1>8, <1>10, <1>11, EndsIs DEF new, u
<1>12. CASE x + 1 >= W
  <2>0. x = W - 1 /\ e = At(0, y) + x
    BY <1>0, <1>1, <1>5, <1>12
  <2>1. At(0, y) + W = e + 1
    BY <1>0, <1>5, <2>0
  <2>2. Len(new) <= ScreenSize - W
    BY <1>3
  <2>. QED BY <1>1, <1>3, <1>6, <1>8, <1>10, <1>12, <2>1, <2>2, NextRowEnds DEF new, u
<1>. QED BY <1>0, <1>4, <1>11, <1>12

\* The last character of the line erased.
LEMMA EraseEnds ==
    ASSUME NEW t \in OnScreen, NEW line \in Seq(Chars), NEW z, Ends(t, Append(line, z)), t.column > 0
    PROVE  Ends(terminal_putchar(t, BS), line)
<1>. DEFINE b == t.buffer
            y == t.row
            x == t.column
            e == At(x, y)
            d == [b EXCEPT ![At(x - 1, y)] = Blank]
            new == Append(line, z)
<1>0. /\ H \in Nat /\ W \in Nat /\ ScreenSize \in Nat /\ H > 1 /\ W > 1
      /\ Cells = 0 .. (ScreenSize + W - 1) /\ Len(line) \in Nat
  BY Sizes
<1>1. t = Term(b, y, x) /\ b \in [Cells -> Text] /\ y \in 0 .. H /\ x \in 1 .. W
  <2>1. t \in Terminals /\ t.row < H /\ t.column < W
    BY DEF OnScreen
  <2>. QED BY <1>0, <2>1, TermIs
<1>2. Len(new) = Len(line) + 1 /\ \A i \in 1 .. Len(line) : new[i] = line[i]
  OBVIOUS
<1>3. terminal_putchar(t, BS) = Term(d, y, x - 1)
  BY <1>1, Puts, ErasedFields
<1>4. EndsAt(b, e, new)
  BY DEF Ends
<1>. HIDE DEF new, b, y, x
<1>5. e \in Nat /\ At(x - 1, y) = e - 1
  <2>1. x \in Int /\ x - 1 \in Int /\ x > 0
    BY <1>0, <1>1
  <2>2. At(x, y) = At(0, y) + x /\ At(x - 1, y) = At(0, y) + (x - 1) /\ At(0, y) \in Nat
    BY <1>1, <2>1, AtFacts
  <2>. QED BY <2>1, <2>2
<1>10. e \in Cells
  <2>1. x \in 0 .. W /\ x < W
    BY <1>0, <1>1 DEF OnScreen, x
  <2>. QED BY <1>1, <2>1, CellFacts
<1>. HIDE DEF e
<1>6. \A i \in Cells : i # e - 1 => d[i] = b[i]
  BY <1>1, <1>5
<1>. HIDE DEF d
<1>7. e - 1 >= Len(line)
  BY <1>0, <1>2, <1>4, <1>5 DEF EndsAt
<1>8. ASSUME NEW i \in 1 .. Len(line)
      PROVE  d[(e - 1) - Len(line) + i - 1] = line[i]
  <2>1. i \in 1 .. Len(new) /\ (e - 1) - Len(line) + i - 1 = e - Len(new) + i - 1
    BY <1>0, <1>2, <1>5
  <2>2. (e - 1) - Len(line) + i - 1 \in Cells /\ (e - 1) - Len(line) + i - 1 # e - 1
    BY <1>0, <1>5, <1>7, <1>10
  <2>3. b[e - Len(new) + i - 1] = new[i]
    BY <1>4, <2>1 DEF EndsAt
  <2>. QED BY <1>2, <1>6, <2>1, <2>2, <2>3
<1>9. EndsAt(d, e - 1, line)
  BY <1>7, <1>8 DEF EndsAt
<1>. QED BY <1>3, <1>5, <1>9, EndsIs

-----------------------------------------------------------------------------
(***************************************************************************)
(* Sequences as the line and the queue use them.                           *)
(***************************************************************************)
LEMMA ConcatIs ==
    ASSUME NEW s \in Seq(Chars), NEW t \in Seq(Chars)
    PROVE  /\ s \o t \in Seq(Chars) /\ Len(s \o t) = Len(s) + Len(t)
           /\ \A i \in 1 .. Len(s) : (s \o t)[i] = s[i]
           /\ \A i \in 1 .. Len(t) : (s \o t)[Len(s) + i] = t[i]
OBVIOUS

LEMMA ConcatJoins ==
    ASSUME NEW s \in Seq(Chars), NEW t \in Seq(Chars), NEW u \in Seq(Chars)
    PROVE  (s \o t) \o u = s \o (t \o u)
<1>. DEFINE S == Chars
<1>1. s \in Seq(S) /\ t \in Seq(S) /\ u \in Seq(S)
  OBVIOUS
<1>. HIDE DEF S
<1>. QED BY ONLY <1>1, ConcatAssociative

LEMMA TakesFirst ==
    ASSUME NEW S, NEW s \in Seq(S), NEW n \in 0 .. Len(s)
    PROVE  /\ SubSeq(s, 1, n) \in Seq(S) /\ Len(SubSeq(s, 1, n)) = n
           /\ \A i \in 1 .. n : SubSeq(s, 1, n)[i] = s[i]
OBVIOUS

LEMMA TakesNone ==
    ASSUME NEW a \in Seq(Chars), NEW q \in Seq(Chars)
    PROVE  a \o SubSeq(q, 1, 0) = a
<1>1. SubSeq(q, 1, 0) = <<>>
  BY SubSeqEmpty
<1>. QED BY <1>1, ConcatEmptySeq

LEMMA TakesKey ==
    ASSUME NEW a \in Seq(Chars), NEW q \in Seq(Chars), NEW c \in Chars
    PROVE  /\ a \o SubSeq(Append(q, c), 1, Len(q) + 1) = Append(a \o SubSeq(q, 1, Len(q)), c)
           /\ \A n \in 0 .. Len(q) : SubSeq(Append(q, c), 1, n) = SubSeq(q, 1, n)
<1>. DEFINE r == Append(q, c)
<1>1. r \in Seq(Chars) /\ Len(r) = Len(q) + 1 /\ r[Len(q) + 1] = c /\ \A i \in 1 .. Len(q) : r[i] = q[i]
  BY AppendProperties
<1>. HIDE DEF r
<1>2. SubSeq(q, 1, Len(q)) = q /\ SubSeq(r, 1, Len(r)) = r
  BY <1>1, SubSeqFull
<1>3. a \o r = Append(a \o q, c)
  BY <1>1 DEF r
<1>4. ASSUME NEW n \in 0 .. Len(q) PROVE SubSeq(r, 1, n) = SubSeq(q, 1, n)
  BY <1>1
<1>. QED BY <1>1, <1>2, <1>3, <1>4 DEF r

LEMMA AppendConcat ==
    ASSUME NEW s \in Seq(Chars), NEW c \in Chars
    PROVE  Append(s, c) = s \o <<c>> /\ <<c>> \in Seq(Chars)
OBVIOUS

LEMMA TakesHead ==
    ASSUME NEW a \in Seq(Chars), NEW line \in Seq(Chars), NEW q \in Seq(Chars), NEW n \in 1 .. Len(q)
    PROVE  (a \o line) \o SubSeq(q, 1, n) = (a \o Append(line, Head(q))) \o SubSeq(Tail(q), 1, n - 1)
<1>. DEFINE c == Head(q)
            one == <<c>>
            f == SubSeq(q, 1, n)
            p == SubSeq(Tail(q), 1, n - 1)
<1>1. q # <<>> /\ c = q[1] /\ c \in Chars /\ Tail(q) \in Seq(Chars) /\ Len(Tail(q)) = Len(q) - 1
      /\ \A i \in 1 .. (Len(q) - 1) : Tail(q)[i] = q[i + 1]
  OBVIOUS
<1>2. f \in Seq(Chars) /\ Len(f) = n /\ \A i \in 1 .. n : f[i] = q[i]
  OBVIOUS
<1>3. p \in Seq(Chars) /\ Len(p) = n - 1 /\ \A i \in 1 .. (n - 1) : p[i] = q[i + 1]
  BY <1>1
<1>. HIDE DEF p, f, c
<1>4. one \in Seq(Chars) /\ Len(one) = 1 /\ one[1] = c
  BY <1>1
<1>. HIDE DEF one
<1>5. f = one \o p
  <2>0. /\ one \o p \in Seq(Chars) /\ Len(one \o p) = Len(one) + Len(p)
        /\ \A i \in 1 .. Len(one) : (one \o p)[i] = one[i]
        /\ \A i \in 1 .. Len(p) : (one \o p)[Len(one) + i] = p[i]
    BY <1>3, <1>4, ConcatIs
  <2>1. one \o p \in Seq(Chars) /\ Len(one \o p) = n
        /\ (one \o p)[1] = c /\ \A i \in 1 .. (n - 1) : (one \o p)[1 + i] = p[i]
    BY <1>3, <1>4, <2>0
  <2>2. ASSUME NEW i \in 1 .. n PROVE f[i] = (one \o p)[i]
    <3>1. CASE i = 1
      BY <1>1, <1>2, <2>1, <3>1
    <3>2. CASE i # 1
      <4>1. i - 1 \in 1 .. (n - 1) /\ 1 + (i - 1) = i /\ (i - 1) + 1 = i
        BY <3>2
      <4>. QED BY <1>2, <1>3, <2>1, <4>1
    <3>. QED BY <3>1, <3>2
  <2>. QED BY <1>2, <2>1, <2>2, SeqEqual
<1>6. Append(line, c) = line \o one
  BY <1>1, AppendConcat DEF one
<1>7. a \o (line \o one) = (a \o line) \o one
  BY <1>4, ConcatJoins
<1>8. a \o line \in Seq(Chars)
  BY ConcatIs
<1>9. (a \o line) \o (one \o p) = ((a \o line) \o one) \o p
  BY <1>3, <1>4, <1>8, ConcatJoins
<1>. QED BY <1>5, <1>6, <1>7, <1>9 DEF c, f, p

LEMMA FrontAndLast ==
    ASSUME NEW a \in Seq(Chars), NEW S, NEW line \in Seq(S), S \subseteq Chars, line # <<>>
    PROVE  /\ Front(line) \in Seq(S) /\ line[Len(line)] \in S
           /\ a \o line = Append(a \o Front(line), line[Len(line)])
<1>. DEFINE f == Front(line)
            n == Len(line)
            z == line[n]
            one == <<z>>
<1>1. f = SubSeq(line, 1, n - 1)
  BY DEF Front
<1>2. n \in Nat /\ n > 0 /\ line \in Seq(Chars) /\ z \in S /\ z \in Chars
  OBVIOUS
<1>3. f \in Seq(S) /\ Len(f) = n - 1 /\ \A i \in 1 .. (n - 1) : f[i] = line[i]
  <2>1. n - 1 \in 0 .. n
    BY <1>2
  <2>. QED BY <1>1, <2>1, TakesFirst
<1>. HIDE DEF f
<1>4. f \in Seq(Chars)
  BY <1>3
<1>5. one \in Seq(Chars) /\ Len(one) = 1 /\ one[1] = z
  BY <1>2
<1>6. line = f \o one
  <2>. HIDE DEF one, z
  <2>0. /\ f \o one \in Seq(Chars) /\ Len(f \o one) = Len(f) + Len(one)
        /\ \A i \in 1 .. Len(f) : (f \o one)[i] = f[i]
        /\ \A i \in 1 .. Len(one) : (f \o one)[Len(f) + i] = one[i]
    BY <1>4, <1>5, ConcatIs
  <2>1. /\ f \o one \in Seq(Chars) /\ Len(f \o one) = n
        /\ \A i \in 1 .. (n - 1) : (f \o one)[i] = f[i]
        /\ (f \o one)[(n - 1) + 1] = one[1]
    BY <1>2, <1>3, <1>5, <2>0
  <2>2. \A i \in 1 .. n : line[i] = (f \o one)[i]
    BY <1>2, <1>3, <1>5, <2>1 DEF z
  <2>. QED BY <1>2, <2>1, <2>2, SeqEqual
<1>. HIDE DEF one, z, n
<1>7. a \o (f \o one) = (a \o f) \o one /\ a \o f \in Seq(Chars)
  BY <1>4, <1>5, ConcatJoins, ConcatIs, SMTT(30)
<1>8. Append(a \o f, z) = (a \o f) \o one
  BY <1>2, <1>7, AppendConcat DEF one
<1>. QED BY <1>2, <1>3, <1>6, <1>7, <1>8 DEF f, z, n

-----------------------------------------------------------------------------
(***************************************************************************)
(* What stands before the cursor of t, when rest is still to be printed,   *)
(* q to be read and line is the command line.                              *)
(***************************************************************************)
Quiet(q) == \A i \in 1 .. Len(q) : ~Echoed(q[i])

\* The prompt from its m-th character on comes last.
PromptAhead(m, rest) ==
    /\ Len(rest) >= Len(Prompt) - m
    /\ m > 0 => Len(rest) = Len(Prompt) - m
    /\ \A i \in 1 .. (Len(Prompt) - m) : rest[Len(rest) - (Len(Prompt) - m) + i] = Prompt[m + i]

\* The n characters typed ahead of the first Enter or Backspace are shown.
Typed(t, q, line, n) ==
    /\ \A i \in 1 .. Len(q) : Echoed(q[i]) <=> i <= n
    /\ Len(line) + n <= LineMax => Ends(t, (Prompt \o line) \o SubSeq(q, 1, n))

LineShown(t, q, line) == \E n \in 0 .. Len(q) : Typed(t, q, line, n)

EraseAhead(t, q, line) == Quiet(q) /\ \E z \in Keys : Ends(t, Append(Prompt \o line, z))

PromptShown(t, rest, q, line) ==
    /\ Quiet(q) /\ line = <<>>
    /\ \E m \in 0 .. Len(Prompt) : PromptAhead(m, rest) /\ Ends(t, SubSeq(Prompt, 1, m))

Shown(t, rest, a, q, line) ==
    /\ a = "input" => \/ rest = <<>> /\ LineShown(t, q, line)
                      \/ rest = <<BS>> /\ EraseAhead(t, q, line)
                      \/ rest # <<>> /\ PromptShown(t, rest, q, line)
    /\ a = "exec" => Quiet(q) /\ line = <<>>

Lined == {s \in Seq(Keys \ {NL, BS}) : Len(s) <= LineMax}

LEMMA LineFacts ==
    /\ Keys \subseteq Chars /\ Prompt \in Seq(Chars) /\ Prompt \in Seq(Text) /\ LineMax \in Nat
    /\ Len(Prompt) \in Nat /\ Len(Prompt) + LineMax <= ScreenSize - W
    /\ Seq(Keys) \subseteq Seq(Chars)
    /\ Lined \subseteq Seq(Chars) /\ <<>> \in Lined /\ <<>> \in Seq(Chars)
    /\ \A line \in Lined : Len(line) \in Nat /\ Len(line) <= LineMax
<1>1. Keys \subseteq Chars /\ Prompt \in Seq(Chars) /\ Prompt \in Seq(Text) /\ LineMax \in Nat
  BY CharFacts, ConsoleAssumption DEF Text
<1>2. Len(Prompt) \in Nat /\ Len(Prompt) + LineMax <= ScreenSize - W
  BY <1>1, ConsoleAssumption DEF W
<1>. DEFINE C == Chars
            K == Keys
<1>3. Seq(K) \subseteq Seq(C)
  <2>. HIDE DEF C, K
  <2>1. K \subseteq C
    BY <1>1 DEF C, K
  <2>. QED BY <2>1
<1>4. \A line \in Lined : line \in Seq(C) /\ Len(line) \in Nat /\ Len(line) <= LineMax
  <2>. HIDE DEF C
  <2>1. Keys \ {NL, BS} \subseteq C
    BY <1>1 DEF C
  <2>. QED BY <2>1 DEF Lined
<1>5. <<>> \in Lined /\ <<>> \in Seq(Chars)
  BY <1>1 DEF Lined
<1>. QED BY <1>1, <1>2, <1>3, <1>4, <1>5

\* Nothing typed ahead is shown.
LEMMA QuietShown ==
    ASSUME NEW t, NEW q \in Seq(Chars), NEW line \in Seq(Chars), Quiet(q), Ends(t, Prompt \o line)
    PROVE  LineShown(t, q, line)
<1>1. Prompt \o line \in Seq(Chars)
  BY LineFacts, ConcatIs
<1>2. (Prompt \o line) \o SubSeq(q, 1, 0) = Prompt \o line
  BY <1>1, TakesNone
<1>3. \A i \in 1 .. Len(q) : Echoed(q[i]) <=> i <= 0
  BY DEF Quiet
<1>4. 0 \in 0 .. Len(q)
  OBVIOUS
<1>. QED BY <1>2, <1>3, <1>4 DEF LineShown, Typed

\* The prompt is on its way, or stands there.
LEMMA PromptIsShown ==
    ASSUME NEW t, NEW rest \in Seq(Chars), NEW q \in Seq(Chars), PromptShown(t, rest, q, <<>>)
    PROVE  Shown(t, rest, "input", q, <<>>)
<1>1. CASE rest # <<>>
  BY <1>1 DEF Shown
<1>2. CASE rest = <<>>
  <2>1. PICK m \in 0 .. Len(Prompt) : PromptAhead(m, rest) /\ Ends(t, SubSeq(Prompt, 1, m))
    BY DEF PromptShown
  <2>2. Len(Prompt) \in Nat /\ Prompt \in Seq(Chars) /\ <<>> \in Seq(Chars)
    BY LineFacts
  <2>3. m = Len(Prompt)
    BY <1>2, <2>1, <2>2 DEF PromptAhead
  <2>4. SubSeq(Prompt, 1, m) = Prompt \o <<>>
    BY <2>2, <2>3, SubSeqFull, ConcatEmptySeq
  <2>5. LineShown(t, q, <<>>)
    BY <2>1, <2>2, <2>4, QuietShown DEF PromptShown
  <2>. QED BY <1>2, <2>5 DEF Shown
<1>. QED BY <1>1, <1>2

\* The prompt is to be printed, after anything else.
LEMMA PromptToCome ==
    ASSUME NEW t \in Terminals, NEW q \in Seq(Chars), Quiet(q), NEW out \in Seq(Chars)
    PROVE  /\ out \o Prompt \in Seq(Chars)
           /\ Shown(t, out \o Prompt, "input", q, <<>>)
<1>. DEFINE rest == out \o Prompt
<1>1. Prompt \in Seq(Chars) /\ Len(Prompt) \in Nat
  BY LineFacts
<1>2. /\ rest \in Seq(Chars) /\ Len(rest) = Len(out) + Len(Prompt)
      /\ \A i \in 1 .. Len(Prompt) : rest[Len(out) + i] = Prompt[i]
  BY <1>1, ConcatIs
<1>. HIDE DEF rest
<1>3. PromptAhead(0, rest)
  BY <1>1, <1>2 DEF PromptAhead
<1>4. Ends(t, SubSeq(Prompt, 1, 0))
  <2>1. SubSeq(Prompt, 1, 0) = <<>>
    BY SubSeqEmpty
  <2>2. At(t.column, t.row) \in Nat
    BY TermIs, CellFacts
  <2>. QED BY <2>1, <2>2 DEF Ends, EndsAt
<1>5. PromptShown(t, rest, q, <<>>)
  BY <1>1, <1>3, <1>4 DEF PromptShown
<1>. QED BY <1>2, <1>5, PromptIsShown DEF rest

\* An Enter or Backspace is struck: nothing changes on the screen.
LEMMA StrikeShown ==
    ASSUME NEW t, NEW rest, NEW a, NEW q \in Seq(Chars), NEW line, NEW c \in Chars, ~Echoed(c),
           Shown(t, rest, a, q, line)
    PROVE  Shown(t, rest, a, Append(q, c), line)
<1>. DEFINE r == Append(q, c)
<1>1. r \in Seq(Chars) /\ Len(r) = Len(q) + 1 /\ r[Len(q) + 1] = c /\ \A i \in 1 .. Len(q) : r[i] = q[i]
  BY AppendProperties
<1>2. \A n \in 0 .. Len(q) : SubSeq(r, 1, n) = SubSeq(q, 1, n)
  BY TakesKey
<1>. HIDE DEF r
<1>3. Len(q) \in Nat /\ \A i \in 1 .. Len(r) : i \in 1 .. Len(q) \/ i = Len(q) + 1
  BY <1>1
<1>4. Quiet(q) => Quiet(r)
  BY <1>1, <1>3 DEF Quiet
<1>5. LineShown(t, q, line) => LineShown(t, r, line)
  <2>. SUFFICES ASSUME NEW n \in 0 .. Len(q), Typed(t, q, line, n) PROVE Typed(t, r, line, n) /\ n \in 0 .. Len(r)
    BY DEF LineShown
  <2>1. ASSUME NEW i \in 1 .. Len(r) PROVE Echoed(r[i]) <=> i <= n
    <3>1. CASE i \in 1 .. Len(q)
      BY <1>1, <3>1 DEF Typed
    <3>2. CASE i = Len(q) + 1
      BY <1>1, <1>3, <3>2
    <3>. QED BY <1>3, <3>1, <3>2
  <2>2. Len(line) + n <= LineMax => Ends(t, (Prompt \o line) \o SubSeq(r, 1, n))
    BY <1>2 DEF Typed
  <2>3. n \in 0 .. Len(r)
    BY <1>1, <1>3
  <2>. QED BY <2>1, <2>2, <2>3 DEF Typed
<1>. QED BY <1>4, <1>5 DEF Shown, EraseAhead, PromptShown, r

\* A character is struck and echoed behind the line.
LEMMA EchoShown ==
    ASSUME NEW t \in OnScreen, NEW q \in Seq(Chars), NEW line \in Lined, NEW c \in Text,
           \A i \in 1 .. Len(q) : Echoed(q[i]), LineShown(t, q, line)
    PROVE  LineShown(terminal_putchar(t, c), Append(q, c), line)
<1>. DEFINE u == terminal_putchar(t, c)
            r == Append(q, c)
            p == Prompt \o line
            m == Len(q) + 1
<1>1. c \in Chars /\ Echoed(c)
  BY CharFacts DEF Echoed
<1>2. r \in Seq(Chars) /\ Len(r) = m /\ r[m] = c /\ \A i \in 1 .. Len(q) : r[i] = q[i]
  BY <1>1, AppendProperties
<1>3. PICK n \in 0 .. Len(q) : Typed(t, q, line, n)
  BY DEF LineShown
<1>4. n = Len(q) /\ Len(q) \in Nat
  BY <1>3 DEF Typed
<1>5. p \in Seq(Chars) /\ Len(p) = Len(Prompt) + Len(line) /\ Len(Prompt) \in Nat /\ Len(line) \in Nat
  BY LineFacts, ConcatIs
<1>6. p \o SubSeq(r, 1, m) = Append(p \o SubSeq(q, 1, n), c)
  BY <1>1, <1>4, <1>5, TakesKey
<1>. HIDE DEF r, p
<1>7. SubSeq(q, 1, n) \in Seq(Chars) /\ Len(SubSeq(q, 1, n)) = n
  BY TakesFirst
<1>8. p \o SubSeq(q, 1, n) \in Seq(Chars) /\ Len(p \o SubSeq(q, 1, n)) = Len(p) + n
  BY <1>5, <1>7, ConcatIs
<1>9. ASSUME Len(line) + m <= LineMax PROVE Ends(u, p \o SubSeq(r, 1, m))
  <2>1. Len(line) + n <= LineMax /\ Len(p \o SubSeq(q, 1, n)) + 1 <= ScreenSize - W
    BY <1>4, <1>5, <1>8, <1>9, LineFacts, Sizes, SMTT(30)
  <2>2. Ends(t, p \o SubSeq(q, 1, n))
    BY <1>3, <2>1 DEF Typed, p
  <2>. DEFINE l == p \o SubSeq(q, 1, n)
  <2>. HIDE DEF l
  <2>3. Ends(u, Append(l, c))
    BY <1>8, <2>1, <2>2, PutEnds DEF l
  <2>. QED BY <1>6, <2>3 DEF l
<1>10. \A i \in 1 .. Len(r) : Echoed(r[i]) <=> i <= m
  <2>1. \A i \in 1 .. Len(r) : i \in 1 .. Len(q) \/ i = m
    BY <1>2, <1>4
  <2>. QED BY <1>1, <1>2, <1>4, <2>1
<1>11. m \in 0 .. Len(r)
  BY <1>2, <1>4
<1>. QED BY <1>9, <1>10, <1>11 DEF LineShown, Typed, p, r

\* The line takes the character that is read.
LEMMA ReadShown ==
    ASSUME NEW t, NEW q \in Seq(Chars), q # <<>>, NEW line \in Lined, LineShown(t, q, line),
           Echoed(Head(q)), Len(line) < LineMax
    PROVE  LineShown(t, Tail(q), Append(line, Head(q)))
<1>. DEFINE r == Tail(q)
            new == Append(line, Head(q))
<1>1. PICK n \in 0 .. Len(q) : Typed(t, q, line, n)
  BY DEF LineShown
<1>2. /\ Head(q) = q[1] /\ Head(q) \in Chars /\ r \in Seq(Chars) /\ Len(r) = Len(q) - 1 /\ Len(q) \in Nat
      /\ Len(q) > 0 /\ \A i \in 1 .. (Len(q) - 1) : r[i] = q[i + 1]
  OBVIOUS
<1>3. n \in 1 .. Len(q)
  BY <1>1, <1>2 DEF Typed
<1>4. line \in Seq(Chars) /\ Len(line) \in Nat /\ Prompt \in Seq(Chars)
  BY LineFacts
<1>5. Len(new) = Len(line) + 1
  BY <1>2, <1>4
<1>6. (Prompt \o line) \o SubSeq(q, 1, n) = (Prompt \o new) \o SubSeq(r, 1, n - 1)
  BY <1>3, <1>4, TakesHead
<1>. HIDE DEF r, new
<1>7. Len(new) + (n - 1) <= LineMax => Ends(t, (Prompt \o new) \o SubSeq(r, 1, n - 1))
  <2>1. Len(new) + (n - 1) = Len(line) + n
    BY <1>3, <1>4, <1>5
  <2>2. Len(line) + n <= LineMax => Ends(t, (Prompt \o line) \o SubSeq(q, 1, n))
    BY <1>1 DEF Typed
  <2>. QED BY <1>6, <2>1, <2>2
<1>8. \A i \in 1 .. Len(r) : Echoed(r[i]) <=> i <= n - 1
  <2>1. \A i \in 1 .. Len(r) : i + 1 \in 1 .. Len(q) /\ r[i] = q[i + 1] /\ (i + 1 <= n <=> i <= n - 1)
    BY <1>2, <1>3
  <2>. QED BY <1>1, <2>1 DEF Typed
<1>9. n - 1 \in 0 .. Len(r)
  BY <1>2, <1>3
<1>. QED BY <1>7, <1>8, <1>9 DEF LineShown, Typed, r, new

\* Enter or Backspace is read: nothing is typed ahead of it.
LEMMA KeyShown ==
    ASSUME NEW t, NEW q \in Seq(Chars), q # <<>>, NEW line \in Lined, LineShown(t, q, line),
           ~Echoed(Head(q))
    PROVE  Quiet(Tail(q)) /\ Ends(t, Prompt \o line)
<1>1. PICK n \in 0 .. Len(q) : Typed(t, q, line, n)
  BY DEF LineShown
<1>2. Head(q) = q[1] /\ Len(q) \in Nat /\ Len(q) > 0 /\ Len(Tail(q)) = Len(q) - 1
      /\ \A i \in 1 .. (Len(q) - 1) : Tail(q)[i] = q[i + 1]
  OBVIOUS
<1>3. n = 0
  BY <1>1, <1>2 DEF Typed
<1>4. \A i \in 1 .. Len(Tail(q)) : i + 1 \in 1 .. Len(q) /\ Tail(q)[i] = q[i + 1] /\ ~(i + 1 <= n)
  BY <1>2, <1>3
<1>5. Quiet(Tail(q))
  BY <1>1, <1>4 DEF Typed, Quiet
<1>6. Prompt \o line \in Seq(Chars) /\ Len(line) + 0 <= LineMax
  BY LineFacts, ConcatIs
<1>7. (Prompt \o line) \o SubSeq(q, 1, 0) = Prompt \o line
  BY <1>6, TakesNone
<1>. QED BY <1>1, <1>3, <1>5, <1>6, <1>7 DEF Typed

\* The next character of rest is printed.
LEMMA PutShown ==
    ASSUME NEW t \in OnScreen, NEW rest \in Seq(Chars), rest # <<>>, NEW a, NEW q \in Seq(Chars),
           NEW line \in Lined, Shown(t, rest, a, q, line), Head(rest) = BS => t.column > 0
    PROVE  Shown(terminal_putchar(t, Head(rest)), Tail(rest), a, q, line)
<1>. DEFINE c == Head(rest)
            u == terminal_putchar(t, c)
            left == Tail(rest)
<1>1. CASE a # "input"
  BY <1>1 DEF Shown
<1>2. CASE a = "input" /\ rest = <<BS>> /\ EraseAhead(t, q, line)
  <2>1. c = BS /\ left = <<>> /\ t.column > 0
    BY <1>2
  <2>2. Prompt \o line \in Seq(Chars) /\ line \in Seq(Chars)
    BY LineFacts, ConcatIs
  <2>. DEFINE p == Prompt \o line
  <2>3. PICK z \in Keys : Ends(t, Append(p, z))
    BY <1>2 DEF EraseAhead
  <2>. HIDE DEF p, c
  <2>4. Ends(u, p)
    BY <2>1, <2>2, <2>3, EraseEnds DEF p
  <2>5. LineShown(u, q, line)
    BY <1>2, <2>2, <2>4, QuietShown DEF EraseAhead, p
  <2>. QED BY <1>2, <2>1, <2>5 DEF Shown, c
<1>3. CASE a = "input" /\ PromptShown(t, rest, q, line)
  <2>1. PICK m \in 0 .. Len(Prompt) : PromptAhead(m, rest) /\ Ends(t, SubSeq(Prompt, 1, m))
    BY <1>3 DEF PromptShown
  <2>2. /\ c = rest[1] /\ c \in Chars /\ left \in Seq(Chars) /\ Len(left) = Len(rest) - 1
        /\ Len(rest) \in Nat /\ Len(rest) > 0 /\ \A i \in 1 .. (Len(rest) - 1) : left[i] = rest[i + 1]
    OBVIOUS
  <2>3. Len(Prompt) \in Nat /\ Prompt \in Seq(Chars) /\ Prompt \in Seq(Text)
        /\ Len(Prompt) <= ScreenSize - W
    BY LineFacts, Sizes
  <2>4. u \in OnScreen
    BY <2>2, PutOnScreen
  <2>. HIDE DEF c, left, u
  <2>5. CASE Len(rest) = Len(Prompt) - m
    <3>1. m + 1 \in 0 .. Len(Prompt) /\ m + 1 \in 1 .. Len(Prompt)
      BY <2>1, <2>2, <2>3, <2>5
    <3>2. c = Prompt[m + 1] /\ c \in Text
      <4>1. 1 \in 1 .. (Len(Prompt) - m) /\ Len(rest) - (Len(Prompt) - m) + 1 = 1
        BY <2>1, <2>2, <2>3, <2>5, <3>1
      <4>2. rest[1] = Prompt[m + 1]
        BY <2>1, <4>1 DEF PromptAhead
      <4>3. Prompt[m + 1] \in Text
        BY <2>3, <3>1
      <4>. QED BY <2>2, <4>2, <4>3
    <3>3. PromptAhead(m + 1, left)
      <4>1. Len(left) = Len(Prompt) - (m + 1)
        BY <2>1, <2>2, <2>3, <2>5
      <4>2. ASSUME NEW i \in 1 .. (Len(Prompt) - (m + 1))
            PROVE  left[Len(left) - (Len(Prompt) - (m + 1)) + i] = Prompt[(m + 1) + i]
        <5>1. Len(left) - (Len(Prompt) - (m + 1)) + i = i /\ i \in 1 .. (Len(rest) - 1)
          BY <2>1, <2>2, <2>3, <2>5, <4>1
        <5>2. i + 1 \in 1 .. (Len(Prompt) - m) /\ Len(rest) - (Len(Prompt) - m) + (i + 1) = i + 1
              /\ m + (i + 1) = (m + 1) + i
          BY <2>1, <2>2, <2>3, <2>5
        <5>3. rest[Len(rest) - (Len(Prompt) - m) + (i + 1)] = Prompt[m + (i + 1)]
          BY <2>1, <5>2 DEF PromptAhead
        <5>. QED BY <2>2, <5>1, <5>2, <5>3
      <4>. QED BY <2>1, <2>2, <2>3, <4>1, <4>2 DEF PromptAhead
    <3>4. Ends(u, SubSeq(Prompt, 1, m + 1))
      <4>. DEFINE f == SubSeq(Prompt, 1, m)
                  g == SubSeq(Prompt, 1, m + 1)
      <4>1. f \in Seq(Chars) /\ Len(f) = m /\ \A i \in 1 .. m : f[i] = Prompt[i]
        BY <2>3, TakesFirst
      <4>2. g \in Seq(Chars) /\ Len(g) = m + 1 /\ \A i \in 1 .. (m + 1) : g[i] = Prompt[i]
        BY <2>3, <3>1, TakesFirst
      <4>. HIDE DEF f, g
      <4>3. Append(f, c) \in Seq(Chars) /\ Len(Append(f, c)) = m + 1 /\ Append(f, c)[m + 1] = c
            /\ \A i \in 1 .. m : Append(f, c)[i] = f[i]
        BY <2>2, <4>1, AppendProperties
      <4>4. \A i \in 1 .. (m + 1) : g[i] = Append(f, c)[i]
        BY <2>1, <2>3, <3>2, <4>1, <4>2, <4>3
      <4>5. g = Append(f, c)
        BY <4>2, <4>3, <4>4, SeqEqual
      <4>6. Len(f) + 1 <= ScreenSize - W
        BY <2>3, <3>1, <4>1, Sizes
      <4>7. Ends(t, f)
        BY <2>1 DEF f
      <4>8. Ends(terminal_putchar(t, c), Append(f, c))
        BY <3>2, <4>1, <4>6, <4>7, PutEnds
      <4>. QED BY <4>5, <4>8 DEF g, u
    <3>5. PromptShown(u, left, q, line)
      BY <1>3, <3>1, <3>3, <3>4 DEF PromptShown
    <3>. QED BY <1>3, <2>2, <3>5, PromptIsShown DEF PromptShown, u, left, c
  <2>6. CASE Len(rest) # Len(Prompt) - m
    <3>1. m = 0 /\ Len(rest) > Len(Prompt)
      BY <2>1, <2>2, <2>3, <2>6 DEF PromptAhead
    <3>2. PromptAhead(0, left)
      <4>1. ASSUME NEW i \in 1 .. (Len(Prompt) - 0)
            PROVE  left[Len(left) - (Len(Prompt) - 0) + i] = Prompt[0 + i]
        <5>1. Len(left) - (Len(Prompt) - 0) + i \in 1 .. (Len(rest) - 1)
          BY <2>2, <2>3, <3>1
        <5>2. (Len(left) - (Len(Prompt) - 0) + i) + 1 = Len(rest) - (Len(Prompt) - 0) + i
          BY <2>2, <2>3
        <5>3. rest[Len(rest) - (Len(Prompt) - 0) + i] = Prompt[0 + i]
          BY <2>1, <3>1 DEF PromptAhead
        <5>. QED BY <2>2, <5>1, <5>2, <5>3
      <4>. QED BY <2>2, <2>3, <3>1, <4>1 DEF PromptAhead
    <3>3. Ends(u, SubSeq(Prompt, 1, 0))
      <4>1. SubSeq(Prompt, 1, 0) = <<>>
        BY SubSeqEmpty
      <4>2. At(u.column, u.row) \in Nat
        BY <2>4, TermIs, CellFacts DEF OnScreen
      <4>. QED BY <4>1, <4>2 DEF Ends, EndsAt
    <3>4. 0 \in 0 .. Len(Prompt)
      BY <2>3
    <3>5. PromptShown(u, left, q, line)
      BY <1>3, <3>2, <3>3, <3>4 DEF PromptShown
    <3>. QED BY <1>3, <2>2, <3>5, PromptIsShown DEF PromptShown, u, left, c
  <2>. QED BY <2>5, <2>6
<1>. QED BY <1>1, <1>2, <1>3 DEF Shown

-----------------------------------------------------------------------------
(***************************************************************************)
(* The prompt and the line stand before the cursor, or what is still to be *)
(* printed puts them there.  Inside a call that holds of the terminal that *)
(* the call returns.                                                       *)
(***************************************************************************)
Noted ==
    /\ pc \in Putting => Shown(Result, Tail(todo), after, queue, cmd)
    /\ pc \in Clearing => after = "input" /\ cmd = <<>> /\ Quiet(queue)
    /\ pc \notin Putting \cup Clearing => Shown(Screen, todo, after, queue, cmd)

LineInv == ~disturbed => RegsOK /\ Noted

LEMMA ScreenIsPrimed ==
    ASSUME TypeOK'
    PROVE  Screen' \in Terminals
BY DEF TypeOK, Screen, Terminals, Text, W, H

LEMMA LineTypes ==
    ASSUME ConsoleInv
    PROVE  /\ queue \in Seq(Chars) /\ cmd \in Lined /\ todo \in Seq(Chars) /\ Screen \in Terminals
           /\ queue # <<>> => Head(queue) \in Chars /\ Tail(queue) \in Seq(Chars)
           /\ disturbed \in BOOLEAN
<1>1. queue \in Seq(Keys) /\ cmd \in Lined /\ todo \in Seq(Chars) /\ disturbed \in BOOLEAN
  BY DEF ConsoleInv, TypeOK, Lined
<1>2. queue \in Seq(Chars) /\ Screen \in Terminals
  BY <1>1, LineFacts, ScreenIs DEF ConsoleInv
<1>. QED BY <1>1, <1>2

LEMMA LineInit == Init => LineInv
<1>. SUFFICES ASSUME Init PROVE LineInv
  OBVIOUS
<1>1. pc = "free" /\ todo = <<NL>> \o Prompt /\ after = "input" /\ queue = <<>> /\ cmd = <<>>
  BY DEF Init
<1>2. Screen \in Terminals
  BY ConsoleInit, ScreenIs DEF ConsoleInv
<1>3. Quiet(queue) /\ <<>> \in Seq(Chars) /\ <<NL>> \in Seq(Chars)
  BY <1>1, CharFacts DEF Quiet
<1>4. Shown(Screen, todo, after, queue, cmd)
  BY <1>1, <1>2, <1>3, PromptToCome
<1>. QED BY <1>1, <1>4 DEF LineInv, RegsOK, Noted, Putting, Clearing

LEMMA IrqNoted ==
    ASSUME ConsoleInv, LineInv, NEW c \in Keys, keyboard_irq(c)
    PROVE  LineInv'
<1>1. UNCHANGED <<pc, reg, k, todo, after, cmd>> /\ (queue' = queue \/ queue' = Append(queue, c))
  BY DEF keyboard_irq
<1>2. c \in Chars /\ queue \in Seq(Chars) /\ cmd \in Lined
  BY CharFacts, LineTypes
<1>3. CASE ~Echoed(c)
  <2>1. UNCHANGED <<buffer, row, column, disturbed>>
    BY <1>3 DEF keyboard_irq, term
  <2>2. Screen' = Screen /\ Result' = Result /\ (RegsOK => RegsOK')
    BY <1>1, <2>1 DEF Screen, Result, RegsOK
  <2>3. \A t, rest : Shown(t, rest, after, queue, cmd) => Shown(t, rest, after, queue', cmd)
    BY <1>1, <1>2, <1>3, StrikeShown
  <2>4. Quiet(queue) => Quiet(queue')
    <3>1. CASE queue' = Append(queue, c)
      <4>1. Len(queue') = Len(queue) + 1 /\ queue'[Len(queue) + 1] = c
            /\ \A i \in 1 .. Len(queue) : queue'[i] = queue[i]
        BY <1>2, <3>1, AppendProperties
      <4>2. \A i \in 1 .. Len(queue') : i \in 1 .. Len(queue) \/ i = Len(queue) + 1
        BY <1>2, <4>1
      <4>. QED BY <1>3, <4>1, <4>2 DEF Quiet
    <3>. QED BY <1>1, <3>1
  <2>. QED BY <1>1, <2>1, <2>2, <2>3, <2>4 DEF LineInv, Noted
<1>4. CASE Echoed(c) /\ ~disturbed'
  <2>. DEFINE u == terminal_putchar(Screen, c)
  <2>1. ~disturbed /\ Listening /\ c # TAB /\ Len(queue) # KeyMax /\ SetScreen(u)
    BY <1>4 DEF keyboard_irq
  <2>2. queue' = Append(queue, c)
    BY <2>1, CharFacts DEF keyboard_irq, ConsoleInv, TypeOK
  <2>3. c \in Text
    BY <1>2, <1>4, <2>1, CharFacts DEF Echoed
  <2>4. pc = "free" /\ todo = <<>> /\ after = "input" /\ \A i \in 1 .. Len(queue) : Echoed(queue[i])
    BY <2>1 DEF Listening
  <2>5. Screen \in OnScreen
    BY <2>4, FreeOnScreen
  <2>6. LineShown(Screen, queue, cmd)
    <3>1. Shown(Screen, todo, after, queue, cmd)
      BY <2>1, <2>4 DEF LineInv, Noted, Putting, Clearing
    <3>. QED BY <2>4, <3>1 DEF Shown
  <2>7. LineShown(u, queue', cmd)
    BY <1>2, <2>2, <2>3, <2>4, <2>5, <2>6, EchoShown
  <2>8. u \in OnScreen
    BY <1>2, <2>5, PutOnScreen
  <2>. HIDE DEF u
  <2>9. Screen' = u
    <3>1. u = Term(u.buffer, u.row, u.column)
      BY <2>8, TermIs DEF OnScreen
    <3>. QED BY <2>1, <3>1 DEF SetScreen, Screen, Term
  <2>10. Shown(Screen', todo', after', queue', cmd')
    BY <1>1, <2>4, <2>7, <2>9 DEF Shown
  <2>. QED BY <1>1, <2>4, <2>10 DEF LineInv, RegsOK, Noted, Putting, Clearing
<1>5. CASE disturbed'
  BY <1>5 DEF LineInv
<1>. QED BY <1>3, <1>4, <1>5

LEMMA TerminalStepNoted ==
    ASSUME ConsoleInv, LineInv, TerminalStep
    PROVE  LineInv'
<1>1. UNCHANGED <<after, queue, cmd>>
  BY DEF TerminalStep, NewlineLoad, EraseAtEdge, LoadColumn, LoadRow, WriteGlyph, MoveRight, MoveLeft,
         BlankErased, TabBlank, TabAtStop, MoveHome, MoveDown, ScrollCell, BackOnScreen, ClearCell,
         ClearRow, ClearColumn, CallOnly
<1>2. queue \in Seq(Chars) /\ cmd \in Lined /\ todo \in Seq(Chars) /\ Screen \in Terminals
      /\ TypeOK /\ CallInv
  BY LineTypes DEF ConsoleInv
<1>3. disturbed' = disturbed \/ EraseAtEdge
  BY DEF TerminalStep, NewlineLoad, LoadColumn, LoadRow, WriteGlyph, MoveRight, MoveLeft,
         BlankErased, TabBlank, TabAtStop, MoveHome, MoveDown, ScrollCell, BackOnScreen, ClearCell,
         ClearRow, ClearColumn
<1>4. CASE EraseAtEdge
  BY <1>4 DEF EraseAtEdge, LineInv
<1>5. CASE disturbed' = disturbed /\ disturbed
  BY <1>5 DEF LineInv
<1>6. CASE disturbed' = disturbed /\ ~disturbed /\ pc \in Putting
  <2>1. RegsOK /\ Shown(Result, Tail(todo), after, queue, cmd)
    BY <1>6 DEF LineInv, Noted
  <2>2. Onward
    BY <1>6, <2>1, CallGoesOn
  <2>3. CASE pc' \in Putting /\ PutOn /\ RegsOK' /\ Result' = Result
    <3>1. todo' = todo /\ pc' \notin Clearing
      BY <2>3 DEF PutOn, Putting, Clearing
    <3>. QED BY <1>1, <2>1, <2>3, <3>1 DEF LineInv, Noted
  <2>4. CASE pc' = "free" /\ PutDone /\ Screen' = Result
    <3>1. todo' = Tail(todo)
      BY <2>4 DEF PutDone
    <3>. QED BY <1>1, <2>1, <2>4, <3>1 DEF LineInv, RegsOK, Noted, Putting, Clearing
  <2>. QED BY <2>2, <2>3, <2>4 DEF Onward
<1>7. CASE disturbed' = disturbed /\ ~disturbed /\ ~EraseAtEdge /\ pc = "free"
  <2>1. NewlineLoad \/ LoadColumn
    BY <1>7 DEF TerminalStep, LoadRow, WriteGlyph, MoveRight, MoveLeft, BlankErased, TabBlank, TabAtStop,
         MoveHome, MoveDown, ScrollCell, BackOnScreen, ClearCell, ClearRow, ClearColumn
  <2>2. pc' \in Putting /\ PutOn /\ RegsOK' /\ Result' = terminal_putchar(Screen, Head(todo))
    BY <2>1, CallStarts
  <2>3. todo # <<>> /\ (Head(todo) = BS => Screen.column > 0)
    BY <2>1, CharFacts DEF NewlineLoad, LoadColumn, Screen
  <2>4. Shown(Screen, todo, after, queue, cmd) /\ Screen \in OnScreen
    BY <1>7, FreeOnScreen DEF LineInv, Noted, Putting, Clearing
  <2>5. Shown(terminal_putchar(Screen, Head(todo)), Tail(todo), after, queue, cmd)
    BY <1>2, <2>3, <2>4, PutShown
  <2>6. todo' = todo /\ pc' \notin Clearing
    BY <2>2 DEF PutOn, Putting, Clearing
  <2>. QED BY <1>1, <2>2, <2>5, <2>6 DEF LineInv, Noted
<1>8. CASE disturbed' = disturbed /\ ~disturbed /\ pc \in Clearing
  <2>1. after = "input" /\ cmd = <<>> /\ Quiet(queue) /\ todo = Prompt
    BY <1>2, <1>8 DEF LineInv, Noted, CallInv
  <2>2. CASE ClearCell \/ ClearRow
    <3>1. pc' \in Clearing
      BY <2>2 DEF ClearCell, ClearRow, Goto, Clearing
    <3>. QED BY <1>1, <2>1, <3>1 DEF LineInv, RegsOK, Noted, Putting, Clearing
  <2>3. CASE ClearColumn
    <3>1. pc' = "free" /\ todo' = todo
      BY <2>3 DEF ClearColumn, Goto
    <3>2. Screen' \in Terminals
      <4>1. TypeOK'
        BY TerminalStepKeeps DEF ConsoleInv
      <4>. QED BY <4>1, ScreenIsPrimed
    <3>3. <<>> \in Seq(Chars) /\ Prompt = <<>> \o Prompt
      BY LineFacts, ConcatEmptySeq
    <3>4. Shown(Screen', Prompt, "input", queue, <<>>)
      BY <1>2, <2>1, <3>2, <3>3, PromptToCome
    <3>. QED BY <1>1, <2>1, <3>1, <3>4 DEF LineInv, RegsOK, Noted, Putting, Clearing
  <2>4. ClearCell \/ ClearRow \/ ClearColumn
    BY <1>8 DEF TerminalStep, NewlineLoad, EraseAtEdge, LoadColumn, LoadRow, WriteGlyph, MoveRight, MoveLeft,
         BlankErased, TabBlank, TabAtStop, MoveHome, MoveDown, ScrollCell, BackOnScreen, Clearing
  <2>. QED BY <2>2, <2>3, <2>4
<1>9. pc # "halted"
  BY DEF TerminalStep, NewlineLoad, EraseAtEdge, LoadColumn, LoadRow, WriteGlyph, MoveRight, MoveLeft,
         BlankErased, TabBlank, TabAtStop, MoveHome, MoveDown, ScrollCell, BackOnScreen,
         ClearCell, ClearRow, ClearColumn
<1>10. disturbed \in BOOLEAN
  BY LineTypes
<1>. QED BY <1>2, <1>3, <1>4, <1>5, <1>6, <1>7, <1>8, <1>9, <1>10 DEF TypeOK, Putting, Clearing

\* Enter is read and the prompt will come.
LEMMA EnterNoted ==
    ASSUME ConsoleInv, InputEnter, UNCHANGED <<buffer, row, column>>
    PROVE  /\ cmd' = <<>> /\ Screen' = Screen /\ Screen \in Terminals /\ queue' \in Seq(Chars)
           /\ ~disturbed' => Quiet(queue')
<1>1. queue # <<>> /\ queue \in Seq(Chars) /\ queue' = Tail(queue) /\ cmd' = <<>>
      /\ disturbed' = \E i \in 2 .. Len(queue) : Echoed(queue[i])
  BY LineTypes DEF InputEnter, Reading
<1>2. Screen' = Screen /\ Screen \in Terminals /\ queue' \in Seq(Chars)
  BY <1>1, LineTypes DEF Screen
<1>3. ASSUME ~disturbed' PROVE Quiet(queue')
  <2>1. Len(queue) \in Nat /\ Len(Tail(queue)) = Len(queue) - 1
        /\ \A i \in 1 .. (Len(queue) - 1) : Tail(queue)[i] = queue[i + 1]
    BY <1>1
  <2>2. \A i \in 1 .. (Len(queue) - 1) : i + 1 \in 2 .. Len(queue)
    BY <2>1
  <2>. QED BY <1>1, <1>3, <2>1, <2>2 DEF Quiet
<1>. QED BY <1>1, <1>2, <1>3

LEMMA ShellStepNoted ==
    ASSUME ConsoleInv, LineInv, ShellStep
    PROVE  LineInv'
<1>1. pc = "free"
  BY DEF ShellStep, InputChar, InputErase, EnterNothing, EnterCommand, EnterShutdown, EnterClear,
         EnterExec, do_write, ExecReturns, Halt, InputEnter, Reading
<1>2. queue \in Seq(Chars) /\ cmd \in Lined /\ Screen \in Terminals /\ disturbed \in BOOLEAN
      /\ (queue # <<>> => Head(queue) \in Chars /\ Tail(queue) \in Seq(Chars))
  BY LineTypes
<1>3. ~disturbed => Shown(Screen, todo, after, queue, cmd)
  BY <1>1 DEF LineInv, Noted, Putting, Clearing
<1>4. SUFFICES ASSUME ~disturbed'
               PROVE  \/ pc' = "free" /\ Shown(Screen', todo', after', queue', cmd')
                      \/ pc' = "clear" /\ after' = "input" /\ cmd' = <<>> /\ Quiet(queue')
                      \/ pc' = "halted" /\ after' = "halt"
  BY DEF LineInv, RegsOK, Noted, Putting, Clearing, Shown
<1>5. CASE InputChar
  <2>1. ~disturbed /\ Len(cmd) # LineMax /\ pc' = "free" /\ Screen' = Screen /\ todo = <<>> /\ todo' = <<>>
        /\ after = "input" /\ after' = "input" /\ queue # <<>> /\ queue' = Tail(queue) /\ Echoed(Head(queue))
    BY <1>1, <1>2, <1>4, <1>5 DEF InputChar, Reading, Screen, term, call
  <2>2. Len(cmd) < LineMax
    BY <1>2, <2>1, LineFacts
  <2>3. cmd' = Append(cmd, Head(queue))
    BY <1>5, <2>2 DEF InputChar
  <2>4. LineShown(Screen, queue, cmd)
    BY <1>3, <2>1 DEF Shown
  <2>5. LineShown(Screen, queue', cmd')
    BY <1>2, <2>1, <2>2, <2>3, <2>4, ReadShown
  <2>. QED BY <2>1, <2>5 DEF Shown
<1>6. CASE InputErase
  <2>1. ~disturbed /\ pc' = "free" /\ Screen' = Screen /\ todo = <<>> /\ ~Echoed(Head(queue))
        /\ after = "input" /\ after' = "input" /\ queue # <<>> /\ queue' = Tail(queue)
    BY <1>1, <1>4, <1>6 DEF InputErase, Reading, Screen, term, call, Echoed
  <2>2. LineShown(Screen, queue, cmd)
    BY <1>3, <2>1 DEF Shown
  <2>3. Quiet(queue') /\ Ends(Screen, Prompt \o cmd)
    BY <1>2, <2>1, <2>2, KeyShown
  <2>4. CASE cmd = <<>>
    <3>1. cmd' = cmd /\ todo' = <<>>
      BY <1>6, <2>1, <2>4 DEF InputErase
    <3>2. cmd \in Seq(Chars)
      BY <1>2, LineFacts
    <3>3. LineShown(Screen, queue', cmd)
      BY <1>2, <2>1, <2>3, <3>2, QuietShown
    <3>. QED BY <2>1, <3>1, <3>3 DEF Shown
  <2>5. CASE cmd # <<>>
    <3>1. cmd' = Front(cmd) /\ todo' = <<BS>>
      BY <1>6, <2>5 DEF InputErase
    <3>2. cmd \in Seq(Keys) /\ Prompt \in Seq(Chars) /\ Keys \subseteq Chars
      <4>1. cmd \in Seq(Keys \ {NL, BS})
        BY <1>2 DEF Lined
      <4>. QED BY <4>1, LineFacts
    <3>3. cmd[Len(cmd)] \in Keys /\ Prompt \o cmd = Append(Prompt \o Front(cmd), cmd[Len(cmd)])
      BY <2>5, <3>2, FrontAndLast
    <3>4. EraseAhead(Screen, queue', cmd')
      BY <2>3, <3>1, <3>3 DEF EraseAhead
    <3>. QED BY <2>1, <3>1, <3>4 DEF Shown
  <2>. QED BY <2>4, <2>5
<1>7. CASE EnterNothing \/ \E out \in Outputs : EnterCommand(out)
  <2>1. InputEnter /\ pc' = "free" /\ UNCHANGED <<buffer, row, column>> /\ after' = "input"
    BY <1>1, <1>7 DEF EnterNothing, EnterCommand, InputEnter, Reading, term, call
  <2>2. cmd' = <<>> /\ Screen' = Screen /\ Quiet(queue') /\ queue' \in Seq(Chars)
    BY <1>4, <2>1, EnterNoted
  <2>3. \E out \in Seq(Chars) : todo' = out \o Prompt
    <3>1. CASE EnterNothing
      <4>1. todo' = Prompt /\ <<>> \o Prompt = Prompt /\ <<>> \in Seq(Chars)
        BY <3>1, LineFacts, ConcatEmptySeq DEF EnterNothing
      <4>. QED BY <4>1
    <3>2. CASE \E out \in Outputs : EnterCommand(out)
      <4>1. PICK out \in Outputs : todo' = out \o <<NL>> \o Prompt
        BY <3>2 DEF EnterCommand
      <4>2. out \in Seq(Chars) /\ <<NL>> \in Seq(Chars)
        BY CharFacts
      <4>3. out \o <<NL>> \in Seq(Chars)
        BY <4>2, ConcatIs
      <4>. QED BY <4>1, <4>3
    <3>. QED BY <1>7, <3>1, <3>2
  <2>4. Shown(Screen, todo', "input", queue', <<>>)
    BY <1>2, <2>2, <2>3, PromptToCome
  <2>. QED BY <2>1, <2>2, <2>4
<1>8. CASE EnterClear
  <2>1. InputEnter /\ pc' = "clear" /\ UNCHANGED <<buffer, row, column>> /\ after' = "input"
    BY <1>8 DEF EnterClear, InputEnter, Reading, term, Goto
  <2>. QED BY <1>4, <2>1, EnterNoted
<1>9. CASE EnterExec
  <2>1. InputEnter /\ pc' = "free" /\ UNCHANGED <<buffer, row, column>> /\ after' = "exec"
    BY <1>1, <1>9 DEF EnterExec, term, call
  <2>. QED BY <1>4, <2>1, EnterNoted DEF Shown
<1>10. CASE \E out \in Outputs : EnterShutdown(out)
  BY <1>1, <1>10 DEF EnterShutdown, call, Shown
<1>11. CASE \E data \in Writes : do_write(data)
  <2>1. pc' = "free" /\ after = "exec" /\ UNCHANGED <<after, queue, cmd, disturbed>>
    BY <1>1, <1>11 DEF do_write, call
  <2>. QED BY <1>3, <1>4, <2>1 DEF Shown
<1>12. CASE ExecReturns
  <2>1. pc' = "free" /\ after = "exec" /\ after' = "input" /\ todo' = <<NL>> \o Prompt
        /\ UNCHANGED <<queue, cmd, disturbed>> /\ Screen' = Screen
    BY <1>1, <1>12 DEF ExecReturns, call, term, Screen
  <2>2. Quiet(queue) /\ cmd = <<>> /\ <<NL>> \in Seq(Chars)
    BY <1>3, <1>4, <2>1, CharFacts DEF Shown
  <2>3. Shown(Screen, todo', "input", queue, <<>>)
    BY <1>2, <2>1, <2>2, PromptToCome
  <2>. QED BY <2>1, <2>2, <2>3
<1>13. CASE Halt
  BY <1>13 DEF Halt, Goto
<1>. QED BY <1>5, <1>6, <1>7, <1>8, <1>9, <1>10, <1>11, <1>12, <1>13 DEF ShellStep

\* Undisturbed, the prompt, the command line and what is typed ahead stand
\* before the cursor, or what is still to be printed puts them there.
THEOREM ConsoleLineInvariant == Spec => []LineInv
<1>1. ConsoleInv /\ LineInv /\ [Next]_vars => LineInv'
  <2>. SUFFICES ASSUME ConsoleInv, LineInv, [Next]_vars PROVE LineInv'
    OBVIOUS
  <2>1. CASE Next
    BY <2>1, IrqNoted, TerminalStepNoted, ShellStepNoted DEF Next
  <2>2. CASE UNCHANGED vars
    BY <2>2 DEF vars, LineInv, RegsOK, Noted, Screen, Result
  <2>. QED BY <2>1, <2>2
<1>. QED BY <1>1, LineInit, ConsoleInvariant, PTL DEF Spec

\* When the shell waits for a key, the user sees the prompt and the command
\* line as it will be executed before the cursor.
THEOREM ConsoleEchoMatchesLine == Spec => []EchoMatchesLine
<1>1. ConsoleInv /\ LineInv => EchoMatchesLine
  <2>. SUFFICES ASSUME ConsoleInv, LineInv, Listening, queue = <<>>, ~disturbed PROVE EchoMatchesLine
    BY DEF EchoMatchesLine
  <2>1. Shown(Screen, todo, after, queue, cmd) /\ todo = <<>> /\ after = "input"
    BY DEF LineInv, Noted, Listening, Putting, Clearing
  <2>2. LineShown(Screen, queue, cmd)
    BY <2>1 DEF Shown
  <2>3. Typed(Screen, queue, cmd, 0)
    BY <2>2 DEF LineShown
  <2>4. Prompt \o cmd \in Seq(Chars) /\ queue \in Seq(Chars) /\ Len(cmd) + 0 <= LineMax
    BY LineTypes, LineFacts, ConcatIs
  <2>5. (Prompt \o cmd) \o SubSeq(queue, 1, 0) = Prompt \o cmd
    BY <2>4, TakesNone
  <2>6. Ends(Screen, Prompt \o cmd)
    BY <2>3, <2>4, <2>5 DEF Typed
  <2>7. Screen.buffer = buffer /\ Screen.row = row /\ Screen.column = column
    BY DEF Screen
  <2>. QED BY <2>6, <2>7 DEF EchoMatchesLine, Ends, EndsAt
<1>. QED BY <1>1, ConsoleLineInvariant, ConsoleInvariant, PTL

=============================================================================
