--------------------------- MODULE ScreenProofs ---------------------------
(***************************************************************************)
(* What the user sees: the shell's line editor on the terminal, for every  *)
(* size of the screen, of the scrollback and of the line; and the desktop  *)
(* loop that redraws it, for every number of keys and bytes of the mouse,  *)
(* places of the pointer and seconds.                                      *)
(***************************************************************************)
EXTENDS ShellLine, Desktop, SequenceTheorems, FiniteSetTheorems, WellFoundedInduction, TLAPS

LEMMA LeastNumber ==
  ASSUME NEW T, T \subseteq Nat, T # {}
  PROVE  \E x \in T : \A y \in T : x <= y
<1>1. PICK x \in T : \A y \in T : ~(<<y, x>> \in OpToRel(<, Nat))
  BY NatLessThanWellFounded, WFMin
<1>2. \A y \in T : ~(y < x)
  BY <1>1 DEF OpToRel
<1>. QED
  BY <1>2

(***************************************************************************)
(* Printing, drawing and scrolling go on step by step: FoldLeft is a       *)
(* recursive function on the sets of steps, and that there is one is cells *)
(* here with the least number of steps for which there would not be.       *)
(***************************************************************************)
\* One step: a character printed, one drawn in its place in the line, or one row scrolled.
Further(op, line, t, a) ==
  IF op = "print" THEN t_putchar(t, a)
  ELSE IF op = "draw"
    THEN t_putentryat(t, line.text[a], Col(a - 1, line.col), Row(a - 1, line.col, line.row))
  ELSE t_scroll(t)

IsWay(op, line, from, steps, n, g) ==
  g = [s \in SUBSET (1..n) |-> IF s = {} THEN from
                               ELSE Further(op, line, g[s \ {Max(s)}], steps[Max(s)])]

LEMMA MaxIs ==
  ASSUME NEW n \in Nat, NEW s \in SUBSET (1..n), n \in s
  PROVE  Max(s) = n
<1>1. \A y \in s : n >= y
  OBVIOUS
<1>2. \A x \in s : (\A y \in s : x >= y) => x = n
  BY <1>1
<1>. QED
  BY <1>1, <1>2 DEF Max

LEMMA WayExists ==
  ASSUME NEW op, NEW line, NEW from, NEW steps, NEW n \in Nat
  PROVE  \E g : IsWay(op, line, from, steps, n, g)
<1> DEFINE Bad == {m \in Nat : ~\E g : IsWay(op, line, from, steps, m, g)}
<1>1. SUFFICES ASSUME Bad # {} PROVE FALSE
  OBVIOUS
<1>2. PICK m \in Bad : \A k \in Bad : m <= k
  BY <1>1, LeastNumber
<1>3. m \in Nat /\ ~\E g : IsWay(op, line, from, steps, m, g)
  BY <1>2
<1>4. CASE m = 0
  <2>. DEFINE g == [s \in SUBSET (1..0) |-> from]
  <2>1. \A s \in SUBSET (1..0) : s = {}
    OBVIOUS
  <2>2. g = [s \in SUBSET (1..0) |-> IF s = {} THEN from
                                     ELSE Further(op, line, g[s \ {Max(s)}], steps[Max(s)])]
    BY <2>1
  <2>. HIDE DEF g
  <2>3. IsWay(op, line, from, steps, 0, g)
    BY <2>2 DEF IsWay
  <2>. QED
    BY <1>3, <1>4, <2>3
<1>5. CASE m # 0
  <2>1. m - 1 \in Nat /\ ~(m <= m - 1) /\ m \in 1..m
    BY <1>3, <1>5
  <2>2. m - 1 \notin Bad
    <3>. HIDE DEF Bad
    <3>. QED
      BY <1>2, <2>1
  <2>3. PICK g : IsWay(op, line, from, steps, m - 1, g)
    BY <2>1, <2>2
  <2>. DEFINE h == [s \in SUBSET (1..m) |-> IF m \in s THEN Further(op, line, g[s \ {m}], steps[m]) ELSE g[s]]
              k == [s \in SUBSET (1..m) |-> IF s = {} THEN from
                                            ELSE Further(op, line, h[s \ {Max(s)}], steps[Max(s)])]
  <2>4. \A s \in SUBSET (1..m) : m \notin s => s \in SUBSET (1..(m - 1))
    BY <1>3
  <2>5. \A s \in SUBSET (1..(m - 1)) : h[s] = g[s] /\ s \in SUBSET (1..m)
    BY <1>3
  <2>6. \A s \in SUBSET (1..(m - 1)) :
           g[s] = IF s = {} THEN from ELSE Further(op, line, g[s \ {Max(s)}], steps[Max(s)])
    BY <2>3 DEF IsWay
  <2>7. \A s \in SUBSET (1..m) :
           h[s] = IF m \in s THEN Further(op, line, g[s \ {m}], steps[m]) ELSE g[s]
    OBVIOUS
  <2>. HIDE DEF h
  <2>8. ASSUME NEW s \in SUBSET (1..m) PROVE h[s] = k[s]
    <3>1. CASE m \in s
      <4>1. Max(s) = m /\ s # {}
        BY <1>3, <3>1, MaxIs
      <4>2. s \ {m} \in SUBSET (1..(m - 1))
        BY <2>4
      <4>. QED
        BY <2>5, <2>7, <3>1, <4>1, <4>2
    <3>2. CASE m \notin s
      <4>1. s \in SUBSET (1..(m - 1)) /\ s \ {Max(s)} \in SUBSET (1..(m - 1))
        BY <2>4, <3>2
      <4>2. h[s] = g[s] /\ h[s \ {Max(s)}] = g[s \ {Max(s)}]
        BY <2>5, <4>1
      <4>. QED
        BY <2>6, <4>1, <4>2
    <3>. QED
      BY <3>1, <3>2
  <2>9. h = k
    <3>1. h = [s \in SUBSET (1..m) |-> h[s]]
      BY DEF h
    <3>. QED
      BY <2>8, <3>1
  <2>10. IsWay(op, line, from, steps, m, h)
    BY <2>9 DEF IsWay
  <2>. QED
    BY <1>3, <2>10
<1>. QED
  BY <1>4, <1>5

\* What the first n steps make of it.
Way(op, line, from, steps) ==
  CHOOSE g : IsWay(op, line, from, steps, Len(steps), g)
Reached(op, line, from, steps, n) == Way(op, line, from, steps)[1..n]

LEMMA WayIs ==
  ASSUME NEW op, NEW line, NEW from, NEW steps, Len(steps) \in Nat,
         NEW s \in SUBSET (1..Len(steps))
  PROVE  Way(op, line, from, steps)[s] =
           IF s = {} THEN from ELSE Further(op, line, Way(op, line, from, steps)[s \ {Max(s)}], steps[Max(s)])
<1> DEFINE g == Way(op, line, from, steps)
<1>1. IsWay(op, line, from, steps, Len(steps), g)
  BY WayExists DEF Way
<1>. HIDE DEF g
<1>2. g[s] = IF s = {} THEN from ELSE Further(op, line, g[s \ {Max(s)}], steps[Max(s)])
  BY <1>1 DEF IsWay
<1>. QED
  BY <1>2 DEF g

LEMMA ReachedFirst ==
  ASSUME NEW op, NEW line, NEW from, NEW steps, Len(steps) \in Nat
  PROVE  Reached(op, line, from, steps, 0) = from
<1>1. 1..0 = {} /\ 1..0 \in SUBSET (1..Len(steps))
  OBVIOUS
<1>. QED
  BY <1>1, WayIs DEF Reached

LEMMA ReachedNext ==
  ASSUME NEW op, NEW line, NEW from, NEW steps, Len(steps) \in Nat,
         NEW n, NEW k, n \in 1..Len(steps), k = n - 1
  PROVE  Reached(op, line, from, steps, n) = Further(op, line, Reached(op, line, from, steps, k), steps[n])
<1> DEFINE g == Way(op, line, from, steps)
           m == Len(steps)
<1>1. n \in Nat /\ n >= 1 /\ n <= m /\ m \in Nat
  OBVIOUS
<1>. HIDE DEF m
<1>2. 1..n \in SUBSET (1..m)
  BY <1>1
<1>3. n \in 1..n /\ (1..n) \ {n} = 1..k /\ 1..n \in SUBSET (1..n)
  BY <1>1
<1>4. Max(1..n) = n
  BY <1>1, <1>3, MaxIs
<1> DEFINE s == 1..n
<1>5. s \in SUBSET (1..Len(steps)) /\ s # {} /\ s \ {Max(s)} = 1..k /\ Max(s) = n
  BY <1>2, <1>3, <1>4 DEF m
<1>. HIDE DEF s
<1>6. g[s] = IF s = {} THEN from ELSE Further(op, line, g[s \ {Max(s)}], steps[Max(s)])
  BY <1>5, WayIs
<1>. HIDE DEF g
<1>7. g[s] = Further(op, line, g[1..k], steps[n])
  BY <1>5, <1>6
<1>. QED
  BY <1>7 DEF Reached, g, s

(***************************************************************************)
(* The terminal.                                                           *)
(***************************************************************************)
CellRows == [Columns -> Characters]
Screens  == [Rows -> CellRows]
Terminals == [t_screen : Screens, t_scrollback : Seq(CellRows), t_view_offset : Nat,
              t_row : Nat, t_column : Columns, t_buffer : Screens, cursor : Nat \X Nat]

\* The view is paged back no further than there is scrollback.
IsTerminal(t) ==
  /\ t \in Terminals
  /\ t.t_view_offset <= Len(t.t_scrollback) /\ Len(t.t_scrollback) <= VGA_SCROLLBACK_HEIGHT

\* Text memory shows the screen when the view is not paged back.
Fresh(t) == t.t_view_offset = 0 => t.t_buffer = t.t_screen

\* u is t but for what is displayed.
SameText(u, t) ==
  /\ u.t_screen = t.t_screen /\ u.t_scrollback = t.t_scrollback
  /\ u.t_row = t.t_row /\ u.t_column = t.t_column

LEMMA SizesAre ==
  /\ TERMINAL_WIDTH \in Nat /\ TERMINAL_WIDTH >= 1
  /\ TERMINAL_HEIGHT \in Nat /\ TERMINAL_HEIGHT >= 1
  /\ VGA_SCROLLBACK_HEIGHT \in Nat /\ VGA_SCROLLBACK_HEIGHT >= 1
  /\ BUFFER_SIZE \in Nat /\ BUFFER_SIZE >= 1
  /\ TERMINAL_WIDTH + BUFFER_SIZE <= TERMINAL_WIDTH * TERMINAL_HEIGHT + 1
  BY TerminalAssumption, ShellAssumption

LEMMA ViewTyped ==
  ASSUME NEW t, IsTerminal(t)
  PROVE  /\ View(t) \in Screens
         /\ t.t_view_offset = 0 => View(t) = t.t_screen
<1> DEFINE sb == t.t_scrollback
           n  == Len(sb) - t.t_view_offset
<1>1. t.t_screen \in Screens /\ sb \in Seq(CellRows) /\ t.t_view_offset \in Nat
      /\ t.t_view_offset <= Len(sb)
  BY DEF IsTerminal, Terminals
<1>2. ASSUME NEW y \in Rows
      PROVE  (IF n + y < Len(sb) THEN sb[n + y + 1] ELSE t.t_screen[n + y - Len(sb)]) \in CellRows
  <2>0. y \in Nat /\ y <= TERMINAL_HEIGHT - 1 /\ n \in Nat
    BY <1>1, SizesAre DEF Rows
  <2>1. CASE n + y < Len(sb)
    BY <1>1, <2>0, <2>1
  <2>2. CASE ~(n + y < Len(sb))
    <3>1. n + y - Len(sb) \in Rows
      BY <1>1, <2>0, <2>2, SizesAre, SMTT(30) DEF Rows
    <3>. QED
      BY <1>1, <2>2, <3>1 DEF Screens
  <2>. QED
    BY <2>1, <2>2
<1>3. View(t) \in Screens
  BY <1>2 DEF View, Screens
<1>4. ASSUME t.t_view_offset = 0 PROVE View(t) = t.t_screen
  <2>1. \A y \in Rows : ~(n + y < Len(sb)) /\ n + y - Len(sb) = y
    BY <1>1, <1>4, SizesAre DEF Rows
  <2>2. \A y \in Rows : View(t)[y] = t.t_screen[y]
    BY <2>1 DEF View
  <2>. QED
    BY <1>1, <1>3, <2>2 DEF Screens
<1>. QED
  BY <1>3, <1>4

LEMMA RenderIs ==
  ASSUME NEW t, IsTerminal(t), NEW r, r = t_render_view(t)
  PROVE  /\ IsTerminal(r) /\ SameText(r, t) /\ r.t_view_offset = t.t_view_offset
         /\ r.t_buffer = View(t) /\ View(r) = View(t)
<1>1. View(t) \in Screens
  BY ViewTyped
<1>2. t \in Terminals
  BY DEF IsTerminal
<1>3. t.t_row \in Nat /\ t.t_column \in Nat
  BY <1>2, SizesAre DEF Terminals, Columns
<1>4. r \in Terminals
  BY <1>1, <1>2, <1>3 DEF t_render_view, vga_update_cursor, Terminals
<1>5. SameText(r, t) /\ r.t_view_offset = t.t_view_offset /\ r.t_buffer = View(t)
  BY <1>2 DEF t_render_view, vga_update_cursor, Terminals, SameText
<1>6. View(r) = View(t)
  BY <1>5 DEF View, SameText
<1>. QED
  BY <1>4, <1>5, <1>6 DEF IsTerminal, SameText

LEMMA BottomIs ==
  ASSUME NEW t, IsTerminal(t), Fresh(t), NEW r, r = t_scroll_to_bottom(t)
  PROVE  /\ IsTerminal(r) /\ SameText(r, t) /\ r.t_view_offset = 0
         /\ r.t_buffer = r.t_screen
<1>1. CASE t.t_view_offset = 0
  BY <1>1 DEF t_scroll_to_bottom, SameText, Fresh
<1>2. CASE t.t_view_offset # 0
  <2>. DEFINE u == [t EXCEPT !.t_view_offset = 0]
  <2>1. r = t_render_view(u)
    BY <1>2 DEF t_scroll_to_bottom
  <2>2. t \in Terminals
    BY DEF IsTerminal
  <2>3. u \in Terminals /\ u.t_view_offset = 0 /\ SameText(u, t)
    BY <2>2 DEF Terminals, SameText
  <2>. HIDE DEF u
  <2>4. IsTerminal(u)
    BY <2>2, <2>3 DEF IsTerminal, SameText, Terminals
  <2>5. /\ IsTerminal(r) /\ SameText(r, u) /\ r.t_view_offset = 0
        /\ r.t_buffer = View(u) /\ View(u) = u.t_screen
    BY <2>1, <2>3, <2>4, RenderIs, ViewTyped
  <2>. QED
    BY <2>3, <2>5 DEF SameText
<1>. QED
  BY <1>1, <1>2

OnScreen(x, y) == x \in Columns /\ y \in Rows

\* r's screen is t's, but for c in column x of row y.
PutAt(r, t, c, x, y) ==
  \A u \in Columns, v \in Rows :
    r.t_screen[v][u] = IF u = x /\ v = y THEN c ELSE t.t_screen[v][u]

LEMMA PutIs ==
  ASSUME NEW t, IsTerminal(t), Fresh(t), NEW c \in Characters, NEW x, NEW y,
         NEW r, r = t_putentryat(t, c, x, y)
  PROVE  /\ IsTerminal(r) /\ Fresh(r)
         /\ r.t_scrollback = t.t_scrollback /\ r.t_row = t.t_row /\ r.t_column = t.t_column
         /\ PutAt(r, t, c, x, y)
         /\ OnScreen(x, y) => r.t_view_offset = 0
         /\ ~OnScreen(x, y) => r = t
<1>1. CASE ~OnScreen(x, y)
  BY <1>1 DEF t_putentryat, OnScreen, PutAt
<1>2. CASE OnScreen(x, y)
  <2>1. PICK b : b = t_scroll_to_bottom(t)
    OBVIOUS
  <2>2. /\ IsTerminal(b) /\ SameText(b, t) /\ b.t_view_offset = 0 /\ b.t_buffer = b.t_screen
    BY <2>1, BottomIs
  <2>3. r = [b EXCEPT !.t_screen[y][x] = c, !.t_buffer[y][x] = c]
    BY <1>2, <2>1 DEF t_putentryat, OnScreen
  <2>4. b \in Terminals /\ x \in Columns /\ y \in Rows
    BY <1>2, <2>2 DEF IsTerminal, OnScreen
  <2>5. b.t_screen \in Screens /\ [b.t_screen EXCEPT ![y][x] = c] \in Screens
    BY <2>4 DEF Terminals, Screens, CellRows
  <2>6. /\ r.t_screen = [b.t_screen EXCEPT ![y][x] = c] /\ r.t_buffer = [b.t_buffer EXCEPT ![y][x] = c]
        /\ r.t_scrollback = b.t_scrollback /\ r.t_row = b.t_row /\ r.t_column = b.t_column
        /\ r.t_view_offset = b.t_view_offset /\ r.cursor = b.cursor
    BY <2>3, <2>4 DEF Terminals
  <2>7. r \in Terminals
    BY <2>2, <2>3, <2>4, <2>5, ZenonT(30) DEF Terminals
  <2>8. PutAt(r, t, c, x, y)
    BY <2>2, <2>4, <2>5, <2>6 DEF PutAt, SameText, Terminals, Screens, CellRows
  <2>. QED
    BY <1>2, <2>2, <2>6, <2>7, <2>8 DEF IsTerminal, Fresh, SameText
<1>. QED
  BY <1>1, <1>2

(***************************************************************************)
(* The cells of the screen, numbered from its top row by row.              *)
(***************************************************************************)
At(x, y) == y * TERMINAL_WIDTH + x

LEMMA AtNext ==
  ASSUME NEW x \in Int, NEW y \in Int
  PROVE  /\ At(x, y) \in Int /\ At(x + 1, y) = At(x, y) + 1
         /\ At(x, y + 1) = At(x, y) + TERMINAL_WIDTH
  BY SizesAre DEF At

LEMMA Times ==
  ASSUME NEW w \in Nat, NEW y \in Int, NEW z \in Int, y <= z
  PROVE  y * w <= z * w
<1> DEFINE k == z - y
<1>1. k \in Nat /\ z = y + k
  OBVIOUS
<1>. HIDE DEF k
<1>2. k * w >= 0
  BY <1>1
<1>3. z * w = y * w + k * w
  BY <1>1
<1>. QED
  BY <1>1, <1>2, <1>3

LEMMA AtOrder ==
  ASSUME NEW x \in Columns, NEW y \in Int, NEW u \in Columns, NEW z \in Int
  PROVE  At(x, y) <= At(u, z) <=> y < z \/ (y = z /\ x <= u)
<1> DEFINE W == TERMINAL_WIDTH
<1>0. W \in Nat /\ x \in Int /\ u \in Int /\ x >= 0 /\ u >= 0 /\ x <= W - 1 /\ u <= W - 1
  BY SizesAre DEF Columns
<1>. HIDE DEF W
<1>1. ASSUME NEW p \in Columns, NEW q \in Int, NEW r \in Columns, NEW s \in Int, q < s
      PROVE  q * W + p < s * W + r
  <2>1. (q + 1) * W <= s * W
    BY <1>0, <1>1, Times
  <2>2. (q + 1) * W = q * W + W /\ q * W \in Int /\ s * W \in Int
    BY <1>0
  <2>3. p \in Int /\ r \in Int /\ p <= W - 1 /\ r >= 0
    BY SizesAre DEF Columns, W
  <2>. QED
    BY <2>1, <2>2, <2>3, <1>0
<1>2. CASE y < z
  <2>1. y * W + x < z * W + u
    BY <1>1, <1>2
  <2>. QED
    BY <1>0, <1>2, <2>1 DEF At, W
<1>3. CASE z < y
  <2>1. z * W + u < y * W + x
    BY <1>1, <1>3
  <2>. QED
    BY <1>0, <1>3, <2>1 DEF At, W
<1>4. CASE y = z
  BY <1>0, <1>4 DEF At, W
<1>. QED
  BY <1>2, <1>3, <1>4

LEMMA AtOne ==
  ASSUME NEW x \in Columns, NEW y \in Int, NEW u \in Columns, NEW z \in Int, At(x, y) = At(u, z)
  PROVE  x = u /\ y = z
<1>1. At(x, y) <= At(u, z) /\ At(u, z) <= At(x, y) /\ x \in Int /\ u \in Int
  BY SizesAre, AtNext DEF Columns
<1>. QED
  BY <1>1, AtOrder

Place(t) == At(t.t_column, t.t_row)

LEMMA PlaceTyped ==
  ASSUME NEW t, IsTerminal(t)
  PROVE  /\ Place(t) \in Int /\ t.t_row \in Int /\ t.t_column \in Int
         /\ t.t_row \in Nat /\ t.t_column \in Columns
<1>1. t.t_row \in Nat /\ t.t_column \in Columns
  BY DEF IsTerminal, Terminals
<1>2. t.t_row \in Int /\ t.t_column \in Int
  BY <1>1, SizesAre DEF Columns
<1>3. PICK x \in Int, y \in Int : x = t.t_column /\ y = t.t_row
  BY <1>2
<1>. QED
  BY <1>1, <1>2, <1>3, AtNext DEF Place

\* Nothing stands in the cells from number a on.
Clean(t, a) == \A x \in Columns, y \in Rows : a <= At(x, y) => t.t_screen[y][x] = Blank

\* Nothing stands from the k-th cell behind the cursor on.
CleanFrom(t, k) == Clean(t, Place(t) + k)

\* What is left of k once n are used up.
Left(k, n) == IF k > n THEN k - n ELSE 0

\* Going from t to r, text is left behind the cursor only as far as it is n cells further than it was.
Leaves(r, t, n) == \A k \in Nat : CleanFrom(t, k) => CleanFrom(r, Left(k, n))

LEMMA LeavesMore ==
  ASSUME NEW r, NEW u, NEW t, NEW n \in Nat, NEW m \in Nat, Leaves(u, t, n), Leaves(r, u, m)
  PROVE  Leaves(r, t, n + m)
<1>1. ASSUME NEW k \in Nat, CleanFrom(t, k) PROVE CleanFrom(r, Left(k, n + m))
  <2>1. PICK j : j = Left(k, n)
    OBVIOUS
  <2>2. j \in Nat /\ Left(j, m) = Left(k, n + m)
    BY <2>1 DEF Left
  <2>3. CleanFrom(u, j)
    BY <1>1, <2>1 DEF Leaves
  <2>. QED
    BY <2>2, <2>3 DEF Leaves
<1>. QED
  BY <1>1 DEF Leaves

LEMMA CleanBehind ==
  ASSUME NEW t, NEW a \in Int, NEW b \in Int, Clean(t, a), a <= b
  PROVE  Clean(t, b)
<1>1. ASSUME NEW x \in Columns, NEW y \in Rows, b <= At(x, y)
      PROVE  t.t_screen[y][x] = Blank
  <2>1. At(x, y) \in Int
    BY SizesAre, AtNext DEF Columns, Rows
  <2>2. a <= At(x, y)
    BY <1>1, <2>1
  <2>. QED
    BY <2>2 DEF Clean
<1>. QED
  BY <1>1 DEF Clean

\* The scrollback once `row' has scrolled off: its last rows, d of the first dropped.
Pushed(new, old, row) ==
  \E d \in {0, 1} :
    /\ Len(new) + d = Len(old) + 1
    /\ \A k \in 1..Len(new) : new[k] = Append(old, row)[k + d]

LEMMA ScrollIs ==
  ASSUME NEW t, IsTerminal(t), Fresh(t), NEW r, r = t_scroll(t)
  PROVE  /\ IsTerminal(r) /\ Fresh(r)
         /\ r.t_screen = [y \in Rows |-> IF y = TERMINAL_HEIGHT - 1 THEN BlankRow ELSE t.t_screen[y + 1]]
         /\ r.t_row = TERMINAL_HEIGHT - 1 /\ r.t_column = t.t_column
         /\ r.t_view_offset = t.t_view_offset
         /\ Pushed(r.t_scrollback, t.t_scrollback, t.t_screen[0])
<1> DEFINE sb   == t.t_scrollback
           kept == Append(sb, t.t_screen[0])
           back == IF Len(kept) > VGA_SCROLLBACK_HEIGHT THEN Tail(kept) ELSE kept
           scr  == [y \in Rows |-> IF y = TERMINAL_HEIGHT - 1 THEN BlankRow ELSE t.t_screen[y + 1]]
           m    == [t EXCEPT !.t_scrollback = back, !.t_screen = scr, !.t_row = TERMINAL_HEIGHT - 1]
<1>1. t \in Terminals /\ t.t_screen \in Screens /\ sb \in Seq(CellRows)
      /\ t.t_view_offset <= Len(sb) /\ Len(sb) <= VGA_SCROLLBACK_HEIGHT /\ t.t_view_offset \in Nat
  BY DEF IsTerminal, Terminals
<1>2. 0 \in Rows
  BY SizesAre DEF Rows
<1>3. t.t_screen[0] \in CellRows
  BY <1>1, <1>2 DEF Screens
<1>4. kept \in Seq(CellRows) /\ Len(kept) = Len(sb) + 1
  BY <1>1, <1>3
<1>5. /\ back \in Seq(CellRows) /\ Len(back) <= VGA_SCROLLBACK_HEIGHT /\ Len(sb) <= Len(back)
      /\ Pushed(back, sb, t.t_screen[0])
  <2>1. CASE Len(kept) > VGA_SCROLLBACK_HEIGHT
    <3>1. back = Tail(kept) /\ Len(back) = Len(sb) /\ back \in Seq(CellRows)
      BY <1>1, <1>4, <2>1
    <3>2. \A k \in 1..Len(back) : back[k] = kept[k + 1]
      BY <1>4, <3>1
    <3>3. Pushed(back, sb, t.t_screen[0])
      <4>. HIDE DEF back
      <4>. QED
        BY <1>1, <3>1, <3>2 DEF Pushed
    <3>. QED
      BY <1>1, <3>1, <3>3
  <2>2. CASE ~(Len(kept) > VGA_SCROLLBACK_HEIGHT)
    <3>1. back = kept
      BY <2>2
    <3>2. \A k \in 1..Len(back) : back[k] = kept[k + 0]
      BY <1>4, <3>1
    <3>3. Pushed(back, sb, t.t_screen[0])
      <4>1. Len(back) + 0 = Len(sb) + 1
        BY <1>1, <1>4, <3>1
      <4>. HIDE DEF back
      <4>. QED
        BY <3>2, <4>1 DEF Pushed
    <3>. QED
      BY <1>1, <1>4, <2>2, <3>1, <3>3, SizesAre
  <2>. QED
    BY <2>1, <2>2
<1>6. scr \in Screens
  <2>1. BlankRow \in CellRows
    BY ShellAssumption DEF BlankRow, CellRows
  <2>2. \A y \in Rows : y # TERMINAL_HEIGHT - 1 => y + 1 \in Rows
    BY SizesAre DEF Rows
  <2>. QED
    BY <1>1, <2>1, <2>2 DEF Screens
<1>7. r = IF t.t_view_offset = 0 THEN t_render_view(m) ELSE m
  BY <1>1 DEF t_scroll
<1>. HIDE DEF scr, back
<1>8. /\ m \in Terminals /\ m.t_screen = scr /\ m.t_scrollback = back /\ m.t_row = TERMINAL_HEIGHT - 1
      /\ m.t_column = t.t_column /\ m.t_view_offset = t.t_view_offset
  <2>1. TERMINAL_HEIGHT - 1 \in Nat
    BY SizesAre
  <2>2. back \in Seq(CellRows)
    BY <1>5
  <2>. QED
    BY <1>1, <1>6, <2>1, <2>2 DEF Terminals
<1>. HIDE DEF m
<1>9. IsTerminal(m)
  <2>1. Len(back) \in Nat /\ Len(sb) \in Nat
    BY <1>1, <1>5
  <2>. QED
    BY <1>1, <1>5, <1>8, <2>1, SizesAre DEF IsTerminal
<1>10. CASE t.t_view_offset = 0
  <2>1. r = t_render_view(m)
    BY <1>7, <1>10
  <2>2. /\ IsTerminal(r) /\ SameText(r, m) /\ r.t_view_offset = m.t_view_offset
        /\ r.t_buffer = View(m) /\ View(m) = m.t_screen
    BY <1>8, <1>9, <1>10, <2>1, RenderIs, ViewTyped
  <2>. QED
    BY <1>5, <1>8, <2>2 DEF SameText, Fresh, scr
<1>11. CASE t.t_view_offset # 0
  BY <1>5, <1>7, <1>8, <1>9, <1>11 DEF Fresh, scr
<1>. QED
  BY <1>10, <1>11

LEMMA NextRowIs ==
  ASSUME NEW t, IsTerminal(t), Fresh(t), NEW r, r = NextRow(t)
  PROVE  /\ IsTerminal(r) /\ Fresh(r) /\ r.t_view_offset = t.t_view_offset
         /\ t.t_row \in Rows => r.t_row \in Rows
         /\ r.t_column = 0 /\ r.t_row <= t.t_row + 1
         /\ \A a \in Int, k \in Nat : Clean(t, a) /\ a <= At(0, t.t_row + 1) + k => CleanFrom(r, k)
<1>1. t \in Terminals /\ t.t_row \in Nat /\ 0 \in Columns
  BY SizesAre DEF IsTerminal, Terminals, Columns
<1>2. CASE t.t_row + 1 = TERMINAL_HEIGHT
  <2>. DEFINE u == [t EXCEPT !.t_column = 0]
  <2>1. r = t_scroll(u)
    BY <1>2 DEF NextRow
  <2>2. u \in Terminals /\ u.t_column = 0 /\ u.t_row = t.t_row /\ u.t_view_offset = t.t_view_offset
        /\ u.t_screen = t.t_screen /\ u.t_scrollback = t.t_scrollback /\ u.t_buffer = t.t_buffer
    BY <1>1 DEF Terminals
  <2>. HIDE DEF u
  <2>3. IsTerminal(u) /\ Fresh(u)
    BY <2>2 DEF IsTerminal, Fresh
  <2>4. /\ IsTerminal(r) /\ Fresh(r)
        /\ r.t_screen = [y \in Rows |-> IF y = TERMINAL_HEIGHT - 1 THEN BlankRow ELSE u.t_screen[y + 1]]
        /\ r.t_row = TERMINAL_HEIGHT - 1 /\ r.t_column = u.t_column
        /\ r.t_view_offset = u.t_view_offset
    BY <2>1, <2>3, ScrollIs
  <2>5. ASSUME NEW k \in Nat PROVE CleanFrom(r, k)
    <3>1. ASSUME NEW x \in Columns, NEW y \in Rows, Place(r) + k <= At(x, y)
          PROVE  r.t_screen[y][x] = Blank
      <4>1. Place(r) = At(0, TERMINAL_HEIGHT - 1) /\ Place(r) \in Int /\ At(x, y) \in Int
        BY <2>2, <2>4, PlaceTyped, SizesAre, AtNext DEF Place, Columns, Rows
      <4>2. y = TERMINAL_HEIGHT - 1
        <5>1. At(0, TERMINAL_HEIGHT - 1) <= At(x, y)
          BY <3>1, <4>1
        <5>. QED
          BY <1>1, <5>1, AtOrder, SizesAre DEF Rows
      <4>3. r.t_screen[y] = BlankRow
        BY <2>4, <4>2
      <4>. QED
        BY <4>3 DEF BlankRow
    <3>. QED
      BY <3>1 DEF Clean, CleanFrom
  <2>6. r.t_row \in Rows
    BY <2>4, SizesAre DEF Rows
  <2>7. r.t_row <= t.t_row + 1
    BY <1>1, <1>2, <2>4, SizesAre
  <2>. QED
    BY <2>2, <2>4, <2>5, <2>6, <2>7
<1>3. CASE t.t_row + 1 # TERMINAL_HEIGHT
  <2>1. r = [t EXCEPT !.t_column = 0, !.t_row = @ + 1]
    BY <1>3 DEF NextRow
  <2>2. r \in Terminals /\ r.t_column = 0 /\ r.t_row = t.t_row + 1 /\ r.t_view_offset = t.t_view_offset
        /\ r.t_screen = t.t_screen /\ r.t_scrollback = t.t_scrollback /\ r.t_buffer = t.t_buffer
    <3>1. t.t_row + 1 \in Nat
      BY <1>1
    <3>2. PICK n \in Nat : n = t.t_row + 1
      BY <3>1
    <3>3. r = [t EXCEPT !.t_column = 0, !.t_row = n]
      BY <2>1, <3>2
    <3>. QED
      BY <1>1, <3>2, <3>3 DEF Terminals
  <2>3. IsTerminal(r) /\ Fresh(r)
    BY <2>2 DEF IsTerminal, Fresh
  <2>4. ASSUME NEW a \in Int, NEW k \in Nat, Clean(t, a), a <= At(0, t.t_row + 1) + k
        PROVE  CleanFrom(r, k)
    <3>1. Place(r) = At(0, t.t_row + 1) /\ Place(r) \in Int
      BY <2>2, <2>3, PlaceTyped DEF Place
    <3>2. Clean(r, a)
      BY <2>2, <2>4 DEF Clean
    <3>3. Place(r) + k \in Int /\ a <= Place(r) + k
      BY <2>4, <3>1
    <3>. QED
      BY <3>2, <3>3, CleanBehind DEF CleanFrom
  <2>5. t.t_row \in Rows => r.t_row \in Rows
    BY <1>1, <1>3, <2>2, SizesAre DEF Rows
  <2>6. r.t_row <= t.t_row + 1
    BY <1>1, <2>2
  <2>. QED
    BY <2>2, <2>3, <2>4, <2>5, <2>6
<1>. QED
  BY <1>2, <1>3

\* One character printed.
LEMMA CharIs ==
  ASSUME NEW t, IsTerminal(t), Fresh(t), NEW c, c \in Characters \/ c = NL,
         NEW r, r = t_putchar(t, c)
  PROVE  /\ IsTerminal(r) /\ Fresh(r) /\ r.t_view_offset = 0
         /\ r.cursor = <<r.t_column, r.t_row>>
         /\ t.t_row \in Rows => r.t_row \in Rows
         /\ Place(r) \in Int /\ Place(t) \in Int
         /\ c # NL => Place(r) <= Place(t) + 1
         /\ Leaves(r, t, 1)
<1>1. PICK b : b = t_scroll_to_bottom(t)
  OBVIOUS
<1>2. IsTerminal(b) /\ SameText(b, t) /\ b.t_view_offset = 0 /\ Fresh(b)
  BY <1>1, BottomIs DEF Fresh
<1>3. b \in Terminals /\ b.t_row \in Nat /\ b.t_column \in Columns /\ b.t_column \in Nat
  BY <1>2, SizesAre DEF IsTerminal, Terminals, Columns
<1>4. Place(b) = Place(t) /\ Place(b) \in Int
  BY <1>2, PlaceTyped DEF SameText, Place
<1>5. \A a \in Int : Clean(t, a) => Clean(b, a)
  BY <1>2 DEF SameText, Clean
<1>6. 0 \in Columns /\ 0 \in Int
  BY SizesAre DEF Columns
<1> DEFINE Result(n) ==
      /\ IsTerminal(n) /\ Fresh(n) /\ n.t_view_offset = 0
      /\ b.t_row \in Rows => n.t_row \in Rows
      /\ c # NL => Place(n) <= Place(b) + 1
      /\ Leaves(n, b, 1)
<1>7. \E n : Result(n) /\ r = vga_update_cursor(n, n.t_column, n.t_row)
  <2>1. CASE c = NL
    <3>1. PICK n : n = NextRow(b)
      OBVIOUS
    <3>2. Place(b) < At(0, b.t_row + 1) /\ At(0, b.t_row + 1) \in Int
      <4>1. ~(At(0, b.t_row + 1) <= Place(b))
        BY <1>3, <1>6, AtOrder DEF Place
      <4>2. PICK y \in Int : y = b.t_row + 1
        BY <1>3
      <4>3. At(0, b.t_row + 1) \in Int
        BY <1>6, <4>2, AtNext
      <4>. QED
        BY <1>4, <4>1, <4>3
    <3>3. /\ IsTerminal(n) /\ Fresh(n) /\ n.t_view_offset = 0
          /\ b.t_row \in Rows => n.t_row \in Rows
          /\ \A a \in Int, k \in Nat : Clean(b, a) /\ a <= At(0, b.t_row + 1) + k => CleanFrom(n, k)
      BY <1>2, <3>1, NextRowIs
    <3>5. Leaves(n, b, 1)
      <4>1. ASSUME NEW k \in Nat, CleanFrom(b, k) PROVE CleanFrom(n, Left(k, 1))
        <5>1. PICK j \in Nat : j = Left(k, 1) /\ k <= j + 1
          BY DEF Left
        <5>2. Place(b) + k \in Int /\ Place(b) + k <= At(0, b.t_row + 1) + j
          BY <1>4, <3>2, <5>1
        <5>. QED
          BY <3>3, <4>1, <5>1, <5>2 DEF CleanFrom
      <4>. QED
        BY <4>1 DEF Leaves
    <3>6. Result(n)
      BY <2>1, <3>3, <3>5
    <3>4. r = vga_update_cursor(n, n.t_column, n.t_row)
      BY <1>1, <2>1, <3>1 DEF t_putchar
    <3>. QED
      BY <3>4, <3>6
  <2>2. CASE c # NL
    <3>0. c \in Characters
      BY <2>2
    <3>1. PICK p, x, y : p = t_putentryat(b, c, x, y) /\ x = b.t_column /\ y = b.t_row
      OBVIOUS
    <3>2. /\ IsTerminal(p) /\ Fresh(p) /\ p.t_view_offset = 0
          /\ p.t_scrollback = b.t_scrollback /\ p.t_row = b.t_row /\ p.t_column = b.t_column
          /\ PutAt(p, b, c, x, y)
      BY <1>2, <3>0, <3>1, PutIs
    <3>3. p \in Terminals
      BY <3>2 DEF IsTerminal
    <3>4. Place(p) + 1 \in Int /\ Place(p) = Place(b)
      BY <1>4, <3>2 DEF Place
    <3>5. ASSUME NEW k \in Nat, CleanFrom(b, k), NEW j \in Nat, j = Left(k, 1)
          PROVE  Clean(p, Place(p) + 1 + j)
      <4>1. ASSUME NEW u \in Columns, NEW v \in Rows, Place(p) + 1 + j <= At(u, v)
            PROVE  p.t_screen[v][u] = Blank
        <5>1. At(u, v) \in Int /\ v \in Int
          BY SizesAre, AtNext DEF Columns, Rows
        <5>2. Place(b) + k <= At(u, v) /\ Place(b) # At(u, v)
          BY <1>4, <3>4, <3>5, <4>1, <5>1 DEF Left
        <5>3. b.t_screen[v][u] = Blank
          BY <3>5, <5>2 DEF Clean, CleanFrom
        <5>4. ~(v = b.t_row /\ u = b.t_column)
          BY <5>2 DEF Place
        <5>. QED
          BY <3>1, <3>2, <5>3, <5>4 DEF PutAt
      <4>. QED
        BY <4>1 DEF Clean
    <3>6. CASE b.t_column + 1 = TERMINAL_WIDTH
      <4>1. PICK n : n = NextRow(p)
        OBVIOUS
      <4>2. Place(p) + 1 = At(0, p.t_row + 1)
        <5>0. PICK h \in Int, l \in Int : h = b.t_column /\ l = b.t_row
          BY <1>3
        <5>1. Place(p) + 1 = At(b.t_column + 1, b.t_row)
          <6>1. At(h + 1, l) = At(h, l) + 1
            BY AtNext
          <6>. QED
            BY <3>2, <5>0, <6>1 DEF Place
        <5>2. At(TERMINAL_WIDTH, b.t_row) = At(0, b.t_row + 1)
          BY <1>3, SizesAre DEF At
        <5>. QED
          BY <3>2, <3>6, <5>1, <5>2
      <4>3. /\ IsTerminal(n) /\ Fresh(n) /\ n.t_view_offset = 0
            /\ p.t_row \in Rows => n.t_row \in Rows
            /\ n.t_column = 0 /\ n.t_row <= p.t_row + 1
            /\ \A a \in Int, k \in Nat : Clean(p, a) /\ a <= At(0, p.t_row + 1) + k => CleanFrom(n, k)
        BY <3>2, <4>1, NextRowIs
      <4>7. Leaves(n, b, 1)
        <5>1. ASSUME NEW k \in Nat, CleanFrom(b, k) PROVE CleanFrom(n, Left(k, 1))
          <6>1. PICK j \in Nat : j = Left(k, 1)
            BY DEF Left
          <6>2. Clean(p, Place(p) + 1 + j) /\ Place(p) + 1 + j \in Int
            BY <3>4, <3>5, <5>1, <6>1
          <6>3. Place(p) + 1 + j <= At(0, p.t_row + 1) + j
            BY <3>4, <4>2
          <6>. QED
            BY <4>3, <6>1, <6>2, <6>3
        <5>. QED
          BY <5>1 DEF Leaves
      <4>4. Place(n) <= Place(b) + 1
        <5>1. n.t_row \in Nat /\ p.t_row \in Nat
          BY <1>3, <3>2, <4>3 DEF IsTerminal, Terminals
        <5>2. At(0, n.t_row) <= At(0, p.t_row + 1)
          BY <1>6, <4>3, <5>1, AtOrder
        <5>. QED
          BY <3>4, <4>2, <4>3, <5>2 DEF Place
      <4>5. r = vga_update_cursor(n, n.t_column, n.t_row)
        BY <1>1, <2>2, <3>1, <3>6, <4>1 DEF t_putchar
      <4>6. b.t_row \in Rows => n.t_row \in Rows
        BY <3>2, <4>3
      <4>. QED
        BY <4>3, <4>4, <4>5, <4>6, <4>7
    <3>7. CASE b.t_column + 1 # TERMINAL_WIDTH
      <4>1. PICK n : n = [p EXCEPT !.t_column = @ + 1]
        OBVIOUS
      <4>2. b.t_column + 1 \in Columns
        BY <1>3, <3>7, SizesAre DEF Columns
      <4>3. n \in Terminals /\ n.t_column = b.t_column + 1 /\ n.t_row = b.t_row
            /\ n.t_screen = p.t_screen /\ n.t_scrollback = p.t_scrollback
            /\ n.t_view_offset = p.t_view_offset /\ n.t_buffer = p.t_buffer
        BY <3>2, <3>3, <4>1, <4>2 DEF Terminals
      <4>0. PICK h \in Int, l \in Int : h = b.t_column /\ l = b.t_row
        BY <1>3
      <4>4. Place(n) = Place(p) + 1
        <5>1. At(h + 1, l) = At(h, l) + 1
          BY AtNext
        <5>. QED
          BY <3>2, <4>0, <4>3, <5>1 DEF Place
      <4>5. IsTerminal(n) /\ Fresh(n)
        BY <3>2, <4>3 DEF IsTerminal, Fresh
      <4>6. Leaves(n, b, 1)
        <5>1. ASSUME NEW k \in Nat, CleanFrom(b, k) PROVE CleanFrom(n, Left(k, 1))
          <6>1. PICK j \in Nat : j = Left(k, 1)
            BY DEF Left
          <6>2. Clean(p, Place(p) + 1 + j)
            BY <3>5, <5>1, <6>1
          <6>. QED
            BY <4>3, <4>4, <6>1, <6>2 DEF Clean, CleanFrom
        <5>. QED
          BY <5>1 DEF Leaves
      <4>7. r = vga_update_cursor(n, n.t_column, n.t_row)
        BY <1>1, <2>2, <3>1, <3>7, <4>1 DEF t_putchar
      <4>8. Place(n) <= Place(b) + 1
        BY <3>4, <4>4
      <4>. QED
        BY <3>2, <4>3, <4>5, <4>6, <4>7, <4>8
    <3>. QED
      BY <3>6, <3>7
  <2>. QED
    BY <2>1, <2>2
<1>8. PICK n : Result(n) /\ r = vga_update_cursor(n, n.t_column, n.t_row)
  BY <1>7
<1>9. n \in Terminals /\ n.t_row \in Nat /\ n.t_column \in Nat
  BY <1>8, SizesAre DEF IsTerminal, Terminals, Columns
<1>10. /\ r \in Terminals /\ r.t_column = n.t_column /\ r.t_row = n.t_row
       /\ r.t_screen = n.t_screen /\ r.t_scrollback = n.t_scrollback
       /\ r.t_view_offset = n.t_view_offset /\ r.t_buffer = n.t_buffer
       /\ r.cursor = <<n.t_column, n.t_row>>
  BY <1>8, <1>9 DEF vga_update_cursor, Terminals
<1>11. IsTerminal(r) /\ Fresh(r)
  BY <1>8, <1>10 DEF IsTerminal, Fresh
<1>12. Place(r) = Place(n) /\ Place(n) \in Int
  BY <1>8, <1>10, PlaceTyped DEF Place
<1>13. Leaves(r, t, 1)
  <2>1. ASSUME NEW k \in Nat, CleanFrom(t, k) PROVE CleanFrom(r, Left(k, 1))
    <3>1. CleanFrom(b, k)
      BY <1>2, <1>4, <2>1 DEF SameText, Clean, CleanFrom
    <3>2. CleanFrom(n, Left(k, 1))
      BY <1>8, <3>1 DEF Leaves
    <3>. QED
      BY <1>10, <1>12, <3>2 DEF Clean, CleanFrom
  <2>. QED
    BY <2>1 DEF Leaves
<1>14. t.t_row = b.t_row
  BY <1>2 DEF SameText
<1>. QED
  BY <1>4, <1>5, <1>8, <1>10, <1>11, <1>12, <1>13, <1>14

(***************************************************************************)
(* A text printed.                                                         *)
(***************************************************************************)
LEMMA PrintReached ==
  ASSUME NEW t, NEW S, NEW text \in Seq(S)
  PROVE  t_print(t, text) = Reached("print", text, t, text, Len(text))
<1>1. DOMAIN text = 1..Len(text)
  OBVIOUS
<1>. QED
  BY <1>1 DEF t_print, FoldLeft, MapThenFoldSet, Reached, Way, IsWay, Further

LEMMA ScrolledReached ==
  ASSUME NEW t, NEW n \in Nat
  PROVE  Scrolled(t, n) = Reached("scroll", t, t, [i \in 1..n |-> i], n)
<1> DEFINE s == [i \in 1..n |-> i]
<1>1. s \in Seq(Nat) /\ Len(s) = n /\ DOMAIN s = 1..Len(s) /\ DOMAIN s = 1..n
  OBVIOUS
<1>. HIDE DEF s
<1>2. FoldLeft(LAMBDA u, i : t_scroll(u), t, s) = Reached("scroll", t, t, s, Len(s))
  BY <1>1 DEF FoldLeft, MapThenFoldSet, Reached, Way, IsWay, Further
<1>. QED
  BY <1>1, <1>2 DEF Scrolled, s

LEMMA DrawnReached ==
  ASSUME NEW t, NEW text, NEW from \in Nat, NEW prow, Len(text) - from \in Nat,
         NEW s, s = [k \in 1..(Len(text) - from) |-> from + k]
  PROVE  Drawn(t, text, from, prow) =
           Reached("draw", [text |-> text, col |-> prompt_col, row |-> prow], t, s, Len(text) - from)
<1> DEFINE line == [text |-> text, col |-> prompt_col, row |-> prow]
           n    == Len(text) - from
<1>. HIDE DEF n
<1>0. n \in Nat
  BY DEF n
<1>1. s \in Seq(Nat) /\ Len(s) = n /\ DOMAIN s = 1..Len(s)
  BY <1>0 DEF n
<1>2. line.text = text /\ line.col = prompt_col /\ line.row = prow
  OBVIOUS
<1>3. Drawn(t, text, from, prow) =
        FoldLeft(LAMBDA u, i : t_putentryat(u, line.text[i], Col(i - 1, line.col),
                                            Row(i - 1, line.col, line.row)), t, s)
  BY <1>2 DEF Drawn, n
<1>. HIDE DEF line
<1>4. FoldLeft(LAMBDA u, i : t_putentryat(u, line.text[i], Col(i - 1, line.col),
                                          Row(i - 1, line.col, line.row)), t, s)
        = Reached("draw", line, t, s, Len(s))
  BY <1>1 DEF FoldLeft, MapThenFoldSet, Reached, Way, IsWay, Further
<1>. QED
  BY <1>1, <1>3, <1>4 DEF line, n

\* What n printed characters keep: the place of the cursor, of the hardware's too, and what
\* is behind it.
Printed(r, t, n) ==
  /\ IsTerminal(r) /\ Fresh(r)
  /\ t.t_row \in Rows => r.t_row \in Rows
  /\ t.t_view_offset = 0 => r.t_view_offset = 0
  /\ t.cursor = <<t.t_column, t.t_row>> => r.cursor = <<r.t_column, r.t_row>>
  /\ Leaves(r, t, n)

LEMMA CharPrinted ==
  ASSUME NEW t, NEW u, NEW n \in Nat, Printed(u, t, n), NEW c, c \in Characters \/ c = NL,
         NEW r, r = t_putchar(u, c)
  PROVE  Printed(r, t, n + 1) /\ (c # NL => Place(r) <= Place(u) + 1)
<1>1. IsTerminal(u) /\ Fresh(u)
  BY DEF Printed
<1>2. /\ IsTerminal(r) /\ Fresh(r) /\ r.t_view_offset = 0
      /\ r.cursor = <<r.t_column, r.t_row>>
      /\ u.t_row \in Rows => r.t_row \in Rows
      /\ c # NL => Place(r) <= Place(u) + 1
      /\ Leaves(r, u, 1)
  BY <1>1, CharIs
<1>3. Leaves(u, t, n)
  BY DEF Printed
<1>4. Leaves(r, t, n + 1)
  BY <1>2, <1>3, LeavesMore
<1>. QED
  BY <1>2, <1>4 DEF Printed

LEMMA PrintIs ==
  ASSUME NEW t, IsTerminal(t), Fresh(t), NEW text \in Seq(Characters),
         NEW r, r = t_print(t, text)
  PROVE  /\ Printed(r, t, Len(text))
         /\ text \in Seq(Letters) => Place(r) <= Place(t) + Len(text)
<1> DEFINE R(n) == Reached("print", text, t, text, n)
           Bad  == {n \in 0..Len(text) :
                      ~(Printed(R(n), t, n) /\ (text \in Seq(Letters) => Place(R(n)) <= Place(t) + n))}
<1>0. Len(text) \in Nat
  OBVIOUS
<1>1. r = R(Len(text))
  BY PrintReached
<1>2. R(0) = t
  BY <1>0, ReachedFirst
<1>3. Printed(t, t, 0) /\ Place(t) \in Int
  <2>1. \A k \in Nat : Left(k, 0) = k
    BY DEF Left
  <2>. QED
    BY <2>1, PlaceTyped DEF Printed, Leaves
<1>4. 0 \notin Bad
  BY <1>2, <1>3
<1>5. ASSUME NEW n \in 1..Len(text), n - 1 \notin Bad
      PROVE  n \notin Bad
  <2>1. n - 1 \in 0..Len(text)
    BY <1>0
  <2>2. PICK k : k = n - 1
    OBVIOUS
  <2>3. PICK u : u = R(k)
    OBVIOUS
  <2>4. Printed(u, t, k) /\ (text \in Seq(Letters) => Place(u) <= Place(t) + k)
    BY <1>5, <2>1, <2>2, <2>3
  <2>5. PICK c : c = text[n]
    OBVIOUS
  <2>6. c \in Characters
    BY <2>5
  <2>7. R(n) = Further("print", text, R(k), text[n])
    BY <1>0, <2>2, ReachedNext, ZenonT(30)
  <2>8. PICK v : v = R(n)
    OBVIOUS
  <2>9. v = t_putchar(u, c)
    BY <2>3, <2>5, <2>7, <2>8 DEF Further
  <2>10. Printed(v, t, n) /\ (c # NL => Place(v) <= Place(u) + 1)
    <3>1. k \in Nat /\ k + 1 = n
      BY <1>0, <2>1, <2>2
    <3>. QED
      BY <2>4, <2>6, <2>9, <3>1, CharPrinted
  <2>11. Place(u) \in Int /\ Place(v) \in Int
    BY <2>4, <2>10, PlaceTyped DEF Printed
  <2>12. ASSUME text \in Seq(Letters) PROVE Place(v) <= Place(t) + n
    <3>1. c \in Letters /\ c # NL
      BY <2>5, <2>12, ShellAssumption
    <3>. QED
      BY <1>3, <2>2, <2>4, <2>10, <2>11, <2>12, <3>1
  <2>. QED
    BY <2>8, <2>10, <2>12
<1>6. Bad = {}
  <2>. SUFFICES ASSUME Bad # {} PROVE FALSE
    OBVIOUS
  <2>1. Bad \subseteq Nat
    BY <1>0
  <2>2. PICK n \in Bad : \A m \in Bad : n <= m
    <3>. HIDE DEF Bad
    <3>. QED
      BY <2>1, LeastNumber
  <2>3. n \in 0..Len(text) /\ n # 0
    BY <1>4, <2>2
  <2>. HIDE DEF Bad
  <2>4. n \in 1..Len(text) /\ n - 1 \in Int /\ ~(n <= n - 1)
    BY <1>0, <2>3
  <2>. QED
    BY <1>5, <2>2, <2>4
<1>7. Len(text) \notin Bad /\ Len(text) \in 0..Len(text)
  BY <1>0, <1>6
<1>. QED
  BY <1>1, <1>7

(***************************************************************************)
(* The line drawn in its place, and the screen scrolled to make room.      *)
(***************************************************************************)
LEMMA DivisionIs ==
  ASSUME NEW a \in Nat, NEW b \in Nat, b > 0
  PROVE  /\ a \div b \in Nat /\ a % b \in Nat /\ a % b < b
         /\ a = b * (a \div b) + (a % b)
OBVIOUS

LEMMA Division ==
  ASSUME NEW a \in Nat, NEW w \in Nat, w >= 1
  PROVE  a \div w \in Nat /\ a % w \in 0..(w - 1) /\ a = (a \div w) * w + (a % w)
<1> DEFINE q == a \div w
           m == a % w
<1>1. q \in Nat /\ m \in Nat /\ m < w /\ a = w * q + m
  BY DivisionIs
<1>. HIDE DEF q, m
<1>2. w * q = q * w
  BY <1>1
<1>3. q \in Nat /\ m \in 0..(w - 1) /\ a = q * w + m
  BY <1>1, <1>2
<1>. QED
  BY <1>3 DEF q, m

LEMMA PositionIs ==
  ASSUME NEW pos \in Nat, NEW pcol \in Columns, NEW prow \in Nat
  PROVE  /\ Col(pos, pcol) \in Columns /\ Row(pos, pcol, prow) \in Nat
         /\ Row(pos, pcol, prow) >= prow
         /\ At(Col(pos, pcol), Row(pos, pcol, prow)) = At(pcol, prow) + pos
<1> DEFINE W == TERMINAL_WIDTH
           q == (pcol + pos) \div W
           m == (pcol + pos) % W
<1>1. W \in Nat /\ W >= 1 /\ pcol \in Nat /\ pcol + pos \in Nat
  BY SizesAre DEF Columns
<1>. HIDE DEF W
<1>2. q \in Nat /\ m \in 0..(W - 1) /\ pcol + pos = q * W + m
  BY <1>1, Division
<1>3. Col(pos, pcol) = m /\ Row(pos, pcol, prow) = prow + q
  BY DEF Col, Row, W
<1>. HIDE DEF q, m
<1>4. (prow + q) * W + m = prow * W + pcol + pos
  <2>1. (prow + q) * W = prow * W + q * W /\ prow * W \in Int /\ q * W \in Int
    BY <1>1, <1>2
  <2>. QED
    BY <1>1, <1>2, <2>1
<1>. QED
  BY <1>1, <1>2, <1>3, <1>4 DEF At, Columns, W

\* r's screen is t's, but for text from place `from' to before `to' of a line that begins in cell a.
DrawnAt(r, t, a, text, from, to) ==
  \A u \in Columns, v \in Rows :
    r.t_screen[v][u] = IF a + from <= At(u, v) /\ At(u, v) < a + to THEN text[At(u, v) - a + 1]
                       ELSE t.t_screen[v][u]

\* The last cell of the screen.
OffScreen == TERMINAL_WIDTH * TERMINAL_HEIGHT

LEMMA OnScreenIs ==
  ASSUME NEW x \in Columns, NEW y \in Nat
  PROVE  y \in Rows <=> At(x, y) < OffScreen
<1>1. 0 \in Columns
  BY SizesAre DEF Columns
<1>2. At(0, TERMINAL_HEIGHT) = OffScreen /\ At(x, y) \in Int /\ At(0, TERMINAL_HEIGHT) \in Int
  BY SizesAre, AtNext DEF At, OffScreen, Columns
<1>3. At(0, TERMINAL_HEIGHT) <= At(x, y) <=> TERMINAL_HEIGHT <= y
  <2>1. At(0, TERMINAL_HEIGHT) <= At(x, y) <=> TERMINAL_HEIGHT < y \/ (TERMINAL_HEIGHT = y /\ 0 <= x)
    BY <1>1, SizesAre, AtOrder
  <2>. QED
    BY <2>1, SizesAre DEF Columns
<1>4. y \in Rows <=> ~(TERMINAL_HEIGHT <= y)
  BY SizesAre DEF Rows
<1>. QED
  BY <1>2, <1>3, <1>4

\* What drawing text from `from' on in a line that begins in cell a makes of t.
Drew(r, t, a, text, from) ==
  /\ IsTerminal(r) /\ Fresh(r)
  /\ r.t_scrollback = t.t_scrollback /\ r.t_row = t.t_row /\ r.t_column = t.t_column
  /\ DrawnAt(r, t, a, text, from, Len(text))
  /\ t.t_view_offset = 0 => r.t_view_offset = 0
  /\ from < Len(text) /\ a + from < OffScreen => r.t_view_offset = 0

LEMMA DrawnIs ==
  ASSUME NEW t, IsTerminal(t), Fresh(t), NEW text \in Seq(Characters), NEW from \in 0..Len(text),
         prompt_col \in Columns, NEW prow \in Nat, NEW r, r = Drawn(t, text, from, prow),
         NEW a, a = At(prompt_col, prow)
  PROVE  Drew(r, t, a, text, from)
<1> DEFINE line == [text |-> text, col |-> prompt_col, row |-> prow]
           s    == [k \in 1..(Len(text) - from) |-> from + k]
           m    == Len(text) - from
           R(n) == Reached("draw", line, t, s, n)
           Good(u, n) ==
             /\ IsTerminal(u) /\ Fresh(u)
             /\ u.t_scrollback = t.t_scrollback /\ u.t_row = t.t_row /\ u.t_column = t.t_column
             /\ DrawnAt(u, t, a, text, from, from + n)
             /\ t.t_view_offset = 0 => u.t_view_offset = 0
             /\ 0 < n /\ a + from < OffScreen => u.t_view_offset = 0
           Bad  == {n \in 0..m : ~Good(R(n), n)}
<1>0. m \in Nat /\ Len(text) \in Nat /\ from \in Nat /\ from + m = Len(text)
  OBVIOUS
<1>1. a \in Int
  BY SizesAre, AtNext DEF Columns
<1>2. Len(s) = m /\ s \in Seq(Nat)
  BY <1>0
<1>3. r = R(m)
  BY <1>0, DrawnReached
<1>4. \A u \in Columns, v \in Rows : At(u, v) \in Int /\ u \in Nat /\ v \in Nat
  BY SizesAre, AtNext DEF Columns, Rows
<1>5. \A i \in 1..m : s[i] = from + i
  OBVIOUS
<1>6. line.text = text /\ line.col = prompt_col /\ line.row = prow
  OBVIOUS
<1>. HIDE DEF s, line, m
<1>7. R(0) = t
  BY <1>0, <1>2, ReachedFirst
<1>8. Good(t, 0)
  BY <1>0, <1>1, <1>4 DEF DrawnAt
<1>9. ASSUME NEW n \in 1..m, n - 1 \notin Bad
      PROVE  n \notin Bad
  <2>1. n - 1 \in 0..m /\ n \in Nat /\ n - 1 \in Nat /\ from + n \in 1..Len(text) /\ from + n - 1 \in Nat
    BY <1>0, <1>9
  <2>2. PICK k \in Nat : k = n - 1
    BY <2>1
  <2>3. PICK u : u = R(k)
    OBVIOUS
  <2>4. Good(u, k)
    BY <1>9, <2>1, <2>2, <2>3
  <2>5. PICK p \in Nat : p = from + n - 1
    BY <2>1
  <2>6. PICK c, x, y : c = text[from + n] /\ x = Col(p, prompt_col) /\ y = Row(p, prompt_col, prow)
    OBVIOUS
  <2>7. c \in Characters
    BY <2>1, <2>6
  <2>8. R(n) = Further("draw", line, R(k), s[n])
    BY <1>0, <1>2, <2>2, ReachedNext, ZenonT(30)
  <2>9. PICK w : w = R(n)
    OBVIOUS
  <2>10. from + n - 1 = p /\ s[n] = from + n
    BY <1>5, <2>5
  <2>11. w = t_putentryat(u, c, x, y)
    BY <1>6, <2>3, <2>6, <2>8, <2>9, <2>10 DEF Further
  <2>12. /\ IsTerminal(w) /\ Fresh(w)
         /\ w.t_scrollback = u.t_scrollback /\ w.t_row = u.t_row /\ w.t_column = u.t_column
         /\ PutAt(w, u, c, x, y)
         /\ OnScreen(x, y) => w.t_view_offset = 0
         /\ ~OnScreen(x, y) => w = u
    BY <2>4, <2>7, <2>11, PutIs
  <2>13. x \in Columns /\ y \in Nat /\ At(x, y) = a + p
    BY <2>6, PositionIs
  <2>14. DrawnAt(w, t, a, text, from, from + n)
    <3>1. ASSUME NEW i \in Columns, NEW j \in Rows
          PROVE  w.t_screen[j][i] = IF a + from <= At(i, j) /\ At(i, j) < a + (from + n)
                                    THEN text[At(i, j) - a + 1] ELSE t.t_screen[j][i]
      <4>1. PICK b \in Int : b = At(i, j)
        BY <1>4
      <4>2. u.t_screen[j][i] = IF a + from <= b /\ b < a + (from + k)
                               THEN text[b - a + 1] ELSE t.t_screen[j][i]
        BY <2>4, <4>1 DEF DrawnAt
      <4>3. w.t_screen[j][i] = IF i = x /\ j = y THEN c ELSE u.t_screen[j][i]
        BY <2>12 DEF PutAt
      <4>4. CASE i = x /\ j = y
        <5>1. b = a + p /\ b - a + 1 = from + n /\ a + from <= b /\ b < a + (from + n)
          BY <1>0, <1>1, <2>1, <2>5, <2>13, <4>1, <4>4, SMTT(30)
        <5>. QED
          BY <2>6, <4>1, <4>3, <4>4, <5>1
      <4>5. CASE ~(i = x /\ j = y)
        <5>1. b # a + p
          <6>1. j \in Int /\ y \in Int
            BY <1>4, <2>13
          <6>. QED
            BY <2>13, <4>1, <4>5, <6>1, AtOne
        <5>2. b < a + (from + k) <=> b < a + (from + n)
          BY <1>0, <1>1, <2>1, <2>2, <2>5, <5>1
        <5>. QED
          BY <4>1, <4>2, <4>3, <4>5, <5>2
      <4>. QED
        BY <4>4, <4>5
    <3>. QED
      BY <3>1 DEF DrawnAt
  <2>15. ASSUME t.t_view_offset = 0 PROVE w.t_view_offset = 0
    BY <2>4, <2>12, <2>15
  <2>16. ASSUME a + from < OffScreen PROVE w.t_view_offset = 0
    <3>1. CASE n = 1
      <4>1. At(x, y) < OffScreen
        BY <2>5, <2>13, <2>16, <3>1, <1>0
      <4>2. OnScreen(x, y)
        BY <2>13, <4>1, OnScreenIs DEF OnScreen
      <4>. QED
        BY <2>12, <4>2
    <3>2. CASE n # 1
      <4>1. 0 < k
        BY <2>1, <2>2, <3>2
      <4>. QED
        BY <2>4, <2>12, <2>16, <4>1
    <3>. QED
      BY <3>1, <3>2
  <2>17. Good(w, n)
    BY <2>4, <2>12, <2>14, <2>15, <2>16
  <2>. QED
    BY <2>9, <2>17
<1>. HIDE DEF Good
<1>10. Bad = {}
  <2>. SUFFICES ASSUME Bad # {} PROVE FALSE
    OBVIOUS
  <2>1. Bad \subseteq Nat
    BY <1>0
  <2>2. PICK n \in Bad : \A i \in Bad : n <= i
    <3>. HIDE DEF Bad
    <3>. QED
      BY <2>1, LeastNumber
  <2>3. n \in 0..m /\ n # 0
    BY <1>7, <1>8, <2>2
  <2>. HIDE DEF Bad
  <2>4. n \in 1..m /\ n - 1 \in Int /\ ~(n <= n - 1)
    BY <1>0, <2>3
  <2>. QED
    BY <1>9, <2>2, <2>4
<1>11. Good(r, m)
  BY <1>0, <1>3, <1>10
<1>12. from < Len(text) => 0 < m
  BY <1>0
<1>. QED
  BY <1>0, <1>11, <1>12 DEF Good, Drew

\* Row number j of t, scrollback included, from 1 on.
RowOf(t, j) == IF j <= Len(t.t_scrollback) THEN t.t_scrollback[j]
               ELSE t.t_screen[j - Len(t.t_scrollback) - 1]

\* r's screen is t's moved up n rows.
MovedUp(r, t, n) ==
  \A u \in Columns, v \in Rows :
    r.t_screen[v][u] = IF v + n < TERMINAL_HEIGHT THEN t.t_screen[v + n][u] ELSE Blank

\* r's scrollback is t's and the n rows that left the screen, d of the oldest dropped.
Kept(r, t, n, d) ==
  /\ Len(r.t_scrollback) + d = Len(t.t_scrollback) + n
  /\ \A k \in 1..Len(r.t_scrollback) : r.t_scrollback[k] = RowOf(t, k + d)

\* A whole row that moves up is the same row.
RowsUp(r, t, n) ==
  \A v \in Rows : v + n < TERMINAL_HEIGHT => r.t_screen[v] = t.t_screen[v + n]

LEMMA ScrollAgain ==
  ASSUME NEW t, IsTerminal(t), NEW u, IsTerminal(u), Fresh(u), NEW n \in Nat,
         MovedUp(u, t, n), RowsUp(u, t, n), NEW r, r = t_scroll(u)
  PROVE  /\ IsTerminal(r) /\ Fresh(r) /\ r.t_column = u.t_column
         /\ r.t_view_offset = u.t_view_offset
         /\ MovedUp(r, t, n + 1) /\ RowsUp(r, t, n + 1)
         /\ n < TERMINAL_HEIGHT => \A d \in 0..n : Kept(u, t, n, d) =>
                                     \E e \in 0..(n + 1) : Kept(r, t, n + 1, e)
<1>1. /\ IsTerminal(r) /\ Fresh(r)
      /\ r.t_screen = [y \in Rows |-> IF y = TERMINAL_HEIGHT - 1 THEN BlankRow ELSE u.t_screen[y + 1]]
      /\ r.t_row = TERMINAL_HEIGHT - 1 /\ r.t_column = u.t_column
      /\ r.t_view_offset = u.t_view_offset
      /\ Pushed(r.t_scrollback, u.t_scrollback, u.t_screen[0])
  BY ScrollIs
<1>2. \A y \in Rows : y \in Nat /\ y < TERMINAL_HEIGHT /\ (y # TERMINAL_HEIGHT - 1 => y + 1 \in Rows)
  BY SizesAre DEF Rows
<1>3. MovedUp(r, t, n + 1)
  <2>1. ASSUME NEW x \in Columns, NEW y \in Rows
        PROVE  r.t_screen[y][x] = IF y + (n + 1) < TERMINAL_HEIGHT THEN t.t_screen[y + (n + 1)][x] ELSE Blank
    <3>1. CASE y = TERMINAL_HEIGHT - 1
      <4>1. r.t_screen[y][x] = Blank
        BY <1>1, <3>1 DEF BlankRow
      <4>2. ~(y + (n + 1) < TERMINAL_HEIGHT)
        BY <1>2, <3>1, SizesAre
      <4>. QED
        BY <4>1, <4>2
    <3>2. CASE y # TERMINAL_HEIGHT - 1
      <4>1. r.t_screen[y][x] = u.t_screen[y + 1][x]
        BY <1>1, <3>2
      <4>2. (y + 1) + n = y + (n + 1) /\ y + 1 \in Rows
        BY <1>2, <3>2
      <4>. QED
        BY <4>1, <4>2 DEF MovedUp
    <3>. QED
      BY <3>1, <3>2
  <2>. QED
    BY <2>1 DEF MovedUp
<1>4. RowsUp(r, t, n + 1)
  <2>1. ASSUME NEW y \in Rows, y + (n + 1) < TERMINAL_HEIGHT
        PROVE  r.t_screen[y] = t.t_screen[y + (n + 1)]
    <3>1. y # TERMINAL_HEIGHT - 1 /\ (y + 1) + n = y + (n + 1) /\ y + 1 \in Rows
      BY <1>2, <2>1, SizesAre
    <3>2. r.t_screen[y] = u.t_screen[y + 1]
      BY <1>1, <3>1
    <3>. QED
      BY <2>1, <3>1, <3>2 DEF RowsUp
  <2>. QED
    BY <2>1 DEF RowsUp
<1>5. ASSUME n < TERMINAL_HEIGHT, NEW d \in 0..n, Kept(u, t, n, d)
      PROVE  \E e \in 0..(n + 1) : Kept(r, t, n + 1, e)
  <2>. DEFINE A == r.t_scrollback
              B == u.t_scrollback
              C == t.t_scrollback
  <2>1. A \in Seq(CellRows) /\ B \in Seq(CellRows) /\ C \in Seq(CellRows)
    BY <1>1 DEF IsTerminal, Terminals
  <2>2. Len(A) \in Nat /\ Len(B) \in Nat /\ Len(C) \in Nat
    BY <2>1
  <2>3. Len(B) + d = Len(C) + n /\ \A k \in 1..Len(B) : B[k] = RowOf(t, k + d)
    BY <1>5 DEF Kept
  <2>4. PICK f \in {0, 1} : /\ Len(A) + f = Len(B) + 1
                            /\ \A k \in 1..Len(A) : A[k] = Append(B, u.t_screen[0])[k + f]
    BY <1>1 DEF Pushed
  <2>5. u.t_screen[0] = t.t_screen[n]
    <3>1. 0 \in Rows /\ 0 + n = n
      BY SizesAre DEF Rows
    <3>. QED
      BY <1>5, <3>1 DEF RowsUp
  <2>. PICK la \in Nat, lb \in Nat, lc \in Nat : la = Len(A) /\ lb = Len(B) /\ lc = Len(C)
    BY <2>2
  <2>. HIDE DEF A, B, C
  <2>6. d + f \in 0..(n + 1) /\ la + (d + f) = lc + (n + 1)
    <3>1. f = 0 \/ f = 1
      OBVIOUS
    <3>2. lb + d = lc + n /\ la + f = lb + 1 /\ d \in 0..n
      BY <2>3, <2>4
    <3>. QED
      BY <3>1, <3>2
  <2>7. ASSUME NEW k \in 1..Len(A) PROVE A[k] = RowOf(t, k + (d + f))
    <3>0. k \in 1..la /\ k \in Int
      OBVIOUS
    <3>1. A[k] = Append(B, t.t_screen[n])[k + f]
      BY <2>4, <2>5
    <3>2. CASE k + f <= lb
      <4>1. k + f \in 1..lb /\ (k + f) + d = k + (d + f)
        BY <2>4, <3>0, <3>2
      <4>2. A[k] = B[k + f]
        BY <2>1, <3>1, <4>1
      <4>. QED
        BY <2>3, <4>1, <4>2
    <3>3. CASE ~(k + f <= lb)
      <4>1. k + f = lb + 1
        BY <2>4, <3>0, <3>3
      <4>2. A[k] = t.t_screen[n]
        BY <2>1, <3>1, <4>1
      <4>3. k + (d + f) = lc + n + 1
        <5>1. lb + d = lc + n /\ lb \in Int /\ lc \in Int /\ d \in Int /\ n \in Int /\ f \in Int
          BY <2>3, <2>4
        <5>. QED
          BY <3>0, <4>1, <5>1
      <4>4. PICK i \in Int : i = k + (d + f) /\ i = lc + n + 1
        BY <4>3
      <4>5. ~(i <= lc) /\ i - lc - 1 = n
        BY <4>4
      <4>6. RowOf(t, i) = t.t_screen[n]
        BY <4>5 DEF RowOf, C
      <4>. QED
        BY <4>2, <4>4, <4>6
    <3>. QED
      BY <3>2, <3>3
  <2>8. Kept(r, t, n + 1, d + f)
    BY <2>6, <2>7 DEF Kept, A, C
  <2>. QED
    BY <2>6, <2>8
<1>. QED
  BY <1>1, <1>3, <1>4, <1>5

LEMMA ScrolledIs ==
  ASSUME NEW t, IsTerminal(t), Fresh(t), NEW n \in Nat, NEW r, r = Scrolled(t, n)
  PROVE  /\ IsTerminal(r) /\ Fresh(r) /\ r.t_view_offset = t.t_view_offset
         /\ n = 0 => r = t
         /\ MovedUp(r, t, n)
         /\ n <= TERMINAL_HEIGHT => RowsUp(r, t, n) /\ \E d \in 0..n : Kept(r, t, n, d)
<1> DEFINE s == [i \in 1..n |-> i]
           R(k) == Reached("scroll", t, t, s, k)
           Good(u, k) ==
             /\ IsTerminal(u) /\ Fresh(u) /\ u.t_view_offset = t.t_view_offset
             /\ MovedUp(u, t, k) /\ RowsUp(u, t, k)
             /\ k <= TERMINAL_HEIGHT => \E d \in 0..k : Kept(u, t, k, d)
           Bad  == {k \in 0..n : ~Good(R(k), k)}
<1>1. Len(s) = n
  OBVIOUS
<1>2. r = R(n)
  BY ScrolledReached
<1>. HIDE DEF s
<1>3. R(0) = t
  BY <1>1, ReachedFirst
<1>4. Good(t, 0)
  <2>1. \A y \in Rows : y \in Nat /\ y + 0 = y /\ y < TERMINAL_HEIGHT
    BY SizesAre DEF Rows
  <2>2. MovedUp(t, t, 0) /\ RowsUp(t, t, 0)
    BY <2>1 DEF MovedUp, RowsUp
  <2>3. Kept(t, t, 0, 0)
    <3>1. Len(t.t_scrollback) \in Nat
      BY DEF IsTerminal, Terminals
    <3>2. \A k \in 1..Len(t.t_scrollback) : k + 0 = k /\ k <= Len(t.t_scrollback)
      BY <3>1
    <3>. QED
      BY <3>1, <3>2 DEF Kept, RowOf
  <2>. QED
    BY <2>2, <2>3
<1>5. ASSUME NEW k \in 1..n, k - 1 \notin Bad
      PROVE  k \notin Bad
  <2>1. k - 1 \in 0..n /\ k \in Nat
    BY <1>5
  <2>2. PICK j \in Nat : j = k - 1 /\ k = j + 1
    BY <1>5
  <2>3. PICK u : u = R(j)
    OBVIOUS
  <2>4. Good(u, j)
    BY <1>5, <2>1, <2>2, <2>3
  <2>5. R(k) = Further("scroll", t, R(j), s[k])
    <3>1. Len(s) \in Nat /\ k \in 1..Len(s)
      BY <1>1
    <3>. HIDE DEF Good, Bad
    <3>2. Reached("scroll", t, t, s, k) = Further("scroll", t, Reached("scroll", t, t, s, j), s[k])
      <4>1. j = k - 1
        BY <2>2
      <4>2. PICK steps : steps = s
        OBVIOUS
      <4>3. Len(steps) \in Nat /\ k \in 1..Len(steps)
        BY <3>1, <4>2
      <4>4. Reached("scroll", t, t, steps, k) = Further("scroll", t, Reached("scroll", t, t, steps, j), steps[k])
        BY <4>1, <4>3, ReachedNext, ZenonT(30)
      <4>. QED
        BY <4>2, <4>4
    <3>. QED
      BY <3>2
  <2>6. PICK w : w = R(k)
    OBVIOUS
  <2>7. w = t_scroll(u)
    BY <2>3, <2>5, <2>6 DEF Further
  <2>8. /\ IsTerminal(w) /\ Fresh(w) /\ w.t_view_offset = u.t_view_offset
        /\ MovedUp(w, t, j + 1) /\ RowsUp(w, t, j + 1)
        /\ j < TERMINAL_HEIGHT => \A d \in 0..j : Kept(u, t, j, d) =>
                                    \E e \in 0..(j + 1) : Kept(w, t, j + 1, e)
    BY <2>4, <2>7, ScrollAgain
  <2>9. ASSUME k <= TERMINAL_HEIGHT PROVE \E d \in 0..k : Kept(w, t, k, d)
    <3>1. j < TERMINAL_HEIGHT /\ j <= TERMINAL_HEIGHT
      BY <2>2, <2>9, SizesAre
    <3>2. PICK d \in 0..j : Kept(u, t, j, d)
      BY <2>4, <3>1
    <3>. QED
      BY <2>2, <2>8, <3>1, <3>2
  <2>10. Good(w, k)
    BY <2>2, <2>4, <2>8, <2>9
  <2>. QED
    BY <2>6, <2>10
<1>. HIDE DEF Good
<1>6. Bad = {}
  <2>. SUFFICES ASSUME Bad # {} PROVE FALSE
    OBVIOUS
  <2>1. Bad \subseteq Nat
    OBVIOUS
  <2>2. PICK k \in Bad : \A i \in Bad : k <= i
    <3>. HIDE DEF Bad
    <3>. QED
      BY <2>1, LeastNumber
  <2>3. k \in 0..n /\ k # 0
    BY <1>3, <1>4, <2>2
  <2>. HIDE DEF Bad
  <2>4. k \in 1..n /\ k - 1 \in Int /\ ~(k <= k - 1)
    BY <2>3
  <2>. QED
    BY <1>5, <2>2, <2>4
<1>7. Good(r, n)
  BY <1>2, <1>6
<1>. QED
  BY <1>2, <1>3, <1>7 DEF Good

(***************************************************************************)
(* The line editor.                                                        *)
(***************************************************************************)
Sane(t) == IsTerminal(t) /\ Fresh(t)

\* The cell in which the line begins, once its prompt is in row prow.
StartAt(prow) == At(prompt_col, prow)
InputStart    == StartAt(prompt_row)

\* The cells of text, which begins in cell a, show it.
Written(t, a, text) ==
  \A u \in Columns, v \in Rows :
    a <= At(u, v) /\ At(u, v) < a + Len(text) => t.t_screen[v][u] = text[At(u, v) - a + 1]

\* A line that begins in cell a is on display, with the cursor behind pos characters of it.
InPlace(t, a, text, pos) ==
  /\ t.t_buffer = View(t)
  /\ a + Len(text) < OffScreen
  /\ Place(t) = a + pos
  /\ Written(t, a, text)
  /\ t.t_view_offset = 0 => t.cursor = <<t.t_column, t.t_row>>

\* Nothing stands behind a line of len characters, nor so far behind the cursor.
Tidy(t, a, len, pos) == Clean(t, a + len) /\ CleanFrom(t, len - pos)

Counters ==
  /\ buffer_len \in 0..(BUFFER_SIZE - 1) /\ cursor_pos \in 0..buffer_len
  /\ input_buffer \in Seq(Letters) /\ buffer_len <= Len(input_buffer)
  /\ prompt_col \in Columns /\ prompt_row \in Nat
  /\ collecting \in BOOLEAN /\ listed \in BOOLEAN /\ stray \in BOOLEAN

ShellInv ==
  /\ Counters
  /\ Sane(term)
  /\ ~listed => InPlace(term, InputStart, Line, cursor_pos)
  /\ ~stray => Tidy(term, InputStart, buffer_len, cursor_pos)

LEMMA StartTyped ==
  ASSUME prompt_col \in Columns, NEW prow \in Nat
  PROVE  StartAt(prow) \in Int /\ StartAt(prow) >= 0
<1>1. prompt_col \in Nat
  BY SizesAre DEF Columns
<1>2. prow * TERMINAL_WIDTH \in Nat
  BY SizesAre
<1>. QED
  BY <1>1, <1>2 DEF StartAt, At

LEMMA LineTyped ==
  ASSUME Counters
  PROVE  /\ Line \in Seq(Letters) /\ Len(Line) = buffer_len
         /\ \A i \in 1..buffer_len : Line[i] = input_buffer[i]
BY DEF Counters, Line

\* A full line has room on the screen, wherever in a row it begins.
LEMMA LineFits ==
  ASSUME NEW pcol \in Columns, NEW len \in 0..(BUFFER_SIZE - 1)
  PROVE  (pcol + len) \div TERMINAL_WIDTH \in 0..(TERMINAL_HEIGHT - 1)
<1> DEFINE W == TERMINAL_WIDTH
           q == (pcol + len) \div W
           m == (pcol + len) % W
<1>1. W \in Nat /\ W >= 1 /\ pcol \in Nat /\ pcol <= W - 1 /\ pcol + len \in Nat
  BY SizesAre DEF Columns
<1>2. pcol + len < W * TERMINAL_HEIGHT
  <2>1. W * TERMINAL_HEIGHT \in Int /\ len \in Int /\ len <= BUFFER_SIZE - 1
    BY SizesAre
  <2>2. W + BUFFER_SIZE <= W * TERMINAL_HEIGHT + 1
    BY SizesAre
  <2>. QED
    BY <1>1, <2>1, <2>2, SizesAre
<1>. HIDE DEF W
<1>3. q \in Nat /\ m \in 0..(W - 1) /\ pcol + len = q * W + m
  BY <1>1, Division
<1>4. W * TERMINAL_HEIGHT = TERMINAL_HEIGHT * W
  BY <1>1, SizesAre
<1>. HIDE DEF q, m
<1>5. ~(TERMINAL_HEIGHT <= q)
  <2>1. ASSUME TERMINAL_HEIGHT <= q PROVE FALSE
    <3>1. TERMINAL_HEIGHT * W <= q * W
      BY <1>1, <1>3, <2>1, SizesAre, Times
    <3>2. q * W \in Int /\ TERMINAL_HEIGHT * W \in Int
      BY <1>1, <1>3, SizesAre
    <3>. QED
      BY <1>2, <1>3, <1>4, <3>1, <3>2
  <2>. QED
    BY <2>1
<1>. QED
  BY <1>3, <1>5, SizesAre DEF q, W

LEMMA EnsureIs ==
  ASSUME prompt_col \in Columns, NEW prow \in Nat, NEW len \in 0..(BUFFER_SIZE - 1),
         NEW see, see = shell_ensure_input_visible(prompt_col, prow, len)
  PROVE  /\ see.scrolls \in Nat /\ see.row \in Nat /\ see.row + see.scrolls = prow
         /\ see.scrolls <= TERMINAL_HEIGHT \/ prow >= TERMINAL_HEIGHT
         /\ Row(len, prompt_col, see.row) \in Rows
         /\ StartAt(see.row) + len < OffScreen
         /\ StartAt(see.row) = StartAt(prow) - see.scrolls * TERMINAL_WIDTH
         /\ StartAt(prow) + len < OffScreen => see.scrolls = 0
<1> DEFINE q == (prompt_col + len) \div TERMINAL_WIDTH
           n == (prow + q) - (TERMINAL_HEIGHT - 1)
<1>1. q \in 0..(TERMINAL_HEIGHT - 1)
  BY LineFits
<1>2. see = IF n <= 0 THEN [scrolls |-> 0, row |-> prow]
            ELSE [scrolls |-> n, row |-> IF prow > n THEN prow - n ELSE 0]
  <2>1. Row(len, prompt_col, prow) - (TERMINAL_HEIGHT - 1) = n
    BY Zenon DEF Row
  <2>. HIDE DEF n
  <2>. QED
    BY <2>1, Zenon DEF shell_ensure_input_visible
<1>. HIDE DEF q
<1>3. /\ see.scrolls \in Nat /\ see.row \in Nat /\ see.row + see.scrolls = prow
      /\ see.row + q <= TERMINAL_HEIGHT - 1
      /\ see.scrolls <= TERMINAL_HEIGHT \/ prow >= TERMINAL_HEIGHT
  BY <1>1, <1>2, SizesAre
<1>4. PICK row \in Nat, k \in Nat : row = see.row /\ k = see.scrolls /\ row + k = prow
  BY <1>3
<1>5. Row(len, prompt_col, row) \in Rows
  BY <1>1, <1>3, <1>4, SizesAre DEF Row, Rows, q
<1>6. At(prompt_col, row) + len < OffScreen
  <2>1. len \in Nat
    OBVIOUS
  <2>2. PICK x, y : x = Col(len, prompt_col) /\ y = Row(len, prompt_col, row)
    OBVIOUS
  <2>3. x \in Columns /\ y \in Nat /\ At(x, y) = At(prompt_col, row) + len
    BY <2>1, <2>2, PositionIs
  <2>. QED
    BY <1>5, <2>2, <2>3, OnScreenIs
<1>7. At(prompt_col, row) = At(prompt_col, prow) - k * TERMINAL_WIDTH
  <2>1. prompt_col \in Int /\ TERMINAL_WIDTH \in Int
    BY SizesAre DEF Columns
  <2>2. prow * TERMINAL_WIDTH = row * TERMINAL_WIDTH + k * TERMINAL_WIDTH
    BY <1>4, <2>1
  <2>3. row * TERMINAL_WIDTH \in Int /\ k * TERMINAL_WIDTH \in Int
    BY <2>1
  <2>. QED
    BY <2>1, <2>2, <2>3 DEF At
<1>8. ASSUME At(prompt_col, prow) + len < OffScreen PROVE see.scrolls = 0
  <2>1. len \in Nat
    OBVIOUS
  <2>2. PICK x, y : x = Col(len, prompt_col) /\ y = Row(len, prompt_col, prow)
    OBVIOUS
  <2>3. x \in Columns /\ y \in Nat /\ At(x, y) = At(prompt_col, prow) + len
    BY <2>1, <2>2, PositionIs
  <2>4. y \in Rows
    BY <1>8, <2>3, OnScreenIs
  <2>5. y = prow + q
    BY <2>2 DEF Row, q
  <2>6. prow + q <= TERMINAL_HEIGHT - 1 /\ q \in Nat
    BY <1>1, <2>4, <2>5, SizesAre DEF Rows
  <2>7. n <= 0
    BY <2>6, SizesAre
  <2>. QED
    BY <1>2, <2>7
<1>. QED
  BY <1>3, <1>4, <1>5, <1>6, <1>7, <1>8 DEF StartAt

CursorShown(t) == t.cursor = <<t.t_column, t.t_row>>

MovedTo(t, x, y) == [t EXCEPT !.t_column = x, !.t_row = y]

LEMMA CursorIs ==
  ASSUME NEW t, Sane(t), NEW x \in Columns, NEW y \in Nat,
         NEW u, u = MovedTo(t, x, y), NEW r, r = vga_update_cursor(u, x, y)
  PROVE  /\ Sane(r) /\ r.t_screen = t.t_screen /\ r.t_scrollback = t.t_scrollback
         /\ r.t_view_offset = t.t_view_offset /\ r.t_buffer = t.t_buffer /\ View(r) = View(t)
         /\ r.t_column = x /\ r.t_row = y /\ CursorShown(r)
<1>1. t \in Terminals /\ x \in Nat
  BY SizesAre DEF Sane, IsTerminal, Terminals, Columns
<1>2. /\ r \in Terminals /\ r.t_screen = t.t_screen /\ r.t_scrollback = t.t_scrollback
      /\ r.t_view_offset = t.t_view_offset /\ r.t_buffer = t.t_buffer
      /\ r.t_column = x /\ r.t_row = y /\ CursorShown(r)
  BY <1>1 DEF vga_update_cursor, MovedTo, CursorShown, Terminals
<1>3. View(r) = View(t)
  BY <1>2 DEF View
<1>. QED
  BY <1>2, <1>3 DEF Sane, IsTerminal, Fresh

\* The cursor moved to cell p.
CursorMoved(r, t, p) ==
  /\ Sane(r) /\ r.t_screen = t.t_screen /\ r.t_scrollback = t.t_scrollback
  /\ r.t_view_offset = t.t_view_offset /\ r.t_buffer = t.t_buffer /\ View(r) = View(t)
  /\ Place(r) = p /\ CursorShown(r)

\* The cursor moved behind the first pos characters of the line.
LEMMA MoveIs ==
  ASSUME NEW t, Sane(t), prompt_col \in Columns, NEW prow \in Nat, NEW pos \in Nat,
         NEW r, r = shell_move_cursor_to(t, pos, prow)
  PROVE  CursorMoved(r, t, StartAt(prow) + pos)
<1>1. PICK x, y : x = Col(pos, prompt_col) /\ y = Row(pos, prompt_col, prow)
  OBVIOUS
<1>2. x \in Columns /\ y \in Nat /\ At(x, y) = At(prompt_col, prow) + pos
  BY <1>1, PositionIs
<1>3. PICK u : u = MovedTo(t, x, y)
  OBVIOUS
<1>5. r = vga_update_cursor(u, x, y)
  BY <1>1, <1>3 DEF shell_move_cursor_to, MovedTo
<1>4. /\ Sane(r) /\ r.t_screen = t.t_screen /\ r.t_scrollback = t.t_scrollback
      /\ r.t_view_offset = t.t_view_offset /\ r.t_buffer = t.t_buffer /\ View(r) = View(t)
      /\ r.t_column = x /\ r.t_row = y /\ CursorShown(r)
  <2>1. x \in Columns /\ y \in Nat
    BY <1>2
  <2>2. Sane(t) /\ u = MovedTo(t, x, y) /\ r = vga_update_cursor(u, x, y)
    BY <1>3, <1>5
  <2>3. Sane(r)
    BY <2>1, <2>2, CursorIs
  <2>4. r.t_screen = t.t_screen /\ r.t_scrollback = t.t_scrollback
    BY <2>1, <2>2, CursorIs
  <2>5. r.t_view_offset = t.t_view_offset /\ r.t_buffer = t.t_buffer
    BY <2>1, <2>2, CursorIs
  <2>6. View(r) = View(t)
    BY <2>1, <2>2, CursorIs
  <2>7. r.t_column = x /\ r.t_row = y
    BY <2>1, <2>2, CursorIs
  <2>8. CursorShown(r)
    BY <2>1, <2>2, CursorIs
  <2>. QED
    BY <2>3, <2>4, <2>5, <2>6, <2>7, <2>8
<1>. QED
  BY <1>2, <1>4 DEF Place, StartAt, CursorMoved

\* n rows further up a cell's number is smaller by n rows.
LEMMA AtRowsUp ==
  ASSUME NEW x \in Columns, NEW y \in Rows, NEW n \in Nat
  PROVE  /\ At(x, y) \in Int /\ n * TERMINAL_WIDTH \in Int
         /\ At(x, y + n) = At(x, y) + n * TERMINAL_WIDTH
         /\ y + n < TERMINAL_HEIGHT => y + n \in Rows
         /\ ~(y + n < TERMINAL_HEIGHT) => At(x, y + n) >= OffScreen
<1>1. x \in Int /\ y \in Nat /\ y + n \in Nat /\ TERMINAL_WIDTH \in Nat
  BY SizesAre DEF Columns, Rows
<1>2. (y + n) * TERMINAL_WIDTH = y * TERMINAL_WIDTH + n * TERMINAL_WIDTH
      /\ y * TERMINAL_WIDTH \in Int /\ n * TERMINAL_WIDTH \in Int
  BY <1>1
<1>3. At(x, y + n) = At(x, y) + n * TERMINAL_WIDTH /\ At(x, y) \in Int
  BY <1>1, <1>2 DEF At
<1>4. PICK z \in Nat : z = y + n
  BY <1>1
<1>5. z \in Rows <=> At(x, z) < OffScreen
  BY OnScreenIs
<1>6. z \in Rows <=> z < TERMINAL_HEIGHT
  BY SizesAre DEF Rows
<1>7. At(x, z) \in Int /\ OffScreen \in Int
  BY <1>2, <1>3, <1>4, SizesAre DEF OffScreen
<1>. QED
  BY <1>2, <1>3, <1>4, <1>5, <1>6, <1>7

LEMMA CleanUp ==
  ASSUME NEW t, NEW r, NEW n \in Nat, MovedUp(r, t, n), NEW a \in Int, Clean(t, a),
         NEW b, b = a - n * TERMINAL_WIDTH
  PROVE  b \in Int /\ Clean(r, b)
<1>1. b \in Int
  BY SizesAre
<1>2. ASSUME NEW x \in Columns, NEW y \in Rows, b <= At(x, y)
      PROVE  r.t_screen[y][x] = Blank
  <2>1. r.t_screen[y][x] = IF y + n < TERMINAL_HEIGHT THEN t.t_screen[y + n][x] ELSE Blank
    BY DEF MovedUp
  <2>2. CASE y + n < TERMINAL_HEIGHT
    <3>1. y + n \in Rows /\ a <= At(x, y + n)
      BY <1>1, <1>2, <2>2, AtRowsUp
    <3>. QED
      BY <2>1, <2>2, <3>1 DEF Clean
  <2>. QED
    BY <2>1, <2>2
<1>. QED
  BY <1>1, <1>2 DEF Clean

LEMMA WrittenUp ==
  ASSUME NEW t, NEW r, NEW n \in Nat, MovedUp(r, t, n), NEW a \in Int, NEW text, Len(text) \in Nat,
         a + Len(text) <= OffScreen, Written(t, a, text),
         NEW b, b = a - n * TERMINAL_WIDTH
  PROVE  Written(r, b, text)
<1>1. b \in Int
  BY SizesAre
<1>2. ASSUME NEW x \in Columns, NEW y \in Rows, b <= At(x, y), At(x, y) < b + Len(text)
      PROVE  r.t_screen[y][x] = text[At(x, y) - b + 1]
  <2>1. r.t_screen[y][x] = IF y + n < TERMINAL_HEIGHT THEN t.t_screen[y + n][x] ELSE Blank
    BY DEF MovedUp
  <2>2. PICK k \in Int : k = n * TERMINAL_WIDTH /\ b = a - k
    BY SizesAre
  <2>3. PICK p \in Int, q \in Int : p = At(x, y) /\ q = At(x, y + n) /\ q = p + k
    BY <2>2, AtRowsUp
  <2>4. OffScreen \in Int
    BY SizesAre DEF OffScreen
  <2>5. a <= q /\ q < a + Len(text) /\ q < OffScreen /\ q - a + 1 = p - b + 1
    <3>1. PICK len \in Nat : len = Len(text)
      OBVIOUS
    <3>2. b <= p /\ p < b + len /\ a + len <= OffScreen
      BY <1>2, <2>3, <3>1
    <3>3. b = a - k /\ q = p + k
      BY <2>2, <2>3
    <3>4. a <= q /\ q < a + len /\ q < OffScreen /\ q - a + 1 = p - b + 1
      BY <1>1, <2>4, <3>2, <3>3, SMTT(30)
    <3>. QED
      BY <3>1, <3>4
  <2>6. y + n < TERMINAL_HEIGHT /\ y + n \in Rows
    <3>1. ~(q >= OffScreen)
      BY <2>4, <2>5
    <3>2. y + n < TERMINAL_HEIGHT => y + n \in Rows
      BY AtRowsUp
    <3>3. ~(y + n < TERMINAL_HEIGHT) => q >= OffScreen
      BY <2>3, AtRowsUp
    <3>. QED
      BY <3>1, <3>2, <3>3
  <2>7. t.t_screen[y + n][x] = text[q - a + 1]
    BY <2>3, <2>5, <2>6 DEF Written
  <2>. QED
    BY <2>1, <2>3, <2>5, <2>6, <2>7
<1>. QED
  BY <1>2 DEF Written

\* text drawn from `from' on, behind which it was there already, leaves all of it on the screen.
LEMMA DrawnLine ==
  ASSUME NEW t, NEW r, NEW a \in Int, NEW text, NEW from \in Nat, Len(text) \in Nat,
         DrawnAt(r, t, a, text, from, Len(text)), Written(t, a, SubSeq(text, 1, from)),
         from <= Len(text)
  PROVE  Written(r, a, text)
<1>1. ASSUME NEW x \in Columns, NEW y \in Rows, a <= At(x, y), At(x, y) < a + Len(text)
      PROVE  r.t_screen[y][x] = text[At(x, y) - a + 1]
  <2>1. PICK p \in Int : p = At(x, y)
    BY AtNext DEF Columns, Rows
  <2>2. r.t_screen[y][x] = IF a + from <= p /\ p < a + Len(text) THEN text[p - a + 1]
                           ELSE t.t_screen[y][x]
    BY <2>1 DEF DrawnAt
  <2>3. CASE a + from <= p
    BY <1>1, <2>1, <2>2, <2>3
  <2>4. CASE ~(a + from <= p)
    <3>1. Len(SubSeq(text, 1, from)) = from /\ p - a + 1 \in 1..from
      BY <1>1, <2>1, <2>4
    <3>2. SubSeq(text, 1, from)[p - a + 1] = text[p - a + 1]
      BY <3>1
    <3>3. t.t_screen[y][x] = SubSeq(text, 1, from)[p - a + 1]
      BY <1>1, <2>1, <3>1 DEF Written
    <3>. QED
      BY <2>1, <2>2, <2>4, <3>2, <3>3
  <2>. QED
    BY <2>3, <2>4
<1>. QED
  BY <1>1 DEF Written

LEMMA DrawnNothing ==
  ASSUME NEW t, NEW text \in Seq(Characters), NEW from \in Nat, ~(from < Len(text)),
         from <= Len(text), NEW prow
  PROVE  Drawn(t, text, from, prow) = t
<1>1. from \in Nat /\ Len(text) - from = 0 /\ Len(text) - from \in Nat
  OBVIOUS
<1>2. PICK s : s = [k \in 1..(Len(text) - from) |-> from + k]
  OBVIOUS
<1>3. PICK line : line = [text |-> text, col |-> prompt_col, row |-> prow]
  OBVIOUS
<1>4. Drawn(t, text, from, prow) = Reached("draw", line, t, s, Len(text) - from)
  <2>1. Drawn(t, text, from, prow) =
          Reached("draw", [text |-> text, col |-> prompt_col, row |-> prow], t, s, Len(text) - from)
    BY <1>1, <1>2, DrawnReached
  <2>. QED
    BY <1>3, <2>1
<1>5. Len(s) \in Nat
  BY <1>1, <1>2
<1>6. Reached("draw", line, t, s, 0) = t
  BY <1>5, ReachedFirst
<1>. QED
  BY <1>1, <1>4, <1>6

\* cells is text and blanks behind it.
Padded(cells, text) ==
  /\ Len(text) <= Len(cells)
  /\ \A i \in 1..Len(cells) : cells[i] = IF i <= Len(text) THEN text[i] ELSE Blank

LEMMA PaddedShown ==
  ASSUME NEW r, NEW a \in Int, NEW cells \in Seq(Characters), NEW text \in Seq(Letters),
         Padded(cells, text), Written(r, a, cells)
  PROVE  Written(r, a, text)
<1>1. ASSUME NEW x \in Columns, NEW y \in Rows, a <= At(x, y), At(x, y) < a + Len(text)
      PROVE  r.t_screen[y][x] = text[At(x, y) - a + 1]
  <2>1. PICK p \in Int : p = At(x, y)
    BY AtNext DEF Columns, Rows
  <2>2. PICK n \in Nat, m \in Nat : n = Len(text) /\ m = Len(cells) /\ n <= m
    BY DEF Padded
  <2>3. a <= p /\ p < a + m /\ p - a + 1 \in 1..m /\ p - a + 1 <= n
    BY <1>1, <2>1, <2>2
  <2>4. r.t_screen[y][x] = cells[p - a + 1]
    BY <2>1, <2>2, <2>3 DEF Written
  <2>5. cells[p - a + 1] = text[p - a + 1]
    BY <2>2, <2>3 DEF Padded
  <2>. QED
    BY <2>1, <2>4, <2>5
<1>. QED
  BY <1>1 DEF Written

LEMMA PaddedClean ==
  ASSUME NEW t, NEW r, NEW a \in Int, NEW cells \in Seq(Characters), NEW text \in Seq(Letters),
         Padded(cells, text), NEW from \in 0..Len(text),
         DrawnAt(r, t, a, cells, from, Len(cells)), Clean(t, a + Len(cells))
  PROVE  Clean(r, a + Len(text))
<1>1. ASSUME NEW x \in Columns, NEW y \in Rows, a + Len(text) <= At(x, y)
      PROVE  r.t_screen[y][x] = Blank
  <2>1. PICK p \in Int : p = At(x, y)
    <3>1. x \in Int /\ y \in Int
      BY SizesAre DEF Columns, Rows
    <3>. QED
      BY <3>1, AtNext
  <2>2. PICK n \in Nat, m \in Nat : n = Len(text) /\ m = Len(cells) /\ n <= m
    BY DEF Padded
  <2>3. r.t_screen[y][x] = IF a + from <= p /\ p < a + m THEN cells[p - a + 1] ELSE t.t_screen[y][x]
    BY <2>1, <2>2 DEF DrawnAt
  <2>4. CASE p < a + m
    <3>1. a + from <= p /\ p - a + 1 \in 1..m /\ ~(p - a + 1 <= n)
      BY <1>1, <2>1, <2>2, <2>4
    <3>2. cells[p - a + 1] = Blank
      BY <2>2, <3>1 DEF Padded
    <3>. QED
      BY <2>3, <2>4, <3>1, <3>2
  <2>5. CASE ~(p < a + m)
    <3>1. a + m <= p
      BY <2>2, <2>5
    <3>2. t.t_screen[y][x] = Blank
      BY <2>1, <2>2, <3>1 DEF Clean
    <3>. QED
      BY <2>3, <2>5, <3>2
  <2>. QED
    BY <2>4, <2>5
<1>. QED
  BY <1>1 DEF Clean

\* No row has scrolled off.
SameBack(r, t) == r.t_scrollback = t.t_scrollback

\* cells is drawn from `from' on, and the cursor moved behind pos characters of text.
LEMMA LineDrawn ==
  ASSUME NEW t, Sane(t), prompt_col \in Columns, NEW prow \in Nat,
         NEW cells \in Seq(Characters), NEW text \in Seq(Letters), Padded(cells, text),
         NEW from \in 0..Len(text), NEW pos \in 0..Len(text), NEW d, d = Drawn(t, cells, from, prow),
         NEW r, r = shell_move_cursor_to(d, pos, prow), NEW a, a = StartAt(prow)
  PROVE  /\ Sane(r) /\ SameBack(r, t)
         /\ DrawnAt(r, t, a, cells, from, Len(cells))
         /\ /\ a + Len(text) < OffScreen /\ Written(t, a, SubSeq(cells, 1, from))
            /\ t.t_buffer = View(t) \/ from < Len(cells)
            => InPlace(r, a, text, pos)
         /\ Clean(t, a + Len(cells)) => Tidy(r, a, Len(text), pos)
<1>0. /\ Len(text) \in Nat /\ Len(cells) \in Nat /\ Len(text) <= Len(cells)
      /\ pos \in Nat /\ pos <= Len(text) /\ from \in Nat /\ from <= Len(text)
      /\ from \in 0..Len(cells) /\ a \in Int
  <2>1. a \in Int
    BY StartTyped
  <2>2. PICK n \in Nat, m \in Nat : n = Len(text) /\ m = Len(cells)
    OBVIOUS
  <2>3. n <= m
    BY <2>2 DEF Padded
  <2>4. pos \in 0..n /\ from \in 0..n
    BY <2>2
  <2>5. pos \in Nat /\ pos <= n /\ from \in Nat /\ from <= n /\ from \in 0..m
    BY <2>3, <2>4
  <2>. QED
    BY <2>1, <2>2, <2>3, <2>5
<1>1. /\ Sane(d) /\ d.t_scrollback = t.t_scrollback
      /\ DrawnAt(d, t, a, cells, from, Len(cells))
      /\ from < Len(cells) /\ a + from < OffScreen => d.t_view_offset = 0
  <2>1. a = At(prompt_col, prow)
    BY DEF StartAt
  <2>2. IsTerminal(t) /\ Fresh(t)
    BY DEF Sane
  <2>3. Drew(d, t, a, cells, from)
    BY <1>0, <2>1, <2>2, DrawnIs
  <2>. QED
    BY <2>3 DEF Drew, Sane
<1>2. /\ Sane(r) /\ r.t_screen = d.t_screen /\ r.t_scrollback = d.t_scrollback
      /\ r.t_view_offset = d.t_view_offset /\ r.t_buffer = d.t_buffer /\ View(r) = View(d)
      /\ Place(r) = a + pos /\ CursorShown(r)
  <2>1. CursorMoved(r, d, StartAt(prow) + pos)
    BY <1>0, <1>1, MoveIs
  <2>. QED
    BY <2>1 DEF CursorMoved
<1>3. DrawnAt(r, t, a, cells, from, Len(cells))
  BY <1>1, <1>2 DEF DrawnAt
<1>4. ASSUME a + Len(text) < OffScreen, Written(t, a, SubSeq(cells, 1, from)),
             t.t_buffer = View(t) \/ from < Len(cells)
      PROVE  InPlace(r, a, text, pos)
  <2>1. Written(r, a, text)
    <3>1. Written(r, a, cells)
      BY <1>0, <1>3, <1>4, DrawnLine
    <3>. QED
      BY <1>0, <3>1, PaddedShown
  <2>2. r.t_buffer = View(r)
    <3>1. CASE from < Len(cells)
      <4>1. a + from < OffScreen
        BY <1>0, <1>4, SizesAre DEF OffScreen
      <4>2. d.t_view_offset = 0 /\ d.t_buffer = d.t_screen
        BY <1>1, <3>1, <4>1 DEF Sane, Fresh
      <4>3. View(d) = d.t_screen
        BY <1>1, <4>2, ViewTyped DEF Sane
      <4>. QED
        BY <1>2, <4>2, <4>3
    <3>2. CASE ~(from < Len(cells))
      <4>1. from \in Nat /\ from <= Len(cells)
        BY <1>0
      <4>2. d = t
        BY <3>2, <4>1, DrawnNothing
      <4>. QED
        BY <1>2, <1>4, <3>2, <4>2
    <3>. QED
      BY <3>1, <3>2
  <2>. QED
    BY <1>2, <1>4, <2>1, <2>2 DEF InPlace, CursorShown
<1>5. ASSUME Clean(t, a + Len(cells)) PROVE Tidy(r, a, Len(text), pos)
  <2>1. Clean(r, a + Len(text))
    BY <1>0, <1>3, <1>5, PaddedClean
  <2>2. Place(r) + (Len(text) - pos) = a + Len(text)
    BY <1>0, <1>2
  <2>. QED
    BY <2>1, <2>2 DEF Tidy, CleanFrom
<1>. QED
  BY <1>1, <1>2, <1>3, <1>4, <1>5 DEF SameBack

\* What scrolling n rows makes of t.
ScrolledBy(r, t, n) ==
  /\ Sane(r) /\ r.t_view_offset = t.t_view_offset
  /\ n = 0 => r = t
  /\ MovedUp(r, t, n)
  /\ n <= TERMINAL_HEIGHT => RowsUp(r, t, n) /\ \E d \in 0..n : Kept(r, t, n, d)

LEMMA ScrollsIs ==
  ASSUME NEW t, Sane(t), NEW n \in Nat, NEW r, r = Scrolled(t, n)
  PROVE  ScrolledBy(r, t, n)
<1>1. IsTerminal(t) /\ Fresh(t)
  BY DEF Sane
<1>2. IsTerminal(r) /\ Fresh(r)
  BY <1>1, ScrolledIs
<1>3. r.t_view_offset = t.t_view_offset
  BY <1>1, ScrolledIs
<1>4. n = 0 => r = t
  BY <1>1, ScrolledIs
<1>5. MovedUp(r, t, n)
  BY <1>1, ScrolledIs
<1>6. n <= TERMINAL_HEIGHT => RowsUp(r, t, n) /\ \E d \in 0..n : Kept(r, t, n, d)
  BY <1>1, ScrolledIs
<1>. QED
  BY <1>2, <1>3, <1>4, <1>5, <1>6 DEF ScrolledBy, Sane

\* The line begins n rows higher, in row `row', and has room there.
RoomMade(row, n, len) ==
  /\ row \in Nat /\ n \in Nat
  /\ StartAt(row) = InputStart - n * TERMINAL_WIDTH
  /\ ~listed => StartAt(row) + len < OffScreen

\* The line becomes text: cells is drawn from `from' on, n rows further up.
LEMMA LineChanged ==
  ASSUME ShellInv, NEW text \in Seq(Letters), NEW row, NEW n, RoomMade(row, n, Len(text)),
         NEW cells \in Seq(Characters), Padded(cells, text), buffer_len <= Len(cells),
         NEW from \in 0..Len(text), from <= buffer_len, \A i \in 1..from : cells[i] = Line[i],
         ~listed => n = 0 \/ from < Len(cells), NEW pos \in 0..Len(text),
         NEW u, u = Scrolled(term, n), NEW d, d = Drawn(u, cells, from, row),
         NEW r, r = shell_move_cursor_to(d, pos, row)
  PROVE  /\ Sane(r)
         /\ ~listed => InPlace(r, StartAt(row), text, pos)
         /\ ~stray => Tidy(r, StartAt(row), Len(text), pos)
<1> DEFINE a == StartAt(row)
<1>1. /\ Counters /\ Sane(term)
      /\ ~listed => InPlace(term, InputStart, Line, cursor_pos)
      /\ ~stray => Tidy(term, InputStart, buffer_len, cursor_pos)
  BY DEF ShellInv
<1>2. /\ prompt_col \in Columns /\ buffer_len \in Nat /\ prompt_row \in Nat
      /\ Len(Line) = buffer_len /\ Line \in Seq(Letters)
  BY <1>1, LineTyped DEF Counters
<1>3. row \in Nat /\ n \in Nat /\ a = InputStart - n * TERMINAL_WIDTH
      /\ InputStart \in Int /\ a \in Int /\ n * TERMINAL_WIDTH \in Int
  BY <1>2, StartTyped, SizesAre DEF RoomMade, InputStart
<1>4. ScrolledBy(u, term, n)
  BY <1>1, <1>3, ScrollsIs
<1>5. Sane(u) /\ MovedUp(u, term, n)
  BY <1>4 DEF ScrolledBy
<1>. HIDE DEF a
<1>6. /\ Sane(r)
      /\ /\ a + Len(text) < OffScreen /\ Written(u, a, SubSeq(cells, 1, from))
         /\ u.t_buffer = View(u) \/ from < Len(cells)
         => InPlace(r, a, text, pos)
      /\ Clean(u, a + Len(cells)) => Tidy(r, a, Len(text), pos)
  <2>1. a = StartAt(row)
    BY DEF a
  <2>. QED
    BY <1>2, <1>3, <1>5, <2>1, LineDrawn
<1>7. ASSUME ~listed PROVE InPlace(r, a, text, pos)
  <2>1. /\ term.t_buffer = View(term) /\ InputStart + buffer_len < OffScreen
        /\ Written(term, InputStart, Line)
    BY <1>1, <1>2, <1>7 DEF InPlace
  <2>2. InputStart + Len(Line) <= OffScreen
    BY <1>2, <1>3, <2>1, SizesAre DEF OffScreen
  <2>3. Written(u, a, Line)
    BY <1>2, <1>3, <1>5, <2>1, <2>2, WrittenUp
  <2>4. Written(u, a, SubSeq(cells, 1, from))
    <3>1. ASSUME NEW x \in Columns, NEW y \in Rows, a <= At(x, y), At(x, y) < a + Len(SubSeq(cells, 1, from))
          PROVE  u.t_screen[y][x] = SubSeq(cells, 1, from)[At(x, y) - a + 1]
      <4>1. PICK p \in Int : p = At(x, y)
        BY AtNext DEF Columns, Rows
      <4>2. Len(SubSeq(cells, 1, from)) = from /\ \A i \in 1..from : SubSeq(cells, 1, from)[i] = cells[i]
        BY DEF Padded
      <4>3. p - a + 1 \in 1..from /\ p < a + buffer_len /\ from \in Nat
        <5>1. a <= p /\ p < a + from /\ a \in Int /\ from \in Nat
          BY <1>3, <3>1, <4>1, <4>2
        <5>. QED
          BY <1>2, <5>1
      <4>4. u.t_screen[y][x] = Line[p - a + 1]
        BY <1>2, <2>3, <3>1, <4>1, <4>3 DEF Written
      <4>. QED
        BY <4>1, <4>2, <4>3, <4>4
    <3>. QED
      BY <3>1 DEF Written
  <2>5. u.t_buffer = View(u) \/ from < Len(cells)
    BY <1>4, <1>7, <2>1 DEF ScrolledBy
  <2>6. a + Len(text) < OffScreen
    BY <1>7 DEF RoomMade, a
  <2>. QED
    BY <1>6, <2>4, <2>5, <2>6
<1>8. ASSUME ~stray PROVE Tidy(r, a, Len(text), pos)
  <2>1. Clean(term, InputStart + buffer_len)
    BY <1>1, <1>8 DEF Tidy
  <2>2. PICK b \in Int, c \in Int : b = InputStart + buffer_len /\ c = b - n * TERMINAL_WIDTH
    BY <1>2, <1>3
  <2>3. Clean(u, c)
    BY <1>3, <1>5, <2>1, <2>2, CleanUp
  <2>4. c <= a + Len(cells) /\ a + Len(cells) \in Int
    BY <1>2, <1>3, <2>2, SMTT(30)
  <2>5. Clean(u, a + Len(cells))
    BY <2>3, <2>4, CleanBehind
  <2>. QED
    BY <1>6, <2>5
<1>. QED
  BY <1>6, <1>7, <1>8 DEF a

LEMMA AppendPads ==
  ASSUME NEW text \in Seq(Letters)
  PROVE  /\ Append(text, Blank) \in Seq(Characters) /\ Len(Append(text, Blank)) = Len(text) + 1
         /\ \A i \in 1..Len(text) : Append(text, Blank)[i] = text[i]
         /\ Padded(Append(text, Blank), text)
<1>1. Letters \subseteq Characters /\ Blank \in Characters
  BY ShellAssumption
<1>2. text \in Seq(Characters)
  BY <1>1
<1>3. PICK s : s = Append(text, Blank)
  OBVIOUS
<1>4. s \in Seq(Characters) /\ Len(s) = Len(text) + 1
      /\ \A i \in 1..Len(s) : s[i] = IF i <= Len(text) THEN text[i] ELSE Blank
  BY <1>1, <1>2, <1>3
<1>5. Padded(s, text)
  BY <1>4 DEF Padded
<1>. QED
  BY <1>3, <1>4, <1>5

\* Nothing of the prompt or of what has happened to the screen changes.
SameLine == prompt_col' = prompt_col /\ listed' = listed /\ stray' = stray /\ collecting' = collecting

LEMMA LineKept ==
  ASSUME ShellInv, SameLine, NEW text \in Seq(Letters), Len(text) <= BUFFER_SIZE - 1,
         NEW pos \in 0..Len(text), NEW row \in Nat,
         input_buffer' = text, buffer_len' = Len(text), cursor_pos' = pos, prompt_row' = row,
         Sane(term'),
         ~listed => InPlace(term', StartAt(row), text, pos),
         ~stray => Tidy(term', StartAt(row), Len(text), pos)
  PROVE  ShellInv'
<1>1. Counters
  BY DEF ShellInv
<1>2. Len(text) \in Nat /\ BUFFER_SIZE \in Nat
  BY SizesAre
<1>3. Counters'
  BY <1>1, <1>2 DEF Counters, SameLine
<1>4. Line' = text
  <2>1. Line' = SubSeq(text, 1, Len(text))
    BY DEF Line
  <2>. QED
    BY <2>1
<1>5. InputStart' = StartAt(row)
  BY DEF InputStart, StartAt, SameLine
<1>. QED
  BY <1>3, <1>4, <1>5 DEF ShellInv, SameLine

\* The line becomes text: it is redrawn from `from' on, n rows further up.
LEMMA Redrawn ==
  ASSUME ShellInv, NEW text \in Seq(Letters), NEW row, NEW n, RoomMade(row, n, Len(text)),
         buffer_len <= Len(text) + 1,
         NEW from \in 0..Len(text), from <= buffer_len, \A i \in 1..from : text[i] = Line[i],
         NEW pos \in 0..Len(text), NEW u, u = Scrolled(term, n),
         NEW r, r = shell_redraw_from(u, text, from, pos, row)
  PROVE  /\ Sane(r)
         /\ ~listed => InPlace(r, StartAt(row), text, pos)
         /\ ~stray => Tidy(r, StartAt(row), Len(text), pos)
<1>1. PICK cells : cells = Append(text, Blank)
  OBVIOUS
<1>2. /\ cells \in Seq(Characters) /\ Padded(cells, text) /\ Len(cells) = Len(text) + 1
      /\ \A i \in 1..Len(text) : cells[i] = text[i]
  BY <1>1, AppendPads
<1>3. \A i \in 1..from : cells[i] = Line[i]
  BY <1>2
<1>4. from < Len(cells) /\ buffer_len <= Len(cells)
  BY <1>2
<1>5. PICK d : d = Drawn(u, cells, from, row)
  OBVIOUS
<1>6. r = shell_move_cursor_to(d, pos, row)
  BY <1>1, <1>5 DEF shell_redraw_from
<1>. QED
  BY <1>2, <1>3, <1>4, <1>5, <1>6, LineChanged

LEMMA EditKeeps ==
  ASSUME ShellInv, NEW text \in Seq(Letters), Len(text) <= BUFFER_SIZE - 1,
         NEW row, NEW n, RoomMade(row, n, Len(text)), buffer_len <= Len(text) + 1,
         NEW from \in 0..Len(text), from <= buffer_len, \A i \in 1..from : text[i] = Line[i],
         NEW pos \in 0..Len(text), NEW u, u = Scrolled(term, n), Edit(u, text, from, pos, row)
  PROVE  ShellInv'
<1>1. term' = shell_redraw_from(u, text, from, pos, row)
  BY DEF Edit
<1>2. /\ Sane(term')
      /\ ~listed => InPlace(term', StartAt(row), text, pos)
      /\ ~stray => Tidy(term', StartAt(row), Len(text), pos)
  BY <1>1, Redrawn
<1>3. /\ SameLine /\ row \in Nat
      /\ input_buffer' = text /\ buffer_len' = Len(text) /\ cursor_pos' = pos /\ prompt_row' = row
  BY DEF Edit, SameLine, RoomMade
<1>. QED
  BY <1>2, <1>3, LineKept

\* What shell_ensure_input_visible makes of the screen is room for the line.
LEMMA EnsureMakes ==
  ASSUME ShellInv, NEW len \in 0..(BUFFER_SIZE - 1),
         NEW see, see = shell_ensure_input_visible(prompt_col, prompt_row, len)
  PROVE  RoomMade(see.row, see.scrolls, len)
<1>1. prompt_col \in Columns /\ prompt_row \in Nat
  BY DEF ShellInv, Counters
<1>2. see.scrolls \in Nat /\ see.row \in Nat
  BY <1>1, EnsureIs
<1>3. StartAt(see.row) + len < OffScreen
  BY <1>1, EnsureIs
<1>4. StartAt(see.row) = StartAt(prompt_row) - see.scrolls * TERMINAL_WIDTH
  BY <1>1, EnsureIs
<1>. QED
  BY <1>2, <1>3, <1>4 DEF RoomMade, InputStart

\* The line may stay where it is when it does not grow.
LEMMA RoomLeft ==
  ASSUME ShellInv, NEW len \in 0..buffer_len, NEW n, n = 0
  PROVE  RoomMade(prompt_row, n, len) /\ Scrolled(term, n) = term
<1>1. Counters /\ Sane(term) /\ (~listed => InPlace(term, InputStart, Line, cursor_pos))
  BY DEF ShellInv
<1>2. prompt_col \in Columns /\ prompt_row \in Nat /\ buffer_len \in Nat /\ Len(Line) = buffer_len
      /\ n \in Nat
  BY <1>1, LineTyped DEF Counters
<1>3. InputStart \in Int /\ StartAt(prompt_row) = InputStart
  BY <1>2, StartTyped DEF InputStart
<1>4. ASSUME ~listed PROVE StartAt(prompt_row) + len < OffScreen
  <2>1. InputStart + buffer_len < OffScreen
    BY <1>1, <1>2, <1>4 DEF InPlace
  <2>. QED
    BY <1>2, <1>3, <2>1, SizesAre DEF OffScreen
<1>5. StartAt(prompt_row) = InputStart - n * TERMINAL_WIDTH
  BY <1>3, SizesAre
<1>6. PICK u : u = Scrolled(term, n)
  OBVIOUS
<1>7. ScrolledBy(u, term, n)
  BY <1>1, <1>2, <1>6, ScrollsIs
<1>8. u = term
  BY <1>7 DEF ScrolledBy
<1>. QED
  BY <1>2, <1>4, <1>5, <1>6, <1>8 DEF RoomMade

Joined(s, t) == s \o t

\* r begins with s and has n more elements.
Continues(r, s, n) == Len(r) = Len(s) + n /\ \A k \in 1..Len(s) : r[k] = s[k]

LEMMA JoinIs ==
  ASSUME NEW S, NEW s \in Seq(S), NEW t \in Seq(S), NEW r, r = Joined(s, t)
  PROVE  r \in Seq(S) /\ Continues(r, s, Len(t))
<1>1. Len(s) \in Nat /\ Len(t) \in Nat
  OBVIOUS
<1>2. /\ s \o t \in Seq(S) /\ Len(s \o t) = Len(s) + Len(t)
      /\ \A i \in 1..(Len(s) + Len(t)) : (s \o t)[i] = IF i <= Len(s) THEN s[i] ELSE t[i - Len(s)]
  BY ConcatProperties
<1>3. \A k \in 1..Len(s) : k \in 1..(Len(s) + Len(t)) /\ k <= Len(s)
  BY <1>1
<1>. QED
  BY <1>2, <1>3 DEF Joined, Continues

LEMMA PartIs ==
  ASSUME NEW S, NEW s \in Seq(S), NEW i, NEW j, i \in 1..(Len(s) + 1), j \in (i - 1)..Len(s),
         NEW r, r = SubSeq(s, i, j)
  PROVE  /\ r \in Seq(S) /\ Len(r) = j - i + 1
         /\ \A k \in 1..Len(r) : r[k] = s[i + k - 1]
<1>1. \A k \in i..j : s[k] \in S
  BY ElementOfSeq
<1>2. i <= j + 1 /\ i \in Int /\ j \in Int
  OBVIOUS
<1>3. Len(r) = j - i + 1 /\ \A k \in 1..Len(r) : r[k] = s[i + k - 1]
  OBVIOUS
<1>4. r \in Seq(S)
  OBVIOUS
<1>. QED
  BY <1>3, <1>4

LEMMA InsertIs ==
  ASSUME NEW s \in Seq(Letters), NEW i \in 0..Len(s), NEW e \in Letters, NEW r, r = InsertAt(s, i + 1, e)
  PROVE  r \in Seq(Letters) /\ Len(r) = Len(s) + 1 /\ \A k \in 1..i : r[k] = s[k]
<1>1. PICK a, b, o, n : a = SubSeq(s, 1, i) /\ b = SubSeq(s, n, Len(s)) /\ o = <<e>> /\ n = i + 1
  OBVIOUS
<1>2. (i + 1) - 1 = i
  OBVIOUS
<1>3. r = a \o o \o b
  BY <1>1, <1>2 DEF InsertAt
<1>4. a \in Seq(Letters) /\ Len(a) = i /\ \A k \in 1..i : a[k] = s[k]
  <2>1. 1 \in 1..(Len(s) + 1) /\ i \in (1 - 1)..Len(s)
    OBVIOUS
  <2>2. a \in Seq(Letters) /\ Len(a) = i - 1 + 1 /\ \A k \in 1..Len(a) : a[k] = s[1 + k - 1]
    BY <1>1, <2>1, PartIs
  <2>. QED
    BY <2>2, SMTT(30)
<1>5. b \in Seq(Letters) /\ Len(b) = Len(s) - i
  <2>1. n \in 1..(Len(s) + 1) /\ Len(s) \in (n - 1)..Len(s)
    BY <1>1
  <2>2. b \in Seq(Letters) /\ Len(b) = Len(s) - n + 1
    BY <1>1, <2>1, PartIs
  <2>. QED
    BY <1>1, <2>2
<1>6. o \in Seq(Letters) /\ Len(o) = 1
  BY <1>1
<1>7. PICK ao : ao = Joined(a, o)
  OBVIOUS
<1>8. ao \in Seq(Letters) /\ Continues(ao, a, Len(o))
  BY <1>4, <1>6, <1>7, JoinIs
<1>9. r = Joined(ao, b)
  BY <1>3, <1>7 DEF Joined
<1>10. r \in Seq(Letters) /\ Continues(r, ao, Len(b))
  BY <1>5, <1>8, <1>9, JoinIs
<1>11. Len(s) \in Nat /\ i \in Nat /\ Len(ao) = i + 1
  BY <1>4, <1>6, <1>8 DEF Continues
<1>12. \A k \in 1..i : k \in 1..Len(ao)
  BY <1>11
<1>. QED
  BY <1>4, <1>5, <1>8, <1>10, <1>11, <1>12 DEF Continues

LEMMA RemoveIs ==
  ASSUME NEW s \in Seq(Letters), NEW i \in 0..(Len(s) - 1), NEW r, r = RemoveAt(s, i + 1)
  PROVE  r \in Seq(Letters) /\ Len(r) = Len(s) - 1 /\ \A k \in 1..i : r[k] = s[k]
<1>1. PICK a, b, n : a = SubSeq(s, 1, i) /\ b = SubSeq(s, n, Len(s)) /\ n = i + 2
  OBVIOUS
<1>2. (i + 1) - 1 = i /\ (i + 1) + 1 = i + 2
  OBVIOUS
<1>3. r = Joined(a, b)
  BY <1>1, <1>2 DEF RemoveAt, Joined
<1>4. a \in Seq(Letters) /\ Len(a) = i /\ \A k \in 1..i : a[k] = s[k]
  <2>1. 1 \in 1..(Len(s) + 1) /\ i \in (1 - 1)..Len(s)
    OBVIOUS
  <2>2. a \in Seq(Letters) /\ Len(a) = i - 1 + 1 /\ \A k \in 1..Len(a) : a[k] = s[1 + k - 1]
    BY <1>1, <2>1, PartIs
  <2>. QED
    BY <2>2
<1>5. b \in Seq(Letters) /\ Len(b) = Len(s) - i - 1
  <2>1. n \in 1..(Len(s) + 1) /\ Len(s) \in (n - 1)..Len(s)
    BY <1>1
  <2>2. b \in Seq(Letters) /\ Len(b) = Len(s) - n + 1
    BY <1>1, <2>1, PartIs
  <2>. QED
    BY <1>1, <2>2
<1>6. r \in Seq(Letters) /\ Continues(r, a, Len(b))
  BY <1>3, <1>4, <1>5, JoinIs
<1>. QED
  BY <1>4, <1>5, <1>6 DEF Continues

LEMMA InsertKeeps ==
  ASSUME ShellInv, NEW c \in Keys, shell_insert_char(c)
  PROVE  ShellInv'
<1>1. Counters
  BY DEF ShellInv
<1>2. /\ buffer_len \in Nat /\ cursor_pos \in 0..buffer_len /\ Len(Line) = buffer_len
      /\ Line \in Seq(Letters) /\ c \in Letters /\ buffer_len < BUFFER_SIZE - 1
  BY <1>1, LineTyped, ShellAssumption DEF Counters, shell_insert_char
<1>3. PICK see, len : see = shell_ensure_input_visible(prompt_col, prompt_row, len) /\ len = buffer_len + 1
  OBVIOUS
<1>4. PICK u, n, row : u = Scrolled(term, n) /\ n = see.scrolls /\ row = see.row
  OBVIOUS
<1>5. PICK text : text = InsertAt(Line, cursor_pos + 1, c)
  OBVIOUS
<1>6. text \in Seq(Letters) /\ Len(text) = len /\ \A k \in 1..cursor_pos : text[k] = Line[k]
  BY <1>2, <1>3, <1>5, InsertIs, ZenonT(30)
<1>7. len \in 0..(BUFFER_SIZE - 1) /\ len \in Nat /\ cursor_pos <= buffer_len
  BY <1>2, <1>3, SizesAre
<1>8. RoomMade(row, n, len)
  BY <1>3, <1>4, <1>7, EnsureMakes
<1>9. PICK pos : pos = cursor_pos + 1
  OBVIOUS
<1>10. Edit(u, text, cursor_pos, pos, row)
  BY <1>3, <1>4, <1>5, <1>9 DEF shell_insert_char
<1>11. pos \in 0..Len(text) /\ cursor_pos \in 0..Len(text) /\ buffer_len <= Len(text) + 1
       /\ Len(text) <= BUFFER_SIZE - 1
  BY <1>2, <1>3, <1>6, <1>7, <1>9
<1>12. PICK from : from = cursor_pos
  OBVIOUS
<1>13. /\ from \in 0..Len(text) /\ from <= buffer_len /\ \A i \in 1..from : text[i] = Line[i]
       /\ Edit(u, text, from, pos, row) /\ RoomMade(row, n, Len(text))
  BY <1>6, <1>7, <1>8, <1>10, <1>11, <1>12
<1>. QED
  BY <1>4, <1>6, <1>11, <1>13, EditKeeps

\* Both deletes take away the character behind the first `at' ones.
LEMMA DeleteKeeps ==
  ASSUME ShellInv, NEW at \in 0..(buffer_len - 1),
         Edit(term, RemoveAt(Line, at + 1), at, at, prompt_row)
  PROVE  ShellInv'
<1>1. Counters
  BY DEF ShellInv
<1>2. buffer_len \in Nat /\ Len(Line) = buffer_len /\ Line \in Seq(Letters) /\ buffer_len <= BUFFER_SIZE - 1
  BY <1>1, LineTyped, SizesAre DEF Counters
<1>3. PICK text : text = RemoveAt(Line, at + 1)
  OBVIOUS
<1>4. at \in 0..(Len(Line) - 1)
  BY <1>2
<1>5. text \in Seq(Letters) /\ Len(text) = buffer_len - 1 /\ \A k \in 1..at : text[k] = Line[k]
  BY <1>2, <1>3, <1>4, RemoveIs
<1>6. PICK n : n = 0
  OBVIOUS
<1>7. Len(text) \in 0..buffer_len /\ at \in 0..Len(text) /\ at <= buffer_len
      /\ buffer_len <= Len(text) + 1 /\ Len(text) <= BUFFER_SIZE - 1
  BY <1>2, <1>5, SizesAre
<1>8. RoomMade(prompt_row, n, Len(text)) /\ Scrolled(term, n) = term
  BY <1>6, <1>7, RoomLeft
<1>9. PICK u, row : u = Scrolled(term, n) /\ row = prompt_row
  OBVIOUS
<1>10. Edit(u, text, at, at, row) /\ RoomMade(row, n, Len(text))
  BY <1>3, <1>8, <1>9
<1>. QED
  BY <1>5, <1>7, <1>9, <1>10, EditKeeps

LEMMA DeletesKeep ==
  ASSUME ShellInv, shell_delete_before_cursor \/ shell_delete_at_cursor
  PROVE  ShellInv'
<1>1. Counters
  BY DEF ShellInv
<1>2. buffer_len \in Nat /\ cursor_pos \in 0..buffer_len
  BY <1>1, SizesAre DEF Counters
<1>3. CASE shell_delete_before_cursor
  <2>1. PICK at : at = cursor_pos - 1
    OBVIOUS
  <2>2. at \in 0..(buffer_len - 1) /\ at + 1 = cursor_pos
    BY <1>2, <1>3, <2>1 DEF shell_delete_before_cursor
  <2>3. Edit(term, RemoveAt(Line, at + 1), at, at, prompt_row)
    BY <1>3, <2>1, <2>2 DEF shell_delete_before_cursor
  <2>. QED
    BY <2>2, <2>3, DeleteKeeps
<1>4. CASE shell_delete_at_cursor
  <2>1. PICK at : at = cursor_pos
    OBVIOUS
  <2>2. at \in 0..(buffer_len - 1)
    BY <1>2, <1>4, <2>1 DEF shell_delete_at_cursor
  <2>3. Edit(term, RemoveAt(Line, at + 1), at, at, prompt_row)
    BY <1>4, <2>1 DEF shell_delete_at_cursor
  <2>. QED
    BY <2>2, <2>3, DeleteKeeps
<1>. QED
  BY <1>3, <1>4

LEMMA MoveKeeps ==
  ASSUME ShellInv, NEW pos \in 0..buffer_len, MoveTo(pos)
  PROVE  ShellInv'
<1>1. /\ Counters /\ Sane(term)
      /\ ~listed => InPlace(term, InputStart, Line, cursor_pos)
      /\ ~stray => Tidy(term, InputStart, buffer_len, cursor_pos)
  BY DEF ShellInv
<1>2. /\ prompt_col \in Columns /\ prompt_row \in Nat /\ buffer_len \in Nat /\ pos \in Nat
      /\ InputStart \in Int /\ InputStart = StartAt(prompt_row)
  BY <1>1, StartTyped DEF Counters, InputStart
<1>3. term' = shell_move_cursor_to(term, pos, prompt_row) /\ SameLine /\ cursor_pos' = pos
      /\ input_buffer' = input_buffer /\ buffer_len' = buffer_len /\ prompt_row' = prompt_row
  BY DEF MoveTo, SameLine
<1>4. CursorMoved(term', term, StartAt(prompt_row) + pos)
  BY <1>1, <1>2, <1>3, MoveIs
<1>5. Counters' /\ Line' = Line /\ InputStart' = InputStart
  BY <1>1, <1>3 DEF Counters, SameLine, Line, InputStart, StartAt
<1>6. ASSUME ~listed PROVE InPlace(term', InputStart, Line, pos)
  <2>1. Written(term', InputStart, Line)
    BY <1>1, <1>4, <1>6 DEF InPlace, CursorMoved, Written
  <2>. QED
    BY <1>1, <1>2, <1>4, <1>6, <2>1 DEF InPlace, CursorMoved, CursorShown
<1>7. ASSUME ~stray PROVE Tidy(term', InputStart, buffer_len, pos)
  <2>1. Clean(term', InputStart + buffer_len)
    BY <1>1, <1>4, <1>7 DEF Tidy, CursorMoved, Clean
  <2>2. Place(term') + (buffer_len - pos) = InputStart + buffer_len
    BY <1>2, <1>4 DEF CursorMoved
  <2>. QED
    BY <2>1, <2>2 DEF Tidy, CleanFrom
<1>8. Sane(term')
  BY <1>4 DEF CursorMoved
<1>. QED
  BY <1>3, <1>5, <1>6, <1>7, <1>8 DEF ShellInv, SameLine

LEMMA MovesKeep ==
  ASSUME ShellInv, shell_move_left \/ shell_move_right
  PROVE  ShellInv'
<1>1. buffer_len \in Nat /\ cursor_pos \in 0..buffer_len
  BY SizesAre DEF ShellInv, Counters
<1>2. PICK pos \in 0..buffer_len : MoveTo(pos)
  BY <1>1 DEF shell_move_left, shell_move_right
<1>. QED
  BY <1>2, MoveKeeps

\* A line is padded with as many blanks as are to be wiped out behind it.
LEMMA PadIs ==
  ASSUME NEW s \in Seq(Letters), NEW more \in Nat, NEW blanks, blanks = [i \in 1..more |-> Blank],
         NEW cells, cells = s \o blanks
  PROVE  cells \in Seq(Characters) /\ Padded(cells, s) /\ Len(cells) = Len(s) + more
<1>1. Blank \in Characters /\ s \in Seq(Characters) /\ Len(s) \in Nat
  BY ShellAssumption
<1>2. blanks \in Seq(Characters) /\ Len(blanks) = more /\ \A i \in 1..more : blanks[i] = Blank
  BY <1>1
<1>3. /\ s \o blanks \in Seq(Characters) /\ Len(s \o blanks) = Len(s) + Len(blanks)
      /\ \A i \in 1..(Len(s) + Len(blanks)) : (s \o blanks)[i] = IF i <= Len(s) THEN s[i] ELSE blanks[i - Len(s)]
  BY <1>1, <1>2, ConcatProperties
<1>4. cells \in Seq(Characters) /\ Len(cells) = Len(s) + more
      /\ \A i \in 1..(Len(s) + more) : cells[i] = IF i <= Len(s) THEN s[i] ELSE blanks[i - Len(s)]
  BY <1>2, <1>3
<1>5. \A i \in 1..(Len(s) + more) : cells[i] = IF i <= Len(s) THEN s[i] ELSE Blank
  BY <1>1, <1>2, <1>4
<1>6. Padded(cells, s)
  BY <1>1, <1>4, <1>5 DEF Padded
<1>. QED
  BY <1>4, <1>6

LEMMA ReplaceKeeps ==
  ASSUME ShellInv, NEW s \in Recalled, shell_replace_input(s)
  PROVE  ShellInv'
<1>1. Counters /\ (~listed => InPlace(term, InputStart, Line, cursor_pos))
  BY DEF ShellInv
<1>2. /\ buffer_len \in Nat /\ s \in Seq(Letters) /\ Len(s) \in Nat /\ Len(s) <= BUFFER_SIZE - 1
      /\ Len(Line) = buffer_len
  BY <1>1, LineTyped, ShellAssumption DEF Counters
<1>3. PICK more \in Nat : more = IF buffer_len > Len(s) THEN buffer_len - Len(s) ELSE 0
  BY <1>2
<1>4. PICK blanks : blanks = [i \in 1..more |-> Blank]
  OBVIOUS
<1>5. PICK cells : cells = s \o blanks
  OBVIOUS
<1>6. PICK see, len : see = shell_ensure_input_visible(prompt_col, prompt_row, len) /\ len = Len(s)
  OBVIOUS
<1>7. PICK n, row : n = see.scrolls /\ row = see.row
  OBVIOUS
<1>8. PICK u, from : u = Scrolled(term, n) /\ from = 0
  OBVIOUS
<1>9. PICK d : d = Drawn(u, cells, from, row)
  OBVIOUS
<1>10. /\ term' = shell_move_cursor_to(d, len, row) /\ SameLine
       /\ input_buffer' = s /\ buffer_len' = Len(s) /\ cursor_pos' = len /\ prompt_row' = row
  BY <1>3, <1>4, <1>5, <1>6, <1>7, <1>8, <1>9, Zenon DEF shell_replace_input, SameLine
<1>11. cells \in Seq(Characters) /\ Padded(cells, s) /\ Len(cells) = Len(s) + more
  BY <1>2, <1>4, <1>5, PadIs
<1>12. len \in 0..(BUFFER_SIZE - 1) /\ len \in 0..Len(s) /\ from \in 0..Len(s) /\ from <= buffer_len
       /\ buffer_len <= Len(cells) /\ \A i \in 1..from : cells[i] = Line[i]
  BY <1>2, <1>3, <1>6, <1>8, <1>11, SizesAre
<1>13. RoomMade(row, n, Len(s))
  BY <1>6, <1>7, <1>12, EnsureMakes
<1>14. ASSUME ~listed PROVE n = 0 \/ from < Len(cells)
  <2>1. SUFFICES ASSUME ~(from < Len(cells)) PROVE n = 0
    OBVIOUS
  <2>2. Len(s) = 0 /\ buffer_len = 0
    BY <1>2, <1>3, <1>8, <1>11, <2>1
  <2>3. InputStart + buffer_len < OffScreen
    BY <1>1, <1>2, <1>14 DEF InPlace
  <2>4. StartAt(prompt_row) + len < OffScreen
    BY <1>6, <2>2, <2>3 DEF InputStart
  <2>5. prompt_col \in Columns /\ prompt_row \in Nat
    BY <1>1 DEF Counters
  <2>6. see.scrolls = 0
    BY <1>6, <1>12, <2>4, <2>5, EnsureIs
  <2>. QED
    BY <1>7, <2>6
<1>15. /\ Sane(term')
       /\ ~listed => InPlace(term', StartAt(row), s, len)
       /\ ~stray => Tidy(term', StartAt(row), Len(s), len)
  BY <1>2, <1>8, <1>9, <1>10, <1>11, <1>12, <1>13, <1>14, LineChanged
<1>16. row \in Nat
  BY <1>13 DEF RoomMade
<1>. QED
  BY <1>2, <1>10, <1>12, <1>15, <1>16, LineKept

LEMMA PageKeeps ==
  ASSUME ShellInv, page_up \/ page_down
  PROVE  ShellInv'
<1>1. /\ Counters /\ Sane(term)
      /\ ~listed => InPlace(term, InputStart, Line, cursor_pos)
      /\ ~stray => Tidy(term, InputStart, buffer_len, cursor_pos)
  BY DEF ShellInv
<1>2. /\ SameLine /\ cursor_pos' = cursor_pos
      /\ input_buffer' = input_buffer /\ buffer_len' = buffer_len /\ prompt_row' = prompt_row
  BY DEF page_up, page_down, page, SameLine
<1>3. Counters' /\ Line' = Line /\ InputStart' = InputStart
  BY <1>1, <1>2 DEF Counters, SameLine, Line, InputStart, StartAt
<1>4. term' = t_scroll_view_up(term) \/ term' = t_scroll_view_down(term)
  BY DEF page_up, page_down, page
<1>5. PICK t : t = term
  OBVIOUS
<1>6. t \in Terminals /\ t.t_view_offset \in Nat /\ t.t_view_offset <= Len(t.t_scrollback)
      /\ Len(t.t_scrollback) \in Nat /\ IsTerminal(t)
  BY <1>1, <1>5 DEF Sane, IsTerminal, Terminals
<1>7. ASSUME term' # term
      PROVE  \E u : IsTerminal(u) /\ SameText(u, t) /\ u.cursor = t.cursor /\ term' = t_render_view(u)
  <2>1. CASE term' = t_scroll_view_up(term)
    <3>1. PICK k \in Nat : k = t.t_view_offset + 1
      BY <1>6
    <3>2. PICK u : u = [t EXCEPT !.t_view_offset = k]
      OBVIOUS
    <3>3. term' = t_render_view(u) /\ k <= Len(t.t_scrollback)
      BY <1>5, <1>6, <1>7, <2>1, <3>1, <3>2 DEF t_scroll_view_up
    <3>4. u \in Terminals /\ u.t_view_offset = k /\ SameText(u, t) /\ u.cursor = t.cursor
      BY <1>6, <3>2 DEF Terminals, SameText
    <3>5. IsTerminal(u)
      BY <1>6, <3>3, <3>4 DEF IsTerminal, SameText
    <3>. QED
      BY <3>3, <3>4, <3>5
  <2>2. CASE term' = t_scroll_view_down(term)
    <3>1. t.t_view_offset # 0
      BY <1>5, <1>7, <2>2 DEF t_scroll_view_down
    <3>2. PICK k \in Nat : k = t.t_view_offset - 1
      BY <1>6, <3>1
    <3>3. PICK u : u = [t EXCEPT !.t_view_offset = k]
      OBVIOUS
    <3>4. term' = t_render_view(u) /\ k <= Len(t.t_scrollback)
      BY <1>5, <1>6, <1>7, <2>2, <3>2, <3>3 DEF t_scroll_view_down
    <3>5. u \in Terminals /\ u.t_view_offset = k /\ SameText(u, t) /\ u.cursor = t.cursor
      BY <1>6, <3>3 DEF Terminals, SameText
    <3>6. IsTerminal(u)
      BY <1>6, <3>4, <3>5 DEF IsTerminal, SameText
    <3>. QED
      BY <3>4, <3>5, <3>6
  <2>. QED
    BY <1>4, <2>1, <2>2
<1>8. CASE term' = term
  BY <1>1, <1>2, <1>3, <1>8 DEF ShellInv, SameLine
<1>9. CASE term' # term
  <2>1. PICK u : IsTerminal(u) /\ SameText(u, t) /\ u.cursor = t.cursor /\ term' = t_render_view(u)
    BY <1>7, <1>9
  <2>2. PICK r : r = t_render_view(u) /\ r = term'
    BY <2>1
  <2>3. /\ IsTerminal(r) /\ SameText(r, u) /\ r.t_view_offset = u.t_view_offset
        /\ r.t_buffer = View(u) /\ View(r) = View(u)
    BY <2>1, <2>2, RenderIs
  <2>4. r.t_view_offset = 0 => View(r) = r.t_screen
    BY <2>3, ViewTyped
  <2>5. Sane(r)
    BY <2>3, <2>4 DEF Sane, Fresh
  <2>6. r.t_view_offset = 0 => CursorShown(r)
    <3>1. u \in Terminals
      BY <2>1 DEF IsTerminal
    <3>. QED
      BY <2>2, <2>3, <3>1 DEF t_render_view, vga_update_cursor, CursorShown, SameText, Terminals
  <2>7. SameText(r, t) /\ Place(r) = Place(t)
    BY <2>1, <2>3 DEF SameText, Place
  <2>8. ASSUME ~listed PROVE InPlace(r, InputStart, Line, cursor_pos)
    <3>1. InPlace(t, InputStart, Line, cursor_pos)
      BY <1>1, <1>5, <2>8
    <3>2. Written(r, InputStart, Line)
      BY <2>7, <3>1 DEF InPlace, Written, SameText
    <3>. QED
      BY <2>3, <2>6, <2>7, <3>1, <3>2 DEF InPlace, CursorShown
  <2>9. ASSUME ~stray PROVE Tidy(r, InputStart, buffer_len, cursor_pos)
    <3>1. Tidy(t, InputStart, buffer_len, cursor_pos)
      BY <1>1, <1>5, <2>9
    <3>. QED
      BY <2>7, <3>1 DEF Tidy, CleanFrom, Clean, SameText
  <2>. QED
    BY <1>2, <1>3, <2>2, <2>5, <2>8, <2>9 DEF ShellInv, SameLine
<1>. QED
  BY <1>8, <1>9

(***************************************************************************)
(* A line begins: the prompt, Enter and Ctrl-D.                            *)
(***************************************************************************)
\* A line may begin where the cursor of r is, if it could where the cursor of t was, and
\* n cells have been printed since.
Begun(r, t, n) ==
  /\ Sane(r) /\ CursorShown(r)
  /\ t.t_row \in Rows => r.t_row \in Rows /\ r.t_view_offset = 0
  /\ Leaves(r, t, n)

LEMMA NothingLeft ==
  ASSUME NEW r, NEW t, NEW n \in Nat, Leaves(r, t, n), CleanFrom(t, 0)
  PROVE  CleanFrom(r, 0)
<1>1. Left(0, n) = 0
  BY DEF Left
<1>2. CleanFrom(r, Left(0, n))
  BY DEF Leaves
<1>. QED
  BY <1>1, <1>2

\* An empty line begins where the cursor of t is.
LEMMA StartsHere ==
  ASSUME NEW t, Sane(t), CursorShown(t), t.t_row \in Rows, t.t_view_offset = 0,
         NEW line, Len(line) = 0, NEW pos, pos = 0
  PROVE  InPlace(t, Place(t), line, pos)
<1>1. Place(t) \in Int /\ IsTerminal(t) /\ Fresh(t)
  BY PlaceTyped DEF Sane
<1>2. PICK x, y : x = t.t_column /\ y = t.t_row
  OBVIOUS
<1>3. x \in Columns /\ y \in Nat /\ y \in Rows /\ Place(t) = At(x, y)
  BY <1>1, <1>2 DEF Place, IsTerminal, Terminals
<1>4. Place(t) < OffScreen
  BY <1>3, OnScreenIs
<1>5. View(t) = t.t_screen /\ t.t_buffer = t.t_screen
  BY <1>1, ViewTyped DEF Fresh
<1>6. Written(t, Place(t), line)
  <2>1. \A u \in Columns, v \in Rows : At(u, v) \in Int
    BY AtNext DEF Columns, Rows
  <2>. QED
    BY <1>1, <2>1 DEF Written
<1>7. Place(t) + Len(line) < OffScreen /\ Place(t) = Place(t) + pos
  BY <1>1, <1>4
<1>. QED
  BY <1>5, <1>6, <1>7 DEF InPlace, CursorShown

LEMMA CleanHere ==
  ASSUME NEW t, CleanFrom(t, 0), NEW len, NEW pos, len = 0, pos = 0
  PROVE  Tidy(t, Place(t), len, pos)
<1>1. len - pos = 0 /\ len = 0
  OBVIOUS
<1>. QED
  BY <1>1 DEF Tidy, CleanFrom

LEMMA LineBegins ==
  ASSUME Sane(term'), CursorShown(term'),
         ~listed' => term'.t_row \in Rows /\ term'.t_view_offset = 0,
         ~stray' => CleanFrom(term', 0),
         prompt_col' = term'.t_column, prompt_row' = term'.t_row,
         buffer_len' = 0, cursor_pos' = 0, input_buffer' \in Seq(Letters),
         collecting' \in BOOLEAN, listed' \in BOOLEAN, stray' \in BOOLEAN
  PROVE  ShellInv'
<1>1. PICK t : t = term'
  OBVIOUS
<1>2. t.t_row \in Nat /\ t.t_column \in Columns
  BY <1>1, PlaceTyped DEF Sane
<1>3. Counters'
  BY <1>1, <1>2, SizesAre DEF Counters
<1>4. InputStart' = Place(t)
  BY <1>1 DEF InputStart, StartAt, Place
<1>5. PICK line, len, pos : line = Line' /\ len = buffer_len' /\ pos = cursor_pos'
  OBVIOUS
<1>6. Len(line) = 0 /\ len = 0 /\ pos = 0
  BY <1>5 DEF Line
<1>7. ~listed' => InPlace(t, Place(t), line, pos)
  BY <1>1, <1>6, StartsHere
<1>8. ~stray' => Tidy(t, Place(t), len, pos)
  BY <1>1, <1>6, CleanHere
<1>. QED
  BY <1>1, <1>3, <1>4, <1>5, <1>7, <1>8 DEF ShellInv

LEMMA PrintSane ==
  ASSUME NEW t, Sane(t), NEW text \in Seq(Characters), NEW r, r = t_print(t, text)
  PROVE  Sane(r) /\ Printed(r, t, Len(text)) /\ Leaves(r, t, Len(text)) /\ Len(text) \in Nat
<1>1. IsTerminal(t) /\ Fresh(t)
  BY DEF Sane
<1>2. Printed(r, t, Len(text))
  BY <1>1, PrintIs
<1>. QED
  BY <1>2 DEF Printed, Sane

\* The blank that shell_prompt puts under the cursor.
LEMMA BlankIs ==
  ASSUME NEW p, Sane(p), NEW x, NEW y, x = p.t_column, y = p.t_row, NEW b, b = t_putentryat(p, Blank, x, y),
         NEW r, r = vga_update_cursor(b, x, y)
  PROVE  Begun(r, p, 0) /\ r.t_column = x /\ r.t_row = y
<1>1. /\ IsTerminal(p) /\ Fresh(p) /\ x \in Columns /\ y \in Nat /\ x \in Nat
  BY SizesAre DEF Sane, IsTerminal, Terminals, Columns
<1>2. PICK c : c = Blank
  OBVIOUS
<1>3. c \in Characters
  BY <1>2, ShellAssumption
<1>4. /\ IsTerminal(b) /\ Fresh(b)
      /\ b.t_scrollback = p.t_scrollback /\ b.t_row = p.t_row /\ b.t_column = p.t_column
      /\ PutAt(b, p, c, x, y)
      /\ OnScreen(x, y) => b.t_view_offset = 0
  BY <1>1, <1>2, <1>3, PutIs
<1>5. b \in Terminals
  BY <1>4 DEF IsTerminal
<1>6. /\ r \in Terminals /\ r.t_screen = b.t_screen /\ r.t_scrollback = b.t_scrollback
      /\ r.t_view_offset = b.t_view_offset /\ r.t_buffer = b.t_buffer
      /\ r.t_column = b.t_column /\ r.t_row = b.t_row /\ r.cursor = <<x, y>>
  BY <1>1, <1>5 DEF vga_update_cursor, Terminals
<1>7. r.t_column = x /\ r.t_row = y /\ CursorShown(r)
  BY <1>4, <1>6 DEF CursorShown
<1>8. Sane(r)
  BY <1>4, <1>6 DEF Sane, IsTerminal, Fresh
<1>9. p.t_row \in Rows => r.t_row \in Rows /\ r.t_view_offset = 0
  BY <1>1, <1>4, <1>6 DEF OnScreen
<1>10. Place(r) = Place(p)
  BY <1>7 DEF Place
<1>11. \A a : Clean(p, a) => Clean(r, a)
  BY <1>2, <1>4, <1>6 DEF Clean, PutAt
<1>12. Leaves(r, p, 0)
  <2>1. \A k \in Nat : Left(k, 0) = k
    BY DEF Left
  <2>. QED
    BY <1>10, <1>11, <2>1 DEF Leaves, CleanFrom
<1>. QED
  BY <1>7, <1>8, <1>9, <1>12 DEF Begun

LEMMA PromptIs ==
  ASSUME NEW t, Sane(t), NEW p, p = t_print(t, PromptText),
         NEW x, NEW y, x = p.t_column, y = p.t_row, NEW b, b = t_putentryat(p, Blank, x, y),
         NEW r, r = vga_update_cursor(b, x, y)
  PROVE  Begun(r, t, Len(PromptText)) /\ r.t_column = x /\ r.t_row = y
<1>1. PromptText \in Seq(Characters)
  BY ShellAssumption
<1>2. Sane(p) /\ Printed(p, t, Len(PromptText)) /\ Leaves(p, t, Len(PromptText)) /\ Len(PromptText) \in Nat
  BY <1>1, PrintSane
<1>3. Begun(r, p, 0) /\ r.t_column = x /\ r.t_row = y
  BY <1>2, BlankIs
<1>4. PICK n \in Nat, m \in Nat : n = Len(PromptText) /\ m = 0 /\ n + m = n
  BY <1>2
<1>5. Leaves(r, p, m) /\ Leaves(p, t, n)
  BY <1>2, <1>3, <1>4 DEF Begun
<1>6. Leaves(r, t, n + m)
  BY <1>5, LeavesMore
<1>. QED
  BY <1>2, <1>3, <1>4, <1>6 DEF Begun, Printed

\* The terminal after Enter, or after a command that has printed, or cleared the screen.
Ended(t) == Sane(t) /\ CursorShown(t) /\ t.t_row \in Rows /\ t.t_view_offset = 0

LEMMA EnteredIs ==
  ASSUME ShellInv, NEW r, r = Entered
  PROVE  Ended(r) /\ (~stray => CleanFrom(r, 0))
<1>1. Counters /\ Sane(term) /\ (~stray => Tidy(term, InputStart, buffer_len, cursor_pos))
  BY DEF ShellInv
<1>2. /\ prompt_col \in Columns /\ prompt_row \in Nat /\ buffer_len \in Nat
      /\ buffer_len \in 0..(BUFFER_SIZE - 1)
  BY <1>1, SizesAre DEF Counters
<1>3. PICK see : see = shell_ensure_input_visible(prompt_col, prompt_row, buffer_len)
  OBVIOUS
<1>4. PICK n, row : n = see.scrolls /\ row = see.row
  OBVIOUS
<1>5. n \in Nat /\ row \in Nat
  BY <1>2, <1>3, <1>4, EnsureIs
<1>6. Row(buffer_len, prompt_col, row) \in Rows
  BY <1>2, <1>3, <1>4, EnsureIs
<1>7. StartAt(row) = InputStart - n * TERMINAL_WIDTH
  BY <1>2, <1>3, <1>4, EnsureIs DEF InputStart
<1>8. PICK u : u = Scrolled(term, n)
  OBVIOUS
<1>9. ScrolledBy(u, term, n)
  BY <1>1, <1>5, <1>8, ScrollsIs
<1>10. PICK x, y : x = Col(buffer_len, prompt_col) /\ y = Row(buffer_len, prompt_col, row)
  OBVIOUS
<1>11. x \in Columns /\ y \in Nat /\ y \in Rows /\ At(x, y) = StartAt(row) + buffer_len
  BY <1>2, <1>5, <1>6, <1>10, PositionIs DEF StartAt
<1>12. PICK m : m = [u EXCEPT !.t_column = x, !.t_row = y]
  OBVIOUS
<1>13. r = t_putchar(m, NL)
  BY <1>3, <1>4, <1>8, <1>10, <1>12 DEF Entered
<1>14. u \in Terminals /\ IsTerminal(u) /\ Fresh(u)
  BY <1>9 DEF ScrolledBy, Sane, IsTerminal
<1>15. /\ m \in Terminals /\ m.t_screen = u.t_screen /\ m.t_scrollback = u.t_scrollback
       /\ m.t_view_offset = u.t_view_offset /\ m.t_buffer = u.t_buffer
       /\ m.t_column = x /\ m.t_row = y
  BY <1>11, <1>12, <1>14 DEF Terminals
<1>16. IsTerminal(m) /\ Fresh(m) /\ m.t_row \in Rows /\ Place(m) = StartAt(row) + buffer_len
  BY <1>11, <1>14, <1>15 DEF IsTerminal, Fresh, Place
<1>17. PICK c : c = NL
  OBVIOUS
<1>18. /\ IsTerminal(r) /\ Fresh(r) /\ r.t_view_offset = 0
       /\ r.cursor = <<r.t_column, r.t_row>>
       /\ m.t_row \in Rows => r.t_row \in Rows
       /\ Leaves(r, m, 1)
  BY <1>13, <1>16, <1>17, CharIs
<1>19. Ended(r)
  BY <1>16, <1>18 DEF Ended, Sane, CursorShown
<1>20. ASSUME ~stray PROVE CleanFrom(r, 0)
  <2>1. Clean(term, InputStart + buffer_len)
    BY <1>1, <1>20 DEF Tidy
  <2>2. InputStart \in Int /\ n * TERMINAL_WIDTH \in Int
    BY <1>2, <1>5, StartTyped, SizesAre DEF InputStart
  <2>3. PICK a \in Int, b \in Int : a = InputStart + buffer_len /\ b = a - n * TERMINAL_WIDTH
    BY <1>2, <2>2
  <2>4. MovedUp(u, term, n)
    BY <1>9 DEF ScrolledBy
  <2>5. b \in Int /\ Clean(u, b)
    BY <1>5, <2>1, <2>3, <2>4, CleanUp
  <2>6. Place(m) + 0 = b
    BY <1>2, <1>7, <1>16, <2>2, <2>3
  <2>7. CleanFrom(m, 0)
    BY <1>15, <2>5, <2>6 DEF CleanFrom, Clean
  <2>8. PICK one \in Nat : one = 1
    OBVIOUS
  <2>9. Leaves(r, m, one)
    BY <1>18, <2>8
  <2>. QED
    BY <2>7, <2>9, NothingLeft
<1>. QED
  BY <1>19, <1>20

LEMMA ClearIs ==
  ASSUME NEW t, t = t_clear
  PROVE  Ended(t) /\ CleanFrom(t, 0)
<1>1. BlankScreen \in Screens /\ 0 \in Columns /\ 0 \in Rows
  BY ShellAssumption, SizesAre DEF BlankScreen, BlankRow, Screens, CellRows, Columns, Rows
<1>2. /\ t.t_screen = BlankScreen /\ t.t_scrollback = <<>> /\ t.t_view_offset = 0
      /\ t.t_row = 0 /\ t.t_column = 0 /\ t.t_buffer = BlankScreen /\ t.cursor = <<0, 0>>
  BY DEF t_clear
<1>3. t \in Terminals
  <2>1. <<0, 0>> \in Nat \X Nat /\ <<>> \in Seq(CellRows) /\ 0 \in Nat
    OBVIOUS
  <2>. QED
    BY <1>1, <2>1 DEF t_clear, Terminals
<1>4. Len(t.t_scrollback) = 0
  BY <1>2
<1>5. Sane(t) /\ CursorShown(t)
  BY <1>2, <1>3, <1>4, SizesAre DEF Sane, IsTerminal, Fresh, CursorShown
<1>6. CleanFrom(t, 0)
  BY <1>2 DEF CleanFrom, Clean, BlankScreen, BlankRow
<1>. QED
  BY <1>1, <1>2, <1>5, <1>6 DEF Ended

LEMMA CommandIs ==
  ASSUME ShellInv, NEW o \in Outputs, NEW t, t = AfterCommand(o)
  PROVE  Ended(t) /\ (~stray \/ o = <<"clear">> => CleanFrom(t, 0))
<1>1. CASE o = <<"clear">>
  <2>1. t = t_clear
    BY <1>1 DEF AfterCommand
  <2>. QED
    BY <2>1, ClearIs
<1>2. CASE o # <<"clear">>
  <2>1. PICK e : e = Entered
    OBVIOUS
  <2>2. Ended(e) /\ (~stray => CleanFrom(e, 0))
    BY <2>1, EnteredIs
  <2>3. t = t_print(e, o)
    BY <1>2, <2>1 DEF AfterCommand
  <2>4. o \in Seq(Characters) /\ Sane(e)
    BY <1>2, <2>2, ShellAssumption DEF Ended
  <2>5. Sane(t) /\ Printed(t, e, Len(o)) /\ Leaves(t, e, Len(o)) /\ Len(o) \in Nat
    BY <2>3, <2>4, PrintSane
  <2>6. Ended(t)
    BY <2>2, <2>5 DEF Ended, Printed, CursorShown
  <2>7. CleanFrom(e, 0) => CleanFrom(t, 0)
    BY <2>5, NothingLeft
  <2>. QED
    BY <1>2, <2>2, <2>6, <2>7
<1>. QED
  BY <1>1, <1>2

LEMMA ProcessKeeps ==
  ASSUME ShellInv, NEW o \in Outputs, shell_process(o)
  PROVE  ShellInv'
<1>1. PICK t : t = AfterCommand(o)
  OBVIOUS
<1>2. Ended(t) /\ (~stray \/ o = <<"clear">> => CleanFrom(t, 0))
  BY <1>1, CommandIs
<1>3. /\ buffer_len' = 0 /\ cursor_pos' = 0 /\ input_buffer' = Line /\ listed' = FALSE
      /\ stray' = (stray /\ o # <<"clear">>)
  BY DEF shell_process
<1>4. Counters
  BY DEF ShellInv
<1>5. /\ input_buffer' \in Seq(Letters) /\ listed' \in BOOLEAN /\ stray' \in BOOLEAN
      /\ collecting' \in BOOLEAN
  BY <1>3, <1>4, LineTyped DEF Counters, shell_process
<1>6. ~stray' => CleanFrom(t, 0)
  BY <1>2, <1>3
<1>7. /\ Sane(term') /\ CursorShown(term') /\ term'.t_row \in Rows /\ term'.t_view_offset = 0
      /\ CleanFrom(t, 0) => CleanFrom(term', 0)
      /\ prompt_col' = term'.t_column /\ prompt_row' = term'.t_row
  <2>1. CASE shell_prompt(t)
    <3>1. PICK p : p = t_print(t, PromptText)
      OBVIOUS
    <3>2. PICK x, y : x = p.t_column /\ y = p.t_row
      OBVIOUS
    <3>3. PICK b : b = t_putentryat(p, Blank, x, y)
      OBVIOUS
    <3>4. term' = vga_update_cursor(b, x, y) /\ prompt_col' = x /\ prompt_row' = y
      BY <2>1, <3>1, <3>2, <3>3 DEF shell_prompt
    <3>5. PICK r : r = term'
      OBVIOUS
    <3>6. Begun(r, t, Len(PromptText)) /\ r.t_column = x /\ r.t_row = y
      BY <1>2, <3>1, <3>2, <3>3, <3>4, <3>5, PromptIs DEF Ended
    <3>7. Len(PromptText) \in Nat
      BY ShellAssumption
    <3>8. CleanFrom(t, 0) => CleanFrom(r, 0)
      BY <3>6, <3>7, NothingLeft DEF Begun
    <3>. QED
      BY <1>2, <3>4, <3>5, <3>6, <3>8 DEF Begun, Ended
  <2>2. CASE NoPrompt(t)
    <3>1. PICK r : r = term'
      OBVIOUS
    <3>2. r = vga_update_cursor(t, t.t_column, t.t_row)
          /\ prompt_col' = t.t_column /\ prompt_row' = t.t_row
      BY <2>2, <3>1 DEF NoPrompt
    <3>3. t \in Terminals /\ t.t_column \in Nat /\ t.t_row \in Nat
      BY <1>2, SizesAre DEF Ended, Sane, IsTerminal, Terminals, Columns
    <3>4. /\ r \in Terminals /\ r.t_screen = t.t_screen /\ r.t_scrollback = t.t_scrollback
          /\ r.t_view_offset = t.t_view_offset /\ r.t_buffer = t.t_buffer
          /\ r.t_column = t.t_column /\ r.t_row = t.t_row /\ r.cursor = <<t.t_column, t.t_row>>
      BY <3>2, <3>3 DEF vga_update_cursor, Terminals
    <3>5. Sane(r) /\ CursorShown(r)
      BY <1>2, <3>4 DEF Ended, Sane, IsTerminal, Fresh, CursorShown
    <3>6. CleanFrom(t, 0) => CleanFrom(r, 0)
      BY <3>4 DEF CleanFrom, Clean, Place
    <3>. QED
      BY <1>2, <3>1, <3>2, <3>4, <3>5, <3>6 DEF Ended
  <2>. QED
    BY <1>1, <2>1, <2>2 DEF shell_process
<1>. QED
  BY <1>3, <1>5, <1>6, <1>7, LineBegins

LEMMA EofKeeps ==
  ASSUME ShellInv, eof
  PROVE  ShellInv'
<1>1. /\ Counters /\ Sane(term)
      /\ ~listed => InPlace(term, InputStart, Line, cursor_pos)
      /\ ~stray => Tidy(term, InputStart, buffer_len, cursor_pos)
  BY DEF ShellInv
<1>2. PICK t : t = t_print(term, EofText)
  OBVIOUS
<1>3. EofText \in Seq(Characters) /\ PromptText \in Seq(Characters)
  BY ShellAssumption
<1>4. Sane(t) /\ Printed(t, term, Len(EofText)) /\ Leaves(t, term, Len(EofText)) /\ Len(EofText) \in Nat
  BY <1>1, <1>2, <1>3, PrintSane
<1>5. PICK p : p = t_print(t, PromptText)
  OBVIOUS
<1>6. PICK x, y : x = p.t_column /\ y = p.t_row
  OBVIOUS
<1>7. PICK b : b = t_putentryat(p, Blank, x, y)
  OBVIOUS
<1>8. /\ term' = vga_update_cursor(b, x, y) /\ prompt_col' = x /\ prompt_row' = y
      /\ buffer_len' = 0 /\ cursor_pos' = 0 /\ input_buffer' = <<>> /\ collecting' = FALSE
      /\ stray' = (stray \/ cursor_pos < buffer_len) /\ listed' = listed
  BY <1>2, <1>5, <1>6, <1>7 DEF eof, shell_prompt
<1>9. PICK r : r = term'
  OBVIOUS
<1>10. Begun(r, t, Len(PromptText)) /\ r.t_column = x /\ r.t_row = y
  BY <1>4, <1>5, <1>6, <1>7, <1>8, <1>9, PromptIs
<1>11. ASSUME ~listed PROVE r.t_row \in Rows /\ r.t_view_offset = 0
  <2>1. term.t_row \in Rows
    <3>1. InputStart + Len(Line) < OffScreen /\ Place(term) = InputStart + cursor_pos
      BY <1>1, <1>11 DEF InPlace
    <3>2. PICK u, v : u = term.t_column /\ v = term.t_row
      OBVIOUS
    <3>3. u \in Columns /\ v \in Nat /\ Place(term) = At(u, v)
      BY <1>1, <3>2 DEF Sane, IsTerminal, Terminals, Place
    <3>4. Len(Line) = buffer_len /\ cursor_pos <= buffer_len /\ cursor_pos \in Nat
          /\ buffer_len \in Nat /\ InputStart \in Int /\ OffScreen \in Int
      BY <1>1, LineTyped, StartTyped, SizesAre DEF Counters, InputStart, OffScreen
    <3>5. At(u, v) < OffScreen
      BY <3>1, <3>3, <3>4
    <3>. QED
      BY <3>2, <3>3, <3>5, OnScreenIs
  <2>. QED
    BY <1>4, <1>10, <2>1 DEF Printed, Begun
<1>12. ASSUME ~stray' PROVE CleanFrom(r, 0)
  <2>1. ~stray /\ buffer_len - cursor_pos = 0
    <3>1. ~(stray \/ cursor_pos < buffer_len)
      BY <1>8, <1>12, Zenon
    <3>2. buffer_len \in Nat /\ cursor_pos \in 0..buffer_len
      BY <1>1, SizesAre DEF Counters
    <3>3. ~stray /\ ~(cursor_pos < buffer_len)
      BY <3>1
    <3>. QED
      BY <3>2, <3>3
  <2>2. CleanFrom(term, 0)
    BY <1>1, <2>1 DEF Tidy
  <2>3. CleanFrom(t, 0)
    BY <1>4, <2>2, NothingLeft
  <2>4. Len(PromptText) \in Nat
    BY <1>3
  <2>. QED
    BY <1>10, <2>3, <2>4, NothingLeft DEF Begun
<1>13. /\ input_buffer' \in Seq(Letters) /\ listed' \in BOOLEAN /\ stray' \in BOOLEAN
       /\ collecting' \in BOOLEAN
  <2>1. stray' \in BOOLEAN
    BY <1>8, Zenon
  <2>2. input_buffer' \in Seq(Letters)
    BY <1>8
  <2>3. collecting' \in BOOLEAN
    BY <1>8
  <2>4. listed' \in BOOLEAN
    BY <1>1, <1>8 DEF Counters
  <2>. QED
    BY <2>1, <2>2, <2>3, <2>4
<1>14. Sane(term') /\ CursorShown(term') /\ prompt_col' = term'.t_column /\ prompt_row' = term'.t_row
  BY <1>8, <1>9, <1>10 DEF Begun
<1>15. ~listed' => term'.t_row \in Rows /\ term'.t_view_offset = 0
  BY <1>8, <1>9, <1>11
<1>16. ~stray' => CleanFrom(term', 0)
  BY <1>9, <1>12
<1>. QED
  BY <1>8, <1>13, <1>14, <1>15, <1>16, LineBegins

(***************************************************************************)
(* Tab.                                                                    *)
(***************************************************************************)
LEMMA RestOf ==
  ASSUME NEW s \in Seq(Letters), NEW i \in Nat, NEW r, r = SubSeq(s, i + 1, Len(s))
  PROVE  r \in Seq(Letters)
<1>1. Len(s) \in Int /\ i + 1 \in Int
  OBVIOUS
<1>2. \A k \in (i + 1)..Len(s) : s[k] \in Letters
  BY ElementOfSeq
<1>. QED
  BY <1>1, <1>2, SubSeqProperties

\* What stands behind the last c of s.
LEMMA AfterIs ==
  ASSUME NEW c, NEW s \in Seq(Letters)
  PROVE  After(c, s) \in Seq(Letters) /\ Len(After(c, s)) \in Nat
<1> DEFINE Matches == {i \in 1..Len(s) : s[i] = c}
           k == IF Contains(s, c) THEN SelectLastInSeq(s, LAMBDA x : x = c) ELSE 0
<1>1. ASSUME Contains(s, c) PROVE SelectLastInSeq(s, LAMBDA x : x = c) \in Nat
  <2>1. SelectLastInSeq(s, LAMBDA x : x = c) = IF Matches # {} THEN Max(Matches) ELSE 0
    BY DEF SelectLastInSeq
  <2>2. Matches # {} /\ Matches \subseteq Nat
    BY <1>1 DEF Contains
  <2>3. Max(Matches) \in Matches
    <3>1. \E x \in Matches : \A y \in Matches : x >= y
      <4>. DEFINE Gaps == {Len(s) - i : i \in Matches}
      <4>1. Gaps \subseteq Nat /\ Gaps # {}
        BY <2>2
      <4>2. PICK g \in Gaps : \A h \in Gaps : g <= h
        <5>. HIDE DEF Gaps
        <5>. QED
          BY <4>1, LeastNumber
      <4>3. PICK x \in Matches : g = Len(s) - x
        OBVIOUS
      <4>4. ASSUME NEW y \in Matches PROVE x >= y
        <5>1. Len(s) - y \in Gaps
          OBVIOUS
        <5>2. Len(s) - x <= Len(s) - y
          BY <4>2, <4>3, <5>1
        <5>3. Len(s) \in Int /\ x \in Int /\ y \in Int
          OBVIOUS
        <5>. QED
          BY <5>2, <5>3
      <4>. QED
        BY <4>4
    <3>. HIDE DEF Matches
    <3>. QED
      BY <3>1 DEF Max
  <2>. HIDE DEF Matches
  <2>. QED
    BY <2>1, <2>2, <2>3
<1>2. k \in Nat
  BY <1>1
<1>. HIDE DEF k
<1>3. After(c, s) = SubSeq(s, k + 1, Len(s))
  BY DEF After, k
<1>4. After(c, s) \in Seq(Letters)
  BY <1>2, <1>3, RestOf
<1>. QED
  BY <1>4

\* There is a longest common prefix.
LEMMA CommonIs ==
  ASSUME NEW S, S # {}, S \subseteq Seq(Letters)
  PROVE  LongestCommonPrefix(S) \in Seq(Letters)
<1> DEFINE C == CommonPrefixes(S)
<1>1. PICK s \in S : TRUE
  OBVIOUS
<1>2. s \in Seq(Letters) /\ Len(s) \in Nat
  OBVIOUS
<1>3. \A p \in C : p \in Seq(Letters) /\ Len(p) \in Nat /\ Len(p) <= Len(s)
  <2>1. SUFFICES ASSUME NEW p \in C PROVE p \in Seq(Letters) /\ Len(p) \in Nat /\ Len(p) <= Len(s)
    OBVIOUS
  <2>2. \E q \in S : p \in Prefixes(q)
    BY <2>1 DEF CommonPrefixes
  <2>3. PICK q, l : q \in S /\ l \in 0..Len(q) /\ p = SubSeq(q, 1, l)
    BY <2>2 DEF Prefixes
  <2>4. q \in Seq(Letters)
    BY <2>3
  <2>5. p \in Seq(Letters)
    BY <2>3, <2>4
  <2>6. IsPrefix(p, s)
    BY <2>1 DEF CommonPrefixes
  <2>. QED
    BY <2>5, <2>6 DEF IsPrefix
<1>4. C # {}
  <2>1. PICK e : e = SubSeq(s, 1, 0)
    OBVIOUS
  <2>2. Len(e) = 0
    BY <2>1
  <2>3. e \in Prefixes(s)
    BY <1>2, <2>1 DEF Prefixes
  <2>4. ASSUME NEW t \in S PROVE IsPrefix(e, t)
    <3>1. t \in Seq(Letters)
      OBVIOUS
    <3>2. SubSeq(e, 1, 0) = SubSeq(t, 1, 0)
      BY SubSeqEmpty
    <3>. QED
      BY <2>2, <3>1, <3>2 DEF IsPrefix
  <2>. QED
    BY <2>3, <2>4 DEF CommonPrefixes
<1>. HIDE DEF C
<1>5. \E p \in C : \A q \in C : Len(q) <= Len(p)
  <2>. DEFINE Gaps == {Len(s) - Len(p) : p \in C}
  <2>1. Gaps \subseteq Nat /\ Gaps # {}
    BY <1>2, <1>3, <1>4
  <2>2. PICK g \in Gaps : \A h \in Gaps : g <= h
    <3>. HIDE DEF Gaps
    <3>. QED
      BY <2>1, LeastNumber
  <2>3. PICK p \in C : g = Len(s) - Len(p)
    OBVIOUS
  <2>4. ASSUME NEW q \in C PROVE Len(q) <= Len(p)
    <3>1. Len(s) - Len(q) \in Gaps
      OBVIOUS
    <3>2. Len(s) - Len(p) <= Len(s) - Len(q)
      BY <2>2, <2>3, <3>1
    <3>. QED
      BY <1>2, <1>3, <3>2
  <2>. QED
    BY <2>4
<1>6. LongestCommonPrefix(S) \in C
  BY <1>5 DEF LongestCommonPrefix, C
<1>. QED
  BY <1>3, <1>6

LEMMA RestIs ==
  ASSUME Counters
  PROVE  autocomplete_input.rest \in Seq(Letters)
<1>1. input_buffer \in Seq(Letters) /\ Len(input_buffer) \in Nat
  BY DEF Counters
<1>2. PICK none : none = <<>>
  OBVIOUS
<1>3. none \in Seq(Letters)
  BY <1>2
<1>4. autocomplete_command.rest \in Seq(Letters)
  <2>. DEFINE found == {n \in Names : IsPrefix(input_buffer, n)}
              name  == CHOOSE n \in found : TRUE
              only  == SubSeq(name, Len(input_buffer) + 1, Len(name))
  <2>1. autocomplete_command.rest = IF Cardinality(found) # 1 THEN none ELSE only
    BY <1>2 DEF autocomplete_command
  <2>2. ASSUME Cardinality(found) = 1 PROVE only \in Seq(Letters)
    <3>1. found # {}
      <4>. SUFFICES ASSUME found = {} PROVE FALSE
        OBVIOUS
      <4>1. Cardinality(found) = 0
        BY FS_EmptySet
      <4>. QED
        BY <2>2, <4>1
    <3>2. name \in found
      BY <3>1
    <3>3. name \in Seq(Letters)
      BY <3>2, ShellAssumption
    <3>. HIDE DEF name, found
    <3>. QED
      BY <1>1, <3>3, RestOf
  <2>. HIDE DEF only, found
  <2>. QED
    BY <1>3, <2>1, <2>2
<1>5. ASSUME NEW word \in Seq(Letters)
      PROVE  autocomplete_path(word).rest \in Seq(Letters)
  <2>. DEFINE prefix == After(Slash, word)
              found  == {f \in FilesFor(word) : IsPrefix(prefix, f.name)}
              all    == {f.name : f \in found}
              common == LongestCommonPrefix(all)
              more   == SubSeq(common, Len(prefix) + 1, Len(common))
              end    == IF Cardinality(found) = 1 /\ \A f \in found : f.dir THEN <<Slash>> ELSE <<>>
  <2>1. autocomplete_path(word).rest = IF found = {} THEN none ELSE more \o end
    BY <1>2 DEF autocomplete_path
  <2>2. ASSUME found # {} PROVE more \o end \in Seq(Letters)
    <3>1. all # {} /\ all \subseteq Seq(Letters)
      BY <2>2, ShellAssumption DEF FilesFor
    <3>2. Len(prefix) \in Nat
      BY AfterIs
    <3>3. <<Slash>> \in Seq(Letters) /\ <<>> \in Seq(Letters)
      BY ShellAssumption
    <3>4. end \in Seq(Letters)
      BY <3>3
    <3>. HIDE DEF all, prefix, end
    <3>5. common \in Seq(Letters)
      BY <3>1, CommonIs
    <3>. HIDE DEF common
    <3>6. more \in Seq(Letters)
      BY <3>2, <3>5, RestOf
    <3>. HIDE DEF more
    <3>. QED
      BY <3>4, <3>6, ConcatProperties
  <2>. HIDE DEF more, end, found
  <2>. QED
    BY <1>3, <2>1, <2>2
<1>6. After(Space, input_buffer) \in Seq(Letters)
  BY <1>1, AfterIs
<1>. QED
  BY <1>4, <1>5, <1>6 DEF autocomplete_input

\* What Tab has typed: nothing, or text redrawn from the cursor on.
NothingTyped(c) ==
  /\ c.term = term /\ c.text = input_buffer /\ c.len = buffer_len /\ c.pos = cursor_pos
  /\ c.row = prompt_row

SomeTyped(c, n) ==
  /\ c.text \in Seq(Letters) /\ Len(c.text) <= BUFFER_SIZE - 1 /\ c.len = Len(c.text)
  /\ buffer_len <= Len(c.text) + 1 /\ cursor_pos \in 0..Len(c.text)
  /\ \A i \in 1..cursor_pos : c.text[i] = Line[i]
  /\ c.pos \in 0..Len(c.text)
  /\ RoomMade(c.row, n, Len(c.text))
  /\ c.term = shell_redraw_from(Scrolled(term, n), c.text, cursor_pos, c.pos, c.row)

LEMMA TypedIs ==
  ASSUME ShellInv, NEW rest \in Seq(Letters), NEW c, c = Typed(rest)
  PROVE  NothingTyped(c) \/ \E n : SomeTyped(c, n)
<1>1. Counters
  BY DEF ShellInv
<1>2. /\ buffer_len \in Nat /\ cursor_pos \in 0..buffer_len /\ buffer_len <= BUFFER_SIZE - 1
      /\ Len(Line) = buffer_len /\ Line \in Seq(Letters) /\ BUFFER_SIZE \in Nat
  BY <1>1, LineTyped, SizesAre DEF Counters
<1>3. PICK room \in Nat : room = BUFFER_SIZE - 1 - buffer_len
  BY <1>2
<1>4. PICK m \in Nat : m = IF Len(rest) > room THEN room ELSE Len(rest)
  OBVIOUS
<1>5. PICK added : added = SubSeq(rest, 1, m)
  OBVIOUS
<1>6. added \in Seq(Letters) /\ Len(added) = m /\ m <= room
  BY <1>4, <1>5
<1>7. PICK len : len = buffer_len + Len(added)
  OBVIOUS
<1>8. len \in 0..(BUFFER_SIZE - 1) /\ len \in Nat
  BY <1>2, <1>3, <1>6, <1>7
<1>9. PICK see : see = shell_ensure_input_visible(prompt_col, prompt_row, len)
  OBVIOUS
<1>10. PICK a, b : a = SubSeq(Line, 1, cursor_pos) /\ b = SubSeq(Line, cursor_pos + 1, buffer_len)
  OBVIOUS
<1>11. PICK text, pos : text = a \o added \o b /\ pos = cursor_pos + Len(added)
  OBVIOUS
<1>12. PICK drawn : drawn = shell_redraw_from(Scrolled(term, see.scrolls), text, cursor_pos, pos, see.row)
  OBVIOUS
<1>13. c = IF added = <<>>
           THEN [term |-> term, text |-> input_buffer, len |-> buffer_len, pos |-> cursor_pos,
                 row |-> prompt_row]
           ELSE [term |-> drawn, text |-> text, len |-> Len(text), pos |-> pos, row |-> see.row]
  BY <1>3, <1>4, <1>5, <1>7, <1>9, <1>10, <1>11, <1>12, Zenon DEF Typed
<1>14. CASE added = <<>>
  BY <1>13, <1>14 DEF NothingTyped
<1>15. CASE added # <<>>
  <2>1. c = [term |-> drawn, text |-> text, len |-> Len(text), pos |-> pos, row |-> see.row]
    BY <1>13, <1>15
  <2>2. a \in Seq(Letters) /\ Len(a) = cursor_pos /\ \A i \in 1..cursor_pos : a[i] = Line[i]
    BY <1>2, <1>10
  <2>3. b \in Seq(Letters) /\ Len(b) = buffer_len - cursor_pos
    BY <1>2, <1>10
  <2>4. PICK x : x = Joined(a, added)
    OBVIOUS
  <2>5. x \in Seq(Letters) /\ Continues(x, a, Len(added))
    BY <1>6, <2>2, <2>4, JoinIs
  <2>6. text = Joined(x, b)
    BY <1>11, <2>4 DEF Joined
  <2>7. text \in Seq(Letters) /\ Continues(text, x, Len(b))
    BY <2>3, <2>5, <2>6, JoinIs
  <2>8. Len(x) = cursor_pos + m /\ Len(text) = cursor_pos + m + (buffer_len - cursor_pos)
    BY <1>6, <2>2, <2>3, <2>5, <2>7 DEF Continues
  <2>9. Len(text) = len
    BY <1>2, <1>6, <1>7, <2>8
  <2>10. \A i \in 1..cursor_pos : text[i] = Line[i]
    <3>1. \A i \in 1..cursor_pos : i \in 1..Len(a) /\ i \in 1..Len(x)
      BY <1>2, <1>6, <2>2, <2>8
    <3>. QED
      BY <2>2, <2>5, <2>7, <3>1 DEF Continues
  <2>11. /\ pos \in 0..Len(text) /\ cursor_pos \in 0..Len(text) /\ buffer_len <= Len(text) + 1
         /\ Len(text) <= BUFFER_SIZE - 1
    BY <1>2, <1>6, <1>7, <1>8, <1>11, <2>9
  <2>12. PICK n, row : n = see.scrolls /\ row = see.row
    OBVIOUS
  <2>13. RoomMade(row, n, Len(text))
    BY <1>8, <1>9, <2>9, <2>12, EnsureMakes
  <2>14. c.term = drawn /\ c.text = text /\ c.len = Len(text) /\ c.pos = pos /\ c.row = row
    BY <2>1, <2>12
  <2>15. SomeTyped(c, n)
    BY <1>12, <2>7, <2>10, <2>11, <2>12, <2>13, <2>14 DEF SomeTyped
  <2>. QED
    BY <2>15
<1>. QED
  BY <1>14, <1>15

LEMMA CompleteKeeps ==
  ASSUME ShellInv, NEW rest \in Seq(Letters), complete(Typed(rest))
  PROVE  ShellInv'
<1>1. PICK c : c = Typed(rest)
  OBVIOUS
<1>2. /\ input_buffer' = c.text /\ buffer_len' = c.len /\ cursor_pos' = c.pos
      /\ term' = c.term /\ prompt_row' = c.row /\ SameLine
  BY <1>1 DEF complete, Completed, SameLine
<1>3. CASE NothingTyped(c)
  <2>1. /\ input_buffer' = input_buffer /\ buffer_len' = buffer_len /\ cursor_pos' = cursor_pos
        /\ term' = term /\ prompt_row' = prompt_row
    BY <1>2, <1>3 DEF NothingTyped
  <2>2. Counters' /\ Line' = Line /\ InputStart' = InputStart
    BY <1>2, <2>1 DEF ShellInv, Counters, SameLine, Line, InputStart, StartAt
  <2>. QED
    BY <1>2, <2>1, <2>2 DEF ShellInv, SameLine
<1>4. ASSUME NEW n, SomeTyped(c, n) PROVE ShellInv'
  <2>1. PICK text, pos, row, from : text = c.text /\ pos = c.pos /\ row = c.row /\ from = cursor_pos
    OBVIOUS
  <2>2. PICK u : u = Scrolled(term, n)
    OBVIOUS
  <2>3. term' = shell_redraw_from(u, text, from, pos, row)
    BY <1>2, <1>4, <2>1, <2>2 DEF SomeTyped
  <2>4. /\ text \in Seq(Letters) /\ Len(text) <= BUFFER_SIZE - 1
        /\ RoomMade(row, n, Len(text)) /\ buffer_len <= Len(text) + 1
        /\ from \in 0..Len(text) /\ \A i \in 1..from : text[i] = Line[i]
        /\ pos \in 0..Len(text)
    BY <1>4, <2>1 DEF SomeTyped
  <2>5. from <= buffer_len
    BY <2>1, SizesAre DEF ShellInv, Counters
  <2>6. /\ input_buffer' = text /\ buffer_len' = Len(text) /\ cursor_pos' = pos /\ prompt_row' = row
    BY <1>2, <1>4, <2>1 DEF SomeTyped
  <2>7. Edit(u, text, from, pos, row)
    BY <1>2, <2>3, <2>6 DEF Edit, SameLine
  <2>. QED
    BY <2>2, <2>4, <2>5, <2>7, EditKeeps
<1>. QED
  BY <1>1, <1>3, <1>4, TypedIs

\* What Tab leaves when it then lists names.
LEMMA TypedLeaves ==
  ASSUME ShellInv, NEW rest \in Seq(Letters), NEW c, c = Typed(rest)
  PROVE  /\ Sane(c.term) /\ c.text \in Seq(Letters) /\ c.len \in 0..(BUFFER_SIZE - 1)
         /\ c.len <= Len(c.text) /\ c.pos \in 0..c.len
         /\ ~stray => CleanFrom(c.term, c.len - c.pos)
<1>1. CASE NothingTyped(c)
  BY <1>1 DEF NothingTyped, ShellInv, Counters, Tidy
<1>2. ASSUME NEW n, SomeTyped(c, n)
      PROVE  /\ Sane(c.term) /\ c.text \in Seq(Letters) /\ c.len \in 0..(BUFFER_SIZE - 1)
             /\ c.len <= Len(c.text) /\ c.pos \in 0..c.len
             /\ ~stray => CleanFrom(c.term, c.len - c.pos)
  <2>1. PICK text, pos, row, from, r :
          text = c.text /\ pos = c.pos /\ row = c.row /\ from = cursor_pos /\ r = c.term
    OBVIOUS
  <2>2. PICK u : u = Scrolled(term, n)
    OBVIOUS
  <2>3. r = shell_redraw_from(u, text, from, pos, row)
    BY <1>2, <2>1, <2>2 DEF SomeTyped
  <2>4. /\ text \in Seq(Letters) /\ Len(text) <= BUFFER_SIZE - 1
        /\ RoomMade(row, n, Len(text)) /\ buffer_len <= Len(text) + 1
        /\ from \in 0..Len(text) /\ \A i \in 1..from : text[i] = Line[i]
        /\ pos \in 0..Len(text)
    BY <1>2, <2>1 DEF SomeTyped
  <2>5. from <= buffer_len
    BY <2>1, SizesAre DEF ShellInv, Counters
  <2>6. Sane(r) /\ (~stray => Tidy(r, StartAt(row), Len(text), pos))
    BY <2>2, <2>3, <2>4, <2>5, Redrawn
  <2>7. c.len = Len(text)
    BY <1>2, <2>1 DEF SomeTyped
  <2>8. Len(text) \in Nat /\ Len(text) \in 0..(BUFFER_SIZE - 1)
    BY <2>4, SizesAre
  <2>9. ~stray => CleanFrom(r, Len(text) - pos)
    BY <2>6 DEF Tidy
  <2>. QED
    BY <2>1, <2>4, <2>6, <2>7, <2>8, <2>9
<1>. QED
  BY <1>1, <1>2, TypedIs

LEMMA LeftLess ==
  ASSUME NEW k \in Nat, NEW n \in Nat
  PROVE  \E i \in Nat : i = Left(k, n) /\ i <= k
<1>1. Left(k, n) \in Nat /\ Left(k, n) <= k
  BY DEF Left
<1>. QED
  BY <1>1

LEMMA ListKeeps ==
  ASSUME ShellInv, NEW rest \in Seq(Letters), list_matches(Typed(rest))
  PROVE  ShellInv'
<1>1. PICK c : c = Typed(rest)
  OBVIOUS
<1>2. PICK t, text, len, pos : t = c.term /\ text = c.text /\ len = c.len /\ pos = c.pos
  OBVIOUS
<1>3. /\ Sane(t) /\ text \in Seq(Letters) /\ len \in 0..(BUFFER_SIZE - 1)
      /\ len <= Len(text) /\ pos \in 0..len
      /\ ~stray => CleanFrom(t, len - pos)
  BY <1>1, <1>2, TypedLeaves
<1>4. ListingText \in Seq(Characters) /\ PromptText \in Seq(Characters) /\ text \in Seq(Characters)
  BY <1>3, ShellAssumption
<1>5. PICK q : q = t_print(t, ListingText)
  OBVIOUS
<1>6. PICK p : p = t_print(q, PromptText)
  OBVIOUS
<1>7. PICK x, y : x = p.t_column /\ y = p.t_row
  OBVIOUS
<1>8. PICK b : b = t_putentryat(p, Blank, x, y)
  OBVIOUS
<1>9. PICK v : v = vga_update_cursor(b, x, y)
  OBVIOUS
<1>10. PICK r : r = t_print(v, text)
  OBVIOUS
<1>11. /\ term' = r /\ prompt_col' = x /\ prompt_row' = y
       /\ input_buffer' = text /\ buffer_len' = len /\ cursor_pos' = pos /\ collecting' = collecting
       /\ listed' = TRUE
  BY <1>1, <1>2, <1>5, <1>6, <1>7, <1>8, <1>9, <1>10 DEF list_matches, Completed, Relisted
<1>12. stray' = (stray \/ Len(text) > len)
  BY <1>1, <1>2 DEF list_matches
<1>13. Sane(q) /\ Leaves(q, t, Len(ListingText)) /\ Len(ListingText) \in Nat
  BY <1>3, <1>4, <1>5, PrintSane
<1>14. Begun(v, q, Len(PromptText)) /\ v.t_column = x /\ v.t_row = y
  BY <1>6, <1>7, <1>8, <1>9, <1>13, PromptIs
<1>15. Sane(v) /\ Leaves(v, q, Len(PromptText)) /\ Len(PromptText) \in Nat
  BY <1>4, <1>14 DEF Begun
<1>16. Sane(r) /\ Leaves(r, v, Len(text)) /\ Len(text) \in Nat
  BY <1>4, <1>10, <1>15, PrintSane
<1>17. Place(r) <= Place(v) + Len(text)
  <2>1. IsTerminal(v) /\ Fresh(v)
    BY <1>15 DEF Sane
  <2>2. text \in Seq(Letters) => Place(r) <= Place(v) + Len(text)
    BY <1>4, <1>10, <2>1, PrintIs
  <2>. QED
    BY <1>3, <2>2
<1>18. Place(v) \in Int /\ Place(r) \in Int /\ x \in Columns /\ y \in Nat /\ Place(v) = At(x, y)
  BY <1>14, <1>15, <1>16, PlaceTyped DEF Sane, Place
<1>19. ASSUME ~stray' PROVE Tidy(r, At(x, y), len, pos)
  <2>1. ~stray /\ ~(Len(text) > len)
    <3>1. ~(stray \/ Len(text) > len)
      BY <1>12, <1>19, Zenon
    <3>. QED
      BY <3>1
  <2>2. Len(text) = len
    BY <1>3, <1>16, <2>1
  <2>3. PICK k \in Nat : k = len - pos /\ k <= len
    BY <1>3
  <2>4. CleanFrom(t, k)
    BY <1>3, <2>1, <2>3
  <2>5. PICK i \in Nat : i = Left(k, Len(ListingText)) /\ i <= k
    BY <1>13, <2>3, LeftLess
  <2>6. CleanFrom(q, i)
    BY <1>13, <2>4, <2>5 DEF Leaves
  <2>7. PICK j \in Nat : j = Left(i, Len(PromptText)) /\ j <= i
    BY <1>15, <2>5, LeftLess
  <2>8. CleanFrom(v, j)
    BY <1>15, <2>6, <2>7 DEF Leaves
  <2>9. Left(j, Len(text)) = 0
    BY <1>3, <2>2, <2>3, <2>5, <2>7 DEF Left
  <2>10. CleanFrom(r, Left(j, Len(text)))
    BY <1>16, <2>8 DEF Leaves
  <2>11. CleanFrom(r, 0)
    BY <2>9, <2>10
  <2>12. Clean(r, Place(r))
    <3>1. Place(r) + 0 = Place(r)
      BY <1>18
    <3>. QED
      BY <2>11, <3>1 DEF CleanFrom
  <2>13. At(x, y) + len \in Int /\ Place(r) <= At(x, y) + len
    BY <1>3, <1>17, <1>18, <2>2
  <2>14. Clean(r, At(x, y) + len)
    BY <1>18, <2>12, <2>13, CleanBehind
  <2>15. Place(r) + (len - pos) \in Int /\ Place(r) <= Place(r) + (len - pos)
    BY <1>18, <2>3
  <2>16. Clean(r, Place(r) + (len - pos))
    BY <1>18, <2>12, <2>15, CleanBehind
  <2>. QED
    BY <2>14, <2>16 DEF Tidy, CleanFrom
<1>20. Counters'
  <2>1. stray' \in BOOLEAN
    BY <1>12, Zenon
  <2>2. collecting' \in BOOLEAN /\ listed' \in BOOLEAN
    BY <1>11 DEF ShellInv, Counters
  <2>3. /\ buffer_len' \in 0..(BUFFER_SIZE - 1) /\ cursor_pos' \in 0..buffer_len'
        /\ input_buffer' \in Seq(Letters) /\ buffer_len' <= Len(input_buffer')
        /\ prompt_col' \in Columns /\ prompt_row' \in Nat
    BY <1>3, <1>11, <1>18
  <2>. QED
    BY <2>1, <2>2, <2>3 DEF Counters
<1>21. InputStart' = At(x, y)
  BY <1>11 DEF InputStart, StartAt
<1>. QED
  BY <1>11, <1>16, <1>19, <1>20, <1>21 DEF ShellInv

LEMMA TabKeeps ==
  ASSUME ShellInv, tab
  PROVE  ShellInv'
<1>1. PICK rest : rest = autocomplete_input.rest
  OBVIOUS
<1>2. rest \in Seq(Letters)
  BY <1>1, RestIs DEF ShellInv
<1>3. complete(Typed(rest)) \/ list_matches(Typed(rest))
  BY <1>1 DEF tab
<1>. QED
  BY <1>2, <1>3, CompleteKeeps, ListKeeps

(***************************************************************************)
(* The invariant, and what the runs check that follows from it.            *)
(***************************************************************************)
LEMMA InitHolds ==
  ASSUME Init
  PROVE  ShellInv
<1>1. PICK c, p : c = t_clear /\ p = t_print(c, PromptText)
  OBVIOUS
<1>2. /\ term = p /\ prompt_col = p.t_column /\ prompt_row = p.t_row
      /\ input_buffer = <<>> /\ buffer_len = 0 /\ cursor_pos = 0
      /\ collecting = FALSE /\ listed = FALSE /\ stray = FALSE
  BY <1>1 DEF Init
<1>3. Ended(c) /\ CleanFrom(c, 0)
  BY <1>1, ClearIs
<1>4. PromptText \in Seq(Characters) /\ Sane(c)
  BY <1>3, ShellAssumption DEF Ended
<1>5. Sane(p) /\ Printed(p, c, Len(PromptText)) /\ Leaves(p, c, Len(PromptText)) /\ Len(PromptText) \in Nat
  BY <1>1, <1>4, PrintSane
<1>6. Ended(p)
  BY <1>3, <1>5 DEF Ended, Printed, CursorShown
<1>7. CleanFrom(p, 0)
  BY <1>3, <1>5, NothingLeft
<1>8. p.t_row \in Nat /\ p.t_column \in Columns
  BY <1>5, PlaceTyped DEF Sane
<1>9. Counters
  <2>1. collecting \in BOOLEAN /\ listed \in BOOLEAN /\ stray \in BOOLEAN
    BY <1>2
  <2>2. input_buffer \in Seq(Letters) /\ Len(input_buffer) = 0
    BY <1>2
  <2>3. buffer_len \in 0..(BUFFER_SIZE - 1) /\ cursor_pos \in 0..buffer_len
    BY <1>2, ShellAssumption
  <2>. QED
    BY <1>2, <1>8, <2>1, <2>2, <2>3 DEF Counters
<1>10. InputStart = Place(p)
  BY <1>2 DEF InputStart, StartAt, Place
<1>11. PICK line, len, pos : line = Line /\ len = buffer_len /\ pos = cursor_pos
  OBVIOUS
<1>12. Len(line) = 0 /\ len = 0 /\ pos = 0
  BY <1>2, <1>11 DEF Line
<1>13. InPlace(p, Place(p), line, pos)
  BY <1>6, <1>12, StartsHere DEF Ended
<1>14. Tidy(p, Place(p), len, pos)
  BY <1>7, <1>12, CleanHere
<1>. QED
  BY <1>2, <1>5, <1>9, <1>10, <1>11, <1>13, <1>14 DEF ShellInv

LEMMA StepHolds ==
  ASSUME ShellInv, [Next]_vars
  PROVE  ShellInv'
<1>1. ASSUME NEW c \in Keys, shell_insert_char(c) PROVE ShellInv'
  BY <1>1, InsertKeeps
<1>2. ASSUME shell_delete_before_cursor \/ shell_delete_at_cursor PROVE ShellInv'
  BY <1>2, DeletesKeep
<1>3. ASSUME shell_move_left \/ shell_move_right PROVE ShellInv'
  BY <1>3, MovesKeep
<1>4. ASSUME NEW s \in Recalled, shell_replace_input(s) PROVE ShellInv'
  BY <1>4, ReplaceKeeps
<1>5. ASSUME page_up \/ page_down PROVE ShellInv'
  BY <1>5, PageKeeps
<1>6. ASSUME NEW o \in Outputs, shell_process(o) PROVE ShellInv'
  BY <1>6, ProcessKeeps
<1>7. ASSUME eof PROVE ShellInv'
  BY <1>7, EofKeeps
<1>8. ASSUME tab PROVE ShellInv'
  BY <1>8, TabKeeps
<1>9. ASSUME UNCHANGED vars PROVE ShellInv'
  BY <1>9 DEF vars, ShellInv, Counters, InputStart, StartAt, Line
<1>. QED
  BY <1>1, <1>2, <1>3, <1>4, <1>5, <1>6, <1>7, <1>8, <1>9 DEF Next, Editing

\* After every key the line is written in its cells from the prompt on and the view is the one
\* that text memory shows, unless Tab has listed names; behind the line nothing stands, unless
\* text was left there.
THEOREM ShellInvariant == Spec => []ShellInv
<1>1. Init => ShellInv
  BY InitHolds
<1>2. ShellInv /\ [Next]_vars => ShellInv'
  BY StepHolds
<1>. QED
  BY <1>1, <1>2, PTL DEF Spec

LEMMA PlaceOnScreen ==
  ASSUME NEW t, Sane(t), NEW b \in Int, Place(t) = b, b < OffScreen
  PROVE  t.t_row \in Rows
<1>1. PICK x, y : x = t.t_column /\ y = t.t_row
  OBVIOUS
<1>2. x \in Columns /\ y \in Nat /\ At(x, y) = b
  BY <1>1 DEF Sane, IsTerminal, Terminals, Place
<1>. QED
  BY <1>1, <1>2, OnScreenIs

LEMMA LineStart ==
  ASSUME ShellInv, ~listed
  PROVE  /\ InputStart \in Int /\ InputStart + buffer_len \in Int
         /\ InputStart + buffer_len < OffScreen
         /\ Place(term) = InputStart + cursor_pos /\ cursor_pos \in 0..buffer_len
         /\ prompt_col \in Columns /\ prompt_row \in Nat
<1>1. Counters /\ InPlace(term, InputStart, Line, cursor_pos)
  BY DEF ShellInv
<1>2. prompt_col \in Columns /\ prompt_row \in Nat /\ buffer_len \in Nat /\ cursor_pos \in 0..buffer_len
  BY <1>1, ShellAssumption DEF Counters
<1>3. InputStart \in Int
  BY <1>2, StartTyped DEF InputStart
<1>4. Len(Line) = buffer_len
  BY <1>1, LineTyped
<1>. QED
  BY <1>1, <1>2, <1>3, <1>4 DEF InPlace

LEMMA TypeHolds ==
  ASSUME ShellInv
  PROVE  TypeOK
<1>1. Counters /\ Sane(term) /\ IsTerminal(term)
  BY DEF ShellInv, Sane
<1>2. /\ term.t_column \in Columns /\ term.t_view_offset \in 0..Len(term.t_scrollback)
      /\ Len(term.t_scrollback) <= VGA_SCROLLBACK_HEIGHT
  BY <1>1 DEF IsTerminal, Terminals
<1>3. ASSUME ~listed PROVE prompt_row \in Rows /\ term.t_row \in Rows
  <2>1. PICK a \in Int, b \in Int : a = InputStart /\ b = InputStart + cursor_pos /\ a < OffScreen /\ b < OffScreen
    <3>1. OffScreen \in Int
      BY SizesAre DEF OffScreen
    <3>2. buffer_len \in Nat
      BY <1>1, ShellAssumption DEF Counters
    <3>. QED
      BY <1>3, <3>1, <3>2, LineStart
  <2>2. Place(term) = b
    BY <1>3, <2>1, LineStart
  <2>3. term.t_row \in Rows
    BY <1>1, <2>1, <2>2, PlaceOnScreen
  <2>4. prompt_row \in Rows
    BY <1>3, <2>1, LineStart, OnScreenIs DEF InputStart, StartAt
  <2>. QED
    BY <2>3, <2>4
<1>. QED
  BY <1>1, <1>2, <1>3 DEF TypeOK, Counters

LEMMA ShownHolds ==
  ASSUME ShellInv
  PROVE  ViewIsShown
<1>1. Sane(term) /\ (~listed => term.t_buffer = View(term))
  BY DEF ShellInv, InPlace
<1>2. IsTerminal(term) /\ Fresh(term)
  BY <1>1 DEF Sane
<1>3. ASSUME term.t_view_offset = 0 PROVE term.t_buffer = View(term)
  BY <1>2, <1>3, ViewTyped DEF Fresh
<1>. QED
  BY <1>1, <1>3 DEF ViewIsShown

LEMMA OnScreenHolds ==
  ASSUME ShellInv
  PROVE  InputOnScreen
<1>. SUFFICES ASSUME ~listed
              PROVE  /\ \A i \in 0..(IF stray THEN buffer_len - 1 ELSE buffer_len) :
                          term.t_screen[Row(i, prompt_col, prompt_row)][Col(i, prompt_col)]
                            = Append(Line, Blank)[i + 1]
                     /\ term.t_view_offset = 0 =>
                          term.cursor = <<Col(cursor_pos, prompt_col), Row(cursor_pos, prompt_col, prompt_row)>>
  BY DEF InputOnScreen
<1>1. /\ Counters /\ Sane(term) /\ InPlace(term, InputStart, Line, cursor_pos)
      /\ ~stray => Tidy(term, InputStart, buffer_len, cursor_pos)
  BY DEF ShellInv
<1>2. PICK a \in Int : a = InputStart
  BY LineStart
<1>3. PICK n \in Nat : n = buffer_len
  BY <1>1, ShellAssumption DEF Counters
<1>4. PICK line : line = Line
  OBVIOUS
<1>5. line \in Seq(Letters) /\ Len(line) = n
  BY <1>1, <1>3, <1>4, LineTyped
<1>6. prompt_col \in Columns /\ prompt_row \in Nat /\ a + n < OffScreen /\ OffScreen \in Int
  <2>1. OffScreen \in Int
    BY SizesAre DEF OffScreen
  <2>. QED
    BY <1>2, <1>3, <2>1, LineStart
<1>7. ASSUME NEW i \in 0..(IF stray THEN buffer_len - 1 ELSE buffer_len)
      PROVE  term.t_screen[Row(i, prompt_col, prompt_row)][Col(i, prompt_col)] = Append(Line, Blank)[i + 1]
  <2>1. i \in Nat /\ i <= n /\ (stray => i < n)
    BY <1>3
  <2>2. PICK u, v : u = Col(i, prompt_col) /\ v = Row(i, prompt_col, prompt_row)
    OBVIOUS
  <2>3. u \in Columns /\ v \in Nat /\ At(u, v) = a + i
    BY <1>2, <1>6, <2>1, <2>2, PositionIs DEF InputStart, StartAt
  <2>4. At(u, v) < OffScreen
    BY <1>6, <2>1, <2>3
  <2>5. v \in Rows
    BY <2>3, <2>4, OnScreenIs
  <2>6. CASE i < n
    <3>1. a <= At(u, v) /\ At(u, v) < a + Len(line) /\ At(u, v) - a + 1 = i + 1
      BY <1>5, <2>1, <2>3, <2>6
    <3>2. term.t_screen[v][u] = line[i + 1]
      BY <1>1, <1>2, <1>4, <2>3, <2>5, <3>1 DEF InPlace, Written
    <3>3. Append(line, Blank)[i + 1] = line[i + 1]
      BY <1>5, <2>1, <2>6
    <3>. QED
      BY <1>4, <2>2, <3>2, <3>3
  <2>7. CASE i = n
    <3>1. ~stray
      BY <2>1, <2>7
    <3>2. Clean(term, a + n)
      BY <1>1, <1>2, <1>3, <3>1 DEF Tidy
    <3>3. a + n <= At(u, v)
      BY <2>1, <2>3, <2>7
    <3>4. term.t_screen[v][u] = Blank
      BY <2>3, <2>5, <3>2, <3>3 DEF Clean
    <3>5. Append(line, Blank)[i + 1] = Blank
      BY <1>5, <2>1, <2>7
    <3>. QED
      BY <1>4, <2>2, <3>4, <3>5
  <2>8. i < n \/ i = n
    BY <2>1
  <2>. QED
    BY <2>6, <2>7, <2>8
<1>8. ASSUME term.t_view_offset = 0
      PROVE  term.cursor = <<Col(cursor_pos, prompt_col), Row(cursor_pos, prompt_col, prompt_row)>>
  <2>1. term.cursor = <<term.t_column, term.t_row>>
    BY <1>1, <1>8 DEF InPlace
  <2>2. PICK x, y : x = term.t_column /\ y = term.t_row
    OBVIOUS
  <2>3. x \in Columns /\ y \in Nat /\ At(x, y) = a + cursor_pos
    BY <1>1, <1>2, <2>2, LineStart, PlaceTyped DEF Sane, Place
  <2>4. PICK u, v : u = Col(cursor_pos, prompt_col) /\ v = Row(cursor_pos, prompt_col, prompt_row)
    OBVIOUS
  <2>5. cursor_pos \in Nat
    BY <1>1 DEF Counters
  <2>6. u \in Columns /\ v \in Nat /\ At(u, v) = a + cursor_pos
    BY <1>2, <1>6, <2>4, <2>5, PositionIs DEF InputStart, StartAt
  <2>7. u = x /\ v = y
    BY <2>3, <2>6, AtOne
  <2>. QED
    BY <2>1, <2>2, <2>4, <2>7
<1>. QED
  BY <1>7, <1>8

\* The counters stay inside the buffer and, unless Tab has listed names, the cursor and the
\* prompt on the screen, however long the line and wherever its prompt (shell.c, vga.c).
THEOREM LineTypeCorrect == Spec => []TypeOK
BY ShellInvariant, TypeHolds, PTL

\* After every key the line being typed is on the screen from the prompt on, with a blank behind
\* it unless text was left there, and the hardware cursor where the next character goes.
THEOREM LineOnScreen == Spec => []InputOnScreen
BY ShellInvariant, OnScreenHolds, PTL

\* Text memory, patched cell by cell, always shows the part of the scrollback and of the screen
\* that the user has paged to.
THEOREM MemoryShowsView == Spec => []ViewIsShown
BY ShellInvariant, ShownHolds, PTL

(***************************************************************************)
(* Editing leaves what is above the line.                                  *)
(***************************************************************************)
\* The text of t up to a line whose prompt is in row prow, scrollback included.
AboveOf(t, prow) ==
  LET back == Len(t.t_scrollback)
  IN  [i \in 1..((back + prow) * TERMINAL_WIDTH + prompt_col) |->
         LET row == (i - 1) \div TERMINAL_WIDTH
         IN  (IF row < back THEN t.t_scrollback[row + 1] ELSE t.t_screen[row - back])
               [(i - 1) % TERMINAL_WIDTH]]

LEMMA SuffixIs ==
  ASSUME NEW S, NEW s \in Seq(S), NEW t \in Seq(S), NEW k \in Nat, Len(t) = Len(s) + k,
         \A i \in 1..Len(s) : s[i] = t[i + k]
  PROVE  IsSuffix(s, t)
<1>1. PICK n \in Nat : n = Len(s)
  OBVIOUS
<1>2. Len(t) = n + k /\ n <= n + k
  BY <1>1
<1>3. PICK a, b : a = Reverse(s) /\ b = Reverse(t)
  OBVIOUS
<1>4. a = [i \in 1..n |-> s[(n - i) + 1]] /\ b = [i \in 1..(n + k) |-> t[(n + k - i) + 1]]
  BY <1>1, <1>2, <1>3 DEF Reverse
<1>5. \A i \in 1..n : (n - i) + 1 \in 1..n /\ s[(n - i) + 1] \in S
  BY <1>1
<1>6. \A i \in 1..(n + k) : (n + k - i) + 1 \in 1..(n + k) /\ t[(n + k - i) + 1] \in S
  BY <1>1, <1>2
<1>7. a \in Seq(S) /\ Len(a) = n /\ b \in Seq(S) /\ Len(b) = n + k
  BY <1>4, <1>5, <1>6
<1>8. ASSUME NEW i \in 1..n PROVE a[i] = b[i]
  <2>1. (n - i) + 1 \in 1..n /\ ((n - i) + 1) + k = (n + k - i) + 1 /\ i \in 1..(n + k)
    BY <1>1
  <2>2. s[(n - i) + 1] = t[((n - i) + 1) + k]
    BY <1>1, <2>1
  <2>. QED
    BY <1>4, <2>1, <2>2
<1>9. PICK p, q : p = SubSeq(a, 1, n) /\ q = SubSeq(b, 1, n)
  OBVIOUS
<1>10. 1 \in 1..(Len(a) + 1) /\ n \in (1 - 1)..Len(a) /\ 1 \in 1..(Len(b) + 1) /\ n \in (1 - 1)..Len(b)
  BY <1>1, <1>7
<1>11. p \in Seq(S) /\ Len(p) = n - 1 + 1 /\ \A i \in 1..Len(p) : p[i] = a[1 + i - 1]
  BY <1>7, <1>9, <1>10, PartIs
<1>12. q \in Seq(S) /\ Len(q) = n - 1 + 1 /\ \A i \in 1..Len(q) : q[i] = b[1 + i - 1]
  BY <1>7, <1>9, <1>10, PartIs
<1>13. Len(p) = Len(q) /\ Len(p) = n
  BY <1>1, <1>11, <1>12
<1>14. \A i \in 1..Len(p) : p[i] = q[i]
  BY <1>8, <1>11, <1>12, <1>13
<1>15. p = q
  BY <1>11, <1>12, <1>13, <1>14, SeqEqual
<1>. QED
  BY <1>3, <1>7, <1>9, <1>15, <1>2 DEF IsSuffix, IsPrefix

\* s is the text of t before its row number p, counted from the first row of its scrollback.
Stacked(s, t, p) ==
  /\ s \in Seq(Characters) /\ Len(s) = p * TERMINAL_WIDTH + prompt_col
  /\ \A i \in 1..Len(s) :
       \E x \in Columns, y \in Nat :
         /\ At(x, y) = i - 1 /\ y <= p /\ At(x, y) < At(prompt_col, p)
         /\ y >= Len(t.t_scrollback) => y - Len(t.t_scrollback) \in Rows
         /\ s[i] = IF y < Len(t.t_scrollback) THEN t.t_scrollback[y + 1][x]
                   ELSE t.t_screen[y - Len(t.t_scrollback)][x]

LEMMA AboveIs ==
  ASSUME NEW t, Sane(t), NEW prow \in Rows, prompt_col \in Columns, NEW s, s = AboveOf(t, prow),
         NEW p, p = Len(t.t_scrollback) + prow
  PROVE  Stacked(s, t, p)
<1>0. PICK back \in Nat : back = Len(t.t_scrollback) /\ p = back + prow
  BY DEF Sane, IsTerminal, Terminals
<1>1. /\ prow \in Nat /\ prow <= TERMINAL_HEIGHT - 1 /\ back + prow \in Nat
      /\ TERMINAL_WIDTH \in Nat /\ TERMINAL_WIDTH >= 1 /\ prompt_col \in Nat
  BY SizesAre DEF Rows, Columns
<1>2. PICK n : n = (back + prow) * TERMINAL_WIDTH + prompt_col
  OBVIOUS
<1>3. n \in Nat
  <2>1. (back + prow) * TERMINAL_WIDTH \in Nat
    BY <1>1
  <2>. QED
    BY <1>1, <1>2, <2>1
<1>4. t.t_scrollback \in Seq(CellRows) /\ t.t_screen \in [Rows -> CellRows]
  BY DEF Sane, IsTerminal, Terminals, Screens
<1>5. ASSUME NEW i \in 1..n
      PROVE  \E x \in Columns, y \in Nat :
                /\ At(x, y) = i - 1 /\ y <= back + prow /\ At(x, y) < At(prompt_col, back + prow)
                /\ y >= back => y - back \in Rows
                /\ y = (i - 1) \div TERMINAL_WIDTH /\ x = (i - 1) % TERMINAL_WIDTH
  <2>1. PICK a \in Nat : a = i - 1 /\ a < n
    BY <1>3
  <2>2. PICK x, y : y = a \div TERMINAL_WIDTH /\ x = a % TERMINAL_WIDTH
    OBVIOUS
  <2>3. y \in Nat /\ x \in 0..(TERMINAL_WIDTH - 1) /\ a = y * TERMINAL_WIDTH + x
    BY <1>1, <2>2, Division
  <2>4. x \in Columns /\ At(x, y) = a
    BY <2>3 DEF Columns, At
  <2>5. At(prompt_col, back + prow) = n
    BY <1>2 DEF At
  <2>6. PICK z \in Int : z = back + prow
    BY <1>1
  <2>7. ~(At(prompt_col, z) <= At(x, y))
    BY <1>3, <2>1, <2>4, <2>5, <2>6
  <2>8. y \in Int
    BY <2>3
  <2>9. ~(z < y)
    BY <2>4, <2>6, <2>7, <2>8, AtOrder
  <2>10. y <= back + prow
    BY <2>6, <2>8, <2>9
  <2>11. y >= back => y - back \in Rows
    BY <1>1, <2>3, <2>10, SizesAre DEF Rows
  <2>. QED
    BY <2>1, <2>2, <2>3, <2>4, <2>5, <2>10, <2>11
<1>6. s = [i \in 1..n |-> (IF (i - 1) \div TERMINAL_WIDTH < back THEN t.t_scrollback[((i - 1) \div TERMINAL_WIDTH) + 1]
                           ELSE t.t_screen[((i - 1) \div TERMINAL_WIDTH) - back])[(i - 1) % TERMINAL_WIDTH]]
  BY <1>0, <1>2 DEF AboveOf
<1>7. ASSUME NEW i \in 1..n
      PROVE  \E x \in Columns, y \in Nat :
                /\ At(x, y) = i - 1 /\ y <= back + prow /\ At(x, y) < At(prompt_col, back + prow)
                /\ y >= back => y - back \in Rows
                /\ s[i] = IF y < back THEN t.t_scrollback[y + 1][x] ELSE t.t_screen[y - back][x]
  <2>1. PICK x \in Columns, y \in Nat :
                /\ At(x, y) = i - 1 /\ y <= back + prow /\ At(x, y) < At(prompt_col, back + prow)
                /\ y >= back => y - back \in Rows
                /\ y = (i - 1) \div TERMINAL_WIDTH /\ x = (i - 1) % TERMINAL_WIDTH
    BY <1>5
  <2>2. s[i] = (IF y < back THEN t.t_scrollback[y + 1] ELSE t.t_screen[y - back])[x]
    BY <1>6, <2>1
  <2>3. s[i] = IF y < back THEN t.t_scrollback[y + 1][x] ELSE t.t_screen[y - back][x]
    BY <2>2
  <2>. QED
    BY <2>1, <2>3
<1>8. ASSUME NEW i \in 1..n PROVE s[i] \in Characters
  <2>1. PICK x \in Columns, y \in Nat :
                /\ y >= back => y - back \in Rows
                /\ s[i] = IF y < back THEN t.t_scrollback[y + 1][x] ELSE t.t_screen[y - back][x]
    BY <1>7
  <2>2. CASE y < back
    <3>1. y + 1 \in 1..Len(t.t_scrollback)
      BY <1>0, <2>2
    <3>2. t.t_scrollback[y + 1] \in CellRows
      BY <1>4, <3>1
    <3>. QED
      BY <2>1, <2>2, <3>2 DEF CellRows
  <2>3. CASE ~(y < back)
    <3>1. y - back \in Rows
      BY <2>1, <2>3
    <3>2. t.t_screen[y - back] \in CellRows
      BY <1>4, <3>1
    <3>. QED
      BY <2>1, <2>3, <3>2 DEF CellRows
  <2>. QED
    BY <2>2, <2>3
<1>9. s \in Seq(Characters) /\ Len(s) = n
  <2>1. \E f : s = [i \in 1..n |-> f[i]]
    BY <1>6
  <2>. QED
    BY <1>3, <1>8, <2>1
<1>10. Len(s) = p * TERMINAL_WIDTH + prompt_col
  BY <1>0, <1>2, <1>9
<1>11. ASSUME NEW i \in 1..Len(s)
       PROVE  \E x \in Columns, y \in Nat :
                /\ At(x, y) = i - 1 /\ y <= p /\ At(x, y) < At(prompt_col, p)
                /\ y >= Len(t.t_scrollback) => y - Len(t.t_scrollback) \in Rows
                /\ s[i] = IF y < Len(t.t_scrollback) THEN t.t_scrollback[y + 1][x]
                          ELSE t.t_screen[y - Len(t.t_scrollback)][x]
  BY <1>0, <1>7, <1>9
<1>. QED
  BY <1>9, <1>10, <1>11 DEF Stacked

\* r shows what u, which is t scrolled n rows, shows in front of cell a.
KeptBefore(r, u, a) ==
  /\ Sane(r) /\ r.t_scrollback = u.t_scrollback
  /\ \A x \in Columns, y \in Rows : At(x, y) < a => r.t_screen[y][x] = u.t_screen[y][x]

LEMMA AboveKept ==
  ASSUME NEW t, Sane(t), NEW n \in Nat, n <= TERMINAL_HEIGHT, NEW u, ScrolledBy(u, t, n),
         prompt_col \in Columns, NEW prow \in Rows, NEW row \in Nat, row + n = prow,
         NEW r, KeptBefore(r, u, StartAt(row)),
         NEW old, old = AboveOf(t, prow), NEW new, new = AboveOf(r, row)
  PROVE  IsSuffix(new, old)
<1>1. row \in Rows /\ prow \in Nat /\ prow <= TERMINAL_HEIGHT - 1
  BY SizesAre DEF Rows
<1>2. Sane(r) /\ r.t_scrollback = u.t_scrollback
      /\ \A x \in Columns, y \in Rows : At(x, y) < StartAt(row) => r.t_screen[y][x] = u.t_screen[y][x]
  BY DEF KeptBefore
<1>3. PICK b \in Nat, c \in Nat : b = Len(t.t_scrollback) /\ c = Len(r.t_scrollback)
  BY <1>2 DEF Sane, IsTerminal, Terminals
<1>4. PICK d \in 0..n : Kept(u, t, n, d)
  BY DEF ScrolledBy
<1>5. RowsUp(u, t, n)
  BY DEF ScrolledBy
<1>6. d \in Nat /\ c + d = b + n /\ \A k \in 1..c : u.t_scrollback[k] = RowOf(t, k + d)
  BY <1>2, <1>3, <1>4 DEF Kept
<1>7. PICK p \in Nat, q \in Nat : p = b + prow /\ q = c + row /\ q + d = p
  BY <1>1, <1>6
<1>8. PICK w \in Nat, m \in Nat : w = TERMINAL_WIDTH /\ m = d * w /\ w >= 1
  <2>1. TERMINAL_WIDTH \in Nat /\ d * TERMINAL_WIDTH \in Nat
    BY <1>6, SizesAre
  <2>. QED
    BY <2>1, SizesAre
<1>9. /\ old \in Seq(Characters) /\ Len(old) = p * w + prompt_col
      /\ \A i \in 1..Len(old) :
              \E x \in Columns, y \in Nat :
                /\ At(x, y) = i - 1 /\ y <= p /\ At(x, y) < At(prompt_col, p)
                /\ y >= b => y - b \in Rows
                /\ old[i] = IF y < b THEN t.t_scrollback[y + 1][x] ELSE t.t_screen[y - b][x]
  <2>1. p = Len(t.t_scrollback) + prow
    BY <1>3, <1>7
  <2>2. Stacked(old, t, p)
    BY <2>1, AboveIs
  <2>. QED
    BY <1>3, <1>8, <2>2, SMTT(30) DEF Stacked
<1>10. /\ new \in Seq(Characters) /\ Len(new) = q * w + prompt_col
       /\ \A i \in 1..Len(new) :
              \E x \in Columns, y \in Nat :
                /\ At(x, y) = i - 1 /\ y <= q /\ At(x, y) < At(prompt_col, q)
                /\ y >= c => y - c \in Rows
                /\ new[i] = IF y < c THEN r.t_scrollback[y + 1][x] ELSE r.t_screen[y - c][x]
  <2>1. q = Len(r.t_scrollback) + row
    BY <1>3, <1>7
  <2>2. Stacked(new, r, q)
    BY <1>1, <1>2, <2>1, AboveIs
  <2>. QED
    BY <1>3, <1>8, <2>2 DEF Stacked
<1>11. Len(old) = Len(new) + m /\ Len(new) \in Nat
  <2>1. p * w = q * w + d * w /\ q * w \in Int /\ d * w \in Int
    BY <1>6, <1>7, <1>8
  <2>2. prompt_col \in Int
    BY SizesAre DEF Columns
  <2>. QED
    BY <1>8, <1>9, <1>10, <2>1, <2>2
<1>12. ASSUME NEW i \in 1..Len(new) PROVE new[i] = old[i + m]
  <2>1. PICK x \in Columns, y \in Nat :
                /\ At(x, y) = i - 1 /\ y <= q /\ At(x, y) < At(prompt_col, q)
                /\ y >= c => y - c \in Rows
                /\ new[i] = IF y < c THEN r.t_scrollback[y + 1][x] ELSE r.t_screen[y - c][x]
    BY <1>10
  <2>2. i \in Int /\ i + m \in 1..Len(old)
    BY <1>11
  <2>3. PICK x2 \in Columns, y2 \in Nat :
                /\ At(x2, y2) = (i + m) - 1 /\ y2 <= p
                /\ y2 >= b => y2 - b \in Rows
                /\ old[i + m] = IF y2 < b THEN t.t_scrollback[y2 + 1][x2] ELSE t.t_screen[y2 - b][x2]
    BY <1>9, <2>2
  <2>4. At(x, y + d) = At(x, y) + m /\ At(x, y) \in Int
    <3>1. (y + d) * w = y * w + d * w /\ y * w \in Int /\ x \in Int
      BY <1>6, <1>8, SizesAre DEF Columns
    <3>. QED
      BY <1>8, <3>1 DEF At
  <2>5. PICK z \in Int : z = y + d
    BY <1>6
  <2>6. At(x, z) = At(x2, y2) /\ y2 \in Int
    BY <1>8, <2>1, <2>2, <2>3, <2>4, <2>5
  <2>7. x2 = x /\ y2 = y + d
    BY <2>5, <2>6, AtOne
  <2>8. CASE y < c
    <3>1. y + 1 \in 1..c /\ (y + 1) + d = (y + d) + 1
      BY <1>6, <2>8
    <3>2. u.t_scrollback[y + 1] = RowOf(t, (y + 1) + d)
      BY <1>6, <3>1
    <3>3. u.t_scrollback[y + 1] = IF y2 < b THEN t.t_scrollback[y2 + 1] ELSE t.t_screen[y2 - b]
      <4>1. (y + 1) + d = y2 + 1 /\ (y2 + 1 <= b <=> y2 < b) /\ (y2 + 1) - b - 1 = y2 - b
        BY <2>7, <3>1
      <4>. QED
        BY <1>3, <3>2, <4>1 DEF RowOf
    <3>. QED
      BY <1>2, <2>1, <2>3, <2>7, <2>8, <3>3
  <2>9. CASE ~(y < c)
    <3>1. PICK v \in Rows : v = y - c
      BY <2>1, <2>9
    <3>2. y = v + c /\ v \in Int /\ v >= 0
      BY <3>1, SizesAre DEF Rows
    <3>3. At(x, v) < At(prompt_col, row)
      <4>1. (v + c) * w = v * w + c * w /\ (c + row) * w = c * w + row * w
            /\ v * w \in Int /\ c * w \in Int /\ row * w \in Int
        BY <1>8, <3>2
      <4>2. x \in Int /\ prompt_col \in Int
        BY SizesAre DEF Columns
      <4>. QED
        BY <1>7, <1>8, <2>1, <3>2, <4>1, <4>2 DEF At
    <3>4. r.t_screen[v][x] = u.t_screen[v][x]
      BY <1>2, <3>3 DEF StartAt
    <3>5. v + n < TERMINAL_HEIGHT
      BY <1>1, <1>7, <2>1, <3>2, SizesAre
    <3>6. u.t_screen[v] = t.t_screen[v + n]
      BY <1>5, <3>5 DEF RowsUp
    <3>7. y2 - b = v + n /\ ~(y2 < b)
      BY <1>6, <2>7, <3>2
    <3>. QED
      BY <2>1, <2>3, <2>7, <2>9, <3>1, <3>4, <3>6, <3>7
  <2>. QED
    BY <2>8, <2>9
<1>. QED
  BY <1>9, <1>10, <1>11, <1>12, SuffixIs

\* The prompt is n rows further up, and what was scrolled for that fits on the screen.
Higher(row, n) == row \in Nat /\ n \in Nat /\ n <= TERMINAL_HEIGHT /\ row + n = prompt_row

LEMMA EditLeaves ==
  ASSUME ShellInv, prompt_row \in Rows, NEW text \in Seq(Letters), NEW cells \in Seq(Characters), Padded(cells, text),
         NEW from \in 0..Len(text), NEW pos \in 0..Len(text), NEW row, NEW n, Higher(row, n),
         NEW u, u = Scrolled(term, n), NEW d, d = Drawn(u, cells, from, row),
         term' = shell_move_cursor_to(d, pos, row), prompt_row' = row, prompt_col' = prompt_col
  PROVE  IsSuffix(Above', Above)
<1>1. prompt_col \in Columns /\ Sane(term)
  BY DEF ShellInv, Counters
<1>2. row \in Nat /\ n \in Nat /\ n <= TERMINAL_HEIGHT /\ row + n = prompt_row
  BY DEF Higher
<1>3. ScrolledBy(u, term, n)
  BY <1>1, <1>2, ScrollsIs
<1>4. Sane(u)
  BY <1>3 DEF ScrolledBy
<1>5. PICK a : a = StartAt(row)
  OBVIOUS
<1>6. PICK r : r = term'
  OBVIOUS
<1>7. Sane(r) /\ r.t_scrollback = u.t_scrollback /\ DrawnAt(r, u, a, cells, from, Len(cells))
  <2>1. r = shell_move_cursor_to(d, pos, row)
    BY <1>6
  <2>2. Sane(r)
    BY <1>1, <1>2, <1>4, <1>5, <2>1, LineDrawn
  <2>3. SameBack(r, u)
    BY <1>1, <1>2, <1>4, <1>5, <2>1, LineDrawn
  <2>4. DrawnAt(r, u, a, cells, from, Len(cells))
    BY <1>1, <1>2, <1>4, <1>5, <2>1, LineDrawn
  <2>. QED
    BY <2>2, <2>3, <2>4 DEF SameBack
<1>8. KeptBefore(r, u, a)
  <2>1. a \in Int /\ from \in Nat
    BY <1>1, <1>2, <1>5, StartTyped
  <2>2. ASSUME NEW x \in Columns, NEW y \in Rows, At(x, y) < a PROVE r.t_screen[y][x] = u.t_screen[y][x]
    <3>1. At(x, y) \in Int
      BY AtNext DEF Columns, Rows
    <3>2. ~(a + from <= At(x, y))
      BY <2>1, <2>2, <3>1
    <3>. QED
      BY <1>7, <3>2 DEF DrawnAt
  <2>. QED
    BY <1>7, <2>2 DEF KeptBefore
<1>9. PICK old, new : old = AboveOf(term, prompt_row) /\ new = AboveOf(r, row)
  OBVIOUS
<1>10. IsSuffix(new, old)
  BY <1>1, <1>2, <1>3, <1>5, <1>8, <1>9, AboveKept
<1>11. Above = old
  BY <1>9 DEF Above, AboveOf
<1>12. Above' = new
  BY <1>6, <1>9 DEF Above, AboveOf
<1>. QED
  BY <1>10, <1>11, <1>12

LEMMA EnsureHigher ==
  ASSUME ShellInv, prompt_row \in Rows, NEW len \in 0..(BUFFER_SIZE - 1),
         NEW see, see = shell_ensure_input_visible(prompt_col, prompt_row, len)
  PROVE  Higher(see.row, see.scrolls)
<1>1. prompt_col \in Columns /\ prompt_row \in Nat /\ ~(prompt_row >= TERMINAL_HEIGHT)
  BY SizesAre DEF ShellInv, Counters, Rows
<1>2. see.scrolls \in Nat /\ see.row \in Nat
  BY <1>1, EnsureIs
<1>3. see.row + see.scrolls = prompt_row
  BY <1>1, EnsureIs
<1>4. see.scrolls <= TERMINAL_HEIGHT \/ prompt_row >= TERMINAL_HEIGHT
  BY <1>1, EnsureIs
<1>. QED
  BY <1>1, <1>2, <1>3, <1>4 DEF Higher

\* Nothing is scrolled.
LEMMA NoHigher ==
  ASSUME ShellInv, prompt_row \in Rows
  PROVE  \E n, row, u : Higher(row, n) /\ row = prompt_row /\ u = Scrolled(term, n) /\ u = term
<1>1. PICK n : n = 0
  OBVIOUS
<1>2. prompt_row \in Nat /\ buffer_len \in Nat
  BY SizesAre DEF ShellInv, Counters
<1>3. PICK len : len = 0
  OBVIOUS
<1>4. len \in 0..buffer_len
  BY <1>2, <1>3
<1>5. Scrolled(term, n) = term
  BY <1>1, <1>4, RoomLeft
<1>6. Higher(prompt_row, n)
  BY <1>1, <1>2, SizesAre DEF Higher
<1>. QED
  BY <1>5, <1>6

LEMMA RedrawLeaves ==
  ASSUME ShellInv, prompt_row \in Rows, NEW text \in Seq(Letters), NEW from \in 0..Len(text), NEW pos \in 0..Len(text),
         NEW row, NEW n, Higher(row, n), NEW u, u = Scrolled(term, n), Edit(u, text, from, pos, row)
  PROVE  IsSuffix(Above', Above)
<1>1. PICK cells : cells = Append(text, Blank)
  OBVIOUS
<1>2. cells \in Seq(Characters) /\ Padded(cells, text)
  BY <1>1, AppendPads
<1>3. PICK d : d = Drawn(u, cells, from, row)
  OBVIOUS
<1>4. term' = shell_move_cursor_to(d, pos, row) /\ prompt_row' = row /\ prompt_col' = prompt_col
  BY <1>1, <1>3 DEF Edit, shell_redraw_from
<1>. QED
  BY <1>2, <1>3, <1>4, EditLeaves

LEMMA InsertLeaves ==
  ASSUME ShellInv, prompt_row \in Rows, NEW c \in Keys, shell_insert_char(c)
  PROVE  IsSuffix(Above', Above)
<1>1. Counters
  BY DEF ShellInv
<1>2. /\ buffer_len \in Nat /\ cursor_pos \in 0..buffer_len /\ Len(Line) = buffer_len
      /\ Line \in Seq(Letters) /\ c \in Letters /\ buffer_len < BUFFER_SIZE - 1
  BY <1>1, LineTyped, ShellAssumption DEF Counters, shell_insert_char
<1>3. PICK see, len : see = shell_ensure_input_visible(prompt_col, prompt_row, len) /\ len = buffer_len + 1
  OBVIOUS
<1>4. PICK u, n, row : u = Scrolled(term, n) /\ n = see.scrolls /\ row = see.row
  OBVIOUS
<1>5. PICK text : text = InsertAt(Line, cursor_pos + 1, c)
  OBVIOUS
<1>6. text \in Seq(Letters) /\ Len(text) = len
  BY <1>2, <1>3, <1>5, InsertIs, ZenonT(30)
<1>7. len \in 0..(BUFFER_SIZE - 1)
  BY <1>2, <1>3, SizesAre
<1>8. Higher(row, n)
  BY <1>3, <1>4, <1>7, EnsureHigher
<1>9. PICK from, pos : from = cursor_pos /\ pos = cursor_pos + 1
  OBVIOUS
<1>10. Edit(u, text, from, pos, row)
  BY <1>3, <1>4, <1>5, <1>9 DEF shell_insert_char
<1>11. from \in 0..Len(text) /\ pos \in 0..Len(text)
  BY <1>2, <1>3, <1>6, <1>9
<1>. QED
  BY <1>4, <1>6, <1>8, <1>10, <1>11, RedrawLeaves

LEMMA DeleteLeaves ==
  ASSUME ShellInv, prompt_row \in Rows, NEW at \in 0..(buffer_len - 1),
         Edit(term, RemoveAt(Line, at + 1), at, at, prompt_row)
  PROVE  IsSuffix(Above', Above)
<1>1. Counters
  BY DEF ShellInv
<1>2. buffer_len \in Nat /\ Len(Line) = buffer_len /\ Line \in Seq(Letters)
  BY <1>1, LineTyped, SizesAre DEF Counters
<1>3. PICK text : text = RemoveAt(Line, at + 1)
  OBVIOUS
<1>4. at \in 0..(Len(Line) - 1)
  BY <1>2
<1>5. text \in Seq(Letters) /\ Len(text) = buffer_len - 1
  BY <1>2, <1>3, <1>4, RemoveIs
<1>6. PICK n, row, u : Higher(row, n) /\ row = prompt_row /\ u = Scrolled(term, n) /\ u = term
  BY NoHigher
<1>7. Edit(u, text, at, at, row)
  BY <1>3, <1>6
<1>8. at \in 0..Len(text)
  BY <1>2, <1>5
<1>. QED
  BY <1>5, <1>6, <1>7, <1>8, RedrawLeaves

LEMMA MoveLeaves ==
  ASSUME ShellInv, prompt_row \in Rows, NEW pos \in 0..buffer_len, MoveTo(pos)
  PROVE  IsSuffix(Above', Above)
<1>1. Counters /\ Sane(term)
  BY DEF ShellInv
<1>2. prompt_col \in Columns /\ prompt_row \in Nat /\ pos \in Nat
  BY <1>1, SizesAre DEF Counters
<1>3. term' = shell_move_cursor_to(term, pos, prompt_row) /\ prompt_col' = prompt_col /\ prompt_row' = prompt_row
  BY DEF MoveTo
<1>4. PICK r : r = term'
  OBVIOUS
<1>5. CursorMoved(r, term, StartAt(prompt_row) + pos)
  BY <1>1, <1>2, <1>3, <1>4, MoveIs
<1>6. PICK n, row, u : Higher(row, n) /\ row = prompt_row /\ u = Scrolled(term, n) /\ u = term
  BY NoHigher
<1>7. row \in Nat /\ n \in Nat /\ n <= TERMINAL_HEIGHT /\ row + n = prompt_row
  BY <1>6 DEF Higher
<1>8. ScrolledBy(u, term, n)
  BY <1>1, <1>6, <1>7, ScrollsIs
<1>9. KeptBefore(r, u, StartAt(row))
  BY <1>5, <1>6 DEF KeptBefore, CursorMoved
<1>10. PICK old, new : old = AboveOf(term, prompt_row) /\ new = AboveOf(r, row)
  OBVIOUS
<1>11. IsSuffix(new, old)
  BY <1>1, <1>2, <1>7, <1>8, <1>9, <1>10, AboveKept
<1>12. Above = old
  BY <1>10 DEF Above, AboveOf
<1>13. Above' = new
  BY <1>3, <1>4, <1>6, <1>10 DEF Above, AboveOf
<1>. QED
  BY <1>11, <1>12, <1>13

LEMMA ReplaceLeaves ==
  ASSUME ShellInv, prompt_row \in Rows, NEW s \in Recalled, shell_replace_input(s)
  PROVE  IsSuffix(Above', Above)
<1>1. Counters
  BY DEF ShellInv
<1>2. buffer_len \in Nat /\ s \in Seq(Letters) /\ Len(s) \in Nat /\ Len(s) <= BUFFER_SIZE - 1
  BY <1>1, ShellAssumption, SizesAre DEF Counters
<1>3. PICK more \in Nat : more = IF buffer_len > Len(s) THEN buffer_len - Len(s) ELSE 0
  BY <1>2, SMTT(30)
<1>4. PICK blanks, cells : blanks = [i \in 1..more |-> Blank] /\ cells = s \o blanks
  OBVIOUS
<1>5. PICK see, len : see = shell_ensure_input_visible(prompt_col, prompt_row, len) /\ len = Len(s)
  OBVIOUS
<1>6. PICK n, row, u, from : n = see.scrolls /\ row = see.row /\ u = Scrolled(term, n) /\ from = 0
  OBVIOUS
<1>7. PICK d : d = Drawn(u, cells, from, row)
  OBVIOUS
<1>8. term' = shell_move_cursor_to(d, len, row) /\ prompt_row' = row /\ prompt_col' = prompt_col
  BY <1>3, <1>4, <1>5, <1>6, <1>7, Zenon DEF shell_replace_input
<1>9. cells \in Seq(Characters) /\ Padded(cells, s)
  BY <1>2, <1>3, <1>4, PadIs
<1>10. len \in 0..(BUFFER_SIZE - 1) /\ len \in 0..Len(s) /\ from \in 0..Len(s)
  BY <1>2, <1>5, <1>6, SizesAre
<1>11. Higher(row, n)
  BY <1>5, <1>6, <1>10, EnsureHigher
<1>. QED
  BY <1>2, <1>6, <1>7, <1>8, <1>9, <1>10, <1>11, EditLeaves

LEMMA EditingLeaves ==
  ASSUME ShellInv, [Next]_vars
  PROVE  [~listed /\ Editing => IsSuffix(Above', Above)]_vars
<1>. SUFFICES ASSUME ~listed, Editing PROVE IsSuffix(Above', Above)
  OBVIOUS
<1>1. prompt_row \in Rows
  BY TypeHolds DEF TypeOK
<1>2. buffer_len \in Nat /\ cursor_pos \in 0..buffer_len
  BY SizesAre DEF ShellInv, Counters
<1>3. CASE \E c \in Keys : shell_insert_char(c)
  BY <1>1, <1>3, InsertLeaves
<1>4. CASE shell_delete_before_cursor
  <2>1. PICK at : at = cursor_pos - 1
    OBVIOUS
  <2>2. at \in 0..(buffer_len - 1) /\ at + 1 = cursor_pos
    BY <1>2, <1>4, <2>1 DEF shell_delete_before_cursor
  <2>3. Edit(term, RemoveAt(Line, at + 1), at, at, prompt_row)
    BY <1>4, <2>1, <2>2 DEF shell_delete_before_cursor
  <2>. QED
    BY <1>1, <2>2, <2>3, DeleteLeaves
<1>5. CASE shell_delete_at_cursor
  <2>1. PICK at : at = cursor_pos
    OBVIOUS
  <2>2. at \in 0..(buffer_len - 1)
    BY <1>2, <1>5, <2>1 DEF shell_delete_at_cursor
  <2>3. Edit(term, RemoveAt(Line, at + 1), at, at, prompt_row)
    BY <1>5, <2>1 DEF shell_delete_at_cursor
  <2>. QED
    BY <1>1, <2>2, <2>3, DeleteLeaves
<1>6. CASE shell_move_left \/ shell_move_right
  <2>1. PICK pos \in 0..buffer_len : MoveTo(pos)
    BY <1>2, <1>6 DEF shell_move_left, shell_move_right
  <2>. QED
    BY <1>1, <2>1, MoveLeaves
<1>7. CASE \E s \in Recalled : shell_replace_input(s)
  BY <1>1, <1>7, ReplaceLeaves
<1>. QED
  BY <1>3, <1>4, <1>5, <1>6, <1>7 DEF Editing

\* Editing the line touches no character printed before it, on the screen or in the
\* scrollback, of which the oldest rows may go (shell_ensure_input_visible, t_scroll).
THEOREM EditingStaysInLine == Spec => EditsStayInLine
<1>1. ShellInv /\ [Next]_vars => [~listed /\ Editing => IsSuffix(Above', Above)]_vars
  BY EditingLeaves
<1>. QED
  BY <1>1, ShellInvariant, PTL DEF Spec, EditsStayInLine

(***************************************************************************)
(* The desktop loop and its interrupts.                                    *)
(***************************************************************************)
Nexts == {"dirty_discard", "dirty_read", "poll", "tick"}    \* what follows a redraw

\* The loop stays in its program.
LoopOK ==
  /\ pc \in {"tick", "clock_read", "dirty_discard", "dirty_read", "dirty_clear", "poll",
             "poll_read", "changed_read", "changed_clear", "pointer", "draw_upper", "draw_lower"}
  /\ drawing \in {"full", "damage", "cursor"} /\ after \in Nexts /\ seen \in BOOLEAN

KeysOK  == terminal \in 0..MaxKeys /\ t_dirty \in BOOLEAN /\ redraw_lost \in BOOLEAN
BytesOK == /\ sent \in 0..MaxBytes /\ out_byte \in 0..2
           /\ mouse_irq_ready \in BOOLEAN /\ out_full \in BOOLEAN
MouseOK == /\ packet_index \in 0..2 /\ mouse_at \in Places
           /\ buttons \in BOOLEAN /\ mouse_changed \in BOOLEAN /\ pointer_lost \in BOOLEAN
ClockOK == /\ clock_poll_count \in 0..(PollEvery - 1) /\ other_register \in BOOLEAN
           /\ displayed_second \in 0..NoSecond /\ second \in 0..(Seconds - 1)
ShownOK == /\ shown \in (0..MaxKeys) \X (0..MaxKeys) /\ cursor \in Places /\ cursor_to \in Places
           /\ previous_buttons \in BOOLEAN

DesktopTyped == LoopOK /\ KeysOK /\ BytesOK /\ MouseOK /\ ClockOK /\ ShownOK

LEMMA TypedInit == DesktopInit => DesktopTyped
<1>. SUFFICES ASSUME DesktopInit PROVE DesktopTyped
  OBVIOUS
<1>2. /\ seen \in BOOLEAN /\ t_dirty \in BOOLEAN /\ redraw_lost \in BOOLEAN
      /\ mouse_irq_ready \in BOOLEAN /\ out_full \in BOOLEAN /\ pointer_lost \in BOOLEAN
      /\ other_register \in BOOLEAN
  BY DEF DesktopInit
<1>3. buttons \in BOOLEAN /\ mouse_changed \in BOOLEAN /\ previous_buttons \in BOOLEAN
  BY DEF DesktopInit, mouse_init, gui_init, mouse_set_bounds
<1>4. LoopOK
  <2>1. pc = "draw_upper" /\ drawing = "full" /\ after = "dirty_discard"
    BY DEF DesktopInit
  <2>. QED
    BY <1>2, <2>1 DEF LoopOK, Nexts
<1>5. KeysOK /\ BytesOK
  <2>1. terminal = 0 /\ sent = 0 /\ out_byte = 0
    BY DEF DesktopInit
  <2>. QED
    BY <1>2, <2>1, DesktopAssumption DEF KeysOK, BytesOK
<1>6. MouseOK
  <2>1. packet_index = 0 /\ mouse_at = Centre
    BY DEF DesktopInit, mouse_init, gui_init, mouse_set_bounds
  <2>. QED
    BY <1>2, <1>3, <2>1, DesktopAssumption DEF MouseOK
<1>7. ClockOK
  <2>1. clock_poll_count = 0 /\ displayed_second = Seconds /\ second \in 0..(Seconds - 1)
    BY DEF DesktopInit, gui_init, NoSecond
  <2>. QED
    BY <1>2, <2>1, DesktopAssumption DEF ClockOK, NoSecond
<1>8. ShownOK
  <2>1. shown = <<0, 0>> /\ cursor = Centre /\ cursor_to = Centre
    BY DEF DesktopInit
  <2>. QED
    BY <1>3, <2>1, DesktopAssumption DEF ShownOK
<1>. QED
  BY <1>4, <1>5, <1>6, <1>7, <1>8 DEF DesktopTyped

LEMMA ProcessByteTyped ==
  ASSUME MouseOK, process_byte
  PROVE  MouseOK'
<1>1. process_packet => /\ mouse_at' \in Places /\ buttons' \in BOOLEAN
                        /\ mouse_changed' \in BOOLEAN /\ pointer_lost' \in BOOLEAN
  BY DEF MouseOK, process_packet
<1>. QED
  BY <1>1 DEF MouseOK, process_byte, mouse

LEMMA TypedNext == DesktopTyped /\ [DesktopNext]_DesktopVars => DesktopTyped'
<1>. SUFFICES ASSUME DesktopTyped, [DesktopNext]_DesktopVars PROVE DesktopTyped'
  OBVIOUS
<1>. USE DesktopAssumption
<1>1. CASE UNCHANGED DesktopVars
  BY <1>1 DEF DesktopVars, keyboard, i8042, mouse, clock, screen, loop, DesktopTyped, LoopOK, KeysOK, BytesOK,
              MouseOK, ClockOK, ShownOK
<1>2. CASE keyboard_handler
  <2>1. UNCHANGED <<i8042, mouse, screen, loop, previous_buttons>>
    BY <1>2 DEF keyboard_handler
  <2>2. LoopOK' /\ BytesOK' /\ MouseOK' /\ ShownOK'
    BY <2>1 DEF DesktopTyped, i8042, mouse, screen, loop, LoopOK, BytesOK, MouseOK, ShownOK
  <2>3. terminal' \in 0..MaxKeys /\ UNCHANGED <<second, clock_poll_count, displayed_second>>
    BY <1>2 DEF DesktopTyped, KeysOK, keyboard_handler
  <2>4. t_dirty' \in BOOLEAN /\ redraw_lost' \in BOOLEAN /\ other_register' \in BOOLEAN
    BY <1>2, Zenon DEF DesktopTyped, KeysOK, ClockOK, keyboard_handler
  <2>. QED
    BY <2>2, <2>3, <2>4 DEF DesktopTyped, KeysOK, ClockOK
<1>3. CASE send_byte
  <2>1. UNCHANGED <<keyboard, mouse, clock, screen, loop, previous_buttons>>
    BY <1>3 DEF send_byte
  <2>2. LoopOK' /\ KeysOK' /\ MouseOK' /\ ClockOK' /\ ShownOK'
    BY <2>1 DEF DesktopTyped, keyboard, mouse, clock, screen, loop, LoopOK, KeysOK, MouseOK, ClockOK, ShownOK
  <2>3. BytesOK'
    BY <1>3 DEF DesktopTyped, BytesOK, send_byte
  <2>. QED
    BY <2>2, <2>3 DEF DesktopTyped
<1>4. CASE mouse_handler
  <2>1. /\ UNCHANGED <<mouse_irq_ready, out_byte, sent, keyboard, clock, screen, loop, previous_buttons>>
        /\ out_full' = FALSE /\ process_byte
    BY <1>4 DEF mouse_handler
  <2>2. LoopOK' /\ KeysOK'
    BY <2>1 DEF DesktopTyped, keyboard, clock, screen, loop, LoopOK, KeysOK
  <2>3. BytesOK'
    BY <2>1 DEF DesktopTyped, BytesOK
  <2>4. ClockOK' /\ ShownOK'
    BY <2>1 DEF DesktopTyped, keyboard, clock, screen, loop, ClockOK, ShownOK
  <2>. QED
    BY <2>1, <2>2, <2>3, <2>4, ProcessByteTyped DEF DesktopTyped
<1>5. CASE tick
  <2>1. UNCHANGED <<keyboard, i8042, mouse, screen, loop, previous_buttons>>
    BY <1>5 DEF tick
  <2>2. LoopOK' /\ KeysOK' /\ BytesOK' /\ MouseOK' /\ ShownOK'
    BY <2>1 DEF DesktopTyped, keyboard, i8042, mouse, screen, loop, LoopOK, KeysOK, BytesOK, MouseOK, ShownOK
  <2>3. ClockOK'
    BY <1>5 DEF DesktopTyped, ClockOK, tick
  <2>. QED
    BY <2>2, <2>3 DEF DesktopTyped
<1>6. CASE gui_tick \/ rtc_read
  <2>1. UNCHANGED <<keyboard, i8042, mouse, screen, previous_buttons>>
    BY <1>6 DEF gui_tick, rtc_read
  <2>2. KeysOK' /\ BytesOK' /\ MouseOK' /\ ShownOK'
    BY <2>1 DEF DesktopTyped, keyboard, i8042, mouse, screen, KeysOK, BytesOK, MouseOK, ShownOK
  <2>3. LoopOK'
    BY <1>6 DEF DesktopTyped, LoopOK, Nexts, gui_tick, rtc_read, Goto, Draw
  <2>4. other_register' \in BOOLEAN /\ second' = second
    BY <1>6 DEF DesktopTyped, ClockOK, gui_tick, rtc_read
  <2>5. clock_poll_count' \in 0..(PollEvery - 1)
    BY <1>6 DEF DesktopTyped, ClockOK, gui_tick, rtc_read
  <2>6. displayed_second' \in 0..Seconds
    BY <1>6 DEF DesktopTyped, ClockOK, NoSecond, gui_tick, rtc_read
  <2>. QED
    BY <2>2, <2>3, <2>4, <2>5, <2>6 DEF DesktopTyped, ClockOK, NoSecond
<1>7. CASE dirty_discard \/ take_dirty_read \/ take_dirty_clear
  <2>1. UNCHANGED <<terminal, i8042, mouse, clock, screen, previous_buttons>>
    BY <1>7 DEF dirty_discard, take_dirty_read, take_dirty_clear, keyboard
  <2>2. BytesOK' /\ MouseOK' /\ ClockOK' /\ ShownOK'
    BY <2>1 DEF DesktopTyped, i8042, mouse, clock, screen, BytesOK, MouseOK, ClockOK, ShownOK
  <2>3. LoopOK'
    BY <1>7 DEF DesktopTyped, LoopOK, KeysOK, Nexts, dirty_discard, take_dirty_read, take_dirty_clear, Goto, Draw
  <2>4. KeysOK'
    BY <1>7 DEF DesktopTyped, KeysOK, keyboard, dirty_discard, take_dirty_read, take_dirty_clear
  <2>. QED
    BY <2>2, <2>3, <2>4 DEF DesktopTyped
<1>8. CASE mouse_poll
  <2>1. UNCHANGED <<keyboard, i8042, mouse, clock, screen, previous_buttons>>
    BY <1>8 DEF mouse_poll
  <2>2. KeysOK' /\ BytesOK' /\ MouseOK' /\ ClockOK' /\ ShownOK'
    BY <2>1 DEF DesktopTyped, keyboard, i8042, mouse, clock, screen, KeysOK, BytesOK, MouseOK, ClockOK, ShownOK
  <2>3. LoopOK'
    BY <1>8 DEF DesktopTyped, LoopOK, mouse_poll, Goto
  <2>. QED
    BY <2>2, <2>3 DEF DesktopTyped
<1>9. CASE mouse_poll_read
  <2>1. /\ UNCHANGED <<mouse_irq_ready, out_byte, sent, keyboard, clock, screen, previous_buttons>>
        /\ out_full' = FALSE /\ process_byte /\ Goto("poll")
    BY <1>9 DEF mouse_poll_read
  <2>2. KeysOK' /\ BytesOK' /\ ClockOK' /\ ShownOK'
    BY <2>1 DEF DesktopTyped, keyboard, clock, screen, KeysOK, BytesOK, ClockOK, ShownOK
  <2>3. LoopOK'
    BY <2>1 DEF DesktopTyped, LoopOK, Goto
  <2>. QED
    BY <2>1, <2>2, <2>3, ProcessByteTyped DEF DesktopTyped
<1>10. CASE has_changed_read \/ has_changed_clear \/ gui_handle_pointer
  <2>1. UNCHANGED <<packet_index, mouse_at, buttons, keyboard, i8042, clock, screen>>
    BY <1>10 DEF has_changed_read, has_changed_clear, gui_handle_pointer, mouse
  <2>2. KeysOK' /\ BytesOK' /\ ClockOK'
    BY <2>1 DEF DesktopTyped, keyboard, i8042, clock, KeysOK, BytesOK, ClockOK
  <2>3. LoopOK'
    BY <1>10 DEF DesktopTyped, LoopOK, MouseOK, Nexts, has_changed_read, has_changed_clear,
                 gui_handle_pointer, Goto, Draw
  <2>4. MouseOK' /\ ShownOK'
    BY <1>10, <2>1 DEF DesktopTyped, MouseOK, ShownOK, screen, mouse, has_changed_read, has_changed_clear,
                       gui_handle_pointer
  <2>. QED
    BY <2>2, <2>3, <2>4 DEF DesktopTyped
<1>11. CASE draw_upper \/ draw_lower
  <2>1. UNCHANGED <<terminal, t_dirty, i8042, mouse, clock, previous_buttons>>
    BY <1>11 DEF draw_upper, draw_lower, keyboard
  <2>2. BytesOK' /\ MouseOK' /\ ClockOK'
    BY <2>1 DEF DesktopTyped, i8042, mouse, clock, BytesOK, MouseOK, ClockOK
  <2>3. LoopOK'
    BY <1>11 DEF DesktopTyped, LoopOK, Nexts, draw_upper, draw_lower, Goto
  <2>4. KeysOK'
    <3>1. redraw_lost' \in BOOLEAN
      BY <1>11 DEF DesktopTyped, KeysOK, keyboard, draw_upper, draw_lower
    <3>. QED
      BY <2>1, <3>1 DEF DesktopTyped, KeysOK
  <2>5. ShownOK'
    <3>1. shown' \in {shown, [shown EXCEPT ![1] = terminal], [shown EXCEPT ![2] = terminal]}
      BY <1>11 DEF draw_upper, draw_lower
    <3>2. shown' \in (0..MaxKeys) \X (0..MaxKeys)
      BY <3>1 DEF DesktopTyped, KeysOK, ShownOK
    <3>3. cursor' \in Places /\ cursor_to' \in Places
      BY <1>11 DEF DesktopTyped, MouseOK, ShownOK, draw_upper, draw_lower
    <3>. QED
      BY <2>1, <3>2, <3>3 DEF DesktopTyped, ShownOK
  <2>. QED
    BY <2>2, <2>3, <2>4, <2>5 DEF DesktopTyped
<1>. QED
  BY <1>1, <1>2, <1>3, <1>4, <1>5, <1>6, <1>7, <1>8, <1>9, <1>10, <1>11 DEF DesktopNext, kernel_main

\* For every bound on keys and bytes the loop and the interrupts keep their types; packet
\* is never indexed behind its three bytes.
THEOREM DesktopTypeCorrect == DesktopSpec => []DesktopTypeOK
<1>1. DesktopTyped => DesktopTypeOK
  BY DEF DesktopTyped, LoopOK, KeysOK, BytesOK, MouseOK, ClockOK, ShownOK, DesktopTypeOK
<1>. QED
  BY <1>1, TypedInit, TypedNext, PTL DEF DesktopSpec

----------------------------------------------------------------------------
(***************************************************************************)
(* Bytes of the mouse.                                                     *)
(***************************************************************************)
\* A byte that waits is the one the driver needs next, and the mouse goes on with the one
\* after it; polling never meets an interrupt that takes the same byte.
InStep ==
  /\ out_full  => out_byte = packet_index /\ sent % 3 = (packet_index + 1) % 3
  /\ ~out_full => sent % 3 = packet_index
  /\ pc = "poll_read" => out_full /\ ~mouse_irq_ready

LEMMA InStepInit == DesktopInit => InStep
<1>1. DesktopInit => out_full = FALSE /\ sent = 0 /\ packet_index = 0 /\ pc = "draw_upper"
  BY DEF DesktopInit, mouse_init
<1>. QED
  BY <1>1 DEF InStep

LEMMA ByteTaken ==
  ASSUME BytesOK, MouseOK, InStep, out_full, process_byte
  PROVE  packet_index' = (packet_index + 1) % 3 /\ sent % 3 = packet_index'
<1>1. out_byte = packet_index /\ sent % 3 = (packet_index + 1) % 3 /\ packet_index \in 0..2
  BY DEF InStep, MouseOK
<1>2. packet_index' = IF packet_index = 2 THEN 0 ELSE packet_index + 1
  BY <1>1 DEF process_byte
<1>. QED
  BY <1>1, <1>2

LEMMA InStepNext == DesktopTyped /\ InStep /\ [DesktopNext]_DesktopVars => InStep'
<1>. SUFFICES ASSUME DesktopTyped, InStep, [DesktopNext]_DesktopVars PROVE InStep'
  OBVIOUS
<1>1. CASE \/ UNCHANGED DesktopVars \/ keyboard_handler \/ tick
  <2>1. UNCHANGED <<i8042, packet_index, pc>>
    BY <1>1 DEF DesktopVars, mouse, loop, keyboard_handler, tick
  <2>. QED
    BY <2>1 DEF InStep, i8042
<1>2. CASE send_byte
  <2>1. /\ ~out_full /\ out_full' /\ out_byte' = sent % 3 /\ sent' = sent + 1
        /\ UNCHANGED <<mouse_irq_ready, packet_index, pc>>
    BY <1>2 DEF send_byte, mouse, loop
  <2>2. sent \in Nat /\ packet_index \in 0..2
    BY DesktopAssumption DEF DesktopTyped, BytesOK, MouseOK
  <2>3. sent % 3 = packet_index /\ pc # "poll_read"
    BY <2>1 DEF InStep
  <2>4. sent' % 3 = (packet_index + 1) % 3
    BY <2>1, <2>2, <2>3
  <2>. QED
    BY <2>1, <2>3, <2>4 DEF InStep
<1>3. CASE mouse_handler
  <2>1. /\ mouse_irq_ready /\ out_full /\ out_full' = FALSE /\ process_byte
        /\ UNCHANGED <<mouse_irq_ready, sent, pc>>
    BY <1>3 DEF mouse_handler, loop
  <2>. QED
    BY <2>1, ByteTaken DEF DesktopTyped, InStep
<1>4. CASE mouse_poll
  <2>1. pc' = "poll_read" => ~mouse_irq_ready /\ out_full
    BY <1>4 DEF mouse_poll, Goto
  <2>2. UNCHANGED <<i8042, packet_index>>
    BY <1>4 DEF mouse_poll, mouse
  <2>. QED
    BY <2>1, <2>2 DEF InStep, i8042
<1>5. CASE mouse_poll_read
  <2>1. /\ pc = "poll_read" /\ pc' = "poll" /\ out_full' = FALSE /\ process_byte
        /\ UNCHANGED <<mouse_irq_ready, sent>>
    BY <1>5 DEF mouse_poll_read, Goto
  <2>2. out_full
    BY <2>1 DEF InStep
  <2>. QED
    BY <2>1, <2>2, ByteTaken DEF DesktopTyped, InStep
<1>6. CASE \/ gui_tick \/ rtc_read \/ dirty_discard \/ take_dirty_read \/ take_dirty_clear
           \/ has_changed_read \/ has_changed_clear \/ gui_handle_pointer
           \/ draw_upper \/ draw_lower
  <2>1. UNCHANGED <<i8042, packet_index>>
    BY <1>6 DEF gui_tick, rtc_read, dirty_discard, take_dirty_read, take_dirty_clear, mouse,
                has_changed_read, has_changed_clear, gui_handle_pointer, draw_upper, draw_lower
  <2>2. pc' # "poll_read"
    BY <1>6 DEF DesktopTyped, LoopOK, Nexts, Goto, Draw, gui_tick, rtc_read, dirty_discard,
                take_dirty_read, take_dirty_clear, has_changed_read, has_changed_clear,
                gui_handle_pointer, draw_upper, draw_lower
  <2>. QED
    BY <2>1, <2>2 DEF InStep, i8042
<1>. QED
  BY <1>1, <1>2, <1>3, <1>4, <1>5, <1>6 DEF DesktopNext, kernel_main

\* For every number of bytes, with interrupts or by polling, driver and mouse agree on
\* where a packet starts (mouse_poll gives way to IRQ12).
THEOREM PacketsAlwaysInSync == DesktopSpec => []PacketsInSync
<1>1. InStep => PacketsInSync
  BY DEF InStep, PacketsInSync
<1>. QED
  BY <1>1, TypedInit, TypedNext, InStepInit, InStepNext, PTL DEF DesktopSpec

----------------------------------------------------------------------------
(***************************************************************************)
(* Flags read and cleared.                                                 *)
(***************************************************************************)
\* What is set between the reading of a flag that was clear and its clearing is overlooked.
DirtyRace   == pc = "dirty_clear" /\ ~seen /\ t_dirty => redraw_lost
ChangedRace == pc = "changed_clear" /\ ~seen /\ mouse_changed => pointer_lost

DesktopKept == RedrawKept /\ PointerKept /\ DirtyRace /\ ChangedRace

LEMMA KeptInit == DesktopInit => DesktopKept
<1>. SUFFICES ASSUME DesktopInit PROVE DesktopKept
  OBVIOUS
<1>1. t_dirty /\ mouse_changed /\ pc = "draw_upper"
  BY DEF DesktopInit, gui_init, mouse_set_bounds
<1>. QED
  BY <1>1 DEF DesktopKept, RedrawKept, PointerKept, DirtyRace, ChangedRace

\* Steps that touch neither what is shown nor what it shows: they may only move on from a
\* place where nothing was promised.
LEMMA RedrawStays ==
  ASSUME RedrawKept, DirtyRace, UNCHANGED <<terminal, t_dirty, redraw_lost, shown>>,
         pc \notin {"dirty_clear", "draw_upper", "draw_lower"}, pc' # "dirty_clear"
  PROVE  RedrawKept' /\ DirtyRace'
BY DEF RedrawKept, DirtyRace, WillDraw

LEMMA PointerStays ==
  ASSUME PointerKept, UNCHANGED <<mouse_changed, pointer_lost, buttons, previous_buttons>>,
         pc \notin {"changed_clear", "pointer"}, pc' # "changed_clear"
  PROVE  PointerKept' /\ ChangedRace'
BY DEF PointerKept, ChangedRace

LEMMA ByteKeepsPointer ==
  ASSUME PointerKept, ChangedRace, process_byte, UNCHANGED <<seen, previous_buttons>>,
         pc' = pc \/ (pc = "poll_read" /\ pc' = "poll")
  PROVE  PointerKept' /\ ChangedRace'
<1>1. CASE UNCHANGED <<buttons, mouse_changed, pointer_lost>>
  BY <1>1 DEF PointerKept, ChangedRace
<1>2. CASE mouse_changed' /\ (pc = "changed_clear" /\ ~seen => pointer_lost')
  BY <1>2 DEF PointerKept, ChangedRace
<1>. QED
  BY <1>1, <1>2 DEF process_byte, process_packet, mouse

LEMMA KeptNext == DesktopTyped /\ DesktopKept /\ [DesktopNext]_DesktopVars => DesktopKept'
<1>. SUFFICES ASSUME DesktopTyped, RedrawKept, PointerKept, DirtyRace, ChangedRace, [DesktopNext]_DesktopVars
              PROVE  RedrawKept' /\ PointerKept' /\ DirtyRace' /\ ChangedRace'
  BY DEF DesktopKept
<1>1. CASE UNCHANGED DesktopVars \/ send_byte \/ tick
  <2>1. UNCHANGED <<keyboard, mouse, screen, loop, previous_buttons>>
    BY <1>1 DEF DesktopVars, send_byte, tick
  <2>. QED
    BY <2>1 DEF RedrawKept, PointerKept, DirtyRace, ChangedRace, WillDraw, keyboard, mouse,
                screen, loop
<1>2. CASE keyboard_handler
  <2>1. /\ t_dirty' /\ (pc = "dirty_clear" /\ ~seen => redraw_lost')
        /\ UNCHANGED <<mouse, loop, previous_buttons>>
    BY <1>2 DEF keyboard_handler
  <2>. QED
    BY <2>1 DEF RedrawKept, PointerKept, DirtyRace, ChangedRace, mouse, loop
<1>3. CASE mouse_handler
  <2>1. process_byte /\ UNCHANGED <<keyboard, screen, loop, previous_buttons>>
    BY <1>3 DEF mouse_handler
  <2>2. RedrawKept' /\ DirtyRace'
    BY <2>1 DEF RedrawKept, DirtyRace, WillDraw, keyboard, screen, loop
  <2>3. process_byte /\ seen' = seen /\ previous_buttons' = previous_buttons /\ pc' = pc
    BY <2>1 DEF loop
  <2>4. PointerKept' /\ ChangedRace'
    BY <2>3, ByteKeepsPointer
  <2>. QED
    BY <2>2, <2>4
<1>4. CASE gui_tick \/ rtc_read \/ mouse_poll
  <2>1. /\ UNCHANGED <<keyboard, mouse, screen, previous_buttons>>
        /\ pc \in {"tick", "clock_read", "poll"}
        /\ pc' \in {"clock_read", "dirty_read", "draw_upper", "poll_read", "changed_read"}
    BY <1>4 DEF gui_tick, rtc_read, mouse_poll, Goto, Draw
  <2>. QED
    BY <2>1, RedrawStays, PointerStays DEF keyboard, mouse, screen
<1>5. CASE dirty_discard
  <2>1. /\ pc = "dirty_discard" /\ pc' = "tick" /\ t_dirty' = FALSE
        /\ redraw_lost' = (shown # <<terminal, terminal>>)
        /\ UNCHANGED <<terminal, mouse, screen, previous_buttons>>
    BY <1>5 DEF dirty_discard, Goto
  <2>2. RedrawKept'
    <3>1. CASE shown = <<terminal, terminal>>
      BY <2>1, <3>1 DEF RedrawKept, screen
    <3>2. CASE shown # <<terminal, terminal>>
      BY <2>1, <3>2 DEF RedrawKept
    <3>. QED
      BY <3>1, <3>2
  <2>3. DirtyRace'
    BY <2>1 DEF DirtyRace
  <2>. QED
    BY <2>1, <2>2, <2>3, PointerStays DEF mouse
<1>6. CASE take_dirty_read
  <2>1. /\ pc = "dirty_read" /\ pc' = "dirty_clear" /\ seen' = t_dirty
        /\ UNCHANGED <<keyboard, mouse, screen, previous_buttons>>
    BY <1>6 DEF take_dirty_read
  <2>2. RedrawKept' /\ DirtyRace'
    BY <2>1 DEF RedrawKept, DirtyRace, WillDraw, keyboard, screen
  <2>. QED
    BY <2>1, <2>2, PointerStays DEF mouse
<1>7. CASE take_dirty_clear
  <2>1. /\ pc = "dirty_clear" /\ t_dirty' = FALSE
        /\ seen => pc' = "draw_upper" /\ drawing' = "full"
        /\ ~seen => pc' = "poll"
        /\ UNCHANGED <<terminal, redraw_lost, mouse, screen, previous_buttons>>
    BY <1>7 DEF take_dirty_clear, Draw, Goto
  <2>2. RedrawKept' /\ DirtyRace'
    BY <2>1 DEF RedrawKept, DirtyRace, WillDraw, screen
  <2>. QED
    BY <2>1, <2>2, PointerStays DEF mouse
<1>8. CASE mouse_poll_read
  <2>1. /\ pc = "poll_read" /\ pc' = "poll" /\ process_byte
        /\ UNCHANGED <<seen, keyboard, screen, previous_buttons>>
    BY <1>8 DEF mouse_poll_read, Goto
  <2>. QED
    BY <2>1, RedrawStays, ByteKeepsPointer DEF keyboard, screen
<1>9. CASE has_changed_read
  <2>1. /\ pc = "changed_read" /\ pc' = "changed_clear" /\ seen' = mouse_changed
        /\ UNCHANGED <<keyboard, mouse, screen, previous_buttons>>
    BY <1>9 DEF has_changed_read
  <2>2. PointerKept' /\ ChangedRace'
    BY <2>1 DEF PointerKept, ChangedRace, mouse
  <2>. QED
    BY <2>1, <2>2, RedrawStays DEF keyboard, screen
<1>10. CASE has_changed_clear
  <2>1. /\ pc = "changed_clear" /\ mouse_changed' = FALSE
        /\ seen => pc' = "pointer"
        /\ ~seen => pc' = "tick"
        /\ UNCHANGED <<buttons, pointer_lost, keyboard, screen, previous_buttons>>
    BY <1>10 DEF has_changed_clear, Goto
  <2>2. PointerKept' /\ ChangedRace'
    BY <2>1 DEF PointerKept, ChangedRace
  <2>. QED
    BY <2>1, <2>2, RedrawStays DEF keyboard, screen
<1>11. CASE gui_handle_pointer
  <2>1. /\ pc = "pointer" /\ pc' = "draw_upper" /\ previous_buttons' = buttons
        /\ UNCHANGED <<buttons, keyboard, screen>>
    BY <1>11 DEF gui_handle_pointer, Draw
  <2>2. PointerKept' /\ ChangedRace'
    BY <2>1 DEF PointerKept, ChangedRace
  <2>. QED
    BY <2>1, <2>2, RedrawStays DEF keyboard, screen
<1>12. CASE draw_upper
  <2>1. /\ pc = "draw_upper" /\ pc' = "draw_lower"
        /\ shown' \in {shown, [shown EXCEPT ![1] = terminal]}
        /\ drawing # "cursor" => shown' = [shown EXCEPT ![1] = terminal]
        /\ drawing = "cursor" => (redraw_lost => redraw_lost')
        /\ UNCHANGED <<drawing, terminal, t_dirty, mouse, previous_buttons>>
    BY <1>12 DEF draw_upper
  <2>2. shown \in (0..MaxKeys) \X (0..MaxKeys)
    BY DEF DesktopTyped, ShownOK
  <2>3. /\ drawing # "cursor" => shown'[1] = terminal
        /\ shown[1] = terminal => shown'[1] = terminal
        /\ shown[2] = terminal => shown'[2] = terminal
    BY <2>1, <2>2
  <2>4. RedrawKept' /\ DirtyRace'
    BY <2>1, <2>3 DEF RedrawKept, DirtyRace, WillDraw
  <2>. QED
    BY <2>1, <2>4, PointerStays DEF mouse
<1>13. CASE draw_lower
  <2>1. /\ pc = "draw_lower" /\ pc' \in Nexts
        /\ shown' \in {shown, [shown EXCEPT ![2] = terminal]}
        /\ drawing # "cursor" => shown' = [shown EXCEPT ![2] = terminal]
        /\ UNCHANGED <<keyboard, mouse, previous_buttons>>
    BY <1>13 DEF draw_lower, Goto, DesktopTyped, LoopOK
  <2>2. shown \in (0..MaxKeys) \X (0..MaxKeys)
    BY DEF DesktopTyped, ShownOK
  <2>3. /\ drawing # "cursor" => shown'[2] = terminal
        /\ shown[1] = terminal => shown'[1] = terminal
        /\ shown[2] = terminal => shown'[2] = terminal
    BY <2>1, <2>2 DEF DesktopTyped, KeysOK
  <2>4. RedrawKept' /\ DirtyRace'
    BY <2>1, <2>3 DEF RedrawKept, DirtyRace, WillDraw, Nexts, keyboard
  <2>. QED
    BY <2>1, <2>4, PointerStays DEF mouse, Nexts
<1>. QED
  BY <1>1, <1>2, <1>3, <1>4, <1>5, <1>6, <1>7, <1>8, <1>9, <1>10, <1>11, <1>12, <1>13
     DEF DesktopNext, kernel_main

\* For every number of keys and bytes, whenever the interrupts come: a change of the
\* terminal or of a button is shown or handled, or the loop is bound to, but for those
\* that come between the reading of a flag and its clearing.
THEOREM NothingEverForgotten == DesktopSpec => []NothingForgotten
<1>1. DesktopKept => NothingForgotten
  BY DEF DesktopKept, NothingForgotten
<1>. QED
  BY <1>1, TypedInit, TypedNext, KeptInit, KeptNext, PTL DEF DesktopSpec
=============================================================================
