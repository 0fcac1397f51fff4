------------------------------ MODULE Terminal ------------------------------
(***************************************************************************)
(* devices/vga.c and devices/kbd.c: what a character does to the text      *)
(* screen, and what a scancode does to the state of the modifier keys and  *)
(* to the input.  The screen is scaled down.  Characters on the screen are *)
(* any values, control characters have names; the keyboard's are codes.    *)
(***************************************************************************)
EXTENDS Naturals, Sequences, FiniteSets

COL_CNT == 4       \* 80
ROW_CNT == 2       \* 25
TabStop == 2       \* 8
Rows == 0..(ROW_CNT - 1)
BlankRow == [x \in 0..(COL_CNT - 1) |-> "blank"]

\* A screen: the cursor and the frame buffer.
clear_row(v, y) == [v EXCEPT !.fb[y] = BlankRow]
cls(v) == [cx |-> 0, cy |-> 0, fb |-> [y \in Rows |-> BlankRow]]

newline_NoClear(v) ==
  LET last == v.cy + 1 >= ROW_CNT
  IN  [cx |-> 0, cy |-> IF last THEN ROW_CNT - 1 ELSE v.cy + 1,
       fb |-> IF last THEN [y \in Rows |-> v.fb[IF y + 1 < ROW_CNT THEN y + 1 ELSE y]] ELSE v.fb]

\* The next line; past the last one everything moves up.
newline(v) ==
  LET next == [v EXCEPT !.cx = 0, !.cy = @ + 1]
      scrolled == [y \in Rows |-> v.fb[IF y + 1 < ROW_CNT THEN y + 1 ELSE y]]
  IN  IF next.cy < ROW_CNT THEN next
      ELSE clear_row([next EXCEPT !.cy = ROW_CNT - 1, !.fb = scrolled], ROW_CNT - 1)

NewlineAtEdge(v) == IF v.cx >= COL_CNT THEN newline(v) ELSE v

vga_putc(v, c) ==
  CASE c = "LF" -> newline(v)
    [] c = "FF" -> cls(v)
    [] c = "BS" -> [v EXCEPT !.cx = IF @ > 0 THEN @ - 1 ELSE @]
    [] c = "CR" -> [v EXCEPT !.cx = 0]
    [] c = "TAB" -> NewlineAtEdge([v EXCEPT !.cx = ((@ + 1 + TabStop - 1) \div TabStop) * TabStop])
    [] OTHER -> NewlineAtEdge([v EXCEPT !.fb[v.cy][v.cx] = c, !.cx = @ + 1])

\* The hardware's cursor, which a later boot starts from.
move_cursor(v) == v.cx + COL_CNT * v.cy
find_cursor(cp) == [cx |-> cp % COL_CNT, cy |-> cp \div COL_CNT]
-----------------------------------------------------------------------------
Keymap(first, chars) == [first |-> first, chars |-> chars]

invariant_keymap ==
  {Keymap(1, <<27>>), Keymap(14, <<8>>),
   Keymap(15, <<9, 81, 87, 69, 82, 84, 89, 85, 73, 79, 80>>), Keymap(28, <<13>>),
   Keymap(30, <<65, 83, 68, 70, 71, 72, 74, 75, 76>>),
   Keymap(44, <<90, 88, 67, 86, 66, 78, 77>>), Keymap(55, <<42>>), Keymap(57, <<32>>)}
unshifted_keymap ==
  {Keymap(2, <<49, 50, 51, 52, 53, 54, 55, 56, 57, 48, 45, 61>>), Keymap(26, <<91, 93>>),
   Keymap(39, <<59, 39, 96>>), Keymap(43, <<92>>), Keymap(51, <<44, 46, 47>>)}
shifted_keymap ==
  {Keymap(2, <<33, 64, 35, 36, 37, 94, 38, 42, 40, 41, 95, 43>>), Keymap(26, <<123, 125>>),
   Keymap(39, <<58, 34, 126>>), Keymap(43, <<124>>), Keymap(51, <<60, 62, 63>>)}

\* The characters a map has for a scancode.
map_key(map, code) ==
  {k.chars[code - k.first + 1] : k \in {m \in map : code \in m.first..(m.first + Len(m.chars) - 1)}}

\* Scancodes with the prefix 0xe0 are 57344 + the second byte.
shift_keys == [left_shift |-> 42, right_shift |-> 54, left_alt |-> 56, right_alt |-> 57400,
               left_ctrl |-> 29, right_ctrl |-> 57373]
caps_lock_key == 58
NoModifiers == [m \in DOMAIN shift_keys \cup {"caps_lock"} |-> FALSE]
tolower(c) == IF c \in 65..90 THEN c + 32 ELSE c

\* keyboard_interrupt: the modifiers after the scancode, and what is put into
\* the input buffer (if there is room, see Console.tla).
keyboard_interrupt(k, scancode) ==
  LET shift == k.left_shift \/ k.right_shift
      alt == k.left_alt \/ k.right_alt
      ctrl == k.left_ctrl \/ k.right_ctrl
      release == (scancode \div 128) % 2 = 1
      code == IF release THEN scancode - 128 ELSE scancode
      found == map_key(invariant_keymap, code)
               \cup map_key(IF shift THEN shifted_keymap ELSE unshifted_keymap, code)
      c == CHOOSE x \in found : TRUE
      plain == IF ctrl /\ c \in 64..95 THEN c - 64 ELSE IF shift = k.caps_lock THEN tolower(c) ELSE c
      pressed == {m \in DOMAIN shift_keys : shift_keys[m] = code}
  IN  IF code = caps_lock_key THEN [keys |-> [k EXCEPT !.caps_lock = IF release THEN @ ELSE ~@], typed |-> <<>>]
      ELSE IF found # {}
      THEN [keys |-> k, typed |-> IF release THEN <<>> ELSE <<IF alt THEN plain + 128 ELSE plain>>]
      ELSE [keys |-> [m \in DOMAIN k |-> IF m \in pressed THEN ~release ELSE k[m]], typed |-> <<>>]
=============================================================================
