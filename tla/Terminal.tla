------------------------------ MODULE Terminal ------------------------------
(***************************************************************************)
(* The display and the keyboard.  devices/vga.c: a display s has its       *)
(* characters fb, a function of row and column, and the cursor cx, cy; hw  *)
(* is where the hardware cursor is.  (Attributes are left out; they are    *)
(* all the same.)  devices/kbd.c, from scancodes to characters: a          *)
(* keyboard's state k is the set of shift keys held, by scancode, and      *)
(* caps.  Its characters are their ASCII codes.                            *)
(***************************************************************************)
EXTENDS Integers, Sequences

CONSTANTS COL_CNT, ROW_CNT,
          TAB   \* columns between tab stops, 8

Blank == " "
clear_row(s, y) == [s EXCEPT !.fb = [p \in DOMAIN s.fb |-> IF p[1] = y THEN Blank ELSE s.fb[p]]]
\* The next line; at the bottom, everything one row up.
newline(s) ==
  IF s.cy + 1 < ROW_CNT THEN [s EXCEPT !.cx = 0, !.cy = @ + 1]
  ELSE clear_row([s EXCEPT !.cx = 0,
                   !.fb = [p \in DOMAIN s.fb |-> IF p[1] < ROW_CNT - 1 THEN s.fb[<<p[1] + 1, p[2]>>]
                                                 ELSE s.fb[p]]], ROW_CNT - 1)
cls(s) == [s EXCEPT !.fb = [p \in DOMAIN s.fb |-> Blank], !.cx = 0, !.cy = 0]
\* move_cursor, and find_cursor of what it sets.
move_cursor(s) == [s EXCEPT !.hw = s.cx + COL_CNT * s.cy]
find_cursor(s) == [s EXCEPT !.cx = s.hw % COL_CNT, !.cy = s.hw \div COL_CNT]
Wrapped(s) == IF s.cx >= COL_CNT THEN newline(s) ELSE s

\* The effect of a character, before the hardware cursor is moved.
Shown(s, c) ==
  CASE c = "line" -> newline(s)
    [] c = "page" -> cls(s)
    [] c = "back" -> IF s.cx > 0 THEN [s EXCEPT !.cx = @ - 1] ELSE s
    [] c = "return" -> [s EXCEPT !.cx = 0]
    [] c = "tab" -> Wrapped([s EXCEPT !.cx = ((@ + TAB) \div TAB) * TAB])
    [] c = "bell" -> s
    [] OTHER -> Wrapped([s EXCEPT !.fb[<<s.cy, s.cx>>] = c, !.cx = @ + 1])
vga_putc(s, c) == move_cursor(Shown(s, c))
-----------------------------------------------------------------------------
PREFIX == 57344            \* 0xe0 << 8, of two-byte scancodes
CAPS == 58                 \* 0x3a
LeftShift == 42            \* 0x2a
RightShift == 54           \* 0x36
LeftAlt == 56              \* 0x38
RightAlt == PREFIX + 56    \* 0xe038
LeftCtrl == 29             \* 0x1d
RightCtrl == PREFIX + 29   \* 0xe01d
shift_keys == {LeftShift, RightShift, LeftAlt, RightAlt, LeftCtrl, RightCtrl}

\* Runs of characters, by their first scancode.
invariant_keymap ==
  {[first |-> 1, chars |-> <<27>>], [first |-> 14, chars |-> <<8>>],
   [first |-> 15, chars |-> <<9, 81, 87, 69, 82, 84, 89, 85, 73, 79, 80>>], \* \tQWERTYUIOP
   [first |-> 28, chars |-> <<13>>],
   [first |-> 30, chars |-> <<65, 83, 68, 70, 71, 72, 74, 75, 76>>],        \* ASDFGHJKL
   [first |-> 44, chars |-> <<90, 88, 67, 86, 66, 78, 77>>],                \* ZXCVBNM
   [first |-> 55, chars |-> <<42>>], [first |-> 57, chars |-> <<32>>],
   [first |-> 83, chars |-> <<127>>]}
unshifted_keymap ==
  {[first |-> 2, chars |-> <<49, 50, 51, 52, 53, 54, 55, 56, 57, 48, 45, 61>>], \* 1234567890-=
   [first |-> 26, chars |-> <<91, 93>>], [first |-> 39, chars |-> <<59, 39, 96>>],
   [first |-> 43, chars |-> <<92>>], [first |-> 51, chars |-> <<44, 46, 47>>]}
shifted_keymap ==
  {[first |-> 2, chars |-> <<33, 64, 35, 36, 37, 94, 38, 42, 40, 41, 95, 43>>], \* !@#$%^&*()_+
   [first |-> 26, chars |-> <<123, 125>>], [first |-> 39, chars |-> <<58, 34, 126>>],
   [first |-> 43, chars |-> <<124>>], [first |-> 51, chars |-> <<60, 62, 63>>]}

\* The characters of a scancode: one, or none.
map_key(keymap, code) ==
  {e.chars[code - e.first + 1] : e \in {e \in keymap : code >= e.first /\ code < e.first + Len(e.chars)}}

Held(k, keys) == k.held \cap keys # {}
Shift(k) == Held(k, {LeftShift, RightShift})
Ctrl(k) == Held(k, {LeftCtrl, RightCtrl})
Alt(k) == Held(k, {LeftAlt, RightAlt})
Chars(k, code) ==
  map_key(invariant_keymap, code)
    \cup map_key(IF Shift(k) THEN shifted_keymap ELSE unshifted_keymap, code)

\* What a key with character c types: Ctrl overrides Shift, Alt sets the high bit.
Typed(k, c) ==
  LET d == IF Ctrl(k) /\ 64 <= c /\ c < 96 THEN c - 64
           ELSE IF Shift(k) = k.caps /\ 65 <= c /\ c <= 90 THEN c + 32 ELSE c
  IN  IF Alt(k) THEN d + 128 ELSE d

\* keyboard_interrupt: the new state and the characters typed, one or none.
\* byte is the scancode with 0x80 if the key is released.
keyboard_interrupt(k, byte) ==
  LET release == (byte % 256) >= 128
      code == IF release THEN byte - 128 ELSE byte
      cs == Chars(k, code)
      reboot == ~release /\ 127 \in cs /\ Ctrl(k) /\ Alt(k)
  IN  IF code = CAPS
      THEN [k |-> IF release THEN k ELSE [k EXCEPT !.caps = ~@], typed |-> {}, reboot |-> FALSE]
      ELSE IF cs # {}
      THEN [k |-> k, typed |-> IF release \/ reboot THEN {} ELSE {Typed(k, c) : c \in cs},
            reboot |-> reboot]
      ELSE [k |-> IF code \notin shift_keys THEN k
                  ELSE [k EXCEPT !.held = IF release THEN @ \ {code} ELSE @ \cup {code}],
            typed |-> {}, reboot |-> FALSE]
=============================================================================
