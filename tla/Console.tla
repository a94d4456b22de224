------------------------------ MODULE Console ------------------------------
(***************************************************************************)
(* What the kernel prints, character by character: screen_write and        *)
(* screen_put on the cursor, the video memory and the CRT controller that  *)
(* all tasks share.  The copy that printk sends to the serial port is left *)
(* out.                                                                    *)
(*                                                                         *)
(* Interrupts are on and tasks can be switched between any two accesses to *)
(* what is shared: without -O (Makefile) an increment is a load and a      *)
(* store.  Scrolling goes line by line.  The video memory is an array of   *)
(* ints here as in the code, though a cell of the VGA board is half of     *)
(* one.                                                                    *)
(*                                                                         *)
(* Programs are the calls a task may make: [op, arg, format], op being the *)
(* name of the function, arg a number and format what printk gets.         *)
(***************************************************************************)
EXTENDS Printk, FiniteSets

CONSTANTS Task, Programs, Width, Height, Tab,
          Byte               \* 256: values of a register of the CRT controller

Blank == 32
\* The lines below the screen that a task can be led to write to while another
\* has not scrolled yet.
Cells == 0..(Width * (Height + 2 * Cardinality(Task)) - 1)

ASSUME ScreenAssumption ==
  /\ Width \in Nat \ {0} /\ Height \in Nat \ {0} /\ Tab \in Nat \ {0}
  /\ Byte \in Nat /\ Byte > 1

\* Two registers of the CRT controller hold any place on the screen.
ASSUME PlacesAssumption == Width * Height <= Byte * Byte /\ IsFiniteSet(Task)

\* A call: numbers are u32, texts are sequences of characters.
u32 == {n \in Nat : n \div 16 ^ 7 < 16}
FormatItem == [directive : {"x", "d", "c", "p", "b", "s", "literal"}, arg : u32,
               text : Seq(Nat)]
PrintCall == [op : {"none", "printk", "screen_write_hex", "screen_write_dec"},
              arg : u32, format : Seq(FormatItem)]

ASSUME ProgramsAssumption == Programs \subseteq [Task -> Seq(PrintCall)]

VARIABLES video_memory, cursor_x, cursor_y,
          index, high, low,          \* the CRT controller: address, cursor
          program, call, text,       \* calls to make, the one made, its rest
          pc, acc, i, return,        \* screen_put: point, locals
          printed, mixed             \* history

cursor == <<cursor_x, cursor_y>>
crtc == <<index, high, low>>
calls == <<program, call, printed, mixed>>
vars == <<video_memory, cursor, crtc, program, call, text, pc, acc, i,
          return, printed, mixed>>

NoCall == [op |-> "none", arg |-> 0, format |-> <<>>]

Init ==
  /\ video_memory = [k \in Cells |-> Blank]
  /\ cursor_x = 0 /\ cursor_y = 0
  /\ index = 15 /\ high = 0 /\ low = 0
  /\ program \in Programs
  /\ call = [t \in Task |-> NoCall] /\ text = [t \in Task |-> <<>>]
  /\ pc = [t \in Task |-> "idle"] /\ acc = [t \in Task |-> 0]
  /\ i = [t \in Task |-> 0] /\ return = [t \in Task |-> "idle"]
  /\ printed = <<>> /\ mixed = FALSE

-----------------------------------------------------------------------------
(* The calls *)

Text(c) == CASE c.op = "printk" -> Sprintk(c.format)
             [] c.op = "screen_write_hex" -> U32ToHex(c.arg)
             [] c.op = "screen_write_dec" -> ScreenWriteDec(c.arg)
             [] OTHER -> <<>>

Quiet == \A t \in Task : pc[t] = "idle"

Call(t) ==
  /\ pc[t] = "idle" /\ program[t] # <<>>
  /\ LET c == Head(program[t]) IN
     /\ call' = [call EXCEPT ![t] = c]
     /\ text' = [text EXCEPT ![t] = Text(c)]
     /\ mixed' = (mixed \/ ~Quiet)
     /\ printed' = IF mixed' THEN <<>> ELSE printed \o Text(c)
  /\ program' = [program EXCEPT ![t] = Tail(@)]
  /\ pc' = [pc EXCEPT ![t] = "put"]
  /\ UNCHANGED <<video_memory, cursor, crtc, acc, i, return>>

\* The loop of screen_write ends.
Written(t) ==
  /\ pc[t] = "put" /\ text[t] = <<>>
  /\ pc' = [pc EXCEPT ![t] = "idle"]
  /\ call' = [call EXCEPT ![t] = NoCall]
  /\ UNCHANGED <<video_memory, cursor, crtc, program, text, acc, i, return,
                 printed, mixed>>

-----------------------------------------------------------------------------
(* screen_put *)

Backspace(c) == c = 8 /\ cursor_x # 0
TabStopPast == cursor_x + Tab                             \* mutant
TabStop == ((cursor_x + Tab) \div Tab) * Tab

Puts(t, c) == pc[t] = "put" /\ text[t] # <<>> /\ Head(text[t]) = c
Takes(t) == text' = [text EXCEPT ![t] = Tail(@)]
GoTo(t, p) == pc' = [pc EXCEPT ![t] = p]
Loads(t, v) == acc' = [acc EXCEPT ![t] = v]

\* A backspace, a tab and a printable character read the cursor and store it
\* back later.
PutBackspace(t) ==
  /\ Puts(t, 8) /\ Backspace(8) /\ Takes(t)
  /\ GoTo(t, "load_back")
  /\ UNCHANGED <<video_memory, cursor, crtc, calls, acc, i, return>>

LoadBack(t) ==
  /\ pc[t] = "load_back"
  /\ Loads(t, cursor_x - 1) /\ GoTo(t, "store_x")
  /\ UNCHANGED <<video_memory, cursor, crtc, calls, text, i, return>>

PutTab(t) ==
  /\ Puts(t, 9) /\ Takes(t)
  /\ Loads(t, TabStop) /\ GoTo(t, "store_x")
  /\ UNCHANGED <<video_memory, cursor, crtc, calls, i, return>>

PutReturn(t) ==
  /\ Puts(t, 13) /\ Takes(t)
  /\ cursor_x' = 0 /\ GoTo(t, "wrap")
  /\ UNCHANGED <<video_memory, cursor_y, crtc, calls, acc, i, return>>

PutNewline(t) ==
  /\ Puts(t, 10) /\ Takes(t)
  /\ cursor_x' = 0 /\ GoTo(t, "load_y")
  /\ return' = [return EXCEPT ![t] = "wrap"]
  /\ UNCHANGED <<video_memory, cursor_y, crtc, calls, acc, i>>

\* location, then *location.
Locate(t) ==
  /\ pc[t] = "put" /\ text[t] # <<>> /\ Head(text[t]) >= Blank
  /\ Loads(t, cursor_y * Width + cursor_x) /\ GoTo(t, "write")
  /\ UNCHANGED <<video_memory, cursor, crtc, calls, text, i, return>>

PutPrintable(t) ==
  /\ pc[t] = "write" /\ Takes(t)
  /\ video_memory' = [video_memory EXCEPT ![acc[t]] = Head(text[t])]
  /\ GoTo(t, "load_x")
  /\ UNCHANGED <<cursor, crtc, calls, acc, i, return>>

LoadX(t) ==
  /\ pc[t] = "load_x"
  /\ Loads(t, cursor_x + 1) /\ GoTo(t, "store_x")
  /\ UNCHANGED <<video_memory, cursor, crtc, calls, text, i, return>>

StoreX(t) ==
  /\ pc[t] = "store_x"
  /\ cursor_x' = acc[t] /\ GoTo(t, "wrap")
  /\ UNCHANGED <<video_memory, cursor_y, crtc, calls, text, acc, i, return>>

\* A character that is neither (a backspace in column 0 is one).
PutNothing(t) ==
  /\ pc[t] = "put" /\ text[t] # <<>>
  /\ LET c == Head(text[t]) IN
       c < Blank /\ c \notin {9, 10, 13} /\ ~Backspace(c)
  /\ Takes(t) /\ GoTo(t, "wrap")
  /\ UNCHANGED <<video_memory, cursor, crtc, calls, acc, i, return>>

LineFull == cursor_x >= Width

Wrap(t) ==
  /\ pc[t] = "wrap"
  /\ IF LineFull
     THEN /\ cursor_x' = 0 /\ GoTo(t, "load_y")
          /\ return' = [return EXCEPT ![t] = "scroll"]
     ELSE GoTo(t, "scroll") /\ UNCHANGED <<cursor_x, return>>
  /\ UNCHANGED <<video_memory, cursor_y, crtc, calls, text, acc, i>>

LoadY(t) ==
  /\ pc[t] = "load_y"
  /\ Loads(t, cursor_y + 1) /\ GoTo(t, "store_y")
  /\ UNCHANGED <<video_memory, cursor, crtc, calls, text, i, return>>

StoreY(t) ==
  /\ pc[t] = "store_y"
  /\ cursor_y' = acc[t] /\ GoTo(t, return[t])
  /\ UNCHANGED <<video_memory, cursor_x, crtc, calls, text, acc, i, return>>

PastScreenLate == cursor_y > Height                       \* mutant
PastScreen == cursor_y >= Height

Scroll(t) ==
  /\ pc[t] = "scroll"
  /\ i' = [i EXCEPT ![t] = 0]
  /\ GoTo(t, IF PastScreen THEN "scroll_line" ELSE "cursor")
  /\ UNCHANGED <<video_memory, cursor, crtc, calls, text, acc, return>>

Line(n) == (n * Width)..(n * Width + Width - 1)

\* The last line becomes blank.
ScrollLine(t) ==
  /\ pc[t] = "scroll_line" /\ i[t] < Height
  /\ video_memory' = [k \in Cells |->
       IF k \notin Line(i[t]) THEN video_memory[k]
       ELSE IF i[t] = Height - 1 THEN Blank ELSE video_memory[k + Width]]
  /\ i' = [i EXCEPT ![t] = @ + 1]
  /\ UNCHANGED <<cursor, crtc, calls, text, pc, acc, return>>

LastLine(t) ==
  /\ pc[t] = "scroll_line" /\ i[t] = Height
  /\ cursor_y' = Height - 1
  /\ GoTo(t, "cursor")
  /\ UNCHANGED <<video_memory, cursor_x, crtc, calls, text, acc, i, return>>

-----------------------------------------------------------------------------
(* move_cursor *)

SelectHigh(t) ==
  /\ pc[t] = "cursor"
  /\ Loads(t, cursor_y * Width + cursor_x)
  /\ index' = 14 /\ GoTo(t, "high")
  /\ UNCHANGED <<video_memory, cursor, high, low, calls, text, i, return>>

\* The byte goes to the register that is selected.
Out(value) == IF index = 14 THEN high' = value /\ UNCHANGED low
                            ELSE low' = value /\ UNCHANGED high

SendHigh(t) ==
  /\ pc[t] = "high"
  /\ Out((acc[t] \div Byte) % Byte) /\ GoTo(t, "select_low")
  /\ UNCHANGED <<video_memory, cursor, index, calls, text, acc, i, return>>

SelectLow(t) ==
  /\ pc[t] = "select_low"
  /\ index' = 15 /\ GoTo(t, "low")
  /\ UNCHANGED <<video_memory, cursor, high, low, calls, text, acc, i, return>>

SendLow(t) ==
  /\ pc[t] = "low"
  /\ Out(acc[t] % Byte) /\ GoTo(t, "put")
  /\ Loads(t, 0)
  /\ UNCHANGED <<video_memory, cursor, index, calls, text, i, return>>

-----------------------------------------------------------------------------
Put(t) == PutBackspace(t) \/ LoadBack(t) \/ PutTab(t) \/ PutReturn(t)
            \/ PutNewline(t) \/ Locate(t) \/ PutPrintable(t) \/ PutNothing(t)
Advance(t) == LoadX(t) \/ StoreX(t) \/ Wrap(t) \/ LoadY(t) \/ StoreY(t)
                \/ Scroll(t) \/ ScrollLine(t) \/ LastLine(t)
MoveCursor(t) == SelectHigh(t) \/ SendHigh(t) \/ SelectLow(t) \/ SendLow(t)

Next == \E t \in Task : Call(t) \/ Put(t) \/ Advance(t) \/ MoveCursor(t)
                          \/ Written(t)

Spec == Init /\ [][Next]_vars

-----------------------------------------------------------------------------

\* What a text looks like on a sheet without end: a character goes to the
\* cursor's place; a line that is full, or ended, is followed by the next.
NextTab(x) == CHOOSE stop \in (x + 1)..(x + Tab) : stop % Tab = 0
NextLine(s) == [cell |-> s.cell, x |-> 0, y |-> s.y + 1]
Turned(s) == IF s.x < Width THEN s ELSE NextLine(s)
Filled(s, c) == [at \in DOMAIN s.cell \cup {<<s.y, s.x>>} |->
                   IF at = <<s.y, s.x>> THEN c ELSE s.cell[at]]
Typed(s, c) ==
  CASE c = 8  -> [s EXCEPT !.x = IF s.x = 0 THEN 0 ELSE s.x - 1]
    [] c = 9  -> Turned([s EXCEPT !.x = NextTab(s.x)])
    [] c = 10 -> NextLine(s)
    [] c = 13 -> [s EXCEPT !.x = 0]
    [] c >= Blank -> Turned([cell |-> Filled(s, c), x |-> s.x + 1, y |-> s.y])
    [] OTHER -> s
CleanSheet == [cell |-> [at \in {} |-> Blank], x |-> 0, y |-> 0]
Sheet(chars) == FoldLeft(Typed, CleanSheet, chars)
CharAt(s, y, x) ==
  IF <<y, x>> \in DOMAIN s.cell THEN s.cell[<<y, x>>] ELSE Blank

\* While no two calls overlap, the screen shows the end of the sheet and both
\* cursors stand where the next character goes.
OutputShowsText ==
  Quiet /\ ~mixed =>
    LET sheet == Sheet(printed)
        top == IF sheet.y < Height THEN 0 ELSE sheet.y - Height + 1
    IN /\ \A x \in 0..(Width - 1), y \in 0..(Height - 1) :
            video_memory[y * Width + x] = CharAt(sheet, top + y, x)
       /\ cursor_x = sheet.x /\ top + cursor_y = sheet.y
       /\ high * Byte + low = cursor_y * Width + cursor_x

\* However calls overlap, and whatever increments get lost, the cursor is back
\* on the screen when no call is going on: each call checks both coordinates
\* after its last store to them.
CursorComesBack ==
  Quiet => cursor_x \in 0..(Width - 1) /\ cursor_y \in 0..(Height - 1)

\* The value of a text of digits.
Value(digits, base) ==
  FoldLeft(LAMBDA n, c : base * n + (IF c >= 97 THEN c - 87 ELSE c - Zero), 0,
           digits)

\* What is printed of a number reads back as the number, with no digit to
\* spare; %d is right below 128 (it converts a signed char).
NumbersReadBack ==
  \A t \in Task :
    LET c == call[t]
        Reads(digits, base, n) ==
          Value(digits, base) = n /\ (Len(digits) > 1 => digits[1] # Zero)
        Hex(s, n) == Reads(SubSeq(s, 3, Len(s)), 16, n)
    IN /\ c.op = "screen_write_hex" => Hex(Text(c), c.arg)
       /\ c.op = "screen_write_dec" => Reads(Text(c), 10, c.arg)
       /\ c.op = "printk" => \A k \in DOMAIN c.format :
            LET item == c.format[k] IN
            /\ item.directive = "x" => Hex(Formatted(item), item.arg)
            /\ item.directive \in {"c", "d"} /\ item.arg < 128 =>
                 Reads(Formatted(item), 10, item.arg)

=============================================================================
