------------------------------ MODULE Terminal ------------------------------
(***************************************************************************)
(* The way of a key: the keyboard sends bytes, the interrupt handler       *)
(* (keyboard.c) keeps one character, shells poll for it with system call   *)
(* 4, echo it with system call 5 (console.c) and edit their command line   *)
(* (user-shell.c).  A handler is atomic; bytes arrive and shells run in    *)
(* any order.                                                              *)
(***************************************************************************)
EXTENDS Integers, Sequences, FiniteSets

CONSTANTS
  Shells,   \* the processes that run user-shell.c
  Keys,     \* the keys of the keyboard
  Rollover, \* how many keys the keyboard reports at a time
  LineMax,  \* 100: the bytes of command[0]
  Cols,     \* MAX_COLS
  Rows,     \* MAX_ROWS
  Prompt    \* the lengths of the strings that make up the prompt

(* Keys by what the driver does with them.  A mute key has no character    *)
(* (Ctrl, F1, the keypad's digits); an extended key sends the byte 0xE0    *)
(* first and then the byte of a plain key.                                 *)
Shifts   == {"shiftL", "shiftR"}
Arrows   == {"up", "left", "right"}
Extended == Arrows \cup {"keypadEnter"}
Plain    == Shifts \cup {"caps", "letter", "symbol", "enter", "back", "mute"}

ASSUME TerminalAssumption ==
  /\ Keys \subseteq Plain \cup Extended
  /\ Rollover \in Nat \ {0}
  /\ LineMax \in Nat /\ LineMax > 4
  /\ Cols \in Nat \ {0} /\ Rows \in Nat \ {0, 1}
  /\ Prompt \in Seq(Nat)

Codes == Plain \cup Arrows
Chars == {"a", "A", "1", "!", "enter", "back"}
None  == "none"                      \* character 0; KEY_NONE

(* The two tables; an arrow's second byte is that of a keypad digit.       *)
Lower == [c \in Codes |-> CASE c = "letter" -> "a" [] c = "symbol" -> "1"
                            [] c \in {"enter", "back"} -> c [] OTHER -> None]
Upper == [c \in Codes |-> CASE c = "letter" -> "A" [] c = "symbol" -> "!"
                            [] c \in {"enter", "back"} -> c [] OTHER -> None]

Byte(code, up) == [code |-> code, up |-> up]
E0     == Byte("E0", FALSE)
NoByte == Byte("no", FALSE)

VARIABLES
  kb,      \* keyboard_state
  held,    \* the keys the user holds down
  half,    \* the second byte of an extended key, when it is still to come
  shell,   \* what every shell does, and its command line
  cursor,  \* framebuffer_state
  typed    \* ghost: the line each shell has read, as edited

vars == <<kb, held, half, shell, cursor, typed>>

KbType == [on : BOOLEAN, ext : BOOLEAN, shift : BOOLEAN, caps : BOOLEAN,
           char : Chars \cup {None}, special : Arrows \cup {None}]

(* pc is "prompt" while strings of the prompt are left to print.           *)
ShellType == [pc : {"off", "prompt", "poll", "echo", "newline", "run"},
              left : Seq(Nat), buf : Chars \cup {None}, idx : 0 .. LineMax - 1,
              line : [0 .. LineMax - 1 -> Chars \cup {None}]]

-----------------------------------------------------------------------------
StaticKb == [on |-> FALSE, ext |-> FALSE, shift |-> FALSE, caps |-> FALSE,
             char |-> None, special |-> None]

(* keyboard_state_activate.                                                *)
Activated == [StaticKb EXCEPT !.on = TRUE]

(* With caps lock and no shift a key without a character empties the       *)
(* buffer; otherwise it leaves the buffer alone.                           *)
Typed(k, code) ==
  LET mapped == IF k.shift # k.caps THEN Upper[code] ELSE Lower[code]
  IN  IF k.caps /\ ~k.shift
      THEN IF code = "letter" THEN Upper[code] ELSE Lower[code]
      ELSE IF mapped # None THEN mapped ELSE k.char

(* Mutant of SecondRead: releasing the key leaves the mode on.             *)
SecondReadStuck(k, b) ==
  IF b.up THEN k
  ELSE [k EXCEPT !.ext = FALSE, !.special = IF b.code \in Arrows THEN b.code ELSE k.special]

(* The byte after 0xE0.                                                    *)
SecondRead(k, b) ==
  [k EXCEPT !.ext = FALSE,
            !.special = IF ~b.up /\ b.code \in Arrows THEN b.code ELSE k.special]

(* keyboard_isr, for one byte.                                             *)
Decode(k, b) ==
  IF ~k.on THEN k
  ELSE IF b = E0 THEN [k EXCEPT !.ext = TRUE]
  ELSE IF k.ext THEN SecondRead(k, b)
  ELSE IF b.code \in Shifts THEN [k EXCEPT !.shift = ~b.up]
  ELSE IF b.up THEN k
  ELSE IF b.code = "caps" THEN [k EXCEPT !.caps = ~k.caps]
  ELSE [k EXCEPT !.char = Typed(k, b.code)]

(* get_keyboard_buffer leaves the buffer empty.                            *)
Flushed(k) == [k EXCEPT !.char = None]

-----------------------------------------------------------------------------
CursorType == [col : 0 .. Cols - 1, row : 0 .. Rows - 1]

Backward(s) ==
  IF s.col > 0 THEN [s EXCEPT !.col = s.col - 1]
  ELSE IF s.row > 0 THEN [col |-> Cols - 1, row |-> s.row - 1]
  ELSE s

(* Mutant of NextRow: the last row is not the last.                        *)
NextRowUnbounded(s) == [col |-> 0, row |-> s.row + 1]

(* There is no scrolling: the last row is written again.                   *)
NextRow(s) == [col |-> 0, row |-> IF s.row + 1 >= Rows THEN Rows - 1 ELSE s.row + 1]

Forward(s) == IF s.col + 1 >= Cols THEN NextRow(s) ELSE [s EXCEPT !.col = s.col + 1]

(* putchar: the character, then an arrow key that came since the last one. *)
PutChar(s, c, key) ==
  LET t == CASE c = "back" -> Backward(s) [] c = "enter" -> NextRow(s) [] OTHER -> Forward(s)
  IN  CASE key = "left"  -> Backward(t)
        [] key = "right" -> IF t.col < Cols - 1 THEN [t EXCEPT !.col = t.col + 1] ELSE t
        [] OTHER         -> t

(* puts, of n characters: only the first may find an arrow key.            *)
Puts(s, n, key) ==
  LET at[k \in 0 .. n] == IF k = 0 THEN s ELSE PutChar(at[k - 1], "a", IF k = 1 THEN key ELSE None)
  IN  at[n]

-----------------------------------------------------------------------------
Blank    == [k \in 0 .. LineMax - 1 |-> None]
OffShell == [pc |-> "off", left |-> <<>>, buf |-> None, idx |-> 0, line |-> Blank]

Init ==
  /\ kb = StaticKb
  /\ held = {}
  /\ half = NoByte
  /\ shell = [p \in Shells |-> OffShell]
  /\ cursor = [col |-> 0, row |-> 1]
  /\ typed = [p \in Shells |-> <<>>]

(* Bound: a key that would lengthen a line is pressed only while every     *)
(* line has room for what may be under way.                                *)
HasRoom(key) ==
  key \in {"letter", "symbol"} => \A p \in Shells : shell[p].idx < LineMax - 4

(* The first byte of a key, when it is pressed (again, while it is held)   *)
(* and when it is released.                                                *)
Send(key, up) ==
  IF key \in Extended
  THEN /\ kb' = Decode(kb, E0)
       /\ half' = Byte(IF key = "keypadEnter" THEN "enter" ELSE key, up)
  ELSE kb' = Decode(kb, Byte(key, up)) /\ UNCHANGED half

Press(key) ==
  /\ half = NoByte
  /\ HasRoom(key)
  /\ held' = held \cup {key}
  /\ Cardinality(held') <= Rollover
  /\ Send(key, FALSE)
  /\ UNCHANGED <<shell, cursor, typed>>

Release(key) ==
  /\ half = NoByte
  /\ key \in held
  /\ held' = held \ {key}
  /\ Send(key, TRUE)
  /\ UNCHANGED <<shell, cursor, typed>>

SecondByte ==
  /\ half # NoByte
  /\ kb' = Decode(kb, half)
  /\ half' = NoByte
  /\ UNCHANGED <<held, shell, cursor, typed>>

(* kernel_setup calls console_init; interrupts from the keyboard are on.   *)
ConsoleInit ==
  /\ ~kb.on
  /\ kb' = Activated
  /\ UNCHANGED <<held, half, shell, cursor, typed>>

ToPrompt(s) == [s EXCEPT !.pc = "prompt", !.left = Prompt]

(* main calls system call 7, which activates the keyboard again.           *)
Start(p) ==
  /\ kb.on
  /\ shell[p].pc = "off"
  /\ kb' = Activated
  /\ shell' = [shell EXCEPT ![p] = ToPrompt(shell[p])]
  /\ UNCHANGED <<held, half, cursor, typed>>

ShowPrompt(p) ==
  LET s == shell[p]
  IN  /\ s.pc = "prompt"
      /\ IF s.left = <<>>
         THEN /\ shell' = [shell EXCEPT ![p] = [s EXCEPT !.pc = "poll", !.buf = None, !.idx = 0]]
              /\ UNCHANGED <<kb, cursor>>
         ELSE /\ shell' = [shell EXCEPT ![p] = [s EXCEPT !.left = Tail(s.left)]]
              /\ cursor' = Puts(cursor, Head(s.left), kb.special)
              /\ kb' = IF Head(s.left) > 0 THEN [kb EXCEPT !.special = None] ELSE kb
      /\ UNCHANGED <<held, half, typed>>

Edited(line, c) ==
  IF c = "back" THEN IF line = <<>> THEN line ELSE SubSeq(line, 1, Len(line) - 1)
  ELSE Append(line, c)

(* Mutant of Unwanted: a backspace is echoed at the start of the line.     *)
UnwantedNone(s, c) == c = None

Unwanted(s, c) == c = None \/ (c = "back" /\ s.idx = 0)

(* System call 4, and the tests of what it returned.                       *)
Poll(p) ==
  LET s == shell[p]
      c == kb.char
  IN  /\ s.pc = "poll"
      /\ kb' = Flushed(kb)
      /\ shell' = [shell EXCEPT ![p] =
           [s EXCEPT !.buf = c,
                     !.pc  = IF Unwanted(s, c) THEN "poll" ELSE "echo"]]
      /\ typed' = [typed EXCEPT ![p] = IF c = None THEN typed[p] ELSE Edited(typed[p], c)]
      /\ UNCHANGED <<held, half, cursor>>

(* Mutant of Stored: a backspace only moves the index.                     *)
StoredOver(s) ==
  IF s.buf = "back"
  THEN [s EXCEPT !.idx = s.idx - 1]
  ELSE [s EXCEPT !.line = [s.line EXCEPT ![s.idx] = s.buf], !.idx = s.idx + 1]

(* A backspace clears the byte behind the one it removes.                  *)
Stored(s) ==
  IF s.buf = "back"
  THEN [s EXCEPT !.line = [s.line EXCEPT ![s.idx] = None], !.idx = s.idx - 1]
  ELSE [s EXCEPT !.line = [s.line EXCEPT ![s.idx] = s.buf], !.idx = s.idx + 1]

PutOne(c) ==
  /\ cursor' = PutChar(cursor, c, kb.special)
  /\ kb' = [kb EXCEPT !.special = None]
  /\ UNCHANGED <<held, half>>

(* System call 5, then the edit of the line and the test of the loop.      *)
Echo(p) ==
  LET s == shell[p]
  IN  /\ s.pc = "echo"
      /\ PutOne(s.buf)
      /\ shell' = [shell EXCEPT ![p] =
           [Stored(s) EXCEPT !.pc = IF s.buf = "enter" THEN "newline" ELSE "poll"]]
      /\ UNCHANGED typed

NewLine(p) ==
  /\ shell[p].pc = "newline"
  /\ PutOne("enter")
  /\ shell' = [shell EXCEPT ![p] = [shell[p] EXCEPT !.pc = "run"]]
  /\ UNCHANGED typed

(* process_command, of whose effects only those of "clear" are kept, and   *)
(* the clearing of command[0].                                             *)
Run(p) ==
  /\ shell[p].pc = "run"
  /\ cursor' \in {cursor, [col |-> 0, row |-> 1]}
  /\ shell' = [shell EXCEPT ![p] = [ToPrompt(shell[p]) EXCEPT !.line = Blank]]
  /\ typed' = [typed EXCEPT ![p] = <<>>]
  /\ UNCHANGED <<kb, held, half>>

Step(p) == ShowPrompt(p) \/ Poll(p) \/ Echo(p) \/ NewLine(p) \/ Run(p)

Next ==
  \/ \E key \in Keys : Press(key) \/ Release(key)
  \/ SecondByte
  \/ ConsoleInit
  \/ \E p \in Shells : Start(p) \/ Step(p)

Spec == Init /\ [][Next]_vars

-----------------------------------------------------------------------------
TypeOK ==
  /\ kb \in KbType
  /\ held \subseteq Keys
  /\ half \in [code : Codes, up : BOOLEAN] \cup {NoByte}
  /\ shell \in [Shells -> ShellType]
  /\ typed \in [Shells -> Seq(Chars \ {"back"})]

(* The cursor, which addresses the pixels that putchar draws, stays on the *)
(* screen through wrapping, erasing and arrow keys (console.c:13-73).      *)
CursorOnScreen == cursor \in CursorType

(* When a shell interprets its line, the line is what it read, edited by   *)
(* the backspaces, and nothing of erased characters or of an earlier line  *)
(* is left behind it (user-shell.c:219-245).                               *)
LineIsTyped ==
  \A p \in Shells : shell[p].pc \in {"newline", "run"} =>
    shell[p].line =
      [k \in 0 .. LineMax - 1 |-> IF k < Len(typed[p]) THEN typed[p][k + 1] ELSE None]

(* The driver is never stuck in a mode: it waits for a second byte only    *)
(* while there is one to come, and believes in a shift key only while one  *)
(* is held, even when a shell activates the keyboard between the bytes of  *)
(* a key (keyboard.c:44-51, 76-166).                                       *)
NothingStuck ==
  /\ half = NoByte => ~kb.ext
  /\ kb.shift => held \cap Shifts # {}
=============================================================================
