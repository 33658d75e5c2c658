--------------------------- MODULE TerminalProofs ---------------------------
(***************************************************************************)
(* The command line a shell interprets is the one that was typed, and the  *)
(* keyboard driver is never stuck in a mode: for every number of shells,   *)
(* keys held at a time, length of a line and size of the screen.           *)
(***************************************************************************)
EXTENDS Terminal, WellFoundedInduction, TLAPS

Letters == Chars \ {"enter", "back"}

(* What the driver believes, against what the user holds down.  The second *)
(* byte of an extended key is never that of a shift key.                   *)
KeyboardInv ==
  /\ kb \in KbType
  /\ held \subseteq Keys
  /\ half \in [code : Arrows \cup {"enter"}, up : BOOLEAN] \cup {NoByte}
  /\ half = NoByte => ~kb.ext
  /\ ~kb.on => ~kb.ext /\ ~kb.shift
  /\ kb.shift => held \cap Shifts # {}

(* The characters a line is sure to hold once what was polled is echoed.   *)
Due(s) == s.idx + (IF s.pc = "echo" /\ s.buf # "back" THEN 1 ELSE 0)

(* No line runs off its row, by the bound of HasRoom: what is polled finds *)
(* room on the line, and so does the character that ends it.               *)
RoomInv(s) ==
  /\ s.idx <= LineMax - 2
  /\ s.pc = "poll" => s.idx <= LineMax - 3
  /\ s.pc = "echo" => /\ s.idx <= LineMax - 3
                      /\ s.buf \in Letters => s.idx <= LineMax - 4
                      /\ s.buf \in Chars
                      /\ s.buf = "back" => s.idx > 0

(* A line holds the characters before its index; the byte at the index may *)
(* be one that was erased, and nothing is left behind it.                  *)
Holds(line, idx, t) ==
  /\ Len(t) = idx
  /\ \A k \in 0 .. LineMax - 1 : /\ k < idx => line[k] = t[k + 1]
                                 /\ k > idx => line[k] = None

(* While a character waits for its echo, what was typed is one edit ahead. *)
LineInv(s, t) ==
  /\ s.pc \in {"off", "prompt"} => s.line = Blank /\ t = <<>>
  /\ s.pc = "poll" => Holds(s.line, s.idx, t)
  /\ s.pc = "echo" =>
       /\ \A k \in 0 .. LineMax - 1 : k > s.idx => s.line[k] = None
       /\ IF s.buf = "back"
          THEN /\ Len(t) = s.idx - 1
               /\ \A k \in 0 .. LineMax - 1 : k < s.idx - 1 => s.line[k] = t[k + 1]
          ELSE /\ Len(t) = s.idx + 1
               /\ t[s.idx + 1] = s.buf
               /\ \A k \in 0 .. LineMax - 1 : k < s.idx => s.line[k] = t[k + 1]
  /\ s.pc \in {"newline", "run"} => Holds(s.line, s.idx, t) /\ s.line[s.idx] = None

Typing == Chars \ {"back"}

ShellInv(s, t) ==
  /\ s \in ShellType
  /\ t \in Seq(Typing)
  /\ RoomInv(s)
  /\ LineInv(s, t)

IInv ==
  /\ KeyboardInv
  /\ shell \in [Shells -> ShellType]
  /\ typed \in [Shells -> Seq(Typing)]
  /\ \A p \in Shells : ShellInv(shell[p], typed[p])
  /\ kb.char \in Letters => \A p \in Shells : Due(shell[p]) <= LineMax - 4

-----------------------------------------------------------------------------
(* One byte through the interrupt handler.                                 *)
LEMMA TypedChar ==
  ASSUME NEW k \in KbType, NEW code \in Codes
  PROVE  /\ Typed(k, code) \in Chars \cup {None}
         /\ Typed(k, code) \in Letters => k.char \in Letters \/ code \in {"letter", "symbol"}
<1>1. /\ Lower[code] \in Chars \cup {None} /\ Upper[code] \in Chars \cup {None}
      /\ Lower[code] \in Letters => code \in {"letter", "symbol"}
      /\ Upper[code] \in Letters => code \in {"letter", "symbol"}
  BY DEF Lower, Upper, Chars, Letters, None
<1>2. k.char \in Chars \cup {None}
  BY DEF KbType
<1> QED BY <1>1, <1>2 DEF Typed

LEMMA DecodePlain ==
  ASSUME NEW k \in KbType, ~k.ext, NEW code \in Codes, NEW up \in BOOLEAN
  PROVE  LET n == Decode(k, Byte(code, up))
         IN  /\ n \in KbType /\ n.on = k.on /\ ~n.ext
             /\ n.shift = IF k.on /\ code \in Shifts THEN ~up ELSE k.shift
             /\ n.char \in Letters =>
                  k.char \in Letters \/ (~up /\ code \in {"letter", "symbol"})
<1> DEFINE b == Byte(code, up)
<1>1. b.code = code /\ b.up = up /\ b # E0
  BY DEF Byte, E0, Codes, Plain, Shifts, Arrows
<1>2. Typed(k, code) \in Chars \cup {None}
      /\ (Typed(k, code) \in Letters => k.char \in Letters \/ code \in {"letter", "symbol"})
  BY TypedChar
<1> HIDE DEF b
<1>3. Decode(k, b) = IF ~k.on THEN k
                     ELSE IF code \in Shifts THEN [k EXCEPT !.shift = ~up]
                     ELSE IF up THEN k
                     ELSE IF code = "caps" THEN [k EXCEPT !.caps = ~k.caps]
                     ELSE [k EXCEPT !.char = Typed(k, code)]
  BY <1>1 DEF Decode
<1> HIDE DEF Letters, Chars, Shifts, Codes, Typed, None
<1> QED BY <1>2, <1>3 DEF KbType, b

LEMMA DecodeE0 ==
  ASSUME NEW k \in KbType
  PROVE  LET n == Decode(k, E0)
         IN  /\ n \in KbType /\ n.on = k.on /\ n.shift = k.shift /\ n.char = k.char
             /\ ~k.on => n.ext = k.ext
BY DEF Decode, KbType

LEMMA DecodeSecond ==
  ASSUME NEW k \in KbType, ~k.on => ~k.ext,
         NEW code \in Arrows \cup {"enter"}, NEW up \in BOOLEAN
  PROVE  LET n == Decode(k, Byte(code, up))
         IN  /\ n \in KbType /\ n.on = k.on /\ n.shift = k.shift /\ ~n.ext
             /\ n.char \in Letters => k.char \in Letters
<1> DEFINE b == Byte(code, up)
<1>1. b.code = code /\ b.up = up /\ b # E0
      /\ code \in Codes /\ code \notin Shifts /\ code \notin {"letter", "symbol"}
  BY DEF Byte, E0, Codes, Plain, Shifts, Arrows
<1>2. CASE k.ext
  <2>1. Decode(k, b) = SecondRead(k, b)
    BY <1>1, <1>2 DEF Decode
  <2> DEFINE arrow == IF ~b.up /\ b.code \in Arrows THEN b.code ELSE k.special
             n     == [k EXCEPT !.ext = FALSE, !.special = arrow]
  <2>2. Decode(k, b) = n
    BY <2>1 DEF SecondRead
  <2>3. arrow \in Arrows \cup {None}
    BY DEF KbType
  <2> HIDE DEF b, arrow
  <2>4. n \in KbType /\ n.on = k.on /\ n.shift = k.shift /\ ~n.ext /\ n.char = k.char
    BY <2>3 DEF KbType
  <2> HIDE DEF n
  <2> QED BY <2>2, <2>4 DEF b
<1>3. CASE ~k.ext
  BY <1>1, <1>3, DecodePlain
<1> QED BY <1>2, <1>3

(* What pressing or releasing a key does to the driver, before the second  *)
(* byte of an extended key.                                                *)
LEMMA SendInv ==
  ASSUME KeyboardInv, half = NoByte, NEW key \in Keys, NEW up \in BOOLEAN, Send(key, up)
  PROVE  /\ kb' \in KbType /\ kb'.on = kb.on
         /\ half' \in [code : Arrows \cup {"enter"}, up : BOOLEAN] \cup {NoByte}
         /\ half' = NoByte => ~kb'.ext
         /\ ~kb.on => ~kb'.ext
         /\ kb'.shift = IF kb.on /\ key \in Shifts THEN ~up ELSE kb.shift
         /\ kb'.char \in Letters =>
              kb.char \in Letters \/ (~up /\ key \in {"letter", "symbol"})
<1>0. kb \in KbType /\ ~kb.ext
  BY DEF KeyboardInv
<1>1. CASE key \in Extended
  <2>1. kb' = Decode(kb, E0) /\ half' = Byte(IF key = "keypadEnter" THEN "enter" ELSE key, up)
    BY <1>1 DEF Send
  <2>2. half' \in [code : Arrows \cup {"enter"}, up : BOOLEAN] /\ half' # NoByte
    BY <1>1, <2>1 DEF Byte, NoByte, Extended, Arrows
  <2>3. key \notin Shifts
    BY <1>1 DEF Extended, Arrows, Shifts
  <2> QED BY <1>0, <2>1, <2>2, <2>3, DecodeE0
<1>2. CASE key \notin Extended
  <2>1. kb' = Decode(kb, Byte(key, up)) /\ half' = half
    BY <1>2 DEF Send
  <2>2. key \in Codes
    BY <1>2, TerminalAssumption DEF Codes
  <2> QED BY <1>0, <2>1, <2>2, DecodePlain
<1> QED BY <1>1, <1>2

(* A shell's system call empties the character or the arrow, or activates  *)
(* the keyboard again.                                                     *)
LEMMA CallKeepsKeyboard ==
  ASSUME KeyboardInv, held' = held, half' = half,
         \/ kb' = kb
         \/ kb' = Flushed(kb)
         \/ kb' = [kb EXCEPT !.special = None]
         \/ kb' = Activated
  PROVE  /\ KeyboardInv'
         /\ kb'.char \in Letters => kb.char \in Letters
<1>1. CASE kb' = kb
  BY <1>1 DEF KeyboardInv
<1>2. CASE kb' = Flushed(kb)
  BY <1>2 DEF KeyboardInv, Flushed, KbType, Letters, Chars, None
<1>3. CASE kb' = [kb EXCEPT !.special = None]
  BY <1>3 DEF KeyboardInv, KbType
<1>4. CASE kb' = Activated
  BY <1>4 DEF KeyboardInv, Activated, StaticKb, KbType, Letters, Chars, None
<1> QED BY <1>1, <1>2, <1>3, <1>4

-----------------------------------------------------------------------------
(* One shell: its own steps keep its line.                                 *)
LEMMA BlankType == Blank \in [0 .. LineMax - 1 -> Chars \cup {None}]
BY DEF Blank

LEMMA PromptInv ==
  ASSUME NEW s \in ShellType, RoomInv(s), s.line = Blank
  PROVE  ShellInv(ToPrompt(s), <<>>) /\ Due(ToPrompt(s)) = s.idx
<1> DEFINE n == ToPrompt(s)
<1>1. /\ n \in ShellType /\ n.pc = "prompt" /\ n.idx = s.idx /\ n.line = Blank
  BY TerminalAssumption DEF ToPrompt, ShellType
<1> HIDE DEF n
<1>2. <<>> \in Seq(Typing)
  OBVIOUS
<1>3. s.idx \in Int
  BY DEF ShellType
<1> QED BY <1>1, <1>2, <1>3 DEF ShellInv, RoomInv, LineInv, Due, n

LEMMA PollInv ==
  ASSUME NEW s, NEW t, ShellInv(s, t), s.pc = "poll", NEW c \in Chars \cup {None},
         c \in Letters => s.idx <= LineMax - 4
  PROVE  LET n == [s EXCEPT !.buf = c, !.pc = IF Unwanted(s, c) THEN "poll" ELSE "echo"]
             u == IF c = None THEN t ELSE Edited(t, c)
         IN  ShellInv(n, u)
<1> DEFINE n == [s EXCEPT !.buf = c, !.pc = IF Unwanted(s, c) THEN "poll" ELSE "echo"]
           u == IF c = None THEN t ELSE Edited(t, c)
<1>0. /\ s \in ShellType /\ t \in Seq(Typing) /\ s.idx \in 0 .. LineMax - 1
      /\ Holds(s.line, s.idx, t) /\ s.idx <= LineMax - 3 /\ Len(t) = s.idx
      /\ LineMax \in Nat
  BY TerminalAssumption DEF ShellInv, LineInv, RoomInv, ShellType, Holds
<1>1. /\ n \in ShellType /\ n.buf = c /\ n.idx = s.idx /\ n.line = s.line
      /\ n.pc = IF Unwanted(s, c) THEN "poll" ELSE "echo"
  <2> HIDE DEF Chars, Unwanted
  <2> QED BY <1>0 DEF ShellType
<1> HIDE DEF n
<1>2. CASE Unwanted(s, c)
  <2>1. u = t
    <3>1. CASE c = None
      BY <3>1
    <3>2. CASE c # None
      <4>1. c = "back" /\ t = <<>>
        BY <1>0, <1>2, <3>2 DEF Unwanted
      <4> QED BY <4>1 DEF Edited, None
    <3> QED BY <3>1, <3>2
  <2> QED BY <1>0, <1>1, <1>2, <2>1 DEF ShellInv, RoomInv, LineInv, n
<1>3. CASE ~Unwanted(s, c)
  <2>1. c \in Chars /\ c # None /\ n.pc = "echo" /\ u = Edited(t, c)
        /\ (c = "back" => s.idx > 0)
    BY <1>0, <1>1, <1>3 DEF Unwanted
  <2>2. RoomInv(n)
    BY <1>0, <1>1, <2>1 DEF RoomInv
  <2>3. CASE c = "back"
    <3>1. u = SubSeq(t, 1, Len(t) - 1) /\ Len(t) > 0
      BY <1>0, <2>1, <2>3 DEF Edited
    <3>2. /\ u \in Seq(Typing) /\ Len(u) = s.idx - 1
          /\ \A k \in 1 .. s.idx - 1 : u[k] = t[k]
      <4> HIDE DEF u, Typing
      <4> QED BY <1>0, <3>1
    <3> HIDE DEF u
    <3>3. LineInv(n, u)
      BY <1>0, <1>1, <2>1, <2>3, <3>2 DEF LineInv, Holds
    <3> QED BY <1>1, <2>2, <3>2, <3>3 DEF ShellInv, u, n
  <2>4. CASE c # "back"
    <3>1. u = Append(t, c) /\ c \in Typing
      BY <2>1, <2>4 DEF Edited, Typing
    <3>2. /\ u \in Seq(Typing) /\ Len(u) = s.idx + 1 /\ u[s.idx + 1] = c
          /\ \A k \in 1 .. s.idx : u[k] = t[k]
      <4> HIDE DEF u, Typing
      <4> QED BY <1>0, <3>1
    <3> HIDE DEF u
    <3>3. LineInv(n, u)
      BY <1>0, <1>1, <2>1, <2>4, <3>2 DEF LineInv, Holds
    <3> QED BY <1>1, <2>2, <3>2, <3>3 DEF ShellInv, u, n
  <2> QED BY <2>3, <2>4
<1> QED BY <1>2, <1>3

LEMMA EchoInv ==
  ASSUME NEW s, NEW t, ShellInv(s, t), s.pc = "echo"
  PROVE  LET n == [Stored(s) EXCEPT !.pc = IF s.buf = "enter" THEN "newline" ELSE "poll"]
         IN  ShellInv(n, t) /\ Due(n) <= Due(s)
<1> DEFINE m == Stored(s)
           n == [m EXCEPT !.pc = IF s.buf = "enter" THEN "newline" ELSE "poll"]
<1>0. /\ s \in ShellType /\ t \in Seq(Typing) /\ s.idx \in 0 .. LineMax - 1
      /\ s.line \in [0 .. LineMax - 1 -> Chars \cup {None}]
      /\ s.buf \in Chars /\ s.idx <= LineMax - 3 /\ LineMax \in Nat
      /\ s.buf \in Letters => s.idx <= LineMax - 4
      /\ s.buf = "back" => s.idx > 0
      /\ \A k \in 0 .. LineMax - 1 : k > s.idx => s.line[k] = None
  BY TerminalAssumption DEF ShellInv, LineInv, RoomInv, ShellType
<1>1. CASE s.buf = "back"
  <2> DEFINE line == [s.line EXCEPT ![s.idx] = None]
  <2>1. m = [s EXCEPT !.line = line, !.idx = s.idx - 1]
    BY <1>1 DEF Stored
  <2>2. /\ line \in [0 .. LineMax - 1 -> Chars \cup {None}] /\ line[s.idx] = None
        /\ \A k \in 0 .. LineMax - 1 : k # s.idx => line[k] = s.line[k]
    BY <1>0
  <2> HIDE DEF line, m
  <2>3. n \in ShellType /\ n.pc = "poll" /\ n.idx = s.idx - 1 /\ n.line = line
    <3>1. s.idx - 1 \in 0 .. LineMax - 1
      BY <1>0, <1>1
    <3>2. n = [m EXCEPT !.pc = IF s.buf = "enter" THEN "newline" ELSE "poll"]
      OBVIOUS
    <3> HIDE DEF n
    <3>3. m \in ShellType /\ m.idx = s.idx - 1 /\ m.line = line
      BY <1>0, <2>1, <2>2, <3>1 DEF ShellType
    <3> QED BY <1>1, <3>2, <3>3 DEF ShellType
  <2> HIDE DEF n
  <2>4. Len(t) = s.idx - 1
        /\ \A k \in 0 .. LineMax - 1 : k < s.idx - 1 => s.line[k] = t[k + 1]
    BY <1>1 DEF ShellInv, LineInv
  <2>5. Holds(line, s.idx - 1, t)
    <3>1. ASSUME NEW k \in 0 .. LineMax - 1, k < s.idx - 1 PROVE line[k] = t[k + 1]
      <4>1. k # s.idx
        BY <1>0, <3>1
      <4> QED BY <2>2, <2>4, <3>1, <4>1
    <3>2. ASSUME NEW k \in 0 .. LineMax - 1, k > s.idx - 1 PROVE line[k] = None
      <4>1. CASE k = s.idx
        BY <2>2, <4>1
      <4>2. CASE k # s.idx
        <5>1. k > s.idx
          BY <1>0, <3>2, <4>2
        <5> QED BY <1>0, <2>2, <5>1
      <4> QED BY <4>1, <4>2
    <3> QED BY <2>4, <3>1, <3>2 DEF Holds
  <2>6. RoomInv(n) /\ LineInv(n, t) /\ Due(n) <= Due(s)
    BY <1>0, <1>1, <2>3, <2>5 DEF RoomInv, LineInv, Due
  <2> QED BY <1>0, <2>3, <2>6 DEF ShellInv, n, m
<1>2. CASE s.buf # "back"
  <2> DEFINE line == [s.line EXCEPT ![s.idx] = s.buf]
  <2>1. m = [s EXCEPT !.line = line, !.idx = s.idx + 1]
    BY <1>2 DEF Stored
  <2>2. /\ line \in [0 .. LineMax - 1 -> Chars \cup {None}] /\ line[s.idx] = s.buf
        /\ \A k \in 0 .. LineMax - 1 : k # s.idx => line[k] = s.line[k]
    BY <1>0
  <2> HIDE DEF line, m
  <2>3. /\ n \in ShellType /\ n.idx = s.idx + 1 /\ n.line = line
        /\ n.pc = IF s.buf = "enter" THEN "newline" ELSE "poll"
    <3>1. s.idx + 1 \in 0 .. LineMax - 1
      BY <1>0
    <3>2. n = [m EXCEPT !.pc = IF s.buf = "enter" THEN "newline" ELSE "poll"]
      OBVIOUS
    <3> HIDE DEF n
    <3>3. m \in ShellType /\ m.idx = s.idx + 1 /\ m.line = line
      BY <1>0, <2>1, <2>2, <3>1 DEF ShellType
    <3> QED BY <3>2, <3>3 DEF ShellType
  <2> HIDE DEF n
  <2>4. Len(t) = s.idx + 1 /\ t[s.idx + 1] = s.buf
        /\ \A k \in 0 .. LineMax - 1 : k < s.idx => s.line[k] = t[k + 1]
    BY <1>2 DEF ShellInv, LineInv
  <2>5. Holds(line, s.idx + 1, t) /\ line[s.idx + 1] = None
    <3>1. s.idx + 1 \in 0 .. LineMax - 1
      BY <1>0
    <3>2. line[s.idx + 1] = None
      BY <1>0, <2>2, <3>1
    <3>3. ASSUME NEW k \in 0 .. LineMax - 1, k < s.idx + 1 PROVE line[k] = t[k + 1]
      <4>1. CASE k = s.idx
        BY <2>2, <2>4, <4>1
      <4>2. CASE k # s.idx
        <5>1. k < s.idx
          BY <1>0, <3>3, <4>2
        <5> QED BY <2>2, <2>4, <5>1
      <4> QED BY <4>1, <4>2
    <3>4. ASSUME NEW k \in 0 .. LineMax - 1, k > s.idx + 1 PROVE line[k] = None
      BY <1>0, <2>2, <3>4
    <3> QED BY <2>4, <3>2, <3>3, <3>4 DEF Holds
  <2>6. s.buf # "enter" => s.idx <= LineMax - 4
    BY <1>0, <1>2 DEF Letters
  <2>7. RoomInv(n) /\ LineInv(n, t) /\ Due(n) <= Due(s)
    BY <1>0, <1>2, <2>3, <2>5, <2>6 DEF RoomInv, LineInv, Due
  <2> QED BY <1>0, <2>3, <2>7 DEF ShellInv, n, m
<1> QED BY <1>1, <1>2

-----------------------------------------------------------------------------
(* IInv after a step of shell p to the state s and the line t.             *)
LEMMA ShellMoves ==
  ASSUME IInv, KeyboardInv', NEW p \in Shells, NEW s, NEW t,
         shell' = [shell EXCEPT ![p] = s], typed' = [typed EXCEPT ![p] = t],
         ShellInv(s, t),
         kb'.char \in Letters => kb.char \in Letters /\ Due(s) <= LineMax - 4
  PROVE  IInv'
<1>0. /\ shell \in [Shells -> ShellType] /\ typed \in [Shells -> Seq(Typing)]
      /\ s \in ShellType /\ t \in Seq(Typing)
  BY DEF IInv, ShellInv
<1>1. /\ shell' \in [Shells -> ShellType] /\ typed' \in [Shells -> Seq(Typing)]
      /\ shell'[p] = s /\ typed'[p] = t
      /\ \A q \in Shells : q # p => shell'[q] = shell[q] /\ typed'[q] = typed[q]
  <2> HIDE DEF ShellType, Typing
  <2> QED BY <1>0
<1>2. ASSUME NEW q \in Shells PROVE ShellInv(shell'[q], typed'[q])
  <2>1. CASE q = p
    BY <1>1, <2>1
  <2>2. CASE q # p
    BY <1>1, <2>2 DEF IInv
  <2> QED BY <2>1, <2>2
<1>3. ASSUME NEW q \in Shells, kb'.char \in Letters PROVE Due(shell'[q]) <= LineMax - 4
  <2>1. CASE q = p
    BY <1>1, <1>3, <2>1
  <2>2. CASE q # p
    BY <1>1, <1>3, <2>2 DEF IInv
  <2> QED BY <2>1, <2>2
<1> QED BY <1>1, <1>2, <1>3 DEF IInv

(* IInv after a byte of the keyboard.                                      *)
LEMMA KeyMoves ==
  ASSUME IInv, KeyboardInv', shell' = shell, typed' = typed,
         kb'.char \in Letters =>
           kb.char \in Letters \/ \A p \in Shells : shell[p].idx < LineMax - 4
  PROVE  IInv'
<1>1. ASSUME NEW p \in Shells, shell[p].idx < LineMax - 4 PROVE Due(shell[p]) <= LineMax - 4
  <2>1. shell[p].idx \in Int /\ LineMax \in Int
    BY TerminalAssumption DEF IInv, ShellType
  <2> QED BY <1>1, <2>1 DEF Due
<1> QED BY <1>1 DEF IInv

LEMMA InitIInv == Init => IInv
<1> SUFFICES ASSUME Init PROVE IInv
  OBVIOUS
<1>1. KeyboardInv /\ kb.char \notin Letters
  BY DEF Init, KeyboardInv, StaticKb, KbType, Letters, Chars, None
<1>2. OffShell \in ShellType /\ OffShell.pc = "off" /\ OffShell.idx = 0 /\ OffShell.line = Blank
  BY BlankType, TerminalAssumption DEF OffShell, ShellType
<1>3. <<>> \in Seq(Typing)
  OBVIOUS
<1>4. ShellInv(OffShell, <<>>)
  BY <1>2, <1>3, TerminalAssumption DEF ShellInv, RoomInv, LineInv
<1> HIDE DEF OffShell, ShellType, Typing
<1>5. /\ shell \in [Shells -> ShellType] /\ typed \in [Shells -> Seq(Typing)]
      /\ \A p \in Shells : shell[p] = OffShell /\ typed[p] = <<>>
  BY <1>2, <1>3 DEF Init
<1> QED BY <1>1, <1>4, <1>5 DEF IInv

LEMMA NextIInv == IInv /\ [Next]_vars => IInv'
<1> SUFFICES ASSUME IInv, [Next]_vars PROVE IInv'
  OBVIOUS
<1>0. KeyboardInv /\ kb \in KbType
  BY DEF IInv, KeyboardInv
<1>1. ASSUME NEW key \in Keys, Press(key) PROVE IInv'
  <2>1. /\ half = NoByte /\ HasRoom(key) /\ held' = held \cup {key} /\ Send(key, FALSE)
        /\ shell' = shell /\ typed' = typed
    BY <1>1 DEF Press
  <2>2. /\ kb' \in KbType /\ kb'.on = kb.on
        /\ half' \in [code : Arrows \cup {"enter"}, up : BOOLEAN] \cup {NoByte}
        /\ half' = NoByte => ~kb'.ext
        /\ ~kb.on => ~kb'.ext
        /\ kb'.shift = IF kb.on /\ key \in Shifts THEN TRUE ELSE kb.shift
        /\ kb'.char \in Letters => kb.char \in Letters \/ key \in {"letter", "symbol"}
    BY <1>0, <2>1, SendInv
  <2>3. KeyboardInv'
    BY <1>0, <2>1, <2>2 DEF KeyboardInv
  <2> QED BY <2>1, <2>2, <2>3, KeyMoves DEF HasRoom
<1>2. ASSUME NEW key \in Keys, Release(key) PROVE IInv'
  <2>1. /\ half = NoByte /\ held' = held \ {key} /\ Send(key, TRUE)
        /\ shell' = shell /\ typed' = typed
    BY <1>2 DEF Release
  <2>2. /\ kb' \in KbType /\ kb'.on = kb.on
        /\ half' \in [code : Arrows \cup {"enter"}, up : BOOLEAN] \cup {NoByte}
        /\ half' = NoByte => ~kb'.ext
        /\ ~kb.on => ~kb'.ext
        /\ kb'.shift = IF kb.on /\ key \in Shifts THEN FALSE ELSE kb.shift
        /\ kb'.char \in Letters => kb.char \in Letters
    BY <1>0, <2>1, SendInv
  <2>3. KeyboardInv'
    BY <1>0, <2>1, <2>2 DEF KeyboardInv
  <2> QED BY <2>1, <2>2, <2>3, KeyMoves
<1>3. CASE SecondByte
  <2>1. /\ half # NoByte /\ kb' = Decode(kb, half) /\ half' = NoByte /\ held' = held
        /\ shell' = shell /\ typed' = typed
    BY <1>3 DEF SecondByte
  <2>2. PICK code \in Arrows \cup {"enter"}, up \in BOOLEAN : half = Byte(code, up)
    BY <1>0, <2>1 DEF KeyboardInv, Byte
  <2>3. /\ kb' \in KbType /\ kb'.on = kb.on /\ kb'.shift = kb.shift /\ ~kb'.ext
        /\ kb'.char \in Letters => kb.char \in Letters
    BY <1>0, <2>1, <2>2, DecodeSecond, Zenon DEF KeyboardInv
  <2>4. KeyboardInv'
    BY <1>0, <2>1, <2>3 DEF KeyboardInv
  <2> QED BY <2>1, <2>3, <2>4, KeyMoves
<1>4. CASE ConsoleInit
  <2>1. kb' = Activated /\ held' = held /\ half' = half /\ shell' = shell /\ typed' = typed
    BY <1>4 DEF ConsoleInit
  <2>2. KeyboardInv' /\ (kb'.char \in Letters => kb.char \in Letters)
    BY <1>0, <2>1, CallKeepsKeyboard
  <2> QED BY <2>1, <2>2, KeyMoves
<1>5. ASSUME NEW p \in Shells, Start(p) \/ Step(p) PROVE IInv'
  <2> DEFINE s == shell[p]
             t == typed[p]
  <2>0. /\ s \in ShellType /\ t \in Seq(Typing) /\ ShellInv(s, t) /\ typed = [typed EXCEPT ![p] = t]
        /\ RoomInv(s) /\ LineInv(s, t) /\ LineMax \in Nat /\ LineMax > 4
        /\ kb.char \in Letters => Due(s) <= LineMax - 4
    BY TerminalAssumption DEF IInv, ShellInv
  <2> HIDE DEF s, t
  <2>1. CASE Start(p)
    <3>1. /\ s.pc = "off" /\ kb' = Activated /\ held' = held /\ half' = half
          /\ shell' = [shell EXCEPT ![p] = ToPrompt(s)] /\ typed' = typed
      BY <2>1 DEF Start, s
    <3>2. KeyboardInv' /\ kb'.char \notin Letters
      BY <1>0, <3>1, CallKeepsKeyboard DEF Activated, StaticKb, Letters, Chars, None
    <3>3. s.line = Blank /\ t = <<>>
      BY <2>0, <3>1 DEF LineInv
    <3>4. ShellInv(ToPrompt(s), t)
      BY <2>0, <3>3, PromptInv
    <3> QED BY <2>0, <3>1, <3>2, <3>4, ShellMoves
  <2>2. CASE ShowPrompt(p)
    <3> DEFINE n1 == [s EXCEPT !.pc = "poll", !.buf = None, !.idx = 0]
               n2 == [s EXCEPT !.left = Tail(s.left)]
    <3>1. /\ s.pc = "prompt" /\ held' = held /\ half' = half /\ typed' = typed
          /\ kb' = kb \/ kb' = [kb EXCEPT !.special = None]
          /\ \/ shell' = [shell EXCEPT ![p] = n1]
             \/ s.left # <<>> /\ shell' = [shell EXCEPT ![p] = n2]
      BY <2>2 DEF ShowPrompt, s
    <3>2. KeyboardInv' /\ (kb'.char \in Letters => kb.char \in Letters)
      BY <1>0, <3>1, CallKeepsKeyboard
    <3>3. s.line = Blank /\ t = <<>> /\ s.idx \in Int
      BY <2>0, <3>1 DEF LineInv, ShellType
    <3>4. ShellInv(n1, t) /\ Due(n1) <= LineMax - 4
      <4>1. n1 \in ShellType /\ n1.pc = "poll" /\ n1.idx = 0 /\ n1.line = Blank
        <5>1. 0 \in 0 .. LineMax - 1 /\ None \in Chars \cup {None}
          BY <2>0
        <5> QED BY <2>0, <3>3, <5>1 DEF ShellType
      <4> HIDE DEF n1
      <4>2. Holds(Blank, 0, <<>>)
        BY <2>0 DEF Holds, Blank
      <4> QED BY <2>0, <3>3, <4>1, <4>2 DEF ShellInv, RoomInv, LineInv, Due
    <3>5. CASE s.left # <<>>
      <4>1. Tail(s.left) \in Seq(Nat)
        BY <2>0, <3>5 DEF ShellType
      <4>2. n2 \in ShellType /\ n2.pc = "prompt" /\ n2.idx = s.idx /\ n2.line = Blank
        BY <2>0, <3>1, <3>3, <4>1 DEF ShellType
      <4> HIDE DEF n2
      <4>3. ShellInv(n2, t) /\ Due(n2) = Due(s)
        BY <2>0, <3>1, <3>3, <4>2 DEF ShellInv, RoomInv, LineInv, Due
      <4> HIDE DEF n1
      <4>4. CASE shell' = [shell EXCEPT ![p] = n2]
        BY <2>0, <3>1, <3>2, <4>3, <4>4, ShellMoves
      <4>5. CASE shell' = [shell EXCEPT ![p] = n1]
        BY <2>0, <3>1, <3>2, <3>4, <4>5, ShellMoves
      <4> QED BY <3>1, <4>4, <4>5 DEF n2
    <3>6. CASE s.left = <<>>
      <4> HIDE DEF n1
      <4> QED BY <2>0, <3>1, <3>2, <3>4, <3>6, ShellMoves
    <3> QED BY <3>5, <3>6
  <2>3. CASE Poll(p)
    <3> DEFINE c == kb.char
               n == [s EXCEPT !.buf = c, !.pc = IF Unwanted(s, c) THEN "poll" ELSE "echo"]
               u == IF c = None THEN t ELSE Edited(t, c)
    <3>1. /\ s.pc = "poll" /\ kb' = Flushed(kb) /\ held' = held /\ half' = half
          /\ shell' = [shell EXCEPT ![p] = n]
          /\ typed' = [typed EXCEPT ![p] = u]
      BY <2>3 DEF Poll, s, t
    <3>2. KeyboardInv' /\ kb'.char \notin Letters /\ c \in Chars \cup {None}
      BY <1>0, <3>1, CallKeepsKeyboard DEF Flushed, KbType, Letters, Chars, None
    <3>3. c \in Letters => s.idx <= LineMax - 4
      BY <2>0, <3>1 DEF Due, ShellType
    <3>4. ShellInv(n, u)
      <4> HIDE DEF c
      <4> QED BY <2>0, <3>1, <3>2, <3>3, PollInv
    <3> HIDE DEF n, u
    <3> QED BY <3>1, <3>2, <3>4, ShellMoves
  <2>4. CASE Echo(p)
    <3> DEFINE n == [Stored(s) EXCEPT !.pc = IF s.buf = "enter" THEN "newline" ELSE "poll"]
    <3>1. /\ s.pc = "echo" /\ kb' = [kb EXCEPT !.special = None] /\ held' = held /\ half' = half
          /\ shell' = [shell EXCEPT ![p] = n] /\ typed' = typed
      BY <2>4 DEF Echo, PutOne, s
    <3>2. KeyboardInv' /\ (kb'.char \in Letters => kb.char \in Letters)
      BY <1>0, <3>1, CallKeepsKeyboard
    <3>3. ShellInv(n, t) /\ Due(n) <= Due(s)
      BY <2>0, <3>1, EchoInv
    <3> HIDE DEF n
    <3>4. Due(n) \in Int /\ Due(s) \in Int
      BY <2>0, <3>3 DEF Due, ShellInv, ShellType
    <3>5. kb'.char \in Letters => kb.char \in Letters /\ Due(n) <= LineMax - 4
      BY <2>0, <3>2, <3>3, <3>4
    <3> QED BY <2>0, <3>1, <3>2, <3>3, <3>5, ShellMoves
  <2>5. CASE NewLine(p)
    <3> DEFINE n == [s EXCEPT !.pc = "run"]
    <3>1. /\ s.pc = "newline" /\ kb' = [kb EXCEPT !.special = None] /\ held' = held /\ half' = half
          /\ shell' = [shell EXCEPT ![p] = n] /\ typed' = typed
      BY <2>5 DEF NewLine, PutOne, s
    <3>2. KeyboardInv' /\ (kb'.char \in Letters => kb.char \in Letters)
      BY <1>0, <3>1, CallKeepsKeyboard
    <3>3. n \in ShellType /\ n.pc = "run" /\ n.idx = s.idx /\ n.line = s.line
      BY <2>0 DEF ShellType
    <3> HIDE DEF n
    <3>4. ShellInv(n, t) /\ Due(n) = Due(s)
      BY <2>0, <3>1, <3>3 DEF ShellInv, RoomInv, LineInv, Due
    <3> QED BY <2>0, <3>1, <3>2, <3>4, ShellMoves
  <2>6. CASE Run(p)
    <3> DEFINE m == [s EXCEPT !.line = Blank]
               n == [ToPrompt(s) EXCEPT !.line = Blank]
    <3>1. /\ s.pc = "run" /\ kb' = kb /\ held' = held /\ half' = half
          /\ shell' = [shell EXCEPT ![p] = n] /\ typed' = [typed EXCEPT ![p] = <<>>]
      BY <2>6 DEF Run, s
    <3>2. KeyboardInv'
      BY <1>0, <3>1, CallKeepsKeyboard
    <3>3. m \in ShellType /\ m.pc = "run" /\ m.idx = s.idx /\ m.line = Blank
      BY <2>0, <3>1, BlankType DEF ShellType
    <3>4. n = ToPrompt(m)
      BY <2>0, BlankType DEF ToPrompt, ShellType
    <3> HIDE DEF m, n
    <3>5. ShellInv(n, <<>>) /\ Due(n) = s.idx
      BY <2>0, <3>1, <3>3, <3>4, PromptInv DEF RoomInv
    <3>6. Due(s) = s.idx
      BY <2>0, <3>1 DEF Due, ShellType
    <3> QED BY <2>0, <3>1, <3>2, <3>5, <3>6, ShellMoves
  <2> QED BY <1>5, <2>1, <2>2, <2>3, <2>4, <2>5, <2>6 DEF Step
<1>6. CASE UNCHANGED vars
  BY <1>6 DEF vars, IInv, KeyboardInv
<1> QED BY <1>1, <1>2, <1>3, <1>4, <1>5, <1>6 DEF Next

LEMMA SpecIInv == Spec => []IInv
BY InitIInv, NextIInv, PTL DEF Spec

-----------------------------------------------------------------------------
(* What a shell interprets is what was typed, edited by the backspaces,    *)
(* with nothing of an erased character or an earlier line behind it: for   *)
(* any number of shells that take characters from one buffer in any order  *)
(* (user-shell.c:219-245).                                                 *)
THEOREM LineAsTyped == Spec => []LineIsTyped
<1>1. IInv => LineIsTyped
  <2> SUFFICES ASSUME IInv, NEW p \in Shells, shell[p].pc \in {"newline", "run"}
               PROVE  shell[p].line =
                        [k \in 0 .. LineMax - 1 |->
                           IF k < Len(typed[p]) THEN typed[p][k + 1] ELSE None]
    BY DEF LineIsTyped
  <2> DEFINE s == shell[p]
  <2>1. /\ s.line \in [0 .. LineMax - 1 -> Chars \cup {None}] /\ s.idx \in 0 .. LineMax - 1
        /\ LineMax \in Nat
    BY TerminalAssumption DEF IInv, ShellType
  <2>2. Holds(s.line, s.idx, typed[p]) /\ s.line[s.idx] = None
    BY DEF IInv, ShellInv, LineInv
  <2> HIDE DEF s
  <2>3. ASSUME NEW k \in 0 .. LineMax - 1
        PROVE  s.line[k] = IF k < Len(typed[p]) THEN typed[p][k + 1] ELSE None
    <3>1. CASE k < s.idx
      BY <2>2, <3>1 DEF Holds
    <3>2. CASE k = s.idx
      BY <2>1, <2>2, <3>2 DEF Holds
    <3>3. CASE k > s.idx
      BY <2>1, <2>2, <3>3 DEF Holds
    <3> QED BY <2>1, <3>1, <3>2, <3>3
  <2> QED BY <2>1, <2>3 DEF s
<1> QED BY SpecIInv, <1>1, PTL

(* The driver waits for a second byte only while one is to come, and       *)
(* believes in a shift key only while one is held, even when a shell       *)
(* activates the keyboard between the bytes of a key (keyboard.c:44-166).  *)
THEOREM NeverStuck == Spec => []NothingStuck
<1>1. IInv => NothingStuck
  BY DEF IInv, KeyboardInv, NothingStuck
<1> QED BY SpecIInv, <1>1, PTL

(* Every variable but the cursor, which TypeOK leaves to CursorOnScreen,   *)
(* keeps its type: no line is ever indexed out of its row, while keys come *)
(* only as long as HasRoom lets them.                                      *)
THEOREM TypeCorrect == Spec => []TypeOK
<1>1. IInv => TypeOK
  <2> SUFFICES ASSUME IInv PROVE TypeOK
    OBVIOUS
  <2>1. half \in [code : Codes, up : BOOLEAN] \cup {NoByte}
    BY DEF IInv, KeyboardInv, Codes, Plain
  <2> QED BY <2>1 DEF IInv, KeyboardInv, TypeOK, Typing
<1> QED BY SpecIInv, <1>1, PTL
-----------------------------------------------------------------------------
(* A set of numbers that has 0 and with every number the next one has them *)
(* all; its least missing element would contradict that.                   *)
LEMMA LeastNat ==
  ASSUME NEW T \in SUBSET Nat, T # {}
  PROVE  \E x \in T : \A y \in T : x <= y
<1>1. PICK x \in T : \A y \in T : ~ (<<y, x>> \in OpToRel(<, Nat))
  BY NatLessThanWellFounded, WFMin
<1>2. ASSUME NEW y \in T PROVE x <= y
  <2>1. ~ (y < x)
    BY <1>1 DEF OpToRel
  <2> QED BY <2>1
<1> QED BY <1>2

LEMMA SetInduction ==
  ASSUME NEW S, 0 \in S, \A n \in Nat : n \in S => n + 1 \in S
  PROVE  Nat \subseteq S
<1> SUFFICES ASSUME Nat \ S # {} PROVE FALSE
  OBVIOUS
<1>1. PICK n \in Nat \ S : \A m \in Nat \ S : n <= m
  BY LeastNat
<1>2. n - 1 \in Nat /\ n - 1 \in S
  BY <1>1
<1> QED BY <1>1, <1>2

(* One character, and the arrow key that may come with it.                 *)
LEMMA PutCharOnScreen ==
  ASSUME NEW s \in CursorType, NEW c, NEW key
  PROVE  PutChar(s, c, key) \in CursorType
<1>0. Cols \in Nat \ {0} /\ Rows \in Nat \ {0, 1}
  BY TerminalAssumption
<1>1. ASSUME NEW x \in CursorType
      PROVE  Backward(x) \in CursorType /\ NextRow(x) \in CursorType
             /\ (x.col < Cols - 1 => [x EXCEPT !.col = x.col + 1] \in CursorType)
  <2>1. x.col \in 0 .. Cols - 1 /\ x.row \in 0 .. Rows - 1
    BY DEF CursorType
  <2>2. ASSUME NEW k \in 0 .. Cols - 1 PROVE [x EXCEPT !.col = k] \in CursorType
    BY DEF CursorType
  <2>3. NextRow(x) \in CursorType
    BY <1>0, <2>1 DEF CursorType, NextRow
  <2>4. Backward(x) \in CursorType
    <3>1. CASE x.col > 0
      <4>1. x.col - 1 \in 0 .. Cols - 1
        BY <1>0, <2>1, <3>1
      <4> QED BY <2>2, <3>1, <4>1 DEF Backward
    <3>2. CASE ~(x.col > 0)
      <4>1. Cols - 1 \in 0 .. Cols - 1 /\ (x.row > 0 => x.row - 1 \in 0 .. Rows - 1)
        BY <1>0, <2>1
      <4> QED BY <3>2, <4>1 DEF CursorType, Backward
    <3> QED BY <3>1, <3>2
  <2>5. x.col < Cols - 1 => [x EXCEPT !.col = x.col + 1] \in CursorType
    BY <1>0, <2>1, <2>2
  <2> QED BY <2>3, <2>4, <2>5
<1> DEFINE t == CASE c = "back" -> Backward(s) [] c = "enter" -> NextRow(s) [] OTHER -> Forward(s)
<1>2. t \in CursorType
  <2>1. Forward(s) \in CursorType
    <3>1. s.col \in 0 .. Cols - 1
      BY DEF CursorType
    <3> QED BY <1>0, <1>1, <3>1 DEF Forward
  <2> QED BY <1>1, <2>1
<1> HIDE DEF t
<1>3. PutChar(s, c, key) =
        CASE key = "left"  -> Backward(t)
          [] key = "right" -> IF t.col < Cols - 1 THEN [t EXCEPT !.col = t.col + 1] ELSE t
          [] OTHER         -> t
  BY DEF PutChar, t
<1> QED BY <1>1, <1>2, <1>3

(* at[k] of Puts is defined by what it is at k - 1: an induction over k,   *)
(* written with the set of the lengths for which there is such a function. *)
LEMMA PutsOnScreen ==
  ASSUME NEW s \in CursorType, NEW n \in Nat, NEW key
  PROVE  Puts(s, n, key) \in CursorType
<1> DEFINE At(h, k) == IF k = 0 THEN s ELSE PutChar(h[k - 1], "a", IF k = 1 THEN key ELSE None)
           Good(m) == {h \in [0 .. m -> CursorType] : \A k \in 0 .. m : h[k] = At(h, k)}
           S == {m \in Nat : Good(m) # {}}
<1>1. 0 \in S
  <2>1. [k \in 0 .. 0 |-> s] \in Good(0)
    OBVIOUS
  <2> QED BY <2>1
<1>2. ASSUME NEW m \in Nat, m \in S PROVE m + 1 \in S
  <2>1. PICK h \in Good(m) : TRUE
    BY <1>2
  <2> DEFINE x == PutChar(h[m], "a", IF m + 1 = 1 THEN key ELSE None)
             g == [k \in 0 .. m + 1 |-> IF k = m + 1 THEN x ELSE h[k]]
  <2>2. x \in CursorType
    BY <2>1, PutCharOnScreen
  <2> HIDE DEF x
  <2>3. g \in [0 .. m + 1 -> CursorType]
    BY <2>1, <2>2
  <2>4. ASSUME NEW k \in 0 .. m + 1 PROVE g[k] = At(g, k)
    <3>1. CASE k = m + 1
      BY <3>1 DEF x
    <3>2. CASE k # m + 1
      <4>1. k \in 0 .. m /\ (k # 0 => k - 1 \in 0 .. m)
        BY <3>2
      <4>2. h[k] = At(h, k)
        BY <2>1, <4>1
      <4> QED BY <4>1, <4>2
    <3> QED BY <3>1, <3>2
  <2>5. g \in Good(m + 1)
    BY <2>3, <2>4
  <2> HIDE DEF g, Good
  <2>6. Good(m + 1) # {}
    BY <2>5
  <2> QED BY <2>6
<1>3. n \in S
  <2> HIDE DEF S
  <2> QED BY <1>1, <1>2, SetInduction
<1>4. PICK h \in Good(n) : TRUE
  BY <1>3
<1> DEFINE at == CHOOSE g : g = [k \in 0 .. n |-> At(g, k)]
<1>5. h = [k \in 0 .. n |-> At(h, k)]
  BY <1>4
<1>6. at = [k \in 0 .. n |-> At(at, k)]
  <2> HIDE DEF At
  <2> QED BY <1>5
<1>7. Puts(s, n, key) = at[n]
  BY DEF Puts
<1> HIDE DEF at
<1> DEFINE R == {k \in Nat : k <= n => at[k] \in CursorType}
<1>8. at[0] = s /\ \A k \in 1 .. n : at[k] = PutChar(at[k - 1], "a", IF k = 1 THEN key ELSE None)
  BY <1>6
<1>9. 0 \in R
  BY <1>8
<1>10. ASSUME NEW k \in Nat, k \in R PROVE k + 1 \in R
  <2>1. CASE k + 1 <= n
    <3>1. k + 1 \in 1 .. n /\ (k + 1) - 1 = k /\ at[k] \in CursorType
      BY <1>10, <2>1
    <3> QED BY <1>8, <3>1, PutCharOnScreen
  <2> QED BY <2>1
<1>11. n \in R
  <2> HIDE DEF R
  <2> QED BY <1>9, <1>10, SetInduction
<1> QED BY <1>7, <1>11

LEMMA StepOnScreen ==
  ASSUME IInv, CursorOnScreen, [Next]_vars
  PROVE  CursorOnScreen'
<1>0. cursor \in CursorType
  BY DEF CursorOnScreen
<1>1. ASSUME NEW p \in Shells, ShowPrompt(p) PROVE cursor' \in CursorType
  <2>1. CASE shell[p].left = <<>>
    BY <1>0, <1>1, <2>1 DEF ShowPrompt
  <2>2. CASE shell[p].left # <<>>
    <3>1. shell[p].left \in Seq(Nat)
      BY DEF IInv, ShellType
    <3>2. Head(shell[p].left) \in Nat
      BY <2>2, <3>1
    <3>3. cursor' = Puts(cursor, Head(shell[p].left), kb.special)
      BY <1>1, <2>2 DEF ShowPrompt
    <3> QED BY <1>0, <3>2, <3>3, PutsOnScreen
  <2> QED BY <2>1, <2>2
<1>2. ASSUME NEW p \in Shells, Echo(p) \/ NewLine(p) PROVE cursor' \in CursorType
  <2>1. \E c : cursor' = PutChar(cursor, c, kb.special)
    BY <1>2 DEF Echo, NewLine, PutOne
  <2> QED BY <1>0, <2>1, PutCharOnScreen
<1>3. ASSUME NEW p \in Shells, Run(p) PROVE cursor' \in CursorType
  BY <1>0, <1>3, TerminalAssumption DEF Run, CursorType
<1>4. ASSUME NEW p \in Shells, Start(p) \/ Poll(p) PROVE cursor' = cursor
  BY <1>4 DEF Start, Poll
<1>5. ASSUME NEW key \in Keys, Press(key) \/ Release(key) PROVE cursor' = cursor
  BY <1>5 DEF Press, Release
<1>6. SecondByte \/ ConsoleInit \/ UNCHANGED vars => cursor' = cursor
  BY DEF SecondByte, ConsoleInit, vars
<1> QED BY <1>0, <1>1, <1>2, <1>3, <1>4, <1>5, <1>6 DEF Next, Step, CursorOnScreen

(* The cursor addresses a character cell of the screen, whatever is typed, *)
(* erased and printed, for prompts of any length and a screen of any size  *)
(* (console.c:13-73).                                                      *)
THEOREM CursorStaysOnScreen == Spec => []CursorOnScreen
<1>1. Init => CursorOnScreen
  BY TerminalAssumption DEF Init, CursorOnScreen, CursorType
<1>2. IInv /\ CursorOnScreen /\ [Next]_vars => CursorOnScreen'
  BY StepOnScreen
<1> QED BY <1>1, <1>2, SpecIInv, PTL DEF Spec
=============================================================================
