----------------------------- MODULE RtcProofs ------------------------------
(***************************************************************************)
(* The theorem about Rtc, for every range of the fields and every year.    *)
(***************************************************************************)
EXTENDS Rtc, TLAPS

LEMMA FieldNames ==
  /\ Names = {"second", "minute", "hour", "day", "month", "year"} /\ Len(Fields) = 6
  /\ \A m \in 1 .. 6 : Fields[m] \in Names
  /\ \A f \in Names : \E m \in 1 .. 6 : Fields[m] = f
<1>1. Len(Fields) = 6
  BY DEF Fields
<1>2. /\ Fields[1] = "second" /\ Fields[2] = "minute" /\ Fields[3] = "hour"
      /\ Fields[4] = "day" /\ Fields[5] = "month" /\ Fields[6] = "year"
  BY DEF Fields
<1>3. Names = {Fields[m] : m \in 1 .. 6}
  BY <1>1 DEF Names
<1>4. 1 .. 6 = {1, 2, 3, 4, 5, 6}
  OBVIOUS
<1> QED BY <1>1, <1>2, <1>3, <1>4

-----------------------------------------------------------------------------
(* The conversions undo what the chip does to a value.                     *)

LEMMA BcdUndone ==
  ASSUME NEW v \in 0 .. 99
  PROVE  FromBcd(Bcd(v)) = v
<1> DEFINE q == v \div 10
           u == v % 10
<1>1. q \in 0 .. 9 /\ u \in 0 .. 9 /\ v = 10 * q + u
  OBVIOUS
<1> HIDE DEF q, u
<1>2. ((q * 16 + u) % 16) = u /\ (q * 16 + u) \div 16 = q
  BY <1>1
<1> QED BY <1>1, <1>2 DEF FromBcd, Bcd, q, u

(* Noon and midnight are the hours that are exchanged.                     *)
LEMMA HourUndone ==
  ASSUME NEW v \in 0 .. 23, fmt \in [bcd : BOOLEAN, h24 : BOOLEAN], fmt.h24 \/ v \notin {0, 12}
  PROVE  LET r == Shown("hour", v)
         IN  To24(IF fmt.bcd THEN HourFromBcd(r) ELSE r) = v
<1>1. fmt.bcd \in BOOLEAN /\ fmt.h24 \in BOOLEAN
  OBVIOUS
<1>2. CASE fmt.h24
  <2>1. Shown("hour", v) = IF fmt.bcd THEN Bcd(v) ELSE v
    BY <1>1, <1>2 DEF Shown, Bcd
  <2>2. Bcd(v) < 128 /\ HourFromBcd(Bcd(v)) = v
    BY DEF Bcd, HourFromBcd
  <2> QED BY <1>1, <1>2, <2>1, <2>2 DEF To24
<1>3. CASE ~fmt.h24
  <2> DEFINE s == ((v + 11) % 12) + 1
             p == IF v >= 12 THEN 128 ELSE 0
  <2>1. s \in 1 .. 11 /\ v = IF v >= 12 THEN s + 12 ELSE s
    BY <1>3
  <2>2. Shown("hour", v) = (IF fmt.bcd THEN Bcd(s) ELSE s) + p
    BY <1>1, <1>3 DEF Shown
  <2> HIDE DEF s
  <2>3. HourFromBcd(Bcd(s) + p) = s + p
    <3>1. Bcd(s) = IF s >= 10 THEN 16 + (s - 10) ELSE s
      BY <2>1 DEF Bcd
    <3> QED BY <2>1, <3>1 DEF HourFromBcd
  <2>4. To24(s + p) = v
    BY <1>3, <2>1 DEF To24
  <2> QED BY <1>1, <2>2, <2>3, <2>4
<1> QED BY <1>2, <1>3

(* A time the clock may show.                                              *)
Time(t) == t \in [Names -> 0 .. 99] /\ t["hour"] \in 0 .. 23

ShownAll(t) == [f \in Names |-> Shown(f, t[f])]

LEMMA Undone ==
  ASSUME NEW t, Time(t), Regular(t), fmt \in [bcd : BOOLEAN, h24 : BOOLEAN]
  PROVE  Converted(ShownAll(t)) = Full(t)
<1>1. fmt.bcd \in BOOLEAN
  OBVIOUS
<1> DEFINE regs == ShownAll(t)
           c    == Converted(regs)
           v(f) == IF ~fmt.bcd THEN regs[f]
                   ELSE IF f = "hour" THEN HourFromBcd(regs[f]) ELSE FromBcd(regs[f])
<1>2. "hour" \in Names /\ "year" \in Names
  BY FieldNames
<1>3. c = [f \in Names |-> CASE f = "hour" -> To24(v(f)) [] f = "year" -> FullYear(v(f)) [] OTHER -> v(f)]
  BY DEF Converted
<1>4. ASSUME NEW f \in Names, f # "hour" PROVE v(f) = t[f]
  <2>1. regs[f] = Shown(f, t[f]) /\ t[f] \in 0 .. 99
    BY DEF ShownAll, Time
  <2>2. Shown(f, t[f]) = IF fmt.bcd THEN Bcd(t[f]) ELSE t[f]
    BY <1>1, <1>4, <2>1 DEF Shown, Bcd
  <2> HIDE DEF regs
  <2> QED BY <1>1, <1>4, <2>1, <2>2, BcdUndone
<1>5. To24(v("hour")) = t["hour"]
  <2>1. regs["hour"] = Shown("hour", t["hour"]) /\ t["hour"] \in 0 .. 23
    BY <1>2 DEF ShownAll, Time
  <2>2. fmt.h24 \/ t["hour"] \notin {0, 12}
    BY DEF Regular
  <2> HIDE DEF regs
  <2> QED BY <1>1, <2>1, <2>2, HourUndone
<1> HIDE DEF v
<1>6. \A f \in Names : c[f] = IF f = "year" THEN FullYear(t[f]) ELSE t[f]
  BY <1>2, <1>3, <1>4, <1>5
<1>7. Full(t) = [f \in Names |-> IF f = "year" THEN FullYear(t[f]) ELSE t[f]]
  BY <1>2 DEF Full, Time
<1> HIDE DEF c
<1>8. \E F : c = [f \in Names |-> F[f]]
  <2>1. c = [f \in Names |-> c[f]]
    BY <1>3
  <2> QED BY <2>1
<1> QED BY <1>6, <1>7, <1>8 DEF c

-----------------------------------------------------------------------------
(* The inductive invariant.  Between an update and the next two passes     *)
(* begin; so of two passes that follow each other one sees no update, and  *)
(* Clean says which one, and which time it read.                           *)

Readers ==
  [pc : {"start", "wait", "read", "done"}, next : 1 .. 7, repeated : BOOLEAN,
   now : [Names -> Int], last : [Names -> Int]]

Typed ==
  /\ Time(clock) /\ Time(past)
  /\ fmt \in [bcd : BOOLEAN, h24 : BOOLEAN] /\ update \in BOOLEAN /\ passes \in 0 .. 2
  /\ reader \in Readers

Clean ==
  /\ update => passes = 2
  /\ reader.pc = "start" => ~reader.repeated
  /\ reader.pc = "wait" /\ reader.repeated /\ passes >= 1 /\ ~update => reader.last = ShownAll(clock)
  /\ reader.pc = "read" /\ reader.repeated =>
       /\ passes = 2 => reader.last = ShownAll(clock)
       /\ passes = 0 => reader.last = ShownAll(past)
  /\ reader.pc = "read" /\ passes >= 1 /\ ~update =>
       \A m \in 1 .. reader.next - 1 : reader.now[Fields[m]] = Shown(Fields[m], clock[Fields[m]])

Invariant == Typed /\ (\A f \in Names : clock[f] \in Values(f)) /\ Clean

LEMMA ReaderMade ==
  ASSUME NEW n \in 1 .. 7, NEW g \in [Names -> Int]
  PROVE  /\ [pc |-> "start", next |-> n, repeated |-> FALSE, now |-> g, last |-> g] \in Readers
         /\ \A r \in Readers : /\ [r EXCEPT !.pc = "read", !.next = n] \in Readers
                             /\ [r EXCEPT !.next = n, !.now = g] \in Readers
BY DEF Readers

LEMMA TimeIs ==
  ASSUME NEW t \in [Names -> Int], \A f \in Names : t[f] \in Values(f)
  PROVE  Time(t)
<1>1. "hour" \in Names
  BY FieldNames
<1>2. First \in [Names -> 0 .. 99] /\ Last \in [Names -> 0 .. 99] /\ Last["hour"] <= 23
  BY RtcAssumption
<1>3. \A f \in Names : t[f] \in 0 .. 99
  <2> TAKE f \in Names
  <2>1. First[f] \in 0 .. 99 /\ Last[f] \in 0 .. 99 /\ t[f] \in First[f] .. Last[f]
    BY <1>2 DEF Values
  <2> QED BY <2>1
<1>4. t["hour"] \in 0 .. 23
  <2>1. t["hour"] \in First["hour"] .. Last["hour"] /\ First["hour"] \in 0 .. 99 /\ Last["hour"] \in 0 .. 99
    BY <1>1, <1>2 DEF Values
  <2> QED BY <1>2, <2>1
<1> QED BY <1>3, <1>4 DEF Time

LEMMA LaterIn ==
  ASSUME \A f \in Names : clock[f] \in Values(f)
  PROVE  Later(clock) \in [Names -> Int] /\ \A f \in Names : Later(clock)[f] \in Values(f)
<1> DEFINE at(f) == CHOOSE k \in 1 .. Len(Fields) : Fields[k] = f
           w(f)  == IF ~Carries(clock, at(f)) THEN clock[f]
                    ELSE IF clock[f] = Last[f] THEN First[f] ELSE clock[f] + 1
<1>1. Later(clock) = [f \in Names |-> w(f)]
  BY DEF Later
<1>2. ASSUME NEW f \in Names PROVE w(f) \in Values(f) /\ w(f) \in Int
  <2>1. First[f] \in 0 .. 99 /\ Last[f] \in 0 .. 99 /\ First[f] <= Last[f]
    BY RtcAssumption
  <2>2. clock[f] \in First[f] .. Last[f]
    BY DEF Values
  <2>3. \/ w(f) \in {clock[f], First[f]}
        \/ clock[f] # Last[f] /\ w(f) = clock[f] + 1
    OBVIOUS
  <2> HIDE DEF w
  <2> QED BY <2>1, <2>2, <2>3 DEF Values
<1> HIDE DEF w
<1> QED BY <1>1, <1>2

LEMMA ShownInt ==
  ASSUME NEW f, NEW v \in 0 .. 99, fmt \in [bcd : BOOLEAN, h24 : BOOLEAN]
  PROVE  Shown(f, v) \in Int
BY DEF Shown, Bcd

LEMMA Starts == Init => Invariant
<1> SUFFICES ASSUME Init PROVE Invariant
  OBVIOUS
<1>1. clock \in [Names -> Int] /\ \A f \in Names : clock[f] \in Values(f)
  <2>1. clock \in [second : Values("second"), minute : Values("minute"), hour : Values("hour"),
                   day : Values("day"), month : Values("month"), year : Values("year")]
    BY DEF Init, Clocks
  <2>2. \A f \in Names : Values(f) \subseteq Int
    BY RtcAssumption DEF Values
  <2>3. clock \in [{"second", "minute", "hour", "day", "month", "year"} -> Int]
    BY <2>1, <2>2, FieldNames
  <2> QED BY <2>1, <2>3, FieldNames
<1>2. Time(clock) /\ past = clock
  BY <1>1, TimeIs DEF Init
<1>3. Zeros \in [Names -> Int]
  BY DEF Zeros
<1>4. reader = [pc |-> "start", next |-> 1, repeated |-> FALSE, now |-> Zeros, last |-> Zeros]
      /\ update = FALSE /\ passes = 2 /\ fmt \in [bcd : BOOLEAN, h24 : BOOLEAN]
  BY DEF Init
<1> HIDE DEF Zeros
<1>5. Typed
  <2>1. 1 \in 1 .. 7
    OBVIOUS
  <2>2. reader \in Readers
    BY <1>3, <1>4, <2>1, ReaderMade
  <2>3. passes \in 0 .. 2 /\ Time(past)
    BY <1>2, <1>4
  <2>4. update \in BOOLEAN
    BY <1>4
  <2> QED BY <1>2, <1>4, <2>2, <2>3, <2>4 DEF Typed
<1>6. Clean
  BY <1>4 DEF Clean
<1> QED BY <1>1, <1>5, <1>6 DEF Invariant

LEMMA Step == Invariant /\ [Next]_vars => Invariant'
<1> SUFFICES ASSUME Invariant, [Next]_vars PROVE Invariant'
  OBVIOUS
<1> USE DEF Invariant
<1>0. Len(Fields) = 6 /\ \A m \in 1 .. 6 : Fields[m] \in Names
  BY FieldNames
<1>1. CASE UpdateBegins
  BY <1>1 DEF UpdateBegins, Typed, Readers, Clean, Time, ShownAll, Shown
<1>2. CASE UpdateEnds
  <2>1. clock' = Later(clock) /\ past' = clock /\ fmt' = fmt /\ reader' = reader /\ passes' = 0 /\ update
    BY <1>2 DEF UpdateEnds
  <2>2. clock' \in [Names -> Int] /\ \A f \in Names : clock'[f] \in Values(f)
    BY <2>1, LaterIn
  <2>3. Time(clock')
    BY <2>2, TimeIs
  <2>4. Typed'
    <3>1. Time(past') /\ update' = FALSE
      BY <1>2, <2>1 DEF Typed, Readers, UpdateEnds
    <3>2. passes' \in 0 .. 2
      BY <2>1
    <3>4. update' \in BOOLEAN
      BY <3>1
    <3>3. fmt' \in [bcd : BOOLEAN, h24 : BOOLEAN] /\ reader' \in Readers
      BY <2>1 DEF Typed
    <3> QED BY <2>3, <3>1, <3>2, <3>3, <3>4 DEF Typed
  <2>5. ShownAll(past)' = ShownAll(clock)
    BY <2>1 DEF ShownAll, Shown
  <2>6. Clean'
    BY <1>2, <2>1, <2>5 DEF Clean, Typed, Readers, UpdateEnds
  <2> QED BY <2>2, <2>4, <2>6 DEF Values
<1>3. CASE Start
  BY <1>3 DEF Start, Typed, Readers, Clean, Time, ShownAll, Shown
<1>4. CASE BeginPass
  <2>1. Typed'
    <3>1. /\ Time(clock') /\ Time(past') /\ fmt' = fmt /\ update' = update
          /\ reader' = [reader EXCEPT !.pc = "read", !.next = 1]
      BY <1>4 DEF BeginPass, Typed, Readers
    <3>2. passes' \in 0 .. 2
      BY <1>4 DEF BeginPass, Typed, Readers
    <3>3. fmt' \in [bcd : BOOLEAN, h24 : BOOLEAN]
      BY <3>1 DEF Typed
    <3>4. update' \in BOOLEAN
      BY <3>1 DEF Typed
    <3>5. reader' \in Readers
      <4>1. 1 \in 1 .. 7 /\ reader \in Readers /\ Zeros \in [Names -> Int]
        BY DEF Typed, Zeros
      <4> QED BY <3>1, <4>1, ReaderMade
    <3> QED BY <3>1, <3>2, <3>3, <3>4, <3>5 DEF Typed
  <2>2. ShownAll(clock)' = ShownAll(clock)
    BY <1>4 DEF BeginPass, ShownAll, Shown
  <2>3. Clean'
    BY <1>4, <2>2 DEF BeginPass, Typed, Readers, Clean
  <2> QED BY <1>4, <2>1, <2>3 DEF BeginPass
<1>5. CASE Read
  <2> DEFINE f == Fields[reader.next]
  <2>1. PICK v \in {Shown(f, clock[f])} \cup (IF update THEN {Shown(f, Later(clock)[f])} ELSE {}) :
          reader' = [reader EXCEPT !.next = reader.next + 1, !.now = [reader.now EXCEPT ![f] = v]]
    BY <1>5 DEF Read
  <2>2. /\ reader.pc = "read" /\ reader.next \in 1 .. 6
        /\ clock' = clock /\ past' = past /\ fmt' = fmt /\ update' = update /\ passes' = passes
    BY <1>0, <1>5 DEF Read, Typed, Readers
  <2>3. f \in Names
    BY <1>0, <2>2
  <2>4. v \in Int
    <3>1. clock[f] \in 0 .. 99
      BY <2>3 DEF Typed, Readers, Time
    <3>2. Time(Later(clock))
      BY LaterIn, TimeIs
    <3>3. Later(clock)[f] \in 0 .. 99
      BY <2>3, <3>2 DEF Time
    <3>4. fmt \in [bcd : BOOLEAN, h24 : BOOLEAN]
      BY DEF Typed, Readers
    <3>5. Shown(f, clock[f]) \in Int /\ Shown(f, Later(clock)[f]) \in Int
      BY <3>1, <3>3, <3>4, ShownInt
    <3> QED BY <2>1, <3>5
  <2>5. ~update => v = Shown(f, clock[f])
    BY <2>1
  <2>6. /\ reader'.pc = "read" /\ reader'.next = reader.next + 1
        /\ reader'.repeated = reader.repeated /\ reader'.last = reader.last
        /\ reader'.now = [reader.now EXCEPT ![f] = v]
    BY <2>1, <2>2 DEF Typed, Readers
  <2>7. reader.now \in [Names -> Int]
    BY DEF Typed, Readers
  <2>8. Typed'
    <3>1. Time(clock') /\ Time(past')
      BY <2>2 DEF Typed, Readers
    <3> HIDE DEF f
    <3>2. reader.next + 1 \in 1 .. 7 /\ [reader.now EXCEPT ![f] = v] \in [Names -> Int]
      BY <2>2, <2>3, <2>4, <2>7
    <3>3. reader' \in Readers
      BY <2>1, <3>2, ReaderMade DEF Typed
    <3> QED BY <2>2, <3>1, <3>3 DEF Typed
  <2>9. ShownAll(clock)' = ShownAll(clock) /\ ShownAll(past)' = ShownAll(past)
        /\ \A x, y : Shown(x, y)' = Shown(x, y)
    BY <2>2 DEF ShownAll, Shown
  <2>10. ASSUME passes >= 1, ~update, NEW m \in 1 .. reader'.next - 1
         PROVE  reader'.now[Fields[m]] = Shown(Fields[m], clock[Fields[m]])
    <3>1. m \in 1 .. 6 /\ Fields[m] \in Names
      BY <1>0, <2>2, <2>6, <2>10
    <3>2. CASE Fields[m] = f
      BY <2>3, <2>5, <2>6, <2>7, <2>10, <3>2
    <3>3. CASE Fields[m] # f
      <4>1. m \in 1 .. reader.next - 1
        BY <2>2, <2>6, <3>1, <3>3
      <4>2. reader.now[Fields[m]] = Shown(Fields[m], clock[Fields[m]])
        BY <2>2, <2>10, <4>1 DEF Clean
      <4> QED BY <2>6, <2>7, <3>1, <3>3, <4>2
    <3> QED BY <3>2, <3>3
  <2>11. Clean'
    <3>1. reader'.pc = "read" /\ passes' >= 1 /\ ~update' =>
            \A m \in 1 .. reader'.next - 1 : reader'.now[Fields[m]] = Shown(Fields[m], clock[Fields[m]])'
      BY <2>2, <2>9, <2>10
    <3> QED BY <2>2, <2>6, <2>9, <3>1 DEF Clean
  <2> QED BY <2>2, <2>8, <2>11
<1>6. CASE EndPass
  <2>1. /\ reader.pc = "read" /\ reader.next = 7
        /\ clock' = clock /\ past' = past /\ fmt' = fmt /\ update' = update /\ passes' = passes
    BY <1>0, <1>6 DEF EndPass
  <2>2. ShownAll(clock)' = ShownAll(clock)
    BY <2>1 DEF ShownAll, Shown
  <2>3. passes >= 1 /\ ~update => reader.now = ShownAll(clock)
    <3> SUFFICES ASSUME passes >= 1, ~update PROVE reader.now = ShownAll(clock)
      OBVIOUS
    <3>1. \A m \in 1 .. 6 : reader.now[Fields[m]] = Shown(Fields[m], clock[Fields[m]])
      BY <2>1 DEF Clean
    <3>2. \A f \in Names : reader.now[f] = Shown(f, clock[f])
      BY <3>1, FieldNames
    <3> QED BY <3>2 DEF Typed, Readers, ShownAll
  <2>4. CASE Agree(reader.now, reader.last, reader.repeated)
    <3>1. reader' = [reader EXCEPT !.pc = "done", !.now = Converted(reader.now), !.last = Zeros]
      BY <1>6, <2>4 DEF EndPass
    <3>2. Zeros \in [Names -> Int]
      BY DEF Zeros
    <3>3. Converted(reader.now) \in [Names -> Int]
      <4> DEFINE v(f) == IF ~fmt.bcd THEN reader.now[f]
                         ELSE IF f = "hour" THEN HourFromBcd(reader.now[f]) ELSE FromBcd(reader.now[f])
      <4>1. \A f \in Names : v(f) \in Int
        BY DEF Typed, Readers, HourFromBcd, FromBcd
      <4>2. \A x \in Int : To24(x) \in Int /\ FullYear(x) \in Int
        BY RtcAssumption DEF To24, FullYear
      <4>3. Converted(reader.now) =
              [f \in Names |-> CASE f = "hour" -> To24(v(f)) [] f = "year" -> FullYear(v(f)) [] OTHER -> v(f)]
        BY DEF Converted
      <4> HIDE DEF v
      <4> QED BY <4>1, <4>2, <4>3
    <3>4. Typed'
      BY <2>1, <3>1, <3>2, <3>3 DEF Typed, Readers, Time
    <3>5. Clean'
      BY <2>1, <3>1 DEF Typed, Readers, Clean
    <3> QED BY <2>1, <3>4, <3>5
  <2>5. CASE ~Agree(reader.now, reader.last, reader.repeated)
    <3>1. reader' = [reader EXCEPT !.pc = "wait", !.repeated = TRUE, !.last = reader.now]
      BY <1>6, <2>5 DEF EndPass, Copied
    <3>2. Typed'
      BY <2>1, <3>1 DEF Typed, Readers, Time
    <3>3. Clean'
      BY <2>1, <2>2, <2>3, <3>1 DEF Typed, Readers, Clean
    <3> QED BY <2>1, <3>2, <3>3
  <2> QED BY <2>4, <2>5
<1>7. CASE UNCHANGED vars
  BY <1>7 DEF vars, Typed, Readers, Clean, Time, ShownAll, Shown
<1> QED BY <1>1, <1>2, <1>3, <1>4, <1>5, <1>6, <1>7 DEF Next

(* read_rtc returns when two passes agree, and one of them saw no update.  *)
LEMMA ReturnsAMoment ==
  Invariant /\ [Next]_vars =>
    [(Returned /\ \A t \in Times : Regular(t)) => reader'.now \in {Full(t) : t \in Times}]_vars
<1> SUFFICES ASSUME Invariant, [Next]_vars, Returned, \A t \in Times : Regular(t)
             PROVE  reader'.now \in {Full(t) : t \in Times}
  OBVIOUS
<1>1. reader.pc = "read" /\ reader'.pc = "done"
  BY DEF Returned
<1>2. EndPass
  BY <1>1 DEF Next, UpdateBegins, UpdateEnds, Start, BeginPass, Read, EndPass, vars, Invariant, Typed, Readers
<1>3. /\ Agree(reader.now, reader.last, reader.repeated) /\ reader.next = 7
      /\ reader'.now = Converted(reader.now)
  BY <1>1, <1>2, FieldNames DEF EndPass, Invariant, Typed, Readers
<1>4. reader.repeated /\ reader.now = reader.last
  BY <1>3 DEF Agree
<1>5. passes >= 1 /\ ~update => reader.now = ShownAll(clock)
  <2> SUFFICES ASSUME passes >= 1, ~update PROVE reader.now = ShownAll(clock)
    OBVIOUS
  <2>1. \A m \in 1 .. 6 : reader.now[Fields[m]] = Shown(Fields[m], clock[Fields[m]])
    BY <1>1, <1>3 DEF Invariant, Clean
  <2>2. \A f \in Names : reader.now[f] = Shown(f, clock[f])
    BY <2>1, FieldNames
  <2> QED BY <2>2 DEF Invariant, Typed, Readers, ShownAll
<1>6. PICK t \in {clock, past} : reader.now = ShownAll(t)
  <2>1. passes = 2 => reader.now = ShownAll(clock)
    BY <1>1, <1>4 DEF Invariant, Clean
  <2>2. passes = 0 => reader.now = ShownAll(past)
    BY <1>1, <1>4 DEF Invariant, Clean
  <2>3. passes = 1 => ~update
    BY DEF Invariant, Clean
  <2>4. passes \in 0 .. 2
    BY DEF Invariant, Typed, Readers
  <2> QED BY <1>5, <2>1, <2>2, <2>3, <2>4
<1>7. Time(t) /\ Regular(t) /\ fmt \in [bcd : BOOLEAN, h24 : BOOLEAN] /\ t \in Times
  BY <1>6 DEF Invariant, Typed, Readers, Times
<1>8. Converted(reader.now) = Full(t)
  BY <1>6, <1>7, Undone
<1> QED BY <1>3, <1>7, <1>8

(* When read_rtc returns outside the hours that the 12-hour format          *)
(* exchanges, it returns a time the clock shows or showed before its last   *)
(* update (cmos.c:30-94).                                                   *)
THEOREM ReadsTheClock == Spec => ReadsAMoment
<1>1. Spec => []Invariant
  BY Starts, Step, PTL DEF Spec
<1> QED BY <1>1, ReturnsAMoment, PTL DEF Spec, ReadsAMoment
=============================================================================
