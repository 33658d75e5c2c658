-------------------------------- MODULE Rtc ---------------------------------
(***************************************************************************)
(* Reading the real-time clock (drivers/cmos.c): two agreeing passes over  *)
(* the registers while the clock goes on, and their conversion from BCD    *)
(* and from the 12-hour clock.                                             *)
(***************************************************************************)
EXTENDS Integers, Sequences

CONSTANTS
  First, Last,  \* of every field, the smallest and the largest value it takes
  CurrentYear   \* CURRENT_YEAR, 2025

Fields == <<"second", "minute", "hour", "day", "month", "year">>
Names  == {Fields[n] : n \in 1 .. Len(Fields)}

ASSUME RtcAssumption ==
  /\ First \in [Names -> 0 .. 99] /\ Last \in [Names -> 0 .. 99]
  /\ \A f \in Names : First[f] <= Last[f]
  /\ Last["hour"] <= 23
  /\ CurrentYear \in Nat

VARIABLES
  clock,   \* the time the chip keeps
  past,    \* ghost: the time before its last update
  fmt,     \* register B: BCD or binary, 12 or 24 hours
  update,  \* the update-in-progress flag
  reader,  \* where read_rtc is, its globals and its last_ copies
  passes   \* passes over the registers since the last update

vars == <<clock, past, fmt, update, reader, passes>>

Values(f)  == First[f] .. Last[f]
Clocks     == [second : Values("second"), minute : Values("minute"), hour : Values("hour"),
               day : Values("day"), month : Values("month"), year : Values("year")]

-----------------------------------------------------------------------------
(* What the chip shows of a value of a field.                              *)
Bcd(v) == (v \div 10) * 16 + (v % 10)
Shown(f, v) ==
  LET twelve == f = "hour" /\ ~fmt.h24
      shown  == IF twelve THEN ((v + 11) % 12) + 1 ELSE v
  IN  (IF fmt.bcd THEN Bcd(shown) ELSE shown) + (IF twelve /\ v >= 12 THEN 128 ELSE 0)

(* One second later, with carries.                                         *)
Carries(t, n) == \A m \in 1 .. n - 1 : t[Fields[m]] = Last[Fields[m]]
Later(t) ==
  [f \in Names |->
     LET n == CHOOSE k \in 1 .. Len(Fields) : Fields[k] = f
     IN  IF ~Carries(t, n) THEN t[f] ELSE IF t[f] = Last[f] THEN First[f] ELSE t[f] + 1]

(* The conversions at the end of read_rtc.                                 *)
FromBcd(r) == (r % 16) + (r \div 16) * 10
HourFromBcd(r) == (r % 16) + ((r \div 16) % 8) * 10 + (IF r >= 128 THEN 128 ELSE 0)

(* Mutant of To24: hours after noon lose only their mark.                  *)
To24Unshifted(h) == IF ~fmt.h24 /\ h >= 128 THEN h % 128 ELSE h

To24(h) == IF ~fmt.h24 /\ h >= 128 THEN ((h % 128) + 12) % 24 ELSE h

FullYear(y) ==
  LET full == y + (CurrentYear \div 100) * 100
  IN  IF full < CurrentYear THEN full + 100 ELSE full

Converted(regs) ==
  [f \in Names |->
     LET v == IF ~fmt.bcd THEN regs[f]
              ELSE IF f = "hour" THEN HourFromBcd(regs[f]) ELSE FromBcd(regs[f])
     IN  CASE f = "hour" -> To24(v) [] f = "year" -> FullYear(v) [] OTHER -> v]

-----------------------------------------------------------------------------
Zeros == [f \in Names |-> 0]

Init ==
  /\ clock \in Clocks
  /\ past = clock
  /\ fmt \in [bcd : BOOLEAN, h24 : BOOLEAN]
  /\ update = FALSE
  /\ reader = [pc |-> "start", next |-> 1, repeated |-> FALSE, now |-> Zeros, last |-> Zeros]
  /\ passes = 2

(* The chip updates its registers once a second.  Bound: a pass takes      *)
(* microseconds, so two passes begin between one update and the next.      *)
UpdateBegins ==
  /\ ~update
  /\ passes = 2
  /\ update' = TRUE
  /\ UNCHANGED <<clock, past, fmt, reader, passes>>

UpdateEnds ==
  /\ update
  /\ update' = FALSE
  /\ clock' = Later(clock)
  /\ past' = clock
  /\ passes' = 0
  /\ UNCHANGED <<fmt, reader>>

Start ==
  /\ reader.pc = "start"
  /\ reader' = [reader EXCEPT !.pc = "wait"]
  /\ UNCHANGED <<clock, past, fmt, update, passes>>

(* The loop on the update-in-progress flag ends.                           *)
BeginPass ==
  /\ reader.pc = "wait"
  /\ ~update
  /\ reader' = [reader EXCEPT !.pc = "read", !.next = 1]
  /\ passes' = IF passes < 2 THEN passes + 1 ELSE 2
  /\ UNCHANGED <<clock, past, fmt, update>>

(* During an update a register shows its old value or its new one.         *)
Read ==
  /\ reader.pc = "read"
  /\ reader.next <= Len(Fields)
  /\ LET f == Fields[reader.next]
     IN  \E v \in {Shown(f, clock[f])} \cup (IF update THEN {Shown(f, Later(clock)[f])} ELSE {}) :
           reader' = [reader EXCEPT !.next = reader.next + 1,
                                    !.now  = [reader.now EXCEPT ![f] = v]]
  /\ UNCHANGED <<clock, past, fmt, update, passes>>

(* Mutant of Agree: the first pass is trusted.                             *)
AgreeAlways(now, last, repeated) == TRUE

(* The first pass has nothing to be compared with.                         *)
Agree(now, last, repeated) == repeated /\ now = last

(* Mutant of Copied: the copies are made once.                             *)
CopiedOnce(now, last, repeated) == IF repeated THEN last ELSE now

(* The last_ copies for the next pass.                                     *)
Copied(now, last, repeated) == now

EndPass ==
  /\ reader.pc = "read"
  /\ reader.next = Len(Fields) + 1
  /\ reader' = IF Agree(reader.now, reader.last, reader.repeated)
               THEN [reader EXCEPT !.pc = "done", !.now = Converted(reader.now), !.last = Zeros]
               ELSE [reader EXCEPT !.pc = "wait", !.repeated = TRUE,
                                   !.last = Copied(reader.now, reader.last, reader.repeated)]
  /\ UNCHANGED <<clock, past, fmt, update, passes>>

Next == UpdateBegins \/ UpdateEnds \/ Start \/ BeginPass \/ Read \/ EndPass

(* The processor runs, and an update that began ends.                      *)
Spec == Init /\ [][Next]_vars /\ WF_vars(BeginPass \/ Read \/ EndPass) /\ WF_vars(UpdateEnds)

-----------------------------------------------------------------------------
Full(t) == [t EXCEPT !["year"] = FullYear(t["year"])]

Returned   == reader.pc = "read" /\ reader'.pc = "done"
Times      == {clock, past}
Regular(t) == fmt.h24 \/ t["hour"] \notin {0, 12}

(* When read_rtc returns, its globals hold a time the clock shows or       *)
(* showed before its last update, never the minutes of one and the hours   *)
(* of the other (cmos.c:30-94).  In the 12-hour format this holds outside  *)
(* the hours of noon and midnight, which lines 83-85 exchange.             *)
ReadsAMoment ==
  [][(Returned /\ \A t \in Times : Regular(t)) => reader'.now \in {Full(t) : t \in Times}]_vars

(* The search for two equal passes ends, whatever updates fall into it     *)
(* (cmos.c:42-63).                                                         *)
ReadEnds == reader.pc = "wait" ~> reader.pc = "done"
=============================================================================
