------------------------------- MODULE MCRtc --------------------------------
(* Short ranges around the carries and around the digits of BCD.           *)
EXTENDS Rtc

Range(f, s, h, y) == CASE f = "second" -> s [] f = "hour" -> h [] f = "year" -> y [] OTHER -> 10

FirstValues == [f \in Names |-> Range(f, 9, 8, 24)]
LastValues  == [f \in Names |-> Range(f, 10, 14, 26)]
=============================================================================
