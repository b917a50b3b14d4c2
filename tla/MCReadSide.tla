----------------------------- MODULE MCReadSide -----------------------------
(* A small instance of ReadSide: four years, the second a leap year.       *)
EXTENDS ReadSide
MCYear(february) == <<31, february, 31, 30, 31, 30, 31, 31, 30, 31, 30, 31>>
MCMonthDays == MCYear(28) \o MCYear(29) \o MCYear(28) \o MCYear(28)
=============================================================================
