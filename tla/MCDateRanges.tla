---------------------------- MODULE MCDateRanges ----------------------------
(***************************************************************************)
(* DateRanges over 2023 to 2025 (1 January 2023 was a Sunday), with ranges *)
(* that start and end around the ends of a leap February, of months of 30  *)
(* and of 31 days, and of years.                                           *)
(***************************************************************************)
EXTENDS DateRanges

MCDates ==
  LET y24 == 365
      y25 == 365 + 366
  IN  (y24 - 2 .. y24 + 1) \cup (y24 + 30 .. y24 + 31) \cup (y24 + 58 .. y24 + 61)
      \cup (y24 + 120 .. y24 + 121) \cup (y25 - 2 .. y25 + 1)
=============================================================================
