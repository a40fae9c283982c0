----------------------------- MODULE MCOptions -----------------------------
(***************************************************************************)
(* Small instances of OptionsJobs.  Day 1 is a Monday.  Contract near is   *)
(* listed on days 1 and 2 and traded on day 1 only; far is listed          *)
(* throughout; other is a contract on another underlying with the expiry,  *)
(* strike and type of far.                                                 *)
(***************************************************************************)
EXTENDS OptionsJobs

CONSTANTS u1, u2, near, far, other, Boundary,
  PrefixOf    \* u1's name is a prefix of u2's

MCBackfillFrom == [s \in Series |-> 1]
MCChunkDays == [s \in Series |-> 2]
MCPeriodEnd ==
  [s \in Series |-> [d \in Day |-> IF d <= Boundary THEN Boundary ELSE LastDay]]
MCOwn ==
  [s \in Series |-> Contracts \cap IF s = u1 THEN {near, far} ELSE {other}]
MCMatches ==
  [s \in Series |-> IF s = u1 /\ PrefixOf THEN Contracts ELSE MCOwn[s]]
MCKeyOf == [c \in Contracts |-> IF c = near THEN 1 ELSE 2]
MCListedOn == [c \in Contracts |-> IF c = near THEN 1 .. 2 ELSE 1 .. LastDay + 1]
MCMarket == [c \in Contracts |-> IF c = near THEN {1} ELSE Day]
=============================================================================
