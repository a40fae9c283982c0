---------------------------- MODULE OptionsFiles ----------------------------
(***************************************************************************)
(* What the options extractor works on (internal/extractor/options.go and  *)
(* the option files of internal/storage/parquet/writer.go): contracts,     *)
(* their underlyings, rows and the merge of rows into a file.              *)
(*                                                                         *)
(* Checkpoints and files belong to an underlying at one interval; what     *)
(* Kite is asked for belongs to a contract.  A row is <<contract, day>>.   *)
(***************************************************************************)
EXTENDS Windows, FiniteSets

CONSTANTS
  Contracts,    \* the CE and PE contracts of the exchanges in the config
  Own,          \* Own[s]: the contracts on the underlying of s
  Matches,      \* Matches[s]: those whose TradingSymbol has its name as a prefix
  KeyOf,        \* expiry, strike and option type of a contract
  ListedOn,     \* the days on which Kite's dump lists a contract
  Market,       \* the days for which Kite has candles of a contract
  FetchFaults,  \* whether Kite may answer with an error that is not about auth
  None          \* no underlying

ASSUME OptionsAssumption ==
  /\ IsFiniteSet(Series) /\ IsFiniteSet(Contracts)
  /\ Intraday \subseteq Series
  /\ None \notin Series
  /\ LastDay \in Nat
  /\ BackfillFrom \in [Series -> Day]
  /\ ChunkDays \in [Series -> Nat \ {0}]
  /\ PeriodEnd \in [Series -> [Day -> Day]]
  /\ Own \in [Series -> SUBSET Contracts]
  /\ Matches \in [Series -> SUBSET Contracts]
  /\ \A s \in Series : Own[s] \subseteq Matches[s]
  /\ ListedOn \in [Contracts -> SUBSET (1 .. LastDay + 1)]
  /\ Market \in [Contracts -> SUBSET Day]
  /\ FetchFaults \in BOOLEAN

Row == Contracts \X Day

RowKey(r) == <<KeyOf[r[1]], r[2]>>

\* Mutant: the file is replaced by the new rows.
MergeOptionCandlesReplaces(existing, incoming) == incoming

\* Of two rows with the same key the later one stays.
MergeOptionCandles(existing, incoming) ==
  incoming \cup {r \in existing : \A i \in incoming : RowKey(i) # RowKey(r)}

\* What Kite's instruments dump lists on a day.
Listing(t) == {c \in Contracts : t \in ListedOn[c]}
=============================================================================
