----------------------------- MODULE MCUniverse -----------------------------
(***************************************************************************)
(* A small instance of Universe: a stock with a future and one without, an *)
(* index the config lists and one it does not, a future and an option.     *)
(***************************************************************************)
EXTENDS Universe

CONSTANTS nse, nfo, bank, mill, nifty, vix, bankFut, bankCE

Inst(symbol, name, exchange, type, segment) ==
  [symbol |-> symbol, name |-> name, exchange |-> exchange, type |-> type, segment |-> segment]

MCListed == {
  Inst(bank, bank, nse, "EQ", "NSE"), Inst(mill, mill, nse, "EQ", "NSE"),
  Inst(nifty, nifty, nse, "EQ", "INDICES"), Inst(vix, vix, nse, "EQ", "INDICES"),
  Inst(bankFut, bank, nfo, "FUT", "NFO-FUT"), Inst(bankCE, bank, nfo, "CE", "NFO-OPT")}
=============================================================================
