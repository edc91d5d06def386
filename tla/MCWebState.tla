----------------------------- MODULE MCWebState -----------------------------
(* A session in which one ticker trades, then both are quoted.              *)
EXTENDS WebState

Msg(t, hit) == [t |-> t, hit |-> hit]
TradeThenQuotes == <<Msg("a", TRUE), Msg("b", FALSE), Msg("a", FALSE)>>
=============================================================================
