----------------------------- MODULE MCMarketShm -----------------------------
(* MarketShm for TLC: the first of two benchmark tickers comes without a bid. *)
EXTENDS MarketShm

OneThreshold == <<"early_run">>
TickerBooks == [benchmark |-> <<{"ask"}, {"bid", "ask"}>>, follower |-> <<{"bid", "ask"}>>]
=============================================================================
