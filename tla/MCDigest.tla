----------------------------- MODULE MCDigest -----------------------------
(* A user of three rows for TLC: two banks buy dollars, the same two sell   *)
(* them, and a third quotes euros.                                          *)
EXTENDS Digest

CONSTANTS bank1, bank2, bank3, bank1ask, bank2ask, usdBid, usdAsk, eurBid

MCSource == {bank1, bank2, bank1ask, bank2ask, bank3}
MCSourceOf == (1 :> bank1 @@ 2 :> bank2 @@ 3 :> bank1ask @@ 4 :> bank3 @@ 5 :> bank2ask)
MCKeyOf == (bank1 :> usdBid @@ bank2 :> usdBid @@ bank1ask :> usdAsk @@ bank2ask :> usdAsk @@ bank3 :> eurBid)
MCLabel == (usdBid :> 2 @@ usdAsk :> 1 @@ eurBid :> 1)
MCTriggerOf == (1 :> "delta" @@ 2 :> "cron" @@ 3 :> "delta" @@ 4 :> "daily" @@ 5 :> "daily")
MCPairWidth == (usdBid :> 1 @@ usdAsk :> 1 @@ eurBid :> 1)
MCValueWidth == (usdBid :> 2 @@ usdAsk :> 2 @@ eurBid :> 3)
MCDeltaWidth == (usdBid :> 8 @@ usdAsk :> 1 @@ eurBid :> 2)
=============================================================================
