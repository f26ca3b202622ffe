--------------------------- MODULE MCChartScreen ---------------------------
(* Provider A has both directions of P and a bid of Q, provider B a bid    *)
(* of P.                                                                   *)
EXTENDS ChartScreen, TLC

CONSTANTS aBid, bBid, aAsk, aOther

MCTitle == aBid :> "A" @@ bBid :> "B" @@ aAsk :> "A" @@ aOther :> "A"
MCKind == aBid :> "BID" @@ bBid :> "BID" @@ aAsk :> "ASK" @@ aOther :> "BID"
MCPairOf == aBid :> "P" @@ bBid :> "P" @@ aAsk :> "P" @@ aOther :> "Q"
MCPairOrder == <<"P", "Q">>
Row(n, s, t) == [id |-> n, source |-> s, time |-> t]
MCAllRows == {Row(1, aBid, 1), Row(2, bBid, 1), Row(3, aAsk, 1), Row(4, aOther, 1),
              Row(5, aBid, 2), Row(6, aAsk, 2), Row(7, aBid, 3)}
Interchangeable == Permutations(Job)
MCStocks == {{r \in MCAllRows : r.id <= 5}}
============================================================================
