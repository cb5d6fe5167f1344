--------------------------- MODULE MCEngineRecovery ---------------------------
(***************************************************************************)
(* EngineRecovery for TLC: two symbols, a few commands that meet at one    *)
(* price, a ladder of two prices and a wider one for AddSymbol.            *)
(***************************************************************************)
EXTENDS EngineRecovery

Order(id, side, price, qty) ==
    [kind |-> "New", id |-> id, side |-> side, otype |-> "Limit", price |-> price,
     qty |-> qty, tif |-> "Gtc"]

Ladder(prices, max) == [prices |-> prices, max |-> max, index |-> "Ladder"]

MCEngineCfg == Ladder({0, 1}, 2)
MCLibraryCfg == Ladder(0 .. 2, 3)
MCAdditions == {[sym |-> 1, cfg |-> MCEngineCfg], [sym |-> 2, cfg |-> Ladder(0 .. 2, 3)]}

\* On symbol 1 two sell orders at one price and a buy order that takes one and a half of
\* them, and a replacement that puts the first behind the second; on symbol 2 a sell order at a price only the wider ladder has.
MCEntries ==
    {[sym |-> 1, cmd |-> Order(1, "Ask", 0, 2)], [sym |-> 1, cmd |-> Order(2, "Ask", 0, 2)],
     [sym |-> 1, cmd |-> Order(3, "Bid", 1, 3)],
     [sym |-> 1, cmd |-> [kind |-> "Replace", id |-> 1, price |-> 0, qty |-> 3]],
     [sym |-> 2, cmd |-> Order(1, "Ask", 2, 1)]}

\* Two orders whose ids are neighbours, one of them beyond the exact integers.
LargeIdEntries ==
    {[sym |-> 1, cmd |-> Order(4, "Ask", 1, 2)], [sym |-> 1, cmd |-> Order(5, "Ask", 1, 2)]}

=============================================================================
