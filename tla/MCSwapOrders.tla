---------------------------------- MODULE MCSwapOrders ----------------------------------
EXTENDS SwapOrders, TLC

cspr == [ticker |-> "cspr", network |-> "cspr"]
usdc == [ticker |-> "usdc", network |-> "matic"]
usdt == [ticker |-> "usdt", network |-> "matic"]

MCAssets == {cspr, usdc, usdt}
MCPairs == {<<cspr, usdc>>, <<usdc, cspr>>, <<usdt, cspr>>}
MCFickle == {cspr}

Symmetric == UNION {Permutations(S) : S \in {Users, Wallets, OrderIds, Calls}}
=======================================================================================
