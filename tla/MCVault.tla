----------------------------------- MODULE MCVault -----------------------------------
EXTENDS Vault, TLC

CONSTANTS p, q, composed, decomposed

MCNfkc == [s \in Spellings |-> IF s = decomposed THEN composed ELSE s]
MCLinks == 1 :> {"sign"} @@ 2 :> {"connect"}

\* Nothing, a damaged entry, a vault of an earlier version, or an altered one.
MCFound == {NoVault, Malformed,
            [phrase |-> p, addresses |-> p, key |-> decomposed],
            [phrase |-> p, addresses |-> q, key |-> composed]}
=======================================================================================
