--------------------------------- MODULE MCWalletView ---------------------------------
EXTENDS WalletView
=======================================================================================
