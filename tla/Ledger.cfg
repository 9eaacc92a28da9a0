SPECIFICATION FairSpec
CONSTANTS
    Trades = {t1}
    Pnls <- MCPnls
    Wallets = {0, 6}
    Initial = 5
    NoBalance = NoBalance
    NoTrade = NoTrade
    MaxBar = 2
    MaxStarts = 2
INVARIANTS BooksAgree
PROPERTIES WalletMirrored
CHECK_DEADLOCK FALSE
