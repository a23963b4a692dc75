--------------------------- MODULE MCTableSetup ---------------------------
EXTENDS TableSetup

\* A fresh database, and one of a version before trades and the screener.
Fresh == {}
Old   == {"ticker", "trade", "level2", "ordersbook", "polymarket_book", "polymarket_market"}
MCInstallations == {Fresh, Old}
===========================================================================
