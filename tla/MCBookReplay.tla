--------------------------- MODULE MCBookReplay ---------------------------
EXTENDS BookReplay

CONSTANTS bid, ask
MCLevels == {bid, ask}
===========================================================================
