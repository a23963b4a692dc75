--------------------------- MODULE MCByBitBook ---------------------------
EXTENDS ByBitBook
==========================================================================
