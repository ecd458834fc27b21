--------------------------- MODULE MCQuicTransfer ---------------------------
EXTENDS QuicProgress
=============================================================================
