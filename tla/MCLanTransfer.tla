--------------------------- MODULE MCLanTransfer ---------------------------
EXTENDS LanProgress
=============================================================================
