------------------------- MODULE MCIncomingRequests -------------------------
EXTENDS IncomingRequests, TLC

\* Handlers may be exchanged: the runs check invariants only.
HandlerSymmetry == Permutations(Handlers)
=============================================================================
