--------------------------- MODULE MCStreamSession ---------------------------
EXTENDS StreamSession, TLC

\* Addresses are interchangeable; used by the runs without liveness properties.
Symmetry == Permutations(Addr)

=============================================================================
