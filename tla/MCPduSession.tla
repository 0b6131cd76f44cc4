---------------------------- MODULE MCPduSession ----------------------------
EXTENDS PduSession, TLC

\* The threads of the HTTP server are interchangeable.
ThreadSymmetry == Permutations(Threads)
=============================================================================
