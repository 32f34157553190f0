--------------------------- MODULE MCSocketServer ---------------------------
EXTENDS SocketServer, TLC

ClientSymmetry == Permutations(Client)
=============================================================================
