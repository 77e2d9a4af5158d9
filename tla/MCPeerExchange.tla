-------------------------- MODULE MCPeerExchange --------------------------
(* Instances of PeerExchange for TLC. *)
EXTENDS PeerExchange, TLC

CONSTANTS h1, h2

MCTwoPeers == {0, 1}
MCThreePeers == {0, 1, 2}
MCOneTick == {0}
MCTwoTicks == {0, 1}
MCHashes == {h1, h2}

Symmetry == Permutations(MCHashes)
============================================================================
