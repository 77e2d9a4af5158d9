----------------------------- MODULE MCSession -----------------------------
(* Instance of Session for TLC. *)
EXTENDS Session, TLC

CONSTANTS h1, h2

MCTicks == {0, 1}
MCPeers == {0, 1}
MCHashes == {h1, h2}
MCTypeNames == {"Enemy"}
MCRetentions == {0, 1}

Symmetry == Permutations(MCHashes)
============================================================================
