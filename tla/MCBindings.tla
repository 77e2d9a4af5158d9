----------------------------- MODULE MCBindings -----------------------------
EXTENDS Bindings

MCPeers == 0 .. PeerIdRange - 1
=============================================================================
