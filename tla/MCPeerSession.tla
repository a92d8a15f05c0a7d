--------------------------- MODULE MCPeerSession ---------------------------
(* Values for the constants of PeerSession. *)
EXTENDS PeerSession

\* All headers of four words of two bits.
SmallHeaders == [1 .. 4 -> 0 .. 3]

\* Block ciphers with MD5, SHA1 and SHA-512, and stream ciphers.
KnownCiphers == [blocksize : {0, 8, 16}, mac_size : {0, 16, 20, 64}]

\* Around every remainder of a block, and the default.
SomeMtus == 150 .. 166 \cup {1419}
============================================================================
