--------------------------- MODULE MCChainSession ---------------------------
EXTENDS ChainSession

CONSTANTS p1, p2, p3

\* One hop, with no other host of the slice.
OnePeer == <<p1>>
NoAlternate == <<<<>>>>
\* Two hops; the second one has alternates. A host that was announced twice
\* may be listed twice: dedup drops neighbours only.
TwoPeers == <<p1, p2>>
Alternates == <<<<>>, <<p3>>>>
=============================================================================
