----------------------------- MODULE MCBufCache -----------------------------
\* Two processes, as many buffers as they need with one pinned, more blocks.
EXTENDS BufCache

CONSTANTS p1, p2, x1, x2
MCLru == <<x1, x2>>
=============================================================================
