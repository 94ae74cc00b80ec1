------------------------------- MODULE MCBayNode -------------------------------
\* Constants for TLC: two readings confirm a status, two visits follow each other,
\* so that each may be mistaken for the other, and pictures are dated 21 April 2026;
\* both builds (BayNode), or the one with 64-bit time (BayNodeFresh).
EXTENDS BayNode

=============================================================================
