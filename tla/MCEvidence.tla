------------------------------ MODULE MCEvidence ------------------------------
\* Constants for TLC: two strong conflicts and a weak one, of one bay.
EXTENDS Evidence

CONSTANTS b1

OneBay == [e \in Events |-> b1]

=============================================================================
