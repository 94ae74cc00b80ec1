-------------------------------- MODULE MCPiBay --------------------------------
\* Constants for TLC: one plate, that is bound, not bound, or unreadable.
EXTENDS PiBay

CONSTANTS p1

=============================================================================
