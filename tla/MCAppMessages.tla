--------------------------- MODULE MCAppMessages ---------------------------
EXTENDS AppMessages

CONSTANTS x, p, q

=============================================================================
