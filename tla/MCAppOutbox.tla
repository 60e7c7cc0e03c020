---------------------------- MODULE MCAppOutbox ----------------------------
EXTENDS AppOutbox

CONSTANTS x, y, f, g

MCOwner == [file \in {f, g} |-> y]     \* y comes with two attachments
MCPlace == [file \in {f, g} |-> IF file = f THEN 1 ELSE 2]

=============================================================================
