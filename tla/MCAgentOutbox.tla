--------------------------- MODULE MCAgentOutbox ---------------------------
EXTENDS AgentOutbox

CONSTANTS a, b, c, h1, h2

=============================================================================
