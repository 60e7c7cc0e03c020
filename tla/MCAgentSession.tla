--------------------------- MODULE MCAgentSession ---------------------------
EXTENDS AgentSession

CONSTANTS a, b, u, h1, h2

MCBatches == {<<b, u>>}

MCSingles == {<<a>>, <<b>>}

=============================================================================
