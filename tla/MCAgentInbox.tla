---------------------------- MODULE MCAgentInbox ----------------------------
EXTENDS AgentInbox

CONSTANTS a, b, c, h1, h2

MCOne == {<<a>>}

=============================================================================
