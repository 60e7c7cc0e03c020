----------------------------- MODULE MCPresence -----------------------------
EXTENDS Presence

CONSTANTS h1, h2

=============================================================================
