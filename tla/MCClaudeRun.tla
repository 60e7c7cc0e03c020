---------------------------- MODULE MCClaudeRun ----------------------------
EXTENDS ClaudeRun

CONSTANTS opus, sonnet

=============================================================================
