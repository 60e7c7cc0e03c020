---------------------------- MODULE MCRpcRouting ----------------------------
EXTENDS RpcRouting

CONSTANTS k1, k2, m, n

=============================================================================
