----------------------------- MODULE MCRpcClient -----------------------------
\* Callers and servers are model values; no symmetry, as the run checks liveness.
EXTENDS RpcClient
=============================================================================
