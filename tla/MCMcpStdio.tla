----------------------------- MODULE MCMcpStdio -----------------------------
EXTENDS McpStdio
=============================================================================
