--------------------------- MODULE MCPersistence ---------------------------
EXTENDS Persistence
=============================================================================
