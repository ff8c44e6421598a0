------------------------- MODULE MCSessionMigration -------------------------
EXTENDS SessionMigration, TLC
=============================================================================
