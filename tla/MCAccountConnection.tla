-------------------------- MODULE MCAccountConnection --------------------------
EXTENDS AccountConnection, TLC
=============================================================================
