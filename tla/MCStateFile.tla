----------------------------- MODULE MCStateFile -----------------------------
EXTENDS StateFile
CONSTANTS v1, v2, v3
=============================================================================
