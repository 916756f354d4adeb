------------------------------ MODULE MCCodex ------------------------------
EXTENDS CodexDecoder
=============================================================================
