------------------------------ MODULE MCClaude ------------------------------
EXTENDS ClaudeDecoder
=============================================================================
