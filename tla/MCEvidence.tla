---------------------------- MODULE MCEvidence ----------------------------
EXTENDS EvidenceStore
=============================================================================
