----------------------------- MODULE MCWatcher -----------------------------
EXTENDS Watcher
CONSTANTS s1, s2
TwoSources == <<s1, s2>>
=============================================================================
