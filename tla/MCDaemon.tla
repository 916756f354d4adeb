------------------------------ MODULE MCDaemon ------------------------------
(* Daemon for TLC: two daemons over one transcript, or over two of which   *)
(* one has no trusted session time.                                        *)
EXTENDS Daemon

CONSTANTS d1, d2, h1, h2, codex, claude

MCDaemons == {d1, d2}
MCHooks   == {h1, h2}
MCSource  == {codex}
MCSources == {codex, claude}
MCUndated == {claude}
MCClock   == {1, 2}
=============================================================================
