---------------------------- MODULE MCChatTurns -----------------------------
EXTENDS ChatTurns

CONSTANTS a, b, d, p, q

\* The window opens with a chain of one host; the user may add a backup.
MCTarget == <<p>>
MCTargets == {MCTarget, <<p, q>>}
=============================================================================
