---------------------------- MODULE MCTurnDecode ----------------------------
EXTENDS TurnDecode

CONSTANTS a, b, eos

\* A prompt of one token is enough: the prefill is one step whatever its length.
ShortPrompt == <<a>>
=============================================================================
