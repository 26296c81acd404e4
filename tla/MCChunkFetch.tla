----------------------------- MODULE MCChunkFetch -----------------------------
(* Two callers that share a chunk, and the manifest.                          *)
EXTENDS ChunkFetch, TLC

CONSTANTS w1, w2, header, bundle

MCPlan == w1 :> <<header>> @@ w2 :> <<header>>
==============================================================================
