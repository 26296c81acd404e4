------------------------------ MODULE KVCache ------------------------------
(***************************************************************************)
(* The KV cache of a loaded slice (crates/runtime/src/ggml_backend.rs), as  *)
(* far as its users tell it apart: a sequence of cells, each with the        *)
(* position it was written at. To roll it back is to drop the cells from a   *)
(* position on (llama.cpp's kv_seq_rm).                                     *)
(***************************************************************************)
EXTENDS Naturals, Sequences

\* The cells of kv at positions before p, in their order.
CellsBefore(kv, p) ==
    LET kept[i \in 0..Len(kv)] ==
            IF i = 0 THEN <<>>
            ELSE IF kv[i].pos < p THEN Append(kept[i - 1], kv[i]) ELSE kept[i - 1]
    IN kept[Len(kv)]
=============================================================================
