--------------------------- MODULE MCPassPipeline ---------------------------
(* Two functions, so that one can change while the other stays unchecked. *)
EXTENDS PassPipeline
=============================================================================
