-------------------------- MODULE MCRendererBridge --------------------------
(* One project loaded again and again, three files, a page and its reload. *)
EXTENDS RendererBridge
=============================================================================
