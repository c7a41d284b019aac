------------------------- MODULE MCShortsRendering -------------------------
(***************************************************************************)
(* Two shorts make a batch, and two requests render the same one.          *)
(***************************************************************************)
EXTENDS ShortsRendering
=============================================================================
