--------------------------- MODULE MCPaletteSync ---------------------------
(***************************************************************************)
(* Small instance of PaletteSync: two entries, so that a copy is begun and *)
(* not finished and the index wraps, and two values of a half.             *)
(***************************************************************************)
EXTENDS PaletteSync
=============================================================================
