---------------------------- MODULE MCHostVideo ----------------------------
(***************************************************************************)
(* Small instance of HostVideo: a ring of three buffers, frames of two     *)
(* rows of two pixels, and places where a frame of 8 or of 16 bits just    *)
(* fits.                                                                   *)
(***************************************************************************)
EXTENDS HostVideo

MCRooms == {4, 8}
=============================================================================
