----------------------------- MODULE MCSpotify -----------------------------
(* Two songs of four frames in different formats.                           *)
EXTENDS Spotify
=============================================================================
