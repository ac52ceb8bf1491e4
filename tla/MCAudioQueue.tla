---------------------------- MODULE MCAudioQueue ----------------------------
(* Packets of two frames, one CELT version the library has and one it lacks.  *)
EXTENDS AudioQueue

MCCodecMap == {"c070"}
MCVersions == {"c070", "unknown"}
MCTypes == {"celtAlpha"}
MCChunks == {1, 3}
=============================================================================
