---------------------------- MODULE MCSendQueue ----------------------------
(* One playback thread beside the connecting thread and the io thread.       *)
EXTENDS SendQueue

MCSenders == {"player"}
=============================================================================
