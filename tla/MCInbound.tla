----------------------------- MODULE MCInbound -----------------------------
(* Headers of two bytes, bodies of none to two; two users, two channels     *)
(* beside the root.                                                          *)
EXTENDS Inbound

MCBody == [UserRemove |-> 1, UserState |-> 2, ChannelRemove |-> 1, ChannelState |-> 1,
           Other |-> 0]
MCSessions == {1, 2}
MCChannels == {1, 2}
=============================================================================
