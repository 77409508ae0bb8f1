--------------------------- MODULE MCPacketTable ---------------------------
(* PacketTable on small instances.                                          *)
EXTENDS PacketTable
=============================================================================
