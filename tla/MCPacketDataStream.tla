------------------------- MODULE MCPacketDataStream -------------------------
(* The numbers on both sides of every limit of operator<<, and blocks of no,  *)
(* one and four bytes.                                                       *)
EXTENDS PacketDataStream

N(low) == Wide(low)
MCPositive == {N(<<0>>), N(<<127>>), N(<<128>>), N(<<63, 255>>), N(<<64, 0>>),
               N(<<31, 255, 255>>), N(<<32, 0, 0>>), N(<<15, 255, 255, 255>>),
               N(<<16, 0, 0, 0>>), N(<<255, 255, 255, 255>>), N(<<1, 0, 0, 0, 0>>),
               <<127, 255, 255, 255, 255, 255, 255, 255>>}
(* Their complements: -1, -128, -129, ..., -2^32, -2^32 - 1, -2^63.           *)
MCNegative == {Not(v) : v \in MCPositive}
MCShort == {Not(N(<<3>>)), Not(N(<<4>>))}
MCValues == MCPositive \cup MCNegative \cup MCShort
MCBlocks == {<<>>, <<7>>, <<1, 2, 3, 4>>}
MCCapacities == {0, 1, 2, 5, 12, 30}
=============================================================================
