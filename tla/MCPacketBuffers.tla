--------------------------- MODULE MCPacketBuffers ---------------------------
(* Two packets whose pointers share no byte order and set the sign bit.    *)
EXTENDS PacketBuffers, SequencesExt

MCPackets ==
  {<<<<64, 1, 2, 3, 255, 127, 0, 0>>, <<206, 1, 2, 3, 255, 127, 0, 0>>>>,
   <<<<128, 9, 0, 200, 4, 3, 2, 129>>, <<14, 10, 0, 200, 4, 3, 2, 129>>>>}

\* nat_receive_burst insert by insert, which Store describes at once.
StoreLoop(m, ps, offset) ==
  FoldLeftDomain(LAMBDA acc, i :
                   Insert(Insert(acc, offset + 16 * (i - 1), ps[i][1]),
                          offset + 16 * (i - 1) + 8, ps[i][2]),
                 m, ps)

ASSUME StoreIsTheLoop ==
  LET empty == [a \in Addresses |-> 0]
  IN  \A k \in 0..GetSize : \A ps \in [1..k -> Packets] :
        Store(empty, ps, 2) = StoreLoop(empty, ps, 2)

=============================================================================
