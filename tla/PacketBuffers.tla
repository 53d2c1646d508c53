--------------------------- MODULE PacketBuffers ---------------------------
(***************************************************************************)
(* The memory that DpdkAccess.c and the Java classes share, byte by byte:  *)
(* the receive buffer of a ReceivePoller (a 16-bit count, then two 64-bit  *)
(* pointers per packet) and the list of a PacketSender (a 16-bit count,    *)
(* then one pointer per mbuf).  Java walks both with the moving cursor of  *)
(* an UnsafeAccess object; C computes its own offsets.                     *)
(***************************************************************************)
EXTENDS NativeMemory

CONSTANTS
  Packets,    \* pairs of 64-bit pointers: <<mbuf, packet>>
  GetSize,    \* get_size
  SendBurst   \* send_burst

\* The count in front of a buffer is a uint16_t.
ASSUME BufferAssumption ==
  /\ GetSize \in Nat /\ GetSize < 65536
  /\ SendBurst \in Nat \ {0} /\ SendBurst < 65536
  /\ Packets \subseteq [1..8 -> Byte] \X [1..8 -> Byte]

\* Addresses: the receive buffer with Short.SIZE (bits) to spare, the list.
ListStart == 16 * GetSize + 16
Addresses == 0..ListStart + 8 * SendBurst + 1

VARIABLES
  shared,       \* the bytes
  uaList,       \* cursor of PacketList.ua_list
  size,         \* PacketList.size
  current,      \* PacketIterator.current
  returned,     \* pointers of PacketList.returnedPacket, while it is in use
  uaCreate,     \* cursor of PacketListCreate.ua
  currentSize,  \* PacketListCreate.current_size
  sentMbufs     \* tx_pkts of the last rte_eth_tx_burst

bufferVars ==
  <<shared, uaList, size, current, returned, uaCreate, currentSize, sentMbufs>>

BufferTypeOK ==
  /\ shared \in [Addresses -> Byte]
  /\ uaList \in Addresses /\ uaCreate \in Addresses \cup {ListStart + 8 * SendBurst + 2}
  /\ size \in 0..GetSize /\ current \in 0..size
  /\ Len(returned) <= 1
  /\ currentSize \in 0..SendBurst - 1
  /\ Len(sentMbufs) \in {0, SendBurst}

BufferInit ==
  /\ shared = [a \in Addresses |-> 0]
  /\ uaList = 0 /\ size = 0 /\ current = 0 /\ returned = <<>>
  /\ uaCreate = ListStart + 2 /\ currentSize = 0 /\ sentMbufs = <<>>

-----------------------------------------------------------------------------
(* Receiving.                                                              *)

\* The loop of nat_receive_burst over pkts_burst: two pointers for each packet,
\* one packet after the other.
Store(m, ps, offset) ==
  [a \in DOMAIN m |->
     LET d == a - offset
     IN  IF d \in 0..16 * Len(ps) - 1
         THEN ps[(d \div 16) + 1][IF d % 16 < 8 THEN 1 ELSE 2][(d % 8) + 1]
         ELSE m[a]]

\* getBurst: nat_receive_burst fills the buffer; an empty burst returns null,
\* any other one resets the list, whose iterator starts after the count.
GetBurst(ps) ==
  /\ current = size /\ returned = <<>>
  /\ shared' = Store(Insert(shared, 0, Short(Len(ps))), ps, 2)
  /\ LET count == OfShort(GetUnsafe(shared', 0, 2))
     IN  IF count > 0 THEN size' = count /\ current' = 0 /\ uaList' = 2
                      ELSE UNCHANGED <<size, current, uaList>>
  /\ UNCHANGED <<returned, uaCreate, currentSize, sentMbufs>>

\* Mutant: the cursor moves by one pointer.
NextPacketShort ==
  /\ current < size /\ returned = <<>>
  /\ returned' = <<<<GetUnsafe(shared, uaList, 8), GetUnsafe(shared, uaList + 8, 8)>>>>
  /\ uaList' = uaList + 8
  /\ current' = current + 1
  /\ UNCHANGED <<shared, size, uaCreate, currentSize, sentMbufs>>

\* PacketIterator.next
NextPacket ==
  /\ current < size /\ returned = <<>>
  /\ returned' = <<<<GetUnsafe(shared, uaList, 8), GetUnsafe(shared, uaList + 8, 8)>>>>
  /\ uaList' = uaList + 16
  /\ current' = current + 1
  /\ UNCHANGED <<shared, size, uaCreate, currentSize, sentMbufs>>

-----------------------------------------------------------------------------
(* Sending.                                                                *)

\* The loop of nat_send_packets.
Load(m, start) ==
  [i \in 1..OfShort(Get(m, start, 2)) |-> Get(m, start + 2 + 8 * (i - 1), 8)]

\* PacketListCreate.reset
ResetList ==
  /\ currentSize' = 0
  /\ uaCreate' = ListStart + 2

\* sendPacket, with the sendBurst of a full list: getNativePointer writes the
\* count, nat_send_packets reads the list, reset empties it.
SendPacket ==
  /\ returned # <<>>
  /\ returned' = <<>>
  /\ LET added == PutUnsafe(shared, uaCreate, returned[1][1])
     IN  IF currentSize + 1 = SendBurst
         THEN /\ shared' = PutUnsafe(added, ListStart, Short(currentSize + 1))
              /\ sentMbufs' = Load(shared', ListStart)
              /\ ResetList
         ELSE /\ shared' = added
              /\ currentSize' = currentSize + 1
              /\ uaCreate' = uaCreate + 8
              /\ UNCHANGED sentMbufs
  /\ UNCHANGED <<uaList, size, current>>

\* The packet goes to the PacketFreeer, which has a list of its own.
FreePacket ==
  /\ returned # <<>>
  /\ returned' = <<>>
  /\ UNCHANGED <<shared, uaList, size, current, uaCreate, currentSize, sentMbufs>>

BufferNext ==
  \/ \E n \in 0..GetSize : \E ps \in [1..n -> Packets] : GetBurst(ps)
  \/ NextPacket \/ SendPacket \/ FreePacket

BufferSpec == BufferInit /\ [][BufferNext]_bufferVars

-----------------------------------------------------------------------------
(* Properties.                                                             *)

Channel == INSTANCE BurstChannel WITH
  queue <- [i \in 1..size - current |->
              <<Get(shared, 2 + 16 * (current + i - 1), 8),
                Get(shared, 2 + 16 * (current + i - 1) + 8, 8)>>],
  held  <- returned,
  batch <- [i \in 1..currentSize |-> Get(shared, ListStart + 2 + 8 * (i - 1), 8)],
  wire  <- sentMbufs

(***************************************************************************)
(* The byte layout, the offsets computed on the two sides and the cursors  *)
(* implement two FIFO channels: what the iterator returns is what          *)
(* nat_receive_burst stored, in order, and what nat_send_packets transmits *)
(* is the list of mbufs accepted since the last burst, in order, over any  *)
(* sequence of bursts that reuse the same memory.                          *)
(***************************************************************************)
ImplementsChannel == Channel!Spec

=============================================================================
