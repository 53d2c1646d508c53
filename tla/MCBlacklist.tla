----------------------------- MODULE MCBlacklist -----------------------------
(* An IPv4 and an IPv6 packet next to each other in memory.  Setters put   *)
(* the least significant byte first.                                       *)
EXTENDS Blacklist

MCPointer == <<0, 20>>
MCKind    == <<"v4", "v6">>
Address   == [i \in 1..16 |-> 100 + i]
MCInputs  == <<
  [version_ihl     |-> {<<101, 1>>, <<149, 0>>},
   total_length    |-> {<<1, 200, 7>>},
   src_addr        |-> {<<10, 0, 0, 1>>, <<1, 0, 0, 138, 1>>}],
  [src_addr |-> {Address}, dst_addr |-> {Swap(Address)}]>>
MCMemory  == [a \in 0..59 |-> IF a = 0 THEN 69 ELSE IF a = 20 THEN 96 ELSE 0]
MCLines   == {<<10, 0, 0, 1>>, <<138, 256, 0, 1>>}

=============================================================================
