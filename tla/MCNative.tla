------------------------------ MODULE MCNative ------------------------------
(***************************************************************************)
(* For TLC, the components at the border of Java and native code: the      *)
(* native statistics, the buffers shared by C and Java, and the packet     *)
(* headers with the rules.  They have no variable in common and none of    *)
(* their properties relates two of them, so each is followed by itself:    *)
(* part says which, and the others stay in an initial state.               *)
(***************************************************************************)
EXTENDS NativeStats, MCPacketBuffers, MCBlacklist

VARIABLE part

mcVars == <<part, nativeVars, bufferVars, vars>>

MCInit ==
  /\ part \in {"NativeStats", "PacketBuffers", "Blacklist"}
  /\ NativeInit /\ BufferInit
  /\ Init /\ (part # "Blacklist" => file = <<>>)

MCThread ==
  /\ part = "NativeStats" /\ Thread
  /\ UNCHANGED <<part, bufferVars, vars>>

MCNext ==
  \/ MCThread
  \/ /\ part = "NativeStats" /\ \E c \in Counters : CardCounts(c)
     /\ UNCHANGED <<part, bufferVars, vars>>
  \/ /\ part = "PacketBuffers" /\ BufferNext
     /\ UNCHANGED <<part, nativeVars, vars>>
  \/ /\ part = "Blacklist" /\ Next
     /\ UNCHANGED <<part, nativeVars, bufferVars>>

\* The fairness of NativeLiveSpec.
MCSpec == MCInit /\ [][MCNext]_mcVars /\ WF_mcVars(MCThread)

=============================================================================
