---------------------------- MODULE MCPulseFinder ----------------------------
(* A small instance of PulseFinder for TLC: one kind, one master.           *)
EXTENDS PulseFinder

CONSTANTS sinkInput, masterSink

MCKinds == <<sinkInput>>
MCMasters == <<masterSink>>
MCKindOf == [i \in Streams |-> sinkInput]
=============================================================================
