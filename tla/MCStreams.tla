------------------------------ MODULE MCStreams ------------------------------
(* The sockets and the TLS streams over them, for TLC in one run.  Each     *)
(* module has its own tasks and waiter lists and shares no state with the   *)
(* other, so a behaviour is one of one part.  The tasks and workers of      *)
(* Sockets are interchangeable, and the other part does not have them.      *)
EXTENDS Sockets, TlsStream, TLC

VARIABLE part

Symmetry == Permutations(Tasks) \cup Permutations(Workers)

StreamsInit == part \in {"sockets", "tls"} /\ SocketsInit /\ TlsInit

StreamsNext ==
    /\ UNCHANGED part
    /\ \/ part = "sockets" /\ SocketsNext /\ UNCHANGED tlsVars
       \/ part = "tls" /\ TlsNext /\ UNCHANGED sockVars

StreamsSpec == StreamsInit /\ [][StreamsNext]_<<part, sockVars, tlsVars>>
=============================================================================
