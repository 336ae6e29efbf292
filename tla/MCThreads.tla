------------------------------ MODULE MCThreads ------------------------------
(* Threads of the host for TLC in one run: the workers, the threads that     *)
(* read standard input and write the log, and, as a part of its own, the     *)
(* line reader.  They share no state, so a behaviour is one of one part.     *)
EXTENDS Workers, Stdin, ReadLine, LogWriter

VARIABLE part

allVars == <<part, vars, stdinVars, pieces, logVars>>

AllInit ==
    /\ part \in {"workers", "stdin", "read_line", "log"}
    /\ Init /\ StdinInit /\ ReadLineInit /\ LogInit

AllNext ==
    /\ UNCHANGED part
    /\ \/ part = "workers" /\ Next /\ UNCHANGED <<stdinVars, pieces, logVars>>
       \/ part = "stdin" /\ StdinNext /\ UNCHANGED <<vars, pieces, logVars>>
       \/ part = "read_line" /\ FillBuf /\ UNCHANGED <<vars, stdinVars, logVars>>
       \/ part = "log" /\ LogNext /\ UNCHANGED <<vars, stdinVars, pieces>>

AllSpec == AllInit /\ [][AllNext]_allVars
=============================================================================
