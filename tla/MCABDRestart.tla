---------------------------- MODULE MCABDRestart ----------------------------
(* Small instances of ABDRestart for TLC. *)
EXTENDS ABDRestart, MCABD

OneClient == {"writer_1"}

\* A client that writes, reads back and writes again.
RestartScript ==
    [c \in OneClient |-> <<Call("write", 2), Call("read", 3), Call("write", 4)>>]
===========================================================================
