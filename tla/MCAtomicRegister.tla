-------------------------- MODULE MCAtomicRegister --------------------------
(* A small instance of AtomicRegister. *)
EXTENDS AtomicRegister

W == [kind |-> "write", num |-> 0]
R == [kind |-> "read", num |-> 0]

MCClients == {"a", "b", "c"}
MCScript  == [a |-> <<W, R>>, b |-> <<W, R>>, c |-> <<R, W>>]
MCInitVal == <<"client_0", 0>>
===========================================================================
