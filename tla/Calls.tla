------------------------------- MODULE Calls -------------------------------
(***************************************************************************)
(* What the two algorithms share: the processes, the calls that clients    *)
(* make, the values they write, and the messages (src/src/baseprocess).    *)
(*                                                                         *)
(* A call is identified by its client and its place in the client's        *)
(* script; a payload by the call that wrote it, so that the model tells    *)
(* apart payloads a deployment might repeat.                               *)
(***************************************************************************)
EXTENDS Tags, Sequences, FiniteSets

CONSTANTS
    Servers,    \* the servers every client is connected to
    Clients,    \* the reader and writer processes, named by their client_id
    Mortal,     \* the clients that may be killed
    Script      \* Script[c]: the calls client c makes, one after the other

Kinds == {"read", "write"}

ASSUME CallsAssumption ==
    /\ IsFiniteSet(Servers) /\ Servers # {}
    /\ Clients \subseteq Names
    /\ Mortal \subseteq Clients
    /\ Script \in [Clients -> Seq([kind : Kinds, num : Nat])]

CallId  == Clients \X Nat
InitVal == <<Client0, 0>>
Values  == CallId \cup {InitVal}

Object  == [tag : Tag, val : Values]

\* What a server creates when it is first asked for an object.
InitObject == [tag |-> InitTag, val |-> InitVal]

Message(phase, num, t, v) == [phase |-> phase, num |-> num, tag |-> t, val |-> v]

\* What a call returned, with the calls that had returned when it began.
Result  == [client : Clients, call : Nat, kind : Kinds, tag : Tag, val : Values,
            before : SUBSET CallId]

Id(r) == <<r.client, r.call>>

\* Call x had returned when the call with result r began.
Precedes(x, r) == Id(x) \in r.before

\* A result without its tag, which the register knows nothing of.
Brief(r) == [client |-> r.client, call |-> r.call, kind |-> r.kind,
             val |-> r.val, before |-> r.before]

\* What a call of this kind, writing or returning t, owes to an earlier one with u.
Exceeds(kind, t, u) == IF kind = "write" THEN t.z > u.z ELSE Newer(t, u)

\* A write writes its own payload, under a tag with the name of its client.
IsOwn(c, t) == t.id = c /\ t.z > 0

\* The values of a set of tagged values, and their order, that of the tags.
Vals(S) == {o.val : o \in S}
TagOrder(S) ==
    {<<q[1].val, q[2].val>> : q \in {x \in S \X S : Above(x[2].tag, x[1].tag)}}
===========================================================================
