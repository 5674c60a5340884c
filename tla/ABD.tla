-------------------------------- MODULE ABD --------------------------------
(***************************************************************************)
(* The ABD multi-writer register of COLAS: the server's handlers           *)
(* (src/src/abd/abd_server.c), the phases of a read and of a write         *)
(* (abd_reader.c, abd_writer.c, abd_client.c) and the DEALER/ROUTER        *)
(* sockets between them (baseprocess/client.c, baseprocess/server.c).      *)
(*                                                                         *)
(* One object is modelled: the daemons use only "atomic_object".  A server *)
(* has one worker thread, so a handler is one step.  A client process runs *)
(* one operation at a time and blocks in zmq_poll without a timeout.       *)
(* Every pair of a client and a server is joined by a FIFO channel in each *)
(* direction that lives as long as the client process: a reply that the    *)
(* client does not consume in one phase is still there in the next ones.   *)
(***************************************************************************)
EXTENDS Calls

GET_TAG       == "GET_TAG"
GET_TAG_VALUE == "GET_TAG_VALUE"
WRITE_VALUE   == "WRITE_VALUE"
GetPhases     == {GET_TAG, GET_TAG_VALUE}
Phases        == GetPhases \cup {WRITE_VALUE}

\* A get request has neither tag nor value; the model puts placeholders there.
GetRequest   == [phase : GetPhases, num : Nat, tag : {NoTag}, val : {InitVal}]
WriteRequest == [phase : {WRITE_VALUE}, num : Nat, tag : Tag, val : Values]
Answer       == [phase : Phases, num : Nat, tag : Tag, val : Values]

NoObject   == [tag |-> NoTag, val |-> InitVal]

VARIABLES
    store,      \* store[s]: hash_object_ABD of s, NoObject before any request
    toServer,   \* toServer[c][s]: requests sent by c and not yet handled by s
    toClient,   \* toClient[c][s]: replies sent by s and not yet read by c
    alive,      \* the client processes that were not killed
    call,       \* call[c]: how many calls of its script c has begun
    pc,         \* pc[c]: "idle", or the phase c is polling for
    responses,  \* responses[c]: replies counted in this phase
    tag,        \* tag[c]: the running maximum, then the tag being written
    val,        \* val[c]: the payload read with that maximum or being written
    before,     \* history: the calls that had returned when c's call began
    done        \* history: the results of the calls that have returned

vars == <<store, toServer, toClient, alive, call, pc, responses, tag, val,
          before, done>>
clientVars == <<alive, call, pc, responses, tag, val, before, done>>

Init ==
    /\ store     = [s \in Servers |-> NoObject]
    /\ toServer  = [c \in Clients |-> [s \in Servers |-> <<>>]]
    /\ toClient  = [c \in Clients |-> [s \in Servers |-> <<>>]]
    /\ alive     = Clients
    /\ call      = [c \in Clients |-> 0]
    /\ pc        = [c \in Clients |-> "idle"]
    /\ responses = [c \in Clients |-> 0]
    /\ tag       = [c \in Clients |-> NoTag]
    /\ val       = [c \in Clients |-> InitVal]
    /\ before    = [c \in Clients |-> {}]
    /\ done      = {}

---------------------------------------------------------------------------
\* The call client c is making.
Kind(c) == Script[c][call[c]].kind
Num(c)  == Script[c][call[c]].num

\* One copy of m to every server: a DEALER socket serves its peers in turn.
Multicast(c, m) ==
    toServer' = [toServer EXCEPT ![c] = [s \in Servers |-> Append(@[s], m)]]

---------------------------------------------------------------------------
(* The server. *)

\* The object a handler works on: algorithm_ABD creates a missing one first.
Stored(s) == IF store[s] = NoObject THEN InitObject ELSE store[s]

\* The ROUTER socket drops what is addressed to a process that is gone.
Reply(c, s, m) ==
    /\ toServer' = [toServer EXCEPT ![c][s] = Tail(@)]
    /\ toClient' = IF c \in alive
                     THEN [toClient EXCEPT ![c][s] = Append(@, m)]
                     ELSE toClient
    /\ UNCHANGED clientVars

ServeGetTag(c, s) ==
    /\ toServer[c][s] # <<>>
    /\ LET m == Head(toServer[c][s])
       IN  /\ m.phase = GET_TAG
           /\ store' = [store EXCEPT ![s] = Stored(s)]
           /\ Reply(c, s, Message(GET_TAG, m.num, Stored(s).tag, InitVal))

ServeGetTagValue(c, s) ==
    /\ toServer[c][s] # <<>>
    /\ LET m == Head(toServer[c][s])
       IN  /\ m.phase = GET_TAG_VALUE
           /\ store' = [store EXCEPT ![s] = Stored(s)]
           /\ Reply(c, s, Message(GET_TAG_VALUE, m.num, Stored(s).tag, Stored(s).val))

\* Faulty variants: the comparison forgotten, or its result taken the wrong way.
Overwrite_always(old, new) == new
Overwrite_swapped(old, new) == IF compare_tags(old.tag, new.tag) = 1 THEN new ELSE old

\* What WRITE_VALUE leaves in the server: it stores only on a result of -1.
Overwrite(old, new) == IF compare_tags(old.tag, new.tag) = -1 THEN new ELSE old

\* A faulty variant: only a value that was taken is acknowledged.
ServeWriteValue_silent(c, s) ==
    /\ toServer[c][s] # <<>>
    /\ LET m == Head(toServer[c][s])
       IN  /\ m.phase = WRITE_VALUE
           /\ store' = [store EXCEPT
                          ![s] = Overwrite(Stored(s), [tag |-> m.tag, val |-> m.val])]
           /\ IF compare_tags(Stored(s).tag, m.tag) = -1
                THEN Reply(c, s, Message(WRITE_VALUE, m.num, m.tag, InitVal))
                ELSE /\ toServer' = [toServer EXCEPT ![c][s] = Tail(@)]
                     /\ UNCHANGED <<toClient, alive, call, pc, responses, tag, val,
                                    before, done>>

\* Acknowledged whether or not the value was taken ("SENT BEHIND").
ServeWriteValue(c, s) ==
    /\ toServer[c][s] # <<>>
    /\ LET m == Head(toServer[c][s])
       IN  /\ m.phase = WRITE_VALUE
           /\ store' = [store EXCEPT
                          ![s] = Overwrite(Stored(s), [tag |-> m.tag, val |-> m.val])]
           /\ Reply(c, s, Message(WRITE_VALUE, m.num, m.tag, InitVal))

Serve(c, s) == ServeGetTag(c, s) \/ ServeGetTagValue(c, s) \/ ServeWriteValue(c, s)

---------------------------------------------------------------------------
(* The clients. *)

\* ABD_read and ABD_write up to the first poll of their first phase.
Begin(c) ==
    /\ c \in alive
    /\ pc[c] = "idle"
    /\ call[c] < Len(Script[c])
    /\ LET next  == Script[c][call[c] + 1]
           phase == IF next.kind = "read" THEN GET_TAG_VALUE ELSE GET_TAG
       IN  /\ pc' = [pc EXCEPT ![c] = phase]
           /\ Multicast(c, Message(phase, next.num, NoTag, InitVal))
           /\ val' = [val EXCEPT ![c] = IF next.kind = "read" THEN InitVal
                                                      ELSE <<c, call[c] + 1>>]
    /\ call'      = [call EXCEPT ![c] = @ + 1]
    /\ responses' = [responses EXCEPT ![c] = 0]
    /\ tag'       = [tag EXCEPT ![c] = NoTag]
    /\ before'    = [before EXCEPT ![c] = {Id(r) : r \in done}]
    /\ UNCHANGED <<store, toClient, alive, done>>

\* zmsg_recv of one reply by a client that polls.
Receive(c, s) ==
    /\ c \in alive
    /\ pc[c] # "idle"
    /\ toClient[c][s] # <<>>
    /\ toClient' = [toClient EXCEPT ![c][s] = Tail(@)]
    /\ UNCHANGED <<store, alive, call, before>>

\* Faulty variant: the phase of a reply is not looked at.
Counts_any_phase(c, m) == m.num = Num(c)

\* The test of each phase's loop: the round and the phase, not the server.
Counts(c, m) == m.num = Num(c) /\ m.phase = pc[c]

OldMessage(c, s) ==
    /\ Receive(c, s)
    /\ ~Counts(c, Head(toClient[c][s]))
    /\ UNCHANGED <<toServer, pc, responses, tag, val, done>>

\* A faulty variant: a read keeps the last reply instead of the newest.
NewMax_last(c, m) ==
    IF pc[c] = GET_TAG_VALUE
      THEN [tag |-> m.tag, val |-> m.val]
      ELSE [tag |-> MaxTagStep(tag[c], m.tag), val |-> val[c]]

\* The running maximum after reply m; a read keeps the payload that came with it.
NewMax(c, m) ==
    IF pc[c] = GET_TAG_VALUE
      THEN IF compare_tag_ptrs(tag[c], m.tag) < 0
             THEN [tag |-> m.tag, val |-> m.val]
             ELSE [tag |-> tag[c], val |-> val[c]]
      ELSE [tag |-> MaxTagStep(tag[c], m.tag), val |-> val[c]]

\* A reply of a get phase that does not complete the majority.
CountGet(c, s) ==
    LET m == Head(toClient[c][s])
    IN  /\ Receive(c, s)
        /\ pc[c] \in GetPhases /\ Counts(c, m)
        /\ responses[c] + 1 < Majority(Cardinality(Servers))
        /\ responses' = [responses EXCEPT ![c] = @ + 1]
        /\ tag' = [tag EXCEPT ![c] = NewMax(c, m).tag]
        /\ val' = [val EXCEPT ![c] = NewMax(c, m).val]
        /\ UNCHANGED <<toServer, pc, done>>

\* A faulty variant: the tag keeps the old writer's name.
TagToWrite_same_id(c, max) ==
    IF Kind(c) = "write" THEN [z |-> max.z + 1, id |-> max.id] ELSE max

\* The tag the second phase writes: a writer takes the next one for itself.
TagToWrite(c, max) ==
    IF Kind(c) = "write" THEN [z |-> max.z + 1, id |-> c] ELSE max

\* The reply that completes the majority, and the multicast that follows.
EndGet(c, s) ==
    LET m   == Head(toClient[c][s])
        new == NewMax(c, m)
        t   == TagToWrite(c, new.tag)
    IN  /\ Receive(c, s)
        /\ pc[c] \in GetPhases /\ Counts(c, m)
        /\ responses[c] + 1 >= Majority(Cardinality(Servers))
        /\ pc' = [pc EXCEPT ![c] = WRITE_VALUE]
        /\ responses' = [responses EXCEPT ![c] = 0]
        /\ tag' = [tag EXCEPT ![c] = t]
        /\ val' = [val EXCEPT ![c] = new.val]
        /\ Multicast(c, Message(WRITE_VALUE, Num(c), t, new.val))
        /\ UNCHANGED done

\* A faulty variant: an acknowledgement is counted twice.
CountAck_twice(c, s) ==
    /\ Receive(c, s)
    /\ pc[c] = WRITE_VALUE /\ Counts(c, Head(toClient[c][s]))
    /\ responses[c] + 1 < Majority(Cardinality(Servers))
    /\ responses' = [responses EXCEPT ![c] = @ + 2]
    /\ UNCHANGED <<toServer, pc, tag, val, done>>

CountAck(c, s) ==
    /\ Receive(c, s)
    /\ pc[c] = WRITE_VALUE /\ Counts(c, Head(toClient[c][s]))
    /\ responses[c] + 1 < Majority(Cardinality(Servers))
    /\ responses' = [responses EXCEPT ![c] = @ + 1]
    /\ UNCHANGED <<toServer, pc, tag, val, done>>

\* The acknowledgement that completes the majority: the call returns.
Return(c, s) ==
    /\ Receive(c, s)
    /\ pc[c] = WRITE_VALUE /\ Counts(c, Head(toClient[c][s]))
    /\ responses[c] + 1 >= Majority(Cardinality(Servers))
    /\ pc' = [pc EXCEPT ![c] = "idle"]
    /\ responses' = [responses EXCEPT ![c] = 0]
    /\ done' = done \cup {[client |-> c, call |-> call[c], kind |-> Kind(c),
                           tag |-> tag[c], val |-> val[c], before |-> before[c]]}
    /\ UNCHANGED <<toServer, tag, val>>

(***************************************************************************)
(* The process is killed (KillSelf, a signal in zmq_poll).  The sockets    *)
(* send in the background, so what each server will still get is a prefix  *)
(* of what was handed to the socket, another one for each server.          *)
(***************************************************************************)
Crash(c) ==
    /\ c \in alive \cap Mortal
    /\ alive' = alive \ {c}
    /\ \E kept \in [Servers -> UNION {0 .. Len(toServer[c][s]) : s \in Servers}] :
          /\ \A s \in Servers : kept[s] <= Len(toServer[c][s])
          /\ toServer' = [toServer EXCEPT
                            ![c] = [s \in Servers |-> SubSeq(@[s], 1, kept[s])]]
    /\ toClient' = [toClient EXCEPT ![c] = [s \in Servers |-> <<>>]]
    /\ UNCHANGED <<store, call, pc, responses, tag, val, before, done>>

ClientStep(c) ==
    \/ Begin(c)
    \/ \E s \in Servers : OldMessage(c, s) \/ CountGet(c, s) \/ EndGet(c, s)
                            \/ CountAck(c, s) \/ Return(c, s)

Next ==
    \/ \E c \in Clients : ClientStep(c) \/ Crash(c)
    \/ \E c \in Clients, s \in Servers : Serve(c, s)

Spec == Init /\ [][Next]_vars

(***************************************************************************)
(* The servers in live keep handling requests; a client process that is    *)
(* not killed keeps running its loop.  Nothing is assumed of the others.   *)
(***************************************************************************)
Fairness(live) ==
    /\ \A c \in Clients : WF_vars(ClientStep(c))
    /\ \A c \in Clients, s \in live : WF_vars(Serve(c, s))

---------------------------------------------------------------------------
(* Properties. *)

(***************************************************************************)
(* The types: a request or an answer with a value has a real tag, so does  *)
(* what a client is writing, and the count of a phase stays below the      *)
(* majority between two steps.                                             *)
(***************************************************************************)
TypeOK ==
    /\ store \in [Servers -> Object \cup {NoObject}]
    /\ toServer \in [Clients -> [Servers -> Seq(GetRequest \cup WriteRequest)]]
    /\ toClient \in [Clients -> [Servers -> Seq(Answer)]]
    /\ alive \subseteq Clients
    /\ call \in [Clients -> Nat]
    /\ pc \in [Clients -> Phases \cup {"idle"}]
    /\ responses \in [Clients -> 0 .. Majority(Cardinality(Servers)) - 1]
    /\ tag \in [Clients -> Tag \cup {NoTag}]
    /\ val \in [Clients -> Values]
    /\ before \in [Clients -> SUBSET CallId]
    /\ done \subseteq Result
    /\ \A c \in Clients :
          /\ call[c] <= Len(Script[c])
          /\ pc[c] # "idle" => call[c] > 0
          /\ pc[c] = WRITE_VALUE => tag[c] \in Tag

(***************************************************************************)
(* No later call goes back in z: a read returns, and a write exceeds, the  *)
(* counter of every call that had returned when it began.  Holds whatever  *)
(* strcmp returns, since z is compared before the names.                   *)
(***************************************************************************)
CounterOrder ==
    \A x, r \in done : Precedes(x, r) =>
       IF r.kind = "write" THEN x.tag.z < r.tag.z ELSE x.tag.z <= r.tag.z

(***************************************************************************)
(* A call never misses a write that had returned when it began.  Weaker    *)
(* than atomicity: it says nothing of two reads one after the other.       *)
(***************************************************************************)
Regular ==
    \A x, r \in done :
       Precedes(x, r) /\ x.kind = "write" => AtLeast(r.tag, x.tag)

\* The servers whose object is at least as new as t.
Holders(t) == {s \in Servers : AtLeast(Stored(s).tag, t)}

(***************************************************************************)
(* What a call returned or wrote stays at a majority of the servers for    *)
(* good: the write-back of a read has done its work when the read returns. *)
(***************************************************************************)
Durable ==
    \A r \in done : Cardinality(Holders(r.tag)) >= Majority(Cardinality(Servers))

\* The tagged values that some write chose, and the initial one.
Chosen ==
    {InitObject}
      \cup {[tag |-> tag[c], val |-> val[c]] :
               c \in {x \in Clients : pc[x] = WRITE_VALUE /\ Kind(x) = "write"}}
      \cup {[tag |-> r.tag, val |-> r.val] : r \in {x \in done : x.kind = "write"}}

\* The tagged values at the servers, under way to them or back, and read.
Carried ==
    {Stored(s) : s \in Servers}
      \cup (UNION {{[tag |-> q[i].tag, val |-> q[i].val] :
                        i \in {j \in DOMAIN q : q[j].phase = WRITE_VALUE}} :
                     q \in {toServer[c][s] : c \in Clients, s \in Servers}})
      \cup (UNION {{[tag |-> q[i].tag, val |-> q[i].val] :
                        i \in {j \in DOMAIN q : q[j].phase = GET_TAG_VALUE}} :
                     q \in {toClient[c][s] : c \in Clients, s \in Servers}})
      \cup {[tag |-> r.tag, val |-> r.val] : r \in done}

(***************************************************************************)
(* A tag stands for one value: no two writes choose the same tag, and a    *)
(* value never travels with another tag than the one its write chose.      *)
(***************************************************************************)
TagDeterminesValue ==
    /\ \A o, p \in Chosen : o.tag = p.tag <=> o.val = p.val
    /\ Carried \subseteq Chosen

\* The servers whose reply of c's phase has been counted or lost.
Answered(c) ==
    {s \in Servers :
       /\ \A i \in DOMAIN toServer[c][s] : ~Counts(c, toServer[c][s][i])
       /\ \A i \in DOMAIN toClient[c][s] : ~Counts(c, toClient[c][s][i])}

(***************************************************************************)
(* The clients count messages, not servers.  A majority of messages is a   *)
(* majority of servers as long as every message counted comes from another *)
(* server and belongs to this phase.                                       *)
(***************************************************************************)
CountsServers ==
    \A c \in alive : pc[c] # "idle" => responses[c] = Cardinality(Answered(c))

---------------------------------------------------------------------------
(***************************************************************************)
(* The atomic register that ABD implements: a write enters the order when  *)
(* its tag is chosen, and the order of the values is that of their tags.   *)
(***************************************************************************)
Register == INSTANCE AtomicRegister WITH
    busy   <- {c \in Clients : pc[c] # "idle"},
    values <- Vals(Chosen),
    prior  <- TagOrder(Chosen),
    done   <- {Brief(r) : r \in done}

(***************************************************************************)
(* Every step of ABD is a step of the atomic register or changes nothing   *)
(* of it.                                                                  *)
(***************************************************************************)
ImplementsRegister == Register!Spec

(***************************************************************************)
(* Atomicity of the values the calls returned, stated without tags.        *)
(***************************************************************************)
Atomicity == Register!Linearizable
===========================================================================
