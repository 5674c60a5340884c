------------------------------- MODULE SODAW -------------------------------
(***************************************************************************)
(* The SODAW register of COLAS, in which every server keeps one coded      *)
(* element of the value: the server's handlers and tables                  *)
(* (src/src/sodaw/sodaw_server.c) and the phases of a read and of a write  *)
(* (sodaw_client.c, sodaw_reader.c, sodaw_writer.c).                       *)
(*                                                                         *)
(* A reader registers at the servers, which send it their element and      *)
(* those of later writes until it has enough of one tag to decode.  Each   *)
(* server tells all servers (itself included, over the network) of every   *)
(* element it sends; a server that knows of K elements of one tag for a    *)
(* reader forgets the reader.                                              *)
(*                                                                         *)
(* Server s sends and stores only element s of a coded value, so that an   *)
(* element is the value together with its server.                          *)
(***************************************************************************)
EXTENDS Calls, Bags, SequencesExt

WRITE_GET  == "WRITE_GET"
READ_GET   == "READ_GET"
WRITE_PUT  == "WRITE_PUT"
READ_VALUE == "READ_VALUE"
READ_COMPLETE == "READ_COMPLETE"
GetPhases  == {WRITE_GET, READ_GET}
Phases     == GetPhases \cup {WRITE_PUT, READ_VALUE}

\* READ_VALUE after its K elements are there: it empties the socket and goes on.
DRAIN == "DRAIN"

K == Majority(Cardinality(Servers))

\* The table of readers of a server is a finite one.
ASSUME ReadersAssumption == IsFiniteSet(Clients)

\* Fields that a phase does not send hold NoTag and InitVal.
GetRequest == [phase : GetPhases, num : Nat, tag : {NoTag}, val : {InitVal}]
TagRequest == [phase : {WRITE_PUT, READ_VALUE, READ_COMPLETE}, num : Nat, tag : Tag,
               val : Values]
Request  == GetRequest \cup TagRequest
Answer   == [phase : Phases, num : Nat, tag : Tag, val : Values]
Element  == [server : Servers, tag : Tag, val : Values]
Dispersal == [reader : Clients, num : Nat, tag : Tag]
History  == [reader : Clients, num : Nat, tag : Tag, sender : Servers]

\* No entry in a table: an operation number below every other.
Absent        == -1
NotRegistered == [num |-> Absent, tag |-> NoTag]

VARIABLES
    store,      \* store[s]: the tag of hash_object_SODAW and the value coded there
    reading,    \* reading[s][c]: reading_table of s, the registration of c
    readed,     \* readed[s][c]: readed_table of s, c's last served operation
    history,    \* history[s]: history_table of s, who sent what to whom
    toServer,   \* toServer[c][s]: requests sent by c and not yet handled by s
    toPeer,     \* toPeer[s][t]: dispersals sent by s and not yet handled by t
    toClient,   \* toClient[c][s]: messages sent by s and not yet read by c
    alive,      \* the client processes that were not killed
    call,       \* call[c]: how many calls of its script c has begun
    pc,         \* pc[c]: "idle", the phase c is polling for, or DRAIN
    responses,  \* responses[c]: replies counted in this phase
    tag,        \* tag[c]: the running maximum, then the tag to write or read
    elements,   \* elements[c]: the bag of elements collected by a read
    before,     \* history: the calls that had returned when c's call began
    done        \* history: the results of the calls that have returned

tables     == <<reading, readed, history>>
clientVars == <<alive, call, pc, responses, tag, elements, before, done>>
vars       == <<store, tables, toServer, toPeer, toClient, clientVars>>

Empty == [c \in Clients |-> [s \in Servers |-> <<>>]]

\* The object that a first request would create is there from the start.
Init ==
    /\ store     = [s \in Servers |-> InitObject]
    /\ reading   = [s \in Servers |-> [c \in Clients |-> NotRegistered]]
    /\ readed    = [s \in Servers |-> [c \in Clients |-> Absent]]
    /\ history   = [s \in Servers |-> {}]
    /\ toServer  = Empty
    /\ toPeer    = [s \in Servers |-> [t \in Servers |-> <<>>]]
    /\ toClient  = Empty
    /\ alive     = Clients
    /\ call      = [c \in Clients |-> 0]
    /\ pc        = [c \in Clients |-> "idle"]
    /\ responses = [c \in Clients |-> 0]
    /\ tag       = [c \in Clients |-> NoTag]
    /\ elements  = [c \in Clients |-> EmptyBag]
    /\ before    = [c \in Clients |-> {}]
    /\ done      = {}

---------------------------------------------------------------------------
\* The call client c is making, and the value it writes if it is a write.
Kind(c) == Script[c][call[c]].kind
Num(c)  == Script[c][call[c]].num
Own(c)  == <<c, call[c]>>

Multicast(c, m) ==
    toServer' = [toServer EXCEPT ![c] = [s \in Servers |-> Append(@[s], m)]]

---------------------------------------------------------------------------
(* The server. *)

\* The next request of c at s.
NextOf(c, s) == Head(toServer[c][s])
Take(c, s, phase) ==
    /\ toServer[c][s] # <<>>
    /\ NextOf(c, s).phase = phase
    /\ toServer' = [toServer EXCEPT ![c][s] = Tail(@)]
    /\ UNCHANGED clientVars

\* s sends out[r] to each client r; nothing reaches a process that is gone.
Deliver(s, out) ==
    toClient' = [r \in Clients |->
                   IF r \in alive THEN [toClient[r] EXCEPT ![s] = @ \o out[r]]
                                  ELSE toClient[r]]

ReplyTo(c, m) == [r \in Clients |-> IF r = c THEN <<m>> ELSE <<>>]

\* s tells every server of the elements with tag t that it sends to readers.
\* The order of the readers is that of the hash table.
Disperse(s, readers, t) ==
    LET news == SetToSeq({[reader |-> r, num |-> reading'[s][r].num, tag |-> t] : r \in readers})
    IN  toPeer' = [toPeer EXCEPT ![s] = [p \in Servers |-> @[p] \o news]]

\* WRITE_GET and READ_GET.
ServeGet(c, s) ==
    /\ \E phase \in GetPhases : Take(c, s, phase)
    /\ LET m == NextOf(c, s)
       IN  Deliver(s, ReplyTo(c, Message(m.phase, m.num, store[s].tag, InitVal)))
    /\ UNCHANGED <<store, tables, toPeer>>

\* Faulty variants: an element of any tag, or only one of a newer tag, will do.
Wants_any(s, r, t)   == reading'[s][r] # NotRegistered
Wants_newer(s, r, t) ==
    reading'[s][r] # NotRegistered /\ compare_tags(t, reading'[s][r].tag) > 0

\* r is registered at s, and the tag t is not older than the one it asked for.
Wants(s, r, t) ==
    reading'[s][r] # NotRegistered /\ compare_tags(t, reading'[s][r].tag) >= 0

ElementFor(s, r, o) == Message(READ_VALUE, reading'[s][r].num, o.tag, o.val)

\* A newer value is stored and passed on to the registered readers.
ServeWritePut(c, s) ==
    /\ Take(c, s, WRITE_PUT)
    /\ UNCHANGED tables
    /\ LET m       == NextOf(c, s)
           new     == [tag |-> m.tag, val |-> m.val]
           newer   == compare_tags(m.tag, store[s].tag) > 0
           readers == {r \in Clients : newer /\ Wants(s, r, m.tag)}
           ack     == ReplyTo(c, Message(WRITE_PUT, m.num, m.tag, InitVal))
       IN  /\ store' = [store EXCEPT ![s] = IF newer THEN new ELSE @]
           /\ Disperse(s, readers, m.tag)
           /\ Deliver(s, [r \in Clients |->
                            IF r \in readers THEN <<ElementFor(s, r, new)>> \o ack[r]
                                             ELSE ack[r]])

\* Faulty variant: that the operation is over is looked up in one table only.
Outdated_reading(s, r, num) == reading[s][r].num > num

\* The tables of s already know of a later operation of r, or of the end of this.
Outdated(s, r, num) == readed[s][r] >= num \/ reading[s][r].num > num

\* The reader registers, and is sent the element stored here if that is new enough.
ServeReadValue(c, s) ==
    /\ Take(c, s, READ_VALUE)
    /\ UNCHANGED <<store, history>>
    /\ LET m       == NextOf(c, s)
           readers == {r \in {c} : Wants(s, c, store[s].tag)}
       IN  IF Outdated(s, c, m.num)
             THEN UNCHANGED <<reading, readed, toPeer, toClient>>
             ELSE /\ reading' = [reading EXCEPT ![s][c] = [num |-> m.num, tag |-> m.tag]]
                  /\ readed' = [readed EXCEPT ![s][c] = Absent]
                  /\ Disperse(s, readers, store[s].tag)
                  /\ Deliver(s, [r \in Clients |->
                                   IF r \in readers THEN <<ElementFor(s, r, store[s])>>
                                                    ELSE <<>>])

\* r's operation num is over at s: no more registration, no history up to it.
Forget(s, r, num, his) ==
    /\ reading' = [reading EXCEPT ![s][r] = NotRegistered]
    /\ readed'  = [readed EXCEPT ![s][r] = num]
    /\ history' = [history EXCEPT ![s] = {h \in his : h.reader = r => h.num > num}]

ServeReadComplete(c, s) ==
    /\ Take(c, s, READ_COMPLETE)
    /\ LET m == NextOf(c, s)
       IN  IF Outdated(s, c, m.num) THEN UNCHANGED tables
                                    ELSE Forget(s, c, m.num, history[s])
    /\ UNCHANGED <<store, toPeer, toClient>>

\* Faulty variant: elements of different tags are counted together.
historydata_lookup_any(his, r, num, t) == {h \in his : h.reader = r /\ h.num = num}

historydata_lookup(his, r, num, t) ==
    {h \in his : h.reader = r /\ h.num = num /\ h.tag = t}

\* A dispersal of server p: with the K-th of one tag the reader has been served.
ServeReadDisperse(p, s) ==
    /\ toPeer[p][s] # <<>>
    /\ toPeer' = [toPeer EXCEPT ![p][s] = Tail(@)]
    /\ LET m   == Head(toPeer[p][s])
           his == history[s] \cup {[reader |-> m.reader, num |-> m.num, tag |-> m.tag,
                                    sender |-> p]}
           set == historydata_lookup(his, m.reader, m.num, m.tag)
       IN  CASE Outdated(s, m.reader, m.num) -> UNCHANGED tables
             [] ~Outdated(s, m.reader, m.num) /\ Cardinality(set) >= K ->
                  Forget(s, m.reader, m.num, his)
             [] OTHER -> /\ history' = [history EXCEPT ![s] = his]
                         /\ UNCHANGED <<reading, readed>>
    /\ UNCHANGED <<store, toServer, toClient, clientVars>>

Serve(c, s) ==
    ServeGet(c, s) \/ ServeWritePut(c, s) \/ ServeReadValue(c, s) \/ ServeReadComplete(c, s)

---------------------------------------------------------------------------
(* The clients. *)

\* SODAW_read and SODAW_write up to the first poll of their get phase.
Begin(c) ==
    /\ c \in alive
    /\ pc[c] = "idle"
    /\ call[c] < Len(Script[c])
    /\ LET next  == Script[c][call[c] + 1]
           phase == IF next.kind = "read" THEN READ_GET ELSE WRITE_GET
       IN  /\ pc' = [pc EXCEPT ![c] = phase]
           /\ Multicast(c, Message(phase, next.num, NoTag, InitVal))
    /\ call'      = [call EXCEPT ![c] = @ + 1]
    /\ responses' = [responses EXCEPT ![c] = 0]
    /\ tag'       = [tag EXCEPT ![c] = NoTag]
    /\ elements'  = [elements EXCEPT ![c] = EmptyBag]
    /\ before'    = [before EXCEPT ![c] = {Id(r) : r \in done}]
    /\ UNCHANGED <<store, tables, toPeer, toClient, alive, done>>

Receive(c, s) ==
    /\ c \in alive
    /\ pc[c] # "idle"
    /\ toClient[c][s] # <<>>
    /\ toClient' = [toClient EXCEPT ![c][s] = Tail(@)]
    /\ UNCHANGED <<store, tables, toPeer, alive, call, before>>

\* A message of the operation and the phase that c is in.
Counts(c, m) == m.num = Num(c) /\ m.phase = pc[c]

\* Read and thrown away; while draining, all of them are.
OldMessage(c, s) ==
    /\ Receive(c, s)
    /\ ~Counts(c, Head(toClient[c][s]))
    /\ UNCHANGED <<toServer, pc, responses, tag, elements, done>>

\* A reply of the get phase.  Those that come after the majority count as well.
CountGet(c, s) ==
    LET m == Head(toClient[c][s])
    IN  /\ Receive(c, s)
        /\ pc[c] \in GetPhases /\ Counts(c, m)
        /\ responses' = [responses EXCEPT ![c] = @ + 1]
        /\ tag' = [tag EXCEPT ![c] = MaxTagStep(@, m.tag)]
        /\ UNCHANGED <<toServer, pc, elements, done>>

\* Faulty variant: the name in the maximum is not replaced.
TagToWrite_same_id(c) == [tag[c] EXCEPT !.z = @ + 1]

TagToWrite(c) == [z |-> tag[c].z + 1, id |-> c]

\* A poll that times out after the majority: the next phase begins.
EndGet(c) ==
    /\ c \in alive
    /\ pc[c] \in GetPhases
    /\ responses[c] >= K
    /\ responses' = [responses EXCEPT ![c] = 0]
    /\ IF pc[c] = WRITE_GET
         THEN /\ pc' = [pc EXCEPT ![c] = WRITE_PUT]
              /\ tag' = [tag EXCEPT ![c] = TagToWrite(c)]
              /\ Multicast(c, Message(WRITE_PUT, Num(c), TagToWrite(c), Own(c)))
         ELSE /\ pc' = [pc EXCEPT ![c] = READ_VALUE]
              /\ Multicast(c, Message(READ_VALUE, Num(c), tag[c], InitVal))
              /\ UNCHANGED tag
    /\ UNCHANGED <<store, tables, toPeer, toClient, alive, call, elements, before, done>>

\* Faulty variant: one acknowledgement too many is waited for.
CountPut_beyond(c, s) ==
    /\ Receive(c, s)
    /\ pc[c] = WRITE_PUT /\ Counts(c, Head(toClient[c][s]))
    /\ responses[c] + 1 <= K
    /\ responses' = [responses EXCEPT ![c] = @ + 1]
    /\ UNCHANGED <<toServer, pc, tag, elements, done>>

\* An acknowledgement of WRITE_PUT that does not complete the majority.
CountPut(c, s) ==
    /\ Receive(c, s)
    /\ pc[c] = WRITE_PUT /\ Counts(c, Head(toClient[c][s]))
    /\ responses[c] + 1 < K
    /\ responses' = [responses EXCEPT ![c] = @ + 1]
    /\ UNCHANGED <<toServer, pc, tag, elements, done>>

\* The call of c returns, having written or read value v with tag t.
Return(c, t, v) ==
    /\ pc' = [pc EXCEPT ![c] = "idle"]
    /\ responses' = [responses EXCEPT ![c] = 0]
    /\ elements' = [elements EXCEPT ![c] = EmptyBag]
    /\ done' = done \cup {[client |-> c, call |-> call[c], kind |-> Kind(c),
                           tag |-> t, val |-> v, before |-> before[c]]}
    /\ UNCHANGED tag

EndPut(c, s) ==
    /\ Receive(c, s)
    /\ pc[c] = WRITE_PUT /\ Counts(c, Head(toClient[c][s]))
    /\ responses[c] + 1 >= K
    /\ Return(c, tag[c], Own(c))
    /\ UNCHANGED toServer

\* Faulty variant: elements of different tags go to one list.
Copies_any(b, t) == BagCardinality(b)

\* The elements of the tag t in the bag b, with repetitions.
Copies(b, t) ==
    Cardinality(UNION {{e} \X (1 .. b[e]) : e \in {x \in DOMAIN b : x.tag = t}})

\* An element for this read.  The K-th message with one tag ends the collection.
Collect(c, s) ==
    LET m   == Head(toClient[c][s])
        bag == elements[c] (+) SetToBag({[server |-> s, tag |-> m.tag, val |-> m.val]})
    IN  /\ Receive(c, s)
        /\ pc[c] = READ_VALUE /\ Counts(c, m)
        /\ elements' = [elements EXCEPT ![c] = bag]
        /\ pc' = [pc EXCEPT ![c] = IF Copies(bag, m.tag) >= K THEN DRAIN ELSE @]
        /\ UNCHANGED <<toServer, responses, tag, done>>

\* What the read decodes: decodeableKey, and the elements collected for it.
Decoded(c) == {e \in DOMAIN elements[c] : Copies(elements[c], e.tag) >= K}

\* A poll that times out: the elements are decoded, the servers told, the call returns.
EndRead(c) ==
    /\ c \in alive
    /\ pc[c] = DRAIN
    /\ \E e \in Decoded(c) : Return(c, e.tag, e.val)
    /\ Multicast(c, Message(READ_COMPLETE, Num(c), tag[c], InitVal))
    /\ UNCHANGED <<store, tables, toPeer, toClient, alive, call, before>>

\* The process is killed.  What each server will still get is a prefix of what was sent.
Crash(c) ==
    /\ c \in alive \cap Mortal
    /\ alive' = alive \ {c}
    /\ \E kept \in [Servers -> UNION {0 .. Len(toServer[c][s]) : s \in Servers}] :
          /\ \A s \in Servers : kept[s] <= Len(toServer[c][s])
          /\ toServer' = [toServer EXCEPT
                            ![c] = [s \in Servers |-> SubSeq(@[s], 1, kept[s])]]
    /\ toClient' = [toClient EXCEPT ![c] = [s \in Servers |-> <<>>]]
    /\ UNCHANGED <<store, tables, toPeer, call, pc, responses, tag, elements, before, done>>

ClientStep(c) ==
    \/ Begin(c) \/ EndGet(c) \/ EndRead(c)
    \/ \E s \in Servers : OldMessage(c, s) \/ CountGet(c, s) \/ CountPut(c, s)
                            \/ EndPut(c, s) \/ Collect(c, s)

Next ==
    \/ \E c \in Clients : ClientStep(c) \/ Crash(c)
    \/ \E c \in Clients, s \in Servers : Serve(c, s)
    \/ \E p, s \in Servers : ServeReadDisperse(p, s)

Spec == Init /\ [][Next]_vars

(***************************************************************************)
(* The servers in live keep handling what clients and servers send them; a *)
(* client process that is not killed keeps running its loop.               *)
(***************************************************************************)
Fairness(live) ==
    /\ \A c \in Clients : WF_vars(ClientStep(c))
    /\ \A c \in Clients, s \in live : WF_vars(Serve(c, s))
    /\ \A p \in Servers, s \in live : WF_vars(ServeReadDisperse(p, s))

---------------------------------------------------------------------------
(* Properties. *)

Types ==
    /\ store \in [Servers -> Object]
    /\ reading \in [Servers -> [Clients -> [num : Nat, tag : Tag] \cup {NotRegistered}]]
    /\ readed \in [Servers -> [Clients -> Nat \cup {Absent}]]
    /\ history \in [Servers -> SUBSET History]
    /\ toServer \in [Clients -> [Servers -> Seq(Request)]]
    /\ toPeer \in [Servers -> [Servers -> Seq(Dispersal)]]
    /\ toClient \in [Clients -> [Servers -> Seq(Answer)]]
    /\ alive \subseteq Clients
    /\ call \in [Clients -> Nat]
    /\ pc \in [Clients -> Phases \cup {"idle", DRAIN}]
    /\ responses \in [Clients -> Nat]
    /\ tag \in [Clients -> Tag \cup {NoTag}]
    /\ elements = [c \in Clients |-> elements[c]]
    /\ \A c \in Clients : IsABag(elements[c]) /\ DOMAIN elements[c] \subseteq Element
    /\ before \in [Clients -> SUBSET CallId]
    /\ done \subseteq Result
    /\ \A c \in Clients :
          /\ call[c] <= Len(Script[c])
          /\ pc[c] # "idle" => call[c] > 0
          /\ pc[c] \in {WRITE_PUT, READ_VALUE, DRAIN} \/ responses[c] > 0 => tag[c] \in Tag
          /\ pc[c] \notin GetPhases => responses[c] < K

\* The get phases wait for more than they need, but no server answers twice.
TypeOK == Types /\ \A c \in Clients : responses[c] <= Cardinality(Servers)

\* The elements sent for c's read, collected already or still in the channels.
Sent(c) ==
    {[server |-> e.server, tag |-> e.tag] : e \in DOMAIN elements[c]}
      \cup (UNION {{[server |-> s, tag |-> toClient[c][s][i].tag] :
                        i \in {j \in DOMAIN toClient[c][s] : Counts(c, toClient[c][s][j])}} :
                     s \in Servers})

(***************************************************************************)
(* A server forgets a reader only if the reader can decode without it: K   *)
(* servers have sent it the elements of one tag.                           *)
(***************************************************************************)
ForgottenIsServed ==
    \A c \in alive, s \in Servers :
       pc[c] = READ_VALUE /\ readed[s][c] >= Num(c) =>
          \E x \in Sent(c) : Cardinality({y \in Sent(c) : y.tag = x.tag}) >= K

(***************************************************************************)
(* What is decoded are elements of K servers, of one value, and none is    *)
(* the initial payload, which is not coded.  The code counts messages.     *)
(***************************************************************************)
Decodable ==
    \A c \in Clients : pc[c] = DRAIN =>
       /\ Cardinality({e.server : e \in Decoded(c)}) >= K
       /\ \A e, f \in Decoded(c) : e.tag = f.tag /\ e.val = f.val
       /\ \A e \in Decoded(c) : e.val # InitVal

(***************************************************************************)
(* The assertion in SODAW_read_value: no element sent for a read is older  *)
(* than the tag it asked for.                                              *)
(***************************************************************************)
NotOlderThanAsked ==
    \A c \in alive, s \in Servers :
       \A i \in DOMAIN toClient[c][s] :
          pc[c] = READ_VALUE /\ Counts(c, toClient[c][s][i])
             => compare_tags(toClient[c][s][i].tag, tag[c]) >= 0

(***************************************************************************)
(* Once all is quiet, no table holds anything of a read that has returned. *)
(***************************************************************************)
Quiet ==
    /\ pc = [c \in Clients |-> "idle"]
    /\ toServer = Empty
    /\ toPeer = [s \in Servers |-> [t \in Servers |-> <<>>]]

TablesEmptied ==
    Quiet => /\ history = [s \in Servers |-> {}]
             /\ reading = [s \in Servers |-> [c \in Clients |-> NotRegistered]]

---------------------------------------------------------------------------
\* The tagged values that some write chose, and the initial one.
Chosen ==
    {InitObject}
      \cup {[tag |-> tag[c], val |-> Own(c)] : c \in {x \in Clients : pc[x] = WRITE_PUT}}
      \cup {[tag |-> r.tag, val |-> r.val] : r \in {x \in done : x.kind = "write"}}

(***************************************************************************)
(* The atomic register that SODAW implements, with the order of the tags.  *)
(***************************************************************************)
Register == INSTANCE AtomicRegister WITH
    busy   <- {c \in Clients : pc[c] # "idle"},
    values <- Vals(Chosen),
    prior  <- TagOrder(Chosen),
    done   <- {Brief(r) : r \in done}

(***************************************************************************)
(* Every step of SODAW is a step of the atomic register or changes nothing *)
(* of it.                                                                  *)
(***************************************************************************)
ImplementsRegister == Register!Spec

(***************************************************************************)
(* Every call of a client that is not killed returns, unless a writer was  *)
(* killed while its elements were on the way: some servers may then have   *)
(* an element of a tag of which there will never be K.                     *)
(***************************************************************************)
CutOff == \E w \in Clients \ alive : pc[w] = WRITE_PUT

EveryCallReturns ==
    \A c \in Clients : pc[c] # "idle" ~> (pc[c] = "idle" \/ c \notin alive \/ CutOff)
===========================================================================
