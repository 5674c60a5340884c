---------------------------- MODULE ClientDaemon ----------------------------
(***************************************************************************)
(* A reader or writer process of COLAS: the Go loop that takes commands    *)
(* and makes operations (src/src/daemons/reader.go, writer.go), and under  *)
(* it the one socket of the process (src/src/baseprocess/client.c) and the *)
(* count of answers that ends a phase.                                     *)
(*                                                                         *)
(* Module ABD is about tags and values and takes for granted that a client *)
(* sends each request once to every server.  Here nothing is left of a     *)
(* request but the number of its operation and its phase; what is modelled *)
(* is who gets it how often.  That depends on Ip_list, which grows with    *)
(* every command, and on the DEALER socket, which is connected only once,  *)
(* serves its peers in turn and passes over one whose queue is full.       *)
(***************************************************************************)
EXTENDS Majorities, Sequences, FiniteSets, Functions

CONSTANTS
    Servers,            \* the addresses that servers may have
    Readers, Writers,   \* the client processes
    CommandLine,        \* CommandLine[c]: the servers named by --ip
    MaxTurns,           \* MaxTurns[c]: the last operation number of a loop, 2000
    HWM,                \* how many requests are queued for a peer at least, 1000
    SameAddressTwice    \* connecting twice to an address opens two connections,
                        \* as with the libzmq 3.2.5 in deps/ZMQ

Clients == Readers \cup Writers

ASSUME DaemonAssumption ==
    /\ IsFiniteSet(Servers) /\ Servers # {}
    /\ Readers \cap Writers = {}
    /\ CommandLine \in [Clients -> SUBSET Servers]
    /\ MaxTurns \in [Clients -> Nat] /\ HWM \in Nat
    /\ SameAddressTwice \in BOOLEAN

Phases == {"GET_TAG", "GET_TAG_VALUE", "WRITE_VALUE"}

VARIABLES
    pc,             \* "boot" before the loop, "loop", a phase, or "exited"
    servers,        \* data.servers
    active_chan,    \* the commands sent and not yet received; TRUE is start
    active,         \* data.active
    ip_list,        \* ip_list[c][s]: how often s is in parameters.Ip_list
    client_args,    \* whether client_args points to anything
    opnum,          \* the local of the loop; 0 in the initial write of a reader
    responses,      \* the answers counted in this phase
    queue,          \* queue[c][p]: requests on connection p, answers not read
    counted,        \* history: the servers whose answers were counted
    regular,        \* history: this phase has a number of its own, and all
                    \* servers known were sent as many requests
    used,           \* history: the numbers and phases the client has used
    quorums         \* history: what was counted in the regular phases

sentVars    == <<queue, regular, used>>
countVars   == <<responses, counted, quorums>>
controlVars == <<servers, active_chan, active, ip_list, client_args, opnum>>
clientVars  == <<pc, controlVars, countVars, sentVars>>

InitClients ==
    /\ pc          = [c \in Clients |-> "boot"]
    /\ servers     = CommandLine
    /\ active_chan = [c \in Clients |-> <<>>]
    /\ active      = [c \in Clients |-> c \in Writers /\ CommandLine[c] # {}]
    /\ ip_list     = [c \in Clients |-> [s \in Servers |->
                                           IF s \in CommandLine[c] THEN 1 ELSE 0]]
    /\ client_args = [c \in Clients |-> FALSE]
    /\ opnum       = [c \in Clients |-> IF c \in Readers THEN 0 ELSE 1]
    /\ responses   = [c \in Clients |-> 0]
    /\ queue       = [c \in Clients |-> <<>>]
    /\ counted     = [c \in Clients |-> {}]
    /\ regular     = [c \in Clients |-> FALSE]
    /\ used        = [c \in Clients |-> {}]
    /\ quorums     = {}

---------------------------------------------------------------------------
(* The socket. *)

\* parameters.Num_servers, which the phases take for the number of servers.
Num_servers(list) == FoldFunction(+, 0, list)

\* The connections that get_socket_servers opens, those there are if it has before.
get_socket_servers(c, list) ==
    IF DOMAIN queue[c] # {}
      THEN queue[c]
      ELSE LET pipes == UNION {{s} \X (1 .. list[s]) : s \in Servers}
           IN  [p \in {x \in pipes : SameAddressTwice \/ x[2] = 1} |-> <<>>]

\* Faulty variant: one copy to each connection, however long the list is.
send_multicast_once(c, pipes, list, m) ==
    /\ queue' = [queue EXCEPT ![c] = [p \in DOMAIN pipes |-> Append(pipes[p], m)]]
    /\ regular' = [regular EXCEPT ![c] = m \notin used[c]]
    /\ used' = [used EXCEPT ![c] = @ \cup {m}]

(***************************************************************************)
(* Num_servers copies of m, one to each connection in turn.  A connection  *)
(* may be passed over if HWM or more requests wait on it: some may have    *)
(* left the socket.  Where the turn stands is left open.                   *)
(***************************************************************************)
send_multicast_servers(c, pipes, list, m) ==
    LET copies == Num_servers(list)
        Known  == {s \in Servers : list[s] > 0}
        Of(s)  == {p[2] : p \in {x \in DOMAIN pipes : x[1] = s}}
    IN  \E full \in SUBSET {p \in DOMAIN pipes : Len(pipes[p]) >= HWM} :
        LET open == DOMAIN pipes \ full
            each == copies \div Cardinality(open)
        IN  /\ open # {}
            /\ \E more \in SUBSET open :
                 /\ Cardinality(more) = copies % Cardinality(open)
                 /\ LET Sent(p) == IF p \in more THEN each + 1
                                   ELSE IF p \in open THEN each ELSE 0
                    IN  queue' = [queue EXCEPT ![c] =
                                    [p \in DOMAIN pipes |->
                                       pipes[p] \o [i \in 1 .. Sent(p) |-> m]]]
                 /\ regular' = [regular EXCEPT ![c] =
                                  /\ m \notin used[c]
                                  /\ full = {} /\ more = {}
                                  /\ \A s, t \in Known : Of(s) = Of(t)]
                 /\ used' = [used EXCEPT ![c] = @ \cup {m}]

\* A phase begins: the multicast, with nothing counted yet.
BeginPhase(c, pipes, list, num, phase) ==
    /\ pc' = [pc EXCEPT ![c] = phase]
    /\ send_multicast_servers(c, pipes, list, <<num, phase>>)
    /\ responses' = [responses EXCEPT ![c] = 0]
    /\ counted' = [counted EXCEPT ![c] = {}]

---------------------------------------------------------------------------
(* The loop. *)

\* reader_daemon and writer_daemon up to their loop: the channel is made.
Boot(c) ==
    /\ pc[c] = "boot"
    /\ pc' = [pc EXCEPT ![c] = "loop"]
    /\ UNCHANGED <<controlVars, countVars, sentVars>>

\* Faulty variant: a start without servers leaves the loop active.
IgnoreCommand_active(c) ==
    /\ pc[c] = "loop" /\ active_chan[c] # <<>>
    /\ servers[c] = {}
    /\ active_chan' = [active_chan EXCEPT ![c] = Tail(@)]
    /\ active' = [active EXCEPT ![c] = Head(active_chan[c])]
    /\ UNCHANGED <<pc, servers, ip_list, client_args, opnum, countVars, sentVars>>

\* A command that comes before any server is set: "please set servers".
IgnoreCommand(c) ==
    /\ pc[c] = "loop" /\ active_chan[c] # <<>>
    /\ servers[c] = {}
    /\ active_chan' = [active_chan EXCEPT ![c] = Tail(@)]
    /\ active' = [active EXCEPT ![c] = FALSE]
    /\ UNCHANGED <<pc, servers, ip_list, client_args, opnum, countVars, sentVars>>

(***************************************************************************)
(* A command, start or stop: all servers are appended to Ip_list and the   *)
(* arguments are made anew.  A reader writes its initial data again, as    *)
(* operation 1, and its numbers start from 0.                              *)
(***************************************************************************)
TakeCommand(c) ==
    /\ pc[c] = "loop" /\ active_chan[c] # <<>>
    /\ servers[c] # {}
    /\ active_chan' = [active_chan EXCEPT ![c] = Tail(@)]
    /\ active' = [active EXCEPT ![c] = Head(active_chan[c])]
    /\ client_args' = [client_args EXCEPT ![c] = TRUE]
    /\ LET list == [s \in Servers |-> ip_list[c][s] + IF s \in servers[c] THEN 1 ELSE 0]
       IN  /\ ip_list' = [ip_list EXCEPT ![c] = list]
           /\ \/ /\ c \in Writers
                 /\ UNCHANGED <<pc, opnum, countVars, sentVars>>
              \/ /\ c \in Readers
                 /\ opnum' = [opnum EXCEPT ![c] = 0]
                 /\ BeginPhase(c, get_socket_servers(c, list), list, 1, "GET_TAG")
                 /\ UNCHANGED quorums
    /\ UNCHANGED servers

\* The default case of select: no command is waiting.
MayTurn(c) ==
    /\ pc[c] = "loop" /\ active_chan[c] = <<>>
    /\ active[c] /\ servers[c] # {}
    /\ opnum' = [opnum EXCEPT ![c] = @ + 1]
    /\ UNCHANGED <<servers, active_chan, active, ip_list, client_args>>

BeginOperation(c) ==
    /\ MayTurn(c)
    /\ opnum[c] + 1 <= MaxTurns[c]
    /\ BeginPhase(c, get_socket_servers(c, ip_list[c]), ip_list[c], opnum[c] + 1,
                  IF c \in Readers THEN "GET_TAG_VALUE" ELSE "GET_TAG")
    /\ UNCHANGED quorums

Exit(c) ==
    /\ MayTurn(c)
    /\ opnum[c] + 1 > MaxTurns[c]
    /\ pc' = [pc EXCEPT ![c] = "exited"]
    /\ UNCHANGED <<countVars, sentVars>>

---------------------------------------------------------------------------
(* The answers. *)

\* Faulty variant: the initial write expects the number of the loop.
Num_loop(c) == opnum[c]

\* The number of the operation in progress.
Num(c) == IF opnum[c] = 0 THEN 1 ELSE opnum[c]

\* Faulty variant: the phase of an answer is not looked at.
Counts_any_phase(c, m) == m[1] = Num(c)

Counts(c, m) == m = <<Num(c), pc[c]>>

(***************************************************************************)
(* The oldest request on connection p is answered, and the polling client  *)
(* reads the answer.  A ROUTER knows a client by its identity and reads    *)
(* nothing from a second connection with the same one.                     *)
(***************************************************************************)
MayRead(c, p) ==
    /\ pc[c] \in Phases
    /\ p \in DOMAIN queue[c] /\ p[2] = 1
    /\ queue[c][p] # <<>>
    /\ UNCHANGED <<servers, active_chan, active, ip_list, client_args, opnum>>

\* What is left of c's requests when the first on p has been answered.
Rest(c, p) == [queue[c] EXCEPT ![p] = Tail(@)]

OldAnswer(c, p) ==
    /\ MayRead(c, p)
    /\ ~Counts(c, Head(queue[c][p]))
    /\ queue' = [queue EXCEPT ![c] = Rest(c, p)]
    /\ UNCHANGED <<pc, countVars, regular, used>>

CountAnswer(c, p) ==
    /\ MayRead(c, p)
    /\ Counts(c, Head(queue[c][p]))
    /\ responses[c] + 1 < Majority(Num_servers(ip_list[c]))
    /\ responses' = [responses EXCEPT ![c] = @ + 1]
    /\ counted' = [counted EXCEPT ![c] = @ \cup {p[1]}]
    /\ queue' = [queue EXCEPT ![c] = Rest(c, p)]
    /\ UNCHANGED <<pc, quorums, regular, used>>

\* The answer that completes the majority of Num_servers.
LastAnswer(c, p) ==
    /\ MayRead(c, p)
    /\ Counts(c, Head(queue[c][p]))
    /\ responses[c] + 1 >= Majority(Num_servers(ip_list[c]))
    /\ quorums' = IF regular[c] THEN quorums \cup {counted[c] \cup {p[1]}} ELSE quorums

EndGet(c, p) ==
    /\ LastAnswer(c, p)
    /\ pc[c] # "WRITE_VALUE"
    /\ BeginPhase(c, Rest(c, p), ip_list[c], Num(c), "WRITE_VALUE")

\* The operation returns to the loop.
EndOperation(c, p) ==
    /\ LastAnswer(c, p)
    /\ pc[c] = "WRITE_VALUE"
    /\ pc' = [pc EXCEPT ![c] = "loop"]
    /\ queue' = [queue EXCEPT ![c] = Rest(c, p)]
    /\ responses' = [responses EXCEPT ![c] = 0]
    /\ counted' = [counted EXCEPT ![c] = {}]
    /\ UNCHANGED <<regular, used>>

Answer(c, p) ==
    OldAnswer(c, p) \/ CountAnswer(c, p) \/ EndGet(c, p) \/ EndOperation(c, p)

LoopStep(c) ==
    Boot(c) \/ IgnoreCommand(c) \/ TakeCommand(c) \/ BeginOperation(c) \/ Exit(c)

---------------------------------------------------------------------------
(* The routes that a client process serves beside its loop. *)

\* SetServers: the map only grows.
SetServers(c, ips) ==
    /\ servers' = [servers EXCEPT ![c] = @ \cup ips]
    /\ UNCHANGED <<pc, active_chan, active, ip_list, client_args, opnum, countVars, sentVars>>

(***************************************************************************)
(* StartProcess and StopProcess send on active_chan.  Before Boot that is  *)
(* nil: the handler waits for ever and nothing is received.                *)
(***************************************************************************)
SendCommand(c, start) ==
    /\ active_chan' = IF pc[c] \in {"boot", "exited"} THEN active_chan
                      ELSE [active_chan EXCEPT ![c] = Append(@, start)]
    /\ UNCHANGED <<pc, servers, active, ip_list, client_args, opnum, countVars, sentVars>>

ChanCapacity == 2

\* Faulty variant: no handler waits for room in its channel.
Accepted_always(c) == TRUE

\* The handler of the last command has returned, or its process is gone.
Accepted(c) == pc[c] = "exited" \/ Len(active_chan[c]) <= ChanCapacity

---------------------------------------------------------------------------
(* Properties. *)

(***************************************************************************)
(* A loop that is about to turn has client_args, which it passes on        *)
(* without looking at it: no command that came before the servers leaves   *)
(* the loop active.                                                        *)
(***************************************************************************)
HasArguments ==
    \A c \in Clients : active[c] /\ servers[c] # {} => client_args[c]

(***************************************************************************)
(* Any two phases, of the same client or of two, count answers of a common *)
(* server, however often the lists have been doubled.  Excepted are those  *)
(* whose number was used before and those sent unevenly: there the answers *)
(* counted may be of one server.                                           *)
(***************************************************************************)
QuorumsMeet == \A p, q \in quorums : p \cap q # {}
===========================================================================
