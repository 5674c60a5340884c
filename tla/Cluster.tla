------------------------------ MODULE Cluster ------------------------------
(***************************************************************************)
(* A running deployment: an operator's tool, the controller that passes    *)
(* its commands on, the client processes of ClientDaemon and the servers   *)
(* (src/src/daemons/routes.go, setParamRoutes.go, controllerRoutes.go,     *)
(* httpServer.go, server.go).                                              *)
(*                                                                         *)
(* Every request is an http.Get that waits for its response.  A handler of *)
(* the controller asks its processes one after the other in the order of a *)
(* Go map, which is any; the tool asks for one route after the other.      *)
(***************************************************************************)
EXTENDS ClientDaemon

CONSTANTS
    Controller,     \* the address of the controller
    Commands,       \* the commands the operator may give: sequences of requests
    MaxCommands,    \* how many of them are given
    Live            \* the servers that keep answering once they run

Request(to, route, ips) == [to |-> to, route |-> route, ips |-> ips]

Nobody  == "nobody"
ForEver == "for ever"

ASSUME ClusterAssumption ==
    /\ {Controller, Nobody, ForEver} \cap (Clients \cup Servers) = {}
    /\ Clients \cap Servers = {}
    /\ MaxCommands \in Nat /\ Live \subseteq Servers

\* The routes for commands, and KillProcess, which is asked for and is none.
Routes == {"StopAProcess", "StartAProcess", "KillAProcess", "StopProcess", "StartProcess",
           "KillProcess", "StopReaders", "StopWriters", "StopServers", "StartReaders",
           "StartWriters", "StartServers", "SetReaders", "SetWriters", "SetServers"}

\* What may be asked for: of any process, with addresses of the kind the route is for.
Asked ==
    {r \in [to : {Controller} \cup Clients \cup Servers, route : Routes,
            ips : SUBSET (Clients \cup Servers)] :
       /\ r.route = "SetServers" => r.ips \subseteq Servers
       /\ r.route = "SetReaders" => r.ips \subseteq Readers
       /\ r.route = "SetWriters" => r.ips \subseteq Writers}

ASSUME CommandsAssumption == Commands \subseteq Seq(Asked)

VARIABLES
    known,      \* the controller's data: the maps servers, readers and writers
    serving,    \* the servers that run server_process
    todo,       \* the requests of the operator's command that are left
    job,        \* the requests to processes that are still to be sent
    waiting,    \* the client whose handler holds up a request, Nobody or ForEver
    given       \* the number of commands given

vars == <<clientVars, known, serving, todo, job, waiting, given>>

Init ==
    /\ InitClients
    /\ known   = [servers |-> {}, readers |-> {}, writers |-> {}]
    /\ serving = {}
    /\ todo    = <<>>
    /\ job     = {}
    /\ waiting = Nobody
    /\ given   = 0

---------------------------------------------------------------------------
(* The operator and the controller. *)

\* The operator gives the next command.
Give ==
    /\ todo = <<>> /\ job = {} /\ waiting = Nobody
    /\ given < MaxCommands
    /\ given' = given + 1
    /\ todo' \in Commands
    /\ UNCHANGED <<clientVars, known, serving, job, waiting>>

\* What a route registers in the controller.
Registered(r) ==
    CASE r.route = "SetServers" -> [known EXCEPT !.servers = @ \cup r.ips]
      [] r.route = "SetReaders" -> [known EXCEPT !.readers = @ \cup r.ips]
      [] r.route = "SetWriters" -> [known EXCEPT !.writers = @ \cup r.ips]
      [] OTHER -> known

\* The set routes pass on the servers as they are known at that moment.
Announced(r) ==
    CASE r.route = "SetServers" -> {Request(p, "SetServers", Registered(r).servers) :
                                       p \in Registered(r).servers}
      [] r.route = "SetReaders" -> {Request(p, "SetServers", known.servers) :
                                       p \in Registered(r).readers}
      [] r.route = "SetWriters" -> {Request(p, "SetServers", known.servers) :
                                       p \in Registered(r).writers}
      [] OTHER -> {}

\* One request to each of the processes.
clusterCommand(url, processes) == {Request(p, url, {}) : p \in processes}

\* The routes for one process.
ToAProcess(r) ==
    CASE r.route = "StartAProcess" -> clusterCommand("StartProcess", r.ips)
      [] r.route = "StopAProcess"  -> clusterCommand("StopProcess", r.ips)
      [] r.route = "KillAProcess"  -> clusterCommand("KillProcess", r.ips)
      [] OTHER -> {}

\* The routes for all readers, writers or servers.  To stop is not to StopProcess.
ToAll(r) ==
    CASE r.route = "StartReaders" -> clusterCommand("StartProcess", known.readers)
      [] r.route = "StartWriters" -> clusterCommand("StartProcess", known.writers)
      [] r.route = "StartServers" -> clusterCommand("StartProcess", known.servers)
      [] r.route = "StopReaders"  -> clusterCommand("StopReaders", known.readers)
      [] r.route = "StopWriters"  -> clusterCommand("StopWriters", known.writers)
      [] r.route = "StopServers"  -> clusterCommand("StopServers", known.servers)
      [] OTHER -> {}

\* The requests that a route makes the controller send.
Requests(r) == Announced(r) \cup ToAProcess(r) \cup ToAll(r)

\* The controller takes up a request of the tool.
Handle ==
    /\ job = {} /\ waiting = Nobody
    /\ todo # <<>> /\ Head(todo).to = Controller
    /\ todo' = Tail(todo)
    /\ known' = Registered(Head(todo))
    /\ job' = Requests(Head(todo))
    /\ UNCHANGED <<clientVars, serving, waiting, given>>

\* The tool asks a process itself, as stop does.
HandleDirect ==
    /\ job = {} /\ waiting = Nobody
    /\ todo # <<>> /\ Head(todo).to # Controller
    /\ todo' = Tail(todo)
    /\ job' = {Head(todo)}
    /\ UNCHANGED <<clientVars, known, serving, waiting, given>>

\* One of the requests to processes is sent, once the last one has its response.
Send(r) ==
    /\ waiting = Nobody
    /\ r \in job /\ job' = job \ {r}
    /\ UNCHANGED <<known, todo, given>>

SendSetServers(r) ==
    /\ Send(r)
    /\ r.to \in Clients /\ r.route = "SetServers"
    /\ SetServers(r.to, r.ips)
    /\ UNCHANGED <<serving, waiting>>

\* A handler of a client that sends on its channel may hold up the request.
SendStartOrStop(r) ==
    /\ Send(r)
    /\ r.to \in Clients /\ r.route \in {"StartProcess", "StopProcess"}
    /\ SendCommand(r.to, r.route = "StartProcess")
    /\ waiting' = CASE pc[r.to] = "boot"   -> ForEver
                    [] pc[r.to] = "exited" -> Nobody
                    [] OTHER -> IF Len(active_chan[r.to]) < ChanCapacity
                                  THEN Nobody ELSE r.to
    /\ UNCHANGED serving

Respond ==
    /\ waiting \in Clients /\ Accepted(waiting)
    /\ waiting' = Nobody
    /\ UNCHANGED <<clientVars, known, serving, todo, job, given>>

\* To a client StopReaders means its own readers, of which it has none; KillProcess
\* is not a route.
SendForNothing(r) ==
    /\ Send(r)
    /\ r.to \in Clients /\ r.route \in {"StopReaders", "StopWriters", "KillProcess"}
    /\ UNCHANGED <<clientVars, serving, waiting>>

(***************************************************************************)
(* A server starts server_process at every command, a stop included.  On   *)
(* StopServers it sends StopServers to all servers, itself among them, and *)
(* does not answer.                                                        *)
(***************************************************************************)
SendToServer(r) ==
    /\ Send(r)
    /\ r.to \in Servers
    /\ serving' = IF r.route \in {"StartProcess", "StopProcess"} THEN serving \cup {r.to}
                                                              ELSE serving
    /\ waiting' = IF r.route = "StopServers" THEN ForEver ELSE Nobody
    /\ UNCHANGED clientVars

Administer ==
    \/ Handle \/ HandleDirect \/ Respond
    \/ \E r \in job : \/ SendSetServers(r) \/ SendStartOrStop(r)
                      \/ SendForNothing(r) \/ SendToServer(r)

ClientStep(c) == LoopStep(c) /\ UNCHANGED <<known, serving, todo, job, waiting, given>>

ServerStep(c, p) ==
    /\ p[1] \in serving
    /\ Answer(c, p)
    /\ UNCHANGED <<known, serving, todo, job, waiting, given>>

Next ==
    \/ Give \/ Administer
    \/ \E c \in Clients : \/ ClientStep(c)
                          \/ \E p \in DOMAIN queue[c] : ServerStep(c, p)

Spec == Init /\ [][Next]_vars

(***************************************************************************)
(* The HTTP servers keep handling requests, a loop keeps turning, and the  *)
(* live servers keep answering a client that polls.  The operator may stop *)
(* giving commands.                                                        *)
(***************************************************************************)
Fairness ==
    /\ WF_vars(Administer)
    /\ \A c \in Clients : WF_vars(ClientStep(c))
    /\ \A c \in Clients, s \in Live : WF_vars(ServerStep(c, <<s, 1>>))

LiveSpec == Spec /\ Fairness

---------------------------------------------------------------------------
(* Properties. *)

TypeOK ==
    /\ pc \in [Clients -> {"boot", "loop", "exited"} \cup Phases]
    /\ servers \in [Clients -> SUBSET Servers]
    /\ active_chan \in [Clients -> Seq(BOOLEAN)]
    /\ active \in [Clients -> BOOLEAN]
    /\ ip_list \in [Clients -> [Servers -> Nat]]
    /\ client_args \in [Clients -> BOOLEAN]
    /\ opnum \in [Clients -> Nat]
    /\ responses \in [Clients -> Nat]
    /\ counted \in [Clients -> SUBSET Servers]
    /\ regular \in [Clients -> BOOLEAN]
    /\ quorums \subseteq SUBSET Servers
    /\ known \in [servers : SUBSET Servers, readers : SUBSET Readers,
                  writers : SUBSET Writers]
    /\ serving \subseteq Servers
    /\ waiting \in Clients \cup {Nobody, ForEver}
    /\ \A c \in Clients :
          /\ DOMAIN queue[c] \subseteq Servers \X (Nat \ {0})
          /\ Len(active_chan[c]) <= ChanCapacity + 1
          /\ pc[c] \in Phases => responses[c] < Majority(Num_servers(ip_list[c]))

(***************************************************************************)
(* A command beyond the capacity of a channel is that of the one handler   *)
(* which holds up the requests, or its client has exited.                  *)
(***************************************************************************)
OneHandlerWaits ==
    \A c \in Clients :
       /\ Len(active_chan[c]) <= ChanCapacity + 1
       /\ Len(active_chan[c]) > ChanCapacity => waiting = c \/ pc[c] = "exited"

\* A majority of the servers runs and goes on answering.
Up == Cardinality(serving \cap Live) >= Majority(Cardinality(Servers))

\* The socket of c, if there is one, has one connection to each server.
OneEach(c) == \A p \in DOMAIN queue[c] : p[2] = 1

(***************************************************************************)
(* Every operation returns once a majority of the servers is up, however   *)
(* often the list was doubled and whatever server was passed over.  Not so *)
(* for a client that took two commands before its first operation, if that *)
(* gave it two connections to each server.                                 *)
(***************************************************************************)
OperationsReturn ==
    \A c \in Clients : pc[c] \in Phases /\ OneEach(c) /\ Up ~> pc[c] \notin Phases

(***************************************************************************)
(* Every command that reached a channel is taken from it, so that no       *)
(* handler waits on a full channel for ever, with the same exception.      *)
(***************************************************************************)
CommandsAreTaken ==
    \A c \in Clients :
       active_chan[c] # <<>> /\ Up ~> \/ active_chan[c] = <<>> \/ pc[c] = "exited"
                                     \/ ~OneEach(c)
===========================================================================
