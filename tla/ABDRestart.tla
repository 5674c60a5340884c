----------------------------- MODULE ABDRestart -----------------------------
(***************************************************************************)
(* ABD with servers that are killed and started again.  hash_object_ABD is *)
(* a table in memory that algorithm_ABD creates empty (abd_server.c), and  *)
(* nothing in the code brings back what it held: the server answers its    *)
(* next request with the initial object.  The code promises nothing of     *)
(* this case; the properties state what is left of what it promises else.  *)
(***************************************************************************)
EXTENDS ABDInvariant

CONSTANTS
    Restarting,     \* the servers that may be killed and started again
    Silent,         \* the servers that may stop handling requests
    MaxRestarts     \* how often a server is started again, at most

ASSUME RestartAssumption ==
    /\ Restarting \subseteq Servers
    /\ Silent \subseteq Servers
    /\ MaxRestarts \in Nat

VARIABLES
    restarts,   \* restarts[s]: how often s was started again
    forgot      \* history: forgot[s]: the calls with a tag that s may have forgotten

allVars == <<vars, restarts, forgot>>

InitRestart ==
    /\ Init
    /\ restarts = [s \in Servers |-> 0]
    /\ forgot = [s \in Servers |-> {}]

---------------------------------------------------------------------------
\* The calls that have chosen a tag: they are sending it to the servers, or did.
Sending == {<<c, call[c]>> : c \in {x \in Clients : pc[x] = WRITE_VALUE}}
Wrote   == Sending \cup {Id(r) : r \in done}

(***************************************************************************)
(* The process of server s ends and is started again.  The requests that   *)
(* have left a client's socket are lost, and with them the replies that    *)
(* have not reached the client.  The requests still in the socket wait     *)
(* there for the next connection, unless the client has gone as well.      *)
(***************************************************************************)
Restart(s) ==
    /\ s \in Restarting
    /\ restarts[s] < MaxRestarts
    /\ restarts' = [restarts EXCEPT ![s] = @ + 1]
    /\ forgot' = [forgot EXCEPT ![s] = @ \cup Wrote]
    /\ store' = [store EXCEPT ![s] = NoObject]
    /\ \E left \in [Clients -> UNION {0 .. Len(toServer[c][s]) : c \in Clients}] :
          /\ \A c \in Clients : /\ left[c] <= Len(toServer[c][s])
                                /\ c \notin alive => left[c] = Len(toServer[c][s])
          /\ toServer' = [c \in Clients |->
                            [toServer[c] EXCEPT ![s] = SubSeq(@, left[c] + 1, Len(@))]]
    /\ \E read \in [Clients -> UNION {0 .. Len(toClient[c][s]) : c \in Clients}] :
          /\ \A c \in Clients : read[c] <= Len(toClient[c][s])
          /\ toClient' = [c \in Clients |->
                            [toClient[c] EXCEPT ![s] = SubSeq(@, 1, read[c])]]
    /\ UNCHANGED clientVars

NextRestart ==
    \/ Next /\ UNCHANGED <<restarts, forgot>>
    \/ \E s \in Servers : Restart(s)

SpecRestart == InitRestart /\ [][NextRestart]_allVars

LiveSpecRestart == SpecRestart /\ Fairness(Servers \ Silent)

---------------------------------------------------------------------------
\* The servers that may have forgotten the tag of x.
Forgetful(x) == {s \in Servers : Id(x) \in forgot[s]}

(***************************************************************************)
(* What a call returned or wrote is at a majority of the servers, those    *)
(* counted in that were started again after it had begun to write.         *)
(***************************************************************************)
HeldButForRestarts ==
    \A r \in done :
       Cardinality(Holders(r.tag) \cup Forgetful(r)) >= Majority(Cardinality(Servers))

(***************************************************************************)
(* As long as not all servers that two majorities have in common were      *)
(* started again since x wrote, no later call misses x: with an even       *)
(* number of servers one of them may be, with an odd number none.          *)
(***************************************************************************)
RestartsTolerated ==
    \A x, r \in done :
       Precedes(x, r) /\ Cardinality(Forgetful(x)) < Common =>
          IF r.kind = "write" THEN x.tag.z < r.tag.z ELSE AtLeast(r.tag, x.tag)

(***************************************************************************)
(* The claims of Freshness hold but for the servers that forgot.           *)
(***************************************************************************)
FreshnessButForgot == FreshnessBut(forgot)

(***************************************************************************)
(* Every call returns, as long as those servers that stop and those that   *)
(* lose messages in a restart leave a majority: no request is sent twice.  *)
(***************************************************************************)
Faulty == Silent \cup {s \in Servers : restarts[s] > 0}

ReturnsWithMajority ==
    \A c \in Clients :
       pc[c] # "idle" ~> \/ pc[c] = "idle"
                        \/ Cardinality(Servers \ Faulty) < Majority(Cardinality(Servers))
===========================================================================
