---------------------------- MODULE MCCluster ----------------------------
(* A small deployment for TLC. *)
EXTENDS Cluster, SequencesExt

OneReader == {"reader_1"}
OneWriter == {"writer_1"}
NoServers == [c \in Clients |-> {}]

\* The reader's first operation is number 1, the writer's number 2.
TurnsOf == [c \in Clients |-> IF c \in Readers THEN 1 ELSE 2]

Ask(route, ips) == Request("controller", route, ips)

\* What the operator's tool does for setup, start and stop.
Setup == <<Ask("SetServers", Servers), Ask("SetReaders", Readers), Ask("SetWriters", Writers)>>
Start == <<Ask("StartReaders", {}), Ask("StartWriters", {})>>
Stop  == SetToSeq({Request(c, "StopProcess", {}) : c \in Readers})
           \o SetToSeq({Request(c, "StopProcess", {}) : c \in Writers})

\* One server stays down until StartServers, and may stay down for ever.
OneDown      == CHOOSE s \in Servers : TRUE
StartMost    == SetToSeq({Ask("StartAProcess", {s}) : s \in Servers \ {OneDown}})
StartServers == <<Ask("StartServers", {})>>

\* The clients are started before there are servers.
StartEarly == Tail(Setup) \o Start

\* The routes that stop nothing, before one that does, and one that does not return.
StopInVain == <<Ask("StopReaders", {}), Ask("StopWriters", {}), Ask("KillAProcess", Readers)>>
                \o <<Ask("StopAProcess", Writers)>> \o Stop \o <<Ask("StopServers", {})>>

MCCommands == {Setup \o StartMost, Start, StartEarly, Stop, StartServers, StopInVain}

(***************************************************************************)
(* An answer of a server that runs, to a request whose phase has ended, is *)
(* read before anything else happens.  Reading it only shortens a queue.   *)
(* What is lost is a server that comes late with a full queue and is       *)
(* passed over again while it answers that.                                *)
(***************************************************************************)
OldAnswers == {x \in Clients \X serving :
                 /\ pc[x[1]] \in Phases /\ <<x[2], 1>> \in DOMAIN queue[x[1]]
                 /\ LET q == queue[x[1]][<<x[2], 1>>]
                    IN  q # <<>> /\ ~Counts(x[1], Head(q))}

OldFirst ==
    OldAnswers # {} =>
        LET x == CHOOSE y \in OldAnswers : TRUE
        IN  queue'[x[1]][<<x[2], 1>>] # queue[x[1]][<<x[2], 1>>]
==========================================================================
