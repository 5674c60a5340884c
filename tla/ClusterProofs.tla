--------------------------- MODULE ClusterProofs ---------------------------
(***************************************************************************)
(* Proofs about the commands of a deployment, for any processes and any    *)
(* commands of the operator: types, that a loop never turns without its    *)
(* arguments, that a full channel holds up one request, which nobody       *)
(* overtakes, and that majorities of lists with doubled servers meet.      *)
(***************************************************************************)
EXTENDS Cluster, SequenceTheorems, FiniteSetTheorems, WellFoundedInduction, TLAPS

\* No writer is started with --ip; readers have their arguments only from commands.
NoServersNamed == \A c \in Writers : CommandLine[c] = {}

\* What the commands are about has the right types.
CommandTypes ==
    /\ active_chan \in [Clients -> Seq(BOOLEAN)]
    /\ active \in [Clients -> BOOLEAN]
    /\ client_args \in [Clients -> BOOLEAN]
    /\ pc \in [Clients -> {"boot", "loop", "exited"} \cup Phases]
    /\ waiting \in Clients \cup {Nobody, ForEver}

\* Nothing but a command with servers makes a loop active, and it makes the arguments.
ActiveHasArguments == NoServersNamed => \A c \in Clients : active[c] => client_args[c]

CInv == CommandTypes /\ ActiveHasArguments /\ OneHandlerWaits

---------------------------------------------------------------------------
(* The steps of one client. *)

\* A step in which nothing happens to the commands of any client.
Undisturbed ==
    /\ UNCHANGED <<active_chan, active, client_args, waiting>>
    /\ pc' \in [Clients -> {"boot", "loop", "exited"} \cup Phases]
    /\ \A c \in Clients : pc[c] = "exited" => pc'[c] = "exited"

LEMMA UndisturbedKeeps == CInv /\ Undisturbed => CInv'
BY DEF CInv, CommandTypes, ActiveHasArguments, OneHandlerWaits, Undisturbed

LEMMA StringsDiffer ==
    "exited" \notin Phases /\ "loop" # "exited" /\ "boot" # "exited"
    /\ "GET_TAG" \in Phases /\ "GET_TAG_VALUE" \in Phases /\ "WRITE_VALUE" \in Phases
BY DEF Phases

LEMMA AnswerKeeps ==
    ASSUME CInv, NEW c \in Clients, NEW p, ServerStep(c, p)
    PROVE  CInv'
<1>1. pc[c] \in Phases /\ UNCHANGED <<active_chan, active, client_args, waiting>>
  BY DEF ServerStep, Answer, OldAnswer, CountAnswer, EndGet, EndOperation, LastAnswer, MayRead
<1>2. \E v \in {"loop"} \cup Phases : pc' = [pc EXCEPT ![c] = v]
  <2>1. CASE OldAnswer(c, p) \/ CountAnswer(c, p)
    <3>1. pc' = pc
      BY <2>1 DEF OldAnswer, CountAnswer
    <3> QED
      BY <1>1, <3>1 DEF CInv, CommandTypes
  <2>2. CASE EndGet(c, p)
    BY <2>2, StringsDiffer DEF EndGet, BeginPhase
  <2>3. CASE EndOperation(c, p)
    BY <2>3 DEF EndOperation
  <2> QED
    BY <2>1, <2>2, <2>3 DEF ServerStep, Answer
<1>3. Undisturbed
  BY <1>1, <1>2, StringsDiffer DEF Undisturbed, CInv, CommandTypes
<1> QED
  BY <1>3, UndisturbedKeeps

\* A command is taken from the channel.
LEMMA TakeKeeps ==
    ASSUME CInv, NEW c \in Clients, pc[c] = "loop", active_chan[c] # <<>>,
           active_chan' = [active_chan EXCEPT ![c] = Tail(@)],
           NEW on \in BOOLEAN, active' = [active EXCEPT ![c] = on],
           \/ ~on /\ client_args' = client_args
           \/ client_args' = [client_args EXCEPT ![c] = TRUE],
           \/ pc' = pc
           \/ \E v \in Phases : pc' = [pc EXCEPT ![c] = v],
           waiting' = waiting
    PROVE  CInv'
<1>1. /\ Tail(active_chan[c]) \in Seq(BOOLEAN)
      /\ Len(Tail(active_chan[c])) = Len(active_chan[c]) - 1
      /\ Len(active_chan[c]) \in Nat
  BY HeadTailProperties, LenProperties DEF CInv, CommandTypes
<1>2. CommandTypes'
  BY <1>1 DEF CInv, CommandTypes
<1>3. ActiveHasArguments'
  BY DEF CInv, CommandTypes, ActiveHasArguments
<1>4. \A d \in Clients : pc[d] = "exited" => pc'[d] = "exited"
  BY StringsDiffer DEF CInv, CommandTypes
<1>5. OneHandlerWaits'
  <2> SUFFICES ASSUME NEW d \in Clients
               PROVE  /\ Len(active_chan'[d]) <= ChanCapacity + 1
                      /\ Len(active_chan'[d]) > ChanCapacity => waiting' = d \/ pc'[d] = "exited"
    BY DEF OneHandlerWaits
  <2>1. CASE d = c
    <3>1. Len(active_chan'[c]) = Len(active_chan[c]) - 1
      BY <1>1 DEF CInv, CommandTypes
    <3>2. Len(active_chan[c]) <= ChanCapacity + 1
      BY DEF CInv, OneHandlerWaits
    <3> QED
      BY <2>1, <3>1, <3>2, <1>1 DEF ChanCapacity
  <2>2. CASE d # c
    <3>1. active_chan'[d] = active_chan[d]
      BY <2>2 DEF CInv, CommandTypes
    <3> QED
      BY <3>1, <1>4 DEF CInv, OneHandlerWaits
  <2> QED
    BY <2>1, <2>2
<1> QED
  BY <1>2, <1>3, <1>5 DEF CInv

LEMMA LoopKeeps ==
    ASSUME CInv, NEW c \in Clients, ClientStep(c)
    PROVE  CInv'
<1>1. waiting' = waiting
  BY DEF ClientStep
<1>2. CASE Boot(c)
  <2>1. Undisturbed
    BY <1>1, <1>2 DEF Boot, Undisturbed, CInv, CommandTypes, controlVars
  <2> QED
    BY <2>1, UndisturbedKeeps
<1>3. CASE IgnoreCommand(c)
  <2>1. /\ pc[c] = "loop" /\ active_chan[c] # <<>>
        /\ active_chan' = [active_chan EXCEPT ![c] = Tail(@)]
        /\ active' = [active EXCEPT ![c] = FALSE]
        /\ client_args' = client_args /\ pc' = pc
    BY <1>3 DEF IgnoreCommand
  <2> QED
    BY <1>1, <2>1, TakeKeeps
<1>4. CASE TakeCommand(c)
  <2>1. /\ pc[c] = "loop" /\ active_chan[c] # <<>>
        /\ active_chan' = [active_chan EXCEPT ![c] = Tail(@)]
        /\ active' = [active EXCEPT ![c] = Head(active_chan[c])]
        /\ client_args' = [client_args EXCEPT ![c] = TRUE]
        /\ (pc' = pc \/ pc' = [pc EXCEPT ![c] = "GET_TAG"])
    BY <1>4 DEF TakeCommand, BeginPhase
  <2>2. Head(active_chan[c]) \in BOOLEAN
    BY <2>1, HeadTailProperties DEF CInv, CommandTypes
  <2> QED
    BY <1>1, <2>1, <2>2, StringsDiffer, TakeKeeps
<1>5. CASE BeginOperation(c) \/ Exit(c)
  <2>1. pc[c] = "loop" /\ UNCHANGED <<active_chan, active, client_args>>
    BY <1>5 DEF BeginOperation, Exit, MayTurn
  <2>2. \E v \in {"exited"} \cup Phases : pc' = [pc EXCEPT ![c] = v]
    BY <1>5, StringsDiffer DEF BeginOperation, Exit, BeginPhase
  <2>3. Undisturbed
    BY <1>1, <2>1, <2>2, StringsDiffer DEF Undisturbed, CInv, CommandTypes
  <2> QED
    BY <2>3, UndisturbedKeeps
<1> QED
  BY <1>2, <1>3, <1>4, <1>5 DEF ClientStep, LoopStep

---------------------------------------------------------------------------
(* The requests. *)

\* A command is sent only while no other handler waits, and waits if the channel is full.
LEMMA SendStartOrStopKeeps ==
    ASSUME CInv, NEW r \in job, SendStartOrStop(r)
    PROVE  CInv'
<1> DEFINE c == r.to
<1>1. /\ c \in Clients /\ waiting = Nobody /\ pc' = pc
      /\ UNCHANGED <<active, client_args>>
      /\ active_chan' = IF pc[c] \in {"boot", "exited"} THEN active_chan
                        ELSE [active_chan EXCEPT ![c] = Append(@, r.route = "StartProcess")]
      /\ waiting' = CASE pc[c] = "boot"   -> ForEver
                      [] pc[c] = "exited" -> Nobody
                      [] OTHER -> IF Len(active_chan[c]) < ChanCapacity
                                    THEN Nobody ELSE c
  BY DEF SendStartOrStop, Send, SendCommand
<1> HIDE DEF c
<1>2. Nobody \notin Clients /\ ForEver \notin Clients
  BY ClusterAssumption
<1>3. CASE pc[c] \in {"boot", "exited"}
  <2>1. waiting' \in {Nobody, ForEver} /\ active_chan' = active_chan
    BY <1>1, <1>3
  <2> QED
    BY <1>1, <1>2, <2>1 DEF CInv, CommandTypes, ActiveHasArguments, OneHandlerWaits
<1>4. CASE pc[c] \notin {"boot", "exited"}
  <2> DEFINE q == active_chan[c]
             on == r.route = "StartProcess"
  <2>1. q \in Seq(BOOLEAN) /\ on \in BOOLEAN
    BY <1>1 DEF CInv, CommandTypes
  <2>2. /\ Append(q, on) \in Seq(BOOLEAN) /\ Len(Append(q, on)) = Len(q) + 1
        /\ Len(q) \in Nat
    BY <2>1, AppendProperties, LenProperties
  <2>3. active_chan' = [active_chan EXCEPT ![c] = Append(q, on)]
    BY <1>1, <1>4
  <2>4. waiting' = IF Len(q) < ChanCapacity THEN Nobody ELSE c
    BY <1>1, <1>4
  <2> HIDE DEF on
  <2>5. Len(q) <= ChanCapacity
    BY <1>1, <1>2, <1>4, <2>2 DEF CInv, OneHandlerWaits, ChanCapacity
  <2>6. CommandTypes'
    BY <1>1, <2>2, <2>3, <2>4 DEF CInv, CommandTypes
  <2>7. ActiveHasArguments'
    BY <1>1 DEF CInv, ActiveHasArguments
  <2>8. ASSUME NEW d \in Clients
        PROVE  /\ Len(active_chan'[d]) <= ChanCapacity + 1
               /\ Len(active_chan'[d]) > ChanCapacity => waiting' = d \/ pc'[d] = "exited"
    <3>1. CASE d = c
      <4>1. Len(active_chan'[c]) = Len(q) + 1
        BY <1>1, <2>2, <2>3 DEF CInv, CommandTypes
      <4> QED
        BY <3>1, <4>1, <2>2, <2>4, <2>5 DEF ChanCapacity
    <3>2. CASE d # c
      <4>1. active_chan'[d] = active_chan[d]
        BY <2>3, <3>2 DEF CInv, CommandTypes
      <4> QED
        BY <4>1, <1>1, <1>2 DEF CInv, OneHandlerWaits
    <3> QED
      BY <3>1, <3>2
  <2> QED
    BY <2>6, <2>7, <2>8 DEF CInv, OneHandlerWaits
<1> QED
  BY <1>3, <1>4

LEMMA RespondKeeps ==
    ASSUME CInv, Respond
    PROVE  CInv'
<1>1. /\ waiting \in Clients /\ Accepted(waiting) /\ waiting' = Nobody
      /\ UNCHANGED <<active_chan, active, client_args, pc>>
  BY DEF Respond, clientVars, controlVars
<1>2. CommandTypes' /\ ActiveHasArguments'
  BY <1>1 DEF CInv, CommandTypes, ActiveHasArguments
<1>3. OneHandlerWaits'
  <2> SUFFICES ASSUME NEW c \in Clients
               PROVE  /\ Len(active_chan[c]) <= ChanCapacity + 1
                      /\ Len(active_chan[c]) > ChanCapacity => pc[c] = "exited"
    BY <1>1 DEF OneHandlerWaits
  <2>1. Len(active_chan[c]) \in Nat
    BY LenProperties DEF CInv, CommandTypes
  <2> QED
    BY <1>1, <2>1 DEF CInv, OneHandlerWaits, Accepted, ChanCapacity
<1> QED
  BY <1>2, <1>3 DEF CInv

\* Nothing else that is asked for reaches a channel.
LEMMA OthersKeep ==
    ASSUME CInv,
           \/ Give \/ Handle \/ HandleDirect
           \/ \E r \in job : SendSetServers(r) \/ SendForNothing(r) \/ SendToServer(r)
    PROVE  CInv'
<1>1. /\ UNCHANGED <<active_chan, active, client_args, pc>>
      /\ \/ waiting' = waiting
         \/ waiting = Nobody /\ waiting' = ForEver
  BY DEF Give, Handle, HandleDirect, SendSetServers, SendForNothing, SendToServer, Send,
         SetServers, clientVars, controlVars
<1>2. Nobody \notin Clients
  BY ClusterAssumption
<1> QED
  BY <1>1, <1>2 DEF CInv, CommandTypes, ActiveHasArguments, OneHandlerWaits

LEMMA CInvNext == CInv /\ [Next]_vars => CInv'
<1> SUFFICES ASSUME CInv, [Next]_vars PROVE CInv'
  OBVIOUS
<1>1. CASE Give
  BY <1>1, OthersKeep
<1>2. CASE Administer
  <2>1. CASE Respond
    BY <2>1, RespondKeeps
  <2>2. ASSUME NEW r \in job, SendStartOrStop(r) PROVE CInv'
    BY <2>2, SendStartOrStopKeeps
  <2> QED
    BY <1>2, <2>1, <2>2, OthersKeep DEF Administer
<1>3. ASSUME NEW c \in Clients, ClientStep(c) PROVE CInv'
  BY <1>3, LoopKeeps
<1>4. ASSUME NEW c \in Clients, NEW p \in DOMAIN queue[c], ServerStep(c, p) PROVE CInv'
  BY <1>4, AnswerKeeps
<1>5. CASE UNCHANGED vars
  <2>1. Undisturbed
    BY <1>5 DEF vars, clientVars, controlVars, Undisturbed, CInv, CommandTypes
  <2> QED
    BY <2>1, UndisturbedKeeps
<1> QED
  BY <1>1, <1>2, <1>3, <1>4, <1>5 DEF Next

LEMMA CInvInit == Init => CInv
<1> SUFFICES ASSUME Init PROVE CInv
  OBVIOUS
<1>1. /\ active_chan = [c \in Clients |-> <<>>]
      /\ active = [c \in Clients |-> c \in Writers /\ CommandLine[c] # {}]
      /\ client_args = [c \in Clients |-> FALSE]
      /\ pc = [c \in Clients |-> "boot"]
      /\ waiting = Nobody
  BY DEF Init, InitClients
<1>2. CommandTypes
  BY <1>1 DEF CommandTypes
<1>3. ActiveHasArguments
  BY <1>1 DEF ActiveHasArguments, NoServersNamed
<1>4. OneHandlerWaits
  BY <1>1 DEF OneHandlerWaits, ChanCapacity
<1> QED
  BY <1>2, <1>3, <1>4 DEF CInv

(***************************************************************************)
(* Where no writer is given servers on its command line, no loop is about  *)
(* to turn without arguments, whatever commands come in whatever order.    *)
(***************************************************************************)
THEOREM TurnsHaveArguments ==
    ASSUME NoServersNamed
    PROVE  Spec => []HasArguments
<1>1. Init => CInv
  BY CInvInit
<1>2. CInv /\ [Next]_vars => CInv'
  BY CInvNext
<1>3. CInv => HasArguments
  BY DEF CInv, ActiveHasArguments, HasArguments
<1> QED
  BY <1>1, <1>2, <1>3, PTL DEF Spec

(***************************************************************************)
(* Since each request of the operator waits for its response, at most one  *)
(* command waits for room in a channel, and no other overtakes it.         *)
(***************************************************************************)
THEOREM CommandsWaitTheirTurn == Spec => []OneHandlerWaits
<1>1. Init => CInv
  BY CInvInit
<1>2. CInv /\ [Next]_vars => CInv'
  BY CInvNext
<1>3. CInv => OneHandlerWaits
  BY DEF CInv
<1> QED
  BY <1>1, <1>2, <1>3, PTL DEF Spec

---------------------------------------------------------------------------
(* Num_servers is the length of the list. *)

\* A set of numbers has a least one.
LEMMA LeastNumber ==
    ASSUME NEW S \in SUBSET Nat, S # {}
    PROVE  \E m \in S : \A k \in S : m <= k
<1> DEFINE R == {ss \in Nat \X Nat : ss[1] < ss[2]}
<1>1. IsWellFoundedOn(R, Nat)
  BY NatLessThanWellFounded DEF OpToRel
<1>2. PICK m \in S : \A k \in S : ~ (<<k, m>> \in R)
  <2> HIDE DEF R
  <2> QED
    BY <1>1, WFMin
<1>3. \A k \in S : k \in Nat /\ m \in Nat /\ ~ (k < m)
  BY <1>2
<1> QED
  BY <1>3

\* The places that the servers of S have in the list.
Entries(list, S) == {e \in S \X (Nat \ {0}) : e[2] <= list[e[1]]}

LEMMA EntriesWithOneMore ==
    ASSUME NEW list \in [Servers -> Nat], NEW S \in SUBSET Servers, NEW s \in S,
           IsFiniteSet(Entries(list, S \ {s}))
    PROVE  /\ IsFiniteSet(Entries(list, S))
           /\ Cardinality(Entries(list, S)) =
                  list[s] + Cardinality(Entries(list, S \ {s}))
<1> DEFINE E == Entries(list, S \ {s})
           F == {s} \X (1 .. list[s])
<1>1. list[s] \in Nat
  OBVIOUS
<1>2. Entries(list, S) = E \cup F
  <2>1. \A e : e \in F <=> e \in {s} \X (Nat \ {0}) /\ e[2] <= list[s]
    <3>1. 1 .. list[s] = {n \in Nat \ {0} : n <= list[s]}
      BY <1>1
    <3> QED
      BY <3>1
  <2>2. \A e : e \in S \X (Nat \ {0}) <=>
                 e \in {s} \X (Nat \ {0}) \/ e \in (S \ {s}) \X (Nat \ {0})
    OBVIOUS
  <2>3. \A e \in {s} \X (Nat \ {0}) : e[1] = s
    OBVIOUS
  <2> HIDE DEF F
  <2> QED
    BY <2>1, <2>2, <2>3 DEF Entries
<1>3. E \cap F = {}
  BY DEF Entries
<1>4. IsFiniteSet(1 .. list[s]) /\ Cardinality(1 .. list[s]) = list[s]
  BY <1>1, FS_Interval
<1>5. IsFiniteSet({s}) /\ Cardinality({s}) = 1
  BY FS_Singleton
<1>6. IsFiniteSet(F) /\ Cardinality(F) = list[s]
  <2> QED
    BY <1>1, <1>4, <1>5, FS_Product
<1>7. Cardinality(E) \in Nat
  BY FS_CardinalityType
<1>8. Cardinality({}) = 0
  BY FS_EmptySet
<1> HIDE DEF E, F
<1>9. IsFiniteSet(E)
  BY DEF E
<1>10. /\ IsFiniteSet(E \cup F)
       /\ Cardinality(E \cup F) = Cardinality(E) + Cardinality(F) - Cardinality(E \cap F)
  BY <1>6, <1>9, FS_Union, Zenon
<1>11. /\ IsFiniteSet(Entries(list, S))
       /\ Cardinality(Entries(list, S)) = Cardinality(E) + Cardinality(F) - Cardinality(E \cap F)
  BY <1>2, <1>10, Zenon
<1>12. Cardinality(Entries(list, S)) = list[s] + Cardinality(E)
  <2>1. Cardinality(E \cap F) = 0
    BY <1>3, <1>8, Zenon
  <2> QED
    BY <1>1, <1>6, <1>7, <1>11, <2>1
<1> QED
  BY <1>11, <1>12, Zenon DEF E

LEMMA EntriesFinite ==
    ASSUME NEW list \in [Servers -> Nat], NEW S \in SUBSET Servers
    PROVE  IsFiniteSet(Entries(list, S))
<1> DEFINE Bad == {T \in SUBSET Servers : ~IsFiniteSet(Entries(list, T))}
           Sizes == {Cardinality(T) : T \in Bad}
<1>1. \A T \in SUBSET Servers : IsFiniteSet(T) /\ Cardinality(T) \in Nat
  BY DaemonAssumption, FS_Subset, FS_CardinalityType
<1> SUFFICES ASSUME Bad # {} PROVE FALSE
  OBVIOUS
<1>2. Sizes \in SUBSET Nat /\ Sizes # {}
  BY <1>1
<1>3. PICK T \in Bad : \A U \in Bad : Cardinality(T) <= Cardinality(U)
  <2>1. PICK m \in Sizes : \A k \in Sizes : m <= k
    <3> HIDE DEF Sizes
    <3> QED
      BY <1>2, LeastNumber
  <2> QED
    BY <2>1
<1>4. T # {}
  <2>1. Entries(list, {}) = {}
    BY DEF Entries
  <2> QED
    BY <2>1, FS_EmptySet
<1>5. PICK s \in T : TRUE
  BY <1>4
<1>6. Cardinality(T \ {s}) = Cardinality(T) - 1 /\ Cardinality(T) \in Nat
  BY <1>1, FS_RemoveElement
<1>7. T \ {s} \notin Bad
  BY <1>1, <1>3, <1>6
<1>8. IsFiniteSet(Entries(list, T))
  BY <1>7, EntriesWithOneMore
<1> QED
  BY <1>8

\* The fold that Num_servers is has a solution, which counts the entries.
LEMMA NumServersCounts ==
    ASSUME NEW list \in [Servers -> Nat]
    PROVE  Num_servers(list) = Cardinality(Entries(list, Servers))
<1> DEFINE D == SUBSET Servers
           Solves(f) == f = [s \in D |->
                               IF s = {} THEN 0
                               ELSE LET x == CHOOSE x \in s : TRUE
                                    IN  list[x] + f[s \ {x}]]
           iter == CHOOSE f : Solves(f)
           g == [s \in D |-> Cardinality(Entries(list, s))]
<1>1. Num_servers(list) = iter[Servers]
  <2>1. DOMAIN list = Servers
    OBVIOUS
  <2> QED
    BY <2>1, Zenon DEF Num_servers, FoldFunction, FoldFunctionOnSet, MapThenFoldSet
<1>2. ASSUME NEW s \in D, s # {}
      PROVE  LET x == CHOOSE x \in s : TRUE
             IN  /\ x \in s /\ s \ {x} \in D
                 /\ Cardinality(Entries(list, s)) = list[x] + Cardinality(Entries(list, s \ {x}))
  <2> DEFINE x == CHOOSE x \in s : TRUE
  <2>1. x \in s
    BY <1>2
  <2> HIDE DEF x
  <2>2. s \ {x} \in D
    BY <2>1
  <2>3. IsFiniteSet(Entries(list, s \ {x}))
    BY <2>2, EntriesFinite
  <2>4. Cardinality(Entries(list, s)) = list[x] + Cardinality(Entries(list, s \ {x}))
    BY <2>1, <2>3, EntriesWithOneMore
  <2> QED
    BY <2>1, <2>2, <2>4 DEF x
<1>3. Cardinality(Entries(list, {})) = 0
  <2>1. Entries(list, {}) = {}
    BY DEF Entries
  <2> QED
    BY <2>1, FS_EmptySet
<1>4. Solves(g)
  <2>1. ASSUME NEW s \in D
        PROVE  g[s] = IF s = {} THEN 0
                      ELSE LET x == CHOOSE x \in s : TRUE IN list[x] + g[s \ {x}]
    <3>1. CASE s = {}
      BY <3>1, <1>3
    <3>2. CASE s # {}
      <4> DEFINE x == CHOOSE x \in s : TRUE
      <4>1. /\ s \ {x} \in D
            /\ Cardinality(Entries(list, s)) = list[x] + Cardinality(Entries(list, s \ {x}))
        BY <1>2, <3>2
      <4> HIDE DEF x
      <4>2. g[s] = list[x] + g[s \ {x}]
        BY <4>1
      <4> HIDE DEF g
      <4> QED
        BY <3>2, <4>2 DEF x
    <3> QED
      BY <3>1, <3>2
  <2>2. g = [s \in D |-> g[s]]
    OBVIOUS
  <2> HIDE DEF g, D
  <2> QED
    BY <2>1, <2>2
<1>5. Solves(iter)
  <2> HIDE DEF Solves, g
  <2> QED
    BY <1>4
<1>6. ASSUME NEW s \in D
      PROVE  iter[s] = IF s = {} THEN 0
                       ELSE LET x == CHOOSE x \in s : TRUE IN list[x] + iter[s \ {x}]
  <2> HIDE DEF iter, D
  <2> QED
    BY <1>5
<1> HIDE DEF iter, Solves, g
<1> DEFINE Bad == {s \in D : iter[s] # Cardinality(Entries(list, s))}
           Sizes == {Cardinality(s) : s \in Bad}
<1>7. \A s \in D : IsFiniteSet(s) /\ Cardinality(s) \in Nat
  BY DaemonAssumption, FS_Subset, FS_CardinalityType
<1>8. Bad = {}
  <2> SUFFICES ASSUME Bad # {} PROVE FALSE
    OBVIOUS
  <2>1. Sizes \in SUBSET Nat /\ Sizes # {}
    BY <1>7
  <2>2. PICK m \in Sizes : \A k \in Sizes : m <= k
    <3> HIDE DEF Sizes
    <3> QED
      BY <2>1, LeastNumber
  <2>3. PICK s \in Bad : \A t \in Bad : Cardinality(s) <= Cardinality(t)
    BY <2>2
  <2>4. s # {}
    BY <1>3, <1>6
  <2> DEFINE x == CHOOSE x \in s : TRUE
  <2>5. /\ x \in s /\ s \ {x} \in D
        /\ Cardinality(Entries(list, s)) = list[x] + Cardinality(Entries(list, s \ {x}))
    BY <2>4, <1>2
  <2>6. iter[s] = list[x] + iter[s \ {x}]
    BY <2>4, <1>6
  <2> HIDE DEF x
  <2>7. Cardinality(s \ {x}) = Cardinality(s) - 1 /\ Cardinality(s) \in Nat
    BY <1>7, <2>5, FS_RemoveElement
  <2>8. s \ {x} \notin Bad
    BY <1>7, <2>3, <2>5, <2>7
  <2>9. iter[s \ {x}] = Cardinality(Entries(list, s \ {x}))
    BY <2>5, <2>8
  <2> QED
    BY <2>5, <2>6, <2>9
<1> QED
  BY <1>1, <1>8

LEMMA NumServersType ==
    ASSUME NEW list \in [Servers -> Nat]
    PROVE  Num_servers(list) \in Nat
BY NumServersCounts, EntriesFinite, FS_CardinalityType

\* The list is as long as its servers are many times what each is in it.
LEMMA NumServersOfAll ==
    ASSUME NEW list \in [Servers -> Nat], NEW k \in Nat, \A s \in Servers : list[s] = k
    PROVE  Num_servers(list) = k * Cardinality(Servers) /\ Cardinality(Servers) \in Nat
<1>1. Entries(list, Servers) = Servers \X (1 .. k)
  <2>1. 1 .. k = {n \in Nat \ {0} : n <= k}
    OBVIOUS
  <2> QED
    BY <2>1 DEF Entries
<1>2. /\ IsFiniteSet(Servers) /\ Cardinality(Servers) \in Nat
      /\ IsFiniteSet(1 .. k) /\ Cardinality(1 .. k) = k
  BY DaemonAssumption, FS_CardinalityType, FS_Interval
<1>3. Cardinality(Servers \X (1 .. k)) = Cardinality(Servers) * Cardinality(1 .. k)
  BY <1>2, FS_Product
<1>4. Num_servers(list) = Cardinality(Servers \X (1 .. k))
  BY <1>1, NumServersCounts, Zenon
<1> QED
  BY <1>2, <1>3, <1>4

---------------------------------------------------------------------------
(* The types of the rest. *)

\* The connections of a socket, with requests that were sent before.
IsSocket(q, sent) ==
    /\ q = [p \in DOMAIN q |-> q[p]]
    /\ IsFiniteSet(DOMAIN q) /\ DOMAIN q \subseteq Servers \X (Nat \ {0})
    /\ \A p \in DOMAIN q : q[p] \in Seq(sent)

SocketTypes ==
    /\ queue = [c \in Clients |-> queue[c]]
    /\ used \in [Clients -> SUBSET (Nat \X Phases)]
    /\ regular \in [Clients -> BOOLEAN]
    /\ \A c \in Clients : IsSocket(queue[c], used[c])

ClientTypes ==
    /\ servers \in [Clients -> SUBSET Servers]
    /\ ip_list \in [Clients -> [Servers -> Nat]]
    /\ opnum \in [Clients -> Nat]
    /\ responses \in [Clients -> Nat]
    /\ counted \in [Clients -> SUBSET Servers]
    /\ quorums \subseteq SUBSET Servers

OperatorTypes ==
    /\ todo \in Seq(Asked) /\ job \subseteq Asked
    /\ known \in [servers : SUBSET Servers, readers : SUBSET Readers,
                  writers : SUBSET Writers]
    /\ serving \subseteq Servers

\* A phase that is in progress has not enough answers yet.
InProgress ==
    \A c \in Clients :
       pc[c] \in Phases => responses[c] < Majority(Num_servers(ip_list[c]))

LoopInv == SocketTypes /\ ClientTypes /\ InProgress

TInv == CInv /\ LoopInv /\ OperatorTypes

LEMMA TInvGivesTypeOK == TInv => TypeOK
BY DEF TInv, CInv, CommandTypes, OneHandlerWaits, LoopInv, SocketTypes, ClientTypes,
       InProgress, OperatorTypes, IsSocket, TypeOK

LEMMA TInvInit == Init => TInv
<1> SUFFICES ASSUME Init PROVE TInv
  OBVIOUS
<1>1. CInv
  BY CInvInit
<1>2. /\ todo = <<>> /\ job = {} /\ serving = {}
      /\ known = [servers |-> {}, readers |-> {}, writers |-> {}]
  BY DEF Init
<1>3. OperatorTypes
  BY <1>2 DEF OperatorTypes
<1>4. /\ servers = CommandLine
      /\ ip_list = [c \in Clients |-> [s \in Servers |-> IF s \in CommandLine[c] THEN 1 ELSE 0]]
      /\ opnum = [c \in Clients |-> IF c \in Readers THEN 0 ELSE 1]
      /\ responses = [c \in Clients |-> 0] /\ counted = [c \in Clients |-> {}]
      /\ quorums = {}
      /\ pc = [c \in Clients |-> "boot"]
  BY DEF Init, InitClients
<1>5. ClientTypes
  BY <1>4, DaemonAssumption DEF ClientTypes
<1>6. InProgress
  BY <1>4 DEF InProgress, Phases
<1>7. /\ queue = [c \in Clients |-> <<>>] /\ used = [c \in Clients |-> {}]
      /\ regular = [c \in Clients |-> FALSE]
  BY DEF Init, InitClients
<1>8. ASSUME NEW sent PROVE IsSocket(<<>>, sent)
  <2>1. DOMAIN <<>> = {}
    OBVIOUS
  <2>2. <<>> = [p \in {} |-> <<>>[p]]
    OBVIOUS
  <2> QED
    BY <2>1, <2>2, FS_EmptySet DEF IsSocket
<1>9. SocketTypes
  BY <1>7, <1>8 DEF SocketTypes
<1> QED
  BY <1>1, <1>3, <1>5, <1>6, <1>9 DEF TInv, LoopInv

\* A socket that is connected anew, or the one there is.
LEMMA ConnectedSocket ==
    ASSUME SocketTypes, NEW c \in Clients, NEW list \in [Servers -> Nat]
    PROVE  IsSocket(get_socket_servers(c, list), used[c])
<1> DEFINE E == UNION {{s} \X (1 .. list[s]) : s \in Servers}
           P == {x \in E : SameAddressTwice \/ x[2] = 1}
<1>1. CASE DOMAIN queue[c] # {}
  BY <1>1 DEF get_socket_servers, SocketTypes
<1>2. CASE DOMAIN queue[c] = {}
  <2>1. get_socket_servers(c, list) = [p \in P |-> <<>>]
    BY <1>2 DEF get_socket_servers
  <2>2. P \subseteq Entries(list, Servers)
    BY DEF Entries
  <2>3. IsFiniteSet(P) /\ P \subseteq Servers \X (Nat \ {0})
    <3> HIDE DEF P
    <3> QED
      BY <2>2, EntriesFinite, FS_Subset DEF Entries
  <2> HIDE DEF P
  <2>4. \A q : q = [p \in P |-> <<>>] => IsSocket(q, used[c])
    BY <2>3 DEF IsSocket
  <2> QED
    BY <2>1, <2>4
<1> QED
  BY <1>1, <1>2

\* Requests appended to a connection.
LEMMA MoreOnConnection ==
    ASSUME NEW sent, NEW m, NEW s \in Seq(sent), NEW n \in Nat
    PROVE  s \o [i \in 1 .. n |-> m] \in Seq(sent \cup {m})
<1> DEFINE t == [i \in 1 .. n |-> m]
<1>1. t \in Seq(sent \cup {m})
  OBVIOUS
<1>2. s \in Seq(sent \cup {m})
  <2>1. DOMAIN s = 1 .. Len(s) /\ Len(s) \in Nat /\ \A i \in 1 .. Len(s) : s[i] \in sent
    BY LenProperties, ElementOfSeq
  <2> QED
    BY <2>1, SeqDef
<1> HIDE DEF t
<1>3. s \o t \in Seq(sent \cup {m})
  BY <1>1, <1>2, ConcatProperties
<1> QED
  BY <1>3 DEF t

\* The step sends m for the first time, and as often to each connection.
SendsEvenly(c, pipes, list, m) ==
    /\ m \notin used[c]
    /\ \E each \in Nat :
         /\ each * Cardinality(DOMAIN pipes) = Num_servers(list)
         /\ \A p \in DOMAIN pipes :
              queue'[c][p] = pipes[p] \o [i \in 1 .. each |-> m]

(***************************************************************************)
(* What a multicast leaves: every connection as it was with copies of m    *)
(* behind.  In a regular one they are as many on each.                     *)
(***************************************************************************)
LEMMA Multicast ==
    ASSUME SocketTypes, NEW c \in Clients, NEW pipes, IsSocket(pipes, used[c]),
           NEW list \in [Servers -> Nat], NEW m \in Nat \X Phases,
           send_multicast_servers(c, pipes, list, m)
    PROVE  /\ SocketTypes'
           /\ \A d \in Clients \ {c} : /\ queue'[d] = queue[d] /\ used'[d] = used[d]
                                       /\ regular'[d] = regular[d]
           /\ DOMAIN queue'[c] = DOMAIN pipes
           /\ regular'[c] => SendsEvenly(c, pipes, list, m)
<1> DEFINE copies == Num_servers(list)
           Known  == {s \in Servers : list[s] > 0}
           Of(s)  == {p[2] : p \in {x \in DOMAIN pipes : x[1] = s}}
<1>1. PICK full \in SUBSET {p \in DOMAIN pipes : Len(pipes[p]) >= HWM} :
        LET open == DOMAIN pipes \ full
            each == copies \div Cardinality(open)
        IN  /\ open # {}
            /\ \E more \in SUBSET open :
                 /\ Cardinality(more) = copies % Cardinality(open)
                 /\ LET Sent(p) == IF p \in more THEN each + 1
                                   ELSE IF p \in open THEN each ELSE 0
                    IN  queue' = [queue EXCEPT ![c] =
                                    [p \in DOMAIN pipes |->
                                       pipes[p] \o [i \in 1 .. Sent(p) |-> m]]]
                 /\ regular' = [regular EXCEPT ![c] =
                                  /\ m \notin used[c]
                                  /\ full = {} /\ more = {}
                                  /\ \A s, t \in Known : Of(s) = Of(t)]
                 /\ used' = [used EXCEPT ![c] = @ \cup {m}]
  BY DEF send_multicast_servers
<1> DEFINE open == DOMAIN pipes \ full
           each == copies \div Cardinality(open)
<1>2. PICK more \in SUBSET open :
        /\ open # {}
        /\ Cardinality(more) = copies % Cardinality(open)
        /\ queue' = [queue EXCEPT ![c] =
                       [p \in DOMAIN pipes |->
                          pipes[p] \o [i \in 1 .. (IF p \in more THEN each + 1
                                                   ELSE IF p \in open THEN each ELSE 0) |-> m]]]
        /\ regular' = [regular EXCEPT ![c] =
                         /\ m \notin used[c]
                         /\ full = {} /\ more = {}
                         /\ \A s, t \in Known : Of(s) = Of(t)]
        /\ used' = [used EXCEPT ![c] = @ \cup {m}]
  BY <1>1
<1>3. copies \in Nat
  BY NumServersType
<1>4. IsFiniteSet(DOMAIN pipes)
  BY DEF IsSocket
<1>5. IsFiniteSet(open) /\ Cardinality(open) \in Nat \ {0}
  <2>1. IsFiniteSet(open)
    BY <1>4, FS_Subset
  <2>2. Cardinality(open) \in Nat
    BY <2>1, FS_CardinalityType
  <2>3. Cardinality(open) # 0
    BY <1>2, <2>1, FS_EmptySet
  <2> QED
    BY <2>1, <2>2, <2>3
<1> HIDE DEF copies, Known, Of, open
<1>6. each \in Nat
  BY <1>3, <1>5
<1> HIDE DEF each
<1> DEFINE Sent(p) == IF p \in more THEN each + 1 ELSE IF p \in open THEN each ELSE 0
           after == [p \in DOMAIN pipes |-> pipes[p] \o [i \in 1 .. Sent(p) |-> m]]
           even  == /\ m \notin used[c]
                    /\ full = {} /\ more = {}
                    /\ \A s, t \in Known : Of(s) = Of(t)
<1>7. /\ queue' = [queue EXCEPT ![c] = after]
      /\ regular' = [regular EXCEPT ![c] = even]
      /\ used' = [used EXCEPT ![c] = @ \cup {m}]
  BY <1>2, Zenon
<1>8. IsSocket(after, used[c] \cup {m})
  <2>1. DOMAIN after = DOMAIN pipes /\ after = [p \in DOMAIN after |-> after[p]]
    OBVIOUS
  <2>2. ASSUME NEW p \in DOMAIN pipes PROVE after[p] \in Seq(used[c] \cup {m})
    <3>1. Sent(p) \in Nat
      BY <1>6
    <3>2. pipes[p] \in Seq(used[c])
      BY DEF IsSocket
    <3> HIDE DEF Sent
    <3> QED
      BY <3>1, <3>2, MoreOnConnection
  <2> HIDE DEF after
  <2> QED
    BY <2>1, <2>2 DEF IsSocket
<1>9. even \in BOOLEAN
  OBVIOUS
<1> HIDE DEF after, even
<1>10. /\ queue'[c] = after /\ used'[c] = used[c] \cup {m} /\ regular'[c] = even
       /\ \A d \in Clients \ {c} : /\ queue'[d] = queue[d] /\ used'[d] = used[d]
                                   /\ regular'[d] = regular[d]
  BY <1>7 DEF SocketTypes
<1>11. SocketTypes'
  <2>1. queue' = [d \in Clients |-> queue'[d]]
    BY <1>7 DEF SocketTypes
  <2>2. used' \in [Clients -> SUBSET (Nat \X Phases)] /\ regular' \in [Clients -> BOOLEAN]
    BY <1>7, <1>9 DEF SocketTypes
  <2>3. \A d \in Clients : IsSocket(queue'[d], used'[d])
    BY <1>8, <1>10 DEF SocketTypes
  <2> QED
    BY <2>1, <2>2, <2>3 DEF SocketTypes
<1>12. ASSUME even
       PROVE  /\ m \notin used[c]
              /\ each * Cardinality(DOMAIN pipes) = Num_servers(list)
              /\ \A p \in DOMAIN pipes : after[p] = pipes[p] \o [i \in 1 .. each |-> m]
  <2>1. m \notin used[c] /\ full = {} /\ more = {}
    BY <1>12 DEF even
  <2>2. open = DOMAIN pipes
    BY <2>1 DEF open
  <2>3. copies % Cardinality(open) = 0
    <3>1. Cardinality({}) = 0
      BY FS_EmptySet
    <3> QED
      BY <1>2, <2>1, <3>1
  <2>4. each * Cardinality(open) = copies
    BY <1>3, <1>5, <2>3, SMTT(30) DEF each
  <2>5. \A p \in DOMAIN pipes : Sent(p) = each
    BY <2>1, <2>2
  <2> QED
    BY <2>1, <2>2, <2>4, <2>5 DEF after, copies
<1>13. DOMAIN after = DOMAIN pipes
  BY DEF after
<1> QED
  BY <1>6, <1>10, <1>11, <1>12, <1>13 DEF SendsEvenly

LEMMA BeginPhaseKeeps ==
    ASSUME LoopInv, pc \in [Clients -> {"boot", "loop", "exited"} \cup Phases],
           NEW c \in Clients, NEW pipes, IsSocket(pipes, used[c]),
           NEW list \in [Servers -> Nat], NEW num \in Nat, NEW phase \in Phases,
           BeginPhase(c, pipes, list, num, phase),
           ip_list' = [ip_list EXCEPT ![c] = list],
           servers' = servers, opnum' \in [Clients -> Nat], quorums' \subseteq SUBSET Servers
    PROVE  LoopInv'
<1>1. <<num, phase>> \in Nat \X Phases
  OBVIOUS
<1>2. SocketTypes'
  BY <1>1, Multicast DEF LoopInv, BeginPhase
<1>3. ClientTypes'
  BY DEF LoopInv, ClientTypes, BeginPhase
<1>4. InProgress'
  <2> SUFFICES ASSUME NEW d \in Clients, pc'[d] \in Phases
               PROVE  responses'[d] < Majority(Num_servers(ip_list'[d]))
    BY DEF InProgress
  <2>1. CASE d = c
    <3>1. responses'[d] = 0 /\ ip_list'[d] = list
      BY <2>1 DEF BeginPhase, LoopInv, ClientTypes
    <3>2. Num_servers(list) \in Nat
      BY NumServersType
    <3> QED
      BY <3>1, <3>2 DEF Majority
  <2>2. CASE d # c
    <3>1. pc'[d] = pc[d] /\ responses'[d] = responses[d] /\ ip_list'[d] = ip_list[d]
      BY <2>2 DEF BeginPhase, LoopInv, ClientTypes
    <3> QED
      BY <3>1 DEF LoopInv, InProgress
  <2> QED
    BY <2>1, <2>2
<1> QED
  BY <1>2, <1>3, <1>4 DEF LoopInv

\* Nothing of a loop changes but the servers known and whether it runs.
LEMMA LoopStays ==
    ASSUME LoopInv, servers' \in [Clients -> SUBSET Servers],
           UNCHANGED <<ip_list, opnum, countVars, sentVars>>,
           \A c \in Clients : pc'[c] \in Phases => pc'[c] = pc[c]
    PROVE  LoopInv'
<1>1. UNCHANGED <<ip_list, opnum, responses, counted, quorums, queue, regular, used>>
  BY DEF countVars, sentVars
<1> QED
  BY <1>1 DEF LoopInv, SocketTypes, ClientTypes, InProgress, IsSocket

LEMMA LoopStepKeepsTypes ==
    ASSUME LoopInv, CInv, NEW c \in Clients, LoopStep(c)
    PROVE  LoopInv'
<1>0. /\ pc \in [Clients -> {"boot", "loop", "exited"} \cup Phases]
      /\ servers \in [Clients -> SUBSET Servers] /\ opnum \in [Clients -> Nat]
      /\ ip_list \in [Clients -> [Servers -> Nat]]
      /\ SocketTypes
  BY DEF CInv, CommandTypes, LoopInv, ClientTypes
<1>1. CASE Boot(c) \/ IgnoreCommand(c) \/ Exit(c)
  <2>1. /\ servers' = servers
        /\ UNCHANGED <<ip_list, countVars, sentVars>>
        /\ (pc' = pc \/ pc' = [pc EXCEPT ![c] = "loop"] \/ pc' = [pc EXCEPT ![c] = "exited"])
    BY <1>1 DEF Boot, IgnoreCommand, Exit, MayTurn, controlVars
  <2>2. \A d \in Clients : pc'[d] \in Phases => pc'[d] = pc[d]
    BY <1>0, <2>1 DEF Phases
  <2>3. CASE opnum' = opnum
    BY <1>0, <2>1, <2>3, <2>2, LoopStays
  <2>4. CASE opnum' = [opnum EXCEPT ![c] = @ + 1]
    <3>1. ip_list' = ip_list /\ UNCHANGED <<responses, counted, quorums, queue, regular, used>>
      BY <2>1 DEF countVars, sentVars
    <3> QED
      BY <2>1, <2>4, <2>2, <3>1 DEF LoopInv, SocketTypes, ClientTypes, InProgress, IsSocket
  <2> QED
    BY <1>1, <2>3, <2>4 DEF Boot, IgnoreCommand, Exit, MayTurn, controlVars
<1>2. CASE TakeCommand(c)
  <2> DEFINE list == [s \in Servers |-> ip_list[c][s] + IF s \in servers[c] THEN 1 ELSE 0]
  <2>1. list \in [Servers -> Nat]
    BY <1>0
  <2>2. /\ ip_list' = [ip_list EXCEPT ![c] = list] /\ servers' = servers
        /\ pc[c] = "loop"
        /\ \/ UNCHANGED <<pc, opnum, countVars, sentVars>>
           \/ /\ opnum' = [opnum EXCEPT ![c] = 0]
              /\ BeginPhase(c, get_socket_servers(c, list), list, 1, "GET_TAG")
              /\ UNCHANGED quorums
    BY <1>2 DEF TakeCommand
  <2> HIDE DEF list
  <2>3. CASE UNCHANGED <<pc, opnum, countVars, sentVars>>
    <3>1. UNCHANGED <<pc, opnum, responses, counted, quorums, queue, regular, used>>
      BY <2>3 DEF countVars, sentVars
    <3>2. SocketTypes' /\ ClientTypes'
      BY <2>1, <2>2, <3>1 DEF LoopInv, SocketTypes, ClientTypes, IsSocket
    <3>3. pc[c] \notin Phases
      BY <2>2 DEF Phases
    <3>4. \A d \in Clients \ {c} : ip_list'[d] = ip_list[d]
      BY <1>0, <2>2
    <3>5. InProgress'
      BY <3>1, <3>3, <3>4 DEF LoopInv, InProgress
    <3> QED
      BY <3>2, <3>5 DEF LoopInv
  <2>4. CASE /\ opnum' = [opnum EXCEPT ![c] = 0]
             /\ BeginPhase(c, get_socket_servers(c, list), list, 1, "GET_TAG")
             /\ UNCHANGED quorums
    <3>1. IsSocket(get_socket_servers(c, list), used[c])
      BY <1>0, <2>1, ConnectedSocket
    <3>2. opnum' \in [Clients -> Nat] /\ quorums' \subseteq SUBSET Servers
      BY <1>0, <2>4 DEF LoopInv, ClientTypes
    <3>3. "GET_TAG" \in Phases
      BY DEF Phases
    <3> QED
      BY <1>0, <2>1, <2>2, <2>4, <3>1, <3>2, <3>3, BeginPhaseKeeps
  <2> QED
    BY <2>2, <2>3, <2>4
<1>3. CASE BeginOperation(c)
  <2> DEFINE phase == IF c \in Readers THEN "GET_TAG_VALUE" ELSE "GET_TAG"
  <2>1. /\ BeginPhase(c, get_socket_servers(c, ip_list[c]), ip_list[c], opnum[c] + 1, phase)
        /\ opnum' = [opnum EXCEPT ![c] = @ + 1]
        /\ UNCHANGED <<servers, ip_list, quorums>>
    BY <1>3 DEF BeginOperation, MayTurn
  <2>2. IsSocket(get_socket_servers(c, ip_list[c]), used[c]) /\ ip_list[c] \in [Servers -> Nat]
    BY <1>0, ConnectedSocket
  <2>3. opnum[c] + 1 \in Nat /\ opnum' \in [Clients -> Nat] /\ phase \in Phases
    BY <1>0, <2>1 DEF Phases
  <2>4. quorums' \subseteq SUBSET Servers /\ ip_list' = [ip_list EXCEPT ![c] = ip_list[c]]
    BY <1>0, <2>1 DEF LoopInv, ClientTypes
  <2> HIDE DEF phase
  <2> QED
    BY <1>0, <2>1, <2>2, <2>3, <2>4, BeginPhaseKeeps
<1> QED
  BY <1>1, <1>2, <1>3 DEF LoopStep

LEMMA RestIsSocket ==
    ASSUME SocketTypes, NEW c \in Clients, NEW p \in DOMAIN queue[c], queue[c][p] # <<>>
    PROVE  IsSocket(Rest(c, p), used[c]) /\ DOMAIN Rest(c, p) = DOMAIN queue[c]
<1>1. IsSocket(queue[c], used[c])
  BY DEF SocketTypes
<1>2. Tail(queue[c][p]) \in Seq(used[c])
  BY <1>1, HeadTailProperties DEF IsSocket
<1> QED
  BY <1>1, <1>2 DEF IsSocket, Rest

LEMMA AnswerKeepsTypes ==
    ASSUME LoopInv, pc \in [Clients -> {"boot", "loop", "exited"} \cup Phases],
           NEW c \in Clients, NEW p \in DOMAIN queue[c], Answer(c, p)
    PROVE  LoopInv'
<1>0. /\ SocketTypes /\ ClientTypes /\ InProgress
      /\ pc[c] \in Phases /\ p[1] \in Servers
      /\ UNCHANGED <<servers, ip_list, opnum>>
  <2>1. MayRead(c, p)
    BY DEF Answer, OldAnswer, CountAnswer, EndGet, EndOperation, LastAnswer
  <2> QED
    BY <2>1 DEF MayRead, LoopInv, SocketTypes, IsSocket
<1>1. IsSocket(Rest(c, p), used[c])
  BY <1>0, RestIsSocket DEF Answer, OldAnswer, CountAnswer, EndGet, EndOperation, LastAnswer,
     MayRead
<1>2. ASSUME queue' = [queue EXCEPT ![c] = Rest(c, p)], UNCHANGED <<regular, used>>
      PROVE  SocketTypes'
  BY <1>0, <1>1, <1>2 DEF SocketTypes, IsSocket
<1>3. CASE OldAnswer(c, p)
  <2>1. /\ queue' = [queue EXCEPT ![c] = Rest(c, p)]
        /\ UNCHANGED <<pc, responses, counted, quorums, regular, used>>
    BY <1>3 DEF OldAnswer, countVars
  <2> QED
    BY <1>0, <1>2, <2>1 DEF LoopInv, ClientTypes, InProgress
<1>4. CASE CountAnswer(c, p)
  <2>1. /\ queue' = [queue EXCEPT ![c] = Rest(c, p)]
        /\ UNCHANGED <<pc, quorums, regular, used>>
        /\ responses[c] + 1 < Majority(Num_servers(ip_list[c]))
        /\ responses' = [responses EXCEPT ![c] = @ + 1]
        /\ counted' = [counted EXCEPT ![c] = @ \cup {p[1]}]
    BY <1>4 DEF CountAnswer
  <2>2. ClientTypes'
    BY <1>0, <2>1 DEF ClientTypes
  <2>3. InProgress'
    BY <1>0, <2>1 DEF ClientTypes, InProgress
  <2> QED
    BY <1>2, <2>1, <2>2, <2>3 DEF LoopInv
<1>5. CASE EndGet(c, p)
  <2>1. /\ BeginPhase(c, Rest(c, p), ip_list[c], Num(c), "WRITE_VALUE")
        /\ quorums' \in {quorums, quorums \cup {counted[c] \cup {p[1]}}}
    BY <1>5 DEF EndGet, LastAnswer
  <2>2. /\ Num(c) \in Nat /\ "WRITE_VALUE" \in Phases
        /\ ip_list[c] \in [Servers -> Nat] /\ ip_list' = [ip_list EXCEPT ![c] = ip_list[c]]
        /\ opnum' \in [Clients -> Nat] /\ quorums' \subseteq SUBSET Servers
    BY <1>0, <2>1 DEF ClientTypes, Num, Phases
  <2> QED
    BY <1>0, <1>1, <2>1, <2>2, BeginPhaseKeeps
<1>6. CASE EndOperation(c, p)
  <2>1. /\ pc' = [pc EXCEPT ![c] = "loop"]
        /\ queue' = [queue EXCEPT ![c] = Rest(c, p)]
        /\ responses' = [responses EXCEPT ![c] = 0]
        /\ counted' = [counted EXCEPT ![c] = {}]
        /\ UNCHANGED <<regular, used>>
        /\ quorums' \in {quorums, quorums \cup {counted[c] \cup {p[1]}}}
    BY <1>6 DEF EndOperation, LastAnswer
  <2>2. ClientTypes'
    BY <1>0, <2>1 DEF ClientTypes
  <2>3. InProgress'
    BY <1>0, <2>1 DEF ClientTypes, InProgress, Phases
  <2> QED
    BY <1>2, <2>1, <2>2, <2>3 DEF LoopInv
<1> QED
  BY <1>3, <1>4, <1>5, <1>6 DEF Answer

\* What the controller passes on may be asked for.
LEMMA RequestsAreAsked ==
    ASSUME OperatorTypes, NEW r \in Asked
    PROVE  /\ Requests(r) \subseteq Asked
           /\ Registered(r) \in [servers : SUBSET Servers, readers : SUBSET Readers,
                                 writers : SUBSET Writers]
<1>1. /\ known \in [servers : SUBSET Servers, readers : SUBSET Readers,
                    writers : SUBSET Writers]
      /\ r.ips \subseteq Clients \cup Servers
      /\ r.route = "SetServers" => r.ips \subseteq Servers
      /\ r.route = "SetReaders" => r.ips \subseteq Readers
      /\ r.route = "SetWriters" => r.ips \subseteq Writers
  BY DEF OperatorTypes, Asked
<1>2. Registered(r) \in [servers : SUBSET Servers, readers : SUBSET Readers,
                         writers : SUBSET Writers]
  <2>1. \A k \in [servers : SUBSET Servers, readers : SUBSET Readers,
                  writers : SUBSET Writers] :
          /\ \A S \in SUBSET Servers : [k EXCEPT !.servers = @ \cup S] \in
               [servers : SUBSET Servers, readers : SUBSET Readers, writers : SUBSET Writers]
          /\ \A S \in SUBSET Readers : [k EXCEPT !.readers = @ \cup S] \in
               [servers : SUBSET Servers, readers : SUBSET Readers, writers : SUBSET Writers]
          /\ \A S \in SUBSET Writers : [k EXCEPT !.writers = @ \cup S] \in
               [servers : SUBSET Servers, readers : SUBSET Readers, writers : SUBSET Writers]
    OBVIOUS
  <2> QED
    BY <1>1, <2>1, Zenon DEF Registered
<1>3. ASSUME NEW url \in Routes, NEW P \in SUBSET (Clients \cup Servers),
             url \notin {"SetServers", "SetReaders", "SetWriters"}
      PROVE  clusterCommand(url, P) \subseteq Asked
  <2>1. ASSUME NEW q \in P PROVE Request(q, url, {}) \in Asked
    BY <1>3 DEF Request, Asked
  <2> QED
    BY <2>1 DEF clusterCommand
<1>4. ASSUME NEW ips \in SUBSET Servers, NEW P \in SUBSET (Clients \cup Servers)
      PROVE  {Request(q, "SetServers", ips) : q \in P} \subseteq Asked
  <2>1. ASSUME NEW q \in P PROVE Request(q, "SetServers", ips) \in Asked
    <3>1. ips \in SUBSET (Clients \cup Servers) /\ q \in {Controller} \cup Clients \cup Servers
      OBVIOUS
    <3> QED
      BY <3>1 DEF Request, Asked, Routes
  <2> QED
    BY <2>1
<1>5. Announced(r) \subseteq Asked
  <2>1. /\ known.servers \in SUBSET Servers /\ Registered(r).servers \in SUBSET Servers
        /\ Registered(r).readers \in SUBSET Readers /\ Registered(r).writers \in SUBSET Writers
    BY <1>1, <1>2
  <2>2. \A P : P \in SUBSET Servers \/ P \in SUBSET Readers \/ P \in SUBSET Writers
                 => P \in SUBSET (Clients \cup Servers)
    BY DEF Clients
  <2>3. /\ {Request(q, "SetServers", Registered(r).servers) : q \in Registered(r).servers}
             \subseteq Asked
        /\ {Request(q, "SetServers", known.servers) : q \in Registered(r).readers}
             \subseteq Asked
        /\ {Request(q, "SetServers", known.servers) : q \in Registered(r).writers}
             \subseteq Asked
    BY <1>4, <2>1, <2>2
  <2> QED
    BY <2>3 DEF Announced
<1>6. ToAProcess(r) \subseteq Asked
  <2>1. \A url \in {"StartProcess", "StopProcess", "KillProcess"} :
          clusterCommand(url, r.ips) \subseteq Asked
    <3>1. r.ips \in SUBSET (Clients \cup Servers)
      BY <1>1
    <3> QED
      BY <1>3, <3>1 DEF Routes
  <2> QED
    BY <2>1, Zenon DEF ToAProcess
<1>7. ToAll(r) \subseteq Asked
  <2>1. /\ known.servers \in SUBSET (Clients \cup Servers)
        /\ known.readers \in SUBSET (Clients \cup Servers)
        /\ known.writers \in SUBSET (Clients \cup Servers)
    BY <1>1 DEF Clients
  <2>2. \A url \in {"StartProcess", "StopReaders", "StopWriters", "StopServers"} :
          /\ clusterCommand(url, known.servers) \subseteq Asked
          /\ clusterCommand(url, known.readers) \subseteq Asked
          /\ clusterCommand(url, known.writers) \subseteq Asked
    BY <2>1, <1>3 DEF Routes
  <2> QED
    BY <2>2, Zenon DEF ToAll
<1> QED
  BY <1>2, <1>5, <1>6, <1>7 DEF Requests

LEMMA AdministerKeepsTypes ==
    ASSUME TInv, Give \/ Administer
    PROVE  LoopInv' /\ OperatorTypes'
<1>0. LoopInv /\ OperatorTypes /\ job \subseteq Asked
  BY DEF TInv, OperatorTypes
<1>1. ASSUME UNCHANGED clientVars
      PROVE  LoopInv'
  <2>1. UNCHANGED <<pc, servers, ip_list, opnum, countVars, sentVars>>
    BY <1>1 DEF clientVars, controlVars
  <2>2. servers' \in [Clients -> SUBSET Servers]
    BY <1>0, <2>1 DEF LoopInv, ClientTypes
  <2> QED
    BY <1>0, <2>1, <2>2, LoopStays
<1>2. CASE Give
  <2>1. todo' \in Seq(Asked) /\ UNCHANGED <<clientVars, known, serving, job>>
    BY <1>2, CommandsAssumption DEF Give
  <2> QED
    BY <1>0, <1>1, <2>1 DEF OperatorTypes
<1>3. CASE Handle \/ HandleDirect
  <2>1. Head(todo) \in Asked /\ Tail(todo) \in Seq(Asked)
    BY <1>0, <1>3, HeadTailProperties DEF Handle, HandleDirect, OperatorTypes
  <2>2. CASE Handle
    BY <1>0, <1>1, <2>1, <2>2, RequestsAreAsked DEF Handle, OperatorTypes
  <2>3. CASE HandleDirect
    BY <1>0, <1>1, <2>1, <2>3 DEF HandleDirect, OperatorTypes
  <2> QED
    BY <1>3, <2>2, <2>3
<1>4. CASE Respond
  BY <1>0, <1>1, <1>4 DEF Respond, OperatorTypes
<1>5. ASSUME NEW r \in job, Send(r), serving' \in {serving, serving \cup {r.to}},
             serving' = serving \/ r.to \in Servers
      PROVE  OperatorTypes'
  BY <1>0, <1>5 DEF Send, OperatorTypes
<1>6. ASSUME NEW r \in job, SendSetServers(r)
      PROVE  LoopInv' /\ OperatorTypes'
  <2>1. r.ips \subseteq Servers
    BY <1>0, <1>6 DEF SendSetServers, Asked
  <2>2. /\ Send(r) /\ serving' = serving
        /\ servers' = [servers EXCEPT ![r.to] = @ \cup r.ips]
        /\ UNCHANGED <<pc, ip_list, opnum, countVars, sentVars>>
    BY <1>6 DEF SendSetServers, SetServers
  <2>3. servers' \in [Clients -> SUBSET Servers]
    BY <1>0, <2>1, <2>2 DEF LoopInv, ClientTypes
  <2> QED
    BY <1>0, <1>5, <2>2, <2>3, LoopStays
<1>7. ASSUME NEW r \in job, SendStartOrStop(r)
      PROVE  LoopInv' /\ OperatorTypes'
  <2>1. /\ Send(r) /\ serving' = serving
        /\ UNCHANGED <<pc, servers, ip_list, opnum, countVars, sentVars>>
    BY <1>7 DEF SendStartOrStop, SendCommand
  <2>2. servers' \in [Clients -> SUBSET Servers]
    BY <1>0, <2>1 DEF LoopInv, ClientTypes
  <2> QED
    BY <1>0, <1>5, <2>1, <2>2, LoopStays
<1>8. ASSUME NEW r \in job, SendForNothing(r) \/ SendToServer(r)
      PROVE  LoopInv' /\ OperatorTypes'
  BY <1>1, <1>5, <1>8 DEF SendForNothing, SendToServer
<1> QED
  BY <1>2, <1>3, <1>4, <1>6, <1>7, <1>8 DEF Administer

LEMMA TInvNext == TInv /\ [Next]_vars => TInv'
<1> SUFFICES ASSUME TInv, [Next]_vars PROVE TInv'
  OBVIOUS
<1>1. CInv' /\ pc \in [Clients -> {"boot", "loop", "exited"} \cup Phases]
  BY CInvNext DEF TInv, CInv, CommandTypes
<1>2. LoopInv' /\ OperatorTypes'
  <2>1. CASE Give \/ Administer
    BY <2>1, AdministerKeepsTypes
  <2>2. ASSUME NEW c \in Clients, ClientStep(c)
        PROVE  LoopInv' /\ OperatorTypes'
    BY <2>2, LoopStepKeepsTypes DEF ClientStep, TInv, OperatorTypes
  <2>3. ASSUME NEW c \in Clients, NEW p \in DOMAIN queue[c], ServerStep(c, p)
        PROVE  LoopInv' /\ OperatorTypes'
    BY <1>1, <2>3, AnswerKeepsTypes DEF ServerStep, TInv, OperatorTypes
  <2>4. CASE UNCHANGED vars
    <3>1. /\ UNCHANGED <<pc, servers, ip_list, opnum, countVars, sentVars>>
          /\ UNCHANGED <<known, serving, todo, job>>
      BY <2>4 DEF vars, clientVars, controlVars
    <3>2. servers' \in [Clients -> SUBSET Servers]
      BY <3>1 DEF TInv, LoopInv, ClientTypes
    <3> QED
      BY <3>1, <3>2, LoopStays DEF TInv, OperatorTypes
  <2> QED
    BY <2>1, <2>2, <2>3, <2>4 DEF Next
<1> QED
  BY <1>1, <1>2 DEF TInv

(***************************************************************************)
(* Every variable of a deployment has its type, and no phase goes on once  *)
(* it has counted a majority of the list.                                  *)
(***************************************************************************)
THEOREM TypesCorrect == Spec => []TypeOK
<1>1. Init => TInv
  BY TInvInit
<1>2. TInv /\ [Next]_vars => TInv'
  BY TInvNext
<1>3. TInv => TypeOK
  BY TInvGivesTypeOK
<1> QED
  BY <1>1, <1>2, <1>3, PTL DEF Spec

---------------------------------------------------------------------------
(* Phases that reach all servers evenly count a majority of the servers. *)

\* All servers are set at once, and by everyone.
ServersSetAtOnce ==
    /\ \A c \in Clients : CommandLine[c] \in {{}, Servers}
    /\ Commands \subseteq Seq({r \in Asked : r.route = "SetServers" => r.ips = Servers})

\* The list of a client that was passed on before there were servers is empty.
AtOnce == {r \in Asked : r.route = "SetServers" => r.ips \in {{}, Servers}}

\* The last n requests on q are copies of m, and there are no others.
Copies(q, m, n) ==
    n <= Len(q) /\ \A i \in 1 .. Len(q) : q[i] = m <=> i > Len(q) - n

LEMMA CopiesAppended ==
    ASSUME NEW sent, NEW m, m \notin sent, NEW q \in Seq(sent), NEW n \in Nat
    PROVE  Copies(q \o [i \in 1 .. n |-> m], m, n)
<1> DEFINE t == [i \in 1 .. n |-> m]
<1>1. t \in Seq({m}) /\ Len(t) = n
  OBVIOUS
<1>2. Len(q) \in Nat /\ \A i \in 1 .. Len(q) : q[i] \in sent
  BY LenProperties, ElementOfSeq
<1> HIDE DEF t
<1>3. q \in Seq(sent \cup {m}) /\ t \in Seq(sent \cup {m})
  BY <1>1, <1>2, SeqDef, ElementOfSeq, LenProperties
<1>4. /\ Len(q \o t) = Len(q) + n
      /\ \A i \in 1 .. Len(q) + n : (q \o t)[i] = IF i <= Len(q) THEN q[i] ELSE t[i - Len(q)]
  BY <1>1, <1>3, ConcatProperties
<1>5. \A i \in 1 .. n : t[i] = m
  BY DEF t
<1>6. ASSUME NEW i \in 1 .. Len(q) + n
      PROVE  (q \o t)[i] = m <=> i > Len(q)
  <2>1. CASE i <= Len(q)
    BY <1>2, <1>4, <2>1
  <2>2. CASE i > Len(q)
    <3>1. i - Len(q) \in 1 .. n
      BY <1>2, <2>2
    <3> QED
      BY <1>2, <1>4, <1>5, <2>2, <3>1
  <2>3. i <= Len(q) \/ i > Len(q)
    BY <1>2
  <2> QED
    BY <2>1, <2>2, <2>3, Zenon
<1> QED
  BY <1>2, <1>4, <1>6 DEF Copies, t

LEMMA CopiesTail ==
    ASSUME NEW sent, NEW m, NEW q \in Seq(sent), q # <<>>, NEW n \in Nat, Copies(q, m, n)
    PROVE  /\ Head(q) # m => Copies(Tail(q), m, n)
           /\ Head(q) = m => n > 0 /\ Copies(Tail(q), m, n - 1)
<1>1. /\ Len(q) \in Nat \ {0} /\ Len(Tail(q)) = Len(q) - 1 /\ Head(q) = q[1]
      /\ \A i \in 1 .. Len(Tail(q)) : Tail(q)[i] = q[i + 1]
  BY HeadTailProperties, LenProperties, EmptySeq
<1>2. 1 \in 1 .. Len(q) /\ \A i \in 1 .. Len(Tail(q)) : i + 1 \in 1 .. Len(q)
  BY <1>1
<1>3. q[1] = m <=> 1 > Len(q) - n
  BY <1>2 DEF Copies
<1>4. n <= Len(q) /\ \A i \in 1 .. Len(Tail(q)) : Tail(q)[i] = m <=> i + 1 > Len(q) - n
  BY <1>1, <1>2 DEF Copies
<1> QED
  BY <1>1, <1>3, <1>4 DEF Copies

\* The answers there were from each server, when left[s] are still to come of s.
Answered(each, left) == {x \in Servers \X (1 .. each) : x[2] > left[x[1]]}

LEMMA AnsweredFinite ==
    ASSUME NEW each \in Nat, NEW left \in [Servers -> Nat]
    PROVE  IsFiniteSet(Answered(each, left))
<1>1. IsFiniteSet(Servers \X (1 .. each))
  <2>1. IsFiniteSet(1 .. each)
    BY FS_Interval
  <2> QED
    BY <2>1, DaemonAssumption, FS_Product
<1>2. Answered(each, left) \in SUBSET (Servers \X (1 .. each))
  BY DEF Answered
<1> QED
  BY <1>1, <1>2, FS_Subset

LEMMA OneMoreAnswered ==
    ASSUME NEW each \in Nat, NEW left \in [Servers -> Nat], NEW s \in Servers,
           left[s] > 0, left[s] <= each
    PROVE  Cardinality(Answered(each, [left EXCEPT ![s] = @ - 1])) =
               Cardinality(Answered(each, left)) + 1
<1> DEFINE A == Answered(each, left)
           after == [left EXCEPT ![s] = @ - 1]
<1>1. IsFiniteSet(A)
  BY AnsweredFinite
<1>2. <<s, left[s]>> \notin A
  BY DEF Answered
<1>3. Answered(each, after) = A \cup {<<s, left[s]>>}
  <2>1. \A n \in 1 .. each : n > left[s] - 1 <=> n > left[s] \/ n = left[s]
    OBVIOUS
  <2>2. \A x \in Servers \X (1 .. each) :
          x[2] > after[x[1]] <=> x[2] > left[x[1]] \/ x = <<s, left[s]>>
    <3> TAKE x \in Servers \X (1 .. each)
    <3>1. PICK t \in Servers, n \in 1 .. each : x = <<t, n>>
      OBVIOUS
    <3>2. CASE t = s
      <4>1. x[1] = s /\ x[2] = n /\ after[x[1]] = left[s] - 1
        BY <3>1, <3>2
      <4>2. x = <<s, left[s]>> <=> n = left[s]
        BY <3>1, <3>2
      <4> QED
        BY <2>1, <4>1, <4>2
    <3>3. CASE t # s
      <4>1. x[1] = t /\ after[t] = left[t] /\ x # <<s, left[s]>>
        BY <3>1, <3>3
      <4> QED
        BY <4>1
    <3> QED
      BY <3>2, <3>3
  <2>3. <<s, left[s]>> \in Servers \X (1 .. each)
    OBVIOUS
  <2> HIDE DEF after
  <2> QED
    BY <2>2, <2>3 DEF Answered
<1> HIDE DEF A, after
<1>4. Cardinality(A \cup {<<s, left[s]>>}) = Cardinality(A) + 1
  BY <1>1, <1>2, FS_AddElement DEF A
<1> QED
  BY <1>3, <1>4 DEF A, after

\* Twice as many servers as there are, times what each was sent, is more than that.
LEMMA MajorityOfServers ==
    ASSUME NEW each \in Nat, NEW n \in Nat, NEW C \in Nat, NEW q \in Nat, q > 0,
           NEW r \in Nat, r >= Majority(each * (n * q)), r <= C * each
    PROVE  2 * C > n
<1> DEFINE a == each * (n * q)
<1>1. a \in Nat /\ each * n \in Nat /\ C * each \in Nat
  OBVIOUS
<1>2. 2 * r > a
  <2> HIDE DEF a
  <2> QED
    BY <1>1 DEF Majority, a
<1>3. a = (each * n) * q
  OBVIOUS
<1>4. a >= each * n
  BY <1>1, <1>3
<1>5. 2 * (C * each) > each * n
  BY <1>1, <1>2, <1>4
<1>6. each * (2 * C) > each * n
  BY <1>5
<1>7. ~(2 * C <= n)
  <2>1. ASSUME NEW i \in Nat, NEW j \in Nat, i <= j
        PROVE  each * i <= each * j
    BY <2>1
  <2> QED
    BY <1>6, <2>1
<1> QED
  BY <1>7

SameLists(c) == \E k \in Nat : \A s \in Servers : ip_list[c][s] = k

SameSockets(c) == \E q \in Nat : DOMAIN queue[c] = Servers \X (1 .. q)

\* Each server was sent the request each times, and left[s] answers of s are to come.
IsEven(c, each, left) ==
    /\ each * Cardinality(DOMAIN queue[c]) = Num_servers(ip_list[c])
    /\ responses[c] = Cardinality(Answered(each, left))
    /\ \A s \in Servers :
         /\ left[s] <= each
         /\ left[s] < each => s \in counted[c]
         /\ <<s, 1>> \in DOMAIN queue[c] =>
              Copies(queue[c][<<s, 1>>], <<Num(c), pc[c]>>, left[s])

EvenCount(c) == \E each \in Nat : \E left \in [Servers -> Nat] : IsEven(c, each, left)

\* Whatever is asked for, everyone has all servers or none.
AllOrNone ==
    /\ known.servers \in {{}, Servers}
    /\ todo \in Seq(AtOnce) /\ job \subseteq AtOnce
    /\ \A c \in Clients : servers[c] \in {{}, Servers}

MeetInv ==
    /\ TInv /\ AllOrNone
    /\ \A c \in Clients : SameLists(c) /\ SameSockets(c)
    /\ \A c \in Clients : pc[c] \in Phases /\ regular[c] => EvenCount(c)
    /\ \A Q \in quorums : 2 * Cardinality(Q) > Cardinality(Servers)

LEMMA SocketOfAll ==
    ASSUME NEW c \in Clients, SameSockets(c), NEW list \in [Servers -> Nat], NEW k \in Nat,
           \A s \in Servers : list[s] = k
    PROVE  \E q \in Nat : DOMAIN get_socket_servers(c, list) = Servers \X (1 .. q)
<1> DEFINE P == {x \in UNION {{s} \X (1 .. list[s]) : s \in Servers} :
                   SameAddressTwice \/ x[2] = 1}
<1>1. CASE DOMAIN queue[c] # {}
  BY <1>1 DEF get_socket_servers, SameSockets
<1>2. CASE DOMAIN queue[c] = {}
  <2>1. DOMAIN get_socket_servers(c, list) = P
    BY <1>2 DEF get_socket_servers
  <2>2. UNION {{s} \X (1 .. list[s]) : s \in Servers} = Servers \X (1 .. k)
    OBVIOUS
  <2>3. P = {x \in Servers \X (1 .. k) : SameAddressTwice \/ x[2] = 1}
    BY <2>2, Zenon
  <2> HIDE DEF P
  <2>4. CASE SameAddressTwice
    <3>1. P = Servers \X (1 .. k)
      BY <2>3, <2>4
    <3> QED
      BY <2>1, <3>1
  <2>5. CASE ~SameAddressTwice /\ k > 0
    <3>1. 1 .. 1 = {1} /\ 1 \in 1 .. k
      BY <2>5
    <3>2. P = Servers \X (1 .. 1)
      BY <2>3, <2>5, <3>1
    <3> QED
      BY <2>1, <3>2
  <2>6. CASE ~(k > 0)
    <3>1. 1 .. k = {}
      BY <2>6
    <3>2. P = Servers \X (1 .. k)
      BY <2>3, <3>1
    <3> QED
      BY <2>1, <3>2
  <2> QED
    BY <2>4, <2>5, <2>6
<1> QED
  BY <1>1, <1>2

\* A regular phase begins with nothing answered.
LEMMA BeginEven ==
    ASSUME LoopInv, pc \in [Clients -> {"boot", "loop", "exited"} \cup Phases],
           NEW c \in Clients, NEW pipes, IsSocket(pipes, used[c]),
           NEW q \in Nat, DOMAIN pipes = Servers \X (1 .. q),
           NEW list \in [Servers -> Nat], NEW num \in Nat, NEW phase \in Phases,
           BeginPhase(c, pipes, list, num, phase),
           ip_list'[c] = list, num = Num(c)'
    PROVE  SameSockets(c)' /\ (regular'[c] => EvenCount(c)')
<1> DEFINE m == <<num, phase>>
<1>1. m \in Nat \X Phases
  OBVIOUS
<1> HIDE DEF m
<1>2. /\ DOMAIN queue'[c] = DOMAIN pipes
      /\ regular'[c] => SendsEvenly(c, pipes, list, m)
  <2>1. SocketTypes /\ send_multicast_servers(c, pipes, list, m)
    BY DEF LoopInv, BeginPhase, m
  <2> QED
    BY <1>1, <2>1, Multicast
<1>3. SameSockets(c)'
  BY <1>2 DEF SameSockets
<1>4. pc'[c] = phase /\ responses'[c] = 0 /\ <<Num(c), pc[c]>>' = m
  BY DEF BeginPhase, LoopInv, ClientTypes, m
<1>5. ASSUME regular'[c] PROVE EvenCount(c)'
  <2>1. PICK each \in Nat :
          /\ each * Cardinality(DOMAIN pipes) = Num_servers(list)
          /\ \A p \in DOMAIN pipes : queue'[c][p] = pipes[p] \o [i \in 1 .. each |-> m]
    BY <1>2, <1>5 DEF SendsEvenly
  <2> DEFINE left == [s \in Servers |-> each]
  <2>2. left \in [Servers -> Nat] /\ \A s \in Servers : left[s] = each
    OBVIOUS
  <2>3. Cardinality(Answered(each, left)) = 0
    <3>1. Answered(each, left) = {}
      BY <2>2 DEF Answered
    <3> QED
      BY <3>1, FS_EmptySet
  <2>4. \A p \in DOMAIN pipes : Copies(queue'[c][p], m, each)
    <3> TAKE p \in DOMAIN pipes
    <3>1. pipes[p] \in Seq(used[c])
      BY DEF IsSocket
    <3>2. m \notin used[c]
      BY <1>2, <1>5 DEF SendsEvenly
    <3>3. Copies(pipes[p] \o [i \in 1 .. each |-> m], m, each)
      BY <3>1, <3>2, CopiesAppended
    <3> QED
      BY <2>1, <3>3
  <2> HIDE DEF left
  <2>5. each * Cardinality(DOMAIN queue'[c]) = Num_servers(ip_list'[c])
    BY <1>2, <2>1
  <2>6. \A s \in Servers :
          <<s, 1>> \in DOMAIN queue'[c] =>
            Copies(queue'[c][<<s, 1>>], <<Num(c), pc[c]>>', left[s])
    BY <1>2, <1>4, <2>2, <2>4
  <2>7. IsEven(c, each, left)'
    <3>1. responses'[c] = Cardinality(Answered(each, left))
      BY <1>4, <2>3
    <3>2. \A s \in Servers : left[s] <= each /\ ~(left[s] < each)
      BY <2>2
    <3> QED
      BY <2>5, <2>6, <3>1, <3>2 DEF IsEven
  <2> QED
    BY <2>2, <2>7 DEF EvenCount
<1> QED
  BY <1>3, <1>5

\* What MeetInv says of one client.
Evenly(c) ==
    /\ SameLists(c) /\ SameSockets(c)
    /\ pc[c] \in Phases /\ regular[c] => EvenCount(c)

LEMMA EvenlyKept ==
    ASSUME NEW c \in Clients, Evenly(c), ip_list'[c] = ip_list[c], queue'[c] = queue[c],
           \/ pc'[c] \notin Phases
           \/ /\ pc'[c] = pc[c] /\ opnum'[c] = opnum[c] /\ responses'[c] = responses[c]
              /\ counted'[c] = counted[c] /\ regular'[c] = regular[c]
    PROVE  Evenly(c)'
<1>1. SameLists(c)' /\ SameSockets(c)'
  BY DEF Evenly, SameLists, SameSockets
<1>2. ASSUME pc'[c] \in Phases, regular'[c] PROVE EvenCount(c)'
  <2>1. Num(c)' = Num(c)
    BY <1>2 DEF Num
  <2> QED
    BY <1>2, <2>1 DEF Evenly, EvenCount, IsEven
<1> QED
  BY <1>1, <1>2 DEF Evenly

LEMMA OthersStayEven ==
    ASSUME TInv, NEW c \in Clients, NEW d \in Clients, d # c, Evenly(d),
           LoopStep(c) \/ \E p \in DOMAIN queue[c] : Answer(c, p)
    PROVE  Evenly(d)'
<1>0. /\ pc \in [Clients -> {"boot", "loop", "exited"} \cup Phases]
      /\ LoopInv /\ SocketTypes /\ ClientTypes
  BY DEF TInv, CInv, CommandTypes, LoopInv
<1>1. ASSUME NEW pipes, NEW list, NEW num, NEW phase, BeginPhase(c, pipes, list, num, phase)
      PROVE  /\ pc'[d] = pc[d] /\ responses'[d] = responses[d] /\ counted'[d] = counted[d]
             /\ queue'[d] = queue[d] /\ regular'[d] = regular[d]
  <2>1. /\ \E f : queue' = [queue EXCEPT ![c] = f]
        /\ \E f : regular' = [regular EXCEPT ![c] = f]
    BY <1>1 DEF BeginPhase, send_multicast_servers
  <2> QED
    BY <1>0, <1>1, <2>1 DEF BeginPhase, SocketTypes, ClientTypes
<1>2. /\ ip_list'[d] = ip_list[d] /\ queue'[d] = queue[d] /\ pc'[d] = pc[d]
      /\ opnum'[d] = opnum[d] /\ responses'[d] = responses[d]
      /\ counted'[d] = counted[d] /\ regular'[d] = regular[d]
  <2>1. CASE Boot(c) \/ IgnoreCommand(c) \/ Exit(c)
    BY <1>0, <2>1 DEF Boot, IgnoreCommand, Exit, MayTurn, controlVars, countVars, sentVars,
       ClientTypes
  <2>2. CASE TakeCommand(c)
    BY <1>0, <1>1, <2>2 DEF TakeCommand, countVars, sentVars, ClientTypes
  <2>3. CASE BeginOperation(c)
    BY <1>0, <1>1, <2>3 DEF BeginOperation, MayTurn, ClientTypes
  <2>4. ASSUME NEW p \in DOMAIN queue[c], OldAnswer(c, p) \/ CountAnswer(c, p)
        PROVE  <1>2!:
    BY <1>0, <2>4 DEF OldAnswer, CountAnswer, MayRead, countVars, ClientTypes, SocketTypes
  <2>5. ASSUME NEW p \in DOMAIN queue[c], EndGet(c, p)
        PROVE  <1>2!:
    BY <1>0, <1>1, <2>5 DEF EndGet, LastAnswer, MayRead
  <2>6. ASSUME NEW p \in DOMAIN queue[c], EndOperation(c, p)
        PROVE  <1>2!:
    BY <1>0, <2>6 DEF EndOperation, LastAnswer, MayRead, ClientTypes, SocketTypes
  <2> QED
    BY <2>1, <2>2, <2>3, <2>4, <2>5, <2>6 DEF LoopStep, Answer
<1> QED
  BY <1>2, EvenlyKept

LEMMA LoopStepStaysEven ==
    ASSUME TInv, NEW c \in Clients, Evenly(c), LoopStep(c), servers[c] \in {{}, Servers}
    PROVE  Evenly(c)' /\ quorums' = quorums
<1>0. /\ pc \in [Clients -> {"boot", "loop", "exited"} \cup Phases]
      /\ LoopInv /\ SocketTypes /\ ClientTypes
  BY DEF TInv, CInv, CommandTypes, LoopInv
<1>1. CASE Boot(c) \/ IgnoreCommand(c) \/ Exit(c)
  <2>1. /\ ip_list' = ip_list /\ queue' = queue /\ quorums' = quorums
        /\ pc' = pc \/ pc' = [pc EXCEPT ![c] = "loop"] \/ pc' = [pc EXCEPT ![c] = "exited"]
        /\ pc[c] \in {"loop", "boot"}
    BY <1>1 DEF Boot, IgnoreCommand, Exit, MayTurn, controlVars, countVars, sentVars
  <2>2. pc'[c] \notin Phases
    BY <1>0, <2>1 DEF Phases
  <2> QED
    BY <2>1, <2>2, EvenlyKept
<1>2. CASE TakeCommand(c)
  <2> DEFINE list == [s \in Servers |-> ip_list[c][s] + IF s \in servers[c] THEN 1 ELSE 0]
  <2>1. PICK k \in Nat : \A s \in Servers : ip_list[c][s] = k
    BY DEF Evenly, SameLists
  <2>2. /\ list \in [Servers -> Nat]
        /\ \A s \in Servers : list[s] = k + 1
        /\ k + 1 \in Nat
    BY <1>0, <1>2, <2>1 DEF TakeCommand, ClientTypes
  <2>3. /\ ip_list' = [ip_list EXCEPT ![c] = list] /\ pc[c] = "loop"
        /\ \/ UNCHANGED <<pc, opnum, countVars, sentVars>>
           \/ /\ opnum' = [opnum EXCEPT ![c] = 0]
              /\ BeginPhase(c, get_socket_servers(c, list), list, 1, "GET_TAG")
              /\ UNCHANGED quorums
    BY <1>2 DEF TakeCommand
  <2> HIDE DEF list
  <2>4. ip_list'[c] = list /\ SameLists(c)'
    BY <1>0, <2>2, <2>3 DEF SameLists, ClientTypes
  <2>5. CASE UNCHANGED <<pc, opnum, countVars, sentVars>>
    <3>1. queue' = queue /\ quorums' = quorums /\ pc'[c] \notin Phases
      BY <2>3, <2>5 DEF countVars, sentVars, Phases
    <3> QED
      BY <2>4, <3>1 DEF Evenly, SameSockets
  <2>6. CASE /\ opnum' = [opnum EXCEPT ![c] = 0]
             /\ BeginPhase(c, get_socket_servers(c, list), list, 1, "GET_TAG")
             /\ UNCHANGED quorums
    <3>1. IsSocket(get_socket_servers(c, list), used[c])
      BY <1>0, <2>2, ConnectedSocket
    <3>2. PICK q \in Nat : DOMAIN get_socket_servers(c, list) = Servers \X (1 .. q)
      BY <2>2, SocketOfAll DEF Evenly
    <3>3. 1 = Num(c)' /\ 1 \in Nat /\ "GET_TAG" \in Phases
      BY <1>0, <2>6 DEF Num, Phases, ClientTypes
    <3>4. SameSockets(c)' /\ (regular'[c] => EvenCount(c)')
      BY <1>0, <2>2, <2>4, <2>6, <3>1, <3>2, <3>3, BeginEven
    <3> QED
      BY <2>4, <2>6, <3>4 DEF Evenly
  <2> QED
    BY <2>3, <2>5, <2>6
<1>3. CASE BeginOperation(c)
  <2> DEFINE phase == IF c \in Readers THEN "GET_TAG_VALUE" ELSE "GET_TAG"
  <2>1. /\ BeginPhase(c, get_socket_servers(c, ip_list[c]), ip_list[c], opnum[c] + 1, phase)
        /\ opnum' = [opnum EXCEPT ![c] = @ + 1]
        /\ UNCHANGED <<ip_list, quorums>>
    BY <1>3 DEF BeginOperation, MayTurn
  <2>2. PICK k \in Nat : \A s \in Servers : ip_list[c][s] = k
    BY DEF Evenly, SameLists
  <2>3. IsSocket(get_socket_servers(c, ip_list[c]), used[c]) /\ ip_list[c] \in [Servers -> Nat]
    BY <1>0, ConnectedSocket DEF ClientTypes
  <2>4. PICK q \in Nat : DOMAIN get_socket_servers(c, ip_list[c]) = Servers \X (1 .. q)
    BY <2>2, <2>3, SocketOfAll DEF Evenly
  <2>5. opnum[c] + 1 = Num(c)' /\ opnum[c] + 1 \in Nat /\ phase \in Phases
    BY <1>0, <2>1 DEF Num, Phases, ClientTypes
  <2> HIDE DEF phase
  <2>6. SameSockets(c)' /\ (regular'[c] => EvenCount(c)')
    BY <1>0, <2>1, <2>3, <2>4, <2>5, BeginEven
  <2> QED
    BY <2>1, <2>6 DEF Evenly, SameLists
<1> QED
  BY <1>1, <1>2, <1>3 DEF LoopStep

\* The answer on p is to an earlier request: as many of this phase are to come.
LEMMA OldAnswerStaysEven ==
    ASSUME TInv, NEW c \in Clients, Evenly(c), NEW p \in DOMAIN queue[c], OldAnswer(c, p)
    PROVE  Evenly(c)'
<1>0. SocketTypes /\ IsSocket(queue[c], used[c])
  BY DEF TInv, LoopInv, SocketTypes
<1>1. /\ UNCHANGED <<pc, ip_list, opnum, responses, counted, regular>>
      /\ queue' = [queue EXCEPT ![c] = Rest(c, p)]
      /\ queue[c][p] # <<>> /\ Head(queue[c][p]) # <<Num(c), pc[c]>>
  BY DEF OldAnswer, MayRead, countVars, Counts
<1>2. /\ DOMAIN queue'[c] = DOMAIN queue[c]
      /\ \A o \in DOMAIN queue[c] : queue'[c][o] = IF o = p THEN Tail(queue[c][o]) ELSE queue[c][o]
  BY <1>0, <1>1 DEF SocketTypes, IsSocket, Rest
<1>3. SameLists(c)' /\ SameSockets(c)'
  BY <1>1, <1>2 DEF Evenly, SameLists, SameSockets
<1>4. ASSUME pc'[c] \in Phases, regular'[c] PROVE EvenCount(c)'
  <2>1. PICK each \in Nat, left \in [Servers -> Nat] : IsEven(c, each, left)
    BY <1>1, <1>4 DEF Evenly, EvenCount
  <2>2. Num(c)' = Num(c)
    BY <1>1 DEF Num
  <2>3. ASSUME NEW s \in Servers, <<s, 1>> \in DOMAIN queue[c]
        PROVE  Copies(queue'[c][<<s, 1>>], <<Num(c), pc[c]>>, left[s])
    <3>1. Copies(queue[c][<<s, 1>>], <<Num(c), pc[c]>>, left[s])
      BY <2>1, <2>3 DEF IsEven
    <3>2. CASE <<s, 1>> = p
      <4>1. queue[c][p] \in Seq(used[c])
        BY <1>0 DEF IsSocket
      <4>2. Copies(Tail(queue[c][p]), <<Num(c), pc[c]>>, left[s])
        BY <1>1, <3>1, <3>2, <4>1, CopiesTail
      <4> QED
        BY <1>2, <2>3, <3>2, <4>2
    <3>3. CASE <<s, 1>> # p
      BY <1>2, <2>3, <3>1, <3>3
    <3> QED
      BY <3>2, <3>3
  <2>4. IsEven(c, each, left)'
    BY <1>1, <1>2, <2>1, <2>2, <2>3 DEF IsEven
  <2> QED
    BY <2>4 DEF EvenCount
<1> QED
  BY <1>3, <1>4 DEF Evenly

(***************************************************************************)
(* An answer of this phase: one less is to come of its server.  Where it   *)
(* makes a majority of the list, a majority of the servers is counted.     *)
(***************************************************************************)
LEMMA NewAnswer ==
    ASSUME TInv, NEW c \in Clients, Evenly(c), regular[c], pc[c] \in Phases,
           NEW p \in DOMAIN queue[c], p[2] = 1, queue[c][p] # <<>>,
           Head(queue[c][p]) = <<Num(c), pc[c]>>
    PROVE  LET C == counted[c] \cup {p[1]}
           IN  \E each \in Nat : \E left \in [Servers -> Nat] :
                 /\ each * Cardinality(DOMAIN queue[c]) = Num_servers(ip_list[c])
                 /\ responses[c] + 1 = Cardinality(Answered(each, left))
                 /\ \A s \in Servers :
                      /\ left[s] <= each
                      /\ left[s] < each => s \in C
                      /\ <<s, 1>> \in DOMAIN queue[c] =>
                           Copies(Rest(c, p)[<<s, 1>>], <<Num(c), pc[c]>>, left[s])
<1> DEFINE s1 == p[1]
           m == <<Num(c), pc[c]>>
<1>0. /\ IsSocket(queue[c], used[c]) /\ responses[c] \in Nat
      /\ s1 \in Servers /\ p = <<s1, 1>>
  BY DEF TInv, LoopInv, SocketTypes, IsSocket, ClientTypes
<1>1. PICK each \in Nat, left \in [Servers -> Nat] : IsEven(c, each, left)
  BY DEF Evenly, EvenCount
<1> DEFINE after == [left EXCEPT ![s1] = @ - 1]
<1>2. left[s1] > 0 /\ left[s1] <= each /\ Copies(Tail(queue[c][p]), m, left[s1] - 1)
  <2>1. Copies(queue[c][p], m, left[s1]) /\ left[s1] <= each
    BY <1>0, <1>1 DEF IsEven
  <2>2. queue[c][p] \in Seq(used[c])
    BY <1>0 DEF IsSocket
  <2> HIDE DEF m, s1
  <2>3. left[s1] \in Nat
    BY <1>0
  <2>4. Head(queue[c][p]) = m
    BY DEF m
  <2> QED
    BY <2>1, <2>2, <2>3, <2>4, CopiesTail
<1> HIDE DEF s1
<1>3. after \in [Servers -> Nat]
  <2>1. left[s1] - 1 \in Nat
    BY <1>0, <1>2
  <2> QED
    BY <2>1
<1>4. responses[c] + 1 = Cardinality(Answered(each, after))
  <2>1. responses[c] = Cardinality(Answered(each, left))
    BY <1>1 DEF IsEven
  <2>2. Cardinality(Answered(each, after)) = Cardinality(Answered(each, left)) + 1
    BY <1>0, <1>2, OneMoreAnswered
  <2> QED
    BY <2>1, <2>2
<1>5. ASSUME NEW s \in Servers
      PROVE  /\ after[s] <= each
             /\ after[s] < each => s \in counted[c] \cup {p[1]}
             /\ <<s, 1>> \in DOMAIN queue[c] => Copies(Rest(c, p)[<<s, 1>>], m, after[s])
  <2>1. CASE s = s1
    <3>1. after[s] = left[s1] - 1 /\ left[s1] \in Nat
      BY <1>0, <2>1
    <3>2. Rest(c, p)[<<s, 1>>] = Tail(queue[c][p])
      BY <1>0, <2>1 DEF Rest, IsSocket
    <3> QED
      BY <1>2, <2>1, <3>1, <3>2 DEF s1
  <2>2. CASE s # s1
    <3>1. after[s] = left[s]
      BY <1>0, <2>2
    <3>2. <<s, 1>> \in DOMAIN queue[c] => Rest(c, p)[<<s, 1>>] = queue[c][<<s, 1>>]
      BY <1>0, <2>2 DEF Rest, IsSocket
    <3> QED
      BY <1>1, <3>1, <3>2 DEF IsEven
  <2> QED
    BY <2>1, <2>2
<1>6. each * Cardinality(DOMAIN queue[c]) = Num_servers(ip_list[c])
  BY <1>1 DEF IsEven
<1> HIDE DEF after
<1> QED
  BY <1>3, <1>4, <1>5, <1>6

LEMMA CountAnswerStaysEven ==
    ASSUME TInv, NEW c \in Clients, Evenly(c), NEW p \in DOMAIN queue[c], CountAnswer(c, p)
    PROVE  Evenly(c)'
<1>0. SocketTypes /\ ClientTypes /\ IsSocket(queue[c], used[c])
  BY DEF TInv, LoopInv, SocketTypes
<1>1. /\ UNCHANGED <<pc, ip_list, opnum, regular>>
      /\ responses'[c] = responses[c] + 1 /\ counted'[c] = counted[c] \cup {p[1]}
      /\ queue'[c] = Rest(c, p)
      /\ queue[c][p] # <<>> /\ Head(queue[c][p]) = <<Num(c), pc[c]>> /\ p[2] = 1
  BY <1>0 DEF CountAnswer, MayRead, Counts, SocketTypes, ClientTypes
<1>2. DOMAIN queue'[c] = DOMAIN queue[c]
  BY <1>0, <1>1, RestIsSocket
<1>3. SameLists(c)' /\ SameSockets(c)'
  BY <1>1, <1>2 DEF Evenly, SameLists, SameSockets
<1>4. ASSUME pc'[c] \in Phases, regular'[c] PROVE EvenCount(c)'
  <2>1. PICK each \in Nat, left \in [Servers -> Nat] :
          /\ each * Cardinality(DOMAIN queue[c]) = Num_servers(ip_list[c])
          /\ responses[c] + 1 = Cardinality(Answered(each, left))
          /\ \A s \in Servers :
               /\ left[s] <= each
               /\ left[s] < each => s \in counted[c] \cup {p[1]}
               /\ <<s, 1>> \in DOMAIN queue[c] =>
                    Copies(Rest(c, p)[<<s, 1>>], <<Num(c), pc[c]>>, left[s])
    BY <1>1, <1>4, NewAnswer
  <2>2. Num(c)' = Num(c)
    BY <1>1 DEF Num
  <2>3. IsEven(c, each, left)'
    BY <1>1, <1>2, <2>1, <2>2 DEF IsEven
  <2> QED
    BY <2>3 DEF EvenCount
<1> QED
  BY <1>3, <1>4 DEF Evenly

LEMMA RegularQuorum ==
    ASSUME TInv, NEW c \in Clients, Evenly(c), regular[c],
           NEW p \in DOMAIN queue[c], LastAnswer(c, p)
    PROVE  2 * Cardinality(counted[c] \cup {p[1]}) > Cardinality(Servers)
<1> DEFINE C == counted[c] \cup {p[1]}
<1>0. /\ SocketTypes /\ ClientTypes /\ IsSocket(queue[c], used[c])
      /\ p[1] \in Servers
  BY DEF TInv, LoopInv, SocketTypes, IsSocket
<1>1. /\ pc[c] \in Phases /\ queue[c][p] # <<>> /\ p[2] = 1
      /\ Head(queue[c][p]) = <<Num(c), pc[c]>>
      /\ responses[c] + 1 >= Majority(Num_servers(ip_list[c]))
  BY DEF LastAnswer, MayRead, Counts
<1>2. PICK each \in Nat, left \in [Servers -> Nat] :
        /\ each * Cardinality(DOMAIN queue[c]) = Num_servers(ip_list[c])
        /\ responses[c] + 1 = Cardinality(Answered(each, left))
        /\ \A s \in Servers : left[s] < each => s \in C
  BY <1>1, NewAnswer
<1>3. PICK q \in Nat : DOMAIN queue[c] = Servers \X (1 .. q)
  BY DEF Evenly, SameSockets
<1>4. q > 0
  <2>1. 1 .. q # {}
    BY <1>3
  <2> QED
    BY <2>1
<1>5. /\ C \subseteq Servers /\ IsFiniteSet(C) /\ Cardinality(C) \in Nat
      /\ IsFiniteSet(Servers) /\ Cardinality(Servers) \in Nat
  <2>1. C \in SUBSET Servers
    BY <1>0 DEF ClientTypes
  <2> HIDE DEF C
  <2> QED
    BY <2>1, DaemonAssumption, FS_Subset, FS_CardinalityType
<1>6. Cardinality(DOMAIN queue[c]) = Cardinality(Servers) * q
  <2>1. IsFiniteSet(1 .. q) /\ Cardinality(1 .. q) = q
    BY FS_Interval
  <2>2. Cardinality(Servers \X (1 .. q)) = Cardinality(Servers) * Cardinality(1 .. q)
    BY <1>5, <2>1, FS_Product
  <2> QED
    BY <1>3, <2>1, <2>2
<1>7. Cardinality(Answered(each, left)) <= Cardinality(C) * each
  <2>1. Answered(each, left) \in SUBSET (C \X (1 .. each))
    <3>1. ASSUME NEW s \in Servers, NEW n \in 1 .. each, n > left[s]
          PROVE  s \in C
      <4>1. left[s] < each
        BY <3>1
      <4> QED
        BY <1>2, <4>1
    <3> HIDE DEF C
    <3> QED
      BY <3>1 DEF Answered
  <2>2. IsFiniteSet(1 .. each) /\ Cardinality(1 .. each) = each
    BY FS_Interval
  <2> HIDE DEF C
  <2>3. /\ IsFiniteSet(C \X (1 .. each))
        /\ Cardinality(C \X (1 .. each)) = Cardinality(C) * Cardinality(1 .. each)
    BY <1>5, <2>2, FS_Product
  <2>4. Cardinality(Answered(each, left)) <= Cardinality(C \X (1 .. each))
    BY <2>1, <2>3, FS_Subset
  <2> QED
    BY <2>2, <2>3, <2>4
<1>8. responses[c] + 1 \in Nat
  BY <1>0 DEF ClientTypes
<1> HIDE DEF C
<1>9. responses[c] + 1 >= Majority(each * (Cardinality(Servers) * q))
  BY <1>1, <1>2, <1>6
<1>10. responses[c] + 1 <= Cardinality(C) * each
  BY <1>2, <1>7
<1>11. 2 * Cardinality(C) > Cardinality(Servers)
  BY <1>4, <1>5, <1>8, <1>9, <1>10, MajorityOfServers
<1> QED
  BY <1>11 DEF C

LEMMA AnswerStaysEven ==
    ASSUME TInv, NEW c \in Clients, Evenly(c), NEW p \in DOMAIN queue[c], Answer(c, p)
    PROVE  /\ Evenly(c)'
           /\ \A Q \in quorums' \ quorums : 2 * Cardinality(Q) > Cardinality(Servers)
<1>0. /\ pc \in [Clients -> {"boot", "loop", "exited"} \cup Phases]
      /\ LoopInv /\ SocketTypes /\ ClientTypes
  BY DEF TInv, CInv, CommandTypes, LoopInv
<1>1. CASE OldAnswer(c, p)
  BY <1>1, OldAnswerStaysEven DEF OldAnswer, countVars
<1>2. CASE CountAnswer(c, p)
  BY <1>2, CountAnswerStaysEven DEF CountAnswer
<1>3. ASSUME LastAnswer(c, p), NEW Q \in quorums' \ quorums
      PROVE  2 * Cardinality(Q) > Cardinality(Servers)
  <2>1. regular[c] /\ Q = counted[c] \cup {p[1]}
    BY <1>3 DEF LastAnswer
  <2> QED
    BY <1>3, <2>1, RegularQuorum
<1>4. CASE EndGet(c, p)
  <2>1. /\ BeginPhase(c, Rest(c, p), ip_list[c], Num(c), "WRITE_VALUE")
        /\ ip_list' = ip_list /\ opnum' = opnum
        /\ queue[c][p] # <<>> /\ LastAnswer(c, p)
    BY <1>4 DEF EndGet, LastAnswer, MayRead
  <2>2. PICK q \in Nat : DOMAIN queue[c] = Servers \X (1 .. q)
    BY DEF Evenly, SameSockets
  <2>3. IsSocket(Rest(c, p), used[c]) /\ DOMAIN Rest(c, p) = Servers \X (1 .. q)
    BY <1>0, <2>1, <2>2, RestIsSocket
  <2>4. /\ ip_list[c] \in [Servers -> Nat] /\ "WRITE_VALUE" \in Phases
        /\ Num(c) \in Nat /\ Num(c) = Num(c)' /\ ip_list'[c] = ip_list[c]
    BY <1>0, <2>1 DEF ClientTypes, Phases, Num
  <2>5. SameSockets(c)' /\ (regular'[c] => EvenCount(c)')
    BY <1>0, <2>1, <2>3, <2>4, BeginEven
  <2> QED
    BY <1>3, <2>1, <2>5 DEF Evenly, SameLists
<1>5. CASE EndOperation(c, p)
  <2>1. /\ pc' = [pc EXCEPT ![c] = "loop"] /\ ip_list' = ip_list
        /\ queue' = [queue EXCEPT ![c] = Rest(c, p)]
        /\ queue[c][p] # <<>> /\ LastAnswer(c, p)
    BY <1>5 DEF EndOperation, LastAnswer, MayRead
  <2>2. DOMAIN queue'[c] = DOMAIN queue[c] /\ pc'[c] \notin Phases
    BY <1>0, <2>1, RestIsSocket DEF SocketTypes, Phases
  <2> QED
    BY <1>3, <2>1, <2>2 DEF Evenly, SameLists, SameSockets
<1> QED
  BY <1>1, <1>2, <1>4, <1>5 DEF Answer

LEMMA MeetInvInit ==
    ASSUME ServersSetAtOnce, Init
    PROVE  MeetInv
<1>1. TInv
  BY TInvInit
<1>2. AllOrNone
  <2>1. /\ known.servers = {} /\ todo = <<>> /\ job = {} /\ servers = CommandLine
    BY DEF Init, InitClients
  <2> QED
    BY <2>1 DEF AllOrNone, ServersSetAtOnce
<1>3. ASSUME NEW c \in Clients
      PROVE  SameLists(c) /\ SameSockets(c) /\ pc[c] \notin Phases
  <2>1. /\ ip_list = [d \in Clients |-> [s \in Servers |-> IF s \in CommandLine[d] THEN 1 ELSE 0]]
        /\ queue = [d \in Clients |-> <<>>] /\ pc = [d \in Clients |-> "boot"]
    BY DEF Init, InitClients
  <2>2. SameLists(c)
    BY <2>1 DEF SameLists, ServersSetAtOnce
  <2>3. DOMAIN queue[c] = {}
    BY <2>1
  <2>4. {} = Servers \X (1 .. 0)
    OBVIOUS
  <2>5. SameSockets(c)
    BY <2>3, <2>4 DEF SameSockets
  <2> QED
    BY <2>1, <2>2, <2>5 DEF Phases
<1>4. quorums = {}
  BY DEF Init, InitClients
<1> QED
  BY <1>1, <1>2, <1>3, <1>4 DEF MeetInv

\* The controller passes on all servers or none.
LEMMA RequestsAtOnce ==
    ASSUME OperatorTypes, AllOrNone, NEW r \in AtOnce
    PROVE  Requests(r) \subseteq AtOnce /\ Registered(r).servers \in {{}, Servers}
<1>1. /\ known \in [servers : SUBSET Servers, readers : SUBSET Readers,
                    writers : SUBSET Writers]
      /\ known.servers \in {{}, Servers}
      /\ r.route = "SetServers" => r.ips \in {{}, Servers}
  BY DEF OperatorTypes, AllOrNone, AtOnce
<1>2. Registered(r).servers \in {{}, Servers}
  <2>1. \A S : /\ [known EXCEPT !.servers = @ \cup S].servers = known.servers \cup S
               /\ [known EXCEPT !.readers = @ \cup S].servers = known.servers
               /\ [known EXCEPT !.writers = @ \cup S].servers = known.servers
    BY <1>1
  <2>2. \/ r.route = "SetServers" /\ Registered(r).servers = known.servers \cup r.ips
        \/ Registered(r).servers = known.servers
    BY <2>1, Zenon DEF Registered
  <2> QED
    BY <1>1, <2>2
<1>3. Requests(r) \subseteq Asked
  BY RequestsAreAsked DEF AtOnce
<1>4. ASSUME NEW x \in Requests(r), x.route = "SetServers"
      PROVE  x.ips \in {{}, Servers}
  <2>1. ASSUME NEW url, NEW P, x \in clusterCommand(url, P) PROVE x.ips = {}
    BY <2>1 DEF clusterCommand, Request
  <2>2. CASE x \in ToAProcess(r) \cup ToAll(r)
    <3>1. \E url, P : x \in clusterCommand(url, P)
      BY <2>2, Zenon DEF ToAProcess, ToAll
    <3> QED
      BY <2>1, <3>1
  <2>3. CASE x \in Announced(r)
    <3>1. ASSUME NEW S, NEW P, x \in {Request(q, "SetServers", S) : q \in P} PROVE x.ips = S
      BY <3>1 DEF Request
    <3>2. \E S \in {Registered(r).servers, known.servers} : \E P :
            x \in {Request(q, "SetServers", S) : q \in P}
      BY <2>3, Zenon DEF Announced
    <3> QED
      BY <1>1, <1>2, <3>1, <3>2
  <2> QED
    BY <2>2, <2>3 DEF Requests
<1> QED
  BY <1>2, <1>3, <1>4 DEF AtOnce

LEMMA AdministerAllOrNone ==
    ASSUME ServersSetAtOnce, TInv, AllOrNone, Give \/ Administer
    PROVE  AllOrNone'
<1>0. /\ OperatorTypes /\ job \subseteq AtOnce /\ todo \in Seq(AtOnce)
      /\ servers \in [Clients -> SUBSET Servers]
      /\ \A c \in Clients : servers[c] \in {{}, Servers}
  BY DEF TInv, LoopInv, ClientTypes, AllOrNone
<1>1. CASE Give
  <2>1. todo' \in Seq(AtOnce)
    <3>1. todo' \in Seq({r \in Asked : r.route = "SetServers" => r.ips = Servers})
      BY <1>1 DEF Give, ServersSetAtOnce
    <3>2. {r \in Asked : r.route = "SetServers" => r.ips = Servers} \subseteq AtOnce
      BY DEF AtOnce
    <3> DEFINE B == {r \in Asked : r.route = "SetServers" => r.ips = Servers}
    <3> HIDE DEF B
    <3>3. todo' \in Seq(B) /\ B \subseteq AtOnce
      BY <3>1, <3>2 DEF B
    <3> QED
      BY <3>3, LenProperties, ElementOfSeq, SeqDef
  <2> QED
    BY <1>0, <1>1, <2>1 DEF Give, AllOrNone, clientVars, controlVars
<1>2. CASE Handle \/ HandleDirect
  <2>1. Head(todo) \in AtOnce /\ Tail(todo) \in Seq(AtOnce)
    BY <1>0, <1>2, HeadTailProperties DEF Handle, HandleDirect
  <2>2. servers' = servers
    BY <1>2 DEF Handle, HandleDirect, clientVars, controlVars
  <2>3. CASE Handle
    BY <1>0, <2>1, <2>2, <2>3, RequestsAtOnce DEF Handle, AllOrNone
  <2>4. CASE HandleDirect
    BY <1>0, <2>1, <2>2, <2>4 DEF HandleDirect, AllOrNone
  <2> QED
    BY <1>2, <2>3, <2>4
<1>3. CASE Respond
  BY <1>0, <1>3 DEF Respond, AllOrNone, clientVars, controlVars
<1>4. ASSUME NEW r \in job, SendSetServers(r)
      PROVE  AllOrNone'
  <2>1. r \in AtOnce /\ r.route = "SetServers"
    BY <1>0, <1>4 DEF SendSetServers
  <2>2. r.ips \in {{}, Servers}
    BY <2>1 DEF AtOnce
  <2>3. /\ servers' = [servers EXCEPT ![r.to] = @ \cup r.ips]
        /\ job' = job \ {r} /\ UNCHANGED <<known, todo>>
    BY <1>4 DEF SendSetServers, SetServers, Send
  <2>4. ASSUME NEW c \in Clients PROVE servers'[c] \in {{}, Servers}
    <3>1. servers'[c] = servers[c] \/ servers'[c] = servers[c] \cup r.ips
      BY <1>0, <2>3
    <3>2. servers[c] \in {{}, Servers}
      BY <1>0
    <3> QED
      BY <2>2, <3>1, <3>2
  <2> QED
    BY <1>0, <2>3, <2>4 DEF AllOrNone
<1>5. ASSUME NEW r \in job, SendStartOrStop(r) \/ SendForNothing(r) \/ SendToServer(r)
      PROVE  AllOrNone'
  <2>1. servers' = servers /\ job' = job \ {r} /\ UNCHANGED <<known, todo>>
    BY <1>5 DEF SendStartOrStop, SendCommand, SendForNothing, SendToServer, Send, clientVars,
       controlVars
  <2> QED
    BY <1>0, <2>1 DEF AllOrNone
<1> QED
  BY <1>1, <1>2, <1>3, <1>4, <1>5 DEF Administer

\* The operator's commands leave what the clients count alone.
LEMMA AdministerStaysEven ==
    ASSUME TInv, Give \/ Administer, NEW c \in Clients, Evenly(c)
    PROVE  Evenly(c)' /\ quorums' = quorums
<1>1. UNCHANGED <<pc, ip_list, opnum, countVars, sentVars>>
  BY DEF Give, Administer, Handle, HandleDirect, Respond, SendSetServers, SetServers,
     SendStartOrStop, SendCommand, SendForNothing, SendToServer, clientVars, controlVars
<1>2. UNCHANGED <<pc, ip_list, opnum, responses, counted, quorums, queue, regular>>
  BY <1>1 DEF countVars, sentVars
<1> QED
  BY <1>2, EvenlyKept

LEMMA MeetInvNext ==
    ASSUME ServersSetAtOnce, MeetInv, [Next]_vars
    PROVE  MeetInv'
<1>0. /\ TInv /\ TInv' /\ AllOrNone
      /\ \A c \in Clients : Evenly(c)
      /\ \A Q \in quorums : 2 * Cardinality(Q) > Cardinality(Servers)
  BY TInvNext DEF MeetInv, Evenly
<1> SUFFICES /\ AllOrNone'
             /\ \A c \in Clients : Evenly(c)'
             /\ \A Q \in quorums' : 2 * Cardinality(Q) > Cardinality(Servers)
  BY <1>0 DEF MeetInv, Evenly
<1>1. CASE Give \/ Administer
  <2>1. \A c \in Clients : Evenly(c)' /\ quorums' = quorums
    BY <1>0, <1>1, AdministerStaysEven
  <2>2. quorums' = quorums
    BY <1>1 DEF Give, Administer, Handle, HandleDirect, Respond, SendSetServers, SetServers,
       SendStartOrStop, SendCommand, SendForNothing, SendToServer, clientVars, countVars
  <2> QED
    BY <1>0, <1>1, <2>1, <2>2, AdministerAllOrNone
<1>2. ASSUME NEW c \in Clients, ClientStep(c)
      PROVE  /\ AllOrNone'
             /\ \A d \in Clients : Evenly(d)'
             /\ quorums' = quorums
  <2>1. LoopStep(c) /\ UNCHANGED <<known, todo, job>>
    BY <1>2 DEF ClientStep
  <2>2. servers' = servers
    BY <2>1 DEF LoopStep, Boot, IgnoreCommand, TakeCommand, BeginOperation, Exit, MayTurn,
       controlVars
  <2>3. AllOrNone'
    BY <1>0, <2>1, <2>2 DEF AllOrNone
  <2>4. Evenly(c)' /\ quorums' = quorums
    BY <1>0, <2>1, LoopStepStaysEven DEF AllOrNone
  <2>5. \A d \in Clients \ {c} : Evenly(d)'
    BY <1>0, <2>1, OthersStayEven
  <2> QED
    BY <2>3, <2>4, <2>5
<1>3. ASSUME NEW c \in Clients, NEW p \in DOMAIN queue[c], ServerStep(c, p)
      PROVE  /\ AllOrNone'
             /\ \A d \in Clients : Evenly(d)'
             /\ \A Q \in quorums' : 2 * Cardinality(Q) > Cardinality(Servers)
  <2>1. Answer(c, p) /\ UNCHANGED <<known, todo, job>>
    BY <1>3 DEF ServerStep
  <2>2. servers' = servers
    BY <2>1 DEF Answer, OldAnswer, CountAnswer, EndGet, EndOperation, LastAnswer, MayRead
  <2>3. AllOrNone'
    BY <1>0, <2>1, <2>2 DEF AllOrNone
  <2>4. /\ Evenly(c)'
        /\ \A Q \in quorums' \ quorums : 2 * Cardinality(Q) > Cardinality(Servers)
    BY <1>0, <2>1, AnswerStaysEven
  <2>5. \A d \in Clients \ {c} : Evenly(d)'
    BY <1>0, <2>1, OthersStayEven
  <2> QED
    BY <1>0, <2>3, <2>4, <2>5
<1>4. CASE UNCHANGED vars
  <2>1. /\ UNCHANGED <<pc, ip_list, opnum, responses, counted, quorums, queue, regular>>
        /\ UNCHANGED <<servers, known, todo, job>>
    BY <1>4 DEF vars, clientVars, controlVars, countVars, sentVars
  <2>2. \A c \in Clients : Evenly(c)'
    BY <1>0, <2>1, EvenlyKept
  <2> QED
    BY <1>0, <2>1, <2>2 DEF AllOrNone
<1> QED
  BY <1>0, <1>1, <1>2, <1>3, <1>4 DEF Next

LEMMA MeetInvGivesMeeting == MeetInv => QuorumsMeet
<1> SUFFICES ASSUME MeetInv, NEW P \in quorums, NEW Q \in quorums
             PROVE  P \cap Q # {}
  BY DEF QuorumsMeet
<1>1. P \in SUBSET Servers /\ Q \in SUBSET Servers /\ IsFiniteSet(Servers)
  BY DaemonAssumption DEF MeetInv, TInv, LoopInv, ClientTypes
<1>2. Cardinality(P) \in Nat /\ Cardinality(Q) \in Nat /\ Cardinality(Servers) \in Nat
  BY <1>1, FS_Subset, FS_CardinalityType
<1>3. 2 * Cardinality(P) > Cardinality(Servers) /\ 2 * Cardinality(Q) > Cardinality(Servers)
  BY DEF MeetInv
<1>4. Cardinality(P) + Cardinality(Q) > Cardinality(Servers)
  BY <1>2, <1>3
<1> QED
  BY <1>1, <1>4, FS_MajoritiesIntersect

(***************************************************************************)
(* Where all servers are set at once, any two phases of any clients which  *)
(* sent each server their request as often, under a number not used        *)
(* before, count answers of a common server: however often a command       *)
(* appended the servers to the list again, and whether or not that opens   *)
(* a second connection to each.                                            *)
(***************************************************************************)
THEOREM RegularQuorumsMeet ==
    ASSUME ServersSetAtOnce
    PROVE  Spec => []QuorumsMeet
<1>1. Init => MeetInv
  BY MeetInvInit
<1>2. MeetInv /\ [Next]_vars => MeetInv'
  BY MeetInvNext
<1>3. MeetInv => QuorumsMeet
  BY MeetInvGivesMeeting
<1> QED
  BY <1>1, <1>2, <1>3, PTL DEF Spec
=============================================================================
