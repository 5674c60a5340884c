--------------------------- MODULE SODAWRefinement ---------------------------
(***************************************************************************)
(* Proof that no call of SODAW misses what had returned before, that a tag *)
(* stands for one value, and that SODAW implements the atomic register, so *)
(* that its calls are linearizable, for every instance in which no         *)
(* operation number is used twice.                                         *)
(***************************************************************************)
EXTENDS SODAWProofs

USE DEF WRITE_GET, READ_GET, WRITE_PUT, READ_VALUE, READ_COMPLETE, DRAIN, GetPhases, Phases

---------------------------------------------------------------------------
(* Where the messages, the stored values and the elements come from. *)

\* A write begins its second phase with a tag above the maximum it has seen.
LEMMA PutBegins ==
    ASSUME Types, NEW c \in Clients, EndGet(c), pc[c] = WRITE_GET
    PROVE  /\ pc' = [pc EXCEPT ![c] = WRITE_PUT] /\ pc'[c] = WRITE_PUT
           /\ tag[c] \in Tag /\ tag'[c] = TagToWrite(c) /\ tag'[c] \in Tag
           /\ \A d \in Clients \ {c} : tag'[d] = tag[d]
           /\ \E m \in Request : /\ m = Message(WRITE_PUT, Num(c), tag'[c], Own(c))
                                 /\ Multicast(c, m)
<1>1. /\ pc' = [pc EXCEPT ![c] = WRITE_PUT]
      /\ tag' = [tag EXCEPT ![c] = TagToWrite(c)]
      /\ Multicast(c, Message(WRITE_PUT, Num(c), TagToWrite(c), Own(c)))
  BY DEF EndGet
<1>2. responses[c] > 0 /\ Num(c) \in Nat
  BY TypesEndGet, CurrentCall, KType, SMTT(30) DEF Types
<1>3. tag[c] \in Tag /\ TagToWrite(c) \in Tag
  <2>1. tag[c] \in Tag
    BY <1>2 DEF Types
  <2> QED
    BY <2>1, CallsAssumption DEF Tag, TagToWrite
<1>4. tag'[c] = TagToWrite(c) /\ pc'[c] = WRITE_PUT
      /\ \A d \in Clients \ {c} : tag'[d] = tag[d]
  BY <1>1 DEF Types
<1>5. Message(WRITE_PUT, Num(c), tag'[c], Own(c)) \in Request
  BY <1>2, <1>3, <1>4, OwnType DEF Request, TagRequest, Message
<1> QED
  BY <1>1, <1>3, <1>4, <1>5

\* What a step may do to the call of a client.
AtWork(d) ==
    \/ Begin(d)
    \/ EndGet(d)
    \/ \E s \in Servers : CountGet(d, s)
    \/ /\ call'[d] = call[d] /\ tag'[d] = tag[d] /\ before'[d] = before[d]
       /\ \/ pc'[d] = pc[d]
          \/ <<pc[d], pc'[d]>> \in {<<WRITE_PUT, "idle">>, <<READ_VALUE, DRAIN>>,
                                    <<DRAIN, "idle">>}

LEMMA ClientWorks ==
    ASSUME Types, [Next]_vars, NEW d \in Clients
    PROVE  AtWork(d)
<1>1. ASSUME NEW c \in Clients, Begin(c), d # c PROVE AtWork(d)
  <2>1. before'[d] = before[d]
    BY <1>1 DEF Begin, Types
  <2> QED
    BY <2>1, <1>1, OthersKept DEF ClientStep, Untouched, Kept, AtWork
<1>2. ASSUME NEW c \in Clients, EndGet(c), d # c PROVE AtWork(d)
  <2>1. before' = before
    BY <1>2 DEF EndGet
  <2> QED
    BY <2>1, <1>2, OthersKept DEF ClientStep, Untouched, Kept, AtWork
<1>3. ASSUME NEW c \in Clients, EndRead(c) PROVE AtWork(d)
  <2>1. before' = before /\ call' = call
    BY <1>3 DEF EndRead
  <2>2. tag' = tag /\ pc[c] = DRAIN /\ pc' = [pc EXCEPT ![c] = "idle"]
    BY <1>3 DEF EndRead, Return
  <2> QED
    BY <2>1, <2>2 DEF Types, AtWork
<1>4. ASSUME NEW c \in Clients, Crash(c) PROVE AtWork(d)
  BY <1>4 DEF Crash, AtWork
<1>5. ASSUME NEW c \in Clients, NEW s \in Servers,
             OldMessage(c, s) \/ CountGet(c, s) \/ CountPut(c, s) \/ EndPut(c, s)
               \/ Collect(c, s)
      PROVE  AtWork(d)
  <2>1. before' = before /\ call' = call
    BY <1>5, ReadsOne, Receives
  <2>2. CASE OldMessage(c, s) \/ CountPut(c, s)
    BY <2>1, <2>2 DEF OldMessage, CountPut, AtWork
  <2>3. CASE CountGet(c, s)
    BY <2>1, <2>3 DEF CountGet, Types, AtWork
  <2>4. CASE EndPut(c, s)
    <3>1. tag' = tag /\ pc[c] = WRITE_PUT /\ pc' = [pc EXCEPT ![c] = "idle"]
      BY <2>4 DEF EndPut, Return
    <3> QED
      BY <2>1, <3>1 DEF Types, AtWork
  <2>5. CASE Collect(c, s)
    <3>1. /\ tag' = tag /\ pc[c] = READ_VALUE /\ pc'[c] \in {READ_VALUE, DRAIN}
          /\ \A e \in Clients \ {c} : pc'[e] = pc[e]
      BY <2>5, TypesCollect, ZenonT(60)
    <3> QED
      BY <2>1, <3>1 DEF AtWork
  <2> QED
    BY <1>5, <2>2, <2>3, <2>4, <2>5
<1>6. ASSUME NEW c \in Clients, ClientStep(c) \/ Crash(c) PROVE AtWork(d)
  BY <1>1, <1>2, <1>3, <1>4, <1>5, <1>6 DEF ClientStep, AtWork
<1>7. ASSUME NEW c \in Clients, NEW s \in Servers, Serve(c, s) PROVE AtWork(d)
  BY <1>7, ServeTakes DEF clientVars, AtWork
<1>8. ASSUME NEW p \in Servers, NEW s \in Servers, ServeReadDisperse(p, s) PROVE AtWork(d)
  BY <1>8, DisperseTakes DEF clientVars, AtWork
<1>9. CASE UNCHANGED vars
  BY <1>9 DEF vars, clientVars, AtWork
<1> QED
  BY <1>6, <1>7, <1>8, <1>9 DEF Next

\* A server keeps its value or takes that of the request it handles.
LEMMA NewStore ==
    ASSUME Types, [Next]_vars, NEW s \in Servers
    PROVE  /\ AtLeast(store'[s].tag, store[s].tag)
           /\ \/ store'[s] = store[s]
              \/ \E c \in Clients : \E i \in DOMAIN toServer[c][s] :
                    /\ toServer[c][s][i].phase = WRITE_PUT
                    /\ store'[s] = Tagging(toServer[c][s][i])
<1>0. AtLeast(store[s].tag, store[s].tag)
  BY StoreType, AtLeastOrder
<1>1. ASSUME NEW c \in Clients, NEW r \in Servers, Serve(c, r)
      PROVE  /\ AtLeast(store'[s].tag, store[s].tag)
             /\ \/ store'[s] = store[s]
                \/ \E d \in Clients : \E i \in DOMAIN toServer[d][s] :
                      /\ toServer[d][s][i].phase = WRITE_PUT
                      /\ store'[s] = Tagging(toServer[d][s][i])
  <2>1. StoreGrows(r, NextOf(c, r))
    BY <1>1, ServeSends DEF Sends
  <2>2. AtLeast(store'[s].tag, store[s].tag)
    BY <2>1 DEF StoreGrows
  <2>3. CASE ServeWritePut(c, r)
    <3>1. /\ NextOf(c, r).phase = WRITE_PUT
          /\ \/ store' = [store EXCEPT ![r] = Tagging(NextOf(c, r))]
             \/ store' = [store EXCEPT ![r] = store[r]]
      BY <2>3, PutSends DEF Tagging
    <3>2. store'[s] = store[s] \/ (s = r /\ store'[s] = Tagging(NextOf(c, r)))
      BY <3>1 DEF Types
    <3>3. 1 \in DOMAIN toServer[c][r] /\ toServer[c][r][1] = NextOf(c, r)
      BY <1>1, ServeTakes, ChannelTypes, TailElements DEF NextOf
    <3> QED
      BY <2>2, <3>1, <3>2, <3>3
  <2>4. CASE ~ServeWritePut(c, r)
    <3>1. store' = store
      BY <1>1, <2>4 DEF Serve, ServeGet, ServeReadValue, ServeReadComplete
    <3> QED
      BY <2>2, <3>1
  <2> QED
    BY <2>3, <2>4
<1>2. ASSUME store' = store
      PROVE  /\ AtLeast(store'[s].tag, store[s].tag)
             /\ \/ store'[s] = store[s]
                \/ \E c \in Clients : \E i \in DOMAIN toServer[c][s] :
                      /\ toServer[c][s][i].phase = WRITE_PUT
                      /\ store'[s] = Tagging(toServer[c][s][i])
  BY <1>0, <1>2
<1>3. ASSUME NEW c \in Clients, ClientStep(c) \/ Crash(c) PROVE store' = store
  BY <1>3, OthersKept
<1>4. ASSUME NEW p \in Servers, NEW r \in Servers, ServeReadDisperse(p, r) PROVE store' = store
  BY <1>4 DEF ServeReadDisperse
<1>5. UNCHANGED vars => store' = store
  BY DEF vars
<1>6. \/ store' = store
      \/ \E c \in Clients, r \in Servers : Serve(c, r)
  BY <1>3, <1>4, <1>5 DEF Next
<1> QED
  BY <1>1, <1>2, <1>6

\* What a server adds to the channel of a client.
LEMMA NewAnswer ==
    ASSUME Types, [Next]_vars, NEW d \in Clients, NEW s \in Servers,
           NEW i \in DOMAIN toClient'[d][s]
    PROVE  LET a == toClient'[d][s][i]
           IN  \/ \E j \in DOMAIN toClient[d][s] : a = toClient[d][s][j]
               \/ /\ a.phase # WRITE_PUT => a.tag = store'[s].tag
                  /\ a.phase = READ_VALUE => a.val = store'[s].val
<1> DEFINE Old == \E j \in DOMAIN toClient[d][s] : toClient'[d][s][i] = toClient[d][s][j]
<1>1. ASSUME NEW c \in Clients, NEW r \in Servers, Serve(c, r), ~Old
      PROVE  LET a == toClient'[d][s][i]
             IN  /\ a.phase # WRITE_PUT => a.tag = store'[s].tag
                 /\ a.phase = READ_VALUE => a.val = store'[s].val
  <2>1. PICK a : a = toClient'[d][s][i]
    OBVIOUS
  <2>2. \/ s = r /\ d = c /\ IsReply(NextOf(c, r), a)
        \/ s = r /\ IsElement(r, d, a)
    BY <1>1, <2>1, SentByServe
  <2>3. CASE IsElement(r, d, a) /\ s = r
    BY <2>1, <2>3 DEF IsElement, Message
  <2>4. CASE s = r /\ d = c /\ IsReply(NextOf(c, r), a) /\ ServeGet(c, r)
    <3>1. PICK b \in Answer : /\ NextOf(c, s).phase \in GetPhases
                              /\ b.phase = NextOf(c, s).phase /\ b.tag = store[s].tag
                              /\ Deliver(s, ReplyTo(c, b))
      BY <2>4, GetSends
    <3>2. PICK out \in [Clients -> Seq(Answer)] :
             out = ReplyTo(c, b) /\ out[c] = <<b>> /\ Deliver(s, out)
      BY <3>1, ReplyToType
    <3>3. toClient'[c][s] = IF c \in alive THEN toClient[c][s] \o <<b>> ELSE toClient[c][s]
      <4>1. \A e \in Clients, p \in Servers :
               toClient'[e][p] = IF p = s /\ e \in alive THEN toClient[e][s] \o out[e]
                                                         ELSE toClient[e][p]
        BY <3>2, Delivers
      <4> QED
        BY <3>2, <4>1
    <3>4. toClient'[c][s] = toClient[c][s] \o <<b>>
      BY <1>1, <2>4, <3>3
    <3>5. <<b>> \in Seq(Answer) /\ DOMAIN <<b>> = {1} /\ <<b>>[1] = b
      OBVIOUS
    <3>6. \/ i \in DOMAIN toClient[c][s] /\ (toClient[c][s] \o <<b>>)[i] = toClient[c][s][i]
          \/ \E j \in DOMAIN <<b>> : (toClient[c][s] \o <<b>>)[i] = <<b>>[j]
      BY <2>4, <3>4, <3>5, ChannelTypes, ChannelConcat
    <3>7. a = b
      BY <1>1, <2>1, <2>4, <3>4, <3>5, <3>6
    <3>8. store' = store
      BY <2>4 DEF ServeGet
    <3> QED
      BY <2>1, <3>1, <3>7, <3>8
  <2>5. CASE s = r /\ IsReply(NextOf(c, r), a) /\ ~ServeGet(c, r)
    <3>1. NextOf(c, r).phase \notin GetPhases
      BY <1>1, <2>5 DEF Serve, ServeWritePut, ServeReadValue, ServeReadComplete, Take
    <3> QED
      BY <2>1, <2>5, <3>1 DEF IsReply, Counting
  <2> QED
    BY <2>1, <2>2, <2>3, <2>4, <2>5
<1>2. ASSUME NEW c \in Clients, ClientStep(c) \/ Crash(c) PROVE Old
  <2>1. CASE Crash(c)
    <3>1. toClient'[d][s] = toClient[d][s] \/ toClient'[d][s] = <<>>
      BY <2>1, Crashes
    <3> QED
      BY <3>1
  <2>2. CASE Begin(c) \/ EndGet(c) \/ EndRead(c)
    BY <2>2 DEF Begin, EndGet, EndRead
  <2>3. ASSUME NEW r \in Servers, Receive(c, r) PROVE Old
    <3>1. CASE d = c /\ s = r
      <4>1. /\ toClient[c][r] \in Seq(Answer) /\ toClient[c][r] # <<>>
            /\ toClient'[c][r] = Tail(toClient[c][r])
        BY <2>3, Receives
      <4>2. \A j \in DOMAIN Tail(toClient[c][r]) :
               j + 1 \in DOMAIN toClient[c][r] /\ Tail(toClient[c][r])[j] = toClient[c][r][j + 1]
        BY <4>1, TailElements
      <4> QED
        BY <3>1, <4>1, <4>2
    <3>2. CASE <<d, s>> # <<c, r>>
      <4>1. toClient'[d][s] = toClient[d][s]
        BY <2>3, <3>2, Receives
      <4> QED
        BY <4>1
    <3> QED
      BY <3>1, <3>2
  <2> QED
    BY <1>2, <2>1, <2>2, <2>3, ReadsOne DEF ClientStep
<1>3. ASSUME NEW p \in Servers, NEW r \in Servers, ServeReadDisperse(p, r) PROVE Old
  BY <1>3 DEF ServeReadDisperse
<1>4. UNCHANGED vars => Old
  BY DEF vars
<1>5. Old \/ \E c \in Clients, r \in Servers : Serve(c, r)
  BY <1>2, <1>3, <1>4 DEF Next
<1> QED
  BY <1>1, <1>5

\* Only the second phase of a write sends requests to write.
LEMMA NewRequest ==
    ASSUME Types, [Next]_vars, NEW d \in Clients, NEW s \in Servers,
           NEW i \in DOMAIN toServer'[d][s]
    PROVE  LET m == toServer'[d][s][i]
           IN  \/ \E j \in DOMAIN toServer[d][s] : m = toServer[d][s][j]
               \/ m.phase # WRITE_PUT
               \/ /\ EndGet(d) /\ pc[d] = WRITE_GET
                  /\ m.tag = tag'[d] /\ m.val = Own(d)
<1> DEFINE m   == toServer'[d][s][i]
           Old == \E j \in DOMAIN toServer[d][s] : m = toServer[d][s][j]
<1>1. ASSUME NEW c \in Clients, NEW n \in Request, Multicast(c, n), ~Old
      PROVE  d = c /\ m = n
  <2>1. d = c
    BY <1>1, Multicasts
  <2>2. toServer'[c][s] = Append(toServer[c][s], n) /\ toServer[c][s] \in Seq(Request)
    BY <1>1, Multicasts, ChannelTypes
  <2>3. \/ i \in DOMAIN toServer[c][s] /\ Append(toServer[c][s], n)[i] = toServer[c][s][i]
        \/ Append(toServer[c][s], n)[i] = n
    BY <2>1, <2>2, AppendElements
  <2> QED
    BY <1>1, <2>1, <2>2, <2>3
<1>2. ASSUME NEW c \in Clients, Begin(c), ~Old PROVE m.phase # WRITE_PUT
  <2>1. PICK next, phase, n :
           /\ next = Script[c][call[c] + 1]
           /\ phase = (IF next.kind = "read" THEN READ_GET ELSE WRITE_GET)
           /\ n = Message(phase, next.num, NoTag, InitVal)
    OBVIOUS
  <2>2. n \in Request /\ Multicast(c, n)
    BY <1>2, <2>1, TypesBegin
  <2>3. n.phase # WRITE_PUT
    BY <2>1 DEF Message
  <2> QED
    BY <1>1, <1>2, <2>2, <2>3
<1>3. ASSUME NEW c \in Clients, EndGet(c), ~Old
      PROVE  \/ m.phase # WRITE_PUT
             \/ d = c /\ pc[c] = WRITE_GET /\ m.tag = tag'[d] /\ m.val = Own(d)
  <2>1. CASE pc[c] = WRITE_GET
    <3>1. PICK n \in Request : /\ n = Message(WRITE_PUT, Num(c), tag'[c], Own(c))
                               /\ Multicast(c, n)
      BY <1>3, <2>1, PutBegins
    <3> QED
      BY <1>1, <1>3, <2>1, <3>1 DEF Message
  <2>2. CASE pc[c] # WRITE_GET
    BY <1>1, <1>3, <2>2, TypesEndGet
  <2> QED
    BY <2>1, <2>2
<1>4. ASSUME NEW c \in Clients, EndRead(c), ~Old PROVE m.phase # WRITE_PUT
  BY <1>1, <1>4, TypesEndRead
<1>5. ASSUME toServer'[d][s] = toServer[d][s] PROVE Old
  BY <1>5
<1>6. ASSUME NEW c \in Clients, Crash(c) PROVE Old
  <2>1. CASE d # c
    BY <1>5, <1>6, <2>1, Crashes
  <2>2. CASE d = c
    <3>1. PICK k \in 0 .. Len(toServer[c][s]) : toServer'[c][s] = SubSeq(toServer[c][s], 1, k)
      BY <1>6, Crashes
    <3> QED
      BY <2>2, <3>1, ChannelTypes, PrefixElements
  <2> QED
    BY <2>1, <2>2
<1>7. ASSUME NEW c \in Clients, NEW r \in Servers, Serve(c, r) PROVE Old
  <2>1. CASE d = c /\ s = r
    <3>1. /\ toServer[c][r] \in Seq(Request) /\ toServer[c][r] # <<>>
          /\ toServer'[c][r] = Tail(toServer[c][r])
      BY <1>7, ServeTakes, ChannelTypes
    <3>2. \A j \in DOMAIN Tail(toServer[c][r]) :
             j + 1 \in DOMAIN toServer[c][r] /\ Tail(toServer[c][r])[j] = toServer[c][r][j + 1]
      BY <3>1, TailElements
    <3> QED
      BY <2>1, <3>1, <3>2
  <2>2. CASE <<d, s>> # <<c, r>>
    BY <1>5, <1>7, <2>2, ServeTakes
  <2> QED
    BY <2>1, <2>2
<1>8. ASSUME NEW c \in Clients, NEW r \in Servers,
             OldMessage(c, r) \/ CountGet(c, r) \/ CountPut(c, r) \/ EndPut(c, r)
               \/ Collect(c, r)
      PROVE  Old
  BY <1>5, <1>8, ReadsOne
<1>9. ASSUME NEW p \in Servers, NEW r \in Servers, ServeReadDisperse(p, r) PROVE Old
  BY <1>5, <1>9 DEF ServeReadDisperse
<1>10. UNCHANGED vars => Old
  BY <1>5 DEF vars
<1> HIDE DEF m, Old
<1>11. ASSUME ~Old
       PROVE  \/ m.phase # WRITE_PUT
              \/ EndGet(d) /\ pc[d] = WRITE_GET /\ m.tag = tag'[d] /\ m.val = Own(d)
  <2>1. PICK c \in Clients : ClientStep(c)
    BY <1>6, <1>7, <1>9, <1>10, <1>11 DEF Next
  <2>2. Begin(c) \/ EndGet(c) \/ EndRead(c)
    BY <1>8, <1>11, <2>1 DEF ClientStep
  <2> QED
    BY <1>2, <1>3, <1>4, <1>11, <2>2
<1> QED
  BY <1>11 DEF m, Old

\* A request leaves the channel of a client that is alive when it is handled.
LEMMA RequestHandled ==
    ASSUME Types, [Next]_vars, NEW d \in Clients, d \in alive', NEW s \in Servers, NEW M,
           Has(toServer[d][s], M), ~Has(toServer'[d][s], M)
    PROVE  Serve(d, s) /\ NextOf(d, s) \in M
<1>1. toServer[d][s] \in Seq(Request)
  BY ChannelTypes
<1>2. ASSUME toServer'[d][s] = toServer[d][s] PROVE FALSE
  BY <1>2
<1>3. ASSUME NEW c \in Clients, NEW n \in Request, Multicast(c, n) PROVE FALSE
  <2>1. CASE d # c
    BY <1>2, <1>3, <2>1, Multicasts
  <2>2. CASE d = c
    <3>1. toServer'[d][s] = Append(toServer[d][s], n)
      BY <1>3, <2>2, Multicasts
    <3> QED
      BY <1>1, <1>3, <3>1, HasAppend
  <2> QED
    BY <2>1, <2>2
<1>4. ASSUME NEW c \in Clients, ClientStep(c) \/ Crash(c) PROVE FALSE
  <2>1. CASE Begin(c)
    BY <1>3, <2>1, TypesBegin
  <2>2. CASE EndGet(c)
    BY <1>3, <2>2, TypesEndGet
  <2>3. CASE EndRead(c)
    BY <1>3, <2>3, TypesEndRead
  <2>4. CASE Crash(c)
    BY <1>2, <2>4, Crashes
  <2>5. CASE \E r \in Servers : OldMessage(c, r) \/ CountGet(c, r) \/ CountPut(c, r)
                                  \/ EndPut(c, r) \/ Collect(c, r)
    BY <1>2, <2>5, ReadsOne
  <2> QED
    BY <1>4, <2>1, <2>2, <2>3, <2>4, <2>5 DEF ClientStep
<1>5. \A p, r \in Servers : ~ServeReadDisperse(p, r)
  BY <1>2 DEF ServeReadDisperse
<1>6. ~UNCHANGED vars
  BY <1>2 DEF vars
<1>7. PICK c \in Clients, r \in Servers : Serve(c, r)
  BY <1>4, <1>5, <1>6 DEF Next
<1>8. d = c /\ s = r
  BY <1>2, <1>7, ServeTakes
<1>9. toServer[d][s] # <<>> /\ toServer'[d][s] = Tail(toServer[d][s])
  BY <1>7, <1>8, ServeTakes
<1>10. Has(toServer[d][s], M) <=> Has(Tail(toServer[d][s]), M) \/ Head(toServer[d][s]) \in M
  BY <1>1, <1>9, HasTail
<1> QED
  BY <1>7, <1>8, <1>9, <1>10 DEF NextOf

\* What was written is stored, unless it is older than what is.
LEMMA PutStored ==
    ASSUME Types, NEW c \in Clients, NEW s \in Servers, Serve(c, s),
           NextOf(c, s).phase = WRITE_PUT
    PROVE  AtLeast(store'[s].tag, NextOf(c, s).tag)
<1>1. ServeWritePut(c, s)
  BY DEF Serve, ServeGet, ServeReadValue, ServeReadComplete, Take
<1>2. PICK m, newer : /\ m = NextOf(c, s)
                      /\ newer = (compare_tags(m.tag, store[s].tag) > 0)
  OBVIOUS
<1>3. /\ m.tag \in Tag
      /\ store' = [store EXCEPT ![s] = IF newer THEN [tag |-> m.tag, val |-> m.val]
                                                ELSE store[s]]
  BY <1>1, <1>2, PutSends
<1>4. store'[s].tag = IF newer THEN m.tag ELSE store[s].tag
  BY <1>3 DEF Types
<1>5. store[s].tag \in Tag
  BY StoreType
<1>6. ~newer => AtLeast(store[s].tag, m.tag)
  BY <1>2, <1>3, <1>5, CompareTags
<1> QED
  BY <1>2, <1>3, <1>4, <1>6, AtLeastOrder

\* A read collects what it receives.
LEMMA NewElement ==
    ASSUME Types, [Next]_vars, NEW d \in Clients, NEW e \in DOMAIN elements'[d]
    PROVE  \/ e \in DOMAIN elements[d]
           \/ /\ d \in alive /\ pc[d] = READ_VALUE /\ tag' = tag /\ e.server \in Servers
              /\ \E i \in DOMAIN toClient[d][e.server] :
                    /\ toClient[d][e.server][i] \in Of(READ_VALUE, Num(d))
                    /\ Tagging(e) = Tagging(toClient[d][e.server][i])
<1> SUFFICES ASSUME e \notin DOMAIN elements[d]
             PROVE  /\ d \in alive /\ pc[d] = READ_VALUE /\ tag' = tag /\ e.server \in Servers
                    /\ \E i \in DOMAIN toClient[d][e.server] :
                          /\ toClient[d][e.server][i] \in Of(READ_VALUE, Num(d))
                          /\ Tagging(e) = Tagging(toClient[d][e.server][i])
  OBVIOUS
<1>1. elements'[d] # elements[d]
  OBVIOUS
<1>2. elements' # [elements EXCEPT ![d] = EmptyBag]
  <2>1. [elements EXCEPT ![d] = EmptyBag][d] = EmptyBag
    BY DEF Types
  <2> QED
    BY <2>1, EmptyBagType
<1>3. ASSUME NEW c \in Clients, ClientStep(c) \/ Crash(c)
      PROVE  c = d /\ \E s \in Servers : Collect(d, s)
  <2>1. c = d
    BY <1>1, <1>3, OthersKept DEF Untouched, Kept
  <2>2. ~Begin(d) /\ ~EndGet(d) /\ ~Crash(d)
    BY <1>1, <1>2 DEF Begin, EndGet, Crash
  <2>3. ~EndRead(d) /\ \A s \in Servers : ~EndPut(d, s)
    BY <1>2 DEF EndRead, EndPut, Return
  <2>4. \A s \in Servers : ~OldMessage(d, s) /\ ~CountGet(d, s) /\ ~CountPut(d, s)
    BY <1>1 DEF OldMessage, CountGet, CountPut
  <2> QED
    BY <1>3, <2>1, <2>2, <2>3, <2>4 DEF ClientStep
<1>4. \A c \in Clients, s \in Servers : ~Serve(c, s)
  BY <1>1, ServeTakes DEF clientVars
<1>5. \A p, s \in Servers : ~ServeReadDisperse(p, s)
  BY <1>1 DEF ServeReadDisperse, clientVars
<1>6. ~UNCHANGED vars
  BY <1>1 DEF vars, clientVars
<1>7. PICK s \in Servers : Collect(d, s)
  BY <1>3, <1>4, <1>5, <1>6 DEF Next
<1>8. PICK m : m = Head(toClient[d][s])
  OBVIOUS
<1>9. /\ Receive(d, s) /\ pc[d] = READ_VALUE /\ Counts(d, m) /\ tag' = tag
      /\ elements'[d] = elements[d] (+) SetToBag({ElementOf(s, m)})
  BY <1>7, <1>8, TypesCollect
<1>10. IsABag(elements[d])
  BY DEF Types
<1>11. DOMAIN elements'[d] = DOMAIN elements[d] \cup {ElementOf(s, m)}
  <2>1. PICK b, f : b = elements[d] /\ f = ElementOf(s, m)
    OBVIOUS
  <2>2. DOMAIN (b (+) SetToBag({f})) = DOMAIN b \cup {f}
    BY <1>10, <2>1, BagPlusOne
  <2> QED
    BY <1>9, <2>1, <2>2
<1>12. e = ElementOf(s, m)
  BY <1>11
<1>13. /\ 1 \in DOMAIN toClient[d][s] /\ m = toClient[d][s][1] /\ m \in Answer /\ d \in alive
  BY <1>8, <1>9, Receives, TailElements
<1>14. m \in Of(READ_VALUE, Num(d))
  BY <1>9, <1>13 DEF Of, Counts
<1>15. e.server = s /\ Tagging(e) = Tagging(m)
  BY <1>12 DEF ElementOf, Tagging
<1>16. \E i \in DOMAIN toClient[d][s] :
          /\ toClient[d][s][i] \in Of(READ_VALUE, Num(d))
          /\ Tagging(e) = Tagging(toClient[d][s][i])
  BY <1>13, <1>14, <1>15
<1> QED
  BY <1>9, <1>13, <1>15, <1>16

\* The result of the call of c with the tag t and the value v.
ResultOf(c, t, v) ==
    [client |-> c, call |-> call[c], kind |-> Kind(c), tag |-> t, val |-> v,
     before |-> before[c]]

\* The call of c returns t and v.
Finishes(c, t, v) ==
    /\ pc[c] # "idle" /\ pc' = [pc EXCEPT ![c] = "idle"]
    /\ done' = done \cup {ResultOf(c, t, v)} /\ ResultOf(c, t, v) \in Result
    /\ UNCHANGED <<store, call, tag, before>>
    /\ \/ /\ pc[c] = WRITE_PUT /\ t = tag[c] /\ v = Own(c)
          /\ \E s \in Servers : EndPut(c, s)
       \/ /\ pc[c] = DRAIN /\ EndRead(c)
          /\ \E e \in Decoded(c) : t = e.tag /\ v = e.val

LEMMA Finishing ==
    ASSUME Types, [Next]_vars
    PROVE  \/ done' = done /\ \A d \in Clients : pc[d] # "idle" => pc'[d] # "idle"
           \/ \E c \in Clients, t \in Tag, v \in Values : Finishes(c, t, v)
<1>1. ASSUME NEW c \in Clients, pc[c] # "idle", NEW t \in Tag, NEW v \in Values, Return(c, t, v)
      PROVE  /\ pc' = [pc EXCEPT ![c] = "idle"] /\ tag' = tag
             /\ done' = done \cup {ResultOf(c, t, v)} /\ ResultOf(c, t, v) \in Result
  <2>1. Kind(c) \in Kinds /\ call[c] \in Nat /\ before[c] \in SUBSET CallId
    BY <1>1, CurrentCall DEF Types
  <2> QED
    BY <1>1, <2>1 DEF Return, ResultOf, Result
<1>2. ASSUME NEW c \in Clients, NEW s \in Servers, EndPut(c, s)
      PROVE  Finishes(c, tag[c], Own(c)) /\ tag[c] \in Tag /\ Own(c) \in Values
  <2>1. /\ Receive(c, s) /\ pc[c] = WRITE_PUT /\ Return(c, tag[c], Own(c))
    BY <1>2 DEF EndPut
  <2>2. UNCHANGED <<store, call, before>> /\ pc[c] # "idle"
    BY <2>1, Receives
  <2>3. tag[c] \in Tag /\ Own(c) \in Values
    BY <2>1, OwnType DEF Types
  <2> QED
    BY <1>1, <1>2, <2>1, <2>2, <2>3 DEF Finishes
<1>3. ASSUME NEW c \in Clients, EndRead(c)
      PROVE  \E t \in Tag, v \in Values : Finishes(c, t, v)
  <2>1. pc[c] = DRAIN /\ UNCHANGED <<store, call, before>>
    BY <1>3 DEF EndRead
  <2>2. PICK e \in Decoded(c) : Return(c, e.tag, e.val)
    BY <1>3 DEF EndRead
  <2>3. e.tag \in Tag /\ e.val \in Values
    BY DEF Decoded, Types, Element
  <2>4. pc[c] # "idle"
    BY <2>1
  <2>5. Finishes(c, e.tag, e.val)
    BY <1>1, <1>3, <2>1, <2>2, <2>3, <2>4 DEF Finishes
  <2> QED
    BY <2>3, <2>5
<1> QED
  BY <1>2, <1>3, Returns

---------------------------------------------------------------------------
(* The calls that have returned. *)

LEMMA KnownTags ==
    ASSUME Types
    PROVE  /\ \A c \in Clients : tag[c] \in AnyTag
           /\ \A s \in Servers : store[s].tag \in Tag
           /\ \A r \in done : r.tag \in Tag /\ r.client \in Clients /\ r.call \in Nat
           /\ \A c \in Clients, s \in Servers : \A i \in DOMAIN toClient[c][s] :
                 toClient[c][s][i].tag \in Tag
           /\ \A c \in Clients : \A e \in DOMAIN elements[c] :
                 e.tag \in Tag /\ e.val \in Values /\ e.server \in Servers
<1>1. \A c \in Clients : tag[c] \in AnyTag
  BY TagsAreTags DEF Types
<1>2. \A s \in Servers : store[s].tag \in Tag
  BY StoreType
<1>3. \A r \in done : r.tag \in Tag /\ r.client \in Clients /\ r.call \in Nat
  BY DEF Types, Result
<1>4. ASSUME NEW c \in Clients, NEW s \in Servers, NEW i \in DOMAIN toClient[c][s]
      PROVE  toClient[c][s][i].tag \in Tag
  <2>1. toClient[c][s][i] \in Answer
    BY InChannel
  <2> QED
    BY <2>1 DEF Answer
<1>5. \A c \in Clients : \A e \in DOMAIN elements[c] :
         e.tag \in Tag /\ e.val \in Values /\ e.server \in Servers
  BY DEF Types, Element
<1> QED
  BY <1>1, <1>2, <1>3, <1>4, <1>5

\* A call that is running is not among those that have returned.
LEMMA RunningIsNew ==
    ASSUME Types, Recorded, NEW c \in Clients, pc[c] # "idle"
    PROVE  <<c, call[c]>> \notin Ids
<1> SUFFICES ASSUME NEW r \in done, <<c, call[c]>> = Id(r) PROVE FALSE
  BY DEF Ids
<1>1. r.client = c /\ r.call = call[c]
  BY DEF Id
<1> QED
  BY <1>1 DEF Recorded

\* What had returned before a step is known by its identifier.
LEMMA OldCalls ==
    ASSUME Types, Recorded, [Next]_vars
    PROVE  /\ done \subseteq done' /\ Ids \subseteq Ids'
           /\ \A x \in done' : Id(x) \in Ids => x \in done
<1>1. done \subseteq done'
  BY Finishing DEF Finishes
<1>2. Ids \subseteq Ids'
  BY <1>1 DEF Ids
<1>3. ASSUME NEW x \in done', Id(x) \in Ids, x \notin done PROVE FALSE
  <2>1. PICK c \in Clients, t \in Tag, v \in Values : Finishes(c, t, v)
    BY <1>3, Finishing
  <2>2. x = ResultOf(c, t, v) /\ pc[c] # "idle"
    BY <1>3, <2>1 DEF Finishes
  <2>3. Id(x) = <<c, call[c]>>
    BY <2>2 DEF ResultOf, Id
  <2> QED
    BY <1>3, <2>2, <2>3, RunningIsNew
<1> QED
  BY <1>1, <1>2, <1>3

\* While a call runs, what had returned before it stays the same.
LEMMA BeforeStays ==
    ASSUME Types, [Next]_vars, NEW c \in Clients
    PROVE  /\ Begin(c) \/ (call'[c] = call[c] /\ before'[c] = before[c])
           /\ Begin(c) => pc[c] = "idle" /\ before'[c] = Ids /\ call'[c] = call[c] + 1
                          /\ done' = done
           /\ pc'[c] # "idle" /\ ~Begin(c) => pc[c] # "idle"
<1>1. Begin(c) => /\ pc[c] = "idle" /\ before'[c] = Ids /\ call'[c] = call[c] + 1
                  /\ done' = done
  BY DEF Begin, Types, Ids
<1>2. EndGet(c) => before'[c] = before[c] /\ call'[c] = call[c] /\ pc[c] # "idle"
  BY TypesEndGet DEF EndGet
<1>3. \A s \in Servers : CountGet(c, s) =>
         before'[c] = before[c] /\ call'[c] = call[c] /\ pc[c] # "idle"
  BY Receives DEF CountGet
<1>4. AtWork(c)
  BY ClientWorks
<1> QED
  BY <1>1, <1>2, <1>3, <1>4 DEF AtWork

LEMMA RecordedNext ==
    ASSUME Types, Types', [Next]_vars, Recorded
    PROVE  Recorded'
<1>1. ASSUME NEW c \in Clients PROVE before'[c] \subseteq Ids'
  <2>1. before'[c] = before[c] \/ before'[c] = Ids
    BY BeforeStays
  <2> QED
    BY <2>1, OldCalls DEF Recorded
<1>2. ASSUME NEW r \in done'
      PROVE  /\ r.before \subseteq Ids' /\ r.call <= call'[r.client]
             /\ r.call = call'[r.client] => pc'[r.client] = "idle"
  <2>1. CASE r \in done
    <3>1. r.client \in Clients /\ r.call \in Nat /\ call[r.client] \in Nat
      BY <2>1, KnownTags DEF Types
    <3>2. r.before \subseteq Ids' /\ r.call <= call[r.client]
          /\ (r.call = call[r.client] => pc[r.client] = "idle")
      BY <2>1, OldCalls DEF Recorded
    <3>3. Begin(r.client) \/ call'[r.client] = call[r.client]
      BY <3>1, BeforeStays
    <3>4. Begin(r.client) => call'[r.client] = call[r.client] + 1
      BY <3>1, BeforeStays
    <3>5. r.call <= call'[r.client] /\ (r.call = call'[r.client] => ~Begin(r.client))
      BY <3>1, <3>2, <3>3, <3>4
    <3>6. pc'[r.client] # "idle" /\ ~Begin(r.client) => pc[r.client] # "idle"
      BY <3>1, BeforeStays
    <3> QED
      BY <3>2, <3>3, <3>5, <3>6
  <2>2. CASE r \notin done
    <3>1. PICK c \in Clients, t \in Tag, v \in Values : Finishes(c, t, v)
      BY <2>2, Finishing
    <3>2. /\ r = ResultOf(c, t, v) /\ pc'[c] = "idle" /\ call' = call
      BY <2>2, <3>1 DEF Finishes, Types
    <3>3. r.client = c /\ r.call = call[c] /\ r.before = before[c] /\ call[c] \in Nat
      BY <3>2 DEF ResultOf, Types
    <3> QED
      BY <3>2, <3>3, OldCalls DEF Recorded
  <2> QED
    BY <2>1, <2>2
<1> QED
  BY <1>1, <1>2 DEF Recorded

LEMMA OneResultNext ==
    ASSUME Types, Types', [Next]_vars, Recorded, OneResult
    PROVE  OneResult'
<1>1. ASSUME NEW x \in done', x \notin done
      PROVE  /\ x.client \in Clients /\ x.call = call[x.client] /\ call[x.client] \in Nat
             /\ pc[x.client] # "idle" /\ pc'[x.client] = "idle"
             /\ x.before = before[x.client] /\ Id(x) \notin Ids
             /\ \A y \in done' : y \notin done => y = x
  <2>1. PICK c \in Clients, t \in Tag, v \in Values : Finishes(c, t, v)
    BY <1>1, Finishing
  <2>2. /\ x = ResultOf(c, t, v) /\ \A y \in done' : y \notin done => y = x
    BY <1>1, <2>1 DEF Finishes
  <2>3. x.client = c /\ x.call = call[c] /\ x.before = before[c] /\ Id(x) = <<c, call[c]>>
    BY <2>2 DEF ResultOf, Id
  <2>4. pc[c] # "idle" /\ pc'[c] = "idle" /\ call[c] \in Nat
    BY <2>1 DEF Finishes, Types
  <2> QED
    BY <2>2, <2>3, <2>4, RunningIsNew
<1>2. \A x \in done : Id(x) \in Ids /\ x.client \in Clients /\ x.call \in Nat
  BY KnownTags DEF Ids
<1>3. ASSUME NEW x \in done', NEW r \in done', Id(x) = Id(r) PROVE x = r
  BY <1>1, <1>2, <1>3 DEF OneResult
<1>4. ASSUME NEW x \in done', pc'[x.client] # "idle" PROVE Id(x) \in before'[x.client]
  <2>1. x \in done /\ x.client \in Clients /\ Id(x) \in Ids
    BY <1>1, <1>2, <1>4
  <2>2. CASE Begin(x.client)
    BY <2>1, <2>2, BeforeStays
  <2>3. CASE ~Begin(x.client)
    BY <1>4, <2>1, <2>3, BeforeStays DEF OneResult
  <2> QED
    BY <2>2, <2>3
<1>5. ASSUME NEW x \in done', NEW r \in done', x.client = r.client, x.call < r.call
      PROVE  Precedes(x, r)
  <2>1. CASE x \in done /\ r \in done
    BY <1>5, <2>1 DEF OneResult
  <2>2. CASE x \in done /\ r \notin done
    BY <1>1, <1>5, <2>2 DEF OneResult, Precedes
  <2>3. CASE x \notin done /\ r \in done
    <3>1. r.call <= call[r.client]
      BY <2>3 DEF Recorded
    <3> QED
      BY <1>1, <1>2, <1>5, <2>3, <3>1
  <2>4. CASE x \notin done /\ r \notin done
    BY <1>1, <1>5, <2>4
  <2> QED
    BY <2>1, <2>2, <2>3, <2>4
<1> QED
  BY <1>3, <1>4, <1>5 DEF OneResult

\* No client comes back.
LEMMA AliveShrinks ==
    ASSUME Types, [Next]_vars
    PROVE  alive' \subseteq alive
<1>1. ASSUME NEW c \in Clients, ClientStep(c) \/ Crash(c) PROVE alive' \subseteq alive
  <2>1. CASE Begin(c) \/ EndGet(c) \/ EndRead(c)
    BY <2>1 DEF Begin, EndGet, EndRead
  <2>2. CASE Crash(c)
    BY <2>2, Crashes
  <2>3. ASSUME NEW s \in Servers, Receive(c, s) PROVE alive' \subseteq alive
    BY <2>3, Receives
  <2> QED
    BY <1>1, <2>1, <2>2, <2>3, ReadsOne DEF ClientStep
<1>2. ASSUME NEW c \in Clients, NEW s \in Servers, Serve(c, s) PROVE alive' \subseteq alive
  BY <1>2, ServeTakes DEF clientVars
<1>3. ASSUME NEW p \in Servers, NEW s \in Servers, ServeReadDisperse(p, s)
      PROVE  alive' \subseteq alive
  BY <1>3 DEF ServeReadDisperse, clientVars
<1>4. CASE UNCHANGED vars
  BY <1>4 DEF vars, clientVars
<1> QED
  BY <1>1, <1>2, <1>3, <1>4 DEF Next

---------------------------------------------------------------------------
(* What has returned is held. *)

LEMMA HeldStays ==
    ASSUME Types, Types', [Next]_vars, NEW t \in Tag, Held(t)
    PROVE  Held(t)'
<1>1. PICK Q \in SUBSET Servers : Cardinality(Q) >= K /\ \A s \in Q : AtLeast(store[s].tag, t)
  BY DEF Held
<1>2. ASSUME NEW s \in Q PROVE AtLeast(store'[s].tag, t)
  <2>1. AtLeast(store'[s].tag, store[s].tag) /\ store[s].tag \in Tag /\ store'[s].tag \in Tag
    BY NewStore, KnownTags, StoreType DEF Types, Object
  <2> QED
    BY <2>1, <1>1, AtLeastOrder
<1> QED
  BY <1>1, <1>2 DEF Held

LEMMA CollectedIsKeptNext ==
    ASSUME Types, Types', [Next]_vars, OneElementPerTag, Collected, CollectedIsKept
    PROVE  CollectedIsKept'
<1> SUFFICES ASSUME NEW d \in Clients, NEW e \in DOMAIN elements'[d]
             PROVE  AtLeast(e.tag, tag'[d]) /\ AtLeast(store'[e.server].tag, e.tag)
  BY DEF CollectedIsKept
<1>1. e.tag \in Tag /\ e.server \in Servers
  BY DEF Types, Element
<1>2. AtLeast(store[e.server].tag, e.tag) => AtLeast(store'[e.server].tag, e.tag)
  <2>1. /\ AtLeast(store'[e.server].tag, store[e.server].tag)
        /\ store[e.server].tag \in Tag /\ store'[e.server].tag \in Tag
    BY <1>1, NewStore, KnownTags DEF Types, Object
  <2> QED
    BY <2>1, <1>1, AtLeastOrder
<1>3. CASE e \in DOMAIN elements[d]
  <2>1. pc[d] \in {READ_VALUE, DRAIN}
    BY <1>3, EmptyBagType DEF Collected
  <2>2. tag'[d] = tag[d]
    <3>1. ~Begin(d) /\ ~EndGet(d) /\ \A s \in Servers : ~CountGet(d, s)
      BY <2>1 DEF Begin, EndGet, CountGet
    <3> QED
      BY <3>1, ClientWorks DEF AtWork
  <2> QED
    BY <1>2, <1>3, <2>2 DEF CollectedIsKept
<1>4. CASE e \notin DOMAIN elements[d]
  <2>1. /\ d \in alive /\ pc[d] = READ_VALUE /\ tag' = tag
        /\ \E i \in DOMAIN toClient[d][e.server] :
              /\ toClient[d][e.server][i] \in Of(READ_VALUE, Num(d))
              /\ Tagging(e) = Tagging(toClient[d][e.server][i])
    BY <1>4, NewElement
  <2>2. InOrder(d, e.server)
    BY <1>1, <2>1 DEF OneElementPerTag
  <2>3. PICK i \in DOMAIN toClient[d][e.server] :
           /\ toClient[d][e.server][i] \in Of(READ_VALUE, Num(d))
           /\ e.tag = toClient[d][e.server][i].tag
    BY <2>1 DEF Tagging
  <2>4. AtLeast(e.tag, tag[d]) /\ AtLeast(store[e.server].tag, e.tag)
    BY <2>2, <2>3 DEF InOrder
  <2> QED
    BY <1>2, <2>1, <2>4
<1> QED
  BY <1>3, <1>4

\* What a read decodes is held by the servers it was collected from.
LEMMA DecodedIsHeld ==
    ASSUME Types, Collected, CollectedIsKept, NEW c \in Clients, NEW e \in Decoded(c)
    PROVE  /\ e \in DOMAIN elements[c] /\ e.tag \in Tag /\ e.val \in Values
           /\ AtLeast(e.tag, tag[c]) /\ Held(e.tag)
<1>1. e \in DOMAIN elements[c] /\ e.tag \in Tag /\ e.val \in Values
  BY KnownTags DEF Decoded
<1>2. PICK P : P = {x.server : x \in WithTag(c, e.tag)}
  OBVIOUS
<1>3. P \in SUBSET Servers /\ Cardinality(P) >= K
  BY <1>2, DecodedServers
<1>4. \A s \in P : AtLeast(store[s].tag, e.tag)
  BY <1>2 DEF WithTag, CollectedIsKept
<1> QED
  BY <1>1, <1>3, <1>4 DEF Held, CollectedIsKept

\* The servers that have acknowledged, and the one whose acknowledgement is read now.
LEMMA WrittenIsHeld ==
    ASSUME Types, OnePerServer, WrittenIsKept, NEW c \in Clients, NEW s \in Servers, EndPut(c, s)
    PROVE  Held(tag[c])
<1>1. /\ Receive(c, s) /\ pc[c] = WRITE_PUT /\ Counts(c, Head(toClient[c][s]))
      /\ responses[c] + 1 >= K
  BY DEF EndPut
<1>2. PICK M, m : M = Of(pc[c], Num(c)) /\ m = Head(toClient[c][s])
  OBVIOUS
<1>3. c \in alive /\ m \in Answer /\ 1 \in DOMAIN toClient[c][s] /\ m = toClient[c][s][1]
  BY <1>1, <1>2, Receives, TailElements
<1>4. m \in M
  BY <1>1, <1>2, <1>3 DEF Counts, Of
<1>5. Has(toClient[c][s], M)
  BY <1>3, <1>4 DEF Has
<1>6. ~Has(toServer[c][s], M)
  BY <1>1, <1>2, <1>3, <1>5 DEF OnePerServer, OneAtMost, Counting
<1>7. PICK Q : Q = Answered(c) \cup {s}
  OBVIOUS
<1>8. Q \in SUBSET Servers /\ s \notin Answered(c)
  BY <1>2, <1>5, <1>7 DEF Answered
<1>9. \A r \in Q : r \in Servers /\ ~Has(toServer[c][r], M)
  BY <1>2, <1>6, <1>7 DEF Answered
<1>10. \A r \in Q : AtLeast(store[r].tag, tag[c])
  BY <1>1, <1>2, <1>3, <1>9 DEF WrittenIsKept, Handled
<1>11. Cardinality(Q) = Cardinality(Answered(c)) + 1
  BY <1>7, <1>8, AnsweredFinite, FS_AddElement
<1>12. responses[c] = Cardinality(Answered(c))
  BY <1>1, <1>3 DEF OnePerServer, Counting
<1> QED
  BY <1>1, <1>8, <1>10, <1>11, <1>12 DEF Held

LEMMA DoneIsHeldNext ==
    ASSUME Types, Types', [Next]_vars, OnePerServer, Collected, CollectedIsKept, WrittenIsKept,
           DoneIsHeld
    PROVE  DoneIsHeld'
<1> SUFFICES ASSUME NEW r \in done' PROVE Held(r.tag)'
  BY DEF DoneIsHeld
<1>1. CASE r \in done
  <2>1. Held(r.tag) /\ r.tag \in Tag
    BY <1>1, KnownTags DEF DoneIsHeld
  <2> QED
    BY <2>1, HeldStays
<1>2. CASE r \notin done
  <2>1. PICK c \in Clients, t \in Tag, v \in Values : Finishes(c, t, v)
    BY <1>2, Finishing
  <2>2. r = ResultOf(c, t, v) /\ r.tag = t
    BY <1>2, <2>1 DEF Finishes, ResultOf
  <2>3. CASE pc[c] = WRITE_PUT
    <3>1. t = tag[c] /\ \E s \in Servers : EndPut(c, s)
      BY <2>1, <2>3 DEF Finishes
    <3>2. Held(t)
      BY <3>1, WrittenIsHeld
    <3> QED
      BY <2>2, <3>2, HeldStays
  <2>4. CASE pc[c] = DRAIN
    <3>1. PICK e \in Decoded(c) : t = e.tag
      BY <2>1, <2>4 DEF Finishes
    <3>2. Held(t)
      BY <3>1, DecodedIsHeld
    <3> QED
      BY <2>2, <3>2, HeldStays
  <2> QED
    BY <2>1, <2>3, <2>4 DEF Finishes
<1> QED
  BY <1>1, <1>2

LEMMA WrittenIsKeptNext ==
    ASSUME Types, Types', [Next]_vars, FreshNums, OnlyBegun, KindOfPhase, WrittenIsKept
    PROVE  WrittenIsKept'
<1> SUFFICES ASSUME NEW c \in Clients, c \in alive', NEW s \in Servers, pc'[c] = WRITE_PUT
             PROVE  Handled(c, s)'
  BY DEF WrittenIsKept, Types
<1>1. CASE EndGet(c) /\ pc[c] = WRITE_GET
  <2>1. PICK m \in Request : /\ m = Message(WRITE_PUT, Num(c), tag'[c], Own(c))
                             /\ Multicast(c, m)
    BY <1>1, PutBegins
  <2>2. /\ toServer'[c][s] = Append(toServer[c][s], m) /\ toServer[c][s] \in Seq(Request)
        /\ Num(c)' = Num(c)
    BY <1>1, <2>1, Multicasts, ChannelTypes DEF EndGet, Num
  <2>3. PICK M : M = Of(WRITE_PUT, Num(c))
    OBVIOUS
  <2>4. m \in M /\ m.tag = tag'[c]
    BY <2>1, <2>3 DEF Of, Message
  <2>5. ~Has(toServer[c][s], M)
    <3>1. /\ call[c] \in 1 .. Len(Script[c]) /\ call[c] >= call[c]
          /\ Script[c][call[c]].kind = KindOf(WRITE_PUT) /\ pc[c] \notin From(WRITE_PUT)
      BY <1>1, CurrentCall DEF KindOfPhase, Kind, KindOf, From
    <3> QED
      BY <2>3, <3>1, NotYet DEF Num
  <2>6. Has(toServer'[c][s], M)
    BY <2>2, <2>4, HasAppend
  <2>7. ASSUME NEW i \in DOMAIN toServer'[c][s], toServer'[c][s][i] \in M
        PROVE  toServer'[c][s][i].tag = tag'[c]
    <3>1. \/ i \in DOMAIN toServer[c][s] /\ toServer'[c][s][i] = toServer[c][s][i]
          \/ toServer'[c][s][i] = m
      BY <2>2, AppendElements
    <3> QED
      BY <2>4, <2>5, <2>7, <3>1 DEF Has
  <2> QED
    BY <2>2, <2>3, <2>6, <2>7 DEF Handled
<1>2. CASE ~(EndGet(c) /\ pc[c] = WRITE_GET)
  <2>1. /\ pc[c] = WRITE_PUT /\ call'[c] = call[c] /\ tag'[c] = tag[c]
    <3>1. ~Begin(c) /\ \A r \in Servers : ~CountGet(c, r)
      <4>1. Begin(c) => pc'[c] \in GetPhases
        <5>1. PICK phase : phase = IF Script[c][call[c] + 1].kind = "read" THEN READ_GET
                                                                         ELSE WRITE_GET
          OBVIOUS
        <5>2. Begin(c) => pc' = [pc EXCEPT ![c] = phase]
          BY <5>1, TypesBegin
        <5> QED
          BY <5>1, <5>2 DEF Types
      <4>2. \A r \in Servers : CountGet(c, r) => pc'[c] \in GetPhases
        BY DEF CountGet
      <4> QED
        BY <4>1, <4>2
    <3>2. ~EndGet(c)
      <4>1. EndGet(c) /\ pc[c] # WRITE_GET => pc' = [pc EXCEPT ![c] = READ_VALUE]
        BY TypesEndGet
      <4> QED
        BY <1>2, <4>1 DEF Types
    <3> QED
      BY <3>1, <3>2, ClientWorks DEF AtWork
  <2>2. c \in alive /\ Num(c)' = Num(c)
    <3>1. alive' \subseteq alive
      BY AliveShrinks
    <3> QED
      BY <2>1, <3>1 DEF Num
  <2>3. PICK M : M = Of(WRITE_PUT, Num(c))
    OBVIOUS
  <2>4. /\ \A i \in DOMAIN toServer[c][s] : toServer[c][s][i] \in M =>
              toServer[c][s][i].tag = tag[c]
        /\ ~Has(toServer[c][s], M) => AtLeast(store[s].tag, tag[c])
    BY <2>1, <2>2, <2>3 DEF WrittenIsKept, Handled
  <2>5. ASSUME NEW i \in DOMAIN toServer'[c][s], toServer'[c][s][i] \in M
        PROVE  toServer'[c][s][i].tag = tag[c]
    <3>1. \/ \E j \in DOMAIN toServer[c][s] : toServer'[c][s][i] = toServer[c][s][j]
          \/ toServer'[c][s][i].phase # WRITE_PUT
      BY <1>2, NewRequest
    <3> QED
      BY <2>3, <2>4, <2>5, <3>1 DEF Of
  <2>6. ASSUME ~Has(toServer'[c][s], M) PROVE AtLeast(store'[s].tag, tag[c])
    <3>1. /\ AtLeast(store'[s].tag, store[s].tag) /\ store[s].tag \in Tag
          /\ store'[s].tag \in Tag /\ tag[c] \in Tag
      BY <2>1, NewStore, KnownTags DEF Types, Object
    <3>2. CASE ~Has(toServer[c][s], M)
      BY <2>4, <3>1, <3>2, AtLeastOrder
    <3>3. CASE Has(toServer[c][s], M)
      <4>1. Serve(c, s) /\ NextOf(c, s) \in M
        BY <2>6, <3>3, RequestHandled
      <4>2. 1 \in DOMAIN toServer[c][s] /\ NextOf(c, s) = toServer[c][s][1]
        BY <4>1, ServeTakes, ChannelTypes, TailElements DEF NextOf
      <4>3. NextOf(c, s).tag = tag[c] /\ NextOf(c, s).phase = WRITE_PUT
        BY <2>3, <2>4, <4>1, <4>2 DEF Of
      <4> QED
        BY <4>1, <4>3, PutStored
    <3> QED
      BY <3>2, <3>3
  <2> QED
    BY <2>1, <2>2, <2>3, <2>5, <2>6 DEF Handled
<1> QED
  BY <1>1, <1>2

---------------------------------------------------------------------------
(* A get phase reports what had returned. *)

\* In a phase that counts, a server has answered when its reply is counted.
LEMMA AnsweredStep ==
    ASSUME Types, [Next]_vars, OnePerServer, NEW d \in Clients, d \in alive',
           pc[d] \in Counting, pc'[d] = pc[d], call'[d] = call[d]
    PROVE  \/ Answered(d)' = Answered(d) /\ tag'[d] = tag[d]
           \/ \E s \in Servers : (CountGet(d, s) \/ CountPut(d, s))
                                 /\ Answered(d)' = Answered(d) \cup {s}
<1> DEFINE Same == Answered(d)' = Answered(d) /\ tag'[d] = tag[d]
<1>0. d \in alive /\ CountsRight(d)
  BY AliveShrinks DEF OnePerServer, CountsRight
<1>1. UNCHANGED vars => Same
  BY DEF Answered, Has, Num, vars, clientVars
<1>2. ASSUME NEW c \in Clients, ClientStep(c) \/ Crash(c), d # c PROVE Same
  <2>1. Untouched(d)
    BY <1>2, OthersKept
  <2> QED
    BY <2>1 DEF Answered, Untouched, Kept, Num
<1>3. ASSUME NEW s \in Servers, CountGet(d, s) \/ CountPut(d, s)
      PROVE  Answered(d)' = Answered(d) \cup {s}
  <2>1. Receive(d, s) /\ UNCHANGED toServer
    BY <1>3, ReadsOne
  <2>2. /\ Counts(d, Head(toClient[d][s])) /\ pc' = pc
        /\ responses'[d] = responses[d] + 1
    BY <1>3 DEF CountGet, CountPut, Types
  <2> QED
    BY <1>0, <2>1, <2>2, CountsOneMore
<1>4. ASSUME ClientStep(d) \/ Crash(d),
             \A s \in Servers : ~CountGet(d, s) /\ ~CountPut(d, s)
      PROVE  Same
  <2>1. ~Crash(d)
    BY Crashes
  <2>2. ~Begin(d) /\ ~EndGet(d) /\ ~EndRead(d)
    <3>1. Begin(d) => call'[d] = call[d] + 1 /\ call[d] \in Nat
      BY DEF Begin, Types
    <3>2. EndGet(d) => pc'[d] \in {WRITE_PUT, READ_VALUE} /\ pc[d] \in GetPhases
      BY TypesEndGet DEF Types
    <3>3. EndRead(d) => pc[d] = DRAIN
      BY DEF EndRead
    <3> QED
      BY <3>1, <3>2, <3>3 DEF Counting
  <2>3. \A s \in Servers : ~EndPut(d, s) /\ ~Collect(d, s)
    BY DEF EndPut, Return, Collect, Counting, Types
  <2>4. PICK s \in Servers : OldMessage(d, s)
    BY <1>4, <2>1, <2>2, <2>3 DEF ClientStep
  <2>5. Answered(d)' = Answered(d)
    BY <1>0, <2>4, CountsAsBefore
  <2> QED
    BY <2>4, <2>5 DEF OldMessage
<1>5. ASSUME NEW c \in Clients, NEW s \in Servers, Serve(c, s) PROVE Same
  <2>1. UNCHANGED clientVars
    BY <1>5, ServeTakes
  <2>2. PICK phase, num : phase \in Counting /\ phase = pc[d] /\ num = Num(d)
    OBVIOUS
  <2>3. \A r \in Servers : OneAtMost(d, r, Of(phase, num))
    BY <1>0, <2>2 DEF CountsRight
  <2>4. \A r \in Servers :
           (Has(toServer'[d][r], Of(phase, num)) \/ Has(toClient'[d][r], Of(phase, num)))
              <=> (Has(toServer[d][r], Of(phase, num)) \/ Has(toClient[d][r], Of(phase, num)))
    BY <1>0, <1>5, <2>2, <2>3, ServeCounts
  <2>5. Of(pc[d], Num(d))' = Of(phase, num)
    BY <2>1, <2>2 DEF Num, clientVars
  <2>6. Answered(d)' = Answered(d)
    BY <2>2, <2>4, <2>5 DEF Answered
  <2> QED
    BY <2>1, <2>6 DEF clientVars
<1>6. ASSUME NEW p \in Servers, NEW s \in Servers, ServeReadDisperse(p, s) PROVE Same
  <2>1. UNCHANGED <<toServer, toClient, clientVars>>
    BY <1>6, DisperseTakes
  <2> QED
    BY <2>1 DEF Answered, Num, clientVars
<1> HIDE DEF Same
<1>7. Same \/ \E s \in Servers : CountGet(d, s) \/ CountPut(d, s)
  BY <1>1, <1>2, <1>4, <1>5, <1>6 DEF Next
<1> QED
  BY <1>3, <1>7 DEF Same

\* When a call begins, no server has answered it.
LEMMA NoneAnswered ==
    ASSUME Types, Types', FreshNums, OnlyBegun, KindOfPhase, NEW c \in Clients, Begin(c),
           NEW s \in Servers
    PROVE  s \notin Answered(c)' /\ ~Has(toClient'[c][s], Of(pc[c], Num(c))')
<1>1. PICK k, next, phase, m :
         /\ k = call[c] + 1 /\ next = Script[c][k]
         /\ phase = (IF next.kind = "read" THEN READ_GET ELSE WRITE_GET)
         /\ m = Message(phase, next.num, NoTag, InitVal)
  OBVIOUS
<1>2. /\ k \in 1 .. Len(Script[c]) /\ next \in [kind : Kinds, num : Nat]
      /\ pc' = [pc EXCEPT ![c] = phase] /\ call' = [call EXCEPT ![c] = k]
  BY <1>1, TypesBegin
<1>3. phase \in Counting /\ next.kind = KindOf(phase)
  BY <1>1, <1>2 DEF KindOf, Kinds, Counting
<1>4. pc'[c] = phase /\ call'[c] = k /\ k >= call[c] /\ k # call[c]
  BY <1>1, <1>2 DEF Types
<1>5. Num(c)' = next.num /\ responses'[c] = 0 /\ toClient' = toClient
  BY <1>1, <1>4 DEF Num, Begin, Types
<1>6. ~Has(toClient[c][s], Of(phase, next.num))
  <2>1. Script[c][k].kind = KindOf(phase) /\ (k = call[c] => pc[c] \notin From(phase))
    BY <1>1, <1>3, <1>4
  <2> QED
    BY <1>1, <1>2, <1>4, <2>1, NotYet
<1>7. CountsRight(c)'
  BY CountsNewPhase
<1>8. Cardinality(Answered(c)') = 0
  BY <1>3, <1>4, <1>5, <1>7 DEF CountsRight
<1>9. IsFiniteSet(Answered(c)')
  <2>1. Answered(c)' \subseteq Servers
    BY DEF Answered
  <2> QED
    BY <2>1, CallsAssumption, FS_Subset
<1>10. s \notin Answered(c)'
  BY <1>8, <1>9, FS_EmptySet
<1> QED
  BY <1>4, <1>5, <1>6, <1>10

\* During a get phase, a server that reports a tag goes on to do so.
LEMMA ReportsStay ==
    ASSUME Types, Types', [Next]_vars, OnePerServer, NEW d \in Clients, d \in alive',
           pc[d] \in GetPhases, pc'[d] = pc[d], call'[d] = call[d], NEW s \in Servers,
           NEW t \in Tag, Reports(d, s, t)
    PROVE  Reports(d, s, t)'
<1>1. PICK M : M = Of(pc[d], Num(d))
  OBVIOUS
<1>2. /\ AtLeast(store[s].tag, t) /\ (s \in Answered(d) => Newer(tag[d], t))
      /\ \A i \in DOMAIN toClient[d][s] : toClient[d][s][i] \in M =>
            AtLeast(toClient[d][s][i].tag, t)
  BY <1>1 DEF Reports
<1>3. Of(pc[d], Num(d))' = M
  BY <1>1 DEF Num
<1>4. AtLeast(store'[s].tag, t)
  <2>1. AtLeast(store'[s].tag, store[s].tag) /\ store[s].tag \in Tag /\ store'[s].tag \in Tag
    BY NewStore, StoreType DEF Types, Object
  <2> QED
    BY <2>1, <1>2, AtLeastOrder
<1>5. ASSUME NEW i \in DOMAIN toClient'[d][s], toClient'[d][s][i] \in M
      PROVE  AtLeast(toClient'[d][s][i].tag, t)
  <2>1. toClient'[d][s][i].phase \in GetPhases
    BY <1>1, <1>5 DEF Of
  <2>2. \/ \E j \in DOMAIN toClient[d][s] : toClient'[d][s][i] = toClient[d][s][j]
        \/ toClient'[d][s][i].tag = store'[s].tag
    BY <2>1, NewAnswer
  <2> QED
    BY <1>2, <1>4, <1>5, <2>2
<1>6. ASSUME s \in Answered(d)' PROVE Newer(tag'[d], t)
  <2>1. \/ Answered(d)' = Answered(d) /\ tag'[d] = tag[d]
        \/ \E r \in Servers : CountGet(d, r) /\ Answered(d)' = Answered(d) \cup {r}
    BY AnsweredStep DEF Counting, CountPut
  <2>2. ASSUME NEW r \in Servers, CountGet(d, r), Answered(d)' = Answered(d) \cup {r}
        PROVE  Newer(tag'[d], t)
    <3>1. PICK m : m = Head(toClient[d][r])
      OBVIOUS
    <3>2. Receive(d, r) /\ Counts(d, m) /\ tag'[d] = MaxTagStep(tag[d], m.tag)
      BY <2>2, <3>1 DEF CountGet, Types
    <3>3. m \in Answer /\ m.tag \in Tag /\ 1 \in DOMAIN toClient[d][r] /\ m = toClient[d][r][1]
      BY <3>1, <3>2, Receives, TailElements
    <3>4. tag[d] \in AnyTag /\ m.tag \in AnyTag /\ tag'[d] \in AnyTag /\ t \in AnyTag
      <4>1. tag[d] \in AnyTag /\ tag'[d] \in Tag \cup {NoTag}
        BY KnownTags DEF Types
      <4> QED
        BY <3>3, <4>1, TagsAreTags
    <3>5. Newer(tag'[d], tag[d]) /\ Newer(tag'[d], m.tag)
      BY <3>2, <3>4, MaxTagNewer
    <3>6. CASE s \in Answered(d)
      BY <1>2, <3>4, <3>5, <3>6, NewerTransitive
    <3>7. CASE s = r
      <4>1. m \in M
        BY <1>1, <3>2, <3>3 DEF Counts, Of
      <4>2. AtLeast(m.tag, t)
        BY <1>2, <3>3, <3>7, <4>1
      <4>3. Newer(m.tag, t)
        BY <3>4, <4>2, AtLeastNewer
      <4> QED
        BY <3>4, <3>5, <4>3, NewerTransitive
    <3> QED
      BY <1>6, <2>2, <3>6, <3>7
  <2> QED
    BY <1>2, <1>6, <2>1, <2>2
<1> QED
  BY <1>3, <1>4, <1>5, <1>6 DEF Reports

LEMMA GetsReportNext ==
    ASSUME Types, Types', [Next]_vars, FreshNums, OnlyBegun, KindOfPhase, OnePerServer,
           Recorded, DoneIsHeld, GetsReport
    PROVE  GetsReport'
<1> SUFFICES ASSUME NEW c \in alive', NEW x \in done', pc'[c] \in GetPhases,
                    Id(x) \in before'[c]
             PROVE  \E Q \in SUBSET Servers :
                       Cardinality(Q) >= K /\ \A s \in Q : Reports(c, s, x.tag)'
  BY DEF GetsReport
<1>1. c \in Clients /\ c \in alive
  BY AliveShrinks DEF Types
<1>2. Id(x) \in Ids => x \in done /\ x.tag \in Tag
  BY OldCalls, KnownTags
<1>3. CASE Begin(c)
  <2>1. before'[c] = Ids
    BY <1>1, <1>3, BeforeStays
  <2>2. x \in done /\ x.tag \in Tag
    BY <1>2, <2>1
  <2>3. PICK Q \in SUBSET Servers : /\ Cardinality(Q) >= K
                                    /\ \A s \in Q : AtLeast(store[s].tag, x.tag)
    BY <2>2 DEF DoneIsHeld, Held
  <2>4. store' = store
    BY <1>3 DEF Begin
  <2>5. ASSUME NEW s \in Q PROVE Reports(c, s, x.tag)'
    <3>1. s \notin Answered(c)' /\ ~Has(toClient'[c][s], Of(pc[c], Num(c))')
      BY <1>1, <1>3, NoneAnswered
    <3> QED
      BY <2>3, <2>4, <3>1 DEF Reports, Has
  <2> QED
    BY <2>3, <2>5
<1>4. CASE ~Begin(c)
  <2>1. /\ call'[c] = call[c] /\ before'[c] = before[c] /\ pc[c] # "idle"
    BY <1>1, <1>4, BeforeStays
  <2>2. pc'[c] = pc[c]
    <3>1. EndGet(c) => pc'[c] \in {WRITE_PUT, READ_VALUE}
      BY <1>1, TypesEndGet DEF Types
    <3>2. \A s \in Servers : CountGet(c, s) => pc'[c] = pc[c]
      BY DEF CountGet
    <3>3. AtWork(c)
      BY <1>1, ClientWorks
    <3> QED
      BY <1>4, <3>1, <3>2, <3>3 DEF AtWork
  <2>3. x \in done /\ x.tag \in Tag
    BY <1>1, <1>2, <2>1 DEF Recorded
  <2>4. PICK Q \in SUBSET Servers : Cardinality(Q) >= K /\ \A s \in Q : Reports(c, s, x.tag)
    BY <1>1, <2>1, <2>2, <2>3 DEF GetsReport
  <2>5. \A s \in Q : Reports(c, s, x.tag)'
    BY <1>1, <2>1, <2>2, <2>3, <2>4, ReportsStay
  <2> QED
    BY <2>4, <2>5
<1> QED
  BY <1>3, <1>4

\* The maximum of a majority is not older than what had returned.
LEMMA MaximumIsNewer ==
    ASSUME Types, OnePerServer, GetsReport, NEW c \in Clients, EndGet(c),
           NEW x \in done, Id(x) \in before[c]
    PROVE  Newer(tag[c], x.tag)
<1>1. c \in alive /\ pc[c] \in GetPhases /\ responses[c] >= K
  BY DEF EndGet
<1>2. PICK Q \in SUBSET Servers : Cardinality(Q) >= K /\ \A s \in Q : Reports(c, s, x.tag)
  BY <1>1 DEF GetsReport
<1>3. Answered(c) \in SUBSET Servers /\ Cardinality(Answered(c)) >= K
  BY <1>1 DEF OnePerServer, Counting, Answered
<1>4. PICK s \in Q : s \in Answered(c)
  BY <1>2, <1>3, TwoMajorities DEF K
<1> QED
  BY <1>2, <1>4 DEF Reports

\* Where a client is after a step.
LEMMA PhaseAfter ==
    ASSUME Types, [Next]_vars, NEW c \in Clients, pc'[c] \in {WRITE_PUT, READ_VALUE, DRAIN}
    PROVE  /\ ~Begin(c) /\ call'[c] = call[c] /\ before'[c] = before[c] /\ Kind(c)' = Kind(c)
           /\ Num(c)' = Num(c)
           /\ EndGet(c) \/ (pc[c] \in {WRITE_PUT, READ_VALUE, DRAIN} /\ tag'[c] = tag[c])
<1>1. Begin(c) => pc'[c] \in GetPhases
  <2>1. PICK phase : phase = IF Script[c][call[c] + 1].kind = "read" THEN READ_GET ELSE WRITE_GET
    OBVIOUS
  <2>2. Begin(c) => pc' = [pc EXCEPT ![c] = phase]
    BY <2>1, TypesBegin
  <2> QED
    BY <2>1, <2>2 DEF Types
<1>2. \A s \in Servers : CountGet(c, s) => pc'[c] \in GetPhases
  BY DEF CountGet
<1>3. AtWork(c)
  BY ClientWorks
<1>4. ~Begin(c) /\ call'[c] = call[c] /\ before'[c] = before[c]
  BY <1>1, BeforeStays
<1>5. EndGet(c) \/ (tag'[c] = tag[c] /\ pc[c] \in {WRITE_PUT, READ_VALUE, DRAIN})
  BY <1>1, <1>2, <1>3 DEF AtWork
<1> QED
  BY <1>4, <1>5 DEF Kind, Num

LEMMA ChosenExceedsNext ==
    ASSUME Types, Types', [Next]_vars, KindOfPhase, OnePerServer, Collected,
           Recorded, GetsReport, CollectedIsKept, ChosenExceeds
    PROVE  ChosenExceeds'
<1>1. ASSUME NEW c \in Clients, NEW x \in done',
             pc'[c] \in {WRITE_PUT, READ_VALUE, DRAIN}, Id(x) \in before'[c]
      PROVE  Exceeds(Kind(c)', tag'[c], x.tag)
  <2>1. /\ before'[c] = before[c] /\ Kind(c)' = Kind(c)
        /\ EndGet(c) \/ (pc[c] \in {WRITE_PUT, READ_VALUE, DRAIN} /\ tag'[c] = tag[c])
    BY <1>1, PhaseAfter
  <2>2. x \in done /\ x.tag \in Tag /\ x.tag \in AnyTag
    BY <1>1, <2>1, OldCalls, KnownTags, TagsAreTags DEF Recorded
  <2>3. CASE EndGet(c)
    <3>1. Newer(tag[c], x.tag)
      BY <1>1, <2>1, <2>2, <2>3, MaximumIsNewer
    <3>2. pc[c] \in GetPhases /\ (Kind(c) = "write" <=> pc[c] = WRITE_GET)
      BY <2>3 DEF EndGet, KindOfPhase
    <3>3. CASE pc[c] = WRITE_GET
      <4>1. tag'[c] = TagToWrite(c) /\ tag[c] \in Tag /\ tag[c] \in AnyTag
        BY <2>3, <3>3, PutBegins, TagsAreTags
      <4>2. tag[c].z >= x.tag.z
        BY <2>2, <3>1, <4>1, NewerCounter
      <4>3. tag'[c].z = tag[c].z + 1 /\ tag[c].z \in Nat /\ x.tag.z \in Nat
        BY <2>2, <4>1 DEF TagToWrite, Tag
      <4> QED
        BY <2>1, <3>2, <3>3, <4>2, <4>3 DEF Exceeds
    <3>4. CASE pc[c] # WRITE_GET
      <4>1. tag' = tag
        BY <2>3, <3>4, TypesEndGet
      <4> QED
        BY <2>1, <3>1, <3>2, <3>4, <4>1 DEF Exceeds
    <3> QED
      BY <3>3, <3>4
  <2>4. CASE ~EndGet(c)
    BY <1>1, <2>1, <2>2, <2>4 DEF ChosenExceeds
  <2> QED
    BY <2>3, <2>4
<1>2. ASSUME NEW x \in done', NEW r \in done', Precedes(x, r)
      PROVE  Exceeds(r.kind, r.tag, x.tag)
  <2>1. CASE r \in done
    <3>1. x \in done
      BY <1>2, <2>1, OldCalls DEF Recorded, Precedes
    <3> QED
      BY <1>2, <2>1, <3>1 DEF ChosenExceeds
  <2>2. CASE r \notin done
    <3>1. PICK c \in Clients, t \in Tag, v \in Values : Finishes(c, t, v)
      BY <2>2, Finishing
    <3>2. r = ResultOf(c, t, v)
      BY <2>2, <3>1 DEF Finishes
    <3>3. r.before = before[c] /\ r.kind = Kind(c) /\ r.tag = t
      BY <3>2 DEF ResultOf
    <3>4. Id(x) \in before[c] /\ x \in done /\ x.tag \in AnyTag
      <4>1. Id(x) \in before[c]
        BY <1>2, <3>3 DEF Precedes
      <4> QED
        BY <4>1, OldCalls, KnownTags, TagsAreTags DEF Recorded
    <3>5. pc[c] \in {WRITE_PUT, DRAIN} => Exceeds(Kind(c), tag[c], x.tag)
      BY <3>4 DEF ChosenExceeds
    <3>6. CASE pc[c] = WRITE_PUT
      BY <3>1, <3>3, <3>5, <3>6 DEF Finishes
    <3>7. CASE pc[c] = DRAIN
      <4>1. PICK e \in Decoded(c) : t = e.tag
        BY <3>1, <3>7 DEF Finishes
      <4>2. AtLeast(t, tag[c]) /\ t \in AnyTag /\ tag[c] \in AnyTag
        BY <4>1, DecodedIsHeld, KnownTags, TagsAreTags
      <4>3. Kind(c) = "read"
        BY <3>7 DEF KindOfPhase
      <4>4. Newer(t, tag[c]) /\ Newer(tag[c], x.tag)
        BY <3>5, <3>7, <4>2, <4>3, AtLeastNewer DEF Exceeds
      <4>5. Newer(t, x.tag)
        BY <3>4, <4>2, <4>4, NewerTransitive
      <4> QED
        BY <3>3, <4>3, <4>5 DEF Exceeds
    <3> QED
      BY <3>1, <3>6, <3>7 DEF Finishes
  <2> QED
    BY <2>1, <2>2
<1> QED
  BY <1>1, <1>2 DEF ChosenExceeds

---------------------------------------------------------------------------
LEMMA FreshnessInit == Init => Freshness
<1> SUFFICES ASSUME Init PROVE Freshness
  OBVIOUS
<1>1. done = {} /\ alive = Clients
  BY DEF Init
<1>2. \A c \in Clients : pc[c] = "idle" /\ before[c] = {} /\ elements[c] = EmptyBag
  BY DEF Init
<1>3. \A c \in Clients : DOMAIN elements[c] = {}
  BY <1>2, EmptyBagType
<1>4. Recorded /\ OneResult /\ DoneIsHeld
  BY <1>1, <1>2 DEF Recorded, OneResult, DoneIsHeld
<1>5. WrittenIsKept /\ GetsReport /\ ChosenExceeds
  BY <1>1, <1>2 DEF WrittenIsKept, GetsReport, ChosenExceeds
<1>6. CollectedIsKept
  BY <1>3 DEF CollectedIsKept
<1> QED
  BY <1>4, <1>5, <1>6 DEF Freshness

LEMMA FreshnessNext ==
    ASSUME FreshNums, Types, Types', Messages, Freshness, [Next]_vars
    PROVE  Freshness'
<1> USE DEF Messages, Freshness
<1>1. Recorded' /\ OneResult'
  BY RecordedNext, OneResultNext
<1>2. DoneIsHeld' /\ WrittenIsKept'
  BY DoneIsHeldNext, WrittenIsKeptNext
<1>3. GetsReport'
  BY GetsReportNext
<1>4. CollectedIsKept' /\ ChosenExceeds'
  BY CollectedIsKeptNext, ChosenExceedsNext
<1> QED
  BY <1>1, <1>2, <1>3, <1>4

(***************************************************************************)
(* What has returned is kept by a majority, a get phase finds it there,    *)
(* and so each call of SODAW, killed clients or not, exceeds the tags of   *)
(* all calls that had returned before it began.                            *)
(***************************************************************************)
THEOREM NothingIsMissed ==
    ASSUME FreshNums
    PROVE  Spec => []Freshness
<1>1. Init => Freshness
  BY FreshnessInit
<1>2. Types /\ Messages /\ Types' /\ Freshness /\ [Next]_vars => Freshness'
  BY FreshnessNext
<1>3. Spec => [](Types /\ Messages)
  BY MessagesAlways
<1> QED
  BY <1>1, <1>2, <1>3, PTL DEF Spec

---------------------------------------------------------------------------
(* A tag stands for one value. *)

LEMMA WritesOwnNext ==
    ASSUME Types, Types', [Next]_vars, KindOfPhase, WritesOwn
    PROVE  WritesOwn'
<1>1. ASSUME NEW c \in Clients, pc'[c] = WRITE_PUT PROVE IsOwn(c, tag'[c])
  <2>1. EndGet(c) \/ (pc[c] = WRITE_PUT /\ tag'[c] = tag[c])
    <3>1. EndGet(c) \/ tag'[c] = tag[c]
      BY <1>1, PhaseAfter
    <3>2. AtWork(c) /\ ~Begin(c)
      BY <1>1, ClientWorks, PhaseAfter
    <3>3. \A s \in Servers : CountGet(c, s) => pc'[c] \in GetPhases
      BY DEF CountGet
    <3> QED
      BY <1>1, <3>1, <3>2, <3>3 DEF AtWork
  <2>2. CASE EndGet(c)
    <3>1. pc[c] = WRITE_GET
      <4>1. pc[c] # WRITE_GET => pc' = [pc EXCEPT ![c] = READ_VALUE]
        BY <2>2, TypesEndGet
      <4> QED
        BY <1>1, <4>1 DEF Types
    <3>2. tag[c] \in Tag /\ tag'[c] = TagToWrite(c)
      BY <2>2, <3>1, PutBegins
    <3> QED
      BY <3>2 DEF TagToWrite, IsOwn, Tag
  <2>3. CASE pc[c] = WRITE_PUT /\ tag'[c] = tag[c]
    BY <2>3 DEF WritesOwn
  <2> QED
    BY <2>1, <2>2, <2>3
<1>2. ASSUME NEW r \in done', r.kind = "write"
      PROVE  r.val = Id(r) /\ r.call > 0 /\ IsOwn(r.client, r.tag)
  <2>1. CASE r \in done
    BY <1>2, <2>1 DEF WritesOwn
  <2>2. CASE r \notin done
    <3>1. PICK c \in Clients, t \in Tag, v \in Values : Finishes(c, t, v)
      BY <2>2, Finishing
    <3>2. r = ResultOf(c, t, v) /\ pc[c] # "idle"
      BY <2>2, <3>1 DEF Finishes
    <3>3. /\ r.kind = Kind(c) /\ r.tag = t /\ r.val = v /\ r.client = c /\ r.call = call[c]
          /\ Id(r) = Own(c)
      BY <3>2 DEF ResultOf, Id, Own
    <3>4. pc[c] # DRAIN
      BY <1>2, <3>3 DEF KindOfPhase
    <3>5. pc[c] = WRITE_PUT /\ t = tag[c] /\ v = Own(c)
      BY <3>1, <3>4 DEF Finishes
    <3>6. call[c] > 0
      BY <3>2, CurrentCall
    <3> QED
      BY <3>3, <3>5, <3>6 DEF WritesOwn
  <2> QED
    BY <2>1, <2>2
<1> QED
  BY <1>1, <1>2 DEF WritesOwn

LEMMA ChosenMembers ==
    ASSUME NEW o
    PROVE  /\ o \in Chosen <=>
                \/ o = InitObject
                \/ \E c \in Clients : pc[c] = WRITE_PUT /\ o = [tag |-> tag[c], val |-> Own(c)]
                \/ \E r \in done : r.kind = "write" /\ o = Tagging(r)
           /\ o \in Chosen' <=>
                \/ o = InitObject
                \/ \E c \in Clients : pc'[c] = WRITE_PUT /\ o = [tag |-> tag'[c], val |-> Own(c)']
                \/ \E r \in done' : r.kind = "write" /\ o = Tagging(r)
BY DEF Chosen, Tagging

\* What was chosen stays so: a write that returns leaves its result.
LEMMA ChosenGrows ==
    ASSUME Types, [Next]_vars, KindOfPhase, NEW o \in Chosen
    PROVE  o \in Chosen'
<1>1. CASE o = InitObject
  BY <1>1, ChosenMembers
<1>2. ASSUME NEW r \in done, r.kind = "write", o = Tagging(r) PROVE o \in Chosen'
  <2>1. r \in done'
    BY Finishing DEF Finishes
  <2> QED
    BY <1>2, <2>1, ChosenMembers
<1>3. ASSUME NEW c \in Clients, pc[c] = WRITE_PUT, o = [tag |-> tag[c], val |-> Own(c)]
      PROVE  o \in Chosen'
  <2>1. ~Begin(c) /\ ~EndGet(c) /\ \A s \in Servers : ~CountGet(c, s)
    BY <1>3 DEF Begin, EndGet, CountGet
  <2>2. call'[c] = call[c] /\ tag'[c] = tag[c] /\ pc'[c] \in {WRITE_PUT, "idle"}
    BY <1>3, <2>1, ClientWorks DEF AtWork
  <2>3. CASE pc'[c] = WRITE_PUT
    BY <1>3, <2>2, <2>3, ChosenMembers DEF Own
  <2>4. CASE pc'[c] = "idle"
    <3>1. PICK d \in Clients, t \in Tag, v \in Values : Finishes(d, t, v)
      BY <1>3, <2>4, Finishing
    <3>2. c = d
      BY <1>3, <2>4, <3>1 DEF Finishes, Types
    <3>3. t = tag[c] /\ v = Own(c) /\ ResultOf(c, t, v) \in done'
      BY <1>3, <3>1, <3>2 DEF Finishes
    <3>4. Kind(c) = "write"
      BY <1>3 DEF KindOfPhase
    <3>5. PICK r : r = ResultOf(c, t, v)
      OBVIOUS
    <3>6. r.kind = "write" /\ Tagging(r) = o
      BY <1>3, <3>3, <3>4, <3>5 DEF ResultOf, Tagging
    <3> QED
      BY <3>3, <3>5, <3>6, ChosenMembers
  <2> QED
    BY <2>2, <2>3, <2>4
<1> QED
  BY <1>1, <1>2, <1>3, ChosenMembers

LEMMA OnlyChosenNext ==
    ASSUME Types, Types', [Next]_vars, KindOfPhase, OnlyChosen
    PROVE  OnlyChosen'
<1>1. ASSUME NEW s \in Servers PROVE store'[s] \in Chosen'
  <2>1. \/ store'[s] = store[s]
        \/ \E c \in Clients : \E i \in DOMAIN toServer[c][s] :
              toServer[c][s][i].phase = WRITE_PUT /\ store'[s] = Tagging(toServer[c][s][i])
    BY NewStore
  <2>2. store'[s] \in Chosen
    BY <2>1 DEF OnlyChosen
  <2> QED
    BY <2>2, ChosenGrows
<1>2. ASSUME NEW c \in Clients, NEW s \in Servers, NEW i \in DOMAIN toServer'[c][s],
             toServer'[c][s][i].phase = WRITE_PUT
      PROVE  Tagging(toServer'[c][s][i]) \in Chosen'
  <2>1. PICK m : m = toServer'[c][s][i]
    OBVIOUS
  <2>2. \/ \E j \in DOMAIN toServer[c][s] : m = toServer[c][s][j]
        \/ EndGet(c) /\ pc[c] = WRITE_GET /\ m.tag = tag'[c] /\ m.val = Own(c)
    BY <1>2, <2>1, NewRequest
  <2>3. CASE \E j \in DOMAIN toServer[c][s] : m = toServer[c][s][j]
    <3>1. Tagging(m) \in Chosen
      BY <1>2, <2>1, <2>3 DEF OnlyChosen
    <3> QED
      BY <2>1, <3>1, ChosenGrows
  <2>4. CASE EndGet(c) /\ pc[c] = WRITE_GET /\ m.tag = tag'[c] /\ m.val = Own(c)
    <3>1. pc'[c] = WRITE_PUT
      BY <2>4, PutBegins
    <3>2. call' = call
      BY <2>4 DEF EndGet
    <3>3. Own(c)' = Own(c)
      BY <3>2 DEF Own
    <3>4. Tagging(m) = [tag |-> tag'[c], val |-> Own(c)']
      BY <2>4, <3>3 DEF Tagging
    <3> QED
      BY <2>1, <3>1, <3>4, ChosenMembers
  <2> QED
    BY <2>2, <2>3, <2>4
<1>3. ASSUME NEW c \in Clients, NEW s \in Servers, NEW i \in DOMAIN toClient'[c][s],
             toClient'[c][s][i].phase = READ_VALUE
      PROVE  Tagging(toClient'[c][s][i]) \in Chosen'
  <2>1. PICK a : a = toClient'[c][s][i]
    OBVIOUS
  <2>2. \/ \E j \in DOMAIN toClient[c][s] : a = toClient[c][s][j]
        \/ a.tag = store'[s].tag /\ a.val = store'[s].val
    BY <1>3, <2>1, NewAnswer
  <2>3. CASE \E j \in DOMAIN toClient[c][s] : a = toClient[c][s][j]
    <3>1. Tagging(a) \in Chosen
      BY <1>3, <2>1, <2>3 DEF OnlyChosen
    <3> QED
      BY <2>1, <3>1, ChosenGrows
  <2>4. CASE a.tag = store'[s].tag /\ a.val = store'[s].val
    <3>1. store'[s] \in Object
      BY DEF Types
    <3>2. Tagging(a) = store'[s]
      BY <2>4, <3>1 DEF Tagging, Object
    <3> QED
      BY <1>1, <2>1, <3>2
  <2> QED
    BY <2>2, <2>3, <2>4
<1>4. ASSUME NEW c \in Clients, NEW e \in DOMAIN elements'[c] PROVE Tagging(e) \in Chosen'
  <2>1. CASE e \in DOMAIN elements[c]
    BY <2>1, ChosenGrows DEF OnlyChosen
  <2>2. CASE e \notin DOMAIN elements[c]
    <3>1. e.server \in Servers
      BY <2>2, NewElement
    <3>2. PICK i \in DOMAIN toClient[c][e.server] :
             /\ toClient[c][e.server][i] \in Of(READ_VALUE, Num(c))
             /\ Tagging(e) = Tagging(toClient[c][e.server][i])
      BY <2>2, NewElement
    <3>3. Tagging(e) \in Chosen
      BY <3>1, <3>2 DEF Of, OnlyChosen
    <3> QED
      BY <3>3, ChosenGrows
  <2> QED
    BY <2>1, <2>2
<1>5. ASSUME NEW r \in done' PROVE Tagging(r) \in Chosen'
  <2>1. CASE r \in done
    BY <2>1, ChosenGrows DEF OnlyChosen
  <2>2. CASE r \notin done
    <3>1. PICK c \in Clients, t \in Tag, v \in Values : Finishes(c, t, v)
      BY <2>2, Finishing
    <3>2. r = ResultOf(c, t, v)
      BY <2>2, <3>1 DEF Finishes
    <3>3. Tagging(r) = [tag |-> t, val |-> v]
      BY <3>2 DEF ResultOf, Tagging
    <3>4. CASE pc[c] = WRITE_PUT
      <4>1. t = tag[c] /\ v = Own(c)
        BY <3>1, <3>4 DEF Finishes
      <4>2. Tagging(r) \in Chosen
        BY <3>3, <3>4, <4>1, ChosenMembers
      <4> QED
        BY <4>2, ChosenGrows
    <3>5. CASE pc[c] = DRAIN
      <4>1. PICK e \in Decoded(c) : t = e.tag /\ v = e.val
        BY <3>1, <3>5 DEF Finishes
      <4>2. e \in DOMAIN elements[c]
        BY DEF Decoded
      <4>3. Tagging(r) = Tagging(e)
        BY <3>3, <4>1 DEF Tagging
      <4>4. Tagging(r) \in Chosen
        BY <4>2, <4>3 DEF OnlyChosen
      <4> QED
        BY <4>4, ChosenGrows
    <3> QED
      BY <3>1, <3>4, <3>5 DEF Finishes
  <2> QED
    BY <2>1, <2>2
<1> QED
  BY <1>1, <1>2, <1>3, <1>4, <1>5 DEF OnlyChosen

LEMMA TaggedInit == Init => Tagged
<1> SUFFICES ASSUME Init PROVE Tagged
  OBVIOUS
<1>1. done = {} /\ \A c \in Clients : pc[c] = "idle" /\ DOMAIN elements[c] = {}
  <2>1. \A c \in Clients : pc[c] = "idle" /\ elements[c] = EmptyBag
    BY DEF Init
  <2> QED
    BY <2>1, EmptyBagType DEF Init
<1>2. \A s \in Servers : store[s] \in Chosen
  BY ChosenMembers DEF Init
<1>3. \A c \in Clients, s \in Servers : toServer[c][s] = <<>> /\ toClient[c][s] = <<>>
  BY DEF Init, Empty
<1> QED
  BY <1>1, <1>2, <1>3 DEF Tagged, WritesOwn, OnlyChosen

(***************************************************************************)
(* A write of SODAW chooses a tag with the name of its client for its own  *)
(* value, and the servers keep, send and hand over only such pairs: what   *)
(* a reader decodes was written, under the tag it was decoded for.         *)
(***************************************************************************)
THEOREM OnlyTheWrittenIsRead == Spec => []Tagged
<1> DEFINE Inv == Types /\ KindOfPhase /\ Tagged
<1>1. Init => Inv
  BY TypesInit, MessagesInit, TaggedInit DEF Messages
<1>2. Inv /\ [Next]_vars => Inv'
  BY TypesNext, KindOfPhaseStep, WritesOwnNext, OnlyChosenNext DEF Tagged
<1>3. Inv => Tagged
  OBVIOUS
<1> QED
  BY <1>1, <1>2, <1>3, PTL DEF Spec

---------------------------------------------------------------------------
(* No two writes choose the same tag. *)

\* The k-th call of c is a write that chose the tagged value o.
ChosenAs(o, c, k) ==
    /\ k > 0 /\ o.val = <<c, k>> /\ IsOwn(c, o.tag) /\ o.tag \in Tag
    /\ \/ pc[c] = WRITE_PUT /\ k = call[c] /\ o.tag = tag[c]
       \/ \E r \in done : /\ r.kind = "write" /\ r.client = c /\ r.call = k
                          /\ Id(r) = <<c, k>> /\ r.tag = o.tag

LEMMA ChosenBy ==
    ASSUME Types, WritesOwn, NEW o \in Chosen, o # InitObject
    PROVE  \E c \in Clients, k \in Nat : ChosenAs(o, c, k)
<1>1. CASE \E c \in Clients : pc[c] = WRITE_PUT /\ o = [tag |-> tag[c], val |-> Own(c)]
  <2>1. PICK c \in Clients : pc[c] = WRITE_PUT /\ o = [tag |-> tag[c], val |-> Own(c)]
    BY <1>1
  <2>2. o.tag = tag[c] /\ o.val = <<c, call[c]>> /\ IsOwn(c, tag[c])
    BY <2>1 DEF WritesOwn, Own
  <2>3. call[c] \in Nat /\ call[c] > 0 /\ tag[c] \in Tag
    BY <2>1 DEF Types
  <2> QED
    BY <2>1, <2>2, <2>3 DEF ChosenAs
<1>2. CASE \E r \in done : r.kind = "write" /\ o = Tagging(r)
  <2>1. PICK r \in done : r.kind = "write" /\ o = Tagging(r)
    BY <1>2
  <2>2. r.val = Id(r) /\ r.call > 0 /\ IsOwn(r.client, r.tag) /\ Id(r) = <<r.client, r.call>>
    BY <2>1 DEF WritesOwn, Id
  <2>3. r.client \in Clients /\ r.call \in Nat /\ r.tag \in Tag
    BY KnownTags
  <2>4. o.tag = r.tag /\ o.val = r.val
    BY <2>1 DEF Tagging
  <2> QED
    BY <2>1, <2>2, <2>3, <2>4 DEF ChosenAs
<1> QED
  BY <1>1, <1>2, ChosenMembers

\* A later write of a client has a larger counter.
LEMMA CountersGrow ==
    ASSUME Types, KindOfPhase, Freshness, NEW c \in Clients, NEW k \in Nat, NEW l \in Nat,
           k < l, NEW o, NEW p, ChosenAs(o, c, k), ChosenAs(p, c, l)
    PROVE  p.tag.z > o.tag.z
<1>1. call[c] \in Nat
  BY DEF Types
<1>2. PICK r \in done : /\ r.kind = "write" /\ r.client = c /\ r.call = k
                        /\ Id(r) = <<c, k>> /\ r.tag = o.tag
  <2>1. l <= call[c]
    BY <1>1 DEF ChosenAs, Freshness, Recorded
  <2> QED
    BY <1>1, <2>1 DEF ChosenAs
<1>3. CASE pc[c] = WRITE_PUT /\ p.tag = tag[c]
  <2>1. Id(r) \in before[c] /\ Kind(c) = "write"
    BY <1>2, <1>3 DEF Freshness, OneResult, KindOfPhase
  <2>2. Exceeds("write", tag[c], r.tag)
    BY <1>3, <2>1 DEF Freshness, ChosenExceeds
  <2> QED
    BY <1>2, <1>3, <2>2 DEF Exceeds
<1>4. CASE \E x \in done : /\ x.kind = "write" /\ x.client = c /\ x.call = l /\ x.tag = p.tag
  <2>1. PICK x \in done : /\ x.kind = "write" /\ x.client = c /\ x.call = l /\ x.tag = p.tag
    BY <1>4
  <2>2. Precedes(r, x)
    BY <1>2, <2>1 DEF Freshness, OneResult
  <2>3. Exceeds("write", x.tag, r.tag)
    BY <2>1, <2>2 DEF Freshness, ChosenExceeds
  <2> QED
    BY <1>2, <2>1, <2>3 DEF Exceeds
<1> QED
  BY <1>3, <1>4 DEF ChosenAs

\* The tag of a call is known by the call.
LEMMA OneTag ==
    ASSUME Types, Freshness, NEW c \in Clients, NEW k \in Nat, NEW o, NEW p,
           ChosenAs(o, c, k), ChosenAs(p, c, k)
    PROVE  o.tag = p.tag
<1>1. ASSUME NEW r \in done, Id(r) = <<c, call[c]>>, pc[c] = WRITE_PUT PROVE FALSE
  BY <1>1, RunningIsNew DEF Freshness, Ids
<1>2. ASSUME NEW r \in done, NEW x \in done, Id(r) = Id(x) PROVE r = x
  BY <1>2 DEF Freshness, OneResult
<1> QED
  BY <1>1, <1>2 DEF ChosenAs

LEMMA ChosenIsOneToOne ==
    ASSUME Types, KindOfPhase, Freshness, WritesOwn
    PROVE  /\ OneToOne(Chosen)
           /\ \A o \in Chosen : o.tag \in Tag
           /\ \A o \in Chosen : o # InitObject => o.tag.z > 0
           /\ InitObject \in Chosen /\ InitObject.tag.z = 0 /\ InitObject.val = InitVal
<1>1. InitObject \in Chosen /\ InitObject.tag \in Tag /\ InitObject.tag.z = 0
      /\ InitObject.val = InitVal /\ InitVal = <<Client0, 0>>
  BY ChosenMembers, InitialTypes DEF InitObject, InitTag, InitVal
<1>2. ASSUME NEW o \in Chosen, o # InitObject
      PROVE  o.tag \in Tag /\ o.tag.z > 0 /\ o.val # InitVal
  <2>1. PICK c \in Clients, k \in Nat : ChosenAs(o, c, k)
    BY <1>2, ChosenBy
  <2> QED
    BY <1>1, <2>1 DEF ChosenAs, IsOwn
<1>3. ASSUME NEW o \in Chosen, NEW p \in Chosen PROVE o.tag = p.tag <=> o.val = p.val
  <2>1. CASE o = InitObject \/ p = InitObject
    BY <1>1, <1>2, <2>1
  <2>2. CASE o # InitObject /\ p # InitObject
    <3>1. PICK c \in Clients, k \in Nat : ChosenAs(o, c, k)
      BY <2>2, ChosenBy
    <3>2. PICK d \in Clients, l \in Nat : ChosenAs(p, d, l)
      BY <2>2, ChosenBy
    <3>3. /\ o.val = <<c, k>> /\ p.val = <<d, l>> /\ o.tag.id = c /\ p.tag.id = d
          /\ o.tag.z \in Nat /\ p.tag.z \in Nat
      BY <3>1, <3>2 DEF ChosenAs, IsOwn, Tag
    <3>4. CASE c # d
      BY <3>3, <3>4
    <3>5. CASE c = d /\ k = l
      BY <3>1, <3>2, <3>3, <3>5, OneTag
    <3>6. CASE c = d /\ k < l
      BY <3>1, <3>2, <3>3, <3>6, CountersGrow
    <3>7. CASE c = d /\ l < k
      <4>1. ChosenAs(p, c, l)
        BY <3>2, <3>7
      <4>2. o.tag.z > p.tag.z
        BY <3>1, <3>7, <4>1, CountersGrow
      <4> QED
        BY <3>3, <3>7, <4>2
    <3> QED
      BY <3>4, <3>5, <3>6, <3>7
  <2> QED
    BY <2>1, <2>2
<1> QED
  BY <1>1, <1>2, <1>3 DEF OneToOne

\* A read that ends has K elements of one tag, and they decode to the value of that tag.
LEMMA ReadDecodes ==
    ASSUME Types, Collected, KindOfPhase, Freshness, Tagged, NEW c \in Clients, pc[c] = DRAIN
    PROVE  /\ Cardinality({e.server : e \in Decoded(c)}) >= K
           /\ \A e, f \in Decoded(c) : e.tag = f.tag /\ e.val = f.val
<1>1. ASSUME NEW t PROVE Copies(elements[c], t) = Cardinality(WithTag(c, t))
  <2>1. PICK b : b = elements[c]
    OBVIOUS
  <2>2. IsFiniteSet(DOMAIN b) /\ \A e \in DOMAIN b : b[e] = 1
    BY <2>1 DEF Collected
  <2>3. Copies(b, t) = Cardinality({e \in DOMAIN b : e.tag = t})
    BY <2>2, CopiesOfSet
  <2> QED
    BY <2>1, <2>3 DEF WithTag
<1>2. \A e : e \in Decoded(c) <=> /\ e \in DOMAIN elements[c]
                                  /\ Cardinality(WithTag(c, e.tag)) >= K
  BY <1>1 DEF Decoded
<1>3. PICK e \in DOMAIN elements[c] :
         /\ Cardinality(WithTag(c, e.tag)) >= K
         /\ \A f \in DOMAIN elements[c] : Cardinality(WithTag(c, f.tag)) >= K => f.tag = e.tag
  BY DEF Collected
<1>4. Cardinality({f.server : f \in Decoded(c)}) >= K
  <2>1. PICK P, D : P = {x.server : x \in WithTag(c, e.tag)}
                    /\ D = {f.server : f \in Decoded(c)}
    OBVIOUS
  <2>2. e \in Decoded(c) /\ \A x \in WithTag(c, e.tag) : x \in Decoded(c)
    BY <1>2, <1>3 DEF WithTag
  <2>3. Cardinality(P) >= K /\ P \subseteq D
    BY <2>1, <2>2, DecodedServers
  <2>4. D \subseteq Servers
    BY <2>1, KnownTags DEF Decoded
  <2>5. IsFiniteSet(D)
    BY <2>4, CallsAssumption, FS_Subset
  <2>6. Cardinality(P) <= Cardinality(D) /\ Cardinality(P) \in Nat /\ Cardinality(D) \in Nat
    BY <2>3, <2>5, FS_Subset, FS_CardinalityType
  <2> QED
    BY <2>1, <2>3, <2>6, KType
<1>5. ASSUME NEW f \in Decoded(c), NEW g \in Decoded(c) PROVE f.tag = g.tag /\ f.val = g.val
  <2>1. f.tag = g.tag
    BY <1>2, <1>3
  <2>2. Tagging(f) \in Chosen /\ Tagging(g) \in Chosen
    BY <1>2 DEF Tagged, OnlyChosen
  <2>3. OneToOne(Chosen)
    BY ChosenIsOneToOne DEF Tagged
  <2>4. Tagging(f).tag = f.tag /\ Tagging(g).tag = g.tag
        /\ Tagging(f).val = f.val /\ Tagging(g).val = g.val
    BY DEF Tagging
  <2> QED
    BY <2>1, <2>2, <2>3, <2>4 DEF OneToOne
<1> QED
  BY <1>4, <1>5

\* A reader that has written does not find the initial value.
LEMMA ReadFindsAWrite ==
    ASSUME WritesFirst, Types, Collected, KindOfPhase, Tables, Freshness, Tagged,
           NEW c \in Clients, pc[c] = DRAIN, NEW e \in Decoded(c)
    PROVE  e.val # InitVal
<1>1. call[c] \in 1 .. Len(Script[c]) /\ call[c] \in Nat /\ Kind(c) = "read"
  BY CurrentCall DEF KindOfPhase
<1>2. PICK j \in 1 .. call[c] - 1 : Script[c][j].kind = "write"
  BY <1>1 DEF WritesFirst, Kind
<1>3. PICK x \in done : Id(x) = <<c, j>>
  <2>1. j \in 1 .. call[c] /\ j < call[c]
    BY <1>1
  <2> QED
    BY <2>1 DEF Tables, ReturnedIsTold
<1>4. x.client = c /\ x.call = j
  BY <1>3 DEF Id
<1>5. x.kind = "write" /\ Id(x) \in before[c]
  BY <1>2, <1>4 DEF Tables, ReturnedIsTold, Freshness, OneResult
<1>6. x.tag.z > 0 /\ x.tag \in Tag /\ x.tag \in AnyTag
  BY <1>5, KnownTags, TagsAreTags DEF Tagged, WritesOwn, IsOwn
<1>7. Newer(tag[c], x.tag)
  BY <1>1, <1>5 DEF Freshness, ChosenExceeds, Exceeds
<1>8. AtLeast(e.tag, tag[c]) /\ e.tag \in Tag /\ e.tag \in AnyTag /\ tag[c] \in AnyTag
  BY DecodedIsHeld, KnownTags, TagsAreTags DEF Freshness
<1>9. e.tag.z > 0
  <2>1. e.tag.z >= tag[c].z /\ tag[c].z >= x.tag.z
    BY <1>6, <1>7, <1>8, AtLeastNewer, NewerCounter
  <2>2. e.tag.z \in Nat /\ x.tag.z \in Nat /\ tag[c].z \in Int
    BY <1>6, <1>8 DEF Tag, AnyTag
  <2> QED
    BY <2>1, <2>2, <1>6
<1>10. Tagging(e) \in Chosen /\ Tagging(e).tag = e.tag /\ Tagging(e).val = e.val
  BY DEF Decoded, Tagged, OnlyChosen, Tagging
<1>11. /\ OneToOne(Chosen)
       /\ InitObject \in Chosen /\ InitObject.tag.z = 0 /\ InitObject.val = InitVal
  BY ChosenIsOneToOne DEF Tagged
<1> QED
  BY <1>9, <1>10, <1>11 DEF OneToOne

(***************************************************************************)
(* A read that has collected what it needs decodes elements of K different *)
(* servers, all of one tag and of the one value written under it; if its   *)
(* client has written before, as a reader does when it starts, the value   *)
(* is not the initial payload, which no server has coded.                  *)
(***************************************************************************)
THEOREM ReadsDecode ==
    ASSUME FreshNums, WritesFirst
    PROVE  Spec => []Decodable
<1>1. Types /\ Messages /\ Tables /\ Freshness /\ Tagged => Decodable
  <2> SUFFICES ASSUME Types, Messages, Tables, Freshness, Tagged, NEW c \in Clients,
                      pc[c] = DRAIN
               PROVE  /\ Cardinality({e.server : e \in Decoded(c)}) >= K
                      /\ \A e, f \in Decoded(c) : e.tag = f.tag /\ e.val = f.val
                      /\ \A e \in Decoded(c) : e.val # InitVal
    BY DEF Decodable
  <2> QED
    BY ReadDecodes, ReadFindsAWrite DEF Messages
<1>2. Spec => [](Types /\ Messages)
  BY MessagesAlways
<1>3. Spec => []Tables
  BY EveryServerIsTold
<1>4. Spec => []Freshness
  BY NothingIsMissed
<1>5. Spec => []Tagged
  BY OnlyTheWrittenIsRead
<1> QED
  BY <1>1, <1>2, <1>3, <1>4, <1>5, PTL

---------------------------------------------------------------------------
(* SODAW implements the atomic register. *)

IInv == Types /\ Messages /\ Freshness /\ Tagged

LEMMA Inductive ==
    ASSUME FreshNums
    PROVE  /\ Init => IInv
           /\ IInv /\ [Next]_vars => IInv'
<1>1. Init => IInv
  BY TypesInit, MessagesInit, FreshnessInit, TaggedInit DEF IInv
<1>2. ASSUME IInv, [Next]_vars PROVE IInv'
  <2>1. Types /\ Messages /\ Freshness /\ Tagged /\ Types' /\ Messages'
    BY <1>2, TypesNext, MessagesNext DEF IInv
  <2>2. Freshness'
    BY <1>2, <2>1, FreshnessNext
  <2>3. Tagged'
    BY <1>2, <2>1, WritesOwnNext, OnlyChosenNext DEF Tagged, Messages
  <2> QED
    BY <2>1, <2>2, <2>3 DEF IInv
<1> QED
  BY <1>1, <1>2

\* The state of the register that a state of SODAW stands for.
values  == Vals(Chosen)
prior   == TagOrder(Chosen)
busy    == {c \in Clients : pc[c] # "idle"}
results == {Brief(r) : r \in done}

LEMMA RegisterInit == Init => Register!Init
<1> SUFFICES ASSUME Init PROVE Register!Init
  OBVIOUS
<1>1. Chosen = {InitObject}
  <2>1. \A o : o \in Chosen <=> o = InitObject
    BY ChosenMembers DEF Init
  <2> QED
    BY <2>1
<1>2. values = {InitVal}
  BY <1>1 DEF values, Vals, InitObject
<1>3. prior = {}
  <2>1. ~Above(InitObject.tag, InitObject.tag)
    BY DEF Above
  <2> QED
    BY <1>1, <2>1 DEF prior, TagOrder
<1>4. busy = {} /\ results = {}
  BY DEF Init, busy, results
<1> QED
  BY <1>2, <1>3, <1>4 DEF Register!Init, Init, values, prior, busy, results, Brief

\* The tagged value that the write of c chooses in this step.
NewlyChosen(c) == [tag |-> tag'[c], val |-> Own(c)]

\* Only a write that begins its second phase chooses anything.
LEMMA ChosenFrom ==
    ASSUME Types, [Next]_vars, KindOfPhase, NEW o \in Chosen'
    PROVE  \/ o \in Chosen
           \/ \E c \in Clients : EndGet(c) /\ pc[c] = WRITE_GET /\ o = NewlyChosen(c)
<1>1. CASE o = InitObject
  BY <1>1, ChosenMembers
<1>2. ASSUME NEW c \in Clients, pc'[c] = WRITE_PUT, o = [tag |-> tag'[c], val |-> Own(c)']
      PROVE  o \in Chosen \/ (EndGet(c) /\ pc[c] = WRITE_GET /\ o = NewlyChosen(c))
  <2>1. ~Begin(c) /\ call'[c] = call[c] /\ (EndGet(c) \/ tag'[c] = tag[c])
    BY <1>2, PhaseAfter
  <2>2. Own(c)' = Own(c)
    BY <2>1 DEF Own
  <2>3. CASE EndGet(c)
    <3>1. pc[c] = WRITE_GET
      <4>1. pc[c] # WRITE_GET => pc' = [pc EXCEPT ![c] = READ_VALUE]
        BY <2>3, TypesEndGet
      <4> QED
        BY <1>2, <4>1 DEF Types
    <3> QED
      BY <1>2, <2>2, <2>3, <3>1 DEF NewlyChosen
  <2>4. CASE ~EndGet(c)
    <3>1. \A s \in Servers : CountGet(c, s) => pc'[c] \in GetPhases
      BY DEF CountGet
    <3>2. pc[c] = WRITE_PUT
      BY <1>2, <2>1, <2>4, <3>1, ClientWorks DEF AtWork
    <3> QED
      BY <1>2, <2>1, <2>2, <2>4, <3>2, ChosenMembers
  <2> QED
    BY <2>3, <2>4
<1>3. ASSUME NEW r \in done', r.kind = "write", o = Tagging(r) PROVE o \in Chosen
  <2>1. CASE r \in done
    BY <1>3, <2>1, ChosenMembers
  <2>2. CASE r \notin done
    <3>1. PICK c \in Clients, t \in Tag, v \in Values : Finishes(c, t, v)
      BY <2>2, Finishing
    <3>2. r = ResultOf(c, t, v)
      BY <2>2, <3>1 DEF Finishes
    <3>3. o = [tag |-> t, val |-> v] /\ Kind(c) = "write"
      BY <1>3, <3>2 DEF ResultOf, Tagging
    <3>4. pc[c] = WRITE_PUT /\ t = tag[c] /\ v = Own(c)
      BY <3>1, <3>3 DEF Finishes, KindOfPhase
    <3> QED
      BY <3>3, <3>4, ChosenMembers
  <2> QED
    BY <2>1, <2>2
<1> QED
  BY <1>1, <1>2, <1>3, ChosenMembers

LEMMA SameOrder ==
    ASSUME Types, [Next]_vars, KindOfPhase, \A c \in Clients : ~(EndGet(c) /\ pc[c] = WRITE_GET)
    PROVE  Chosen' = Chosen /\ values' = values /\ prior' = prior
<1>1. Chosen' = Chosen
  BY ChosenFrom, ChosenGrows
<1> QED
  BY <1>1 DEF values, prior

LEMMA BeginInvokes ==
    ASSUME Types, KindOfPhase, [Next]_vars, NEW c \in Clients, Begin(c)
    PROVE  Register!Invoke(c)
<1>1. /\ pc[c] = "idle" /\ pc' = [pc EXCEPT ![c] = pc'[c]] /\ pc'[c] # "idle"
      /\ call[c] < Len(Script[c]) /\ call' = [call EXCEPT ![c] = call[c] + 1]
      /\ before' = [before EXCEPT ![c] = Ids] /\ done' = done
  <2>1. PICK phase : phase = IF Script[c][call[c] + 1].kind = "read" THEN READ_GET ELSE WRITE_GET
    OBVIOUS
  <2>2. pc' = [pc EXCEPT ![c] = phase] /\ call' = [call EXCEPT ![c] = call[c] + 1]
    BY <2>1, TypesBegin
  <2>3. pc'[c] = phase /\ phase # "idle"
    BY <2>1, <2>2 DEF Types
  <2> QED
    BY <2>2, <2>3 DEF Begin, Ids
<1>2. values' = values /\ prior' = prior
  <2>1. \A d \in Clients : ~(EndGet(d) /\ pc[d] = WRITE_GET)
    <3> SUFFICES ASSUME NEW d \in Clients, EndGet(d), pc[d] = WRITE_GET PROVE FALSE
      OBVIOUS
    <3>1. pc'[d] = WRITE_PUT
      BY PutBegins
    <3>2. call' = call
      BY DEF EndGet
    <3> QED
      BY <1>1, <3>2 DEF Types
  <2> QED
    BY <2>1, SameOrder
<1>3. c \notin busy /\ busy' = busy \cup {c}
  BY <1>1 DEF busy, Types
<1>4. results' = results
  BY <1>1 DEF results
<1>5. Ids = {Register!Id(r) : r \in results}
  <2>1. \A r \in done : Brief(r) \in results /\ Register!Id(Brief(r)) = Id(r)
    BY DEF results, Brief, Id, Register!Id
  <2>2. \A b \in results : \E r \in done : b = Brief(r)
    BY DEF results
  <2> QED
    BY <2>1, <2>2 DEF Ids
<1> QED
  BY <1>1, <1>2, <1>3, <1>4, <1>5
     DEF Register!Invoke, values, prior, busy, results, Brief

\* The values a call knows of are the initial one and those that had been returned.
LEMMA KnownValues ==
    ASSUME Tagged, NEW c \in Clients, NEW u \in Register!Known(c)
    PROVE  \/ u = InitVal
           \/ \E x \in done : Id(x) \in before[c] /\ u = x.val /\ Tagging(x) \in Chosen
<1>1. \A x \in done : Tagging(x) \in Chosen
  BY DEF Tagged, OnlyChosen
<1>2. CASE \E r \in results : Register!Id(r) \in before[c] /\ u = r.val
  BY <1>1, <1>2 DEF results, Brief, Register!Id, Id
<1> QED
  BY <1>2 DEF Register!Known, results, Brief

LEMMA EndGetPublishes ==
    ASSUME IInv, IInv', [Next]_vars, NEW c \in Clients, EndGet(c), pc[c] = WRITE_GET
    PROVE  Register!Publish(c)
<1> DEFINE v     == Own(c)
           t     == tag'[c]
           new   == NewlyChosen(c)
           lower == Below(Chosen, t)
<1>1. /\ Types /\ KindOfPhase /\ Freshness /\ Tagged
      /\ Types' /\ KindOfPhase' /\ Freshness' /\ Tagged'
  BY DEF IInv, Messages
<1>2. /\ pc' = [pc EXCEPT ![c] = WRITE_PUT] /\ pc'[c] = WRITE_PUT /\ c \in alive
      /\ call' = call /\ before' = before /\ done' = done /\ Kind(c) = "write"
  BY <1>1, PutBegins DEF EndGet, KindOfPhase
<1>3. t \in Tag /\ t.z > 0 /\ new.val = v /\ new.tag = t
  BY <1>1, <1>2, PutBegins DEF Tagged, WritesOwn, IsOwn, NewlyChosen
<1>4. Chosen' = Chosen \cup {new}
  <2>1. new \in Chosen'
    <3>1. Own(c)' = Own(c)
      BY <1>2 DEF Own
    <3> QED
      BY <1>2, <3>1, ChosenMembers DEF NewlyChosen
  <2>2. \A d \in Clients : EndGet(d) /\ pc[d] = WRITE_GET => d = c
    <3> SUFFICES ASSUME NEW d \in Clients, EndGet(d), pc[d] = WRITE_GET PROVE d = c
      OBVIOUS
    <3>1. pc'[d] = WRITE_PUT
      BY <1>1, PutBegins
    <3> QED
      BY <1>2, <3>1
  <2> QED
    BY <1>1, <2>1, <2>2, ChosenFrom, ChosenGrows
<1>5. /\ OneToOne(Chosen) /\ \A o \in Chosen : o.tag \in Tag
      /\ InitObject \in Chosen /\ InitObject.tag.z = 0 /\ InitObject.val = InitVal
  BY <1>1, ChosenIsOneToOne DEF Tagged
\* Neither the value nor the tag has been chosen before.
<1>6. ASSUME NEW p \in Chosen PROVE p.val # v /\ p.tag # t
  <2>1. CASE p = InitObject
    <3>1. call[c] > 0 /\ InitObject.val = <<Client0, 0>>
      BY <1>1, <1>2, <1>5 DEF Types, InitVal
    <3> HIDE DEF t
    <3> QED
      BY <1>3, <1>5, <2>1, <3>1 DEF Own
  <2>2. CASE p # InitObject
    <3>1. PICK d \in Clients, k \in Nat : ChosenAs(p, d, k)
      BY <1>1, <2>2, ChosenBy DEF Tagged
    <3>2. IsOwn(c, t)
      BY <1>1, <1>2 DEF Tagged, WritesOwn
    <3>3. CASE d # c
      BY <3>1, <3>2, <3>3 DEF ChosenAs, IsOwn, Own
    <3>4. CASE d = c
      <4>1. PICK r \in done : /\ r.client = c /\ r.call = k /\ Id(r) = <<c, k>>
                              /\ r.tag = p.tag
        BY <3>1, <3>4 DEF ChosenAs
      <4>2. Id(r) \in before'[c] /\ r \in done'
        BY <1>1, <1>2, <4>1 DEF Freshness, OneResult
      <4>3. Exceeds("write", t, r.tag)
        <5>1. Kind(c)' = "write"
          BY <1>2 DEF Kind
        <5>2. Exceeds(Kind(c)', tag'[c], r.tag)
          BY <1>1, <1>2, <4>2 DEF Freshness, ChosenExceeds
        <5> QED
          BY <5>1, <5>2
      <4>4. k # call[c]
        BY <1>1, <4>1, RunningIsNew DEF Freshness, Ids
      <4>5. p.val = <<c, k>> /\ p.tag \in Tag
        BY <3>1, <3>4 DEF ChosenAs
      <4>6. p.tag # t
        BY <1>3, <4>1, <4>3, <4>5 DEF Exceeds, Tag
      <4> QED
        BY <4>4, <4>5, <4>6 DEF Own
    <3> QED
      BY <3>3, <3>4
  <2> QED
    BY <2>1, <2>2
<1>7. OneToOne(Chosen') /\ \A o \in Chosen' : o.tag \in Tag
  BY <1>3, <1>4, <1>5, <1>6 DEF OneToOne
<1> HIDE DEF v, t, new
<1>8. /\ v \notin values /\ values' = values \cup {v} /\ lower \in SUBSET values
      /\ \A p \in Chosen : p.val \in lower <=> Above(t, p.tag)
      /\ \A u \in values, w \in lower : <<u, w>> \in prior => u \in lower
      /\ prior' = prior \cup (lower \X {v}) \cup ({v} \X (values \ lower))
  <2> DEFINE S == Chosen
             T == Chosen'
  <2>1. /\ T = S \cup {new} /\ \A o \in T : o.tag \in Tag
        /\ OneToOne(T) /\ \A p \in S : p.tag # new.tag
    BY <1>3, <1>4, <1>6, <1>7
  <2>2. /\ v \notin Vals(S) /\ Vals(T) = Vals(S) \cup {v} /\ lower \in SUBSET Vals(S)
        /\ \A p \in S : p.val \in lower <=> Above(t, p.tag)
        /\ \A u \in Vals(S), w \in lower : <<u, w>> \in TagOrder(S) => u \in lower
        /\ TagOrder(T) = TagOrder(S) \cup (lower \X {v}) \cup ({v} \X (Vals(S) \ lower))
    <3>1. v = new.val /\ lower = Below(S, new.tag) /\ t = new.tag
      BY <1>3
    <3> HIDE DEF S, T, lower
    <3> QED
      BY <2>1, <3>1, OrderInserts
  <2> QED
    BY <2>2 DEF values, prior
<1> HIDE DEF lower
<1>9. Register!Known(c) \subseteq lower
  <2> SUFFICES ASSUME NEW u \in Register!Known(c) PROVE u \in lower
    OBVIOUS
  <2>1. \A o \in Chosen : o.tag \in Tag /\ (t.z > o.tag.z => o.val \in lower)
    BY <1>3, <1>4, <1>5, <1>8, AboveOrder
  <2>2. CASE u = InitVal
    BY <1>3, <1>5, <2>1, <2>2
  <2>3. CASE \E x \in done : Id(x) \in before[c] /\ u = x.val /\ Tagging(x) \in Chosen
    <3>1. PICK x \in done : Id(x) \in before[c] /\ u = x.val /\ Tagging(x) \in Chosen
      BY <2>3
    <3>2. Exceeds(Kind(c)', tag'[c], x.tag)
      BY <1>1, <1>2, <3>1 DEF Freshness, ChosenExceeds
    <3>3. Kind(c)' = "write" /\ tag'[c] = t
      BY <1>2 DEF Kind, t
    <3>4. t.z > Tagging(x).tag.z /\ Tagging(x).val = u
      BY <3>1, <3>2, <3>3 DEF Exceeds, Tagging
    <3> QED
      BY <2>1, <3>1, <3>4
  <2> QED
    BY <1>1, <2>2, <2>3, KnownValues
<1>10. c \in busy /\ busy' = busy /\ results' = results
  BY <1>1, <1>2 DEF busy, results, Types
<1> QED
  BY <1>2, <1>8, <1>9, <1>10
     DEF Register!Publish, Register!Insert, Register!Kind, Kind, values, prior, busy, results,
         Brief, v, Own

\* A call that ends returns a value that nothing it could know of comes after.
LEMMA FinishReturns ==
    ASSUME UnitStrCmp, IInv, [Next]_vars, NEW c \in Clients, NEW t \in Tag, NEW v \in Values,
           Finishes(c, t, v)
    PROVE  Register!Return(c)
<1>1. Types /\ Messages /\ Collected /\ KindOfPhase /\ Freshness /\ Tagged
  BY DEF IInv, Messages
<1>2. /\ pc[c] # "idle" /\ pc' = [pc EXCEPT ![c] = "idle"] /\ call' = call /\ before' = before
      /\ done' = done \cup {ResultOf(c, t, v)}
  BY DEF Finishes
<1>3. [tag |-> t, val |-> v] \in Chosen
  <2>1. CASE pc[c] = WRITE_PUT
    <3>1. t = tag[c] /\ v = Own(c)
      BY <2>1 DEF Finishes
    <3> QED
      BY <2>1, <3>1, ChosenMembers
  <2>2. CASE pc[c] = DRAIN
    <3>1. PICK e \in Decoded(c) : t = e.tag /\ v = e.val
      BY <2>2 DEF Finishes
    <3>2. Tagging(e) \in Chosen
      BY <1>1 DEF Decoded, Tagged, OnlyChosen
    <3> QED
      BY <3>1, <3>2 DEF Tagging
  <2> QED
    BY <2>1, <2>2 DEF Finishes
<1>4. Kind(c) = "write" => v = <<c, call[c]>>
  <2>1. Kind(c) = "write" => pc[c] = WRITE_PUT
    BY <1>1 DEF Finishes, KindOfPhase
  <2> QED
    BY <2>1 DEF Finishes, Own
<1>5. /\ OneToOne(Chosen) /\ \A o \in Chosen : o.tag \in Tag
      /\ \A o \in Chosen : o # InitObject => o.tag.z > 0
      /\ InitObject \in Chosen /\ InitObject.tag.z = 0 /\ InitObject.val = InitVal
  BY <1>1, ChosenIsOneToOne DEF Tagged
<1>6. ASSUME Kind(c) = "read", NEW u \in Register!Known(c)
      PROVE  u = v \/ <<u, v>> \in prior
  <2>1. PICK o \in Chosen : o.tag = t /\ o.val = v
    BY <1>3
  <2>2. ASSUME NEW p \in Chosen, u = p.val, p.tag = t \/ Above(t, p.tag)
        PROVE  u = v \/ <<u, v>> \in prior
    BY <1>5, <2>1, <2>2, OrderOfTags DEF OneToOne, prior
  <2>3. CASE u = InitVal
    <3>1. CASE o = InitObject
      BY <1>5, <2>1, <2>3, <3>1
    <3>2. CASE o # InitObject
      <4>1. t.z > InitObject.tag.z
        BY <1>5, <2>1, <3>2
      <4>2. Above(t, InitObject.tag)
        BY <1>5, <4>1, AboveOrder
      <4> QED
        BY <1>5, <2>2, <2>3, <4>2
    <3> QED
      BY <3>1, <3>2
  <2>4. CASE \E x \in done : Id(x) \in before[c] /\ u = x.val /\ Tagging(x) \in Chosen
    <3>1. PICK x \in done : Id(x) \in before[c] /\ u = x.val /\ Tagging(x) \in Chosen
      BY <2>4
    <3>2. pc[c] = DRAIN
      BY <1>1, <1>6 DEF Finishes, KindOfPhase
    <3>3. Newer(tag[c], x.tag)
      BY <1>1, <1>6, <3>1, <3>2 DEF Freshness, ChosenExceeds, Exceeds
    <3>4. AtLeast(t, tag[c])
      <4>1. PICK e \in Decoded(c) : t = e.tag
        BY <3>2 DEF Finishes
      <4> QED
        BY <1>1, <4>1, DecodedIsHeld DEF Freshness
    <3>5. t \in AnyTag /\ tag[c] \in AnyTag /\ x.tag \in AnyTag
      BY <1>1, KnownTags, TagsAreTags
    <3>6. Newer(t, x.tag)
      BY <3>3, <3>4, <3>5, AtLeastNewer, NewerTransitive
    <3>7. Tagging(x).tag = t \/ Above(t, Tagging(x).tag)
      BY <3>6 DEF Newer, Above, Tagging
    <3>8. u = Tagging(x).val
      BY <3>1 DEF Tagging
    <3> QED
      BY <2>2, <3>1, <3>7, <3>8
  <2> QED
    BY <1>1, <2>3, <2>4, KnownValues
<1>7. c \in busy /\ busy' = busy \ {c} /\ v \in values
  BY <1>1, <1>2, <1>3 DEF busy, values, Vals, Types
<1>8. results' = results \cup {Brief(ResultOf(c, t, v))}
  BY <1>2 DEF results
<1>9. Brief(ResultOf(c, t, v)) =
         [client |-> c, call |-> call[c], kind |-> Kind(c), val |-> v, before |-> before[c]]
  BY DEF Brief, ResultOf
<1>10. values' = values /\ prior' = prior
  <2>1. \A d \in Clients : ~(EndGet(d) /\ pc[d] = WRITE_GET)
    <3> SUFFICES ASSUME NEW d \in Clients, EndGet(d), pc[d] = WRITE_GET PROVE FALSE
      OBVIOUS
    <3>1. pc'[d] = WRITE_PUT
      BY <1>1, PutBegins
    <3> QED
      BY <1>1, <1>2, <3>1 DEF Types
  <2> QED
    BY <1>1, <2>1, SameOrder
<1>11. Register!MayReturn(c, v)
  BY <1>4, <1>6, <1>7 DEF Register!MayReturn, Register!Kind, Kind, values, prior
<1> QED
  BY <1>2, <1>7, <1>8, <1>9, <1>10, <1>11
     DEF Register!Return, Register!Kind, Kind, values, prior, busy, results, Brief

\* The other steps change nothing of the register.
LEMMA RegisterStutters ==
    ASSUME Types, KindOfPhase, [Next]_vars, done' = done,
           \A c \in Clients : ~Begin(c) /\ ~(EndGet(c) /\ pc[c] = WRITE_GET),
           \A c \in Clients : pc[c] # "idle" => pc'[c] # "idle"
    PROVE  UNCHANGED Register!vars
<1>1. values' = values /\ prior' = prior
  BY SameOrder
<1>2. \A c \in Clients : pc'[c] # "idle" <=> pc[c] # "idle"
  BY BeforeStays
<1>3. busy' = busy /\ results' = results
  BY <1>2 DEF busy, results
<1>4. \A c \in Clients : call'[c] = call[c] /\ before'[c] = before[c]
  BY BeforeStays
<1>5. call' = call /\ before' = before
  <2>1. call = [c \in Clients |-> call[c]] /\ before = [c \in Clients |-> before[c]]
    BY DEF Types
  <2>2. call' = [c \in Clients |-> call'[c]] /\ before' = [c \in Clients |-> before'[c]]
    BY TypesNext DEF Types
  <2> QED
    BY <1>4, <2>1, <2>2
<1> QED
  BY <1>1, <1>3, <1>5 DEF Register!vars, values, prior, busy, results, Brief

LEMMA StepIsRegisterStep ==
    ASSUME UnitStrCmp, IInv, IInv', [Next]_vars
    PROVE  [Register!Next]_(Register!vars)
<1>1. Types /\ KindOfPhase
  BY DEF IInv, Messages
<1>2. ASSUME NEW c \in Clients, Begin(c) PROVE Register!Next
  BY <1>1, <1>2, BeginInvokes DEF Register!Next
<1>3. ASSUME NEW c \in Clients, EndGet(c), pc[c] = WRITE_GET PROVE Register!Next
  BY <1>3, EndGetPublishes DEF Register!Next
<1>4. ASSUME NEW c \in Clients, NEW t \in Tag, NEW v \in Values, Finishes(c, t, v)
      PROVE  Register!Next
  BY <1>4, FinishReturns DEF Register!Next
<1>5. CASE /\ done' = done
           /\ \A c \in Clients : ~Begin(c) /\ ~(EndGet(c) /\ pc[c] = WRITE_GET)
           /\ \A c \in Clients : pc[c] # "idle" => pc'[c] # "idle"
  BY <1>1, <1>5, RegisterStutters
<1> QED
  BY <1>1, <1>2, <1>3, <1>4, <1>5, Finishing

(***************************************************************************)
(* Where strcmp returns -1, 0 or 1, SODAW implements the atomic register:  *)
(* a write takes its place in the order of the values when it has chosen   *)
(* its tag, and a read that decodes the elements of K servers returns a    *)
(* value that is not older than what had returned, whoever is killed.      *)
(***************************************************************************)
THEOREM SODAWImplementsRegister ==
    ASSUME FreshNums, UnitStrCmp
    PROVE  Spec => ImplementsRegister
<1>1. Init => IInv /\ Register!Init
  BY Inductive, RegisterInit
<1>2. IInv /\ [Next]_vars => IInv'
  BY Inductive
<1>3. IInv /\ IInv' /\ [Next]_vars => [Register!Next]_(Register!vars)
  BY StepIsRegisterStep
<1> QED
  BY <1>1, <1>2, <1>3, PTL DEF Spec, ImplementsRegister, Register!Spec

(***************************************************************************)
(* Whatever strcmp returns, the values that writes of SODAW chose are      *)
(* always in a total order, that of their tags.                            *)
(***************************************************************************)
THEOREM ValuesAreOrdered ==
    ASSUME FreshNums
    PROVE  Spec => []Register!TotalOrder
<1>1. ASSUME IInv PROVE Register!TotalOrder
  <2>1. OneToOne(Chosen) /\ \A o \in Chosen : o.tag \in Tag
    BY <1>1, ChosenIsOneToOne DEF IInv, Messages, Tagged
  <2> QED
    BY <2>1, OrderIsTotal DEF Register!TotalOrder
<1> QED
  BY <1>1, Inductive, PTL DEF Spec

(***************************************************************************)
(* Where strcmp returns -1, 0 or 1, the values follow the calls: what a    *)
(* write wrote or a read decoded comes after the value of every call that  *)
(* had returned when it began, or is that value again if it is a read.     *)
(***************************************************************************)
THEOREM CallsFollowTheOrder ==
    ASSUME FreshNums, UnitStrCmp
    PROVE  Spec => []Register!RealTimeOrder
<1>1. ASSUME IInv PROVE Register!RealTimeOrder
  <2>1. Types /\ KindOfPhase /\ Freshness /\ Tagged
    BY <1>1 DEF IInv, Messages
  <2>2. ASSUME NEW x \in done, NEW r \in done, Precedes(x, r)
        PROVE  \/ <<x.val, r.val>> \in prior
               \/ x.val = r.val /\ r.kind = "read"
    <3>1. Tagging(x) \in Chosen /\ Tagging(r) \in Chosen /\ Exceeds(r.kind, r.tag, x.tag)
      BY <2>1, <2>2 DEF Tagged, OnlyChosen, Freshness, ChosenExceeds
    <3>2. OneToOne(Chosen)
      BY <2>1, ChosenIsOneToOne DEF Tagged
    <3>3. PICK o, p \in Chosen : /\ o = Tagging(x) /\ p = Tagging(r)
                                 /\ o.tag = x.tag /\ o.val = x.val
                                 /\ p.tag = r.tag /\ p.val = r.val
      BY <3>1 DEF Tagging
    <3>4. /\ <<x.val, r.val>> \in prior <=> Above(r.tag, x.tag)
          /\ x.tag = r.tag <=> x.val = r.val
      <4>1. <<o.val, p.val>> \in TagOrder(Chosen) <=> Above(p.tag, o.tag)
        BY <3>2, OrderOfTags
      <4>2. o.tag = p.tag <=> o.val = p.val
        BY <3>2 DEF OneToOne
      <4> QED
        BY <3>3, <4>1, <4>2 DEF prior
    <3>5. x.tag \in Tag /\ r.tag \in Tag /\ r.kind \in Kinds
      BY <2>1 DEF Types, Result
    <3>6. CASE r.kind = "write"
      BY <3>1, <3>4, <3>5, <3>6, AboveOrder DEF Exceeds
    <3>7. CASE r.kind = "read"
      BY <3>1, <3>4, <3>7 DEF Exceeds, Newer, Above
    <3> QED
      BY <3>5, <3>6, <3>7 DEF Kinds
  <2>3. ASSUME NEW b \in results, NEW e \in results, Register!Id(b) \in e.before
        PROVE  \/ <<b.val, e.val>> \in prior
               \/ b.val = e.val /\ e.kind = "read"
    <3>1. PICK x, r \in done : b = Brief(x) /\ e = Brief(r)
      BY DEF results
    <3>2. /\ b.val = x.val /\ e.val = r.val /\ e.kind = r.kind /\ e.before = r.before
          /\ Register!Id(b) = Id(x)
      BY <3>1 DEF Brief, Register!Id, Id
    <3> QED
      BY <2>2, <2>3, <3>1, <3>2 DEF Precedes
  <2> QED
    BY <2>3 DEF Register!RealTimeOrder, results, Brief, prior
<1> QED
  BY <1>1, Inductive, PTL DEF Spec

---------------------------------------------------------------------------
(* Atomicity. *)

\* The same register, with the theorems about it.
Proved == INSTANCE AtomicRegisterProofs WITH
    busy   <- {c \in Clients : pc[c] # "idle"},
    values <- Vals(Chosen),
    prior  <- TagOrder(Chosen),
    done   <- {Brief(r) : r \in done}

LEMMA SameRegister ==
    /\ Register!Spec => Proved!Spec
    /\ Proved!Linearizable => Register!Linearizable
<1>1. Register!Init => Proved!Init
  BY DEF Register!Init, Proved!Init
<1>2. Register!Next => Proved!Next
  <2>1. ASSUME NEW c \in Clients, Register!Invoke(c) PROVE Proved!Invoke(c)
    BY <2>1 DEF Register!Invoke, Proved!Invoke, Register!Id, Proved!Id
  <2>2. ASSUME NEW c \in Clients, Register!Publish(c) PROVE Proved!Publish(c)
    BY <2>2 DEF Register!Publish, Proved!Publish, Register!Kind, Proved!Kind, Register!Insert,
                Proved!Insert, Register!Known, Proved!Known, Register!Id, Proved!Id
  <2>3. ASSUME NEW c \in Clients, Register!Return(c) PROVE Proved!Return(c)
    BY <2>3 DEF Register!Return, Proved!Return, Register!Kind, Proved!Kind, Register!MayReturn,
                Proved!MayReturn, Register!Known, Proved!Known, Register!Id, Proved!Id
  <2> QED
    BY <2>1, <2>2, <2>3 DEF Register!Next, Proved!Next
<1>3. (UNCHANGED Register!vars) => UNCHANGED Proved!vars
  BY DEF Register!vars, Proved!vars
<1>4. [Register!Next]_(Register!vars) => [Proved!Next]_(Proved!vars)
  BY <1>2, <1>3
<1>5. Proved!Linearizable => Register!Linearizable
  BY DEF Register!Linearizable, Proved!Linearizable, Register!HasLinearOrder,
         Proved!HasLinearOrder, Register!MayComeFirst, Proved!MayComeFirst,
         Register!PendingWrites, Proved!PendingWrites, Register!Kind, Proved!Kind,
         Register!Id, Proved!Id
<1> QED
  BY <1>1, <1>4, <1>5, PTL DEF Register!Spec, Proved!Spec

(***************************************************************************)
(* Where strcmp returns -1, 0 or 1, SODAW is atomic: the calls that have   *)
(* returned, with the writes whose value has been read, can be put in one  *)
(* sequence that agrees with real time, in which each read returns what    *)
(* the last write before it wrote.                                         *)
(***************************************************************************)
THEOREM SODAWIsAtomic ==
    ASSUME FreshNums, UnitStrCmp
    PROVE  Spec => []Register!Linearizable
<1>1. Proved!RegisterAssumption
  <2>1. InitVal \notin Clients \X (Nat \ {0})
    BY NamesAssumption, CallsAssumption DEF InitVal
  <2> QED
    BY <2>1, CallsAssumption DEF Proved!RegisterAssumption, Kinds
<1>2. Proved!Spec => []Proved!Linearizable
  BY <1>1, Proved!RegisterIsAtomic
<1>3. Spec => Register!Spec
  BY SODAWImplementsRegister DEF ImplementsRegister
<1> QED
  BY <1>2, <1>3, SameRegister, PTL
=============================================================================
