----------------------------- MODULE ABDProofs -----------------------------
(***************************************************************************)
(* Proofs about ABD, for every number of servers and clients, every script *)
(* of calls and every strcmp that the C standard allows: its types; and,   *)
(* for every instance in which no operation number is used twice, that the *)
(* clients count servers when they count messages, that a call never goes  *)
(* back behind a call that had returned before it, that what was returned  *)
(* stays at a majority, that a tag stands for one value, and that ABD      *)
(* implements the atomic register, so that its calls are linearizable.     *)
(***************************************************************************)
EXTENDS ABDInvariant, CallsProofs

USE DEF GET_TAG, GET_TAG_VALUE, WRITE_VALUE, GetPhases, Phases

---------------------------------------------------------------------------
(* Types. *)

LEMMA InitTypes ==
    /\ InitTag \in Tag /\ NoTag \notin Tag
    /\ InitVal \in Values
    /\ InitObject \in Object /\ NoObject \notin Object
BY InitialTypes DEF NoObject, Object, NoTag, Tag

LEMMA StoredType ==
    ASSUME TypeOK, NEW s \in Servers
    PROVE  Stored(s) \in Object
BY InitTypes DEF TypeOK, Stored

LEMMA OverwriteType ==
    ASSUME NEW old \in Object, NEW new \in Object
    PROVE  Overwrite(old, new) \in Object
BY DEF Overwrite

LEMMA TypeInit == Init => TypeOK
<1> SUFFICES ASSUME Init PROVE TypeOK
  OBVIOUS
<1>1. Majority(Cardinality(Servers)) \in Nat \ {0}
  BY MajorityOfServers
<1>2. \A c \in Clients : Len(Script[c]) \in Nat
  BY CallsAssumption
<1> QED
  BY <1>1, <1>2, InitTypes DEF Init, TypeOK

LEMMA TypeServe ==
    ASSUME TypeOK, NEW c \in Clients, NEW s \in Servers, Serve(c, s)
    PROVE  TypeOK'
<1> DEFINE m == Head(toServer[c][s])
<1>1. toServer[c][s] \in Seq(GetRequest \cup WriteRequest) /\ toServer[c][s] # <<>>
  BY DEF TypeOK, Serve, ServeGetTag, ServeGetTagValue, ServeWriteValue
<1>2. m \in GetRequest \cup WriteRequest
      /\ Tail(toServer[c][s]) \in Seq(GetRequest \cup WriteRequest)
  BY <1>1, ChannelTail
<1>3. Stored(s) \in Object
  BY StoredType
<1>4. PICK a \in Answer, o \in Object : store' = [store EXCEPT ![s] = o] /\ Reply(c, s, a)
  <2>1. CASE ServeGetTag(c, s)
    BY <2>1, <1>2, <1>3, InitTypes
       DEF ServeGetTag, GetRequest, WriteRequest, Answer, Message, Object
  <2>2. CASE ServeGetTagValue(c, s)
    BY <2>2, <1>2, <1>3, InitTypes
       DEF ServeGetTagValue, GetRequest, WriteRequest, Answer, Message, Object
  <2>3. CASE ServeWriteValue(c, s)
    <3>1. m \in WriteRequest
      BY <2>3, <1>2 DEF ServeWriteValue, GetRequest, WriteRequest
    <3>2. [tag |-> m.tag, val |-> m.val] \in Object
      BY <3>1 DEF WriteRequest, Object
    <3>3. Overwrite(Stored(s), [tag |-> m.tag, val |-> m.val]) \in Object
      BY <1>3, <3>2, OverwriteType
    <3>4. Message(WRITE_VALUE, m.num, m.tag, InitVal) \in Answer
      BY <3>1, InitTypes DEF WriteRequest, Answer, Message
    <3> QED
      BY <2>3, <3>3, <3>4 DEF ServeWriteValue
  <2> QED
    BY <2>1, <2>2, <2>3 DEF Serve
<1>5. store' \in [Servers -> Object \cup {NoObject}]
  BY <1>4 DEF TypeOK
<1>6. toServer' \in [Clients -> [Servers -> Seq(GetRequest \cup WriteRequest)]]
  BY <1>2, <1>4 DEF TypeOK, Reply
<1>7. toClient' \in [Clients -> [Servers -> Seq(Answer)]]
  <2>1. Append(toClient[c][s], a) \in Seq(Answer)
    BY ChannelAppend DEF TypeOK
  <2> QED
    BY <2>1, <1>4 DEF TypeOK, Reply
<1> QED
  BY <1>4, <1>5, <1>6, <1>7 DEF TypeOK, Reply, clientVars

LEMMA TypeBegin ==
    ASSUME TypeOK, NEW c \in Clients, Begin(c)
    PROVE  TypeOK'
<1> DEFINE next  == Script[c][call[c] + 1]
           phase == IF next.kind = "read" THEN GET_TAG_VALUE ELSE GET_TAG
           m     == Message(phase, next.num, NoTag, InitVal)
<1>1. call[c] \in Nat /\ call[c] + 1 <= Len(Script[c])
  <2>1. Len(Script[c]) \in Nat
    BY CallsAssumption
  <2> QED
    BY <2>1 DEF TypeOK, Begin
<1>2. next \in [kind : Kinds, num : Nat]
  BY <1>1, CallType
<1>3. m \in GetRequest \cup WriteRequest
  BY <1>2 DEF GetRequest, Message
<1>4. toServer' \in [Clients -> [Servers -> Seq(GetRequest \cup WriteRequest)]]
  <2>1. \A s \in Servers : Append(toServer[c][s], m) \in Seq(GetRequest \cup WriteRequest)
    BY <1>3, ChannelAppend DEF TypeOK
  <2> QED
    BY <2>1 DEF TypeOK, Begin, Multicast
<1>5. pc' \in [Clients -> Phases \cup {"idle"}] /\ pc'[c] \in GetPhases
  BY DEF TypeOK, Begin
<1>6. val' \in [Clients -> Values]
  <2>1. <<c, call[c] + 1>> \in Values
    BY <1>1 DEF Values, CallId
  <2> QED
    BY <2>1, InitTypes DEF TypeOK, Begin
<1>7. call' \in [Clients -> Nat] /\ call'[c] = call[c] + 1
  BY <1>1 DEF TypeOK, Begin
<1>8. before' \in [Clients -> SUBSET CallId]
  BY DEF TypeOK, Begin, Id, Result, CallId
<1>9. responses' \in [Clients -> 0 .. Majority(Cardinality(Servers)) - 1]
  <2>1. 0 \in 0 .. Majority(Cardinality(Servers)) - 1
    BY MajorityOfServers
  <2> QED
    BY <2>1 DEF TypeOK, Begin
<1>10. tag' \in [Clients -> Tag \cup {NoTag}]
  BY DEF TypeOK, Begin
<1>11. \A d \in Clients : /\ call'[d] <= Len(Script[d])
                          /\ pc'[d] # "idle" => call'[d] > 0
                          /\ pc'[d] = WRITE_VALUE => tag'[d] \in Tag
  BY <1>1, <1>5, <1>7 DEF TypeOK, Begin
<1> QED
  BY <1>4, <1>5, <1>6, <1>7, <1>8, <1>9, <1>10, <1>11 DEF TypeOK, Begin

\* What every reception of a reply does to the types.
LEMMA TypeReceive ==
    ASSUME TypeOK, NEW c \in Clients, NEW s \in Servers, Receive(c, s)
    PROVE  /\ Head(toClient[c][s]) \in Answer
           /\ toClient' \in [Clients -> [Servers -> Seq(Answer)]]
           /\ call[c] > 0 /\ call[c] \in Nat
           /\ Script[c][call[c]] \in [kind : Kinds, num : Nat]
<1>1. toClient[c][s] \in Seq(Answer) /\ toClient[c][s] # <<>>
  BY DEF TypeOK, Receive
<1>2. Head(toClient[c][s]) \in Answer /\ Tail(toClient[c][s]) \in Seq(Answer)
  BY <1>1, ChannelTail
<1>3. call[c] > 0 /\ call[c] \in Nat /\ call[c] <= Len(Script[c])
  BY DEF TypeOK, Receive
<1> QED
  BY <1>2, <1>3, CallType DEF TypeOK, Receive

\* The running maximum is a real tag as soon as one reply has been counted.
LEMMA NewMaxType ==
    ASSUME TypeOK, NEW c \in Clients, NEW m \in Answer
    PROVE  NewMax(c, m).tag \in Tag /\ NewMax(c, m).val \in Values
<1>1. tag[c] \in Tag \cup {NoTag} /\ val[c] \in Values /\ m.tag \in Tag /\ m.val \in Values
  BY DEF TypeOK, Answer
<1>2. tag[c] = NoTag => /\ compare_tag_ptrs(tag[c], m.tag) < 0
                        /\ compare_tag_ptrs(m.tag, tag[c]) = 1
  <2>1. m.tag.z \in Nat
    BY <1>1 DEF Tag
  <2>2. NoTag.z = -1
    BY DEF NoTag
  <2>3. NoTag.z < m.tag.z /\ ~(m.tag.z < NoTag.z) /\ m.tag.z > NoTag.z
    BY <2>1, <2>2
  <2> QED
    BY <2>3 DEF compare_tag_ptrs
<1> QED
  BY <1>1, <1>2 DEF NewMax, MaxTagStep

LEMMA TypeClient ==
    ASSUME TypeOK, NEW c \in Clients, NEW s \in Servers,
           OldMessage(c, s) \/ CountGet(c, s) \/ EndGet(c, s) \/ CountAck(c, s) \/ Return(c, s)
    PROVE  TypeOK'
<1> DEFINE m == Head(toClient[c][s])
           M == Majority(Cardinality(Servers))
<1>1. Receive(c, s)
  BY DEF OldMessage, CountGet, EndGet, CountAck, Return
<1>2. /\ m \in Answer
      /\ toClient' \in [Clients -> [Servers -> Seq(Answer)]]
      /\ call[c] > 0 /\ call[c] \in Nat
      /\ Script[c][call[c]] \in [kind : Kinds, num : Nat]
  BY <1>1, TypeReceive
<1>3. M \in Nat \ {0} /\ responses[c] \in 0 .. M - 1
  BY MajorityOfServers DEF TypeOK
<1>4. NewMax(c, m).tag \in Tag /\ NewMax(c, m).val \in Values
  BY <1>2, NewMaxType
<1>5. CASE OldMessage(c, s)
  BY <1>1, <1>2, <1>5 DEF OldMessage, Receive, TypeOK
<1>6. CASE CountGet(c, s)
  <2>1. responses' \in [Clients -> 0 .. M - 1]
    <3>1. responses[c] + 1 \in 0 .. M - 1
      BY <1>3, <1>6 DEF CountGet
    <3> QED
      BY <3>1, <1>6 DEF CountGet, TypeOK
  <2>2. tag' \in [Clients -> Tag \cup {NoTag}] /\ val' \in [Clients -> Values]
    BY <1>4, <1>6 DEF CountGet, TypeOK
  <2>3. \A d \in Clients : pc'[d] = WRITE_VALUE => tag'[d] \in Tag
    BY <1>4, <1>6 DEF CountGet, TypeOK
  <2> QED
    BY <1>1, <1>2, <1>6, <2>1, <2>2, <2>3 DEF CountGet, Receive, TypeOK
<1>7. CASE EndGet(c, s)
  <2> DEFINE t == TagToWrite(c, NewMax(c, m).tag)
             w == Message(WRITE_VALUE, Num(c), t, NewMax(c, m).val)
  <2>1. t \in Tag
    <3>1. NewMax(c, m).tag.z + 1 \in Nat /\ c \in Names
      BY <1>4, CallsAssumption DEF Tag
    <3> QED
      BY <1>4, <3>1 DEF TagToWrite, Tag
  <2>2. w \in GetRequest \cup WriteRequest
    BY <1>2, <1>4, <2>1 DEF WriteRequest, Message, Num
  <2>3. toServer' \in [Clients -> [Servers -> Seq(GetRequest \cup WriteRequest)]]
    <3>1. \A r \in Servers : Append(toServer[c][r], w) \in Seq(GetRequest \cup WriteRequest)
      BY <2>2, ChannelAppend DEF TypeOK
    <3>2. toServer' = [toServer EXCEPT ![c] = [r \in Servers |-> Append(toServer[c][r], w)]]
      BY <1>7 DEF EndGet, Multicast, TypeOK
    <3> QED
      BY <3>1, <3>2 DEF TypeOK
  <2>4. responses' \in [Clients -> 0 .. M - 1]
    <3>1. 0 \in 0 .. M - 1
      BY <1>3
    <3> QED
      BY <3>1, <1>7 DEF EndGet, TypeOK
  <2>5. tag' \in [Clients -> Tag \cup {NoTag}] /\ val' \in [Clients -> Values]
    BY <1>4, <1>7, <2>1 DEF EndGet, TypeOK
  <2>6. pc' \in [Clients -> Phases \cup {"idle"}]
    BY <1>7 DEF EndGet, TypeOK
  <2>7. \A d \in Clients : /\ pc'[d] # "idle" => call[d] > 0
                           /\ pc'[d] = WRITE_VALUE => tag'[d] \in Tag
    BY <1>2, <1>7, <2>1 DEF EndGet, TypeOK
  <2> QED
    BY <1>1, <1>2, <1>7, <2>3, <2>4, <2>5, <2>6, <2>7 DEF EndGet, Receive, TypeOK
<1>8. CASE CountAck(c, s)
  <2>1. responses' \in [Clients -> 0 .. M - 1]
    <3>1. responses[c] + 1 \in 0 .. M - 1
      BY <1>3, <1>8 DEF CountAck
    <3> QED
      BY <3>1, <1>8 DEF CountAck, TypeOK
  <2> QED
    BY <1>1, <1>2, <1>8, <2>1 DEF CountAck, Receive, TypeOK
<1>9. CASE Return(c, s)
  <2>1. responses' \in [Clients -> 0 .. M - 1]
    <3>1. 0 \in 0 .. M - 1
      BY <1>3
    <3> QED
      BY <3>1, <1>9 DEF Return, TypeOK
  <2>2. done' \subseteq Result
    BY <1>2, <1>9 DEF Return, TypeOK, Result, Kind
  <2>3. pc' \in [Clients -> Phases \cup {"idle"}]
        /\ \A d \in Clients : /\ pc'[d] # "idle" => call[d] > 0
                              /\ pc'[d] = WRITE_VALUE => tag[d] \in Tag
    BY <1>9 DEF Return, TypeOK
  <2> QED
    BY <1>1, <1>2, <1>9, <2>1, <2>2, <2>3 DEF Return, Receive, TypeOK
<1> QED
  BY <1>5, <1>6, <1>7, <1>8, <1>9

LEMMA TypeCrash ==
    ASSUME TypeOK, NEW c \in Clients, Crash(c)
    PROVE  TypeOK'
<1>1. PICK kept \in [Servers -> UNION {0 .. Len(toServer[c][s]) : s \in Servers}] :
         /\ \A s \in Servers : kept[s] <= Len(toServer[c][s])
         /\ toServer' = [toServer EXCEPT
                           ![c] = [s \in Servers |-> SubSeq(@[s], 1, kept[s])]]
  BY DEF Crash
<1>2. \A s \in Servers :
         SubSeq(toServer[c][s], 1, kept[s]) \in Seq(GetRequest \cup WriteRequest)
  <2> TAKE s \in Servers
  <2>1. toServer[c][s] \in Seq(GetRequest \cup WriteRequest)
    BY DEF TypeOK
  <2>2. kept[s] \in 0 .. Len(toServer[c][s])
    <3>1. PICK r \in Servers : kept[s] \in 0 .. Len(toServer[c][r])
      BY <1>1
    <3>2. toServer[c][r] \in Seq(GetRequest \cup WriteRequest)
      BY SMTT(30) DEF TypeOK
    <3>3. Len(toServer[c][r]) \in Nat /\ Len(toServer[c][s]) \in Nat
      BY <2>1, <3>2, SeqLength
    <3> QED
      BY <3>1, <3>3, <1>1
  <2> QED
    BY <2>1, <2>2, ChannelPrefix
<1>3. toServer' \in [Clients -> [Servers -> Seq(GetRequest \cup WriteRequest)]]
  BY <1>1, <1>2 DEF TypeOK
<1>4. toClient' \in [Clients -> [Servers -> Seq(Answer)]]
  BY DEF TypeOK, Crash
<1>5. alive' \subseteq Clients
  BY DEF TypeOK, Crash
<1> QED
  BY <1>3, <1>4, <1>5 DEF TypeOK, Crash

LEMMA TypeNext == TypeOK /\ [Next]_vars => TypeOK'
<1> SUFFICES ASSUME TypeOK, [Next]_vars PROVE TypeOK'
  OBVIOUS
<1>1. ASSUME NEW c \in Clients, ClientStep(c) PROVE TypeOK'
  BY <1>1, TypeBegin, TypeClient DEF ClientStep
<1>2. ASSUME NEW c \in Clients, Crash(c) PROVE TypeOK'
  BY <1>2, TypeCrash
<1>3. ASSUME NEW c \in Clients, NEW s \in Servers, Serve(c, s) PROVE TypeOK'
  BY <1>3, TypeServe
<1>4. CASE UNCHANGED vars
  BY <1>4 DEF TypeOK, vars
<1> QED
  BY <1>1, <1>2, <1>3, <1>4 DEF Next

(***************************************************************************)
(* Type correctness: in particular, no server ever stores and no client    *)
(* ever writes back the placeholder tag -1 that a maximum starts from.     *)
(***************************************************************************)
THEOREM TypeCorrect == Spec => []TypeOK
BY TypeInit, TypeNext, PTL DEF Spec

---------------------------------------------------------------------------
(* The messages of one phase in a channel that grows, shrinks or is cut. *)

LEMMA HasAppend ==
    ASSUME NEW S, NEW q \in Seq(S), NEW m \in S, NEW phase, NEW num
    PROVE  Has(Append(q, m), phase, num)
             <=> Has(q, phase, num) \/ (m.phase = phase /\ m.num = num)
<1> DEFINE a == Append(q, m)
<1>1. /\ a \in Seq(S) /\ Len(a) = Len(q) + 1 /\ Len(q) \in Nat
      /\ \A i \in 1 .. Len(q) : a[i] = q[i]
      /\ a[Len(q) + 1] = m
  BY ChannelAppend
<1>2. DOMAIN a = 1 .. Len(q) + 1 /\ DOMAIN q = 1 .. Len(q)
  BY <1>1
<1> HIDE DEF a
<1> QED
  BY <1>1, <1>2 DEF Has, At, a

LEMMA HasTail ==
    ASSUME NEW S, NEW q \in Seq(S), q # <<>>, NEW phase, NEW num
    PROVE  Has(q, phase, num)
             <=> Has(Tail(q), phase, num) \/ (Head(q).phase = phase /\ Head(q).num = num)
<1> DEFINE t == Tail(q)
<1>1. /\ t \in Seq(S) /\ Len(t) = Len(q) - 1 /\ Len(q) \in Nat /\ Len(q) > 0
      /\ \A i \in 1 .. Len(t) : t[i] = q[i + 1]
      /\ Head(q) = q[1]
  BY ChannelTail
<1>2. DOMAIN t = 1 .. Len(q) - 1 /\ DOMAIN q = 1 .. Len(q)
  BY <1>1
<1> HIDE DEF t
<1>3. ASSUME NEW i \in DOMAIN q, At(q, i, phase, num)
      PROVE  Has(t, phase, num) \/ (q[1].phase = phase /\ q[1].num = num)
  <2>1. CASE i = 1
    BY <2>1, <1>3 DEF At
  <2>2. CASE i # 1
    <3>1. i - 1 \in 1 .. Len(t) /\ t[i - 1] = q[(i - 1) + 1] /\ (i - 1) + 1 = i
      BY <2>2, <1>1, <1>2
    <3> QED
      BY <3>1, <1>1, <1>2, <1>3 DEF Has, At
  <2> QED
    BY <2>1, <2>2
<1>4. ASSUME NEW i \in DOMAIN t, At(t, i, phase, num)
      PROVE  Has(q, phase, num)
  <2>1. i + 1 \in DOMAIN q /\ q[i + 1] = t[i]
    BY <1>1, <1>2
  <2> QED
    BY <2>1, <1>4 DEF Has, At
<1>5. q[1].phase = phase /\ q[1].num = num => Has(q, phase, num)
  BY <1>1, <1>2 DEF Has, At
<1> QED
  BY <1>1, <1>3, <1>4, <1>5 DEF Has, t

LEMMA AtMostOneAppend ==
    ASSUME NEW S, NEW q \in Seq(S), NEW m \in S, NEW phase, NEW num,
           AtMostOne(q, phase, num),
           ~Has(q, phase, num) \/ ~(m.phase = phase /\ m.num = num)
    PROVE  AtMostOne(Append(q, m), phase, num)
<1> DEFINE a == Append(q, m)
<1>1. /\ a \in Seq(S) /\ Len(a) = Len(q) + 1 /\ Len(q) \in Nat
      /\ \A i \in 1 .. Len(q) : a[i] = q[i]
      /\ a[Len(q) + 1] = m
  BY ChannelAppend
<1>2. DOMAIN a = 1 .. Len(q) + 1 /\ DOMAIN q = 1 .. Len(q)
  BY <1>1
<1> HIDE DEF a
<1>3. SUFFICES ASSUME NEW i \in DOMAIN a, NEW j \in DOMAIN a,
                      At(a, i, phase, num), At(a, j, phase, num)
               PROVE  i = j
  BY DEF AtMostOne, a
<1>4. CASE i \in DOMAIN q /\ j \in DOMAIN q
  BY <1>1, <1>2, <1>3, <1>4 DEF AtMostOne, At
<1>5. CASE i = Len(q) + 1 /\ j \in DOMAIN q
  BY <1>1, <1>2, <1>3, <1>5 DEF Has, At
<1>6. CASE j = Len(q) + 1 /\ i \in DOMAIN q
  BY <1>1, <1>2, <1>3, <1>6 DEF Has, At
<1>7. CASE i = Len(q) + 1 /\ j = Len(q) + 1
  BY <1>7
<1> QED
  BY <1>1, <1>2, <1>4, <1>5, <1>6, <1>7

LEMMA AtMostOneTail ==
    ASSUME NEW S, NEW q \in Seq(S), q # <<>>, NEW phase, NEW num,
           AtMostOne(q, phase, num)
    PROVE  /\ AtMostOne(Tail(q), phase, num)
           /\ Head(q).phase = phase /\ Head(q).num = num => ~Has(Tail(q), phase, num)
<1> DEFINE t == Tail(q)
<1>1. /\ t \in Seq(S) /\ Len(t) = Len(q) - 1 /\ Len(q) \in Nat /\ Len(q) > 0
      /\ \A i \in 1 .. Len(t) : t[i] = q[i + 1]
      /\ Head(q) = q[1]
  BY ChannelTail
<1>2. DOMAIN t = 1 .. Len(q) - 1 /\ DOMAIN q = 1 .. Len(q)
  BY <1>1
<1> HIDE DEF t
<1>3. \A i \in DOMAIN t : /\ i \in Nat /\ i # 0 /\ i + 1 \in DOMAIN q
                          /\ At(t, i, phase, num) => At(q, i + 1, phase, num)
  BY <1>1, <1>2 DEF At
<1>4. AtMostOne(t, phase, num)
  <2> SUFFICES ASSUME NEW i \in DOMAIN t, NEW j \in DOMAIN t,
                      At(t, i, phase, num), At(t, j, phase, num)
               PROVE  i = j
    BY DEF AtMostOne
  <2>1. i + 1 = j + 1
    BY <1>3 DEF AtMostOne
  <2> QED
    BY <2>1, <1>3
<1>5. ASSUME q[1].phase = phase, q[1].num = num, Has(t, phase, num)
      PROVE  FALSE
  <2>1. PICK i \in DOMAIN t : At(t, i, phase, num)
    BY <1>5 DEF Has
  <2>2. At(q, 1, phase, num) /\ 1 \in DOMAIN q
    BY <1>1, <1>2, <1>5 DEF At
  <2>3. i + 1 = 1
    BY <2>1, <2>2, <1>3 DEF AtMostOne
  <2> QED
    BY <2>3, <1>3
<1> QED
  BY <1>1, <1>4, <1>5 DEF t

LEMMA HasPrefix ==
    ASSUME NEW S, NEW q \in Seq(S), NEW k \in 0 .. Len(q), NEW phase, NEW num,
           ~Has(q, phase, num)
    PROVE  ~Has(SubSeq(q, 1, k), phase, num)
<1> DEFINE p == SubSeq(q, 1, k)
<1>1. p \in Seq(S) /\ Len(p) = k /\ \A i \in 1 .. k : p[i] = q[i]
  BY ChannelPrefix
<1>2. DOMAIN p = 1 .. k /\ DOMAIN q = 1 .. Len(q) /\ Len(q) \in Nat
  BY <1>1
<1> HIDE DEF p
<1> QED
  BY <1>1, <1>2 DEF Has, At, p

LEMMA HasNone ==
    ASSUME NEW phase, NEW num
    PROVE  ~Has(<<>>, phase, num) /\ AtMostOne(<<>>, phase, num)
BY DEF Has, AtMostOne

---------------------------------------------------------------------------
(* What the steps do to the messages on the way. *)

LEMMA AnsweredServers ==
    ASSUME NEW c \in Clients
    PROVE  Answered(c) = {s \in Servers : ~OnTheWay(c, s, pc[c], Num(c))}
BY DEF Answered, OnTheWay, Counts, Has, At

LEMMA ChannelTypes ==
    ASSUME TypeOK, NEW c \in Clients, NEW s \in Servers
    PROVE  /\ toServer[c][s] \in Seq(GetRequest \cup WriteRequest)
           /\ toClient[c][s] \in Seq(Answer)
BY DEF TypeOK

\* A handler takes the first request and sends back one message of its kind.
LEMMA ServeSends ==
    ASSUME TypeOK, NEW c \in Clients, NEW s \in Servers, Serve(c, s)
    PROVE  /\ toServer[c][s] # <<>>
           /\ \E a \in Answer :
                 /\ a.phase = Head(toServer[c][s]).phase
                 /\ a.num = Head(toServer[c][s]).num
                 /\ Reply(c, s, a)
<1> DEFINE m == Head(toServer[c][s])
<1>1. toServer[c][s] \in Seq(GetRequest \cup WriteRequest) /\ toServer[c][s] # <<>>
  BY DEF TypeOK, Serve, ServeGetTag, ServeGetTagValue, ServeWriteValue
<1>2. m \in GetRequest \cup WriteRequest
  BY <1>1, ChannelTail
<1>3. Stored(s) \in Object
  BY StoredType
<1>4. CASE ServeGetTag(c, s)
  <2>1. Message(GET_TAG, m.num, Stored(s).tag, InitVal) \in Answer
    BY <1>2, <1>3, InitTypes DEF GetRequest, WriteRequest, Answer, Message, Object
  <2> QED
    BY <1>1, <1>4, <2>1 DEF ServeGetTag, Message
<1>5. CASE ServeGetTagValue(c, s)
  <2>1. Message(GET_TAG_VALUE, m.num, Stored(s).tag, Stored(s).val) \in Answer
    BY <1>2, <1>3, InitTypes DEF GetRequest, WriteRequest, Answer, Message, Object
  <2> QED
    BY <1>1, <1>5, <2>1 DEF ServeGetTagValue, Message
<1>6. CASE ServeWriteValue(c, s)
  <2>1. m \in WriteRequest
    BY <1>2, <1>6 DEF ServeWriteValue, GetRequest, WriteRequest
  <2>2. Message(WRITE_VALUE, m.num, m.tag, InitVal) \in Answer
    BY <2>1, InitTypes DEF WriteRequest, Answer, Message
  <2> QED
    BY <1>1, <1>6, <2>2 DEF ServeWriteValue, Message
<1> QED
  BY <1>4, <1>5, <1>6 DEF Serve

\* A handler takes the first request of one channel and answers it.
LEMMA ServeMoves ==
    ASSUME TypeOK, NEW c \in Clients, NEW s \in Servers, Serve(c, s)
    PROVE  /\ toServer[c][s] # <<>>
           /\ \E a \in Answer :
                 /\ a.phase = Head(toServer[c][s]).phase
                 /\ a.num = Head(toServer[c][s]).num
                 /\ toServer'[c][s] = Tail(toServer[c][s])
                 /\ toClient'[c][s] = IF c \in alive THEN Append(toClient[c][s], a)
                                                     ELSE toClient[c][s]
           /\ \A d \in Clients, r \in Servers : <<d, r>> # <<c, s>> =>
                 toServer'[d][r] = toServer[d][r] /\ toClient'[d][r] = toClient[d][r]
           /\ UNCHANGED clientVars
<1>1. toServer[c][s] # <<>>
  BY ServeSends
<1>2. PICK a \in Answer : /\ a.phase = Head(toServer[c][s]).phase
                          /\ a.num = Head(toServer[c][s]).num
                          /\ Reply(c, s, a)
  BY ServeSends
<1> QED
  BY <1>1, <1>2 DEF Reply, TypeOK

\* For a client that is alive, a handler turns a request into a reply.
LEMMA ServeKeeps ==
    ASSUME TypeOK, NEW c \in Clients, NEW s \in Servers, Serve(c, s)
    PROVE  \A d \in Clients, r \in Servers : \A phase, num :
              /\ OnTheWay(d, r, phase, num)' => OnTheWay(d, r, phase, num)
              /\ d \in alive /\ OnTheWay(d, r, phase, num) => OnTheWay(d, r, phase, num)'
<1> DEFINE m == Head(toServer[c][s])
<1>1. PICK a \in Answer :
         /\ a.phase = m.phase /\ a.num = m.num
         /\ toServer'[c][s] = Tail(toServer[c][s])
         /\ toClient'[c][s] = IF c \in alive THEN Append(toClient[c][s], a)
                                             ELSE toClient[c][s]
  BY ServeMoves
<1>2. toServer[c][s] # <<>>
  BY ServeMoves
<1>3. ASSUME NEW phase, NEW num
      PROVE  /\ Has(toServer[c][s], phase, num)
                  <=> Has(toServer'[c][s], phase, num) \/ (m.phase = phase /\ m.num = num)
             /\ Has(toClient'[c][s], phase, num)
                  <=> \/ Has(toClient[c][s], phase, num)
                      \/ c \in alive /\ m.phase = phase /\ m.num = num
  BY <1>1, <1>2, ChannelTypes, HasTail, HasAppend
<1>4. \A d \in Clients, r \in Servers : <<d, r>> # <<c, s>> =>
         toServer'[d][r] = toServer[d][r] /\ toClient'[d][r] = toClient[d][r]
  BY ServeMoves
<1> QED
  BY <1>3, <1>4 DEF OnTheWay

\* A step that sends no request leaves the first two parts as they are.
LEMMA NoneKept ==
    ASSUME NoneOfLaterCalls, NoneOfSecondPhase, call' = call,
           \A c \in Clients : pc'[c] \in GetPhases => pc[c] \in GetPhases,
           \A c \in Clients, s \in Servers : \A phase, num :
              OnTheWay(c, s, phase, num)' => OnTheWay(c, s, phase, num)
    PROVE  NoneOfLaterCalls' /\ NoneOfSecondPhase'
BY DEF NoneOfLaterCalls, NoneOfSecondPhase, Num

(***************************************************************************)
(* A client counts one more message in those steps in which it has read    *)
(* the message of one more server, and begins a phase with none.           *)
(***************************************************************************)
CountsAlong(d) ==
    \/ /\ responses'[d] = 0
       /\ Cardinality(Answered(d)') = 0
    \/ /\ pc[d] # "idle" /\ d \in alive
       /\ \E k \in {0, 1} :
             /\ responses'[d] = responses[d] + k
             /\ Cardinality(Answered(d)') = Cardinality(Answered(d)) + k

LEMMA AnsweredFinite ==
    ASSUME NEW c \in Clients
    PROVE  IsFiniteSet(Answered(c)) /\ Cardinality(Answered(c)) \in Nat
BY CallsAssumption, FS_Subset, FS_CardinalityType DEF Answered

LEMMA SameCount ==
    ASSUME TypeOK, NEW d \in alive, pc[d] # "idle",
           responses'[d] = responses[d], Answered(d)' = Answered(d)
    PROVE  CountsAlong(d)
<1>1. Cardinality(Answered(d)) \in Nat /\ responses[d] \in Int
  BY AnsweredFinite, MajorityOfServers DEF TypeOK
<1> QED
  BY <1>1 DEF CountsAlong

LEMMA MessagesInit == Init => Messages
<1> SUFFICES ASSUME Init PROVE Messages
  OBVIOUS
<1>1. \A c \in Clients, s \in Servers : \A phase, num : ~OnTheWay(c, s, phase, num)
  BY HasNone DEF Init, OnTheWay
<1>2. \A c \in Clients : pc[c] = "idle"
  BY DEF Init
<1> QED
  BY <1>1, <1>2 DEF Init, Messages, OneMessage, NoneOfLaterCalls, NoneOfSecondPhase,
                    OneOfThisPhase, CountsServers

LEMMA MessagesServe ==
    ASSUME TypeOK, OneMessage, NEW c \in Clients, NEW s \in Servers, Serve(c, s)
    PROVE  OneMessage' /\ \A d \in alive' : pc'[d] # "idle" => CountsAlong(d)
<1> DEFINE m == Head(toServer[c][s])
<1>1. PICK a \in Answer :
         /\ a.phase = m.phase /\ a.num = m.num
         /\ toServer'[c][s] = Tail(toServer[c][s])
         /\ toClient'[c][s] = IF c \in alive THEN Append(toClient[c][s], a)
                                             ELSE toClient[c][s]
  BY ServeMoves
<1>2. toServer[c][s] # <<>>
  BY ServeMoves
<1>3. alive' = alive /\ call' = call /\ pc' = pc /\ responses' = responses
  BY ServeMoves DEF clientVars
<1>4. \A d \in Clients, r \in Servers : <<d, r>> # <<c, s>> =>
         toServer'[d][r] = toServer[d][r] /\ toClient'[d][r] = toClient[d][r]
  BY ServeMoves
<1>5. ASSUME NEW phase, NEW num
      PROVE  /\ Has(toServer[c][s], phase, num)
                  <=> Has(toServer'[c][s], phase, num) \/ (m.phase = phase /\ m.num = num)
             /\ Has(toClient'[c][s], phase, num)
                  <=> \/ Has(toClient[c][s], phase, num)
                      \/ c \in alive /\ m.phase = phase /\ m.num = num
  BY <1>1, <1>2, ChannelTypes, HasTail, HasAppend
<1>6. \A d \in Clients, r \in Servers : \A phase, num :
         /\ OnTheWay(d, r, phase, num)' => OnTheWay(d, r, phase, num)
         /\ d \in alive /\ OnTheWay(d, r, phase, num) => OnTheWay(d, r, phase, num)'
  BY ServeKeeps
<1>7. NoneOfLaterCalls' /\ NoneOfSecondPhase'
  BY <1>3, <1>6, NoneKept DEF OneMessage
<1>8. OneOfThisPhase'
  <2> SUFFICES ASSUME NEW d \in alive, NEW r \in Servers, pc[d] # "idle"
               PROVE  OneAtMost(d, r)'
    BY <1>3 DEF OneOfThisPhase
  <2>1. OneAtMost(d, r) /\ d \in Clients
    BY DEF OneMessage, OneOfThisPhase, TypeOK
  <2>2. CASE <<d, r>> # <<c, s>>
    BY <2>1, <2>2, <1>3, <1>4 DEF OneAtMost, Num
  <2>3. CASE d = c /\ r = s
    <3> DEFINE now == m.phase = pc[c] /\ m.num = Num(c)
    <3>1. /\ AtMostOne(toServer'[c][s], pc[c], Num(c))
          /\ now => ~Has(toServer'[c][s], pc[c], Num(c))
      BY <2>1, <2>3, <1>1, <1>2, ChannelTypes, AtMostOneTail DEF OneAtMost
    <3>2. now => ~Has(toClient[c][s], pc[c], Num(c))
      BY <2>1, <2>3, <1>5 DEF OneAtMost
    <3>3. AtMostOne(toClient'[c][s], pc[c], Num(c))
      BY <2>1, <2>3, <1>1, <3>2, ChannelTypes, AtMostOneAppend DEF OneAtMost
    <3>4. ~(Has(toServer'[c][s], pc[c], Num(c)) /\ Has(toClient'[c][s], pc[c], Num(c)))
      BY <2>1, <2>3, <1>5, <3>1, <3>2 DEF OneAtMost
    <3> QED
      BY <2>3, <1>3, <3>1, <3>3, <3>4 DEF OneAtMost, Num
  <2> QED
    BY <2>2, <2>3
<1>9. ASSUME NEW d \in alive, pc[d] # "idle" PROVE CountsAlong(d)
  <2>1. d \in Clients
    BY DEF TypeOK
  <2>2. Answered(d)' = {r \in Servers : /\ ~Has(toServer'[d][r], pc[d], Num(d))
                                        /\ ~Has(toClient'[d][r], pc[d], Num(d))}
    BY <1>3, <2>1 DEF Answered, Counts, Has, At, Num
  <2>3. Answered(d)' = Answered(d)
    BY <1>6, <2>1, <2>2, AnsweredServers DEF OnTheWay
  <2> QED
    BY <2>3, <1>3, <1>9, SameCount
<1> QED
  BY <1>3, <1>7, <1>8, <1>9 DEF OneMessage

\* A reception takes the first message of one channel.
LEMMA ReceiveTakes ==
    ASSUME TypeOK, NEW c \in Clients, NEW s \in Servers, Receive(c, s)
    PROVE  /\ \A d \in Clients, r \in Servers : <<d, r>> # <<c, s>> =>
                toClient'[d][r] = toClient[d][r]
           /\ \A phase, num :
                LET now == /\ Head(toClient[c][s]).phase = phase
                           /\ Head(toClient[c][s]).num = num
                IN  /\ Has(toClient[c][s], phase, num)
                          <=> Has(toClient'[c][s], phase, num) \/ now
                    /\ AtMostOne(toClient[c][s], phase, num)
                          => /\ AtMostOne(toClient'[c][s], phase, num)
                             /\ now => ~Has(toClient'[c][s], phase, num)
<1>1. /\ toClient[c][s] # <<>>
      /\ toClient' = [toClient EXCEPT ![c][s] = Tail(@)]
  BY DEF Receive
<1>2. toClient'[c][s] = Tail(toClient[c][s])
  BY <1>1 DEF TypeOK
<1>3. \A d \in Clients, r \in Servers : <<d, r>> # <<c, s>> =>
         toClient'[d][r] = toClient[d][r]
  BY <1>1 DEF TypeOK
<1>4. toClient[c][s] \in Seq(Answer)
  BY ChannelTypes
<1>5. ASSUME NEW phase, NEW num
      PROVE  /\ Has(toClient[c][s], phase, num)
                   <=> \/ Has(toClient'[c][s], phase, num)
                       \/ /\ Head(toClient[c][s]).phase = phase
                          /\ Head(toClient[c][s]).num = num
             /\ AtMostOne(toClient[c][s], phase, num)
                   => /\ AtMostOne(toClient'[c][s], phase, num)
                      /\ Head(toClient[c][s]).phase = phase /\ Head(toClient[c][s]).num = num
                           => ~Has(toClient'[c][s], phase, num)
  BY <1>1, <1>2, <1>4, HasTail, AtMostOneTail
<1> QED
  BY <1>3, <1>5

\* A reply that is thrown away, or counted without ending the phase.
LEMMA MessagesSamePhase ==
    ASSUME TypeOK, OneMessage, NEW c \in Clients, NEW s \in Servers,
           OldMessage(c, s) \/ CountGet(c, s) \/ CountAck(c, s)
    PROVE  OneMessage' /\ \A d \in alive' : pc'[d] # "idle" => CountsAlong(d)
<1> DEFINE now == Head(toClient[c][s]).phase = pc[c] /\ Head(toClient[c][s]).num = Num(c)
<1>1. /\ Receive(c, s)
      /\ toServer' = toServer /\ pc' = pc /\ call' = call /\ alive' = alive
      /\ c \in alive /\ pc[c] # "idle"
  BY DEF OldMessage, CountGet, CountAck, Receive
<1>2. /\ responses' = [responses EXCEPT ![c] = IF now THEN @ + 1 ELSE @]
      /\ responses \in [Clients -> Int]
  <2>1. responses \in [Clients -> Int]
    BY MajorityOfServers DEF TypeOK
  <2>2. CASE OldMessage(c, s)
    BY <2>1, <2>2 DEF OldMessage, Counts
  <2>3. CASE CountGet(c, s)
    BY <2>1, <2>3 DEF CountGet, Counts
  <2>4. CASE CountAck(c, s)
    BY <2>1, <2>4 DEF CountAck, Counts
  <2> QED
    BY <2>1, <2>2, <2>3, <2>4
<1>3. \A d \in Clients, r \in Servers : \A phase, num :
         /\ OnTheWay(d, r, phase, num)' => OnTheWay(d, r, phase, num)
         /\ <<d, r>> # <<c, s>> /\ OnTheWay(d, r, phase, num) => OnTheWay(d, r, phase, num)'
  BY <1>1, ReceiveTakes DEF OnTheWay
<1>4. NoneOfLaterCalls' /\ NoneOfSecondPhase'
  BY <1>1, <1>3, NoneKept DEF OneMessage
<1>5. OneAtMost(c, s)
  BY <1>1 DEF OneMessage, OneOfThisPhase
<1>6. /\ AtMostOne(toClient'[c][s], pc[c], Num(c))
      /\ Has(toClient'[c][s], pc[c], Num(c)) => Has(toClient[c][s], pc[c], Num(c))
      /\ now => /\ Has(toClient[c][s], pc[c], Num(c))
                /\ ~Has(toClient'[c][s], pc[c], Num(c))
                /\ ~Has(toServer[c][s], pc[c], Num(c))
      /\ ~now => (Has(toClient'[c][s], pc[c], Num(c)) <=> Has(toClient[c][s], pc[c], Num(c)))
  BY <1>1, <1>5, ReceiveTakes DEF OneAtMost
<1>7. OneOfThisPhase'
  <2> SUFFICES ASSUME NEW d \in alive, NEW r \in Servers, pc[d] # "idle"
               PROVE  OneAtMost(d, r)'
    BY <1>1 DEF OneOfThisPhase
  <2>1. OneAtMost(d, r) /\ d \in Clients
    BY DEF OneMessage, OneOfThisPhase, TypeOK
  <2>2. CASE <<d, r>> # <<c, s>>
    BY <2>1, <2>2, <1>1, ReceiveTakes DEF OneAtMost, Num
  <2>3. CASE d = c /\ r = s
    BY <2>3, <1>1, <1>5, <1>6 DEF OneAtMost, Num
  <2> QED
    BY <2>2, <2>3
<1>8. ASSUME NEW d \in alive, pc[d] # "idle" PROVE CountsAlong(d)
  <2>1. d \in Clients /\ responses[d] \in Int
    BY <1>2 DEF TypeOK
  <2>2. Answered(d)' = {r \in Servers : /\ ~Has(toServer[d][r], pc[d], Num(d))
                                        /\ ~Has(toClient'[d][r], pc[d], Num(d))}
    BY <1>1, <2>1 DEF Answered, Counts, Has, At, Num
  <2>3. CASE d # c
    <3>1. Answered(d)' = Answered(d)
      BY <2>1, <2>2, <2>3, <1>1, AnsweredServers, ReceiveTakes DEF OnTheWay
    <3> QED
      BY <2>1, <2>3, <3>1, <1>2, <1>8, SameCount
  <2>4. CASE d = c /\ ~now
    <3>1. Answered(d)' = Answered(d)
      BY <2>1, <2>2, <2>4, <1>1, <1>6, AnsweredServers, ReceiveTakes DEF OnTheWay
    <3> QED
      BY <2>1, <2>4, <3>1, <1>2, <1>8, SameCount
  <2>5. CASE d = c /\ now
    <3>1. Answered(d)' = Answered(d) \cup {s} /\ s \notin Answered(d)
      BY <2>1, <2>2, <2>5, <1>1, <1>6, AnsweredServers, ReceiveTakes DEF OnTheWay
    <3>2. Cardinality(Answered(d) \cup {s}) = Cardinality(Answered(d)) + 1
      BY <3>1, <2>1, AnsweredFinite, FS_AddElement
    <3>3. responses'[d] = responses[d] + 1
      BY <2>1, <2>5, <1>2
    <3> QED
      BY <3>1, <3>2, <3>3, <1>8 DEF CountsAlong
  <2> QED
    BY <2>3, <2>4, <2>5
<1> QED
  BY <1>1, <1>4, <1>7, <1>8 DEF OneMessage

\* Nothing changes for a client that the step is not of.
LEMMA SameForOthers ==
    ASSUME TypeOK, OneMessage, NEW d \in alive, pc[d] # "idle",
           pc'[d] = pc[d], call'[d] = call[d], responses'[d] = responses[d],
           \A r \in Servers : /\ toServer'[d][r] = toServer[d][r]
                              /\ toClient'[d][r] = toClient[d][r]
    PROVE  /\ \A r \in Servers : OneAtMost(d, r)'
           /\ CountsAlong(d)
<1>1. \A r \in Servers : OneAtMost(d, r)
  BY DEF OneMessage, OneOfThisPhase
<1>2. Num(d)' = Num(d)
  BY DEF Num
<1>3. \A r \in Servers : OneAtMost(d, r)'
  BY <1>1, <1>2 DEF OneAtMost
<1>4. Answered(d)' = {r \in Servers :
         /\ \A i \in DOMAIN toServer[d][r] : ~Counts(d, toServer[d][r][i])
         /\ \A i \in DOMAIN toClient[d][r] : ~Counts(d, toClient[d][r][i])}
  BY <1>2 DEF Answered, Counts
<1>5. Answered(d)' = Answered(d)
  BY <1>4 DEF Answered
<1> QED
  BY <1>3, <1>5, SameCount

\* The last acknowledgement, after which the client is in no phase.
LEMMA MessagesReturn ==
    ASSUME TypeOK, OneMessage, NEW c \in Clients, NEW s \in Servers, Return(c, s)
    PROVE  OneMessage' /\ \A d \in alive' : pc'[d] # "idle" => CountsAlong(d)
<1>1. /\ Receive(c, s)
      /\ toServer' = toServer /\ call' = call /\ alive' = alive
      /\ pc' = [pc EXCEPT ![c] = "idle"] /\ responses' = [responses EXCEPT ![c] = 0]
  BY DEF Return, Receive
<1>2. \A d \in Clients, r \in Servers : \A phase, num :
         OnTheWay(d, r, phase, num)' => OnTheWay(d, r, phase, num)
  BY <1>1, ReceiveTakes DEF OnTheWay
<1>3. \A d \in Clients : pc'[d] \in GetPhases => pc[d] \in GetPhases
  BY <1>1 DEF TypeOK
<1>4. NoneOfLaterCalls' /\ NoneOfSecondPhase'
  BY <1>1, <1>2, <1>3, NoneKept DEF OneMessage
<1>5. ASSUME NEW d \in alive, pc'[d] # "idle"
      PROVE  /\ \A r \in Servers : OneAtMost(d, r)'
             /\ CountsAlong(d)
  <2>1. d \in Clients /\ d # c /\ pc'[d] = pc[d] /\ responses'[d] = responses[d]
    BY <1>1, <1>5 DEF TypeOK
  <2>2. \A r \in Servers : toClient'[d][r] = toClient[d][r]
    BY <1>1, <2>1, ReceiveTakes
  <2> QED
    BY <1>1, <1>5, <2>1, <2>2, SameForOthers
<1> QED
  BY <1>1, <1>4, <1>5 DEF OneMessage, OneOfThisPhase

\* The state of the messages right after a client has begun a phase.
LEMMA NewPhase ==
    ASSUME TypeOK, NEW c \in Clients, NEW w \in GetRequest \cup WriteRequest,
           toServer' = [toServer EXCEPT ![c] = [s \in Servers |-> Append(toServer[c][s], w)]],
           pc'[c] = w.phase, Num(c)' = w.num, responses'[c] = 0,
           \A s \in Servers : /\ ~Has(toServer[c][s], w.phase, w.num)
                              /\ ~Has(toClient'[c][s], w.phase, w.num)
    PROVE  /\ \A s \in Servers : OneAtMost(c, s)'
           /\ CountsAlong(c)
<1>1. \A s \in Servers : toServer'[c][s] = Append(toServer[c][s], w)
  BY DEF TypeOK
<1>2. \A s \in Servers : /\ Has(toServer'[c][s], w.phase, w.num)
                         /\ AtMostOne(toServer'[c][s], w.phase, w.num)
  <2> TAKE s \in Servers
  <2>1. toServer[c][s] \in Seq(GetRequest \cup WriteRequest)
    BY ChannelTypes
  <2>2. ~Has(toServer[c][s], w.phase, w.num)
    OBVIOUS
  <2>3. AtMostOne(toServer[c][s], w.phase, w.num)
    BY <2>2 DEF AtMostOne, Has
  <2> QED
    BY <1>1, <2>1, <2>2, <2>3, HasAppend, AtMostOneAppend
<1>3. \A s \in Servers : AtMostOne(toClient'[c][s], w.phase, w.num)
  BY DEF AtMostOne, Has
<1>4. Answered(c)' = {}
  BY <1>2, ZenonT(60) DEF Answered, Counts, Has, At
<1> QED
  BY <1>2, <1>3, <1>4, FS_EmptySet DEF OneAtMost, CountsAlong

LEMMA MessagesBegin ==
    ASSUME FreshNums, TypeOK, OneMessage, NEW c \in Clients, Begin(c)
    PROVE  OneMessage' /\ \A d \in alive' : pc'[d] # "idle" => CountsAlong(d)
<1> DEFINE next  == Script[c][call[c] + 1]
           phase == IF next.kind = "read" THEN GET_TAG_VALUE ELSE GET_TAG
           w     == Message(phase, next.num, NoTag, InitVal)
<1>1. call[c] \in Nat /\ call[c] + 1 <= Len(Script[c]) /\ Len(Script[c]) \in Nat
  <2>1. Len(Script[c]) \in Nat
    BY CallsAssumption
  <2> QED
    BY <2>1 DEF TypeOK, Begin
<1>2. next \in [kind : Kinds, num : Nat]
  BY <1>1, CallType
<1>3. w \in GetRequest /\ w.phase = phase /\ w.num = next.num /\ phase \in GetPhases
  BY <1>2 DEF GetRequest, Message
<1>4. toServer' = [toServer EXCEPT ![c] = [s \in Servers |-> Append(toServer[c][s], w)]]
  BY DEF Begin, Multicast, TypeOK
<1>5. /\ toClient' = toClient /\ alive' = alive
      /\ pc' = [pc EXCEPT ![c] = phase] /\ responses' = [responses EXCEPT ![c] = 0]
      /\ call' = [call EXCEPT ![c] = @ + 1]
  BY DEF Begin
<1>6. pc'[c] = phase /\ responses'[c] = 0 /\ call'[c] = call[c] + 1 /\ Num(c)' = next.num
  BY <1>5 DEF TypeOK, Num
<1>7. \A d \in Clients, r \in Servers : d # c => toServer'[d][r] = toServer[d][r]
  BY <1>4 DEF TypeOK
<1>8. \A s \in Servers : \A ph, num :
         OnTheWay(c, s, ph, num)' <=> OnTheWay(c, s, ph, num) \/ (ph = phase /\ num = next.num)
  <2> TAKE s \in Servers
  <2> TAKE ph, num
  <2>1. toServer'[c][s] = Append(toServer[c][s], w)
    BY <1>4 DEF TypeOK
  <2>2. toServer[c][s] \in Seq(GetRequest \cup WriteRequest)
    BY ChannelTypes
  <2> QED
    BY <2>1, <2>2, <1>3, <1>5, HasAppend DEF OnTheWay
<1>9. \A s \in Servers, ph \in Phases : \A k \in call[c] + 1 .. Len(Script[c]) :
         ~OnTheWay(c, s, ph, Script[c][k].num)
  BY DEF OneMessage, NoneOfLaterCalls
<1>10. \A s \in Servers, ph \in Phases : ~OnTheWay(c, s, ph, next.num)
  BY <1>1, <1>9
<1>11. NoneOfLaterCalls'
  <2> SUFFICES ASSUME NEW d \in Clients, NEW s \in Servers, NEW ph \in Phases,
                      NEW k \in call'[d] + 1 .. Len(Script[d])
               PROVE  ~OnTheWay(d, s, ph, Script[d][k].num)'
    BY DEF NoneOfLaterCalls
  <2>1. CASE d # c
    <3>1. ~OnTheWay(d, s, ph, Script[d][k].num)
      BY <2>1, <1>5 DEF OneMessage, NoneOfLaterCalls, TypeOK
    <3> QED
      BY <2>1, <3>1, <1>5, <1>7 DEF OnTheWay
  <2>2. CASE d = c
    <3>1. k \in call[c] + 1 .. Len(Script[c]) /\ k # call[c] + 1
      BY <2>2, <1>1, <1>6
    <3>2. Script[c][k].num # next.num
      BY <3>1, <1>1 DEF FreshNums
    <3>3. ~OnTheWay(c, s, ph, Script[c][k].num)
      BY <3>1, <1>9
    <3> QED
      BY <2>2, <3>2, <3>3, <1>8
  <2> QED
    BY <2>1, <2>2
<1>12. NoneOfSecondPhase'
  <2> SUFFICES ASSUME NEW d \in Clients, NEW s \in Servers, pc'[d] \in GetPhases
               PROVE  ~OnTheWay(d, s, WRITE_VALUE, Num(d))'
    BY DEF NoneOfSecondPhase
  <2>1. CASE d # c
    <3>1. pc[d] \in GetPhases /\ call'[d] = call[d]
      BY <2>1, <1>5 DEF TypeOK
    <3>2. ~OnTheWay(d, s, WRITE_VALUE, Num(d))
      BY <3>1 DEF OneMessage, NoneOfSecondPhase
    <3> QED
      BY <2>1, <3>1, <3>2, <1>5, <1>7 DEF OnTheWay, Num
  <2>2. CASE d = c
    <3>1. /\ ~Has(toServer'[c][s], WRITE_VALUE, next.num)
          /\ ~Has(toClient'[c][s], WRITE_VALUE, next.num)
      <4>1. PICK num : num = next.num
        OBVIOUS
      <4>2. ~OnTheWay(c, s, WRITE_VALUE, num) /\ WRITE_VALUE # phase
        BY <1>3, <1>10, <4>1
      <4>3. ~OnTheWay(c, s, WRITE_VALUE, num)'
        BY <1>8, <4>2
      <4> QED
        BY <4>1, <4>3 DEF OnTheWay
    <3>2. Num(d)' = next.num
      BY <2>2, <1>6
    <3> HIDE DEF next
    <3>3. /\ ~Has(toServer'[d][s], WRITE_VALUE, Num(d)')
          /\ ~Has(toClient'[d][s], WRITE_VALUE, Num(d)')
      BY <2>2, <3>1, <3>2, ZenonT(60)
    <3> QED
      BY <3>3 DEF OnTheWay
  <2> QED
    BY <2>1, <2>2
<1>13. ASSUME NEW d \in alive, pc'[d] # "idle"
       PROVE  /\ \A r \in Servers : OneAtMost(d, r)'
              /\ CountsAlong(d)
  <2>1. d \in Clients
    BY DEF TypeOK
  <2>2. CASE d # c
    <3>1. pc'[d] = pc[d] /\ call'[d] = call[d] /\ responses'[d] = responses[d]
      BY <2>1, <2>2, <1>5 DEF TypeOK
    <3> QED
      BY <2>1, <2>2, <3>1, <1>5, <1>7, <1>13, SameForOthers
  <2>3. CASE d = c
    <3>1. \A s \in Servers : /\ ~Has(toServer[c][s], w.phase, w.num)
                             /\ ~Has(toClient'[c][s], w.phase, w.num)
      BY <1>3, <1>5, <1>10 DEF OnTheWay
    <3> QED
      BY <2>3, <3>1, <1>3, <1>4, <1>6, NewPhase
  <2> QED
    BY <2>2, <2>3
<1> QED
  BY <1>5, <1>11, <1>12, <1>13 DEF OneMessage, OneOfThisPhase

LEMMA MessagesEndGet ==
    ASSUME FreshNums, TypeOK, OneMessage, NEW c \in Clients, NEW s \in Servers, EndGet(c, s)
    PROVE  OneMessage' /\ \A d \in alive' : pc'[d] # "idle" => CountsAlong(d)
<1> DEFINE m == Head(toClient[c][s])
           t == TagToWrite(c, NewMax(c, m).tag)
           w == Message(WRITE_VALUE, Num(c), t, NewMax(c, m).val)
<1>1. /\ Receive(c, s)
      /\ pc[c] \in GetPhases /\ alive' = alive /\ call' = call
      /\ pc' = [pc EXCEPT ![c] = WRITE_VALUE] /\ responses' = [responses EXCEPT ![c] = 0]
  BY DEF EndGet, Receive
<1>2. /\ m \in Answer /\ call[c] > 0 /\ call[c] \in Nat
      /\ Script[c][call[c]] \in [kind : Kinds, num : Nat]
  BY <1>1, TypeReceive
<1>3. NewMax(c, m).tag \in Tag /\ NewMax(c, m).val \in Values
  BY <1>2, NewMaxType
<1>4. t \in Tag
  <2>1. NewMax(c, m).tag.z + 1 \in Nat /\ c \in Names
    BY <1>3, CallsAssumption DEF Tag
  <2> QED
    BY <1>3, <2>1 DEF TagToWrite, Tag
<1>5. w \in WriteRequest /\ w.phase = WRITE_VALUE /\ w.num = Num(c)
  BY <1>2, <1>3, <1>4 DEF WriteRequest, Message, Num
<1>6. toServer' = [toServer EXCEPT ![c] = [r \in Servers |-> Append(toServer[c][r], w)]]
  BY DEF EndGet, Multicast, TypeOK
<1>7. pc'[c] = WRITE_VALUE /\ responses'[c] = 0 /\ Num(c)' = Num(c)
  BY <1>1 DEF TypeOK, Num
<1>8. \A d \in Clients, r \in Servers : d # c =>
         toServer'[d][r] = toServer[d][r] /\ toClient'[d][r] = toClient[d][r]
  <2> TAKE d \in Clients, r \in Servers
  <2> HAVE d # c
  <2>1. toServer'[d][r] = toServer[d][r]
    BY <1>6 DEF TypeOK
  <2>2. toClient'[d][r] = toClient[d][r]
    BY <1>1, ReceiveTakes
  <2> QED
    BY <2>1, <2>2
<1>9. \A r \in Servers : \A ph, num :
         /\ Has(toClient'[c][r], ph, num) => Has(toClient[c][r], ph, num)
         /\ OnTheWay(c, r, ph, num)'
               => OnTheWay(c, r, ph, num) \/ (ph = WRITE_VALUE /\ num = Num(c))
  <2> TAKE r \in Servers
  <2> TAKE ph, num
  <2>1. toServer'[c][r] = Append(toServer[c][r], w)
    BY <1>6 DEF TypeOK
  <2>2. toServer[c][r] \in Seq(GetRequest \cup WriteRequest)
    BY ChannelTypes
  <2>3. Has(toServer'[c][r], ph, num)
          => Has(toServer[c][r], ph, num) \/ (ph = WRITE_VALUE /\ num = Num(c))
    BY <2>1, <2>2, <1>5, HasAppend
  <2>4. Has(toClient'[c][r], ph, num) => Has(toClient[c][r], ph, num)
    BY <1>1, ReceiveTakes
  <2> QED
    BY <2>3, <2>4 DEF OnTheWay
<1>10. NoneOfLaterCalls'
  <2> SUFFICES ASSUME NEW d \in Clients, NEW r \in Servers, NEW ph \in Phases,
                      NEW k \in call[d] + 1 .. Len(Script[d])
               PROVE  ~OnTheWay(d, r, ph, Script[d][k].num)'
    BY <1>1 DEF NoneOfLaterCalls
  <2>1. ~OnTheWay(d, r, ph, Script[d][k].num)
    BY DEF OneMessage, NoneOfLaterCalls
  <2>2. CASE d # c
    BY <2>1, <2>2, <1>8 DEF OnTheWay
  <2>3. CASE d = c
    <3>1. /\ k \in 1 .. Len(Script[c]) /\ call[c] \in 1 .. Len(Script[c]) /\ k # call[c]
      <4>1. call[c] <= Len(Script[c]) /\ Len(Script[c]) \in Nat
        BY CallsAssumption DEF TypeOK
      <4> QED
        BY <2>3, <4>1, <1>2
    <3>2. Script[c][k].num # Num(c)
      BY <3>1 DEF FreshNums, Num
    <3> QED
      BY <2>1, <2>3, <3>2, <1>9
  <2> QED
    BY <2>2, <2>3
<1>11. NoneOfSecondPhase'
  <2> SUFFICES ASSUME NEW d \in Clients, NEW r \in Servers, pc'[d] \in GetPhases
               PROVE  ~OnTheWay(d, r, WRITE_VALUE, Num(d))'
    BY DEF NoneOfSecondPhase
  <2>1. d # c /\ pc[d] \in GetPhases
    BY <1>1 DEF TypeOK
  <2>2. ~OnTheWay(d, r, WRITE_VALUE, Num(d))
    BY <2>1 DEF OneMessage, NoneOfSecondPhase
  <2> QED
    BY <2>1, <2>2, <1>1, <1>8 DEF OnTheWay, Num
<1>12. ASSUME NEW d \in alive, pc'[d] # "idle"
       PROVE  /\ \A r \in Servers : OneAtMost(d, r)'
              /\ CountsAlong(d)
  <2>1. d \in Clients
    BY DEF TypeOK
  <2>2. CASE d # c
    <3>1. pc'[d] = pc[d] /\ call'[d] = call[d] /\ responses'[d] = responses[d]
      BY <2>1, <2>2, <1>1 DEF TypeOK
    <3> QED
      BY <2>1, <2>2, <3>1, <1>8, <1>12, SameForOthers
  <2>3. CASE d = c
    <3>1. \A r \in Servers : ~OnTheWay(c, r, WRITE_VALUE, Num(c))
      BY <1>1 DEF OneMessage, NoneOfSecondPhase
    <3>2. \A r \in Servers : /\ ~Has(toServer[c][r], w.phase, w.num)
                             /\ ~Has(toClient'[c][r], w.phase, w.num)
      BY <3>1, <1>5, <1>9 DEF OnTheWay
    <3> QED
      BY <2>3, <3>2, <1>5, <1>6, <1>7, NewPhase
  <2> QED
    BY <2>2, <2>3
<1> QED
  BY <1>1, <1>10, <1>11, <1>12 DEF OneMessage, OneOfThisPhase

LEMMA MessagesCrash ==
    ASSUME TypeOK, OneMessage, NEW c \in Clients, Crash(c)
    PROVE  OneMessage' /\ \A d \in alive' : pc'[d] # "idle" => CountsAlong(d)
<1>1. PICK kept \in [Servers -> UNION {0 .. Len(toServer[c][s]) : s \in Servers}] :
         /\ \A s \in Servers : kept[s] <= Len(toServer[c][s])
         /\ toServer' = [toServer EXCEPT
                           ![c] = [s \in Servers |-> SubSeq(@[s], 1, kept[s])]]
  BY DEF Crash
<1>2. /\ toClient' = [toClient EXCEPT ![c] = [s \in Servers |-> <<>>]]
      /\ alive' = alive \ {c} /\ call' = call /\ pc' = pc /\ responses' = responses
  BY DEF Crash
<1>3. \A d \in Clients, r \in Servers : d # c =>
         toServer'[d][r] = toServer[d][r] /\ toClient'[d][r] = toClient[d][r]
  BY <1>1, <1>2 DEF TypeOK
<1>4. \A r \in Servers : kept[r] \in 0 .. Len(toServer[c][r])
  <2> TAKE r \in Servers
  <2>1. PICK q \in Servers : kept[r] \in 0 .. Len(toServer[c][q])
    BY <1>1
  <2>2. Len(toServer[c][q]) \in Nat /\ Len(toServer[c][r]) \in Nat
    BY ChannelTypes, SeqLength
  <2> QED
    BY <2>1, <2>2, <1>1
<1>5. \A r \in Servers : \A phase, num :
         OnTheWay(c, r, phase, num)' => OnTheWay(c, r, phase, num)
  <2> TAKE r \in Servers
  <2> TAKE phase, num
  <2>1. toServer'[c][r] = SubSeq(toServer[c][r], 1, kept[r]) /\ toClient'[c][r] = <<>>
    BY <1>1, <1>2 DEF TypeOK
  <2>2. toServer[c][r] \in Seq(GetRequest \cup WriteRequest)
    BY ChannelTypes
  <2>3. Has(toServer'[c][r], phase, num) => Has(toServer[c][r], phase, num)
    BY <2>1, <2>2, <1>4, HasPrefix
  <2> QED
    BY <2>1, <2>3, HasNone DEF OnTheWay
<1>6. \A d \in Clients, r \in Servers : \A phase, num :
         OnTheWay(d, r, phase, num)' => OnTheWay(d, r, phase, num)
  BY <1>3, <1>5 DEF OnTheWay
<1>7. NoneOfLaterCalls' /\ NoneOfSecondPhase'
  BY <1>2, <1>6, NoneKept DEF OneMessage
<1>8. ASSUME NEW d \in alive', pc'[d] # "idle"
      PROVE  /\ \A r \in Servers : OneAtMost(d, r)'
             /\ CountsAlong(d)
  <2>1. d \in alive /\ d \in Clients /\ d # c
    BY <1>2 DEF TypeOK
  <2> QED
    BY <2>1, <1>2, <1>3, <1>8, SameForOthers
<1> QED
  BY <1>7, <1>8 DEF OneMessage, OneOfThisPhase

LEMMA OneMessageNext ==
    ASSUME FreshNums, TypeOK, OneMessage, [Next]_vars
    PROVE  OneMessage' /\ \A d \in alive' : pc'[d] # "idle" => CountsAlong(d)
<1> DEFINE Goal == OneMessage' /\ \A d \in alive' : pc'[d] # "idle" => CountsAlong(d)
<1>1. ASSUME NEW c \in Clients, ClientStep(c) PROVE Goal
  BY <1>1, MessagesBegin, MessagesSamePhase, MessagesEndGet, MessagesReturn DEF ClientStep
<1>2. ASSUME NEW c \in Clients, Crash(c) PROVE Goal
  BY <1>2, MessagesCrash
<1>3. ASSUME NEW c \in Clients, NEW s \in Servers, Serve(c, s) PROVE Goal
  BY <1>3, MessagesServe
<1>4. CASE UNCHANGED vars
  <2>1. /\ toServer' = toServer /\ toClient' = toClient /\ alive' = alive
        /\ call' = call /\ pc' = pc /\ responses' = responses
    BY <1>4 DEF vars
  <2>2. NoneOfLaterCalls' /\ NoneOfSecondPhase'
    BY <2>1 DEF OneMessage, NoneOfLaterCalls, NoneOfSecondPhase, OnTheWay, Num
  <2>3. \A d \in alive : pc[d] # "idle" => (\A r \in Servers : OneAtMost(d, r)') /\ CountsAlong(d)
    BY <2>1, SameForOthers
  <2>4. OneOfThisPhase'
    BY <2>1, <2>3 DEF OneOfThisPhase
  <2> QED
    BY <2>1, <2>2, <2>3, <2>4 DEF OneMessage
<1> QED
  BY <1>1, <1>2, <1>3, <1>4 DEF Next

LEMMA MessagesNext ==
    ASSUME FreshNums, TypeOK, Messages, [Next]_vars
    PROVE  Messages'
<1>1. OneMessage' /\ \A d \in alive' : pc'[d] # "idle" => CountsAlong(d)
  BY OneMessageNext DEF Messages
<1>2. \A d \in alive' : pc'[d] # "idle" => responses'[d] = Cardinality(Answered(d)')
  BY <1>1 DEF Messages, CountsServers, CountsAlong
<1> QED
  BY <1>1, <1>2 DEF Messages, CountsServers

(***************************************************************************)
(* Where no client uses an operation number twice, each server has at most *)
(* one message of the phase a client is in, and none of a later phase or   *)
(* call, in spite of the replies that earlier ones left in the socket and  *)
(* of processes killed while they were sending.                            *)
(***************************************************************************)
THEOREM OneMessageEach ==
    ASSUME FreshNums
    PROVE  Spec => []Messages
<1>1. Init => TypeOK /\ Messages
  BY TypeInit, MessagesInit
<1>2. TypeOK /\ Messages /\ [Next]_vars => TypeOK' /\ Messages'
  BY TypeNext, MessagesNext
<1> QED
  BY <1>1, <1>2, PTL DEF Spec

(***************************************************************************)
(* Hence each message that a phase counts comes from another server.       *)
(***************************************************************************)
THEOREM CountsAreServers ==
    ASSUME FreshNums
    PROVE  Spec => []CountsServers
<1>1. Messages => CountsServers
  BY DEF Messages
<1> QED
  BY <1>1, OneMessageEach, PTL

---------------------------------------------------------------------------
(* The comparisons of the code. *)

LEMMA CompareTags ==
    ASSUME NEW a \in AnyTag, NEW b \in AnyTag
    PROVE  /\ compare_tags(a, b) = -1 => Newer(b, a)
           /\ compare_tags(a, b) # -1 => Newer(a, b)
<1>1. a.z \in Int /\ b.z \in Int /\ a.id \in Names /\ b.id \in Names
  BY DEF AnyTag
<1>2. /\ StrCmp[a.id][b.id] \in Int /\ StrCmp[b.id][a.id] \in Int
      /\ StrCmp[a.id][b.id] < 0 <=> StrCmp[b.id][a.id] > 0
      /\ UnitStrCmp => StrCmp[a.id][b.id] \in {-1, 0, 1}
  BY <1>1, StrCmpOrder DEF UnitStrCmp
<1> QED
  BY <1>1, <1>2 DEF compare_tags, Newer, AtLeast

\* WRITE_VALUE never makes the object of a server older.
LEMMA OverwriteNewer ==
    ASSUME NEW old \in Object, NEW new \in Object
    PROVE  /\ Newer(Overwrite(old, new).tag, old.tag)
           /\ Newer(Overwrite(old, new).tag, new.tag)
<1>1. old.tag \in AnyTag /\ new.tag \in AnyTag
  BY TagsAreTags DEF Object
<1> QED
  BY <1>1, CompareTags, NewerReflexive DEF Overwrite

\* The running maximum is as new as what it was and as the reply.
LEMMA NewMaxNewer ==
    ASSUME TypeOK, NEW c \in Clients, NEW m \in Answer
    PROVE  /\ Newer(NewMax(c, m).tag, tag[c])
           /\ Newer(NewMax(c, m).tag, m.tag)
<1>1. tag[c] \in AnyTag /\ m.tag \in AnyTag
  BY TagsAreTags DEF TypeOK, Answer
<1>2. CASE pc[c] = GET_TAG_VALUE
  BY <1>1, <1>2, CompareTagPtrs, NewerReflexive DEF NewMax
<1>3. CASE pc[c] # GET_TAG_VALUE
  BY <1>1, <1>3, CompareTagPtrs, NewerReflexive DEF NewMax, MaxTagStep
<1> QED
  BY <1>2, <1>3

---------------------------------------------------------------------------
(* The tags in a channel that grows or shrinks. *)

LEMMA TagsInAppend ==
    ASSUME NEW S, NEW q \in Seq(S), NEW m \in S, NEW phase, NEW num
    PROVE  TagsIn(Append(q, m), phase, num)
             \subseteq TagsIn(q, phase, num)
                         \cup {t \in {m.tag} : m.phase = phase /\ m.num = num}
<1> DEFINE a == Append(q, m)
<1>1. /\ a \in Seq(S) /\ Len(a) = Len(q) + 1 /\ Len(q) \in Nat
      /\ \A i \in 1 .. Len(q) : a[i] = q[i]
      /\ a[Len(q) + 1] = m
  BY ChannelAppend
<1>2. DOMAIN a = 1 .. Len(q) + 1 /\ DOMAIN q = 1 .. Len(q)
  BY <1>1
<1> HIDE DEF a
<1> QED
  BY <1>1, <1>2 DEF TagsIn, At, a

LEMMA TagsInTail ==
    ASSUME NEW S, NEW q \in Seq(S), q # <<>>, NEW phase, NEW num
    PROVE  /\ TagsIn(Tail(q), phase, num) \subseteq TagsIn(q, phase, num)
           /\ Head(q).phase = phase /\ Head(q).num = num
                => Head(q).tag \in TagsIn(q, phase, num)
<1> DEFINE t == Tail(q)
<1>1. /\ t \in Seq(S) /\ Len(t) = Len(q) - 1 /\ Len(q) \in Nat /\ Len(q) > 0
      /\ \A i \in 1 .. Len(t) : t[i] = q[i + 1]
      /\ Head(q) = q[1]
  BY ChannelTail
<1>2. DOMAIN t = 1 .. Len(q) - 1 /\ DOMAIN q = 1 .. Len(q)
  BY <1>1
<1> HIDE DEF t
<1>3. \A i \in DOMAIN t : i + 1 \in DOMAIN q /\ q[i + 1] = t[i]
  BY <1>1, <1>2
<1>4. TagsIn(t, phase, num) \subseteq TagsIn(q, phase, num)
  BY <1>3 DEF TagsIn, At
<1>5. 1 \in DOMAIN q
  BY <1>1, <1>2
<1> QED
  BY <1>1, <1>4, <1>5 DEF TagsIn, At, t

LEMMA TagsInNone ==
    ASSUME NEW q, NEW phase, NEW num, ~Has(q, phase, num)
    PROVE  TagsIn(q, phase, num) = {}
BY DEF TagsIn, Has, At

---------------------------------------------------------------------------
(* What no step takes back. *)

\* The tags of the results, and of what is written, are tags.
LEMMA KnownTags ==
    ASSUME TypeOK
    PROVE  /\ \A x \in done : x.tag \in Tag /\ x.client \in Clients /\ x.call \in Nat
           /\ \A s \in Servers : Stored(s).tag \in Tag
           /\ \A c \in Clients : tag[c] \in AnyTag /\ (pc[c] = WRITE_VALUE => tag[c] \in Tag)
<1>1. \A x \in done : x.tag \in Tag /\ x.client \in Clients /\ x.call \in Nat
  BY DEF TypeOK, Result
<1>2. \A s \in Servers : Stored(s).tag \in Tag
  BY StoredType DEF Object
<1>3. \A c \in Clients : tag[c] \in AnyTag /\ (pc[c] = WRITE_VALUE => tag[c] \in Tag)
  BY TagsAreTags DEF TypeOK
<1> QED
  BY <1>1, <1>2, <1>3

\* What a handler leaves in its server, and what the handlers answer.
LEMMA ServeStores ==
    ASSUME TypeOK, NEW c \in Clients, NEW s \in Servers, Serve(c, s)
    PROVE  /\ \A r \in Servers : r # s => Stored(r)' = Stored(r)
           /\ Newer(Stored(s)'.tag, Stored(s).tag)
           /\ Head(toServer[c][s]).phase = WRITE_VALUE
                => Newer(Stored(s)'.tag, Head(toServer[c][s]).tag)
           /\ Head(toServer[c][s]).phase \in GetPhases /\ c \in alive
                => \E a \in Answer :
                      /\ a.phase = Head(toServer[c][s]).phase
                      /\ a.num = Head(toServer[c][s]).num
                      /\ a.tag = Stored(s).tag
                      /\ toClient'[c][s] = Append(toClient[c][s], a)
<1> DEFINE m == Head(toServer[c][s])
<1>1. /\ toServer[c][s] \in Seq(GetRequest \cup WriteRequest) /\ toServer[c][s] # <<>>
      /\ store \in [Servers -> Object \cup {NoObject}]
  BY ServeMoves, ChannelTypes DEF TypeOK
<1>2. m \in GetRequest \cup WriteRequest
  BY <1>1, ChannelTail
<1>3. Stored(s) \in Object /\ Stored(s).tag \in AnyTag
  BY StoredType, TagsAreTags DEF Object
<1>4. CASE ServeGetTag(c, s)
  <2>1. store' = [store EXCEPT ![s] = Stored(s)] /\ m.phase = GET_TAG
    BY <1>4 DEF ServeGetTag
  <2>2. \A r \in Servers : Stored(r)' = Stored(r)
    BY <1>1, <1>3, <2>1, InitTypes DEF Stored
  <2>3. Message(GET_TAG, m.num, Stored(s).tag, InitVal) \in Answer
    BY <1>2, <1>3, InitTypes DEF GetRequest, WriteRequest, Answer, Message, Object
  <2>4. c \in alive => toClient'[c][s]
                       = Append(toClient[c][s], Message(GET_TAG, m.num, Stored(s).tag, InitVal))
    BY <1>4 DEF ServeGetTag, Reply, TypeOK
  <2> QED
    BY <1>3, <2>1, <2>2, <2>3, <2>4, NewerReflexive DEF Message
<1>5. CASE ServeGetTagValue(c, s)
  <2>1. store' = [store EXCEPT ![s] = Stored(s)] /\ m.phase = GET_TAG_VALUE
    BY <1>5 DEF ServeGetTagValue
  <2>2. \A r \in Servers : Stored(r)' = Stored(r)
    BY <1>1, <1>3, <2>1, InitTypes DEF Stored
  <2> DEFINE a == Message(GET_TAG_VALUE, m.num, Stored(s).tag, Stored(s).val)
  <2>3. a \in Answer
    BY <1>2, <1>3, InitTypes DEF GetRequest, WriteRequest, Answer, Message, Object
  <2>4. c \in alive => toClient'[c][s] = Append(toClient[c][s], a)
    BY <1>5 DEF ServeGetTagValue, Reply, TypeOK
  <2> QED
    BY <1>3, <2>1, <2>2, <2>3, <2>4, NewerReflexive DEF Message
<1>6. CASE ServeWriteValue(c, s)
  <2> DEFINE new == [tag |-> m.tag, val |-> m.val]
  <2>1. store' = [store EXCEPT ![s] = Overwrite(Stored(s), new)] /\ m.phase = WRITE_VALUE
    BY <1>6 DEF ServeWriteValue
  <2>2. new \in Object
    BY <1>2, <2>1 DEF GetRequest, WriteRequest, Object
  <2>3. Overwrite(Stored(s), new) \in Object
    BY <1>3, <2>2, OverwriteType
  <2>4. \A r \in Servers : Stored(r)' = IF r = s THEN Overwrite(Stored(s), new) ELSE Stored(r)
    BY <1>1, <2>1, <2>3, InitTypes DEF Stored
  <2>5. m.phase \notin GetPhases
    BY <2>1
  <2> QED
    BY <1>3, <2>2, <2>4, <2>5, OverwriteNewer
<1> QED
  BY <1>4, <1>5, <1>6 DEF Serve

\* No server ever goes back behind what it has stored.
LEMMA StoresGrow ==
    ASSUME TypeOK, [Next]_vars
    PROVE  \A r \in Servers : Newer(Stored(r)'.tag, Stored(r).tag)
<1>1. \A r \in Servers : Stored(r).tag \in AnyTag
  BY KnownTags, TagsAreTags
<1>2. ASSUME NEW c \in Clients, NEW s \in Servers, Serve(c, s)
      PROVE  \A r \in Servers : Newer(Stored(r)'.tag, Stored(r).tag)
  <2> TAKE r \in Servers
  <2>1. CASE r = s
    BY <1>2, <2>1, ServeStores
  <2>2. CASE r # s
    BY <1>1, <1>2, <2>2, ServeStores, NewerReflexive
  <2> QED
    BY <2>1, <2>2
<1>3. CASE store' = store
  BY <1>1, <1>3, NewerReflexive DEF Stored
<1>4. ASSUME NEW c \in Clients, ClientStep(c) \/ Crash(c) PROVE store' = store
  BY <1>4 DEF ClientStep, Begin, OldMessage, CountGet, EndGet, CountAck, Return, Receive,
              Crash
<1>5. UNCHANGED vars => store' = store
  BY DEF vars
<1> QED
  BY <1>2, <1>3, <1>4, <1>5 DEF Next

LEMMA StoredTags ==
    ASSUME TypeOK, TypeOK', NEW s \in Servers
    PROVE  Stored(s).tag \in Tag /\ Stored(s)'.tag \in Tag
<1>1. Stored(s) \in Object /\ Stored(s)' \in Object
  BY InitTypes DEF TypeOK, Stored
<1> QED
  BY <1>1 DEF Object

LEMMA HeldKept ==
    ASSUME TypeOK, TypeOK', [Next]_vars, NEW lost, NEW x, NEW t \in Tag, Held(x, t, lost)
    PROVE  Held(x, t, lost)'
<1>1. PICK Q \in SUBSET Servers :
         /\ Cardinality(Q) >= Majority(Cardinality(Servers))
         /\ \A s \in Q : Newer(Stored(s).tag, t) \/ x \in lost[s]
  BY DEF Held
<1>2. ASSUME NEW s \in Q, x \notin lost[s] PROVE Newer(Stored(s)'.tag, t)
  <2>1. s \in Servers /\ t \in AnyTag
    BY <1>1, TagsAreTags
  <2>2. Newer(Stored(s)'.tag, Stored(s).tag) /\ Newer(Stored(s).tag, t)
    BY <1>1, <1>2, <2>1, StoresGrow
  <2>3. Stored(s).tag \in AnyTag /\ Stored(s)'.tag \in AnyTag
    BY <2>1, StoredTags, TagsAreTags
  <2> QED
    BY <2>1, <2>2, <2>3, NewerTransitive
<1> QED
  BY <1>1, <1>2 DEF Held

\* Two majorities have a server in common that remembers what enough servers remember.
LEMMA MajoritiesMeet ==
    ASSUME NEW A \in SUBSET Servers, NEW Q \in SUBSET Servers, NEW x, NEW lost,
           Cardinality(A) >= Majority(Cardinality(Servers)),
           Cardinality(Q) >= Majority(Cardinality(Servers)),
           Remembered(x, lost)
    PROVE  \E r \in Q : r \in A /\ x \notin lost[r]
<1> DEFINE L == {s \in Servers : x \in lost[s]}
<1>1. IsFiniteSet(Servers) /\ IsFiniteSet(A) /\ IsFiniteSet(Q) /\ IsFiniteSet(L)
  BY CallsAssumption, FS_Subset
<1>2. IsFiniteSet(A \cap Q) /\ IsFiniteSet(A \cup Q)
  BY <1>1, FS_Intersection, FS_Union
<1>3. /\ Cardinality(A) \in Nat /\ Cardinality(Q) \in Nat /\ Cardinality(L) \in Nat
      /\ Cardinality(A \cap Q) \in Nat /\ Cardinality(A \cup Q) \in Nat
      /\ Cardinality(Servers) \in Nat
  BY <1>1, <1>2, FS_CardinalityType
<1>4. Cardinality(A \cup Q) = Cardinality(A) + Cardinality(Q) - Cardinality(A \cap Q)
  BY <1>1, FS_Union
<1>5. Cardinality(A \cup Q) <= Cardinality(Servers)
  BY <1>1, FS_Subset
<1>6. Cardinality(L) < Cardinality(A \cap Q)
  BY <1>3, <1>4, <1>5, MajorityOfServers DEF Remembered, Common
<1>7. ~(A \cap Q \subseteq L)
  BY <1>1, <1>3, <1>6, FS_Subset
<1> QED
  BY <1>7

\* Where nothing is lost, all is remembered.
LEMMA NothingLostRemembered ==
    ASSUME NEW x
    PROVE  Remembered(x, NothingLost)
<1>1. {s \in Servers : x \in NothingLost[s]} = {}
  BY DEF NothingLost
<1>2. Common > 0
  BY ServersFinite, MajorityOfServers DEF Common
<1> QED
  BY <1>1, <1>2, FS_EmptySet DEF Remembered

\* The servers counted when the last reply of a phase, from s, is read.
LEMMA CompletesMajority ==
    ASSUME TypeOK, OneMessage, NEW c \in Clients, NEW s \in Servers, Receive(c, s),
           Counts(c, Head(toClient[c][s])),
           responses[c] <= Cardinality(Answered(c)),
           responses[c] + 1 >= Majority(Cardinality(Servers))
    PROVE  /\ Answered(c) \cup {s} \in SUBSET Servers
           /\ Cardinality(Answered(c) \cup {s}) >= Majority(Cardinality(Servers))
           /\ \A r \in Answered(c) \cup {s} : ~Has(toServer[c][r], pc[c], Num(c))
<1>1. c \in alive /\ pc[c] # "idle"
  BY DEF Receive
<1>2. OneAtMost(c, s)
  BY <1>1 DEF OneMessage, OneOfThisPhase
<1>3. Has(toClient[c][s], pc[c], Num(c))
  BY ReceiveTakes DEF Counts
<1>4. ~Has(toServer[c][s], pc[c], Num(c))
  BY <1>2, <1>3 DEF OneAtMost
<1>5. s \notin Answered(c) /\ Answered(c) \subseteq Servers
  BY <1>3, AnsweredServers DEF OnTheWay
<1>6. \A r \in Answered(c) : ~Has(toServer[c][r], pc[c], Num(c))
  BY AnsweredServers DEF OnTheWay
<1>7. Cardinality(Answered(c) \cup {s}) = Cardinality(Answered(c)) + 1
  BY <1>5, AnsweredFinite, FS_AddElement
<1>8. responses[c] \in Int /\ Majority(Cardinality(Servers)) \in Int
  BY MajorityOfServers DEF TypeOK
<1>9. Cardinality(Answered(c) \cup {s}) >= Majority(Cardinality(Servers))
  BY <1>7, <1>8, AnsweredFinite
<1> QED
  BY <1>4, <1>5, <1>6, <1>9

\* Nothing a step does to another client, or to its own maximum, unsays a report.
LEMMA ReportedKept ==
    ASSUME TypeOK, TypeOK', [Next]_vars, NEW lost, NEW c \in Clients, NEW x, x.tag \in Tag,
           Reported(c, x, lost),
           pc'[c] = pc[c], call'[c] = call[c], Newer(tag'[c], tag[c]),
           \A s \in Servers : \A u \in TagsIn(toClient'[c][s], pc[c], Num(c)) :
              u \in TagsIn(toClient[c][s], pc[c], Num(c)) \/ u = Stored(s).tag,
           \A s \in Servers : s \in Answered(c)' =>
              \/ s \in Answered(c)
              \/ \E u \in TagsIn(toClient[c][s], pc[c], Num(c)) : 
                    u \in AnyTag /\ Newer(tag'[c], u)
    PROVE  Reported(c, x, lost)'
<1> DEFINE t == x.tag
<1>1. PICK Q \in SUBSET Servers :
         /\ Cardinality(Q) >= Majority(Cardinality(Servers))
         /\ \A s \in Q : Reports(c, s, t) \/ Id(x) \in lost[s]
  BY DEF Reported
<1>2. Num(c)' = Num(c)
  BY DEF Num
<1>3. ASSUME NEW s \in Q, Id(x) \notin lost[s] PROVE Reports(c, s, t)'
  <2>1. s \in Servers /\ t \in AnyTag
    BY TagsAreTags
  <2>2. /\ Newer(Stored(s).tag, t)
        /\ \A u \in TagsIn(toClient[c][s], pc[c], Num(c)) : Newer(u, t)
        /\ s \in Answered(c) => Newer(tag[c], t)
    BY <1>1, <1>3 DEF Reports
  <2>3. Stored(s).tag \in AnyTag /\ Stored(s)'.tag \in AnyTag
    BY <2>1, StoredTags, TagsAreTags
  <2>4. tag[c] \in AnyTag /\ tag'[c] \in AnyTag
    BY TagsAreTags DEF TypeOK
  <2>5. Newer(Stored(s)'.tag, t)
    <3>1. Newer(Stored(s)'.tag, Stored(s).tag)
      BY <2>1, StoresGrow
    <3> QED
      BY <2>1, <2>2, <2>3, <3>1, NewerTransitive
  <2>6. \A u \in TagsIn(toClient'[c][s], pc[c], Num(c)) : Newer(u, t)
    BY <2>1, <2>2
  <2>7. s \in Answered(c)' => Newer(tag'[c], t)
    <3>1. CASE s \in Answered(c)
      BY <2>1, <2>2, <2>4, <3>1, NewerTransitive
    <3>2. CASE \E u \in TagsIn(toClient[c][s], pc[c], Num(c)) :
                  u \in AnyTag /\ Newer(tag'[c], u)
      BY <2>1, <2>2, <2>4, <3>2, NewerTransitive
    <3> QED
      BY <2>1, <3>1, <3>2
  <2> QED
    BY <1>2, <2>5, <2>6, <2>7 DEF Reports
<1> QED
  BY <1>1, <1>3 DEF Reported

\* Nor does a step that neither sends for c nor changes what c writes unsay a write.
LEMMA WrittenKept ==
    ASSUME TypeOK, TypeOK', [Next]_vars, NEW lost, WrittenIsKept(lost),
           NEW c \in alive, NEW s \in Servers, pc[c] = WRITE_VALUE,
           call'[c] = call[c], tag'[c] = tag[c], toServer'[c][s] = toServer[c][s]
    PROVE  /\ TagsIn(toServer'[c][s], WRITE_VALUE, Num(c)') \subseteq {tag'[c]}
           /\ ~Has(toServer'[c][s], WRITE_VALUE, Num(c)') =>
                 Newer(Stored(s)'.tag, tag'[c]) \/ <<c, call'[c]>> \in lost[s]
<1>1. Num(c)' = Num(c)
  BY DEF Num
<1>2. /\ TagsIn(toServer[c][s], WRITE_VALUE, Num(c)) \subseteq {tag[c]}
      /\ ~Has(toServer[c][s], WRITE_VALUE, Num(c)) =>
            Newer(Stored(s).tag, tag[c]) \/ <<c, call[c]>> \in lost[s]
  BY DEF WrittenIsKept
<1>3. Newer(Stored(s)'.tag, Stored(s).tag)
  BY StoresGrow
<1>4. tag[c] \in AnyTag /\ Stored(s).tag \in AnyTag /\ Stored(s)'.tag \in AnyTag
  BY KnownTags, StoredTags, TagsAreTags DEF TypeOK
<1>5. Newer(Stored(s).tag, tag[c]) => Newer(Stored(s)'.tag, tag[c])
  BY <1>3, <1>4, NewerTransitive
<1> QED
  BY <1>1, <1>2, <1>5

---------------------------------------------------------------------------
(* The steps. *)

LEMMA FreshnessInit ==
    ASSUME NEW lost, Init
    PROVE  FreshnessBut(lost)
BY DEF Init, FreshnessBut, Recorded, DoneIsHeld, WrittenIsKept, GetsReport, ChosenExceeds

\* A step that neither begins nor ends a call or a phase.
LEMMA CallsKept ==
    ASSUME TypeOK, TypeOK', [Next]_vars, NEW lost, FreshnessBut(lost),
           done' = done, before' = before, call' = call, pc' = pc, alive' \subseteq alive,
           \A c \in alive : pc[c] = WRITE_VALUE => tag'[c] = tag[c]
    PROVE  Recorded' /\ DoneIsHeld(lost)' /\ ChosenExceeds(lost)'
<1>1. Recorded'
  BY DEF FreshnessBut, Recorded, Ids
<1>2. DoneIsHeld(lost)'
  <2> SUFFICES ASSUME NEW r \in done PROVE Held(Id(r), r.tag, lost)'
    BY DEF DoneIsHeld
  <2>1. Held(Id(r), r.tag, lost) /\ r.tag \in Tag
    BY KnownTags DEF FreshnessBut, DoneIsHeld
  <2> QED
    BY <2>1, HeldKept
<1>3. ChosenExceeds(lost)'
  BY DEF FreshnessBut, ChosenExceeds, Kind
<1> QED
  BY <1>1, <1>2, <1>3

LEMMA FreshnessServe ==
    ASSUME TypeOK, TypeOK', [Next]_vars, NEW lost, FreshnessBut(lost),
           NEW c \in Clients, NEW s \in Servers, Serve(c, s)
    PROVE  FreshnessBut(lost)'
<1> DEFINE m == Head(toServer[c][s])
<1>1. /\ alive' = alive /\ call' = call /\ pc' = pc /\ tag' = tag
      /\ before' = before /\ done' = done
  BY ServeMoves DEF clientVars
<1>2. Recorded' /\ DoneIsHeld(lost)' /\ ChosenExceeds(lost)'
  BY <1>1, CallsKept
<1>3. \A d \in Clients, r \in Servers : <<d, r>> # <<c, s>> =>
         toServer'[d][r] = toServer[d][r] /\ toClient'[d][r] = toClient[d][r]
  BY ServeMoves
<1>4. /\ toServer[c][s] # <<>> /\ toServer'[c][s] = Tail(toServer[c][s])
      /\ toServer[c][s] \in Seq(GetRequest \cup WriteRequest)
  BY ServeMoves, ChannelTypes
<1>5. WrittenIsKept(lost)'
  <2> SUFFICES ASSUME NEW d \in alive, NEW r \in Servers, pc[d] = WRITE_VALUE
               PROVE  /\ TagsIn(toServer'[d][r], WRITE_VALUE, Num(d)') \subseteq {tag'[d]}
                      /\ ~Has(toServer'[d][r], WRITE_VALUE, Num(d)')
                           => \/ Newer(Stored(r)'.tag, tag'[d])
                              \/ <<d, call'[d]>> \in lost[r]
    BY <1>1 DEF WrittenIsKept
  <2>1. d \in Clients
    BY DEF TypeOK
  <2>2. CASE <<d, r>> # <<c, s>>
    BY <2>1, <2>2, <1>1, <1>3, WrittenKept DEF FreshnessBut
  <2>3. CASE d = c /\ r = s
    <3>1. Num(c)' = Num(c) /\ tag'[c] = tag[c]
      BY <1>1 DEF Num
    <3>2. /\ TagsIn(toServer[c][s], WRITE_VALUE, Num(c)) \subseteq {tag[c]}
          /\ ~Has(toServer[c][s], WRITE_VALUE, Num(c)) =>
                Newer(Stored(s).tag, tag[c]) \/ <<c, call[c]>> \in lost[s]
      BY <2>3 DEF FreshnessBut, WrittenIsKept
    <3>3. TagsIn(toServer'[c][s], WRITE_VALUE, Num(c)) \subseteq {tag[c]}
      BY <3>2, <1>4, TagsInTail
    <3>4. CASE m.phase = WRITE_VALUE /\ m.num = Num(c)
      <4>1. m.tag = tag[c]
        BY <3>2, <3>4, <1>4, TagsInTail
      <4>2. Newer(Stored(s)'.tag, tag[c])
        BY <3>4, <4>1, ServeStores
      <4> QED
        BY <2>3, <3>1, <3>3, <4>2
    <3>5. CASE ~(m.phase = WRITE_VALUE /\ m.num = Num(c))
      <4>1. Has(toServer'[c][s], WRITE_VALUE, Num(c)) <=> Has(toServer[c][s], WRITE_VALUE, Num(c))
        BY <3>5, <1>4, HasTail
      <4>2. /\ Newer(Stored(s)'.tag, Stored(s).tag)
            /\ Stored(s)'.tag \in AnyTag /\ Stored(s).tag \in AnyTag /\ tag[c] \in AnyTag
        BY StoresGrow, StoredTags, KnownTags, TagsAreTags
      <4>3. Newer(Stored(s).tag, tag[c]) => Newer(Stored(s)'.tag, tag[c])
        BY <4>2, NewerTransitive
      <4> QED
        BY <2>3, <3>1, <3>2, <3>3, <4>1, <4>3, <1>1
    <3> QED
      BY <3>4, <3>5
  <2> QED
    BY <2>2, <2>3
<1>6. GetsReport(lost)'
  <2> SUFFICES ASSUME NEW d \in alive, NEW x \in done,
                      pc[d] \in GetPhases, Id(x) \in before[d]
               PROVE  Reported(d, x, lost)'
    BY <1>1 DEF GetsReport
  <2>1. d \in Clients /\ x.tag \in Tag /\ Reported(d, x, lost)
    BY KnownTags DEF TypeOK, FreshnessBut, GetsReport
  <2>2. Num(d)' = Num(d)
    BY <1>1 DEF Num
  <2>3. Newer(tag'[d], tag[d])
    BY <1>1, <2>1, KnownTags, NewerReflexive
  <2>4. \A r \in Servers : \A u \in TagsIn(toClient'[d][r], pc[d], Num(d)) :
           u \in TagsIn(toClient[d][r], pc[d], Num(d)) \/ u = Stored(r).tag
    <3> TAKE r \in Servers
    <3>1. CASE <<d, r>> # <<c, s>>
      BY <2>1, <3>1, <1>3
    <3>2. CASE d = c /\ r = s
      <4>1. toClient[c][s] \in Seq(Answer)
        BY ChannelTypes
      <4>2. PICK a \in Answer : /\ a.phase = m.phase /\ a.num = m.num
                                /\ toClient'[c][s] = Append(toClient[c][s], a)
        BY <3>2, ServeMoves
      <4>3. CASE m.phase \in GetPhases
        <5>1. PICK b \in Answer : /\ b.tag = Stored(s).tag
                                  /\ toClient'[c][s] = Append(toClient[c][s], b)
          BY <3>2, <4>3, ServeStores
        <5> QED
          BY <3>2, <4>1, <5>1, TagsInAppend
      <4>4. CASE m.phase \notin GetPhases
        <5>1. a.phase # pc[d]
          BY <4>2, <4>4
        <5> QED
          BY <3>2, <4>1, <4>2, <5>1, TagsInAppend
      <4> QED
        BY <4>3, <4>4
    <3> QED
      BY <3>1, <3>2
  <2>5. \A r \in Servers : r \in Answered(d)' => r \in Answered(d)
    <3>1. Answered(d)' = {r \in Servers : /\ ~Has(toServer'[d][r], pc[d], Num(d))
                                          /\ ~Has(toClient'[d][r], pc[d], Num(d))}
      BY <1>1, <2>2 DEF Answered, Counts, Has, At
    <3> QED
      BY <2>1, <3>1, ServeKeeps, AnsweredServers DEF OnTheWay
  <2> QED
    BY <1>1, <2>1, <2>3, <2>4, <2>5, ReportedKept
<1> QED
  BY <1>2, <1>5, <1>6 DEF FreshnessBut

\* A reply that is thrown away, or counted without ending the phase.
LEMMA FreshnessSamePhase ==
    ASSUME TypeOK, TypeOK', [Next]_vars, NEW lost, FreshnessBut(lost),
           NEW c \in Clients, NEW s \in Servers,
           OldMessage(c, s) \/ CountGet(c, s) \/ CountAck(c, s)
    PROVE  FreshnessBut(lost)'
<1> DEFINE m   == Head(toClient[c][s])
           now == m.phase = pc[c] /\ m.num = Num(c)
<1>1. /\ Receive(c, s)
      /\ toServer' = toServer /\ pc' = pc /\ call' = call /\ alive' = alive
      /\ before' = before /\ done' = done
  BY DEF OldMessage, CountGet, CountAck, Receive
<1>2. /\ \A d \in Clients : d # c \/ pc[d] \notin GetPhases => tag'[d] = tag[d]
      /\ now /\ pc[c] \in GetPhases => tag'[c] = NewMax(c, m).tag
      /\ ~now => tag'[c] = tag[c]
  <2>1. CASE OldMessage(c, s)
    BY <2>1 DEF OldMessage, Counts
  <2>2. CASE CountGet(c, s)
    BY <2>2 DEF CountGet, Counts, TypeOK
  <2>3. CASE CountAck(c, s)
    BY <2>3 DEF CountAck, Counts
  <2> QED
    BY <2>1, <2>2, <2>3
<1>3. /\ toClient[c][s] \in Seq(Answer) /\ toClient[c][s] # <<>>
      /\ toClient'[c][s] = Tail(toClient[c][s])
  <2>1. toClient[c][s] # <<>> /\ toClient' = [toClient EXCEPT ![c][s] = Tail(@)]
    BY <1>1 DEF Receive
  <2>2. toClient'[c][s] = Tail(toClient[c][s])
    BY <2>1 DEF TypeOK
  <2> QED
    BY <2>1, <2>2, ChannelTypes
<1>4. m \in Answer /\ m.tag \in AnyTag
  <2>1. m \in Answer
    BY <1>3, ChannelTail
  <2>2. m.tag \in Tag
    BY <2>1 DEF Answer
  <2> QED
    BY <2>1, <2>2, TagsAreTags
<1>5. Recorded' /\ DoneIsHeld(lost)' /\ ChosenExceeds(lost)'
  <2>1. \A d \in alive : pc[d] = WRITE_VALUE => tag'[d] = tag[d]
    BY <1>2 DEF TypeOK
  <2> QED
    BY <2>1, <1>1, CallsKept
<1>6. WrittenIsKept(lost)'
  <2> SUFFICES ASSUME NEW d \in alive, NEW r \in Servers, pc[d] = WRITE_VALUE
               PROVE  /\ TagsIn(toServer'[d][r], WRITE_VALUE, Num(d)') \subseteq {tag'[d]}
                      /\ ~Has(toServer'[d][r], WRITE_VALUE, Num(d)')
                           => \/ Newer(Stored(r)'.tag, tag'[d])
                              \/ <<d, call'[d]>> \in lost[r]
    BY <1>1 DEF WrittenIsKept
  <2>1. tag'[d] = tag[d]
    BY <1>2 DEF TypeOK
  <2> QED
    BY <2>1, <1>1, WrittenKept DEF FreshnessBut
<1>7. GetsReport(lost)'
  <2> SUFFICES ASSUME NEW d \in alive, NEW x \in done,
                      pc[d] \in GetPhases, Id(x) \in before[d]
               PROVE  Reported(d, x, lost)'
    BY <1>1 DEF GetsReport
  <2>1. d \in Clients /\ x.tag \in Tag /\ Reported(d, x, lost)
    BY KnownTags DEF TypeOK, FreshnessBut, GetsReport
  <2>2. Num(d)' = Num(d)
    BY <1>1 DEF Num
  <2>3. Newer(tag'[d], tag[d])
    <3>1. tag[d] \in AnyTag
      BY <2>1, KnownTags
    <3>2. CASE d = c /\ now
      BY <3>2, <1>2, <1>4, NewMaxNewer
    <3>3. CASE ~(d = c /\ now)
      BY <2>1, <3>1, <3>3, <1>2, NewerReflexive
    <3> QED
      BY <3>2, <3>3
  <2>4. \A r \in Servers : \A u \in TagsIn(toClient'[d][r], pc[d], Num(d)) :
           u \in TagsIn(toClient[d][r], pc[d], Num(d)) \/ u = Stored(r).tag
    <3> TAKE r \in Servers
    <3>1. CASE <<d, r>> # <<c, s>>
      BY <2>1, <3>1, <1>1, ReceiveTakes
    <3>2. CASE d = c /\ r = s
      BY <3>2, <1>3, TagsInTail
    <3> QED
      BY <3>1, <3>2
  <2>5. \A r \in Servers : r \in Answered(d)' =>
           \/ r \in Answered(d)
           \/ \E u \in TagsIn(toClient[d][r], pc[d], Num(d)) : 
                 u \in AnyTag /\ Newer(tag'[d], u)
    <3> TAKE r \in Servers
    <3> HAVE r \in Answered(d)'
    <3>1. ~Has(toServer[d][r], pc[d], Num(d)) /\ ~Has(toClient'[d][r], pc[d], Num(d))
      BY <1>1, <2>2 DEF Answered, Counts, Has, At
    <3>2. CASE <<d, r>> # <<c, s>>
      <4>1. toClient'[d][r] = toClient[d][r]
        BY <2>1, <3>2, <1>1, ReceiveTakes
      <4> QED
        BY <2>1, <3>1, <4>1, AnsweredServers DEF OnTheWay
    <3>3. CASE d = c /\ r = s /\ now
      <4>1. m.tag \in TagsIn(toClient[c][s], pc[c], Num(c))
        BY <3>3, <1>3, TagsInTail
      <4>2. Newer(tag'[c], m.tag)
        BY <3>3, <1>2, <1>4, NewMaxNewer
      <4> QED
        BY <3>3, <4>1, <4>2, <1>4
    <3>4. CASE d = c /\ r = s /\ ~now
      <4>1. ~Has(toClient[c][s], pc[c], Num(c))
        BY <3>1, <3>4, <1>1, ReceiveTakes
      <4> QED
        BY <3>1, <3>4, <4>1, AnsweredServers DEF OnTheWay
    <3> QED
      BY <3>2, <3>3, <3>4
  <2> QED
    BY <1>1, <2>1, <2>3, <2>4, <2>5, ReportedKept
<1> QED
  BY <1>5, <1>6, <1>7 DEF FreshnessBut

\* The servers counted, and the reports of them, of a client that the step is not of.
LEMMA SameReports ==
    ASSUME TypeOK, TypeOK', [Next]_vars, NEW lost, GetsReport(lost), NEW d \in alive, NEW x \in done,
           pc[d] \in GetPhases, Id(x) \in before[d],
           pc'[d] = pc[d], call'[d] = call[d], tag'[d] = tag[d],
           \A r \in Servers : /\ toServer'[d][r] = toServer[d][r]
                              /\ toClient'[d][r] = toClient[d][r]
    PROVE  Reported(d, x, lost)'
<1>1. d \in Clients /\ x.tag \in Tag /\ Reported(d, x, lost)
  BY KnownTags DEF TypeOK, GetsReport
<1>2. Newer(tag'[d], tag[d])
  BY <1>1, KnownTags, NewerReflexive
<1>3. Answered(d)' = {r \in Servers :
         /\ \A i \in DOMAIN toServer[d][r] : ~Counts(d, toServer[d][r][i])
         /\ \A i \in DOMAIN toClient[d][r] : ~Counts(d, toClient[d][r][i])}
  BY DEF Answered, Counts, Num
<1>4. Answered(d)' = Answered(d)
  BY <1>3 DEF Answered
<1> QED
  BY <1>1, <1>2, <1>4, ReportedKept

LEMMA FreshnessCrash ==
    ASSUME TypeOK, TypeOK', [Next]_vars, NEW lost, FreshnessBut(lost), NEW c \in Clients, Crash(c)
    PROVE  FreshnessBut(lost)'
<1>1. /\ pc' = pc /\ call' = call /\ tag' = tag /\ before' = before /\ done' = done
      /\ alive' = alive \ {c}
      /\ \A d \in Clients, r \in Servers : d # c =>
            toServer'[d][r] = toServer[d][r] /\ toClient'[d][r] = toClient[d][r]
  <2>1. \E q : toServer' = [toServer EXCEPT ![c] = q]
    BY DEF Crash
  <2>2. \E q : toClient' = [toClient EXCEPT ![c] = q]
    BY DEF Crash
  <2>3. \A d \in Clients, r \in Servers : d # c =>
           toServer'[d][r] = toServer[d][r] /\ toClient'[d][r] = toClient[d][r]
    BY <2>1, <2>2 DEF TypeOK
  <2> QED
    BY <2>3 DEF Crash
<1>2. Recorded' /\ DoneIsHeld(lost)' /\ ChosenExceeds(lost)'
  BY <1>1, CallsKept
<1>3. WrittenIsKept(lost)'
  <2> SUFFICES ASSUME NEW d \in alive, NEW r \in Servers, d # c, pc[d] = WRITE_VALUE
               PROVE  /\ TagsIn(toServer'[d][r], WRITE_VALUE, Num(d)') \subseteq {tag'[d]}
                      /\ ~Has(toServer'[d][r], WRITE_VALUE, Num(d)')
                           => \/ Newer(Stored(r)'.tag, tag'[d])
                              \/ <<d, call'[d]>> \in lost[r]
    BY <1>1 DEF WrittenIsKept
  <2>1. toServer'[d][r] = toServer[d][r]
    BY <1>1 DEF TypeOK
  <2> QED
    BY <2>1, <1>1, WrittenKept DEF FreshnessBut
<1>4. GetsReport(lost)'
  <2> SUFFICES ASSUME NEW d \in alive, NEW x \in done, d # c,
                      pc[d] \in GetPhases, Id(x) \in before[d]
               PROVE  Reported(d, x, lost)'
    BY <1>1 DEF GetsReport
  <2>1. d \in Clients
    BY DEF TypeOK
  <2> QED
    BY <2>1, <1>1, SameReports DEF FreshnessBut
<1> QED
  BY <1>2, <1>3, <1>4 DEF FreshnessBut

LEMMA FreshnessBegin ==
    ASSUME TypeOK, TypeOK', OneMessage, [Next]_vars, NEW lost, FreshnessBut(lost), NEW c \in Clients, Begin(c)
    PROVE  FreshnessBut(lost)'
<1> DEFINE next  == Script[c][call[c] + 1]
           phase == IF next.kind = "read" THEN GET_TAG_VALUE ELSE GET_TAG
           w     == Message(phase, next.num, NoTag, InitVal)
<1>1. call[c] \in Nat /\ call[c] + 1 <= Len(Script[c]) /\ Len(Script[c]) \in Nat
  <2>1. Len(Script[c]) \in Nat
    BY CallsAssumption
  <2> QED
    BY <2>1 DEF TypeOK, Begin
<1>2. next \in [kind : Kinds, num : Nat]
  BY <1>1, CallType
<1>3. w \in GetRequest /\ w.phase = phase /\ w.num = next.num /\ phase \in GetPhases
  BY <1>2 DEF GetRequest, Message
<1>4. toServer' = [toServer EXCEPT ![c] = [s \in Servers |-> Append(toServer[c][s], w)]]
  BY DEF Begin, Multicast, TypeOK
<1>5. /\ toClient' = toClient /\ alive' = alive /\ done' = done
      /\ pc' = [pc EXCEPT ![c] = phase] /\ tag' = [tag EXCEPT ![c] = NoTag]
      /\ call' = [call EXCEPT ![c] = @ + 1]
      /\ before' = [before EXCEPT ![c] = Ids]
  BY DEF Begin, Ids
<1>6. pc'[c] = phase /\ call'[c] = call[c] + 1 /\ Num(c)' = next.num
  BY <1>5 DEF TypeOK, Num
<1>7. ASSUME NEW d \in Clients, d # c
      PROVE  /\ pc'[d] = pc[d] /\ call'[d] = call[d] /\ tag'[d] = tag[d]
             /\ before'[d] = before[d]
             /\ \A r \in Servers : /\ toServer'[d][r] = toServer[d][r]
                                   /\ toClient'[d][r] = toClient[d][r]
  <2>1. \A r \in Servers : toServer'[d][r] = toServer[d][r]
    BY <1>4, <1>7 DEF TypeOK
  <2> QED
    BY <2>1, <1>5, <1>7 DEF TypeOK
<1>8. Recorded'
  <2>1. Ids' = Ids
    BY <1>5 DEF Ids
  <2>2. \A d \in Clients : before'[d] \subseteq Ids
    BY <1>5, <1>7 DEF FreshnessBut, Recorded, TypeOK
  <2>3. ASSUME NEW r \in done
        PROVE  /\ r.before \subseteq Ids
               /\ r.call <= call'[r.client]
               /\ r.call = call'[r.client] => pc'[r.client] = "idle"
    <3>1. /\ r.before \subseteq Ids /\ r.call <= call[r.client]
          /\ r.call = call[r.client] => pc[r.client] = "idle"
          /\ r.client \in Clients /\ r.call \in Nat
      BY KnownTags DEF FreshnessBut, Recorded
    <3>2. CASE r.client = c
      BY <3>1, <3>2, <1>1, <1>6
    <3>3. CASE r.client # c
      BY <3>1, <3>3, <1>7
    <3> QED
      BY <3>2, <3>3
  <2> QED
    BY <2>1, <2>2, <2>3, <1>5 DEF Recorded
<1>9. DoneIsHeld(lost)'
  <2> SUFFICES ASSUME NEW r \in done PROVE Held(Id(r), r.tag, lost)'
    BY <1>5 DEF DoneIsHeld
  <2>1. Held(Id(r), r.tag, lost) /\ r.tag \in Tag
    BY KnownTags DEF FreshnessBut, DoneIsHeld
  <2> QED
    BY <2>1, HeldKept
<1>10. WrittenIsKept(lost)'
  <2> SUFFICES ASSUME NEW d \in alive, NEW r \in Servers, pc'[d] = WRITE_VALUE
               PROVE  /\ TagsIn(toServer'[d][r], WRITE_VALUE, Num(d)') \subseteq {tag'[d]}
                      /\ ~Has(toServer'[d][r], WRITE_VALUE, Num(d)')
                           => \/ Newer(Stored(r)'.tag, tag'[d])
                              \/ <<d, call'[d]>> \in lost[r]
    BY <1>5 DEF WrittenIsKept
  <2>1. d \in Clients /\ d # c
    BY <1>3, <1>6 DEF TypeOK
  <2> QED
    BY <2>1, <1>7, WrittenKept DEF FreshnessBut
<1>11. GetsReport(lost)'
  <2> SUFFICES ASSUME NEW d \in alive, NEW x \in done,
                      pc'[d] \in GetPhases, Id(x) \in before'[d]
               PROVE  Reported(d, x, lost)'
    BY <1>5 DEF GetsReport
  <2>1. d \in Clients /\ x.tag \in Tag
    BY KnownTags DEF TypeOK
  <2>2. CASE d # c
    BY <2>1, <2>2, <1>7, SameReports DEF FreshnessBut
  <2>3. CASE d = c
    <3>1. Held(Id(x), x.tag, lost)'
      BY <1>5, <1>9 DEF DoneIsHeld
    <3>2. PICK Q \in SUBSET Servers :
             /\ Cardinality(Q) >= Majority(Cardinality(Servers))
             /\ \A s \in Q : Newer(Stored(s)'.tag, x.tag) \/ Id(x) \in lost[s]
      BY <3>1 DEF Held
    <3>3. \A s \in Servers : ~OnTheWay(c, s, phase, next.num)
      BY <1>1, <1>3 DEF OneMessage, NoneOfLaterCalls
    <3>4. \A s \in Servers : TagsIn(toClient'[c][s], phase, next.num) = {}
      BY <3>3, <1>5, TagsInNone DEF OnTheWay
    <3>5. \A s \in Servers : Has(toServer'[c][s], phase, next.num)
      <4> TAKE s \in Servers
      <4>1. toServer'[c][s] = Append(toServer[c][s], w)
        BY <1>4 DEF TypeOK
      <4> QED
        BY <4>1, <1>3, ChannelTypes, HasAppend
    <3>6. \A s \in Servers : s \notin Answered(c)'
      BY <3>5, <1>6 DEF Answered, Counts, Has, At
    <3>7. \A s \in Q : Reports(c, s, x.tag)' \/ Id(x) \in lost[s]
      BY <3>2, <3>4, <3>6, <1>6 DEF Reports
    <3> QED
      BY <2>3, <3>2, <3>7 DEF Reported
  <2> QED
    BY <2>2, <2>3
<1>12. ChosenExceeds(lost)'
  <2>1. ASSUME NEW d \in alive, NEW x \in done,
               pc'[d] = WRITE_VALUE, Id(x) \in before'[d], Remembered(Id(x), lost)
        PROVE  Exceeds(Kind(d)', tag'[d], x.tag)
    <3>1. d \in Clients /\ d # c
      BY <2>1, <1>3, <1>6 DEF TypeOK
    <3>2. Kind(d)' = Kind(d)
      BY <3>1, <1>7 DEF Kind
    <3> QED
      BY <2>1, <3>1, <3>2, <1>7 DEF FreshnessBut, ChosenExceeds
  <2> QED
    BY <2>1, <1>5 DEF FreshnessBut, ChosenExceeds
<1> QED
  BY <1>8, <1>9, <1>10, <1>11, <1>12 DEF FreshnessBut

LEMMA FreshnessEndGet ==
    ASSUME TypeOK, TypeOK', MessagesBut, [Next]_vars, NEW lost, FreshnessBut(lost),
           NEW c \in Clients, NEW s \in Servers, EndGet(c, s)
    PROVE  FreshnessBut(lost)'
<1> DEFINE m   == Head(toClient[c][s])
           new == NewMax(c, m)
           t   == TagToWrite(c, new.tag)
           w   == Message(WRITE_VALUE, Num(c), t, new.val)
<1>1. /\ Receive(c, s) /\ Counts(c, m) /\ c \in alive
      /\ responses[c] + 1 >= Majority(Cardinality(Servers))
      /\ pc[c] \in GetPhases /\ alive' = alive /\ call' = call /\ store' = store
      /\ before' = before /\ done' = done
      /\ pc' = [pc EXCEPT ![c] = WRITE_VALUE] /\ tag' = [tag EXCEPT ![c] = t]
  BY DEF EndGet, Receive
<1>2. /\ m \in Answer /\ Num(c) \in Nat
      /\ new.tag \in Tag /\ new.val \in Values
  BY <1>1, TypeReceive, NewMaxType DEF Num
<1>3. /\ t \in Tag
      /\ IF Kind(c) = "write" THEN t.z > new.tag.z ELSE t = new.tag
  <2>1. new.tag.z \in Nat /\ c \in Names
    BY <1>2, CallsAssumption DEF Tag
  <2> QED
    BY <1>2, <2>1 DEF TagToWrite, Tag
<1>4. w \in WriteRequest /\ w.phase = WRITE_VALUE /\ w.num = Num(c) /\ w.tag = t
  BY <1>2, <1>3 DEF WriteRequest, Message
<1>5. toServer' = [toServer EXCEPT ![c] = [r \in Servers |-> Append(toServer[c][r], w)]]
  BY DEF EndGet, Multicast, TypeOK
<1>6. pc'[c] = WRITE_VALUE /\ tag'[c] = t /\ Num(c)' = Num(c)
  BY <1>1 DEF TypeOK, Num
<1>7. ASSUME NEW d \in Clients, d # c
      PROVE  /\ pc'[d] = pc[d] /\ tag'[d] = tag[d]
             /\ \A r \in Servers : /\ toServer'[d][r] = toServer[d][r]
                                   /\ toClient'[d][r] = toClient[d][r]
  <2>1. \A r \in Servers : toServer'[d][r] = toServer[d][r]
    BY <1>5, <1>7 DEF TypeOK
  <2>2. \A r \in Servers : toClient'[d][r] = toClient[d][r]
    BY <1>1, <1>7, ReceiveTakes
  <2> QED
    BY <2>1, <2>2, <1>1, <1>7 DEF TypeOK
<1>8. Recorded'
  <2>1. \A d \in Clients : pc[d] = "idle" => pc'[d] = "idle"
    BY <1>1 DEF TypeOK
  <2>2. \A r \in done : r.client \in Clients
    BY KnownTags
  <2> QED
    BY <2>1, <2>2, <1>1 DEF FreshnessBut, Recorded, Ids
<1>9. DoneIsHeld(lost)'
  BY <1>1 DEF FreshnessBut, DoneIsHeld, Held, Stored
<1>10. WrittenIsKept(lost)'
  <2> SUFFICES ASSUME NEW d \in alive, NEW r \in Servers, pc'[d] = WRITE_VALUE
               PROVE  /\ TagsIn(toServer'[d][r], WRITE_VALUE, Num(d)') \subseteq {tag'[d]}
                      /\ ~Has(toServer'[d][r], WRITE_VALUE, Num(d)')
                           => \/ Newer(Stored(r)'.tag, tag'[d])
                              \/ <<d, call'[d]>> \in lost[r]
    BY <1>1 DEF WrittenIsKept
  <2>1. d \in Clients
    BY DEF TypeOK
  <2>2. CASE d # c
    BY <2>1, <2>2, <1>1, <1>7, WrittenKept, SMTT(30) DEF FreshnessBut
  <2>3. CASE d = c
    <3>1. toServer'[c][r] = Append(toServer[c][r], w)
      BY <1>5 DEF TypeOK
    <3>2. toServer[c][r] \in Seq(GetRequest \cup WriteRequest)
      BY ChannelTypes
    <3>3. ~Has(toServer[c][r], WRITE_VALUE, Num(c))
      BY <1>1 DEF MessagesBut, OneMessage, NoneOfSecondPhase, OnTheWay
    <3>4. TagsIn(toServer[c][r], WRITE_VALUE, Num(c)) = {}
      BY <3>3, TagsInNone
    <3>5. TagsIn(toServer'[c][r], WRITE_VALUE, Num(c)) \subseteq {t}
      <4> HIDE DEF w
      <4>1. w \in GetRequest \cup WriteRequest
        BY <1>4
      <4>2. TagsIn(Append(toServer[c][r], w), WRITE_VALUE, Num(c))
              \subseteq TagsIn(toServer[c][r], WRITE_VALUE, Num(c))
                          \cup {x \in {w.tag} : w.phase = WRITE_VALUE /\ w.num = Num(c)}
        BY <3>2, <4>1, TagsInAppend
      <4> QED
        BY <3>1, <3>4, <4>2, <1>4
    <3>6. Has(toServer'[c][r], WRITE_VALUE, Num(c))
      BY <3>1, <3>2, <1>4, HasAppend
    <3>7. Num(d)' = Num(c) /\ tag'[d] = t
      BY <2>3, <1>6
    <3> HIDE DEF t
    <3>8. TagsIn(toServer'[d][r], WRITE_VALUE, Num(d)') \subseteq {tag'[d]}
      BY <2>3, <3>5, <3>7, ZenonT(60)
    <3>9. Has(toServer'[d][r], WRITE_VALUE, Num(d)')
      BY <2>3, <3>6, <3>7, ZenonT(60)
    <3> QED
      BY <3>8, <3>9
  <2> QED
    BY <2>2, <2>3
<1>11. GetsReport(lost)'
  <2> SUFFICES ASSUME NEW d \in alive, NEW x \in done,
                      pc'[d] \in GetPhases, Id(x) \in before[d]
               PROVE  Reported(d, x, lost)'
    BY <1>1 DEF GetsReport
  <2>1. d \in Clients /\ d # c
    BY <1>6 DEF TypeOK
  <2> QED
    BY <2>1, <1>1, <1>7, SameReports DEF FreshnessBut
\* The heart: a majority kept the tag of x, and a majority was counted.
<1>12. ASSUME NEW x \in done, Id(x) \in before[c], Remembered(Id(x), lost)
       PROVE  Exceeds(Kind(c), t, x.tag)
  <2>1. Reported(c, x, lost) /\ x.tag \in AnyTag
    BY <1>1, <1>12, KnownTags, TagsAreTags DEF FreshnessBut, GetsReport
  <2>2. PICK Q \in SUBSET Servers : /\ Cardinality(Q) >= Majority(Cardinality(Servers))
                                    /\ \A r \in Q : Reports(c, r, x.tag) \/ Id(x) \in lost[r]
    BY <2>1 DEF Reported
  <2>3. /\ Answered(c) \cup {s} \in SUBSET Servers
        /\ Cardinality(Answered(c) \cup {s}) >= Majority(Cardinality(Servers))
    <3>1. responses[c] <= Cardinality(Answered(c))
      BY <1>1 DEF MessagesBut, CountsNoMore
    <3> QED
      BY <3>1, <1>1, CompletesMajority DEF MessagesBut
  <2>4. PICK r \in Q : r \in Answered(c) \cup {s} /\ Id(x) \notin lost[r]
    BY <2>2, <2>3, <1>12, MajoritiesMeet
  <2>5. tag[c] \in AnyTag /\ m.tag \in AnyTag /\ new.tag \in AnyTag
    BY <1>2, KnownTags, TagsAreTags DEF Answer
  <2>6. Newer(new.tag, x.tag)
    <3>1. CASE r \in Answered(c)
      <4>1. Newer(tag[c], x.tag)
        BY <2>2, <2>4, <3>1 DEF Reports
      <4>2. Newer(new.tag, tag[c])
        BY <1>2, NewMaxNewer
      <4> QED
        BY <2>1, <2>5, <4>1, <4>2, NewerTransitive
    <3>2. CASE r = s
      <4>1. toClient[c][s] \in Seq(Answer) /\ toClient[c][s] # <<>>
        BY <1>1, ChannelTypes DEF Receive
      <4>2. m.tag \in TagsIn(toClient[c][s], pc[c], Num(c))
        BY <1>1, <4>1, TagsInTail DEF Counts
      <4>3. Newer(m.tag, x.tag)
        BY <2>2, <2>4, <3>2, <4>2 DEF Reports
      <4>4. Newer(new.tag, m.tag)
        BY <1>2, NewMaxNewer
      <4> QED
        BY <2>1, <2>5, <4>3, <4>4, NewerTransitive
    <3> QED
      BY <2>4, <3>1, <3>2
  <2>7. new.tag.z >= x.tag.z
    BY <2>1, <2>5, <2>6, NewerCounter
  <2>8. t.z \in Int /\ new.tag.z \in Int /\ x.tag.z \in Int
    BY <1>3, <2>1, <2>5 DEF Tag, AnyTag
  <2> QED
    BY <1>3, <2>6, <2>7, <2>8 DEF Exceeds
<1>13. ChosenExceeds(lost)'
  <2>1. ASSUME NEW d \in alive, NEW x \in done, pc'[d] = WRITE_VALUE, Id(x) \in before[d], Remembered(Id(x), lost)
        PROVE  Exceeds(Kind(d)', tag'[d], x.tag)
    <3>1. Kind(d)' = Kind(d) /\ d \in Clients
      BY <1>1 DEF Kind, TypeOK
    <3>2. CASE d = c
      BY <2>1, <3>1, <3>2, <1>6, <1>12
    <3>3. CASE d # c
      BY <2>1, <3>1, <3>3, <1>7 DEF FreshnessBut, ChosenExceeds
    <3> QED
      BY <3>2, <3>3
  <2> QED
    BY <2>1, <1>1 DEF FreshnessBut, ChosenExceeds
<1> QED
  BY <1>8, <1>9, <1>10, <1>11, <1>13 DEF FreshnessBut

LEMMA FreshnessReturn ==
    ASSUME TypeOK, TypeOK', MessagesBut, [Next]_vars, NEW lost, FreshnessBut(lost),
           NEW c \in Clients, NEW s \in Servers, Return(c, s)
    PROVE  FreshnessBut(lost)'
<1> DEFINE m == Head(toClient[c][s])
           new == [client |-> c, call |-> call[c], kind |-> Kind(c),
                   tag |-> tag[c], val |-> val[c], before |-> before[c]]
<1>1. /\ Receive(c, s) /\ Counts(c, m) /\ c \in alive /\ pc[c] = WRITE_VALUE
      /\ responses[c] + 1 >= Majority(Cardinality(Servers))
      /\ alive' = alive /\ call' = call /\ store' = store /\ tag' = tag
      /\ before' = before /\ toServer' = toServer
      /\ pc' = [pc EXCEPT ![c] = "idle"] /\ done' = done \cup {new}
  BY DEF Return, Receive
<1>2. pc'[c] = "idle" /\ \A d \in Clients : d # c => pc'[d] = pc[d]
  BY <1>1 DEF TypeOK
<1>3. Id(new) = <<c, call[c]>>
  BY DEF Id
\* Nobody has seen this result yet.
<1>4. Id(new) \notin Ids
  <2> SUFFICES ASSUME NEW r \in done, Id(r) = <<c, call[c]>> PROVE FALSE
    BY <1>3 DEF Ids
  <2>1. r.client = c /\ r.call = call[c]
    BY DEF Id
  <2> QED
    BY <2>1, <1>1 DEF FreshnessBut, Recorded
<1>5. /\ \A d \in Clients : before[d] \subseteq Ids
      /\ \A r \in done : r.before \subseteq Ids
  BY DEF FreshnessBut, Recorded
<1>6. Recorded'
  <2>1. Ids \subseteq Ids'
    BY <1>1 DEF Ids
  <2>2. \A d \in Clients : before'[d] \subseteq Ids'
    BY <2>1, <1>1, <1>5
  <2>3. ASSUME NEW r \in done'
        PROVE  /\ r.before \subseteq Ids'
               /\ r.call <= call[r.client]
               /\ r.call = call[r.client] => pc'[r.client] = "idle"
    <3>1. CASE r = new
      <4>1. call[c] <= call[c]
        BY DEF TypeOK
      <4> QED
        BY <3>1, <4>1, <2>1, <1>2, <1>5
    <3>2. CASE r \in done
      <4>1. /\ r.before \subseteq Ids /\ r.call <= call[r.client]
            /\ r.call = call[r.client] => pc[r.client] = "idle"
            /\ r.client \in Clients
        BY <3>2, KnownTags DEF FreshnessBut, Recorded
      <4> QED
        BY <4>1, <2>1, <1>2
    <3> QED
      BY <2>3, <3>1, <3>2, <1>1
  <2> QED
    BY <2>2, <2>3, <1>1 DEF Recorded
\* Every server counted has handled the request to write.
<1>7. Held(Id(new), tag[c], lost)
  <2>1. /\ Answered(c) \cup {s} \in SUBSET Servers
        /\ Cardinality(Answered(c) \cup {s}) >= Majority(Cardinality(Servers))
        /\ \A r \in Answered(c) \cup {s} : ~Has(toServer[c][r], WRITE_VALUE, Num(c))
    <3>1. responses[c] <= Cardinality(Answered(c))
      BY <1>1 DEF MessagesBut, CountsNoMore
    <3> QED
      BY <3>1, <1>1, CompletesMajority DEF MessagesBut
  <2>2. \A r \in Answered(c) \cup {s} :
           Newer(Stored(r).tag, tag[c]) \/ <<c, call[c]>> \in lost[r]
    BY <1>1, <2>1 DEF FreshnessBut, WrittenIsKept
  <2> QED
    BY <2>1, <2>2, <1>3 DEF Held
<1>8. DoneIsHeld(lost)'
  <2>1. \A r \in done' : Held(Id(r), r.tag, lost)
    BY <1>1, <1>7 DEF FreshnessBut, DoneIsHeld
  <2> QED
    BY <2>1, <1>1 DEF DoneIsHeld, Held, Stored
<1>9. WrittenIsKept(lost)'
  <2> SUFFICES ASSUME NEW d \in alive, NEW r \in Servers, pc'[d] = WRITE_VALUE
               PROVE  /\ TagsIn(toServer'[d][r], WRITE_VALUE, Num(d)') \subseteq {tag'[d]}
                      /\ ~Has(toServer'[d][r], WRITE_VALUE, Num(d)')
                           => \/ Newer(Stored(r)'.tag, tag'[d])
                              \/ <<d, call'[d]>> \in lost[r]
    BY <1>1 DEF WrittenIsKept
  <2>1. pc[d] = WRITE_VALUE
    BY <1>2 DEF TypeOK
  <2> QED
    BY <2>1, <1>1, WrittenKept DEF FreshnessBut
<1>10. GetsReport(lost)'
  <2> SUFFICES ASSUME NEW d \in alive, NEW x \in done',
                      pc'[d] \in GetPhases, Id(x) \in before[d]
               PROVE  Reported(d, x, lost)'
    BY <1>1 DEF GetsReport
  <2>1. d \in Clients /\ d # c /\ pc'[d] = pc[d]
    BY <1>2 DEF TypeOK
  <2>2. x \in done
    BY <2>1, <1>1, <1>4, <1>5
  <2>3. \A r \in Servers : toClient'[d][r] = toClient[d][r]
    BY <2>1, <1>1, ReceiveTakes
  <2> QED
    BY <2>1, <2>2, <2>3, <1>1, SameReports DEF FreshnessBut
<1>11. ChosenExceeds(lost)'
  <2>1. ASSUME NEW d \in alive, NEW x \in done', pc'[d] = WRITE_VALUE, Id(x) \in before[d], Remembered(Id(x), lost)
        PROVE  Exceeds(Kind(d)', tag'[d], x.tag)
    <3>1. d \in Clients /\ pc[d] = WRITE_VALUE /\ Kind(d)' = Kind(d)
      BY <2>1, <1>1, <1>2 DEF TypeOK, Kind
    <3>2. x \in done
      BY <2>1, <3>1, <1>1, <1>4, <1>5
    <3> QED
      BY <2>1, <3>1, <3>2, <1>1 DEF FreshnessBut, ChosenExceeds
  <2>2. ASSUME NEW x \in done', NEW r \in done', Precedes(x, r), Remembered(Id(x), lost)
        PROVE  Exceeds(r.kind, r.tag, x.tag)
    <3>1. x \in done
      BY <2>2, <1>1, <1>4, <1>5 DEF Precedes
    <3>2. CASE r \in done
      BY <2>2, <3>1, <3>2 DEF FreshnessBut, ChosenExceeds
    <3>3. CASE r = new
      BY <2>2, <3>1, <3>3, <1>1 DEF FreshnessBut, ChosenExceeds, Precedes
    <3> QED
      BY <3>2, <3>3, <1>1
  <2> QED
    BY <2>1, <2>2, <1>1 DEF ChosenExceeds
<1> QED
  BY <1>6, <1>8, <1>9, <1>10, <1>11 DEF FreshnessBut

LEMMA FreshnessNext ==
    ASSUME TypeOK, TypeOK', MessagesBut, NEW lost, FreshnessBut(lost), [Next]_vars
    PROVE  FreshnessBut(lost)'
<1>1. ASSUME NEW c \in Clients, ClientStep(c) PROVE FreshnessBut(lost)'
  <2>1. OneMessage
    BY DEF MessagesBut
  <2> QED
    BY <2>1, <1>1, FreshnessBegin, FreshnessSamePhase, FreshnessEndGet, FreshnessReturn
       DEF ClientStep
<1>2. ASSUME NEW c \in Clients, Crash(c) PROVE FreshnessBut(lost)'
  BY <1>2, FreshnessCrash
<1>3. ASSUME NEW c \in Clients, NEW s \in Servers, Serve(c, s) PROVE FreshnessBut(lost)'
  BY <1>3, FreshnessServe
<1>4. CASE UNCHANGED vars
  <2>1. /\ store' = store /\ toServer' = toServer /\ toClient' = toClient
        /\ alive' = alive /\ call' = call /\ pc' = pc /\ tag' = tag
        /\ before' = before /\ done' = done
    BY <1>4 DEF vars
  <2>2. Recorded' /\ DoneIsHeld(lost)' /\ ChosenExceeds(lost)'
    BY <2>1, CallsKept
  <2>3. WrittenIsKept(lost)'
    BY <2>1 DEF FreshnessBut, WrittenIsKept, Num, Stored
  <2>4. GetsReport(lost)'
    BY <2>1, SameReports DEF FreshnessBut, GetsReport
  <2> QED
    BY <2>2, <2>3, <2>4 DEF FreshnessBut
<1> QED
  BY <1>1, <1>2, <1>3, <1>4 DEF Next

\* Without losses nothing is excepted.
LEMMA FreshChosen ==
    ASSUME Freshness
    PROVE  /\ \A c \in alive, x \in done :
                 pc[c] = WRITE_VALUE /\ Id(x) \in before[c] => Exceeds(Kind(c), tag[c], x.tag)
           /\ \A x, r \in done : Precedes(x, r) => Exceeds(r.kind, r.tag, x.tag)
           /\ Recorded
BY NothingLostRemembered DEF Freshness, FreshnessBut, ChosenExceeds

\* The same of the state that a step leads to.
LEMMA FreshChosenNext ==
    ASSUME Freshness'
    PROVE  \A c \in alive', x \in done' :
              pc'[c] = WRITE_VALUE /\ Id(x) \in before'[c] => Exceeds(Kind(c)', tag'[c], x.tag)
<1>1. ChosenExceeds(NothingLost)'
  BY DEF Freshness, FreshnessBut
<1> QED
  BY <1>1, NothingLostRemembered DEF ChosenExceeds

LEMMA FreshnessStep ==
    ASSUME TypeOK, TypeOK', Messages, Freshness, [Next]_vars
    PROVE  Freshness'
<1>1. MessagesBut
  BY AnsweredFinite DEF Messages, MessagesBut, CountsServers, CountsNoMore, TypeOK
<1>2. FreshnessBut(NothingLost)'
  BY <1>1, FreshnessNext DEF Freshness
<1> QED
  BY <1>2 DEF Freshness

LEMMA FreshnessAlways ==
    ASSUME FreshNums
    PROVE  Spec => [](TypeOK /\ Freshness)
<1>1. Init => TypeOK /\ Messages /\ Freshness
  BY TypeInit, MessagesInit, FreshnessInit DEF Freshness
<1>2. TypeOK /\ Messages /\ Freshness /\ [Next]_vars => TypeOK' /\ Messages' /\ Freshness'
  BY TypeNext, MessagesNext, FreshnessStep
<1> QED
  BY <1>1, <1>2, PTL DEF Spec

---------------------------------------------------------------------------
(* What follows. *)

(***************************************************************************)
(* What has returned is held by a majority; a client in its first phase is *)
(* told of it by a majority, and chooses no tag that goes back behind it.  *)
(***************************************************************************)
THEOREM NothingIsMissed ==
    ASSUME FreshNums
    PROVE  Spec => []Freshness
BY FreshnessAlways, PTL

(***************************************************************************)
(* Whatever strcmp returns, a read never returns a smaller counter than a  *)
(* call that had returned before it began, and a write exceeds it.         *)
(***************************************************************************)
THEOREM CountersInOrder ==
    ASSUME FreshNums
    PROVE  Spec => []CounterOrder
<1>1. ASSUME TypeOK, Freshness PROVE CounterOrder
  <2> SUFFICES ASSUME NEW x \in done, NEW r \in done, Precedes(x, r)
               PROVE  IF r.kind = "write" THEN x.tag.z < r.tag.z ELSE x.tag.z <= r.tag.z
    BY DEF CounterOrder
  <2>1. Exceeds(r.kind, r.tag, x.tag)
    BY <1>1, FreshChosen
  <2>2. x.tag \in AnyTag /\ r.tag \in AnyTag
    BY <1>1, KnownTags, TagsAreTags
  <2>3. x.tag.z \in Int /\ r.tag.z \in Int
    BY <2>2 DEF AnyTag
  <2>4. Newer(r.tag, x.tag) => r.tag.z >= x.tag.z
    BY <2>2, NewerCounter
  <2> QED
    BY <2>1, <2>3, <2>4 DEF Exceeds
<1> QED
  BY <1>1, FreshnessAlways, PTL

(***************************************************************************)
(* Where strcmp returns -1, 0 or 1, a call returns what it read no older   *)
(* than each write that had returned when it began.                        *)
(***************************************************************************)
THEOREM RegularRegister ==
    ASSUME FreshNums, UnitStrCmp
    PROVE  Spec => []Regular
<1>1. ASSUME TypeOK, Freshness PROVE Regular
  <2> SUFFICES ASSUME NEW x \in done, NEW r \in done, Precedes(x, r)
               PROVE  AtLeast(r.tag, x.tag)
    BY DEF Regular
  <2>1. Exceeds(r.kind, r.tag, x.tag)
    BY <1>1, FreshChosen
  <2> QED
    BY <2>1 DEF Exceeds, Newer, AtLeast
<1> QED
  BY <1>1, FreshnessAlways, PTL

(***************************************************************************)
(* Where strcmp returns -1, 0 or 1, a majority of the servers keeps what a *)
(* call returned or wrote, or something newer, for good.                   *)
(***************************************************************************)
THEOREM ResultsAreDurable ==
    ASSUME FreshNums, UnitStrCmp
    PROVE  Spec => []Durable
<1>1. ASSUME TypeOK, Freshness PROVE Durable
  <2> SUFFICES ASSUME NEW r \in done
               PROVE  Cardinality(Holders(r.tag)) >= Majority(Cardinality(Servers))
    BY DEF Durable
  <2>1. PICK Q \in SUBSET Servers : /\ Cardinality(Q) >= Majority(Cardinality(Servers))
                                    /\ \A s \in Q : Newer(Stored(s).tag, r.tag)
    BY <1>1 DEF Freshness, FreshnessBut, DoneIsHeld, Held, NothingLost
  <2>2. Q \subseteq Holders(r.tag) /\ Holders(r.tag) \subseteq Servers
    BY <2>1 DEF Holders, Newer
  <2>3. /\ IsFiniteSet(Q) /\ IsFiniteSet(Holders(r.tag))
        /\ Cardinality(Q) <= Cardinality(Holders(r.tag))
    BY <2>1, <2>2, CallsAssumption, FS_Subset
  <2>4. Cardinality(Q) \in Nat /\ Cardinality(Holders(r.tag)) \in Nat
    BY <2>3, FS_CardinalityType
  <2> QED
    BY <2>1, <2>3, <2>4, MajorityOfServers
<1> QED
  BY <1>1, FreshnessAlways, PTL

---------------------------------------------------------------------------
(* What the messages of a channel carry. *)

LEMMA CarriesAppend ==
    ASSUME NEW T, NEW q \in Seq(T), NEW m \in T, NEW phase, NEW S,
           CarriesOnly(q, phase, S),
           m.phase = phase => [tag |-> m.tag, val |-> m.val] \in S
    PROVE  CarriesOnly(Append(q, m), phase, S)
<1> DEFINE a == Append(q, m)
<1>1. /\ a \in Seq(T) /\ Len(a) = Len(q) + 1 /\ Len(q) \in Nat
      /\ \A i \in 1 .. Len(q) : a[i] = q[i]
      /\ a[Len(q) + 1] = m
  BY ChannelAppend
<1>2. DOMAIN a = 1 .. Len(q) + 1 /\ DOMAIN q = 1 .. Len(q)
  BY <1>1
<1> HIDE DEF a
<1>3. ASSUME NEW i \in DOMAIN a, a[i].phase = phase
      PROVE  [tag |-> a[i].tag, val |-> a[i].val] \in S
  <2>1. CASE i \in DOMAIN q
    BY <2>1, <1>1, <1>2, <1>3 DEF CarriesOnly
  <2>2. CASE i = Len(q) + 1
    BY <2>2, <1>1, <1>3
  <2> QED
    BY <2>1, <2>2, <1>1, <1>2
<1> QED
  BY <1>3 DEF CarriesOnly, a

LEMMA CarriesTail ==
    ASSUME NEW T, NEW q \in Seq(T), q # <<>>, NEW phase, NEW S, CarriesOnly(q, phase, S)
    PROVE  /\ CarriesOnly(Tail(q), phase, S)
           /\ Head(q).phase = phase => [tag |-> Head(q).tag, val |-> Head(q).val] \in S
<1> DEFINE t == Tail(q)
<1>1. /\ t \in Seq(T) /\ Len(t) = Len(q) - 1 /\ Len(q) \in Nat /\ Len(q) > 0
      /\ \A i \in 1 .. Len(t) : t[i] = q[i + 1]
      /\ Head(q) = q[1]
  BY ChannelTail
<1>2. DOMAIN t = 1 .. Len(q) - 1 /\ DOMAIN q = 1 .. Len(q)
  BY <1>1
<1> HIDE DEF t
<1>3. \A i \in DOMAIN t : i + 1 \in DOMAIN q /\ q[i + 1] = t[i]
  BY <1>1, <1>2
<1>4. 1 \in DOMAIN q
  BY <1>1, <1>2
<1> QED
  BY <1>1, <1>3, <1>4 DEF CarriesOnly, t

LEMMA CarriesPrefix ==
    ASSUME NEW T, NEW q \in Seq(T), NEW k \in 0 .. Len(q), NEW phase, NEW S,
           CarriesOnly(q, phase, S)
    PROVE  CarriesOnly(SubSeq(q, 1, k), phase, S)
<1> DEFINE p == SubSeq(q, 1, k)
<1>1. /\ p \in Seq(T) /\ Len(p) = k /\ Len(q) \in Nat
      /\ \A i \in 1 .. k : p[i] = q[i]
  BY ChannelPrefix
<1>2. DOMAIN p = 1 .. k /\ DOMAIN q = 1 .. Len(q)
  BY <1>1
<1> HIDE DEF p
<1>3. \A i \in DOMAIN p : i \in DOMAIN q /\ q[i] = p[i]
  BY <1>1, <1>2
<1> QED
  BY <1>3 DEF CarriesOnly, p

LEMMA CarriesMore ==
    ASSUME NEW q, NEW phase, NEW S, NEW T, CarriesOnly(q, phase, S), S \subseteq T
    PROVE  CarriesOnly(q, phase, T)
BY DEF CarriesOnly

---------------------------------------------------------------------------
(* The tagged values that writes chose. *)

\* Client c is in the second phase of a write.
Writing(c) == pc[c] = WRITE_VALUE /\ Kind(c) = "write"

\* What client c is writing or has read, and what a call returned or wrote.
Holding(c) == [tag |-> tag[c], val |-> val[c]]
Of(r)      == [tag |-> r.tag, val |-> r.val]

LEMMA ChosenMembers ==
    /\ \A o : o \in Chosen <=> \/ o = InitObject
                               \/ \E c \in Clients : Writing(c) /\ o = Holding(c)
                               \/ \E r \in done : r.kind = "write" /\ o = Of(r)
    /\ \A o : o \in Chosen' <=> \/ o = InitObject
                                \/ \E c \in Clients : Writing(c)' /\ o = Holding(c)'
                                \/ \E r \in done' : r.kind = "write" /\ o = Of(r)
BY DEF Chosen, Writing, Holding, Of

\* A step that chooses no tag and ends no call.
LEMMA ChosenSame ==
    ASSUME done' = done,
           \A c \in Clients : Writing(c)' <=> Writing(c),
           \A c \in Clients : Writing(c) => Holding(c)' = Holding(c)
    PROVE  Chosen' = Chosen
<1>1. \A o : o \in Chosen' <=> o \in Chosen
  BY ChosenMembers
<1> QED
  BY <1>1

---------------------------------------------------------------------------
(* The invariant about tags. *)

LEMMA TaggedInit == Init => Tagged
<1> SUFFICES ASSUME Init PROVE Tagged
  OBVIOUS
<1>1. OneResult /\ KindOfPhase /\ WritesOwn /\ OwnTagsGrow
  BY DEF Init, OneResult, KindOfPhase, WritesOwn, OwnTagsGrow
<1>2. OnlyChosen
  <2>1. InitObject \in Chosen
    BY ChosenMembers
  <2>2. \A s \in Servers : Stored(s) = InitObject
    BY DEF Init, Stored
  <2>3. \A phase : CarriesOnly(<<>>, phase, Chosen)
    BY DEF CarriesOnly
  <2> QED
    BY <2>1, <2>2, <2>3 DEF Init, OnlyChosen
<1> QED
  BY <1>1, <1>2 DEF Tagged

\* A step that neither begins nor ends a call or a phase.
LEMMA WorkKept ==
    ASSUME Tagged, call' = call, pc' = pc, before' = before, done' = done,
           \A c \in Clients : pc[c] = WRITE_VALUE => tag'[c] = tag[c] /\ val'[c] = val[c],
           \A c \in Clients : pc[c] # "idle" /\ Kind(c) = "write" => val'[c] = val[c]
    PROVE  /\ OneResult' /\ KindOfPhase' /\ WritesOwn' /\ OwnTagsGrow'
           /\ Chosen' = Chosen
<1>1. \A c \in Clients : Kind(c)' = Kind(c)
  BY DEF Kind
<1>2. OneResult' /\ KindOfPhase'
  BY <1>1 DEF Tagged, OneResult, KindOfPhase
<1>3. WritesOwn'
  BY <1>1 DEF Tagged, WritesOwn
<1>4. OwnTagsGrow'
  BY <1>1 DEF Tagged, OwnTagsGrow
<1>5. Chosen' = Chosen
  BY <1>1, ChosenSame DEF Writing, Holding
<1> QED
  BY <1>2, <1>3, <1>4, <1>5

\* What a handler leaves in its server, and what a get of the value is answered.
LEMMA ServeCarries ==
    ASSUME TypeOK, NEW c \in Clients, NEW s \in Servers, Serve(c, s)
    PROVE  /\ \A r \in Servers : Stored(r)' = Stored(r)
                                 \/ /\ Head(toServer[c][s]).phase = WRITE_VALUE
                                    /\ Stored(r)' = Of(Head(toServer[c][s]))
           /\ \E a \in Answer :
                 /\ a.phase = GET_TAG_VALUE => Of(a) = Stored(s)
                 /\ toClient'[c][s] \in {toClient[c][s], Append(toClient[c][s], a)}
<1> DEFINE m == Head(toServer[c][s])
<1>1. /\ toServer[c][s] \in Seq(GetRequest \cup WriteRequest) /\ toServer[c][s] # <<>>
      /\ store \in [Servers -> Object \cup {NoObject}]
      /\ toClient \in [Clients -> [Servers -> Seq(Answer)]]
  BY ServeMoves, ChannelTypes DEF TypeOK
<1>2. m \in GetRequest \cup WriteRequest
  BY <1>1, ChannelTail
<1>3. Stored(s) \in Object
  BY StoredType
<1>4. CASE ServeGetTag(c, s)
  <2> DEFINE a == Message(GET_TAG, m.num, Stored(s).tag, InitVal)
  <2>1. store' = [store EXCEPT ![s] = Stored(s)] /\ m.phase = GET_TAG /\ Reply(c, s, a)
    BY <1>4 DEF ServeGetTag
  <2>2. \A r \in Servers : Stored(r)' = Stored(r)
    BY <1>1, <1>3, <2>1, InitTypes DEF Stored
  <2>3. a \in Answer /\ a.phase # GET_TAG_VALUE
    BY <1>2, <1>3, InitTypes DEF GetRequest, WriteRequest, Answer, Message, Object
  <2>4. toClient'[c][s] \in {toClient[c][s], Append(toClient[c][s], a)}
    BY <1>1, <2>1 DEF Reply
  <2> QED
    BY <2>2, <2>3, <2>4
<1>5. CASE ServeGetTagValue(c, s)
  <2> DEFINE a == Message(GET_TAG_VALUE, m.num, Stored(s).tag, Stored(s).val)
  <2>1. store' = [store EXCEPT ![s] = Stored(s)] /\ Reply(c, s, a)
    BY <1>5 DEF ServeGetTagValue
  <2>2. \A r \in Servers : Stored(r)' = Stored(r)
    BY <1>1, <1>3, <2>1, InitTypes DEF Stored
  <2>3. a \in Answer /\ Of(a) = Stored(s)
    BY <1>2, <1>3, InitTypes DEF GetRequest, WriteRequest, Answer, Message, Object, Of
  <2>4. toClient'[c][s] \in {toClient[c][s], Append(toClient[c][s], a)}
    BY <1>1, <2>1 DEF Reply
  <2> QED
    BY <2>2, <2>3, <2>4
<1>6. CASE ServeWriteValue(c, s)
  <2> DEFINE a == Message(WRITE_VALUE, m.num, m.tag, InitVal)
  <2>1. /\ store' = [store EXCEPT ![s] = Overwrite(Stored(s), Of(m))]
        /\ m.phase = WRITE_VALUE /\ Reply(c, s, a)
    BY <1>6 DEF ServeWriteValue, Of
  <2>2. Of(m) \in Object /\ Overwrite(Stored(s), Of(m)) \in {Stored(s), Of(m)}
    BY <1>2, <2>1 DEF GetRequest, WriteRequest, Object, Of, Overwrite
  <2>3. \A r \in Servers : Stored(r)' = Stored(r) \/ Stored(r)' = Of(m)
    BY <1>1, <1>3, <2>1, <2>2, InitTypes DEF Stored
  <2>4. a \in Answer /\ a.phase # GET_TAG_VALUE
    BY <1>2, <2>1, InitTypes DEF GetRequest, WriteRequest, Answer, Message
  <2>5. toClient'[c][s] \in {toClient[c][s], Append(toClient[c][s], a)}
    BY <1>1, <2>1 DEF Reply
  <2> QED
    BY <2>1, <2>3, <2>4, <2>5
<1> QED
  BY <1>4, <1>5, <1>6 DEF Serve

LEMMA TaggedServe ==
    ASSUME TypeOK, Tagged, NEW c \in Clients, NEW s \in Servers, Serve(c, s)
    PROVE  Tagged'
<1> DEFINE m == Head(toServer[c][s])
<1>1. UNCHANGED clientVars
  BY ServeMoves
<1>2. OneResult' /\ KindOfPhase' /\ WritesOwn' /\ OwnTagsGrow' /\ Chosen' = Chosen
  BY <1>1, WorkKept DEF clientVars
<1>3. /\ toServer[c][s] # <<>> /\ toServer'[c][s] = Tail(toServer[c][s])
      /\ \A d \in Clients, r \in Servers : <<d, r>> # <<c, s>> =>
            toServer'[d][r] = toServer[d][r] /\ toClient'[d][r] = toClient[d][r]
  BY ServeMoves
<1>4. /\ \A r \in Servers : Stored(r) \in Chosen
      /\ \A d \in Clients, r \in Servers :
            /\ CarriesOnly(toServer[d][r], WRITE_VALUE, Chosen)
            /\ CarriesOnly(toClient[d][r], GET_TAG_VALUE, Chosen)
  BY DEF Tagged, OnlyChosen
<1>5. CarriesOnly(toServer'[c][s], WRITE_VALUE, Chosen) /\ (m.phase = WRITE_VALUE => Of(m) \in Chosen)
  BY <1>3, <1>4, ChannelTypes, CarriesTail DEF Of
<1>6. PICK a \in Answer : /\ a.phase = GET_TAG_VALUE => Of(a) = Stored(s)
                          /\ toClient'[c][s] \in {toClient[c][s], Append(toClient[c][s], a)}
  BY ServeCarries
<1>7. \A r \in Servers : Stored(r)' \in Chosen
  BY <1>4, <1>5, ServeCarries
<1>8. CarriesOnly(toClient'[c][s], GET_TAG_VALUE, Chosen)
  <2>1. a.phase = GET_TAG_VALUE => [tag |-> a.tag, val |-> a.val] \in Chosen
    BY <1>4, <1>6 DEF Of
  <2>2. toClient[c][s] \in Seq(Answer)
    BY ChannelTypes
  <2>3. CarriesOnly(Append(toClient[c][s], a), GET_TAG_VALUE, Chosen)
    BY <1>4, <2>1, <2>2, CarriesAppend
  <2> QED
    BY <1>4, <1>6, <2>3
<1>9. ASSUME NEW d \in Clients, NEW r \in Servers
      PROVE  /\ CarriesOnly(toServer'[d][r], WRITE_VALUE, Chosen)
             /\ CarriesOnly(toClient'[d][r], GET_TAG_VALUE, Chosen)
  BY <1>3, <1>4, <1>5, <1>8
<1>10. /\ \A d \in Clients : pc'[d] # "idle" /\ Kind(d)' = "read" =>
             \/ pc'[d] = GET_TAG_VALUE /\ tag'[d] = NoTag
             \/ [tag |-> tag'[d], val |-> val'[d]] \in Chosen
       /\ \A r \in done' : [tag |-> r.tag, val |-> r.val] \in Chosen
  BY <1>1 DEF clientVars, Tagged, OnlyChosen, Kind
<1> QED
  BY <1>2, <1>7, <1>9, <1>10 DEF Tagged, OnlyChosen

\* What a client takes out of its socket.
LEMMA ReceiveCarries ==
    ASSUME TypeOK, Tagged, NEW c \in Clients, NEW s \in Servers, Receive(c, s)
    PROVE  /\ Head(toClient[c][s]) \in Answer
           /\ Head(toClient[c][s]).phase = GET_TAG_VALUE => Of(Head(toClient[c][s])) \in Chosen
           /\ \A d \in Clients, r \in Servers : CarriesOnly(toClient'[d][r], GET_TAG_VALUE, Chosen)
           /\ \A r \in Servers : Stored(r)' = Stored(r)
<1>1. /\ toClient[c][s] # <<>> /\ store' = store
      /\ toClient' = [toClient EXCEPT ![c][s] = Tail(@)]
  BY DEF Receive
<1>2. toClient[c][s] \in Seq(Answer)
  BY ChannelTypes
<1>3. \A d \in Clients, r \in Servers : CarriesOnly(toClient[d][r], GET_TAG_VALUE, Chosen)
  BY DEF Tagged, OnlyChosen
<1>4. /\ CarriesOnly(Tail(toClient[c][s]), GET_TAG_VALUE, Chosen)
      /\ Head(toClient[c][s]).phase = GET_TAG_VALUE => Of(Head(toClient[c][s])) \in Chosen
  BY <1>1, <1>2, <1>3, CarriesTail DEF Of
<1>5. ASSUME NEW d \in Clients, NEW r \in Servers
      PROVE  toClient'[d][r] = IF d = c /\ r = s THEN Tail(toClient[c][s]) ELSE toClient[d][r]
  BY <1>1 DEF TypeOK
<1> QED
  BY <1>1, <1>2, <1>3, <1>4, <1>5, ChannelTail DEF Stored

\* The maximum a get phase of a read keeps was chosen by a write.
LEMMA NewMaxChosen ==
    ASSUME TypeOK, Tagged, NEW c \in Clients, NEW m \in Answer, Counts(c, m),
           pc[c] = GET_TAG_VALUE, Of(m) \in Chosen
    PROVE  [tag |-> NewMax(c, m).tag, val |-> NewMax(c, m).val] \in Chosen
<1>1. Kind(c) = "read"
  BY DEF Tagged, KindOfPhase
<1>2. tag[c] = NoTag \/ Holding(c) \in Chosen
  BY <1>1 DEF Tagged, OnlyChosen, Holding
<1>3. tag[c] = NoTag => compare_tag_ptrs(tag[c], m.tag) < 0
  <2>1. m.tag.z \in Nat /\ NoTag.z = -1
    BY DEF Answer, Tag, NoTag
  <2> QED
    BY <2>1 DEF compare_tag_ptrs
<1> QED
  BY <1>2, <1>3 DEF NewMax, Of, Holding

\* Counting a reply, or skipping it, chooses nothing.
LEMMA SamePhaseChosen ==
    ASSUME TypeOK, Tagged, NEW c \in Clients, NEW s \in Servers,
           OldMessage(c, s) \/ CountGet(c, s) \/ CountAck(c, s)
    PROVE  /\ call' = call /\ pc' = pc /\ before' = before /\ done' = done
           /\ OneResult' /\ KindOfPhase' /\ WritesOwn' /\ OwnTagsGrow'
           /\ Chosen' = Chosen
<1> DEFINE m == Head(toClient[c][s])
<1>1. call' = call /\ pc' = pc /\ before' = before /\ done' = done
  BY DEF OldMessage, CountGet, CountAck, Receive
<1>2. \/ tag' = tag /\ val' = val
      \/ /\ pc[c] \in GetPhases
         /\ tag' = [tag EXCEPT ![c] = NewMax(c, m).tag]
         /\ val' = [val EXCEPT ![c] = NewMax(c, m).val]
  BY DEF OldMessage, CountGet, CountAck
<1>3. pc[c] # GET_TAG_VALUE => NewMax(c, m).val = val[c]
  BY DEF NewMax
<1>4. /\ \A d \in Clients : pc[d] = WRITE_VALUE => tag'[d] = tag[d] /\ val'[d] = val[d]
      /\ \A d \in Clients : pc[d] # "idle" /\ Kind(d) = "write" => val'[d] = val[d]
  BY <1>2, <1>3 DEF KindOfPhase, TypeOK, Tagged
<1> QED
  BY <1>1, <1>4, WorkKept

LEMMA TaggedSamePhase ==
    ASSUME TypeOK, Tagged, NEW c \in Clients, NEW s \in Servers,
           OldMessage(c, s) \/ CountGet(c, s) \/ CountAck(c, s)
    PROVE  Tagged'
<1> DEFINE m == Head(toClient[c][s])
<1>1. /\ Receive(c, s) /\ call' = call /\ pc' = pc /\ before' = before /\ done' = done
      /\ toServer' = toServer
  BY DEF OldMessage, CountGet, CountAck, Receive
<1>2. /\ m \in Answer /\ (m.phase = GET_TAG_VALUE => Of(m) \in Chosen)
      /\ \A d \in Clients, r \in Servers : CarriesOnly(toClient'[d][r], GET_TAG_VALUE, Chosen)
      /\ \A r \in Servers : Stored(r)' = Stored(r)
  BY <1>1, ReceiveCarries
<1>3. \/ tag' = tag /\ val' = val
      \/ /\ pc[c] \in GetPhases /\ Counts(c, m)
         /\ tag' = [tag EXCEPT ![c] = NewMax(c, m).tag]
         /\ val' = [val EXCEPT ![c] = NewMax(c, m).val]
  BY DEF OldMessage, CountGet, CountAck
<1>4. KindOfPhase
  BY DEF Tagged
<1>5. OneResult' /\ KindOfPhase' /\ WritesOwn' /\ OwnTagsGrow' /\ Chosen' = Chosen
  BY SamePhaseChosen
<1>6. ASSUME NEW d \in Clients, pc[d] # "idle", Kind(d) = "read"
      PROVE  \/ pc[d] = GET_TAG_VALUE /\ tag'[d] = NoTag
             \/ [tag |-> tag'[d], val |-> val'[d]] \in Chosen
  <2>1. \/ pc[d] = GET_TAG_VALUE /\ tag[d] = NoTag
        \/ [tag |-> tag[d], val |-> val[d]] \in Chosen
    BY <1>6 DEF Tagged, OnlyChosen
  <2>2. CASE tag'[d] = tag[d] /\ val'[d] = val[d]
    BY <2>1, <2>2
  <2>3. CASE ~(tag'[d] = tag[d] /\ val'[d] = val[d])
    <3>1. /\ d = c /\ pc[c] \in GetPhases /\ Counts(c, m)
          /\ tag'[c] = NewMax(c, m).tag /\ val'[c] = NewMax(c, m).val
      BY <1>3, <2>3 DEF TypeOK
    <3>2. pc[c] = GET_TAG_VALUE
      BY <1>4, <1>6, <3>1 DEF KindOfPhase
    <3>3. Of(m) \in Chosen
      BY <1>2, <3>1, <3>2 DEF Counts
    <3>4. [tag |-> NewMax(c, m).tag, val |-> NewMax(c, m).val] \in Chosen
      BY <1>2, <3>1, <3>2, <3>3, NewMaxChosen
    <3> QED
      BY <3>1, <3>4
  <2> QED
    BY <2>2, <2>3
<1>7. OnlyChosen'
  <2>1. /\ \A r \in Servers : Stored(r)' \in Chosen
        /\ \A d \in Clients, r \in Servers : CarriesOnly(toServer'[d][r], WRITE_VALUE, Chosen)
        /\ \A r \in done' : [tag |-> r.tag, val |-> r.val] \in Chosen
    BY <1>1, <1>2 DEF Tagged, OnlyChosen
  <2>2. \A d \in Clients : Kind(d)' = Kind(d)
    BY <1>1 DEF Kind
  <2> QED
    BY <1>1, <1>2, <1>5, <1>6, <2>1, <2>2 DEF OnlyChosen
<1> QED
  BY <1>5, <1>7 DEF Tagged

\* Beginning a call chooses nothing.
LEMMA BeginChosen ==
    ASSUME TypeOK, NEW c \in Clients, Begin(c)
    PROVE  /\ Chosen' = Chosen
           /\ \A d \in Clients : d # c => Kind(d)' = Kind(d)
<1>1. /\ pc[c] = "idle" /\ pc' = [pc EXCEPT ![c] = pc'[c]] /\ pc'[c] # WRITE_VALUE
      /\ call' = [call EXCEPT ![c] = @ + 1] /\ tag' = [tag EXCEPT ![c] = NoTag]
      /\ val' = [val EXCEPT ![c] = val'[c]] /\ done' = done
  BY DEF Begin, TypeOK
<1>2. \A d \in Clients : d # c => Kind(d)' = Kind(d)
  BY <1>1 DEF Kind, TypeOK
<1>3. \A d \in Clients : Writing(d)' <=> Writing(d)
  BY <1>1, <1>2 DEF Writing, TypeOK
<1>4. \A d \in Clients : Writing(d) => Holding(d)' = Holding(d)
  BY <1>1 DEF Writing, Holding, TypeOK
<1> QED
  BY <1>1, <1>2, <1>3, <1>4, ChosenSame

LEMMA TaggedBegin ==
    ASSUME TypeOK, Tagged, NEW c \in Clients, Begin(c)
    PROVE  Tagged'
<1> DEFINE next  == Script[c][call[c] + 1]
           phase == IF next.kind = "read" THEN GET_TAG_VALUE ELSE GET_TAG
           w     == Message(phase, next.num, NoTag, InitVal)
<1>1. /\ pc[c] = "idle" /\ pc' = [pc EXCEPT ![c] = phase]
      /\ call' = [call EXCEPT ![c] = @ + 1] /\ tag' = [tag EXCEPT ![c] = NoTag]
      /\ val' = [val EXCEPT ![c] = IF next.kind = "read" THEN InitVal ELSE <<c, call[c] + 1>>]
      /\ before' = [before EXCEPT ![c] = {Id(r) : r \in done}]
      /\ done' = done /\ store' = store /\ toClient' = toClient
  BY DEF Begin
<1>2. call[c] \in Nat /\ call[c] + 1 <= Len(Script[c])
  <2>1. Len(Script[c]) \in Nat
    BY CallsAssumption
  <2> QED
    BY <2>1 DEF TypeOK, Begin
<1>3. next \in [kind : Kinds, num : Nat]
  BY <1>2, CallType
<1>4. next.kind \in {"read", "write"} /\ phase \in GetPhases
  BY <1>3 DEF Kinds
<1>5. /\ pc'[c] = phase /\ call'[c] = call[c] + 1 /\ tag'[c] = NoTag /\ Kind(c)' = next.kind
      /\ val'[c] = IF next.kind = "read" THEN InitVal ELSE <<c, call[c] + 1>>
      /\ before'[c] = {Id(r) : r \in done}
  BY <1>1 DEF TypeOK, Kind
<1>6. Chosen' = Chosen /\ \A d \in Clients : d # c => Kind(d)' = Kind(d)
  BY BeginChosen
<1>7. \A d \in Clients : d # c =>
         /\ pc'[d] = pc[d] /\ call'[d] = call[d] /\ tag'[d] = tag[d]
         /\ val'[d] = val[d] /\ before'[d] = before[d]
  BY <1>1 DEF TypeOK
<1>8. OneResult'
  <2>1. \A x \in done : x.client \in Clients
    BY KnownTags
  <2> QED
    BY <2>1, <1>1, <1>5, <1>7 DEF Tagged, OneResult
<1>9. KindOfPhase'
  BY <1>4, <1>5, <1>6, <1>7 DEF Tagged, KindOfPhase
<1>10. WritesOwn'
  <2>1. ASSUME NEW d \in Clients, pc'[d] # "idle", Kind(d)' = "write"
        PROVE  /\ val'[d] = <<d, call'[d]>>
               /\ pc'[d] = WRITE_VALUE => IsOwn(d, tag'[d])
    <3>1. CASE d = c
      BY <2>1, <3>1, <1>4, <1>5
    <3>2. CASE d # c
      BY <2>1, <3>2, <1>6, <1>7 DEF Tagged, WritesOwn
    <3> QED
      BY <3>1, <3>2
  <2> QED
    BY <2>1, <1>1 DEF Tagged, WritesOwn
<1>11. OwnTagsGrow'
  BY <1>1, <1>4, <1>5, <1>6, <1>7 DEF Tagged, OwnTagsGrow
<1>12. OnlyChosen'
  <2>1. toServer' = [toServer EXCEPT ![c] = [s \in Servers |-> Append(toServer[c][s], w)]]
    BY DEF Begin, Multicast, TypeOK
  <2>2. w \in GetRequest \cup WriteRequest /\ w.phase # WRITE_VALUE
    BY <1>3, <1>4 DEF GetRequest, Message
  <2>3. ASSUME NEW d \in Clients, NEW s \in Servers
        PROVE  CarriesOnly(toServer'[d][s], WRITE_VALUE, Chosen)
    <3>1. toServer[d][s] \in Seq(GetRequest \cup WriteRequest)
      BY ChannelTypes
    <3>2. CarriesOnly(toServer[d][s], WRITE_VALUE, Chosen)
      BY DEF Tagged, OnlyChosen
    <3>3. CarriesOnly(Append(toServer[d][s], w), WRITE_VALUE, Chosen)
      BY <3>1, <3>2, <2>2, CarriesAppend
    <3>4. toServer'[d][s] \in {toServer[d][s], Append(toServer[d][s], w)}
      BY <2>1 DEF TypeOK
    <3> QED
      BY <3>2, <3>3, <3>4
  <2>4. ASSUME NEW d \in Clients, pc'[d] # "idle", Kind(d)' = "read"
        PROVE  \/ pc'[d] = GET_TAG_VALUE /\ tag'[d] = NoTag
               \/ [tag |-> tag'[d], val |-> val'[d]] \in Chosen
    <3>1. CASE d = c
      BY <2>4, <3>1, <1>5
    <3>2. CASE d # c
      BY <2>4, <3>2, <1>6, <1>7 DEF Tagged, OnlyChosen
    <3> QED
      BY <3>1, <3>2
  <2>5. \A s \in Servers : Stored(s)' = Stored(s)
    BY <1>1 DEF Stored
  <2> QED
    BY <2>3, <2>4, <2>5, <1>1, <1>6 DEF Tagged, OnlyChosen
<1> QED
  BY <1>8, <1>9, <1>10, <1>11, <1>12 DEF Tagged

\* The end of the first phase of a write chooses one tagged value.
LEMMA EndGetChosen ==
    ASSUME TypeOK, Tagged, NEW c \in Clients, NEW s \in Servers, EndGet(c, s)
    PROVE  /\ Kind(c) = "read" => (Chosen' = Chosen /\ Holding(c)' \in Chosen)
           /\ Kind(c) = "write" => /\ Chosen' = Chosen \cup {Holding(c)'}
                                   /\ val'[c] = <<c, call[c]>> /\ IsOwn(c, tag'[c])
           /\ Kind(c) \in Kinds
<1> DEFINE m   == Head(toClient[c][s])
           new == NewMax(c, m)
<1>1. /\ Receive(c, s) /\ Counts(c, m) /\ pc[c] \in GetPhases
      /\ call' = call /\ done' = done /\ pc' = [pc EXCEPT ![c] = WRITE_VALUE]
      /\ tag' = [tag EXCEPT ![c] = TagToWrite(c, new.tag)] /\ val' = [val EXCEPT ![c] = new.val]
  BY DEF EndGet, Receive
<1>2. /\ m \in Answer /\ (m.phase = GET_TAG_VALUE => Of(m) \in Chosen)
      /\ new.tag \in Tag /\ Kind(c) \in Kinds
  BY <1>1, ReceiveCarries, TypeReceive, NewMaxType DEF Kind
<1>3. /\ tag'[c] = TagToWrite(c, new.tag) /\ val'[c] = new.val /\ pc'[c] = WRITE_VALUE
      /\ \A d \in Clients : Kind(d)' = Kind(d)
      /\ \A d \in Clients : d # c => pc'[d] = pc[d] /\ tag'[d] = tag[d] /\ val'[d] = val[d]
  BY <1>1 DEF TypeOK, Kind
<1>4. CASE Kind(c) = "read"
  <2>1. pc[c] = GET_TAG_VALUE /\ Of(m) \in Chosen
    BY <1>1, <1>2, <1>4 DEF Tagged, KindOfPhase, Counts
  <2>2. [tag |-> new.tag, val |-> new.val] \in Chosen
    BY <2>1, <1>1, <1>2, NewMaxChosen
  <2>3. Holding(c)' \in Chosen
    BY <2>2, <1>3, <1>4 DEF TagToWrite, Holding
  <2>4. \A d \in Clients : (Writing(d)' <=> Writing(d)) /\ (Writing(d) => Holding(d)' = Holding(d))
    BY <1>3, <1>4 DEF Writing, Holding
  <2> QED
    BY <2>3, <2>4, <1>1, <1>2, <1>4, ChosenSame
<1>5. CASE Kind(c) = "write"
  <2>1. pc[c] = GET_TAG
    BY <1>1, <1>5 DEF Tagged, KindOfPhase
  <2>2. val'[c] = val[c] /\ val[c] = <<c, call[c]>>
    BY <2>1, <1>3, <1>5 DEF NewMax, Tagged, WritesOwn
  <2>3. IsOwn(c, tag'[c])
    BY <1>2, <1>3, <1>5 DEF TagToWrite, IsOwn, Tag
  <2>4. ~Writing(c) /\ Writing(c)'
    BY <1>3, <1>5, <2>1 DEF Writing
  <2>5. \A d \in Clients : d # c => (Writing(d)' <=> Writing(d)) /\ Holding(d)' = Holding(d)
    BY <1>3 DEF Writing, Holding
  <2>6. \A o : o \in Chosen' <=> o \in Chosen \/ o = Holding(c)'
    BY <2>4, <2>5, <1>1, ChosenMembers
  <2>7. Chosen' = Chosen \cup {Holding(c)'}
    BY <2>6
  <2> QED
    BY <2>2, <2>3, <2>7, <1>2, <1>5
<1> QED
  BY <1>2, <1>4, <1>5 DEF Kinds

LEMMA TaggedEndGet ==
    ASSUME TypeOK, TypeOK', Tagged, Freshness', NEW c \in Clients, NEW s \in Servers, EndGet(c, s)
    PROVE  Tagged'
<1> DEFINE m   == Head(toClient[c][s])
           new == NewMax(c, m)
           t   == TagToWrite(c, new.tag)
           w   == Message(WRITE_VALUE, Num(c), t, new.val)
<1>1. /\ Receive(c, s) /\ pc[c] \in GetPhases /\ c \in alive /\ alive' = alive
      /\ call' = call /\ done' = done /\ before' = before
      /\ pc' = [pc EXCEPT ![c] = WRITE_VALUE]
      /\ tag' = [tag EXCEPT ![c] = t] /\ val' = [val EXCEPT ![c] = new.val]
  BY DEF EndGet, Receive
<1>2. /\ m \in Answer /\ new.tag \in Tag /\ new.val \in Values
      /\ Num(c) \in Nat /\ Kind(c) \in Kinds
  BY <1>1, TypeReceive, NewMaxType DEF Kind, Num
<1>3. /\ tag'[c] = t /\ val'[c] = new.val /\ pc'[c] = WRITE_VALUE
      /\ \A d \in Clients : Kind(d)' = Kind(d)
      /\ \A d \in Clients : d # c => pc'[d] = pc[d] /\ tag'[d] = tag[d] /\ val'[d] = val[d]
  BY <1>1 DEF TypeOK, Kind
<1>4. /\ Chosen \subseteq Chosen' /\ Holding(c)' \in Chosen'
      /\ Kind(c) = "write" => val'[c] = <<c, call[c]>> /\ IsOwn(c, tag'[c])
  BY EndGetChosen DEF Kinds
<1>5. t \in Tag
  BY <1>3 DEF TypeOK
<1>6. OneResult' /\ KindOfPhase'
  BY <1>1, <1>3 DEF Tagged, OneResult, KindOfPhase
<1>7. WritesOwn'
  <2>1. ASSUME NEW d \in Clients, pc'[d] # "idle", Kind(d)' = "write"
        PROVE  /\ val'[d] = <<d, call'[d]>>
               /\ pc'[d] = WRITE_VALUE => IsOwn(d, tag'[d])
    <3>1. CASE d = c
      BY <2>1, <3>1, <1>1, <1>3, <1>4
    <3>2. CASE d # c
      BY <2>1, <3>2, <1>1, <1>3 DEF Tagged, WritesOwn
    <3> QED
      BY <3>1, <3>2
  <2> QED
    BY <2>1, <1>1 DEF Tagged, WritesOwn
\* All that c has done had returned when its call began.
<1>8. OwnTagsGrow'
  <2>1. ASSUME NEW x \in done, x.client = c, Kind(c) = "write"
        PROVE  x.tag.z < t.z
    <3>1. Id(x) \in before[c]
      BY <2>1, <1>1 DEF Tagged, OneResult
    <3>2. Exceeds(Kind(c)', tag'[c], x.tag)
      BY <3>1, <1>1, <1>3, FreshChosenNext
    <3>3. t.z > x.tag.z
      BY <2>1, <3>2, <1>3 DEF Exceeds
    <3>4. x.tag \in Tag
      BY KnownTags
    <3> QED
      BY <3>3, <3>4, <1>5 DEF Tag
  <2>2. ASSUME NEW d \in Clients, NEW x \in done, pc'[d] = WRITE_VALUE, Kind(d)' = "write",
               x.client = d
        PROVE  x.tag.z < tag'[d].z
    <3>1. CASE d = c
      BY <2>1, <2>2, <3>1, <1>3
    <3>2. CASE d # c
      BY <2>2, <3>2, <1>3 DEF Tagged, OwnTagsGrow
    <3> QED
      BY <3>1, <3>2
  <2> QED
    BY <2>2, <1>1 DEF Tagged, OwnTagsGrow
<1>9. OnlyChosen'
  <2>1. toServer' = [toServer EXCEPT ![c] = [r \in Servers |-> Append(toServer[c][r], w)]]
    BY DEF EndGet, Multicast, TypeOK
  <2>2. w \in GetRequest \cup WriteRequest /\ [tag |-> w.tag, val |-> w.val] = Holding(c)'
    BY <1>2, <1>3, <1>5 DEF WriteRequest, Message, Holding
  <2>3. ASSUME NEW d \in Clients, NEW r \in Servers
        PROVE  CarriesOnly(toServer'[d][r], WRITE_VALUE, Chosen')
    <3>1. toServer[d][r] \in Seq(GetRequest \cup WriteRequest)
      BY ChannelTypes
    <3>2. CarriesOnly(toServer[d][r], WRITE_VALUE, Chosen)
      BY DEF Tagged, OnlyChosen
    <3>3. CarriesOnly(toServer[d][r], WRITE_VALUE, Chosen')
      BY <3>2, <1>4, CarriesMore
    <3>4. CarriesOnly(Append(toServer[d][r], w), WRITE_VALUE, Chosen')
      BY <3>1, <3>3, <2>2, <1>4, CarriesAppend
    <3>5. toServer'[d][r] \in {toServer[d][r], Append(toServer[d][r], w)}
      BY <2>1 DEF TypeOK
    <3> QED
      BY <3>3, <3>4, <3>5
  <2>4. ASSUME NEW d \in Clients, NEW r \in Servers
        PROVE  CarriesOnly(toClient'[d][r], GET_TAG_VALUE, Chosen')
    BY <1>1, <1>4, ReceiveCarries, CarriesMore
  <2>5. ASSUME NEW d \in Clients, pc'[d] # "idle", Kind(d)' = "read"
        PROVE  \/ pc'[d] = GET_TAG_VALUE /\ tag'[d] = NoTag
               \/ [tag |-> tag'[d], val |-> val'[d]] \in Chosen'
    <3>1. CASE d = c
      BY <3>1, <1>4 DEF Holding
    <3>2. CASE d # c
      BY <2>5, <3>2, <1>3, <1>4 DEF Tagged, OnlyChosen
    <3> QED
      BY <3>1, <3>2
  <2>6. /\ \A r \in Servers : Stored(r)' \in Chosen'
        /\ \A r \in done' : [tag |-> r.tag, val |-> r.val] \in Chosen'
    BY <1>1, <1>4, ReceiveCarries DEF Tagged, OnlyChosen
  <2> QED
    BY <2>3, <2>4, <2>5, <2>6 DEF OnlyChosen
<1> QED
  BY <1>6, <1>7, <1>8, <1>9 DEF Tagged

\* What a call returns or has written is a chosen value, and stays one.
LEMMA ReturnChosen ==
    ASSUME TypeOK, Tagged, NEW c \in Clients, NEW s \in Servers, Return(c, s)
    PROVE  Chosen' = Chosen /\ Holding(c) \in Chosen /\ Kind(c) \in Kinds
<1> DEFINE new == [client |-> c, call |-> call[c], kind |-> Kind(c),
                   tag |-> tag[c], val |-> val[c], before |-> before[c]]
<1>1. /\ Receive(c, s) /\ pc[c] = WRITE_VALUE
      /\ call' = call /\ tag' = tag /\ val' = val
      /\ pc' = [pc EXCEPT ![c] = "idle"] /\ done' = done \cup {new}
  BY DEF Return, Receive
<1>2. Kind(c) \in Kinds
  BY <1>1, TypeReceive DEF Kind
<1>3. new.kind = Kind(c) /\ Of(new) = Holding(c)
  BY DEF Of, Holding
<1>4. /\ ~Writing(c)' /\ (Writing(c) <=> Kind(c) = "write")
      /\ \A d \in Clients : Holding(d)' = Holding(d)
      /\ \A d \in Clients : d # c => (Writing(d)' <=> Writing(d))
  BY <1>1 DEF Writing, Holding, Kind, TypeOK
<1>5. \A o : o \in Chosen' <=> o \in Chosen
  <2> HIDE DEF new
  <2> QED
    BY <1>1, <1>3, <1>4, ChosenMembers
<1>6. Holding(c) \in Chosen
  <2>1. CASE Kind(c) = "write"
    BY <2>1, <1>4, ChosenMembers
  <2>2. CASE Kind(c) = "read"
    BY <2>2, <1>1 DEF Tagged, OnlyChosen, Holding
  <2> QED
    BY <2>1, <2>2, <1>2 DEF Kinds
<1> QED
  BY <1>2, <1>5, <1>6

LEMMA TaggedReturn ==
    ASSUME TypeOK, Tagged, Freshness, NEW c \in Clients, NEW s \in Servers, Return(c, s)
    PROVE  Tagged'
<1> DEFINE new == [client |-> c, call |-> call[c], kind |-> Kind(c),
                   tag |-> tag[c], val |-> val[c], before |-> before[c]]
<1>1. /\ Receive(c, s) /\ pc[c] = WRITE_VALUE
      /\ call' = call /\ tag' = tag /\ val' = val /\ before' = before /\ toServer' = toServer
      /\ pc' = [pc EXCEPT ![c] = "idle"] /\ done' = done \cup {new}
  BY DEF Return, Receive
<1>2. /\ pc'[c] = "idle" /\ \A d \in Clients : d # c => pc'[d] = pc[d]
      /\ \A d \in Clients : Kind(d)' = Kind(d)
  BY <1>1 DEF TypeOK, Kind
<1>3. Chosen' = Chosen /\ Holding(c) \in Chosen
  BY ReturnChosen
<1>4. /\ new.client = c /\ new.call = call[c] /\ new.kind = Kind(c)
      /\ new.tag = tag[c] /\ new.val = val[c] /\ Id(new) = <<c, call[c]>>
  BY DEF Id
<1> HIDE DEF new
\* Nobody has seen this result yet, and c has made no later call.
<1>5. ASSUME NEW r \in done, r.client = c
      PROVE  r.call < call[c]
  <2>1. r.call <= call[c] /\ r.call # call[c]
    BY <1>1, <1>5 DEF Freshness, FreshnessBut, Recorded
  <2>2. r.call \in Nat /\ call[c] \in Nat
    BY KnownTags DEF TypeOK
  <2> QED
    BY <2>1, <2>2
<1>6. \A r \in done : Id(r) # Id(new)
  <2> SUFFICES ASSUME NEW r \in done, Id(r) = <<c, call[c]>> PROVE FALSE
    BY <1>4
  <2>1. r.client = c /\ r.call = call[c] /\ call[c] \in Nat
    BY DEF Id, TypeOK
  <2> QED
    BY <2>1, <1>5
<1>7. OneResult'
  <2>1. ASSUME NEW x \in done', NEW r \in done', Id(x) = Id(r)
        PROVE  x = r
    BY <2>1, <1>1, <1>6 DEF Tagged, OneResult
  <2>2. ASSUME NEW x \in done', pc'[x.client] # "idle"
        PROVE  Id(x) \in before'[x.client]
    <3>1. x \in done /\ x.client # c /\ x.client \in Clients
      BY <2>2, <1>1, <1>2, <1>4, KnownTags
    <3> QED
      BY <2>2, <3>1, <1>1, <1>2 DEF Tagged, OneResult
  <2> QED
    BY <2>1, <2>2 DEF OneResult
<1>8. KindOfPhase'
  BY <1>2 DEF Tagged, KindOfPhase
<1>9. WritesOwn'
  <2>1. ASSUME NEW d \in Clients, pc'[d] # "idle", Kind(d)' = "write"
        PROVE  /\ val'[d] = <<d, call'[d]>>
               /\ pc'[d] = WRITE_VALUE => IsOwn(d, tag'[d])
    BY <2>1, <1>1, <1>2 DEF Tagged, WritesOwn
  <2>2. ASSUME NEW r \in done', r.kind = "write"
        PROVE  r.val = Id(r) /\ r.call > 0 /\ IsOwn(r.client, r.tag)
    <3>1. CASE r \in done
      BY <2>2, <3>1 DEF Tagged, WritesOwn
    <3>2. CASE r = new
      <4>1. val[c] = <<c, call[c]>> /\ IsOwn(c, tag[c])
        BY <2>2, <3>2, <1>1, <1>4 DEF Tagged, WritesOwn
      <4>2. call[c] > 0
        BY <1>1 DEF TypeOK
      <4> QED
        BY <3>2, <4>1, <4>2, <1>4
    <3> QED
      BY <3>1, <3>2, <1>1
  <2> QED
    BY <2>1, <2>2 DEF WritesOwn
<1>10. OwnTagsGrow'
  <2>1. ASSUME NEW d \in Clients, NEW x \in done', pc'[d] = WRITE_VALUE, Kind(d)' = "write",
               x.client = d
        PROVE  x.tag.z < tag'[d].z
    <3>1. d # c /\ x \in done
      BY <2>1, <1>1, <1>2, <1>4
    <3> QED
      BY <2>1, <3>1, <1>1, <1>2 DEF Tagged, OwnTagsGrow
  <2>2. ASSUME NEW x \in done', NEW r \in done', x.client = r.client, x.call < r.call,
               r.kind = "write"
        PROVE  x.tag.z < r.tag.z
    <3>1. CASE x \in done /\ r \in done
      BY <2>2, <3>1 DEF Tagged, OwnTagsGrow
    <3>2. CASE x \in done /\ r = new
      BY <2>2, <3>2, <1>1, <1>4 DEF Tagged, OwnTagsGrow
    <3>3. CASE x = new /\ r \in done
      <4>1. r.call < call[c] /\ call[c] < r.call
        BY <2>2, <3>3, <1>4, <1>5
      <4>2. r.call \in Nat /\ call[c] \in Nat
        BY <3>3, KnownTags DEF TypeOK
      <4> QED
        BY <4>1, <4>2
    <3>4. CASE x = new /\ r = new
      <4>1. call[c] \in Nat
        BY DEF TypeOK
      <4> QED
        BY <2>2, <3>4, <4>1, <1>4
    <3> QED
      BY <3>1, <3>2, <3>3, <3>4, <1>1
  <2> QED
    BY <2>1, <2>2 DEF OwnTagsGrow
<1>11. OnlyChosen'
  <2>1. \A d \in Clients : pc'[d] # "idle" /\ Kind(d)' = "read" =>
           \/ pc'[d] = GET_TAG_VALUE /\ tag'[d] = NoTag
           \/ [tag |-> tag'[d], val |-> val'[d]] \in Chosen'
    BY <1>1, <1>2, <1>3 DEF Tagged, OnlyChosen
  <2>2. \A r \in done' : [tag |-> r.tag, val |-> r.val] \in Chosen'
    BY <1>1, <1>3, <1>4 DEF Tagged, OnlyChosen, Holding
  <2>3. /\ \A r \in Servers : Stored(r)' \in Chosen'
        /\ \A d \in Clients, r \in Servers :
              /\ CarriesOnly(toServer'[d][r], WRITE_VALUE, Chosen')
              /\ CarriesOnly(toClient'[d][r], GET_TAG_VALUE, Chosen')
    BY <1>1, <1>3, ReceiveCarries DEF Tagged, OnlyChosen
  <2> QED
    BY <2>1, <2>2, <2>3 DEF OnlyChosen
<1> QED
  BY <1>7, <1>8, <1>9, <1>10, <1>11 DEF Tagged

LEMMA TaggedCrash ==
    ASSUME TypeOK, Tagged, NEW c \in Clients, Crash(c)
    PROVE  Tagged'
<1>1. /\ toClient' = [toClient EXCEPT ![c] = [s \in Servers |-> <<>>]]
      /\ store' = store /\ call' = call /\ pc' = pc /\ tag' = tag /\ val' = val
      /\ before' = before /\ done' = done
  BY DEF Crash
<1>2. OneResult' /\ KindOfPhase' /\ WritesOwn' /\ OwnTagsGrow' /\ Chosen' = Chosen
  BY <1>1, WorkKept
<1>3. PICK kept \in [Servers -> UNION {0 .. Len(toServer[c][s]) : s \in Servers}] :
         /\ \A s \in Servers : kept[s] <= Len(toServer[c][s])
         /\ toServer' = [toServer EXCEPT
                           ![c] = [s \in Servers |-> SubSeq(@[s], 1, kept[s])]]
  BY DEF Crash
<1>4. ASSUME NEW d \in Clients, NEW r \in Servers
      PROVE  /\ CarriesOnly(toServer'[d][r], WRITE_VALUE, Chosen)
             /\ CarriesOnly(toClient'[d][r], GET_TAG_VALUE, Chosen)
  <2>1. /\ CarriesOnly(toServer[d][r], WRITE_VALUE, Chosen)
        /\ CarriesOnly(toClient[d][r], GET_TAG_VALUE, Chosen)
    BY DEF Tagged, OnlyChosen
  <2>2. CASE d # c
    BY <2>1, <2>2, <1>1, <1>3 DEF TypeOK
  <2>3. CASE d = c
    <3>1. toServer[c][r] \in Seq(GetRequest \cup WriteRequest)
      BY ChannelTypes
    <3>2. kept[r] \in 0 .. Len(toServer[c][r])
      <4>1. PICK q \in Servers : kept[r] \in 0 .. Len(toServer[c][q])
        BY <1>3
      <4>2. Len(toServer[c][q]) \in Nat /\ Len(toServer[c][r]) \in Nat
        BY ChannelTypes, SeqLength
      <4> QED
        BY <4>1, <4>2, <1>3
    <3>3. toServer'[c][r] = SubSeq(toServer[c][r], 1, kept[r]) /\ toClient'[c][r] = <<>>
      BY <1>1, <1>3 DEF TypeOK
    <3>4. CarriesOnly(SubSeq(toServer[c][r], 1, kept[r]), WRITE_VALUE, Chosen)
      BY <2>1, <2>3, <3>1, <3>2, CarriesPrefix
    <3>5. CarriesOnly(<<>>, GET_TAG_VALUE, Chosen)
      BY DEF CarriesOnly
    <3> QED
      BY <2>3, <3>3, <3>4, <3>5
  <2> QED
    BY <2>2, <2>3
<1>5. OnlyChosen'
  BY <1>1, <1>2, <1>4 DEF Tagged, OnlyChosen, Stored, Kind
<1> QED
  BY <1>2, <1>5 DEF Tagged

LEMMA TaggedNext ==
    ASSUME TypeOK, TypeOK', Freshness, Freshness', Tagged, [Next]_vars
    PROVE  Tagged'
<1>1. ASSUME NEW c \in Clients, ClientStep(c) PROVE Tagged'
  BY <1>1, TaggedBegin, TaggedSamePhase, TaggedEndGet, TaggedReturn DEF ClientStep
<1>2. ASSUME NEW c \in Clients, Crash(c) PROVE Tagged'
  BY <1>2, TaggedCrash
<1>3. ASSUME NEW c \in Clients, NEW s \in Servers, Serve(c, s) PROVE Tagged'
  BY <1>3, TaggedServe
<1>4. CASE UNCHANGED vars
  <2>1. /\ store' = store /\ toServer' = toServer /\ toClient' = toClient
        /\ call' = call /\ pc' = pc /\ tag' = tag /\ val' = val
        /\ before' = before /\ done' = done
    BY <1>4 DEF vars
  <2>2. OneResult' /\ KindOfPhase' /\ WritesOwn' /\ OwnTagsGrow' /\ Chosen' = Chosen
    BY <2>1, WorkKept
  <2>3. OnlyChosen'
    BY <2>1, <2>2 DEF Tagged, OnlyChosen, Stored, Kind
  <2> QED
    BY <2>2, <2>3 DEF Tagged
<1> QED
  BY <1>1, <1>2, <1>3, <1>4 DEF Next

\* Everything that the proofs below need of a state.
IInv == TypeOK /\ Messages /\ Freshness /\ Tagged

LEMMA Inductive ==
    ASSUME FreshNums
    PROVE  /\ Init => IInv
           /\ IInv /\ [Next]_vars => IInv'
<1>1. Init => IInv
  BY TypeInit, MessagesInit, FreshnessInit, TaggedInit DEF IInv, Freshness
<1>2. ASSUME IInv, [Next]_vars PROVE IInv'
  <2>1. TypeOK' /\ Messages'
    BY <1>2, TypeNext, MessagesNext DEF IInv
  <2>2. Freshness'
    BY <1>2, <2>1, FreshnessStep DEF IInv
  <2> QED
    BY <1>2, <2>1, <2>2, TaggedNext DEF IInv
<1> QED
  BY <1>1, <1>2

---------------------------------------------------------------------------
(* A tag stands for one value. *)

LEMMA ChosenTypes ==
    ASSUME TypeOK
    PROVE  \A o \in Chosen : o.tag \in Tag /\ o.val \in Values
<1>1. \A c \in Clients : Writing(c) => Holding(c).tag \in Tag /\ Holding(c).val \in Values
  BY DEF TypeOK, Writing, Holding
<1>2. \A r \in done : Of(r).tag \in Tag /\ Of(r).val \in Values
  BY DEF TypeOK, Result, Of
<1>3. InitObject.tag \in Tag /\ InitObject.val \in Values
  BY InitTypes DEF Object
<1> QED
  BY <1>1, <1>2, <1>3, ChosenMembers

\* The write that chose a value other than the initial one.
LEMMA ChosenBy ==
    ASSUME TypeOK, Freshness, Tagged, NEW o \in Chosen, o # InitObject
    PROVE  \E c \in Clients, k \in Nat :
              /\ k > 0 /\ o.val = <<c, k>> /\ IsOwn(c, o.tag) /\ o.tag \in Tag
              /\ \/ Writing(c) /\ k = call[c] /\ o = Holding(c)
                 \/ \E r \in done : /\ r.kind = "write" /\ r.client = c /\ r.call = k
                                    /\ o = Of(r) /\ (Writing(c) => k # call[c])
<1>1. CASE \E c \in Clients : Writing(c) /\ o = Holding(c)
  <2>1. PICK c \in Clients : Writing(c) /\ o = Holding(c)
    BY <1>1
  <2>2. val[c] = <<c, call[c]>> /\ IsOwn(c, tag[c])
    BY <2>1 DEF Tagged, WritesOwn, Writing
  <2>3. call[c] \in Nat /\ call[c] > 0 /\ tag[c] \in Tag
    BY <2>1 DEF TypeOK, Writing
  <2> QED
    BY <2>1, <2>2, <2>3 DEF Holding
<1>2. CASE \E r \in done : r.kind = "write" /\ o = Of(r)
  <2>1. PICK r \in done : r.kind = "write" /\ o = Of(r)
    BY <1>2
  <2>2. r.val = Id(r) /\ r.call > 0 /\ IsOwn(r.client, r.tag)
    BY <2>1 DEF Tagged, WritesOwn
  <2>3. r.client \in Clients /\ r.call \in Nat /\ r.tag \in Tag
    BY KnownTags
  <2>4. Writing(r.client) => r.call # call[r.client]
    BY DEF Freshness, FreshnessBut, Recorded, Writing
  <2> QED
    BY <2>1, <2>2, <2>3, <2>4 DEF Of, Id
<1> QED
  BY <1>1, <1>2, ChosenMembers

LEMMA OneValue ==
    ASSUME TypeOK, Freshness, Tagged, NEW o \in Chosen, NEW p \in Chosen
    PROVE  o.tag = p.tag <=> o.val = p.val
<1>1. InitObject.tag.z = 0 /\ InitObject.val = <<Client0, 0>>
  BY DEF InitObject, InitTag, InitVal
<1>2. ASSUME NEW x \in Chosen, x # InitObject
      PROVE  x.tag # InitObject.tag /\ x.val # InitObject.val
  BY <1>1, <1>2, ChosenBy DEF IsOwn
<1>3. CASE o = InitObject \/ p = InitObject
  BY <1>2, <1>3
<1>4. CASE o # InitObject /\ p # InitObject
  <2>1. PICK c \in Clients, k \in Nat :
           /\ k > 0 /\ o.val = <<c, k>> /\ IsOwn(c, o.tag) /\ o.tag \in Tag
           /\ \/ Writing(c) /\ k = call[c] /\ o = Holding(c)
              \/ \E r \in done : /\ r.kind = "write" /\ r.client = c /\ r.call = k
                                 /\ o = Of(r) /\ (Writing(c) => k # call[c])
    BY <1>4, ChosenBy
  <2>2. PICK d \in Clients, l \in Nat :
           /\ l > 0 /\ p.val = <<d, l>> /\ IsOwn(d, p.tag) /\ p.tag \in Tag
           /\ \/ Writing(d) /\ l = call[d] /\ p = Holding(d)
              \/ \E r \in done : /\ r.kind = "write" /\ r.client = d /\ r.call = l
                                 /\ p = Of(r) /\ (Writing(d) => l # call[d])
    BY <1>4, ChosenBy
  <2>3. CASE c # d
    BY <2>1, <2>2, <2>3 DEF IsOwn
  <2>4. CASE c = d /\ Writing(c) /\ k = call[c] /\ o = Holding(c)
    <3>1. CASE l = call[c] /\ p = Holding(c)
      BY <2>4, <3>1
    <3>2. CASE \E r \in done : /\ r.kind = "write" /\ r.client = d /\ r.call = l
                               /\ p = Of(r) /\ l # call[c]
      <4>1. p.tag.z < o.tag.z
        BY <2>4, <3>2 DEF Tagged, OwnTagsGrow, Writing, Holding, Of
      <4>2. p.tag.z \in Nat /\ o.tag.z \in Nat
        BY <2>1, <2>2 DEF Tag
      <4> QED
        BY <2>1, <2>2, <2>4, <3>2, <4>1, <4>2
    <3> QED
      BY <2>2, <2>4, <3>1, <3>2
  <2>5. CASE c = d /\ \E r \in done : /\ r.kind = "write" /\ r.client = c /\ r.call = k
                                      /\ o = Of(r) /\ (Writing(c) => k # call[c])
    <3>1. PICK r \in done : /\ r.kind = "write" /\ r.client = c /\ r.call = k
                            /\ o = Of(r) /\ (Writing(c) => k # call[c])
      BY <2>5
    <3>2. o.tag.z \in Nat /\ p.tag.z \in Nat
      BY <2>1, <2>2 DEF Tag
    <3>3. CASE Writing(c) /\ l = call[c] /\ p = Holding(c)
      <4>1. o.tag.z < p.tag.z
        BY <3>1, <3>3 DEF Tagged, OwnTagsGrow, Writing, Holding, Of
      <4> QED
        BY <2>1, <2>2, <2>5, <3>1, <3>2, <3>3, <4>1
    <3>4. CASE \E x \in done : x.kind = "write" /\ x.client = c /\ x.call = l /\ p = Of(x)
      <4>1. PICK x \in done : x.kind = "write" /\ x.client = c /\ x.call = l /\ p = Of(x)
        BY <3>4
      <4>2. CASE k = l
        BY <3>1, <4>1, <4>2 DEF Tagged, OneResult, Id
      <4>3. CASE k < l
        <5>1. o.tag.z < p.tag.z
          BY <3>1, <4>1, <4>3 DEF Tagged, OwnTagsGrow, Of
        <5> QED
          BY <2>1, <2>2, <3>2, <4>3, <5>1
      <4>4. CASE l < k
        <5>1. p.tag.z < o.tag.z
          BY <3>1, <4>1, <4>4 DEF Tagged, OwnTagsGrow, Of
        <5> QED
          BY <2>1, <2>2, <3>2, <4>4, <5>1
      <4> QED
        BY <4>2, <4>3, <4>4
    <3> QED
      BY <2>2, <2>5, <3>3, <3>4
  <2> QED
    BY <2>1, <2>3, <2>4, <2>5
<1> QED
  BY <1>3, <1>4

(***************************************************************************)
(* The counters of a client's writes grow, its calls have one result each, *)
(* and nothing that moves in the system was not chosen by some write.      *)
(***************************************************************************)
THEOREM NothingUnchosen ==
    ASSUME FreshNums
    PROVE  Spec => []Tagged
<1>1. IInv => Tagged
  BY DEF IInv
<1> QED
  BY <1>1, Inductive, PTL DEF Spec

(***************************************************************************)
(* Whatever strcmp returns, no two writes choose the same tag, and no      *)
(* server, message or result has a value under another tag than the one    *)
(* that its write chose.                                                   *)
(***************************************************************************)
THEOREM TagsStandForValues ==
    ASSUME FreshNums
    PROVE  Spec => []TagDeterminesValue
<1>1. ASSUME IInv PROVE TagDeterminesValue
  <2>1. \A o, p \in Chosen : o.tag = p.tag <=> o.val = p.val
    BY <1>1, OneValue DEF IInv
  <2>2. Carried \subseteq Chosen
    <3>1. OnlyChosen
      BY <1>1 DEF IInv, Tagged
    <3> SUFFICES ASSUME NEW o \in Carried PROVE o \in Chosen
      OBVIOUS
    <3>2. CASE o \in {Stored(s) : s \in Servers}
      BY <3>1, <3>2 DEF OnlyChosen
    <3>3. CASE \E c \in Clients, s \in Servers : \E i \in DOMAIN toServer[c][s] :
                  /\ toServer[c][s][i].phase = WRITE_VALUE
                  /\ o = [tag |-> toServer[c][s][i].tag, val |-> toServer[c][s][i].val]
      BY <3>1, <3>3 DEF OnlyChosen, CarriesOnly
    <3>4. CASE \E c \in Clients, s \in Servers : \E i \in DOMAIN toClient[c][s] :
                  /\ toClient[c][s][i].phase = GET_TAG_VALUE
                  /\ o = [tag |-> toClient[c][s][i].tag, val |-> toClient[c][s][i].val]
      BY <3>1, <3>4 DEF OnlyChosen, CarriesOnly
    <3>5. CASE o \in {[tag |-> r.tag, val |-> r.val] : r \in done}
      BY <3>1, <3>5 DEF OnlyChosen
    <3> QED
      BY <3>2, <3>3, <3>4, <3>5 DEF Carried
  <2> QED
    BY <2>1, <2>2 DEF TagDeterminesValue
<1> QED
  BY <1>1, Inductive, PTL DEF Spec

---------------------------------------------------------------------------
(* ABD implements the atomic register. *)

\* The state of the register that a state of ABD stands for.
values == Vals(Chosen)
prior  == TagOrder(Chosen)
busy   == {c \in Clients : pc[c] # "idle"}
results  == {Brief(r) : r \in done}

\* The order of two values is that of the tags their writes chose.
LEMMA PriorOfTags ==
    ASSUME TypeOK, Freshness, Tagged
    PROVE  /\ OneToOne(Chosen)
           /\ \A o, p \in Chosen : <<o.val, p.val>> \in prior <=> Above(p.tag, o.tag)
<1>1. OneToOne(Chosen)
  BY OneValue DEF OneToOne
<1> QED
  BY <1>1, OrderOfTags DEF prior

LEMMA RegisterInit == Init => Register!Init
<1> SUFFICES ASSUME Init PROVE Register!Init
  OBVIOUS
<1>1. Chosen = {InitObject}
  <2>1. \A o : o \in Chosen <=> o = InitObject
    BY ChosenMembers DEF Init, Writing
  <2> QED
    BY <2>1
<1>2. values = {InitVal}
  BY <1>1 DEF values, Vals, InitObject
<1>3. prior = {}
  <2>1. ~Above(InitObject.tag, InitObject.tag)
    BY DEF Above
  <2> QED
    BY <1>1, <2>1 DEF prior, TagOrder
<1>4. busy = {} /\ results = {}
  BY DEF Init, busy, results
<1> QED
  BY <1>2, <1>3, <1>4 DEF Register!Init, Init, values, prior, busy, results, Brief

\* The values and their order depend on nothing but the chosen tagged values.
LEMMA SameOrder ==
    ASSUME Chosen' = Chosen
    PROVE  values' = values /\ prior' = prior
BY DEF values, prior

LEMMA BeginInvokes ==
    ASSUME TypeOK, NEW c \in Clients, Begin(c)
    PROVE  Register!Invoke(c)
<1>1. /\ pc[c] = "idle" /\ pc' = [pc EXCEPT ![c] = pc'[c]] /\ pc'[c] # "idle"
      /\ call[c] < Len(Script[c]) /\ call' = [call EXCEPT ![c] = @ + 1]
      /\ before' = [before EXCEPT ![c] = {Id(r) : r \in done}] /\ done' = done
  BY DEF Begin, TypeOK
<1>2. values' = values /\ prior' = prior
  BY BeginChosen, SameOrder
<1>3. c \notin busy /\ busy' = busy \cup {c}
  BY <1>1 DEF busy, TypeOK
<1>4. results' = results
  BY <1>1 DEF results
<1>5. {Id(r) : r \in done} = {Register!Id(r) : r \in results}
  <2>1. \A r \in done : Brief(r) \in results /\ Register!Id(Brief(r)) = Id(r)
    BY DEF results, Brief, Id, Register!Id
  <2>2. \A b \in results : \E r \in done : b = Brief(r)
    BY DEF results
  <2> QED
    BY <2>1, <2>2
<1> QED
  BY <1>1, <1>2, <1>3, <1>4, <1>5
     DEF Register!Invoke, values, prior, busy, results, Brief

\* The values a call knows of are those of tags that its own tag exceeds.
LEMMA KnownValues ==
    ASSUME TypeOK, Tagged, NEW c \in Clients, NEW u \in Register!Known(c)
    PROVE  \/ u = InitObject.val
           \/ \E x \in done : Id(x) \in before[c] /\ u = x.val /\ Of(x) \in Chosen
<1>1. \A x \in done : Of(x) \in Chosen
  BY DEF Tagged, OnlyChosen, Of
<1>2. CASE u = InitVal
  BY <1>2 DEF InitObject
<1>3. CASE \E r \in results : Register!Id(r) \in before[c] /\ u = r.val
  BY <1>1, <1>3, SMTT(30) DEF results, Brief, Register!Id, Id
<1> QED
  BY <1>2, <1>3 DEF Register!Known, results, Brief

LEMMA EndGetPublishes ==
    ASSUME IInv, IInv', NEW c \in Clients, NEW s \in Servers, EndGet(c, s), Kind(c) = "write"
    PROVE  Register!Publish(c)
<1> DEFINE v     == <<c, call[c]>>
           t     == tag'[c]
           new   == Holding(c)'
           lower == Below(Chosen, t)
<1>1. TypeOK /\ Freshness /\ Tagged /\ TypeOK' /\ Freshness' /\ Tagged'
  BY DEF IInv
<1>2. /\ pc[c] \in GetPhases /\ pc'[c] = WRITE_VALUE /\ c \in alive'
      /\ \A d \in Clients : d # c => pc'[d] = pc[d]
      /\ call' = call /\ before' = before /\ done' = done
  BY <1>1 DEF EndGet, Receive, TypeOK
<1>3. /\ Chosen' = Chosen \cup {new} /\ new.val = v /\ new.tag = t
      /\ val'[c] = v /\ IsOwn(c, t) /\ t \in Tag
  <2>1. t \in Tag
    BY <1>1, <1>2 DEF TypeOK
  <2> QED
    BY <1>1, <2>1, EndGetChosen DEF Holding
\* Neither the value nor the tag has been chosen before.
<1>4. \A p \in Chosen : p.val # v /\ p.tag # t /\ p.tag \in Tag
  <2> TAKE p \in Chosen
  <2>1. CASE p = InitObject
    <3>1. call[c] > 0 /\ t.z > 0
      BY <1>1, <1>2, <1>3 DEF TypeOK, IsOwn
    <3>2. InitObject.tag.z = 0 /\ InitObject.val = <<Client0, 0>> /\ InitObject.tag \in Tag
      BY InitTypes DEF InitObject, InitTag, InitVal
    <3> HIDE DEF t
    <3> QED
      BY <2>1, <3>1, <3>2
  <2>2. CASE p # InitObject
    <3>1. PICK d \in Clients, k \in Nat :
             /\ k > 0 /\ p.val = <<d, k>> /\ IsOwn(d, p.tag) /\ p.tag \in Tag
             /\ \/ Writing(d) /\ k = call[d] /\ p = Holding(d)
                \/ \E r \in done : /\ r.kind = "write" /\ r.client = d /\ r.call = k
                                   /\ p = Of(r) /\ (Writing(d) => k # call[d])
      BY <2>2, <1>1, ChosenBy
    <3>2. CASE d # c
      BY <3>1, <3>2, <1>3 DEF IsOwn
    <3>3. CASE d = c
      <4>1. PICK r \in done : /\ r.kind = "write" /\ r.client = c /\ r.call = k /\ p = Of(r)
        BY <3>1, <3>3, <1>2 DEF Writing
      <4>2. k # call[c]
        BY <4>1, <1>1, <1>2 DEF Freshness, FreshnessBut, Recorded
      <4>3. Kind(c)' = "write"
        BY <1>2 DEF Kind
      <4>4. r.tag.z < t.z
        BY <4>1, <4>3, <1>1, <1>2 DEF Tagged, OwnTagsGrow
      <4> QED
        BY <3>1, <3>3, <4>1, <4>2, <4>4, <1>3 DEF Of, Tag
    <3> QED
      BY <3>2, <3>3
  <2> QED
    BY <2>1, <2>2
<1>5. /\ \A o \in Chosen' : o.tag \in Tag
      /\ OneToOne(Chosen') /\ \A p \in Chosen : p.tag # new.tag
  <2>1. \A o, p \in Chosen' : o.tag = p.tag <=> o.val = p.val
    BY <1>1, <1>3, <1>4, OneValue
  <2> QED
    BY <2>1, <1>3, <1>4 DEF OneToOne
<1> HIDE DEF v, t, new
<1>6. /\ v \notin values /\ values' = values \cup {v} /\ lower \in SUBSET values
      /\ \A p \in Chosen : p.val \in lower <=> Above(t, p.tag)
      /\ \A u \in values, w \in lower : <<u, w>> \in prior => u \in lower
      /\ prior' = prior \cup (lower \X {v}) \cup ({v} \X (values \ lower))
  <2> DEFINE S == Chosen
             T == Chosen'
  <2>1. /\ T = S \cup {new} /\ \A o \in T : o.tag \in Tag
        /\ OneToOne(T) /\ \A p \in S : p.tag # new.tag
    BY <1>3, <1>5
  <2>2. /\ v \notin Vals(S) /\ Vals(T) = Vals(S) \cup {v} /\ lower \in SUBSET Vals(S)
        /\ \A p \in S : p.val \in lower <=> Above(t, p.tag)
        /\ \A u \in Vals(S), w \in lower : <<u, w>> \in TagOrder(S) => u \in lower
        /\ TagOrder(T) = TagOrder(S) \cup (lower \X {v}) \cup ({v} \X (Vals(S) \ lower))
    <3>1. v = new.val /\ lower = Below(S, new.tag) /\ t = new.tag
      BY <1>3
    <3> HIDE DEF S, T, lower
    <3> QED
      BY <2>1, <3>1, OrderInserts
  <2> QED
    BY <2>2 DEF values, prior
<1> HIDE DEF lower
<1>7. Register!Known(c) \subseteq lower
  <2> SUFFICES ASSUME NEW u \in Register!Known(c) PROVE u \in lower
    OBVIOUS
  <2>1. CASE u = InitObject.val
    <3>1. InitObject \in Chosen
      BY ChosenMembers
    <3>2. t.z > InitObject.tag.z
      BY <1>3 DEF IsOwn, InitObject, InitTag, t
    <3> QED
      BY <2>1, <3>1, <3>2, <1>3, <1>4, <1>6, AboveOrder
  <2>2. CASE \E x \in done : Id(x) \in before[c] /\ u = x.val /\ Of(x) \in Chosen
    <3>1. PICK x \in done : Id(x) \in before[c] /\ u = x.val /\ Of(x) \in Chosen
      BY <2>2
    <3>2. Exceeds(Kind(c)', t, x.tag)
      BY <3>1, <1>1, <1>2, FreshChosenNext DEF t
    <3>3. t.z > Of(x).tag.z
      BY <3>2, <1>2 DEF Exceeds, Kind, Of
    <3>4. Of(x).val = u
      BY <3>1 DEF Of
    <3> QED
      BY <3>1, <3>3, <3>4, <1>3, <1>4, <1>6, AboveOrder
  <2> QED
    BY <2>1, <2>2, <1>1, KnownValues
<1>8. c \in busy /\ busy' = busy /\ results' = results
  BY <1>2 DEF busy, results
<1> QED
  BY <1>2, <1>6, <1>7, <1>8
     DEF Register!Publish, Register!Insert, Register!Kind, Kind, values, prior, busy, results,
         Brief, v

\* A read returns a value that nothing it could know of comes after.
LEMMA ReturnReturns ==
    ASSUME UnitStrCmp, IInv, NEW c \in Clients, NEW s \in Servers, Return(c, s)
    PROVE  Register!Return(c)
<1> DEFINE new == [client |-> c, call |-> call[c], kind |-> Kind(c),
                   tag |-> tag[c], val |-> val[c], before |-> before[c]]
           v   == val[c]
<1>1. TypeOK /\ Freshness /\ Tagged
  BY DEF IInv
<1>2. /\ c \in alive /\ pc[c] = WRITE_VALUE /\ call' = call /\ before' = before
      /\ pc' = [pc EXCEPT ![c] = "idle"] /\ done' = done \cup {new}
  BY DEF Return, Receive
<1>3. Chosen' = Chosen /\ Holding(c) \in Chosen /\ Holding(c).val = v /\ Holding(c).tag = tag[c]
  BY <1>1, ReturnChosen DEF Holding
<1>4. c \in busy /\ busy' = busy \ {c} /\ v \in values
  BY <1>1, <1>2, <1>3 DEF busy, values, Vals, TypeOK
<1>5. Kind(c) = "write" => v = <<c, call[c]>>
  BY <1>1, <1>2 DEF Tagged, WritesOwn
<1>6. ASSUME Kind(c) = "read", NEW u \in Register!Known(c)
      PROVE  u = v \/ <<u, v>> \in prior
  <2>1. \A o \in Chosen : o.tag \in Tag
    BY <1>1, ChosenTypes
  <2>2. ASSUME NEW o \in Chosen, u = o.val, o.tag = tag[c] \/ Above(tag[c], o.tag)
        PROVE  u = v \/ <<u, v>> \in prior
    BY <2>2, <1>1, <1>3, OneValue, PriorOfTags
  <2>3. CASE u = InitObject.val
    <3>1. InitObject \in Chosen /\ InitObject.tag.z = 0
      BY ChosenMembers DEF InitObject, InitTag
    <3>2. CASE Holding(c) = InitObject
      BY <2>3, <3>2, <1>3
    <3>3. CASE Holding(c) # InitObject
      <4>1. tag[c].z > 0
        BY <3>3, <1>1, <1>3, ChosenBy DEF IsOwn
      <4>2. Above(tag[c], InitObject.tag)
        BY <3>1, <4>1, <2>1, <1>3, AboveOrder
      <4> QED
        BY <2>2, <2>3, <3>1, <4>2
    <3> QED
      BY <3>2, <3>3
  <2>4. CASE \E x \in done : Id(x) \in before[c] /\ u = x.val /\ Of(x) \in Chosen
    <3>1. PICK x \in done : Id(x) \in before[c] /\ u = x.val /\ Of(x) \in Chosen
      BY <2>4
    <3>2. Exceeds(Kind(c), tag[c], x.tag)
      BY <3>1, <1>1, <1>2, FreshChosen
    <3>3. AtLeast(tag[c], x.tag)
      BY <3>2, <1>6 DEF Exceeds, Newer
    <3> QED
      BY <2>2, <3>1, <3>3 DEF Above, Of
  <2> QED
    BY <2>3, <2>4, <1>1, KnownValues
<1>7. results' = results \cup {Brief(new)}
  BY <1>2 DEF results
<1>8. Brief(new) = [client |-> c, call |-> call[c], kind |-> Kind(c), val |-> v,
                    before |-> before[c]]
  BY DEF Brief
<1>9. values' = values /\ prior' = prior
  BY <1>3, SameOrder
<1> HIDE DEF new
<1>10. Register!MayReturn(c, v)
  BY <1>4, <1>5, <1>6 DEF Register!MayReturn, Register!Kind, Kind, values, prior
<1> QED
  BY <1>2, <1>4, <1>7, <1>8, <1>9, <1>10
     DEF Register!Return, Register!Kind, Kind, values, prior, busy, results, Brief

LEMMA RegisterStutters ==
    ASSUME Chosen' = Chosen, call' = call, before' = before, done' = done,
           \A c \in Clients : pc'[c] = "idle" <=> pc[c] = "idle"
    PROVE  UNCHANGED Register!vars
<1>1. values' = values /\ prior' = prior
  BY SameOrder
<1>2. busy' = busy /\ results' = results
  BY DEF busy, results
<1> QED
  BY <1>1, <1>2 DEF Register!vars, values, prior, busy, results, Brief

LEMMA StepIsRegisterStep ==
    ASSUME UnitStrCmp, IInv, IInv', [Next]_vars
    PROVE  [Register!Next]_(Register!vars)
<1>1. TypeOK /\ Tagged
  BY DEF IInv
<1>2. ASSUME NEW c \in Clients, Begin(c) PROVE Register!Next
  BY <1>1, <1>2, BeginInvokes DEF Register!Next
<1>3. ASSUME NEW c \in Clients, NEW s \in Servers, EndGet(c, s)
      PROVE  [Register!Next]_(Register!vars)
  <2>1. CASE Kind(c) = "write"
    BY <1>3, <2>1, EndGetPublishes DEF Register!Next
  <2>2. CASE Kind(c) = "read"
    <3>1. /\ pc[c] # "idle" /\ pc' = [pc EXCEPT ![c] = WRITE_VALUE]
          /\ call' = call /\ before' = before /\ done' = done
      BY <1>3 DEF EndGet, Receive
    <3>2. \A d \in Clients : pc'[d] = "idle" <=> pc[d] = "idle"
      BY <1>1, <3>1 DEF TypeOK
    <3> QED
      BY <1>1, <1>3, <2>2, <3>1, <3>2, EndGetChosen, RegisterStutters
  <2> QED
    BY <1>1, <1>3, <2>1, <2>2, EndGetChosen DEF Kinds
<1>4. ASSUME NEW c \in Clients, NEW s \in Servers, Return(c, s) PROVE Register!Next
  BY <1>4, ReturnReturns DEF Register!Next
<1>5. ASSUME NEW c \in Clients, NEW s \in Servers,
             OldMessage(c, s) \/ CountGet(c, s) \/ CountAck(c, s)
      PROVE  UNCHANGED Register!vars
  BY <1>1, <1>5, SamePhaseChosen, RegisterStutters
<1>6. ASSUME NEW c \in Clients, Crash(c) PROVE UNCHANGED Register!vars
  <2>1. call' = call /\ pc' = pc /\ tag' = tag /\ val' = val /\ before' = before /\ done' = done
    BY <1>6 DEF Crash
  <2> QED
    BY <1>1, <2>1, WorkKept, RegisterStutters
<1>7. ASSUME NEW c \in Clients, NEW s \in Servers, Serve(c, s) PROVE UNCHANGED Register!vars
  <2>1. UNCHANGED clientVars
    BY <1>1, <1>7, ServeMoves
  <2> QED
    BY <1>1, <2>1, WorkKept, RegisterStutters DEF clientVars
<1>8. CASE UNCHANGED vars
  BY <1>1, <1>8, WorkKept, RegisterStutters DEF vars
<1> QED
  BY <1>2, <1>3, <1>4, <1>5, <1>6, <1>7, <1>8 DEF Next, ClientStep

(***************************************************************************)
(* Where strcmp returns -1, 0 or 1, ABD implements the atomic register: a  *)
(* write takes its place in the order of the values when it has chosen its *)
(* tag, whoever is killed and however late the replies come.               *)
(***************************************************************************)
THEOREM ABDImplementsRegister ==
    ASSUME FreshNums, UnitStrCmp
    PROVE  Spec => ImplementsRegister
<1>1. Init => IInv /\ Register!Init
  BY Inductive, RegisterInit
<1>2. IInv /\ [Next]_vars => IInv'
  BY Inductive
<1>3. IInv /\ IInv' /\ [Next]_vars => [Register!Next]_(Register!vars)
  BY StepIsRegisterStep
<1> QED
  BY <1>1, <1>2, <1>3, PTL DEF Spec, ImplementsRegister, Register!Spec

(***************************************************************************)
(* Whatever strcmp returns, the values written are always in a total       *)
(* order, that of their tags.                                              *)
(***************************************************************************)
THEOREM ValuesAreOrdered ==
    ASSUME FreshNums
    PROVE  Spec => []Register!TotalOrder
<1>1. ASSUME IInv PROVE Register!TotalOrder
  <2>1. TypeOK /\ Freshness /\ Tagged
    BY <1>1 DEF IInv
  <2>2. OneToOne(Chosen) /\ \A o \in Chosen : o.tag \in Tag
    BY <2>1, ChosenTypes, PriorOfTags
  <2> QED
    BY <2>2, OrderIsTotal DEF Register!TotalOrder
<1> QED
  BY <1>1, Inductive, PTL DEF Spec

(***************************************************************************)
(* Where strcmp returns -1, 0 or 1, the values follow the calls: what a    *)
(* call returns or writes comes after the value of every call that had     *)
(* returned when it began, except that a read may return that value again. *)
(***************************************************************************)
THEOREM CallsFollowTheOrder ==
    ASSUME FreshNums, UnitStrCmp
    PROVE  Spec => []Register!RealTimeOrder
<1>1. ASSUME IInv PROVE Register!RealTimeOrder
  <2>1. TypeOK /\ Freshness /\ Tagged
    BY <1>1 DEF IInv
  <2>2. ASSUME NEW x \in done, NEW r \in done, Precedes(x, r)
        PROVE  \/ <<x.val, r.val>> \in prior
               \/ x.val = r.val /\ r.kind = "read"
    <3>1. Of(x) \in Chosen /\ Of(r) \in Chosen /\ Exceeds(r.kind, r.tag, x.tag)
      BY <2>1, <2>2, FreshChosen DEF Tagged, OnlyChosen, Of
    <3>2. /\ <<x.val, r.val>> \in prior <=> Above(r.tag, x.tag)
          /\ x.tag = r.tag <=> x.val = r.val
      BY <2>1, <3>1, PriorOfTags, OneValue DEF Of
    <3>3. x.tag \in Tag /\ r.tag \in Tag /\ r.kind \in Kinds
      BY <2>1 DEF TypeOK, Result
    <3>4. CASE r.kind = "write"
      BY <3>1, <3>2, <3>3, <3>4, AboveOrder DEF Exceeds
    <3>5. CASE r.kind = "read"
      BY <3>1, <3>2, <3>5 DEF Exceeds, Newer, Above
    <3> QED
      BY <3>3, <3>4, <3>5 DEF Kinds
  <2>3. ASSUME NEW b \in results, NEW e \in results, Register!Id(b) \in e.before
        PROVE  \/ <<b.val, e.val>> \in prior
               \/ b.val = e.val /\ e.kind = "read"
    <3>1. PICK x, r \in done : b = Brief(x) /\ e = Brief(r)
      BY DEF results
    <3>2. /\ b.val = x.val /\ e.val = r.val /\ e.kind = r.kind /\ e.before = r.before
          /\ Register!Id(b) = Id(x)
      BY <3>1 DEF Brief, Register!Id, Id
    <3> QED
      BY <2>2, <2>3, <3>1, <3>2 DEF Precedes
  <2> QED
    BY <2>3 DEF Register!RealTimeOrder, results, Brief, prior
<1> QED
  BY <1>1, Inductive, PTL DEF Spec

---------------------------------------------------------------------------
(* Atomicity. *)

\* The same register, with the theorems about it.
Proved == INSTANCE AtomicRegisterProofs WITH
    busy   <- {c \in Clients : pc[c] # "idle"},
    values <- Vals(Chosen),
    prior  <- TagOrder(Chosen),
    done   <- {Brief(r) : r \in done}

LEMMA SameRegister ==
    /\ Register!Spec => Proved!Spec
    /\ Proved!Linearizable => Register!Linearizable
<1>1. Register!Init => Proved!Init
  BY DEF Register!Init, Proved!Init
<1>2. Register!Next => Proved!Next
  <2>1. ASSUME NEW c \in Clients, Register!Invoke(c) PROVE Proved!Invoke(c)
    BY <2>1 DEF Register!Invoke, Proved!Invoke, Register!Id, Proved!Id
  <2>2. ASSUME NEW c \in Clients, Register!Publish(c) PROVE Proved!Publish(c)
    BY <2>2 DEF Register!Publish, Proved!Publish, Register!Kind, Proved!Kind, Register!Insert,
                Proved!Insert, Register!Known, Proved!Known, Register!Id, Proved!Id
  <2>3. ASSUME NEW c \in Clients, Register!Return(c) PROVE Proved!Return(c)
    BY <2>3 DEF Register!Return, Proved!Return, Register!Kind, Proved!Kind, Register!MayReturn,
                Proved!MayReturn, Register!Known, Proved!Known, Register!Id, Proved!Id
  <2> QED
    BY <2>1, <2>2, <2>3 DEF Register!Next, Proved!Next
<1>3. (UNCHANGED Register!vars) => UNCHANGED Proved!vars
  BY DEF Register!vars, Proved!vars
<1>4. [Register!Next]_(Register!vars) => [Proved!Next]_(Proved!vars)
  BY <1>2, <1>3
<1>5. Proved!Linearizable => Register!Linearizable
  BY DEF Register!Linearizable, Proved!Linearizable, Register!HasLinearOrder,
         Proved!HasLinearOrder, Register!MayComeFirst, Proved!MayComeFirst,
         Register!PendingWrites, Proved!PendingWrites, Register!Kind, Proved!Kind,
         Register!Id, Proved!Id
<1> QED
  BY <1>1, <1>4, <1>5, PTL DEF Register!Spec, Proved!Spec

(***************************************************************************)
(* Where strcmp returns -1, 0 or 1, ABD is atomic: the calls that have     *)
(* returned, with the writes whose value has been read, can be put in one  *)
(* sequence that agrees with real time, in which each read returns what    *)
(* the last write before it wrote.                                         *)
(***************************************************************************)
THEOREM ABDIsAtomic ==
    ASSUME FreshNums, UnitStrCmp
    PROVE  Spec => []Atomicity
<1>1. Proved!RegisterAssumption
  <2>1. InitVal \notin Clients \X (Nat \ {0})
    BY NamesAssumption, CallsAssumption DEF InitVal
  <2> QED
    BY <2>1, CallsAssumption DEF Proved!RegisterAssumption, Kinds
<1>2. Proved!Spec => []Proved!Linearizable
  BY <1>1, Proved!RegisterIsAtomic
<1>3. Spec => Register!Spec
  BY ABDImplementsRegister DEF ImplementsRegister
<1> QED
  BY <1>2, <1>3, SameRegister, PTL DEF Atomicity
=============================================================================
