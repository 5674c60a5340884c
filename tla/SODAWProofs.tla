---------------------------- MODULE SODAWProofs ----------------------------
(***************************************************************************)
(* Proofs about SODAW for every number of servers and clients, every       *)
(* script of calls and every strcmp that the C standard allows.            *)
(***************************************************************************)
EXTENDS SODAWInvariant, CallsProofs, SequenceTheorems

USE DEF WRITE_GET, READ_GET, WRITE_PUT, READ_VALUE, READ_COMPLETE, DRAIN, GetPhases, Phases

---------------------------------------------------------------------------
(* Sequences, finite sets and the order of tags. *)

LEMMA KType ==
    K \in Nat \ {0} /\ K <= Cardinality(Servers) /\ 2 * K > Cardinality(Servers)
BY MajorityOfServers DEF K

LEMMA ChannelConcat ==
    ASSUME NEW S, NEW q \in Seq(S), NEW p \in Seq(S)
    PROVE  /\ q \o p \in Seq(S)
           /\ \A i \in DOMAIN (q \o p) :
                 \/ i \in DOMAIN q /\ (q \o p)[i] = q[i]
                 \/ \E j \in DOMAIN p : i = Len(q) + j /\ (q \o p)[i] = p[j]
           /\ \A i \in DOMAIN q : i \in DOMAIN (q \o p) /\ (q \o p)[i] = q[i]
           /\ \A j \in DOMAIN p :
                 Len(q) + j \in DOMAIN (q \o p) /\ (q \o p)[Len(q) + j] = p[j]
<1>1. /\ q \o p \in Seq(S)
      /\ Len(q \o p) = Len(q) + Len(p)
      /\ \A i \in 1 .. Len(q) + Len(p) :
            (q \o p)[i] = IF i <= Len(q) THEN q[i] ELSE p[i - Len(q)]
  BY ConcatProperties
<1>2. Len(q) \in Nat /\ Len(p) \in Nat /\ DOMAIN q = 1 .. Len(q) /\ DOMAIN p = 1 .. Len(p)
      /\ DOMAIN (q \o p) = 1 .. Len(q) + Len(p)
  BY <1>1
<1> DEFINE r == q \o p
<1> HIDE DEF r
<1>3. ASSUME NEW i \in DOMAIN r, i \notin DOMAIN q
      PROVE  \E j \in DOMAIN p : i = Len(q) + j /\ r[i] = p[j]
  <2>1. i \in Nat /\ i > Len(q) /\ i <= Len(q) + Len(p)
    BY <1>2, <1>3 DEF r
  <2>2. i - Len(q) \in DOMAIN p /\ i = Len(q) + (i - Len(q))
    BY <1>2, <2>1
  <2>3. r[i] = p[i - Len(q)]
    BY <1>1, <1>2, <2>1 DEF r
  <2> QED
    BY <2>2, <2>3
<1>4. \A i \in DOMAIN q : i \in DOMAIN r /\ r[i] = q[i]
  BY <1>1, <1>2 DEF r
<1>5. ASSUME NEW j \in DOMAIN p
      PROVE  Len(q) + j \in DOMAIN r /\ r[Len(q) + j] = p[j]
  <2>1. Len(q) + j \in 1 .. Len(q) + Len(p) /\ ~(Len(q) + j <= Len(q))
        /\ (Len(q) + j) - Len(q) = j
    BY <1>2
  <2> QED
    BY <2>1, <1>1, <1>2 DEF r
<1> QED
  BY <1>1, <1>3, <1>4, <1>5 DEF r

\* What SetToSeq makes of a finite set has its elements and no others.
LEMMA SeqOfSet ==
    ASSUME NEW S, IsFiniteSet(S)
    PROVE  /\ SetToSeq(S) \in Seq(S)
           /\ \A x \in S : \E i \in DOMAIN SetToSeq(S) : SetToSeq(S)[i] = x
<1> DEFINE n == Cardinality(S)
           F == {f \in [1 .. n -> S] : IsInjective(f)}
<1>1. n \in Nat /\ ExistsBijection(1 .. n, S)
  BY FS_CardinalityType
<1>2. PICK g \in Bijection(1 .. n, S) : TRUE
  BY <1>1 DEF ExistsBijection
<1>3. g \in [1 .. n -> S] /\ IsInjective(g)
  BY <1>2 DEF Bijection, Injection, Surjection, IsInjective
<1>4. SetToSeq(S) \in [1 .. n -> S] /\ IsInjective(SetToSeq(S))
  BY <1>3 DEF SetToSeq
<1> DEFINE f == SetToSeq(S)
<1> HIDE DEF f
<1>5. f \in Injection(1 .. n, S)
  BY <1>4 DEF Injection, IsInjective, f
<1>6. IsFiniteSet(1 .. n) /\ Cardinality(1 .. n) = n
  BY <1>1, FS_Interval
<1>7. f \in Surjection(1 .. n, S)
  BY <1>5, <1>6, FS_Injection
<1>8. \A x \in S : \E i \in 1 .. n : f[i] = x
  BY <1>7 DEF Surjection
<1>9. f \in Seq(S) /\ DOMAIN f = 1 .. n
  BY <1>1, <1>4 DEF f
<1> QED
  BY <1>8, <1>9 DEF f

LEMMA CompareTags ==
    ASSUME NEW a \in Tag, NEW b \in Tag
    PROVE  /\ compare_tags(a, b) >= 0 <=> AtLeast(a, b)
           /\ compare_tags(a, b) > 0 => AtLeast(a, b) /\ a # b
           /\ ~(compare_tags(a, b) > 0) => AtLeast(b, a)
<1>1. a.z \in Nat /\ b.z \in Nat /\ a.id \in Names /\ b.id \in Names
  BY DEF Tag
<1>2. /\ StrCmp[a.id][b.id] \in Int /\ StrCmp[b.id][a.id] \in Int
      /\ StrCmp[a.id][b.id] < 0 <=> StrCmp[b.id][a.id] > 0
      /\ StrCmp[b.id][a.id] < 0 <=> StrCmp[a.id][b.id] > 0
      /\ StrCmp[a.id][a.id] = 0
  BY <1>1, StrCmpOrder
<1>3. a = b => compare_tags(a, b) = 0
  BY <1>1, <1>2 DEF compare_tags
<1> QED
  BY <1>1, <1>2, <1>3 DEF compare_tags, AtLeast

LEMMA AtLeastOrder ==
    /\ \A a \in Tag : AtLeast(a, a)
    /\ \A a, b \in Tag : AtLeast(a, b) /\ AtLeast(b, a) => a = b
    /\ \A a, b, c \in Tag : AtLeast(a, b) /\ AtLeast(b, c) => AtLeast(a, c)
<1>1. \A a \in Tag : a.z \in Nat /\ a.id \in Names
  BY DEF Tag
<1>2. \A a \in Tag : AtLeast(a, a)
  BY <1>1, StrCmpOrder DEF AtLeast
<1>3. \A a, b \in Tag : AtLeast(a, b) /\ AtLeast(b, a) => a = b
  BY AboveOrder DEF Above
<1>4. \A a, b, c \in Tag : AtLeast(a, b) /\ AtLeast(b, c) => AtLeast(a, c)
  BY <1>2, AboveOrder DEF Above
<1> QED
  BY <1>2, <1>3, <1>4

---------------------------------------------------------------------------
(* Types. *)

LEMMA TypesInit == Init => Types
<1> SUFFICES ASSUME Init PROVE Types
  OBVIOUS
<1>1. \A c \in Clients : Len(Script[c]) \in Nat
  BY CallsAssumption
<1>2. IsABag(EmptyBag) /\ DOMAIN EmptyBag = {}
  BY DEF IsABag, EmptyBag, SetToBag
<1> QED
  BY <1>1, <1>2, KType, InitialTypes DEF Init, Types, Empty, Absent

LEMMA ChannelTypes ==
    ASSUME Types, NEW c \in Clients, NEW s \in Servers
    PROVE  /\ toServer[c][s] \in Seq(Request)
           /\ toClient[c][s] \in Seq(Answer)
           /\ \A p \in Servers : toPeer[p][s] \in Seq(Dispersal)
BY DEF Types

\* A handler takes the first request of one channel.
LEMMA Takes ==
    ASSUME Types, NEW c \in Clients, NEW s \in Servers, NEW phase, Take(c, s, phase)
    PROVE  /\ toServer[c][s] # <<>>
           /\ NextOf(c, s) \in Request /\ NextOf(c, s).phase = phase
           /\ NextOf(c, s).num \in Nat
           /\ phase \notin GetPhases => NextOf(c, s).tag \in Tag /\ NextOf(c, s).val \in Values
           /\ toServer' \in [Clients -> [Servers -> Seq(Request)]]
           /\ toServer'[c][s] = Tail(toServer[c][s])
           /\ \A d \in Clients, r \in Servers : <<d, r>> # <<c, s>> =>
                 toServer'[d][r] = toServer[d][r]
           /\ UNCHANGED clientVars
<1>1. toServer[c][s] \in Seq(Request) /\ toServer[c][s] # <<>>
  BY ChannelTypes DEF Take
<1>2. NextOf(c, s) \in Request /\ Tail(toServer[c][s]) \in Seq(Request)
  BY <1>1, ChannelTail DEF NextOf
<1>3. toServer' = [toServer EXCEPT ![c][s] = Tail(toServer[c][s])]
  BY DEF Take, Types
<1>4. /\ toServer' \in [Clients -> [Servers -> Seq(Request)]]
      /\ toServer'[c][s] = Tail(toServer[c][s])
      /\ \A d \in Clients, r \in Servers : <<d, r>> # <<c, s>> =>
            toServer'[d][r] = toServer[d][r]
  BY <1>2, <1>3 DEF Types
<1>5. NextOf(c, s).phase = phase /\ UNCHANGED clientVars
  BY DEF Take
<1> QED
  BY <1>1, <1>2, <1>4, <1>5 DEF Request, GetRequest, TagRequest

\* What is sent to the clients that are there is behind what was sent before.
LEMMA Delivers ==
    ASSUME Types, NEW s \in Servers, NEW out \in [Clients -> Seq(Answer)], Deliver(s, out)
    PROVE  /\ toClient' \in [Clients -> [Servers -> Seq(Answer)]]
           /\ \A r \in Clients, p \in Servers :
                 toClient'[r][p] = IF p = s /\ r \in alive THEN toClient[r][s] \o out[r]
                                                           ELSE toClient[r][p]
<1>1. \A r \in Clients : toClient[r][s] \o out[r] \in Seq(Answer)
  BY ChannelTypes, ChannelConcat
<1>2. \A r \in Clients :
         /\ toClient'[r] = IF r \in alive
                             THEN [toClient[r] EXCEPT ![s] = toClient[r][s] \o out[r]]
                             ELSE toClient[r]
         /\ toClient[r] \in [Servers -> Seq(Answer)]
  BY DEF Deliver, Types
<1>3. \A r \in Clients : toClient'[r] \in [Servers -> Seq(Answer)]
  BY <1>1, <1>2
<1> QED
  BY <1>2, <1>3 DEF Deliver

\* All servers are told the same, once for each reader.
LEMMA Disperses ==
    ASSUME Types, NEW s \in Servers, NEW readers \in SUBSET Clients, NEW t \in Tag,
           \A r \in readers : reading'[s][r].num \in Nat,
           Disperse(s, readers, t)
    PROVE  /\ toPeer' \in [Servers -> [Servers -> Seq(Dispersal)]]
           /\ \A q \in Servers \ {s}, p \in Servers : toPeer'[q][p] = toPeer[q][p]
           /\ \E news \in Seq(Dispersal) :
                 /\ \A p \in Servers : toPeer'[s][p] = toPeer[s][p] \o news
                 /\ \A i \in DOMAIN news : \E r \in readers :
                       news[i] = [reader |-> r, num |-> reading'[s][r].num, tag |-> t]
                 /\ \A r \in readers : \E i \in DOMAIN news :
                       news[i] = [reader |-> r, num |-> reading'[s][r].num, tag |-> t]
<1> DEFINE e == [r \in readers |-> [reader |-> r, num |-> reading'[s][r].num, tag |-> t]]
           N == {[reader |-> r, num |-> reading'[s][r].num, tag |-> t] : r \in readers}
           news == SetToSeq(N)
<1>1. IsFiniteSet(readers)
  BY ReadersAssumption, FS_Subset
<1>2. e \in Surjection(readers, N)
  BY DEF Surjection
<1>3. IsFiniteSet(N)
  BY <1>1, <1>2, FS_Surjection
<1>4. N \subseteq Dispersal
  BY DEF Dispersal
<1>5. news \in Seq(N) /\ \A x \in N : \E i \in DOMAIN news : news[i] = x
  BY <1>3, SeqOfSet
<1>6. toPeer' = [toPeer EXCEPT ![s] = [p \in Servers |-> toPeer[s][p] \o news]]
  BY DEF Disperse, Types
<1> HIDE DEF N, news, e
<1>7. news \in Seq(Dispersal) /\ \A i \in DOMAIN news : news[i] \in N
  BY <1>4, <1>5
<1>8. \A p \in Servers : toPeer[s][p] \o news \in Seq(Dispersal)
  BY <1>7, ChannelTypes, ChannelConcat DEF Types
<1>9. /\ toPeer' \in [Servers -> [Servers -> Seq(Dispersal)]]
      /\ \A q \in Servers \ {s}, p \in Servers : toPeer'[q][p] = toPeer[q][p]
      /\ \A p \in Servers : toPeer'[s][p] = toPeer[s][p] \o news
  BY <1>6, <1>8 DEF Types
<1>10. /\ \A i \in DOMAIN news : \E r \in readers :
             news[i] = [reader |-> r, num |-> reading'[s][r].num, tag |-> t]
       /\ \A r \in readers : \E i \in DOMAIN news :
             news[i] = [reader |-> r, num |-> reading'[s][r].num, tag |-> t]
  BY <1>5, <1>7 DEF N
<1> QED
  BY <1>7, <1>9, <1>10

\* What a handler of s sends: the reply to a request m, or an element of the store to r.
IsReply(m, a) == m.phase \in Counting /\ a.phase = m.phase /\ a.num = m.num
IsElement(s, r, a) ==
    /\ reading'[s][r] # NotRegistered
    /\ a = Message(READ_VALUE, reading'[s][r].num, store'[s].tag, store'[s].val)
    /\ AtLeast(store'[s].tag, reading'[s][r].tag)

LEMMA StoreType ==
    ASSUME Types, NEW s \in Servers
    PROVE  store[s] \in Object /\ store[s].tag \in Tag /\ store[s].val \in Values
BY DEF Types, Object

LEMMA ReadingType ==
    ASSUME Types, NEW s \in Servers, NEW c \in Clients
    PROVE  /\ reading[s][c] # NotRegistered =>
                reading[s][c].num \in Nat /\ reading[s][c].tag \in Tag
           /\ NotRegistered.num = Absent /\ Absent = -1
           /\ store[s] \in Object /\ store[s].tag \in Tag /\ store[s].val \in Values
           /\ readed[s][c] \in Int
           /\ reading[s][c].num \in Int
BY DEF Types, Object, NotRegistered, Absent

LEMMA GetSends ==
    ASSUME Types, NEW c \in Clients, NEW s \in Servers, ServeGet(c, s)
    PROVE  \E a \in Answer : /\ NextOf(c, s).phase \in GetPhases
                             /\ a.phase = NextOf(c, s).phase /\ a.num = NextOf(c, s).num
                             /\ a.tag = store[s].tag
                             /\ Deliver(s, ReplyTo(c, a))
<1> DEFINE m == NextOf(c, s)
<1>1. PICK phase \in GetPhases : Take(c, s, phase)
  BY DEF ServeGet
<1>2. m.phase = phase /\ m.num \in Nat
  BY <1>1, Takes
<1>3. Message(m.phase, m.num, store[s].tag, InitVal) \in Answer
  BY <1>2, InitialTypes, ReadingType DEF Message, Answer
<1>4. Deliver(s, ReplyTo(c, Message(m.phase, m.num, store[s].tag, InitVal)))
  BY DEF ServeGet
<1> QED
  BY <1>2, <1>3, <1>4 DEF Message

LEMMA ReplyToType ==
    ASSUME NEW c \in Clients, NEW a \in Answer
    PROVE  /\ ReplyTo(c, a) \in [Clients -> Seq(Answer)]
           /\ \A r \in Clients : ReplyTo(c, a)[r] = IF r = c THEN <<a>> ELSE <<>>
BY DEF ReplyTo

LEMMA ShortSequence ==
    ASSUME NEW a, NEW b
    PROVE  /\ DOMAIN <<a, b>> = {1, 2} /\ Len(<<a, b>>) = 2
           /\ <<a, b>>[1] = a /\ <<a, b>>[2] = b
           /\ DOMAIN <<a>> = {1} /\ Len(<<a>>) = 1 /\ <<a>>[1] = a
           /\ DOMAIN <<>> = {}
OBVIOUS

LEMMA ShortConcat ==
    ASSUME NEW a, NEW b
    PROVE  <<a>> \o <<b>> = <<a, b>> /\ <<a>> \o <<>> = <<a>>
<1> DEFINE S == {a, b}
<1>1. <<a>> \in Seq(S) /\ <<b>> \in Seq(S) /\ <<a, b>> \in Seq(S)
      /\ Len(<<a>>) = 1 /\ Len(<<b>>) = 1 /\ Len(<<a, b>>) = 2
      /\ <<a>>[1] = a /\ <<b>>[1] = b /\ <<a, b>>[1] = a /\ <<a, b>>[2] = b
  OBVIOUS
<1> DEFINE q == <<a>> \o <<b>>
<1>2. /\ q \in Seq(S) /\ Len(q) = 1 + 1
      /\ \A i \in 1 .. 1 + 1 : q[i] = IF i <= 1 THEN <<a>>[i] ELSE <<b>>[i - 1]
  BY <1>1, ConcatProperties
<1> HIDE DEF q
<1>3. Len(q) = 2 /\ q[1] = a /\ q[2] = b
  BY <1>1, <1>2
<1>4. \A i \in 1 .. Len(q) : q[i] = <<a, b>>[i]
  BY <1>1, <1>3
<1>5. q = <<a, b>>
  BY <1>1, <1>2, <1>3, <1>4, SeqEqual
<1>6. <<a>> \o <<>> = <<a>>
  BY <1>1, ConcatEmptySeq
<1> QED
  BY <1>5, <1>6 DEF q

LEMMA PutSends ==
    ASSUME Types, NEW c \in Clients, NEW s \in Servers, ServeWritePut(c, s)
    PROVE  LET m     == NextOf(c, s)
               newer == compare_tags(m.tag, store[s].tag) > 0
               readers == {r \in Clients : newer /\ Wants(s, r, m.tag)}
               ack   == Message(WRITE_PUT, m.num, m.tag, InitVal)
               e(r)  == Message(READ_VALUE, reading'[s][r].num, m.tag, m.val)
           IN  /\ m.phase = WRITE_PUT /\ m.num \in Nat /\ m.tag \in Tag /\ m.val \in Values
               /\ UNCHANGED tables
               /\ store' = [store EXCEPT ![s] = IF newer THEN [tag |-> m.tag, val |-> m.val]
                                                         ELSE store[s]]
               /\ Disperse(s, readers, m.tag)
               /\ ack \in Answer
               /\ \A r \in readers :
                     /\ e(r) \in Answer
                     /\ IsElement(s, r, e(r))
               /\ \E out \in [Clients -> Seq(Answer)] :
                     /\ Deliver(s, out)
                     /\ \A r \in Clients :
                           out[r] = IF r \in readers
                                      THEN IF r = c THEN <<e(r), ack>> ELSE <<e(r)>>
                                      ELSE IF r = c THEN <<ack>> ELSE <<>>
<1> DEFINE m     == NextOf(c, s)
           new   == [tag |-> m.tag, val |-> m.val]
           newer == compare_tags(m.tag, store[s].tag) > 0
           readers == {r \in Clients : newer /\ Wants(s, r, m.tag)}
           ack   == Message(WRITE_PUT, m.num, m.tag, InitVal)
           e(r)  == Message(READ_VALUE, reading'[s][r].num, m.tag, m.val)
           out   == [r \in Clients |->
                       IF r \in readers THEN <<ElementFor(s, r, new)>> \o ReplyTo(c, ack)[r]
                                        ELSE ReplyTo(c, ack)[r]]
<1>1. Take(c, s, WRITE_PUT) /\ UNCHANGED tables
      /\ store' = [store EXCEPT ![s] = IF newer THEN new ELSE @]
      /\ Disperse(s, readers, m.tag)
      /\ Deliver(s, out)
  BY DEF ServeWritePut
<1>2. m.phase = WRITE_PUT /\ m.num \in Nat /\ m.tag \in Tag /\ m.val \in Values
  <2>1. WRITE_PUT \notin GetPhases
    OBVIOUS
  <2> HIDE DEF out, readers, ack, e, new, newer
  <2> QED
    BY <1>1, <2>1, Takes
<1>3. ack \in Answer
  BY <1>2, InitialTypes DEF Message, Answer
<1>4. reading' = reading
  BY <1>1 DEF tables
<1>5. store' = [store EXCEPT ![s] = IF newer THEN new ELSE store[s]]
      /\ (newer => store'[s] = new)
  BY <1>1 DEF Types
<1>6. ASSUME NEW r \in readers
      PROVE  e(r) \in Answer /\ IsElement(s, r, e(r)) /\ ElementFor(s, r, new) = e(r)
  <2>1. reading[s][r] # NotRegistered /\ newer /\ compare_tags(m.tag, reading[s][r].tag) >= 0
    BY <1>4 DEF Wants
  <2>2. reading[s][r].num \in Nat /\ reading[s][r].tag \in Tag
    BY <2>1, ReadingType
  <2>3. AtLeast(m.tag, reading[s][r].tag)
    BY <1>2, <2>1, <2>2, CompareTags
  <2> QED
    BY <1>2, <1>4, <1>5, <2>1, <2>2, <2>3 DEF Message, Answer, IsElement, ElementFor
<1>7. \A r \in Clients :
         out[r] = IF r \in readers
                    THEN IF r = c THEN <<e(r), ack>> ELSE <<e(r)>>
                    ELSE IF r = c THEN <<ack>> ELSE <<>>
  <2> TAKE r \in Clients
  <2>1. ReplyTo(c, ack)[r] = IF r = c THEN <<ack>> ELSE <<>>
    BY <1>3, ReplyToType
  <2>2. out[r] = IF r \in readers THEN <<ElementFor(s, r, new)>> \o ReplyTo(c, ack)[r]
                                  ELSE ReplyTo(c, ack)[r]
    OBVIOUS
  <2> HIDE DEF out, readers, ack, e, new
  <2>3. <<e(r)>> \o <<ack>> = <<e(r), ack>> /\ <<e(r)>> \o <<>> = <<e(r)>>
    BY ShortConcat
  <2> QED
    BY <2>1, <2>2, <2>3, <1>6
<1>8. out \in [Clients -> Seq(Answer)]
  <2>1. DOMAIN out = Clients /\ out = [r \in Clients |-> out[r]]
    OBVIOUS
  <2>2. ASSUME NEW r \in Clients PROVE out[r] \in Seq(Answer)
    <3>1. r \in readers => e(r) \in Answer
      BY <1>6
    <3>2. r \in readers => <<e(r), ack>> \in Seq(Answer) /\ <<e(r)>> \in Seq(Answer)
      BY <3>1, <1>3
    <3>3. <<ack>> \in Seq(Answer) /\ <<>> \in Seq(Answer)
      BY <1>3
    <3> QED
      BY <3>2, <3>3, <1>7
  <2> HIDE DEF out
  <2> QED
    BY <2>1, <2>2
<1> HIDE DEF out
<1> QED
  BY <1>1, <1>2, <1>3, <1>5, <1>6, <1>7, <1>8

(***************************************************************************)
(* What a handler sends.  out[r] goes to client r: elements first and the  *)
(* reply last.  news goes to every server, one entry for each element.     *)
(***************************************************************************)
IsNew(c, s, r, m) ==
    \/ m.phase = WRITE_PUT /\ ~AtLeast(store[s].tag, store'[s].tag)
    \/ m.phase = READ_VALUE /\ r = c /\ ~Outdated(s, c, m.num)

Replies(c, s, out) ==
    /\ \A r \in Clients, p \in Servers :
          toClient'[r][p] = IF p = s /\ r \in alive THEN toClient[r][s] \o out[r]
                                                    ELSE toClient[r][p]
    /\ \A r \in Clients : \A i \in DOMAIN out[r] :
          \/ r = c /\ IsReply(NextOf(c, s), out[r][i]) /\ i = Len(out[r])
          \/ IsElement(s, r, out[r][i]) /\ IsNew(c, s, r, NextOf(c, s)) /\ i = 1
    /\ NextOf(c, s).phase \in Counting =>
          Len(out[c]) \in DOMAIN out[c] /\ IsReply(NextOf(c, s), out[c][Len(out[c])])

TellsOf(s, out, news) ==
    /\ \A p \in Servers : toPeer'[s][p] = toPeer[s][p] \o news
    /\ \A q \in Servers \ {s}, p \in Servers : toPeer'[q][p] = toPeer[q][p]
    /\ \A i \in DOMAIN news : \E j \in DOMAIN out[news[i].reader] :
          LET a == out[news[i].reader][j]
          IN  a.phase = READ_VALUE /\ a.num = news[i].num /\ a.tag = news[i].tag
    /\ \A r \in Clients : \A j \in DOMAIN out[r] : out[r][j].phase = READ_VALUE =>
          \E i \in DOMAIN news :
             news[i] = [reader |-> r, num |-> out[r][j].num, tag |-> out[r][j].tag]

StoreGrows(s, m) ==
    /\ store' \in [Servers -> Object]
    /\ \A p \in Servers : AtLeast(store'[p].tag, store[p].tag)
    /\ \A p \in Servers : p # s \/ m.phase # WRITE_PUT => store'[p] = store[p]

Sends(c, s) ==
    /\ toClient' \in [Clients -> [Servers -> Seq(Answer)]]
    /\ toPeer' \in [Servers -> [Servers -> Seq(Dispersal)]]
    /\ \E out \in [Clients -> Seq(Answer)], news \in Seq(Dispersal) :
          Replies(c, s, out) /\ TellsOf(s, out, news)
    /\ StoreGrows(s, NextOf(c, s))

\* Nothing sent to anybody.
LEMMA SendsNothing ==
    ASSUME Types, NEW s \in Servers
    PROVE  /\ [r \in Clients |-> <<>>] \in [Clients -> Seq(Answer)]
           /\ \A r \in Clients, p \in Servers : toClient[r][p] \o <<>> = toClient[r][p]
           /\ \A p \in Servers : toPeer[s][p] \o <<>> = toPeer[s][p]
           /\ <<>> \in Seq(Dispersal)
           /\ DOMAIN <<>> = {}
<1>1. \A r \in Clients, p \in Servers : toClient[r][p] \o <<>> = toClient[r][p]
  BY ChannelTypes, ConcatEmptySeq
<1>2. \A p \in Servers : toPeer[s][p] \o <<>> = toPeer[s][p]
  BY ConcatEmptySeq DEF Types
<1>3. DOMAIN <<>> = {} /\ <<>> \in Seq(Dispersal) /\ <<>> \in Seq(Answer)
  OBVIOUS
<1> QED
  BY <1>1, <1>2, <1>3

LEMMA StoreSame ==
    ASSUME Types, NEW s \in Servers, NEW m, store' = store
    PROVE  StoreGrows(s, m)
BY StoreType, AtLeastOrder DEF StoreGrows, Types

LEMMA GetEffect ==
    ASSUME Types, NEW c \in Clients, NEW s \in Servers, ServeGet(c, s)
    PROVE  Sends(c, s)
<1>1. PICK a \in Answer : /\ NextOf(c, s).phase \in GetPhases
                          /\ a.phase = NextOf(c, s).phase /\ a.num = NextOf(c, s).num
                          /\ Deliver(s, ReplyTo(c, a))
  BY GetSends
<1> DEFINE out == ReplyTo(c, a)
<1>2. /\ out \in [Clients -> Seq(Answer)]
      /\ \A r \in Clients : out[r] = IF r = c THEN <<a>> ELSE <<>>
  BY ReplyToType
<1>3. /\ toClient' \in [Clients -> [Servers -> Seq(Answer)]]
      /\ \A r \in Clients, p \in Servers :
            toClient'[r][p] = IF p = s /\ r \in alive THEN toClient[r][s] \o out[r]
                                                      ELSE toClient[r][p]
  BY <1>1, <1>2, Delivers
<1> HIDE DEF out
<1>4. DOMAIN <<a>> = {1} /\ Len(<<a>>) = 1 /\ <<a>>[1] = a /\ DOMAIN <<>> = {}
  OBVIOUS
<1>5. Replies(c, s, out)
  BY <1>1, <1>2, <1>3, <1>4 DEF Replies, IsReply, Counting
<1>6. toPeer' = toPeer /\ store' = store
  BY DEF ServeGet
<1>7. TellsOf(s, out, <<>>)
  BY <1>1, <1>2, <1>4, <1>6, SendsNothing DEF TellsOf
<1>8. toPeer' \in [Servers -> [Servers -> Seq(Dispersal)]]
  BY <1>6 DEF Types
<1> QED
  BY <1>2, <1>3, <1>5, <1>6, <1>7, <1>8, SendsNothing, StoreSame DEF Sends

LEMMA CompleteEffect ==
    ASSUME Types, NEW c \in Clients, NEW s \in Servers, ServeReadComplete(c, s)
    PROVE  Sends(c, s)
<1> DEFINE out == [r \in Clients |-> <<>>]
<1>1. toPeer' = toPeer /\ store' = store /\ toClient' = toClient
      /\ NextOf(c, s).phase = READ_COMPLETE
  BY DEF ServeReadComplete, Take
<1>2. \A r \in Clients : out[r] = <<>> /\ DOMAIN out[r] = {}
  BY SendsNothing
<1>3. Replies(c, s, out)
  BY <1>1, <1>2, SendsNothing DEF Replies, Counting
<1>4. TellsOf(s, out, <<>>)
  BY <1>1, <1>2, SendsNothing DEF TellsOf
<1>5. /\ toPeer' \in [Servers -> [Servers -> Seq(Dispersal)]]
      /\ toClient' \in [Clients -> [Servers -> Seq(Answer)]]
  BY <1>1 DEF Types
<1> QED
  BY <1>1, <1>3, <1>4, <1>5, SendsNothing, StoreSame DEF Sends

LEMMA PutEffect ==
    ASSUME Types, NEW c \in Clients, NEW s \in Servers, ServeWritePut(c, s)
    PROVE  Sends(c, s)
<1> DEFINE m     == NextOf(c, s)
           newer == compare_tags(m.tag, store[s].tag) > 0
           readers == {r \in Clients : newer /\ Wants(s, r, m.tag)}
           ack   == Message(WRITE_PUT, m.num, m.tag, InitVal)
           e(r)  == Message(READ_VALUE, reading'[s][r].num, m.tag, m.val)
<1>1. /\ m.phase = WRITE_PUT /\ m.num \in Nat /\ m.tag \in Tag /\ m.val \in Values
      /\ UNCHANGED tables
      /\ store' = [store EXCEPT ![s] = IF newer THEN [tag |-> m.tag, val |-> m.val]
                                                ELSE store[s]]
      /\ Disperse(s, readers, m.tag)
      /\ \A r \in readers : e(r) \in Answer /\ IsElement(s, r, e(r))
      /\ \E out \in [Clients -> Seq(Answer)] :
            /\ Deliver(s, out)
            /\ \A r \in Clients :
                  out[r] = IF r \in readers
                             THEN IF r = c THEN <<e(r), ack>> ELSE <<e(r)>>
                             ELSE IF r = c THEN <<ack>> ELSE <<>>
  BY PutSends
<1>2. readers \subseteq Clients /\ (readers # {} => newer)
  OBVIOUS
<1>3. \A r \in readers : /\ e(r).phase = READ_VALUE
                         /\ e(r).num = reading'[s][r].num /\ e(r).tag = m.tag
  BY DEF Message
<1>4. \A r \in readers : reading'[s][r].num \in Nat
  BY <1>1, <1>3 DEF Answer
<1>5. ack.phase = WRITE_PUT /\ ack.num = m.num
  BY DEF Message
<1>6. newer => store'[s].tag = m.tag /\ ~AtLeast(store[s].tag, m.tag)
  <2> SUFFICES ASSUME newer PROVE store'[s].tag = m.tag /\ ~AtLeast(store[s].tag, m.tag)
    OBVIOUS
  <2>1. store'[s] = [tag |-> m.tag, val |-> m.val]
    BY <1>1 DEF Types
  <2>2. AtLeast(m.tag, store[s].tag) /\ m.tag # store[s].tag
    BY <1>1, StoreType, CompareTags
  <2> QED
    BY <2>1, <2>2, <1>1, StoreType, AtLeastOrder
<1>7. StoreGrows(s, m)
  <2>1. [tag |-> m.tag, val |-> m.val] \in Object /\ store[s] \in Object
    BY <1>1, StoreType DEF Object
  <2>2. store' \in [Servers -> Object] /\ \A p \in Servers \ {s} : store'[p] = store[p]
    BY <1>1, <2>1 DEF Types
  <2>3. AtLeast(store'[s].tag, store[s].tag)
    <3>1. CASE newer
      BY <3>1, <1>1, <1>6, StoreType, CompareTags
    <3>2. CASE ~newer
      <4>1. store'[s] = store[s]
        BY <3>2, <1>1 DEF Types
      <4> QED
        BY <4>1, StoreType, AtLeastOrder
    <3> QED
      BY <3>1, <3>2
  <2>4. \A p \in Servers : AtLeast(store'[p].tag, store[p].tag)
    BY <2>2, <2>3, StoreType, AtLeastOrder
  <2> QED
    BY <2>2, <2>4, <1>1 DEF StoreGrows
<1> HIDE DEF m, newer, readers, ack, e
<1>8. PICK out \in [Clients -> Seq(Answer)] :
         /\ Deliver(s, out)
         /\ \A r \in Clients :
               out[r] = IF r \in readers
                          THEN IF r = c THEN <<e(r), ack>> ELSE <<e(r)>>
                          ELSE IF r = c THEN <<ack>> ELSE <<>>
  BY <1>1
<1>9. /\ toClient' \in [Clients -> [Servers -> Seq(Answer)]]
      /\ \A r \in Clients, p \in Servers :
            toClient'[r][p] = IF p = s /\ r \in alive THEN toClient[r][s] \o out[r]
                                                      ELSE toClient[r][p]
  BY <1>8, Delivers
<1>10. PICK news \in Seq(Dispersal) :
          /\ toPeer' \in [Servers -> [Servers -> Seq(Dispersal)]]
          /\ \A q \in Servers \ {s}, p \in Servers : toPeer'[q][p] = toPeer[q][p]
          /\ \A p \in Servers : toPeer'[s][p] = toPeer[s][p] \o news
          /\ \A i \in DOMAIN news : \E r \in readers :
                news[i] = [reader |-> r, num |-> reading'[s][r].num, tag |-> m.tag]
          /\ \A r \in readers : \E i \in DOMAIN news :
                news[i] = [reader |-> r, num |-> reading'[s][r].num, tag |-> m.tag]
  <2>1. m.tag \in Tag /\ Disperse(s, readers, m.tag) /\ readers \in SUBSET Clients
    BY <1>1, <1>2
  <2>2. \A r \in readers : reading'[s][r].num \in Nat
    BY <1>4
  <2> DEFINE t == m.tag
  <2> HIDE DEF t
  <2>3. t \in Tag /\ Disperse(s, readers, t)
    BY <2>1 DEF t
  <2>4. \E news \in Seq(Dispersal) :
          /\ toPeer' \in [Servers -> [Servers -> Seq(Dispersal)]]
          /\ \A q \in Servers \ {s}, p \in Servers : toPeer'[q][p] = toPeer[q][p]
          /\ \A p \in Servers : toPeer'[s][p] = toPeer[s][p] \o news
          /\ \A i \in DOMAIN news : \E r \in readers :
                news[i] = [reader |-> r, num |-> reading'[s][r].num, tag |-> t]
          /\ \A r \in readers : \E i \in DOMAIN news :
                news[i] = [reader |-> r, num |-> reading'[s][r].num, tag |-> t]
    <3>1. /\ toPeer' \in [Servers -> [Servers -> Seq(Dispersal)]]
          /\ \A q \in Servers \ {s}, p \in Servers : toPeer'[q][p] = toPeer[q][p]
          /\ \E news \in Seq(Dispersal) :
                /\ \A p \in Servers : toPeer'[s][p] = toPeer[s][p] \o news
                /\ \A i \in DOMAIN news : \E r \in readers :
                      news[i] = [reader |-> r, num |-> reading'[s][r].num, tag |-> t]
                /\ \A r \in readers : \E i \in DOMAIN news :
                      news[i] = [reader |-> r, num |-> reading'[s][r].num, tag |-> t]
      BY <2>1, <2>2, <2>3, Disperses, ZenonT(60)
    <3> QED
      BY <3>1
  <2> QED
    BY <2>4 DEF t
<1>12. IsReply(m, ack)
  BY <1>1, <1>5 DEF IsReply, Counting
<1>13. newer => IsNew(c, s, c, m) /\ \A r \in Clients : IsNew(c, s, r, m)
  BY <1>1, <1>6 DEF IsNew
<1>14. ASSUME NEW r \in Clients, NEW i \in DOMAIN out[r]
       PROVE  \/ r = c /\ out[r][i] = ack /\ i = Len(out[r])
              \/ r \in readers /\ out[r][i] = e(r) /\ i = 1
  <2>1. CASE out[r] = <<e(r), ack>> /\ r \in readers /\ r = c
    BY <2>1, ShortSequence
  <2>2. CASE out[r] = <<e(r)>> /\ r \in readers
    BY <2>2, ShortSequence
  <2>3. CASE out[r] = <<ack>> /\ r = c
    BY <2>3, ShortSequence
  <2>4. CASE out[r] = <<>>
    BY <2>4, ShortSequence
  <2> QED
    BY <2>1, <2>2, <2>3, <2>4, <1>8
<1>15. Len(out[c]) \in DOMAIN out[c] /\ out[c][Len(out[c])] = ack
  <2>1. CASE out[c] = <<e(c), ack>>
    BY <2>1, ShortSequence
  <2>2. CASE out[c] = <<ack>>
    BY <2>2, ShortSequence
  <2> QED
    BY <2>1, <2>2, <1>8
<1>16. \A r \in readers : 1 \in DOMAIN out[r] /\ out[r][1] = e(r)
  <2> TAKE r \in readers
  <2>1. out[r] = <<e(r), ack>> \/ out[r] = <<e(r)>>
    BY <1>2, <1>8
  <2> QED
    BY <2>1, ShortSequence
<1>17. Replies(c, s, out)
  BY <1>1, <1>2, <1>9, <1>12, <1>13, <1>14, <1>15 DEF Replies, m
<1>18. TellsOf(s, out, news)
  <2>1. ASSUME NEW i \in DOMAIN news
        PROVE  \E j \in DOMAIN out[news[i].reader] :
                  LET a == out[news[i].reader][j]
                  IN  a.phase = READ_VALUE /\ a.num = news[i].num /\ a.tag = news[i].tag
    <3>1. PICK r \in readers :
             news[i] = [reader |-> r, num |-> reading'[s][r].num, tag |-> m.tag]
      BY <1>10
    <3>2. news[i].reader = r /\ news[i].num = reading'[s][r].num /\ news[i].tag = m.tag
      BY <3>1
    <3>3. 1 \in DOMAIN out[r] /\ out[r][1] = e(r)
      BY <1>16
    <3> QED
      BY <3>2, <3>3, <1>3
  <2>2. ASSUME NEW r \in Clients, NEW j \in DOMAIN out[r], out[r][j].phase = READ_VALUE
        PROVE  \E i \in DOMAIN news :
                  news[i] = [reader |-> r, num |-> out[r][j].num, tag |-> out[r][j].tag]
    <3>1. READ_VALUE # WRITE_PUT
      OBVIOUS
    <3>2. r \in readers /\ out[r][j] = e(r)
      BY <2>2, <3>1, <1>5, <1>14
    <3>3. PICK i \in DOMAIN news :
             news[i] = [reader |-> r, num |-> reading'[s][r].num, tag |-> m.tag]
      BY <3>2, <1>10
    <3>4. e(r).num = reading'[s][r].num /\ e(r).tag = m.tag
      BY <3>2, <1>3
    <3> QED
      BY <3>2, <3>3, <3>4
  <2> QED
    BY <2>1, <2>2, <1>10 DEF TellsOf
<1> QED
  BY <1>7, <1>9, <1>10, <1>17, <1>18 DEF Sends, m

LEMMA RegisterEffect ==
    ASSUME Types, NEW c \in Clients, NEW s \in Servers, ServeReadValue(c, s)
    PROVE  Sends(c, s)
<1> DEFINE m == NextOf(c, s)
           t == store[s].tag
           readers == {r \in {c} : Wants(s, c, t)}
           e == ElementFor(s, c, store[s])
           out == [r \in Clients |-> IF r \in readers THEN <<e>> ELSE <<>>]
<1>1. Take(c, s, READ_VALUE) /\ store' = store
      /\ IF Outdated(s, c, m.num)
           THEN UNCHANGED <<reading, readed, toPeer, toClient>>
           ELSE /\ reading' = [reading EXCEPT ![s][c] = [num |-> m.num, tag |-> m.tag]]
                /\ readed' = [readed EXCEPT ![s][c] = Absent]
                /\ Disperse(s, readers, t)
                /\ Deliver(s, [r \in Clients |->
                                 IF r \in readers THEN <<ElementFor(s, r, store[s])>>
                                                  ELSE <<>>])
  BY DEF ServeReadValue
<1>2. m.phase = READ_VALUE /\ m.num \in Nat /\ m.tag \in Tag
  <2>1. READ_VALUE \notin GetPhases
    OBVIOUS
  <2> HIDE DEF readers, e, out
  <2> QED
    BY <1>1, <2>1, Takes
<1>3. StoreGrows(s, m)
  BY <1>1, StoreSame
<1>4. CASE Outdated(s, c, m.num)
  <2> DEFINE none == [r \in Clients |-> <<>>]
  <2>1. toPeer' = toPeer /\ toClient' = toClient
    BY <1>1, <1>4
  <2>2. \A r \in Clients : none[r] = <<>> /\ DOMAIN none[r] = {}
    BY SendsNothing
  <2>3. Replies(c, s, none)
    BY <2>1, <2>2, <1>2, SendsNothing DEF Replies, Counting
  <2>4. TellsOf(s, none, <<>>)
    BY <2>1, <2>2, SendsNothing DEF TellsOf
  <2>5. /\ toPeer' \in [Servers -> [Servers -> Seq(Dispersal)]]
        /\ toClient' \in [Clients -> [Servers -> Seq(Answer)]]
    BY <2>1 DEF Types
  <2> QED
    BY <2>3, <2>4, <2>5, <1>3, SendsNothing DEF Sends
<1>5. CASE ~Outdated(s, c, m.num)
  <2>1. reading'[s][c] = [num |-> m.num, tag |-> m.tag]
    BY <1>1, <1>5 DEF Types
  <2>2. /\ e = Message(READ_VALUE, m.num, t, store[s].val) /\ e \in Answer
        /\ e.phase = READ_VALUE /\ e.num = reading'[s][c].num /\ e.tag = t
    BY <2>1, <1>2, StoreType DEF ElementFor, Message, Answer
  <2>3. Wants(s, c, t) => IsElement(s, c, e)
    <3> SUFFICES ASSUME Wants(s, c, t) PROVE IsElement(s, c, e)
      OBVIOUS
    <3>1. reading'[s][c] # NotRegistered /\ compare_tags(t, m.tag) >= 0
      BY <2>1 DEF Wants
    <3>2. AtLeast(t, m.tag)
      BY <3>1, <1>2, StoreType, CompareTags
    <3> QED
      BY <3>1, <3>2, <2>1, <2>2, <1>1 DEF IsElement
  <2>4. Deliver(s, out)
    <3>1. out = [r \in Clients |->
                   IF r \in readers THEN <<ElementFor(s, r, store[s])>> ELSE <<>>]
      OBVIOUS
    <3> QED
      BY <3>1, <1>1, <1>5
  <2>5. readers \in SUBSET Clients /\ \A r \in readers : r = c /\ Wants(s, c, t)
    OBVIOUS
  <2>6. \A r \in Clients : out[r] = IF r \in readers THEN <<e>> ELSE <<>>
    OBVIOUS
  <2>7. out \in [Clients -> Seq(Answer)]
    <3>1. <<e>> \in Seq(Answer) /\ <<>> \in Seq(Answer)
      BY <2>2
    <3> HIDE DEF e
    <3> QED
      BY <3>1
  <2>8. Disperse(s, readers, t) /\ t \in Tag
    BY <1>1, <1>5, StoreType
  <2> HIDE DEF m, t, readers, e, out
  <2>9. \A r \in readers : reading'[s][r].num \in Nat
    BY <2>1, <2>5, <1>2
  <2>10. PICK news \in Seq(Dispersal) :
            /\ toPeer' \in [Servers -> [Servers -> Seq(Dispersal)]]
            /\ \A q \in Servers \ {s}, p \in Servers : toPeer'[q][p] = toPeer[q][p]
            /\ \A p \in Servers : toPeer'[s][p] = toPeer[s][p] \o news
            /\ \A i \in DOMAIN news : \E r \in readers :
                  news[i] = [reader |-> r, num |-> reading'[s][r].num, tag |-> t]
            /\ \A r \in readers : \E i \in DOMAIN news :
                  news[i] = [reader |-> r, num |-> reading'[s][r].num, tag |-> t]
    <3>1. /\ toPeer' \in [Servers -> [Servers -> Seq(Dispersal)]]
          /\ \A q \in Servers \ {s}, p \in Servers : toPeer'[q][p] = toPeer[q][p]
          /\ \E news \in Seq(Dispersal) :
                /\ \A p \in Servers : toPeer'[s][p] = toPeer[s][p] \o news
                /\ \A i \in DOMAIN news : \E r \in readers :
                      news[i] = [reader |-> r, num |-> reading'[s][r].num, tag |-> t]
                /\ \A r \in readers : \E i \in DOMAIN news :
                      news[i] = [reader |-> r, num |-> reading'[s][r].num, tag |-> t]
      BY <2>5, <2>8, <2>9, Disperses, ZenonT(60)
    <3> QED
      BY <3>1
  <2>11. /\ toClient' \in [Clients -> [Servers -> Seq(Answer)]]
         /\ \A r \in Clients, p \in Servers :
               toClient'[r][p] = IF p = s /\ r \in alive THEN toClient[r][s] \o out[r]
                                                         ELSE toClient[r][p]
    BY <2>4, <2>7, Delivers
  <2>12. ASSUME NEW r \in Clients, NEW i \in DOMAIN out[r]
         PROVE  r \in readers /\ out[r][i] = e /\ i = 1
    <3>1. CASE out[r] = <<e>> /\ r \in readers
      BY <3>1, ShortSequence
    <3>2. CASE out[r] = <<>>
      BY <3>2, ShortSequence
    <3> QED
      BY <3>1, <3>2, <2>6
  <2>13. \A r \in readers : 1 \in DOMAIN out[r] /\ out[r][1] = e
    BY <2>5, <2>6, ShortSequence
  <2>14. \A r \in readers : IsNew(c, s, r, m)
    BY <2>5, <1>2, <1>5 DEF IsNew
  <2>15. Replies(c, s, out)
    BY <2>3, <2>5, <2>11, <2>12, <2>14, <1>2 DEF Replies, Counting, m
  <2>16. TellsOf(s, out, news)
    <3>1. ASSUME NEW i \in DOMAIN news
          PROVE  \E j \in DOMAIN out[news[i].reader] :
                    LET a == out[news[i].reader][j]
                    IN  a.phase = READ_VALUE /\ a.num = news[i].num /\ a.tag = news[i].tag
      <4>1. PICK r \in readers :
               news[i] = [reader |-> r, num |-> reading'[s][r].num, tag |-> t]
        BY <2>10
      <4>2. /\ news[i].reader = r /\ news[i].num = reading'[s][r].num /\ news[i].tag = t
            /\ r = c
        BY <4>1, <2>5
      <4>3. 1 \in DOMAIN out[r] /\ out[r][1] = e
        BY <2>13
      <4> QED
        BY <4>2, <4>3, <2>2
    <3>2. ASSUME NEW r \in Clients, NEW j \in DOMAIN out[r], out[r][j].phase = READ_VALUE
          PROVE  \E i \in DOMAIN news :
                    news[i] = [reader |-> r, num |-> out[r][j].num, tag |-> out[r][j].tag]
      <4>1. r \in readers /\ out[r][j] = e /\ r = c
        BY <2>5, <2>12
      <4>2. PICK i \in DOMAIN news :
               news[i] = [reader |-> r, num |-> reading'[s][r].num, tag |-> t]
        BY <4>1, <2>10
      <4> QED
        BY <4>1, <4>2, <2>2
    <3> QED
      BY <3>1, <3>2, <2>10 DEF TellsOf
  <2> QED
    BY <2>7, <2>10, <2>11, <2>15, <2>16, <1>3 DEF Sends, m
<1> QED
  BY <1>4, <1>5

LEMMA ServeSends ==
    ASSUME Types, NEW c \in Clients, NEW s \in Servers, Serve(c, s)
    PROVE  Sends(c, s)
BY GetEffect, PutEffect, RegisterEffect, CompleteEffect DEF Serve

---------------------------------------------------------------------------
(* Type correctness of the steps. *)

\* What a handler of s does to its tables: nothing, register a reader, or forget one.
Registers(s, r, num, t) ==
    /\ ~Outdated(s, r, num)
    /\ reading' = [reading EXCEPT ![s][r] = [num |-> num, tag |-> t]]
    /\ readed' = [readed EXCEPT ![s][r] = Absent]
    /\ history' = history

LEMMA TypesRegister ==
    ASSUME Types, NEW s \in Servers, NEW r \in Clients, NEW num \in Nat, NEW t \in Tag,
           Registers(s, r, num, t)
    PROVE  /\ reading' \in [Servers -> [Clients -> [num : Nat, tag : Tag] \cup {NotRegistered}]]
           /\ readed' \in [Servers -> [Clients -> Nat \cup {Absent}]]
           /\ history' \in [Servers -> SUBSET History]
           /\ reading'[s][r] = [num |-> num, tag |-> t] /\ readed'[s][r] = Absent
           /\ \A p \in Servers, d \in Clients : <<p, d>> # <<s, r>> =>
                 reading'[p][d] = reading[p][d] /\ readed'[p][d] = readed[p][d]
<1> DEFINE e == [num |-> num, tag |-> t]
<1>1. e \in [num : Nat, tag : Tag]
  OBVIOUS
<1> HIDE DEF e
<1>2. reading' = [reading EXCEPT ![s][r] = e]
  BY DEF Registers, e
<1>3. /\ reading' \in [Servers -> [Clients -> [num : Nat, tag : Tag] \cup {NotRegistered}]]
      /\ reading'[s][r] = e
      /\ \A p \in Servers, d \in Clients : <<p, d>> # <<s, r>> =>
            reading'[p][d] = reading[p][d]
  BY <1>1, <1>2 DEF Types
<1>4. /\ readed' \in [Servers -> [Clients -> Nat \cup {Absent}]]
      /\ readed'[s][r] = Absent
      /\ \A p \in Servers, d \in Clients : <<p, d>> # <<s, r>> =>
            readed'[p][d] = readed[p][d]
  BY DEF Types, Registers
<1>5. history' \in [Servers -> SUBSET History]
  BY DEF Types, Registers
<1> QED
  BY <1>3, <1>4, <1>5 DEF e

LEMMA TypesForget ==
    ASSUME Types, NEW s \in Servers, NEW r \in Clients, NEW num \in Nat,
           NEW his \in SUBSET History, Forget(s, r, num, his)
    PROVE  /\ reading' \in [Servers -> [Clients -> [num : Nat, tag : Tag] \cup {NotRegistered}]]
           /\ readed' \in [Servers -> [Clients -> Nat \cup {Absent}]]
           /\ history' \in [Servers -> SUBSET History]
           /\ reading'[s][r] = NotRegistered /\ readed'[s][r] = num
           /\ history'[s] = {h \in his : h.reader = r => h.num > num}
           /\ \A p \in Servers \ {s} : history'[p] = history[p]
           /\ \A p \in Servers, d \in Clients : <<p, d>> # <<s, r>> =>
                 reading'[p][d] = reading[p][d] /\ readed'[p][d] = readed[p][d]
<1>1. /\ reading' \in [Servers -> [Clients -> [num : Nat, tag : Tag] \cup {NotRegistered}]]
      /\ reading'[s][r] = NotRegistered
      /\ \A p \in Servers, d \in Clients : <<p, d>> # <<s, r>> =>
            reading'[p][d] = reading[p][d]
  BY DEF Types, Forget
<1>2. /\ readed' \in [Servers -> [Clients -> Nat \cup {Absent}]]
      /\ readed'[s][r] = num
      /\ \A p \in Servers, d \in Clients : <<p, d>> # <<s, r>> =>
            readed'[p][d] = readed[p][d]
  BY DEF Types, Forget
<1>3. {h \in his : h.reader = r => h.num > num} \in SUBSET History
  OBVIOUS
<1>4. /\ history' \in [Servers -> SUBSET History]
      /\ history'[s] = {h \in his : h.reader = r => h.num > num}
      /\ \A p \in Servers \ {s} : history'[p] = history[p]
  BY <1>3 DEF Types, Forget
<1> QED
  BY <1>1, <1>2, <1>4

\* The tables of s after a handler of a request of c.
LEMMA ServeTables ==
    ASSUME Types, NEW c \in Clients, NEW s \in Servers, Serve(c, s)
    PROVE  LET m == NextOf(c, s)
           IN  /\ m \in Request
               /\ \/ UNCHANGED tables
                  \/ m.phase = READ_VALUE /\ m.num \in Nat /\ m.tag \in Tag
                     /\ Registers(s, c, m.num, m.tag)
                  \/ m.phase = READ_COMPLETE /\ m.num \in Nat
                     /\ ~Outdated(s, c, m.num) /\ Forget(s, c, m.num, history[s])
<1> DEFINE m == NextOf(c, s)
<1>1. READ_VALUE \notin GetPhases /\ READ_COMPLETE \notin GetPhases
  OBVIOUS
<1>2. CASE ServeGet(c, s)
  <2>1. PICK phase \in GetPhases : Take(c, s, phase)
    BY <1>2 DEF ServeGet
  <2> QED
    BY <2>1, <1>2, Takes DEF ServeGet
<1>3. CASE ServeWritePut(c, s)
  BY <1>3, Takes DEF ServeWritePut
<1>4. CASE ServeReadValue(c, s)
  <2>1. Take(c, s, READ_VALUE) /\ UNCHANGED history
        /\ \/ UNCHANGED <<reading, readed>>
           \/ /\ ~Outdated(s, c, m.num)
              /\ reading' = [reading EXCEPT ![s][c] = [num |-> m.num, tag |-> m.tag]]
              /\ readed' = [readed EXCEPT ![s][c] = Absent]
    BY <1>4 DEF ServeReadValue
  <2>2. m \in Request /\ m.phase = READ_VALUE /\ m.num \in Nat /\ m.tag \in Tag
    BY <2>1, <1>1, Takes
  <2> QED
    BY <2>1, <2>2 DEF Registers, tables
<1>5. CASE ServeReadComplete(c, s)
  <2>1. Take(c, s, READ_COMPLETE)
        /\ \/ UNCHANGED tables
           \/ ~Outdated(s, c, m.num) /\ Forget(s, c, m.num, history[s])
    BY <1>5 DEF ServeReadComplete
  <2>2. m \in Request /\ m.phase = READ_COMPLETE /\ m.num \in Nat
    BY <2>1, Takes
  <2> QED
    BY <2>1, <2>2
<1> QED
  BY <1>2, <1>3, <1>4, <1>5 DEF Serve

\* A handler of a request takes it, whatever its phase.
LEMMA ServeTakes ==
    ASSUME Types, NEW c \in Clients, NEW s \in Servers, Serve(c, s)
    PROVE  /\ toServer[c][s] # <<>>
           /\ NextOf(c, s) \in Request
           /\ toServer' \in [Clients -> [Servers -> Seq(Request)]]
           /\ toServer'[c][s] = Tail(toServer[c][s])
           /\ \A d \in Clients, r \in Servers : <<d, r>> # <<c, s>> =>
                 toServer'[d][r] = toServer[d][r]
           /\ UNCHANGED clientVars
<1>1. PICK phase : Take(c, s, phase)
  BY DEF Serve, ServeGet, ServeWritePut, ServeReadValue, ServeReadComplete
<1> QED
  BY <1>1, Takes

LEMMA TypesServe ==
    ASSUME Types, NEW c \in Clients, NEW s \in Servers, Serve(c, s)
    PROVE  Types'
<1> DEFINE m == NextOf(c, s)
<1>1. /\ toServer' \in [Clients -> [Servers -> Seq(Request)]]
      /\ UNCHANGED clientVars
  BY ServeTakes
<1>2. /\ toClient' \in [Clients -> [Servers -> Seq(Answer)]]
      /\ toPeer' \in [Servers -> [Servers -> Seq(Dispersal)]]
      /\ store' \in [Servers -> Object]
  BY ServeSends DEF Sends, StoreGrows
<1>3. /\ reading' \in [Servers -> [Clients -> [num : Nat, tag : Tag] \cup {NotRegistered}]]
      /\ readed' \in [Servers -> [Clients -> Nat \cup {Absent}]]
      /\ history' \in [Servers -> SUBSET History]
  <2>1. CASE UNCHANGED tables
    BY <2>1 DEF tables, Types
  <2>2. CASE m.num \in Nat /\ m.tag \in Tag /\ Registers(s, c, m.num, m.tag)
    BY <2>2, TypesRegister
  <2>3. CASE m.num \in Nat /\ Forget(s, c, m.num, history[s])
    <3>1. history[s] \in SUBSET History
      BY DEF Types
    <3> QED
      BY <2>3, <3>1, TypesForget
  <2> QED
    BY <2>1, <2>2, <2>3, ServeTables
<1> QED
  BY <1>1, <1>2, <1>3 DEF Types, clientVars

\* A dispersal that s handles, and the history with it.
Heard(p, s) == Head(toPeer[p][s])
WithHeard(p, s) ==
    history[s] \cup {[reader |-> Heard(p, s).reader, num |-> Heard(p, s).num,
                      tag |-> Heard(p, s).tag, sender |-> p]}
Enough(p, s) ==
    Cardinality(historydata_lookup(WithHeard(p, s), Heard(p, s).reader, Heard(p, s).num,
                                   Heard(p, s).tag)) >= K

LEMMA DisperseTakes ==
    ASSUME Types, NEW p \in Servers, NEW s \in Servers, ServeReadDisperse(p, s)
    PROVE  /\ toPeer[p][s] # <<>>
           /\ Heard(p, s) \in Dispersal
           /\ Heard(p, s).reader \in Clients /\ Heard(p, s).num \in Nat
           /\ Heard(p, s).tag \in Tag
           /\ WithHeard(p, s) \in SUBSET History
           /\ toPeer' \in [Servers -> [Servers -> Seq(Dispersal)]]
           /\ toPeer'[p][s] = Tail(toPeer[p][s])
           /\ \A q, t \in Servers : <<q, t>> # <<p, s>> => toPeer'[q][t] = toPeer[q][t]
           /\ UNCHANGED <<store, toServer, toClient, clientVars>>
<1>1. toPeer[p][s] \in Seq(Dispersal) /\ toPeer[p][s] # <<>>
  BY DEF ServeReadDisperse, Types
<1>2. Heard(p, s) \in Dispersal /\ Tail(toPeer[p][s]) \in Seq(Dispersal)
  BY <1>1, ChannelTail DEF Heard
<1>3. toPeer' = [toPeer EXCEPT ![p][s] = Tail(toPeer[p][s])]
  BY DEF ServeReadDisperse, Types
<1>4. /\ toPeer' \in [Servers -> [Servers -> Seq(Dispersal)]]
      /\ toPeer'[p][s] = Tail(toPeer[p][s])
      /\ \A q, t \in Servers : <<q, t>> # <<p, s>> => toPeer'[q][t] = toPeer[q][t]
  BY <1>2, <1>3 DEF Types
<1>5. Heard(p, s).reader \in Clients /\ Heard(p, s).num \in Nat /\ Heard(p, s).tag \in Tag
  BY <1>2 DEF Dispersal
<1>6. WithHeard(p, s) \in SUBSET History
  <2>1. [reader |-> Heard(p, s).reader, num |-> Heard(p, s).num, tag |-> Heard(p, s).tag,
         sender |-> p] \in History
    BY <1>5 DEF History
  <2>2. history[s] \in SUBSET History
    BY DEF Types
  <2> QED
    BY <2>1, <2>2 DEF WithHeard
<1> QED
  BY <1>1, <1>2, <1>4, <1>5, <1>6 DEF ServeReadDisperse

LEMMA DisperseTables ==
    ASSUME Types, NEW p \in Servers, NEW s \in Servers, ServeReadDisperse(p, s)
    PROVE  \/ UNCHANGED tables /\ Outdated(s, Heard(p, s).reader, Heard(p, s).num)
           \/ /\ ~Outdated(s, Heard(p, s).reader, Heard(p, s).num)
              /\ Enough(p, s)
              /\ Forget(s, Heard(p, s).reader, Heard(p, s).num, WithHeard(p, s))
           \/ /\ ~Outdated(s, Heard(p, s).reader, Heard(p, s).num)
              /\ ~Enough(p, s)
              /\ history' = [history EXCEPT ![s] = WithHeard(p, s)]
              /\ UNCHANGED <<reading, readed>>
<1> DEFINE m == Head(toPeer[p][s])
           his == history[s] \cup {[reader |-> m.reader, num |-> m.num, tag |-> m.tag,
                                    sender |-> p]}
           set == historydata_lookup(his, m.reader, m.num, m.tag)
<1>1. (CASE Outdated(s, m.reader, m.num) -> UNCHANGED tables
         [] ~Outdated(s, m.reader, m.num) /\ Cardinality(set) >= K ->
              Forget(s, m.reader, m.num, his)
         [] OTHER -> /\ history' = [history EXCEPT ![s] = his]
                     /\ UNCHANGED <<reading, readed>>)
  BY DEF ServeReadDisperse
<1>2. m = Heard(p, s) /\ his = WithHeard(p, s)
  BY DEF Heard, WithHeard
<1>3. Enough(p, s) <=> Cardinality(set) >= K
  BY <1>2 DEF Enough
<1> HIDE DEF m, his, set
<1>4. \/ Outdated(s, m.reader, m.num) /\ UNCHANGED tables
      \/ ~Outdated(s, m.reader, m.num) /\ Cardinality(set) >= K
         /\ Forget(s, m.reader, m.num, his)
      \/ ~Outdated(s, m.reader, m.num) /\ ~(Cardinality(set) >= K)
         /\ history' = [history EXCEPT ![s] = his] /\ UNCHANGED <<reading, readed>>
  BY <1>1
<1> QED
  BY <1>2, <1>3, <1>4

LEMMA TypesDisperse ==
    ASSUME Types, NEW p \in Servers, NEW s \in Servers, ServeReadDisperse(p, s)
    PROVE  Types'
<1>1. /\ toPeer' \in [Servers -> [Servers -> Seq(Dispersal)]]
      /\ UNCHANGED <<store, toServer, toClient, clientVars>>
      /\ WithHeard(p, s) \in SUBSET History
      /\ Heard(p, s).reader \in Clients /\ Heard(p, s).num \in Nat
  BY DisperseTakes
<1>2. /\ reading' \in [Servers -> [Clients -> [num : Nat, tag : Tag] \cup {NotRegistered}]]
      /\ readed' \in [Servers -> [Clients -> Nat \cup {Absent}]]
      /\ history' \in [Servers -> SUBSET History]
  <2>1. CASE UNCHANGED tables
    BY <2>1 DEF tables, Types
  <2>2. CASE Forget(s, Heard(p, s).reader, Heard(p, s).num, WithHeard(p, s))
    BY <2>2, <1>1, TypesForget
  <2>3. CASE /\ history' = [history EXCEPT ![s] = WithHeard(p, s)]
             /\ UNCHANGED <<reading, readed>>
    <3>1. history' \in [Servers -> SUBSET History]
      BY <2>3, <1>1 DEF Types
    <3> QED
      BY <3>1, <2>3 DEF Types
  <2> QED
    BY <2>1, <2>2, <2>3, DisperseTables
<1> QED
  BY <1>1, <1>2 DEF Types, clientVars

---------------------------------------------------------------------------
(* The steps of a client. *)

LEMMA CurrentCall ==
    ASSUME Types, NEW c \in Clients, pc[c] # "idle"
    PROVE  /\ call[c] \in Nat /\ call[c] > 0 /\ call[c] <= Len(Script[c])
           /\ call[c] \in 1 .. Len(Script[c])
           /\ Script[c][call[c]] \in [kind : Kinds, num : Nat]
           /\ Num(c) \in Nat /\ Kind(c) \in Kinds
<1>1. call[c] \in Nat /\ call[c] > 0 /\ call[c] <= Len(Script[c])
  BY DEF Types
<1>2. Len(Script[c]) \in Nat
  BY CallsAssumption
<1>3. Script[c][call[c]] \in [kind : Kinds, num : Nat]
  BY <1>1, CallType
<1> QED
  BY <1>1, <1>2, <1>3 DEF Num, Kind

LEMMA Multicasts ==
    ASSUME Types, NEW c \in Clients, NEW m \in Request, Multicast(c, m)
    PROVE  /\ toServer' \in [Clients -> [Servers -> Seq(Request)]]
           /\ \A s \in Servers : toServer'[c][s] = Append(toServer[c][s], m)
           /\ \A d \in Clients, s \in Servers : d # c => toServer'[d][s] = toServer[d][s]
<1>1. \A s \in Servers : Append(toServer[c][s], m) \in Seq(Request)
  BY ChannelTypes, ChannelAppend
<1>2. toServer' = [toServer EXCEPT ![c] = [s \in Servers |-> Append(toServer[c][s], m)]]
  BY DEF Multicast, Types
<1>3. [s \in Servers |-> Append(toServer[c][s], m)] \in [Servers -> Seq(Request)]
  BY <1>1
<1> QED
  BY <1>2, <1>3 DEF Types

LEMMA Receives ==
    ASSUME Types, NEW c \in Clients, NEW s \in Servers, Receive(c, s)
    PROVE  /\ c \in alive /\ pc[c] # "idle"
           /\ toClient[c][s] \in Seq(Answer) /\ toClient[c][s] # <<>>
           /\ Head(toClient[c][s]) \in Answer
           /\ Head(toClient[c][s]).tag \in Tag /\ Head(toClient[c][s]).val \in Values
           /\ toClient' \in [Clients -> [Servers -> Seq(Answer)]]
           /\ toClient'[c][s] = Tail(toClient[c][s])
           /\ \A d \in Clients, r \in Servers : <<d, r>> # <<c, s>> =>
                 toClient'[d][r] = toClient[d][r]
           /\ UNCHANGED <<store, tables, toPeer, alive, call, before>>
<1>1. toClient[c][s] \in Seq(Answer) /\ toClient[c][s] # <<>>
  BY ChannelTypes DEF Receive
<1>2. Head(toClient[c][s]) \in Answer /\ Tail(toClient[c][s]) \in Seq(Answer)
  BY <1>1, ChannelTail
<1>3. toClient' = [toClient EXCEPT ![c][s] = Tail(toClient[c][s])]
  BY DEF Receive, Types
<1>4. /\ toClient' \in [Clients -> [Servers -> Seq(Answer)]]
      /\ toClient'[c][s] = Tail(toClient[c][s])
      /\ \A d \in Clients, r \in Servers : <<d, r>> # <<c, s>> =>
            toClient'[d][r] = toClient[d][r]
  BY <1>2, <1>3 DEF Types
<1> QED
  BY <1>1, <1>2, <1>4 DEF Receive, Answer

LEMMA EmptyBagType == IsABag(EmptyBag) /\ DOMAIN EmptyBag = {}
BY DEF IsABag, EmptyBag, SetToBag

\* One more element in a bag.
LEMMA BagPlusOne ==
    ASSUME NEW b, IsABag(b), NEW e
    PROVE  LET more == b (+) SetToBag({e})
           IN  /\ IsABag(more)
               /\ DOMAIN more = DOMAIN b \cup {e}
               /\ more[e] = IF e \in DOMAIN b THEN b[e] + 1 ELSE 1
               /\ \A x \in DOMAIN b : x # e => more[x] = b[x]
               /\ more[e] \in Nat /\ more[e] > 0
<1> DEFINE one == SetToBag({e})
<1>1. one = [x \in {e} |-> 1]
  BY DEF SetToBag
<1>2. DOMAIN one = {e} /\ one[e] = 1
  BY <1>1
<1>3. b \in [DOMAIN b -> {n \in Nat : n > 0}]
  BY DEF IsABag
<1> DEFINE more == b (+) one
<1>4. more = [x \in DOMAIN b \cup DOMAIN one |->
                (IF x \in DOMAIN b THEN b[x] ELSE 0) + (IF x \in DOMAIN one THEN one[x] ELSE 0)]
  BY DEF (+)
<1> HIDE DEF one
<1>5. \A x \in DOMAIN b : b[x] \in Nat /\ b[x] > 0
  BY <1>3
<1>8. DOMAIN more = DOMAIN b \cup {e}
      /\ \A x \in DOMAIN b \cup {e} :
            more[x] = (IF x \in DOMAIN b THEN b[x] ELSE 0) + (IF x = e THEN 1 ELSE 0)
  BY <1>2, <1>4
<1> HIDE DEF more
<1>9. /\ more[e] = IF e \in DOMAIN b THEN b[e] + 1 ELSE 1
      /\ more[e] \in Nat /\ more[e] > 0
  BY <1>5, <1>8
<1>10. \A x \in DOMAIN b : x # e => more[x] = b[x]
  BY <1>5, <1>8
<1>11. more \in [DOMAIN more -> {n \in Nat : n > 0}]
  <2>1. \A x \in DOMAIN more : more[x] \in {n \in Nat : n > 0}
    BY <1>5, <1>8, <1>9, <1>10
  <2>2. more = [x \in DOMAIN more |-> more[x]]
    BY <1>4, <1>8 DEF more
  <2> QED
    BY <2>1, <2>2
<1> QED
  BY <1>8, <1>9, <1>10, <1>11 DEF IsABag, more, one

LEMMA TypesBegin ==
    ASSUME Types, NEW c \in Clients, Begin(c)
    PROVE  /\ Types'
           /\ call[c] + 1 \in 1 .. Len(Script[c])
           /\ Script[c][call[c] + 1] \in [kind : Kinds, num : Nat]
           /\ LET next  == Script[c][call[c] + 1]
                  phase == IF next.kind = "read" THEN READ_GET ELSE WRITE_GET
                  m     == Message(phase, next.num, NoTag, InitVal)
              IN  /\ pc' = [pc EXCEPT ![c] = phase]
                  /\ call' = [call EXCEPT ![c] = call[c] + 1]
                  /\ m \in Request /\ Multicast(c, m)
<1> DEFINE next  == Script[c][call[c] + 1]
           phase == IF next.kind = "read" THEN READ_GET ELSE WRITE_GET
           m     == Message(phase, next.num, NoTag, InitVal)
<1>1. call[c] \in Nat /\ call[c] < Len(Script[c]) /\ Len(Script[c]) \in Nat
  BY CallsAssumption DEF Begin, Types
<1>2. call[c] + 1 \in 1 .. Len(Script[c]) /\ call[c] + 1 \in Nat /\ 0 < call[c] + 1
      /\ call[c] + 1 <= Len(Script[c])
  BY <1>1
<1>3. next \in [kind : Kinds, num : Nat]
  BY <1>2, CallType
<1>4. m \in Request
  BY <1>3 DEF Request, GetRequest, Message
<1>5. /\ pc' = [pc EXCEPT ![c] = phase] /\ Multicast(c, m)
      /\ call' = [call EXCEPT ![c] = call[c] + 1]
  BY DEF Begin, Types
<1>6. phase \in GetPhases /\ phase \in Phases /\ phase \notin {WRITE_PUT, READ_VALUE, DRAIN}
  OBVIOUS
<1> HIDE DEF m, next, phase
<1>7. toServer' \in [Clients -> [Servers -> Seq(Request)]]
  BY <1>4, <1>5, Multicasts
<1>8. /\ responses' = [responses EXCEPT ![c] = 0]
      /\ tag' = [tag EXCEPT ![c] = NoTag]
      /\ elements' = [elements EXCEPT ![c] = EmptyBag]
      /\ before' = [before EXCEPT ![c] = {Id(r) : r \in done}]
      /\ UNCHANGED <<store, tables, toPeer, toClient, alive, done>>
  BY DEF Begin
<1>9. /\ pc' \in [Clients -> Phases \cup {"idle", DRAIN}]
      /\ call' \in [Clients -> Nat]
      /\ responses' \in [Clients -> Nat]
      /\ tag' \in [Clients -> Tag \cup {NoTag}]
  BY <1>2, <1>5, <1>6, <1>8 DEF Types
<1>10. \A d \in Clients : IsABag(elements'[d]) /\ DOMAIN elements'[d] \subseteq Element
  BY <1>8, EmptyBagType DEF Types
<1>11. before' \in [Clients -> SUBSET CallId] /\ done' \subseteq Result
  <2>1. {Id(r) : r \in done} \in SUBSET CallId
    BY DEF Types, Result, Id, CallId
  <2> QED
    BY <2>1, <1>8 DEF Types
<1>12. \A d \in Clients :
         /\ call'[d] <= Len(Script[d])
         /\ pc'[d] # "idle" => call'[d] > 0
         /\ pc'[d] \in {WRITE_PUT, READ_VALUE, DRAIN} \/ responses'[d] > 0 => tag'[d] \in Tag
         /\ pc'[d] \notin GetPhases => responses'[d] < K
  BY <1>2, <1>5, <1>6, <1>8 DEF Types
<1>13. Types'
  BY <1>7, <1>8, <1>9, <1>10, <1>11, <1>12 DEF Types, tables
<1> QED
  BY <1>2, <1>3, <1>4, <1>5, <1>13 DEF m, next, phase

\* The steps of a client that read one message and end no phase but that of a write.
LEMMA MaxTagType ==
    ASSUME NEW t \in Tag \cup {NoTag}, NEW u \in Tag
    PROVE  MaxTagStep(t, u) \in Tag
<1>1. CASE t = NoTag
  <2>1. u.z \in Nat /\ NoTag.z = -1
    BY DEF Tag, NoTag
  <2>2. compare_tag_ptrs(u, t) = 1
    BY <2>1, <1>1 DEF compare_tag_ptrs
  <2> QED
    BY <2>2 DEF MaxTagStep
<1> QED
  BY <1>1 DEF MaxTagStep

LEMMA TypesCount ==
    ASSUME Types, NEW c \in Clients, NEW s \in Servers,
           OldMessage(c, s) \/ CountGet(c, s) \/ CountPut(c, s)
    PROVE  Types'
<1>1. Receive(c, s)
  BY DEF OldMessage, CountGet, CountPut
<1>2. /\ c \in alive /\ pc[c] # "idle"
      /\ Head(toClient[c][s]).tag \in Tag
      /\ toClient' \in [Clients -> [Servers -> Seq(Answer)]]
      /\ UNCHANGED <<store, tables, toPeer, alive, call, before>>
  BY <1>1, Receives
<1>3. CASE OldMessage(c, s)
  BY <1>2, <1>3 DEF OldMessage, Types, tables
<1>4. CASE CountGet(c, s)
  <2>1. /\ responses' = [responses EXCEPT ![c] = responses[c] + 1]
        /\ tag' = [tag EXCEPT ![c] = MaxTagStep(tag[c], Head(toClient[c][s]).tag)]
        /\ pc[c] \in GetPhases
        /\ UNCHANGED <<toServer, pc, elements, done>>
    BY <1>4 DEF CountGet, Types
  <2>2. MaxTagStep(tag[c], Head(toClient[c][s]).tag) \in Tag
    BY <1>2, MaxTagType DEF Types
  <2> DEFINE t == MaxTagStep(tag[c], Head(toClient[c][s]).tag)
  <2> HIDE DEF t
  <2>3. t \in Tag /\ tag' = [tag EXCEPT ![c] = t]
    BY <2>1, <2>2 DEF t
  <2>4. /\ responses' \in [Clients -> Nat]
        /\ tag' \in [Clients -> Tag \cup {NoTag}]
        /\ tag'[c] \in Tag
        /\ \A d \in Clients \ {c} : tag'[d] = tag[d] /\ responses'[d] = responses[d]
    BY <2>1, <2>3 DEF Types
  <2>5. \A d \in Clients :
           /\ pc[d] \in {WRITE_PUT, READ_VALUE, DRAIN} \/ responses'[d] > 0 => tag'[d] \in Tag
           /\ pc[d] \notin GetPhases => responses'[d] < K
    BY <2>1, <2>4 DEF Types
  <2> QED
    BY <1>2, <2>1, <2>4, <2>5 DEF Types, tables
<1>5. CASE CountPut(c, s)
  <2>1. /\ responses' = [responses EXCEPT ![c] = responses[c] + 1]
        /\ responses[c] + 1 < K
        /\ pc[c] = WRITE_PUT
        /\ UNCHANGED <<toServer, pc, tag, elements, done>>
    BY <1>5 DEF CountPut, Types
  <2>2. /\ responses' \in [Clients -> Nat] /\ responses'[c] < K
        /\ \A d \in Clients \ {c} : responses'[d] = responses[d]
    BY <2>1 DEF Types
  <2>3. \A d \in Clients :
           /\ pc[d] \in {WRITE_PUT, READ_VALUE, DRAIN} \/ responses'[d] > 0 => tag[d] \in Tag
           /\ pc[d] \notin GetPhases => responses'[d] < K
    BY <2>1, <2>2 DEF Types
  <2> QED
    BY <1>2, <2>1, <2>2, <2>3 DEF Types, tables
<1> QED
  BY <1>3, <1>4, <1>5

LEMMA OwnType ==
    ASSUME Types, NEW c \in Clients
    PROVE  Own(c) \in Values
BY DEF Types, Own, Values, CallId

LEMMA TypesEndGet ==
    ASSUME Types, NEW c \in Clients, EndGet(c)
    PROVE  /\ Types'
           /\ pc[c] \in GetPhases /\ pc[c] # "idle" /\ responses[c] >= K
           /\ \/ /\ pc[c] = WRITE_GET
                 /\ pc' = [pc EXCEPT ![c] = WRITE_PUT]
                 /\ \E m \in Request : /\ m.phase = WRITE_PUT /\ m.num = Num(c)
                                       /\ Multicast(c, m)
              \/ /\ pc[c] = READ_GET
                 /\ pc' = [pc EXCEPT ![c] = READ_VALUE]
                 /\ tag' = tag
                 /\ \E m \in Request : /\ m.phase = READ_VALUE /\ m.num = Num(c)
                                       /\ m.tag = tag[c]
                                       /\ Multicast(c, m)
<1>1. /\ c \in alive /\ pc[c] \in GetPhases /\ pc[c] # "idle" /\ responses[c] >= K
      /\ responses' = [responses EXCEPT ![c] = 0]
      /\ UNCHANGED <<store, tables, toPeer, toClient, alive, call, elements, before, done>>
  BY DEF EndGet
<1>2. tag[c] \in Tag /\ tag[c].z \in Nat /\ c \in Names
  <2>1. responses[c] > 0
    BY <1>1, KType DEF Types
  <2>2. tag[c] \in Tag
    BY <2>1 DEF Types
  <2> QED
    BY <2>2, CallsAssumption DEF Tag
<1>3. Num(c) \in Nat
  BY <1>1, CurrentCall
<1>4. CASE pc[c] = WRITE_GET
  <2> DEFINE t == TagToWrite(c)
             m == Message(WRITE_PUT, Num(c), t, Own(c))
  <2>1. t \in Tag
    BY <1>2 DEF Tag, TagToWrite
  <2>2. m \in Request /\ m.phase = WRITE_PUT /\ m.num = Num(c)
    BY <2>1, <1>3, OwnType DEF Request, TagRequest, Message
  <2>3. pc' = [pc EXCEPT ![c] = WRITE_PUT] /\ tag' = [tag EXCEPT ![c] = t] /\ Multicast(c, m)
    BY <1>4 DEF EndGet
  <2> HIDE DEF m, t
  <2>4. toServer' \in [Clients -> [Servers -> Seq(Request)]]
    BY <2>2, <2>3, Multicasts
  <2>5. /\ pc' \in [Clients -> Phases \cup {"idle", DRAIN}]
        /\ responses' \in [Clients -> Nat]
        /\ tag' \in [Clients -> Tag \cup {NoTag}]
    BY <1>1, <2>1, <2>3 DEF Types
  <2>6. \A d \in Clients :
           /\ call[d] <= Len(Script[d])
           /\ pc'[d] # "idle" => call[d] > 0
           /\ pc'[d] \in {WRITE_PUT, READ_VALUE, DRAIN} \/ responses'[d] > 0 => tag'[d] \in Tag
           /\ pc'[d] \notin GetPhases => responses'[d] < K
    BY <1>1, <2>1, <2>3, KType DEF Types
  <2>7. Types'
    BY <1>1, <2>4, <2>5, <2>6 DEF Types, tables
  <2> QED
    BY <1>1, <1>4, <2>2, <2>3, <2>7
<1>5. CASE pc[c] = READ_GET
  <2> DEFINE m == Message(READ_VALUE, Num(c), tag[c], InitVal)
  <2>1. m \in Request /\ m.phase = READ_VALUE /\ m.num = Num(c) /\ m.tag = tag[c]
    BY <1>2, <1>3, InitialTypes DEF Request, TagRequest, Message
  <2>2. READ_GET # WRITE_GET
    OBVIOUS
  <2>3. pc' = [pc EXCEPT ![c] = READ_VALUE] /\ tag' = tag /\ Multicast(c, m)
    BY <1>5, <2>2 DEF EndGet
  <2> HIDE DEF m
  <2>4. toServer' \in [Clients -> [Servers -> Seq(Request)]]
    BY <2>1, <2>3, Multicasts
  <2>5. /\ pc' \in [Clients -> Phases \cup {"idle", DRAIN}]
        /\ responses' \in [Clients -> Nat]
    BY <1>1, <2>3 DEF Types
  <2>6. \A d \in Clients :
           /\ call[d] <= Len(Script[d])
           /\ pc'[d] # "idle" => call[d] > 0
           /\ pc'[d] \in {WRITE_PUT, READ_VALUE, DRAIN} \/ responses'[d] > 0 => tag[d] \in Tag
           /\ pc'[d] \notin GetPhases => responses'[d] < K
    BY <1>1, <1>2, <2>3, KType DEF Types
  <2>7. Types'
    BY <1>1, <2>3, <2>4, <2>5, <2>6 DEF Types, tables
  <2> QED
    BY <1>1, <1>5, <2>1, <2>3, <2>7
<1> QED
  BY <1>1, <1>4, <1>5

LEMMA TypesReturn ==
    ASSUME Types, NEW c \in Clients, pc[c] # "idle", NEW t \in Tag, NEW v \in Values,
           Return(c, t, v), UNCHANGED <<store, tables, toPeer, alive, call, before>>,
           toServer' \in [Clients -> [Servers -> Seq(Request)]],
           toClient' \in [Clients -> [Servers -> Seq(Answer)]]
    PROVE  Types'
<1>1. /\ pc' = [pc EXCEPT ![c] = "idle"]
      /\ responses' = [responses EXCEPT ![c] = 0]
      /\ elements' = [elements EXCEPT ![c] = EmptyBag]
      /\ tag' = tag
      /\ done' = done \cup {[client |-> c, call |-> call[c], kind |-> Kind(c),
                             tag |-> t, val |-> v, before |-> before[c]]}
  BY DEF Return
<1>2. done' \subseteq Result
  <2>1. Kind(c) \in Kinds /\ call[c] \in Nat /\ before[c] \in SUBSET CallId
    BY CurrentCall DEF Types
  <2> QED
    BY <1>1, <2>1 DEF Types, Result
<1>3. \A d \in Clients : IsABag(elements'[d]) /\ DOMAIN elements'[d] \subseteq Element
  BY <1>1, EmptyBagType DEF Types
<1>4. /\ pc' \in [Clients -> Phases \cup {"idle", DRAIN}]
      /\ responses' \in [Clients -> Nat]
      /\ \A d \in Clients :
            /\ call[d] <= Len(Script[d])
            /\ pc'[d] # "idle" => call[d] > 0
            /\ pc'[d] \in {WRITE_PUT, READ_VALUE, DRAIN} \/ responses'[d] > 0 => tag[d] \in Tag
            /\ pc'[d] \notin GetPhases => responses'[d] < K
  BY <1>1, KType, SMTT(30) DEF Types
<1> QED
  BY <1>1, <1>2, <1>3, <1>4 DEF Types, tables

LEMMA TypesEndPut ==
    ASSUME Types, NEW c \in Clients, NEW s \in Servers, EndPut(c, s)
    PROVE  Types'
<1>1. Receive(c, s) /\ pc[c] = WRITE_PUT /\ Return(c, tag[c], Own(c)) /\ UNCHANGED toServer
  BY DEF EndPut
<1>2. /\ toClient' \in [Clients -> [Servers -> Seq(Answer)]]
      /\ UNCHANGED <<store, tables, toPeer, alive, call, before>>
      /\ pc[c] # "idle"
  BY <1>1, Receives
<1>3. tag[c] \in Tag /\ Own(c) \in Values
  BY <1>1, OwnType DEF Types
<1>4. toServer' \in [Clients -> [Servers -> Seq(Request)]]
  BY <1>1 DEF Types
<1> QED
  BY <1>1, <1>2, <1>3, <1>4, TypesReturn

LEMMA TypesEndRead ==
    ASSUME Types, NEW c \in Clients, EndRead(c)
    PROVE  /\ Types'
           /\ \E m \in Request : /\ m.phase = READ_COMPLETE /\ m.num = Num(c)
                                 /\ Multicast(c, m)
<1>1. /\ pc[c] = DRAIN /\ pc[c] # "idle"
      /\ Multicast(c, Message(READ_COMPLETE, Num(c), tag[c], InitVal))
      /\ UNCHANGED <<store, tables, toPeer, toClient, alive, call, before>>
  BY DEF EndRead
<1>2. PICK e \in Decoded(c) : Return(c, e.tag, e.val)
  BY DEF EndRead
<1>3. e.tag \in Tag /\ e.val \in Values
  BY DEF Decoded, Types, Element
<1> DEFINE m == Message(READ_COMPLETE, Num(c), tag[c], InitVal)
<1>4. m \in Request /\ m.phase = READ_COMPLETE /\ m.num = Num(c)
  <2>1. tag[c] \in Tag /\ Num(c) \in Nat
    BY <1>1, CurrentCall DEF Types
  <2> QED
    BY <2>1, InitialTypes DEF Request, TagRequest, Message
<1>5. Multicast(c, m)
  BY <1>1
<1> HIDE DEF m
<1>6. toServer' \in [Clients -> [Servers -> Seq(Request)]]
  BY <1>4, <1>5, Multicasts
<1>7. toClient' \in [Clients -> [Servers -> Seq(Answer)]]
  BY <1>1 DEF Types
<1>8. Types'
  BY <1>1, <1>2, <1>3, <1>6, <1>7, TypesReturn
<1> QED
  BY <1>4, <1>5, <1>8

\* The element that a read collects.
ElementOf(s, m) == [server |-> s, tag |-> m.tag, val |-> m.val]

LEMMA TypesCollect ==
    ASSUME Types, NEW c \in Clients, NEW s \in Servers, Collect(c, s)
    PROVE  LET e   == ElementOf(s, Head(toClient[c][s]))
               bag == elements[c] (+) SetToBag({e})
           IN  /\ Types'
               /\ Receive(c, s) /\ pc[c] = READ_VALUE /\ Counts(c, Head(toClient[c][s]))
               /\ e \in Element /\ e.server = s /\ e.tag = Head(toClient[c][s]).tag
               /\ elements'[c] = bag
               /\ \A d \in Clients \ {c} : elements'[d] = elements[d] /\ pc'[d] = pc[d]
               /\ pc'[c] = IF Copies(bag, e.tag) >= K THEN DRAIN ELSE READ_VALUE
               /\ UNCHANGED <<toServer, responses, tag, done>>
<1> DEFINE m   == Head(toClient[c][s])
           e   == ElementOf(s, m)
           bag == elements[c] (+) SetToBag({e})
<1>1. /\ Receive(c, s) /\ pc[c] = READ_VALUE /\ Counts(c, m)
      /\ elements' = [elements EXCEPT ![c] = bag]
      /\ pc' = [pc EXCEPT ![c] = IF Copies(bag, m.tag) >= K THEN DRAIN ELSE pc[c]]
      /\ UNCHANGED <<toServer, responses, tag, done>>
  BY DEF Collect, ElementOf, Types
<1>2. /\ toClient' \in [Clients -> [Servers -> Seq(Answer)]]
      /\ UNCHANGED <<store, tables, toPeer, alive, call, before>>
      /\ m.tag \in Tag /\ m.val \in Values
  BY <1>1, Receives
<1>3. e \in Element /\ e.server = s /\ e.tag = m.tag
  BY <1>2 DEF ElementOf, Element
<1> HIDE DEF e
<1>4. IsABag(elements[c]) /\ DOMAIN elements[c] \subseteq Element
  BY DEF Types
<1>5. IsABag(bag) /\ DOMAIN bag \subseteq Element
  <2>1. IsABag(bag) /\ DOMAIN bag = DOMAIN elements[c] \cup {e}
    BY <1>4, BagPlusOne
  <2> QED
    BY <2>1, <1>3, <1>4
<1> HIDE DEF bag
<1>6. /\ \A d \in Clients : IsABag(elements'[d]) /\ DOMAIN elements'[d] \subseteq Element
      /\ elements'[c] = bag
      /\ \A d \in Clients \ {c} : elements'[d] = elements[d]
  BY <1>1, <1>5 DEF Types
<1>7. /\ pc' \in [Clients -> Phases \cup {"idle", DRAIN}]
      /\ pc'[c] = IF Copies(bag, e.tag) >= K THEN DRAIN ELSE READ_VALUE
      /\ pc'[c] \in {DRAIN, READ_VALUE}
      /\ \A d \in Clients \ {c} : pc'[d] = pc[d]
  BY <1>1, <1>3 DEF Types
<1>8. \A d \in Clients :
         /\ pc'[d] # "idle" => call[d] > 0
         /\ pc'[d] \in {WRITE_PUT, READ_VALUE, DRAIN} \/ responses[d] > 0 => tag[d] \in Tag
         /\ pc'[d] \notin GetPhases => responses[d] < K
  BY <1>1, <1>7 DEF Types
<1>9. Types'
  BY <1>1, <1>2, <1>6, <1>7, <1>8 DEF Types, tables
<1> QED
  BY <1>1, <1>3, <1>6, <1>7, <1>9 DEF bag, e

LEMMA Crashes ==
    ASSUME Types, NEW c \in Clients, Crash(c)
    PROVE  /\ c \in alive /\ alive' = alive \ {c}
           /\ toServer' \in [Clients -> [Servers -> Seq(Request)]]
           /\ \A d \in Clients \ {c}, s \in Servers : toServer'[d][s] = toServer[d][s]
           /\ \A s \in Servers : \E k \in 0 .. Len(toServer[c][s]) :
                 toServer'[c][s] = SubSeq(toServer[c][s], 1, k)
           /\ toClient' \in [Clients -> [Servers -> Seq(Answer)]]
           /\ \A s \in Servers : toClient'[c][s] = <<>>
           /\ \A d \in Clients \ {c}, s \in Servers : toClient'[d][s] = toClient[d][s]
           /\ UNCHANGED <<store, tables, toPeer, call, pc, responses, tag, elements, before, done>>
<1>1. PICK kept \in [Servers -> UNION {0 .. Len(toServer[c][s]) : s \in Servers}] :
         /\ \A s \in Servers : kept[s] <= Len(toServer[c][s])
         /\ toServer' = [toServer EXCEPT
                           ![c] = [s \in Servers |-> SubSeq(@[s], 1, kept[s])]]
  BY DEF Crash
<1>2. \A s \in Servers : kept[s] \in 0 .. Len(toServer[c][s])
  <2> TAKE s \in Servers
  <2>1. PICK r \in Servers : kept[s] \in 0 .. Len(toServer[c][r])
    BY <1>1
  <2>2. Len(toServer[c][r]) \in Nat /\ Len(toServer[c][s]) \in Nat
    BY ChannelTypes, SeqLength
  <2> QED
    BY <2>1, <2>2, <1>1
<1>3. \A s \in Servers : SubSeq(toServer[c][s], 1, kept[s]) \in Seq(Request)
  BY <1>2, ChannelTypes, ChannelPrefix
<1>4. /\ toServer' \in [Clients -> [Servers -> Seq(Request)]]
      /\ \A d \in Clients \ {c}, s \in Servers : toServer'[d][s] = toServer[d][s]
      /\ \A s \in Servers : toServer'[c][s] = SubSeq(toServer[c][s], 1, kept[s])
  BY <1>1, <1>3 DEF Types
<1>5. /\ toClient' \in [Clients -> [Servers -> Seq(Answer)]]
      /\ \A s \in Servers : toClient'[c][s] = <<>>
      /\ \A d \in Clients \ {c}, s \in Servers : toClient'[d][s] = toClient[d][s]
  BY DEF Types, Crash
<1> QED
  BY <1>2, <1>4, <1>5 DEF Crash

LEMMA TypesCrash ==
    ASSUME Types, NEW c \in Clients, Crash(c)
    PROVE  Types'
BY Crashes DEF Types, tables

LEMMA TypesNext == Types /\ [Next]_vars => Types'
<1> SUFFICES ASSUME Types, [Next]_vars PROVE Types'
  OBVIOUS
<1>1. ASSUME NEW c \in Clients, ClientStep(c) PROVE Types'
  BY <1>1, TypesBegin, TypesEndGet, TypesEndRead, TypesCount, TypesEndPut, TypesCollect
     DEF ClientStep
<1>2. ASSUME NEW c \in Clients, Crash(c) PROVE Types'
  BY <1>2, TypesCrash
<1>3. ASSUME NEW c \in Clients, NEW s \in Servers, Serve(c, s) PROVE Types'
  BY <1>3, TypesServe
<1>4. ASSUME NEW p \in Servers, NEW s \in Servers, ServeReadDisperse(p, s) PROVE Types'
  BY <1>4, TypesDisperse
<1>5. CASE UNCHANGED vars
  BY <1>5 DEF Types, vars, tables, clientVars
<1> QED
  BY <1>1, <1>2, <1>3, <1>4, <1>5 DEF Next

---------------------------------------------------------------------------
(* The messages of a set in a channel that grows or shrinks. *)

LEMMA TailElements ==
    ASSUME NEW S, NEW q \in Seq(S), q # <<>>
    PROVE  /\ Tail(q) \in Seq(S)
           /\ 1 \in DOMAIN q /\ Head(q) = q[1] /\ Head(q) \in S
           /\ \A i \in DOMAIN Tail(q) : /\ i + 1 \in DOMAIN q /\ Tail(q)[i] = q[i + 1]
                                        /\ i \in Nat /\ i + 1 # 1
           /\ \A i \in DOMAIN q : i # 1 => i - 1 \in DOMAIN Tail(q) /\ Tail(q)[i - 1] = q[i]
<1> DEFINE t == Tail(q)
<1>1. /\ t \in Seq(S) /\ Len(t) = Len(q) - 1 /\ Len(q) \in Nat /\ Len(q) > 0
      /\ \A i \in 1 .. Len(t) : t[i] = q[i + 1]
      /\ Head(q) = q[1] /\ Head(q) \in S
  BY ChannelTail
<1>2. DOMAIN t = 1 .. Len(q) - 1 /\ DOMAIN q = 1 .. Len(q)
  BY <1>1
<1> HIDE DEF t
<1>3. \A i \in DOMAIN t : i + 1 \in DOMAIN q /\ t[i] = q[i + 1] /\ i \in Nat /\ i + 1 # 1
  BY <1>1, <1>2
<1>4. ASSUME NEW i \in DOMAIN q, i # 1
      PROVE  i - 1 \in DOMAIN t /\ t[i - 1] = q[i]
  <2>1. i - 1 \in 1 .. Len(t) /\ (i - 1) + 1 = i
    BY <1>1, <1>2, <1>4
  <2> QED
    BY <2>1, <1>1, <1>2
<1> QED
  BY <1>1, <1>2, <1>3, <1>4 DEF t

LEMMA AppendElements ==
    ASSUME NEW S, NEW q \in Seq(S), NEW m \in S
    PROVE  /\ Append(q, m) \in Seq(S)
           /\ \A i \in DOMAIN Append(q, m) :
                 \/ i \in DOMAIN q /\ Append(q, m)[i] = q[i]
                 \/ i = Len(q) + 1 /\ Append(q, m)[i] = m
           /\ \A i \in DOMAIN q : i \in DOMAIN Append(q, m) /\ Append(q, m)[i] = q[i]
           /\ Len(q) + 1 \in DOMAIN Append(q, m) /\ Append(q, m)[Len(q) + 1] = m
<1> DEFINE a == Append(q, m)
<1>1. /\ a \in Seq(S) /\ Len(a) = Len(q) + 1 /\ Len(q) \in Nat
      /\ \A i \in 1 .. Len(q) : a[i] = q[i]
      /\ a[Len(q) + 1] = m
  BY ChannelAppend
<1>2. DOMAIN a = 1 .. Len(q) + 1 /\ DOMAIN q = 1 .. Len(q)
  BY <1>1
<1> HIDE DEF a
<1> QED
  BY <1>1, <1>2 DEF a

LEMMA PrefixElements ==
    ASSUME NEW S, NEW q \in Seq(S), NEW k \in 0 .. Len(q)
    PROVE  \A i \in DOMAIN SubSeq(q, 1, k) : i \in DOMAIN q /\ SubSeq(q, 1, k)[i] = q[i]
<1> DEFINE p == SubSeq(q, 1, k)
<1>1. p \in Seq(S) /\ Len(p) = k /\ \A i \in 1 .. k : p[i] = q[i]
  BY ChannelPrefix
<1>2. DOMAIN p = 1 .. k /\ DOMAIN q = 1 .. Len(q) /\ Len(q) \in Nat
  BY <1>1
<1> HIDE DEF p
<1> QED
  BY <1>1, <1>2 DEF p

LEMMA HasAppend ==
    ASSUME NEW S, NEW q \in Seq(S), NEW m \in S, NEW M
    PROVE  /\ Has(Append(q, m), M) <=> Has(q, M) \/ m \in M
           /\ AtMostOne(q, M) /\ ~(Has(q, M) /\ m \in M) => AtMostOne(Append(q, m), M)
<1> DEFINE a == Append(q, m)
<1>1. /\ \A i \in DOMAIN a : \/ i \in DOMAIN q /\ a[i] = q[i]
                             \/ i = Len(q) + 1 /\ a[i] = m
      /\ \A i \in DOMAIN q : i \in DOMAIN a /\ a[i] = q[i]
      /\ Len(q) + 1 \in DOMAIN a /\ a[Len(q) + 1] = m
  BY AppendElements
<1> HIDE DEF a
<1>2. Has(a, M) <=> Has(q, M) \/ m \in M
  BY <1>1 DEF Has
<1>3. AtMostOne(q, M) /\ ~(Has(q, M) /\ m \in M) => AtMostOne(a, M)
  BY <1>1 DEF Has, AtMostOne
<1> QED
  BY <1>2, <1>3 DEF a

LEMMA HasTail ==
    ASSUME NEW S, NEW q \in Seq(S), q # <<>>, NEW M
    PROVE  /\ Has(q, M) <=> Has(Tail(q), M) \/ Head(q) \in M
           /\ AtMostOne(q, M) => /\ AtMostOne(Tail(q), M)
                                 /\ Head(q) \in M => ~Has(Tail(q), M)
<1> DEFINE t == Tail(q)
<1>1. /\ 1 \in DOMAIN q /\ Head(q) = q[1]
      /\ \A i \in DOMAIN t : i + 1 \in DOMAIN q /\ t[i] = q[i + 1] /\ i \in Nat /\ i + 1 # 1
      /\ \A i \in DOMAIN q : i # 1 => i - 1 \in DOMAIN t /\ t[i - 1] = q[i]
  BY TailElements
<1> HIDE DEF t
<1>2. Has(q, M) <=> Has(t, M) \/ Head(q) \in M
  BY <1>1 DEF Has
<1>3. ASSUME AtMostOne(q, M) PROVE AtMostOne(t, M)
  <2> SUFFICES ASSUME NEW i \in DOMAIN t, NEW j \in DOMAIN t, t[i] \in M, t[j] \in M
               PROVE  i = j
    BY DEF AtMostOne
  <2>1. i + 1 = j + 1
    BY <1>1, <1>3 DEF AtMostOne
  <2> QED
    BY <2>1, <1>1
<1>4. AtMostOne(q, M) /\ Head(q) \in M => ~Has(t, M)
  BY <1>1 DEF Has, AtMostOne
<1> QED
  BY <1>2, <1>3, <1>4 DEF t

LEMMA HasConcat ==
    ASSUME NEW S, NEW q \in Seq(S), NEW p \in Seq(S), NEW M
    PROVE  /\ Has(q \o p, M) <=> Has(q, M) \/ Has(p, M)
           /\ AtMostOne(q, M) /\ AtMostOne(p, M) /\ ~(Has(q, M) /\ Has(p, M))
                 => AtMostOne(q \o p, M)
<1> DEFINE r == q \o p
<1>1. /\ \A i \in DOMAIN r : \/ i \in DOMAIN q /\ r[i] = q[i]
                             \/ \E j \in DOMAIN p : i = Len(q) + j /\ r[i] = p[j]
      /\ \A i \in DOMAIN q : i \in DOMAIN r /\ r[i] = q[i]
      /\ \A j \in DOMAIN p : Len(q) + j \in DOMAIN r /\ r[Len(q) + j] = p[j]
  BY ChannelConcat
<1> HIDE DEF r
<1>2. Has(r, M) <=> Has(q, M) \/ Has(p, M)
  BY <1>1 DEF Has
<1>3. AtMostOne(q, M) /\ AtMostOne(p, M) /\ ~(Has(q, M) /\ Has(p, M)) => AtMostOne(r, M)
  BY <1>1 DEF Has, AtMostOne
<1> QED
  BY <1>2, <1>3 DEF r

LEMMA InChannel ==
    ASSUME Types, NEW c \in Clients, NEW s \in Servers, NEW phase, NEW num
    PROVE  /\ \A i \in DOMAIN toServer[c][s] :
                 /\ toServer[c][s][i] \in Request
                 /\ toServer[c][s][i] \in Of(phase, num)
                       <=> toServer[c][s][i].phase = phase /\ toServer[c][s][i].num = num
           /\ \A i \in DOMAIN toClient[c][s] :
                 /\ toClient[c][s][i] \in Answer
                 /\ toClient[c][s][i] \in Of(phase, num)
                       <=> toClient[c][s][i].phase = phase /\ toClient[c][s][i].num = num
           /\ \A m \in Request \cup Answer :
                 m \in Of(phase, num) <=> m.phase = phase /\ m.num = num
<1>1. /\ \A i \in DOMAIN toServer[c][s] : toServer[c][s][i] \in Request
      /\ \A i \in DOMAIN toClient[c][s] : toClient[c][s][i] \in Answer
  BY ChannelTypes
<1> QED
  BY <1>1 DEF Of

---------------------------------------------------------------------------
(* Where a step takes a client. *)

\* Nothing of the client d changes.
Kept(d) ==
    /\ call'[d] = call[d] /\ pc'[d] = pc[d] /\ responses'[d] = responses[d]
    /\ tag'[d] = tag[d] /\ elements'[d] = elements[d]
    /\ d \in alive' <=> d \in alive

\* Nor do the channels of d.
Untouched(d) ==
    /\ Kept(d)
    /\ \A s \in Servers : toServer'[d][s] = toServer[d][s] /\ toClient'[d][s] = toClient[d][s]

LEMMA ReadsOne ==
    ASSUME Types, NEW c \in Clients, NEW s \in Servers,
           OldMessage(c, s) \/ CountGet(c, s) \/ CountPut(c, s) \/ EndPut(c, s) \/ Collect(c, s)
    PROVE  Receive(c, s) /\ UNCHANGED toServer
BY DEF OldMessage, CountGet, CountPut, EndPut, Collect

LEMMA OthersKept ==
    ASSUME Types, NEW c \in Clients, ClientStep(c) \/ Crash(c)
    PROVE  /\ \A d \in Clients \ {c} : Untouched(d)
           /\ UNCHANGED <<store, tables, toPeer>>
<1>1. CASE Begin(c)
  <2>1. /\ \A d \in Clients \ {c}, s \in Servers : toServer'[d][s] = toServer[d][s]
        /\ \A d \in Clients \ {c} : pc'[d] = pc[d] /\ call'[d] = call[d]
    <3>1. /\ \E m \in Request : Multicast(c, m)
          /\ \E phase : pc' = [pc EXCEPT ![c] = phase]
          /\ call' = [call EXCEPT ![c] = call[c] + 1]
      BY <1>1, TypesBegin
    <3>2. \A d \in Clients \ {c}, s \in Servers : toServer'[d][s] = toServer[d][s]
      BY <3>1, Multicasts
    <3> QED
      BY <3>1, <3>2 DEF Types
  <2> QED
    BY <2>1, <1>1 DEF Begin, Untouched, Kept, Types
<1>2. CASE EndGet(c)
  <2>1. /\ \A d \in Clients \ {c}, s \in Servers : toServer'[d][s] = toServer[d][s]
        /\ \A d \in Clients \ {c} : pc'[d] = pc[d]
    <3>1. /\ \E m \in Request : Multicast(c, m)
          /\ \E phase : pc' = [pc EXCEPT ![c] = phase]
      BY <1>2, TypesEndGet
    <3>2. \A d \in Clients \ {c}, s \in Servers : toServer'[d][s] = toServer[d][s]
      BY <3>1, Multicasts
    <3> QED
      BY <3>1, <3>2 DEF Types
  <2>2. \A d \in Clients \ {c} : tag'[d] = tag[d] /\ responses'[d] = responses[d]
    BY <1>2 DEF EndGet, Types
  <2> QED
    BY <2>1, <2>2, <1>2 DEF EndGet, Untouched, Kept, Types
<1>3. CASE EndRead(c)
  <2>1. \A d \in Clients \ {c}, s \in Servers : toServer'[d][s] = toServer[d][s]
    BY <1>3, TypesEndRead, Multicasts
  <2>2. PICK e \in Decoded(c) : Return(c, e.tag, e.val)
    BY <1>3 DEF EndRead
  <2>3. UNCHANGED <<store, tables, toPeer, toClient, alive, call>>
    BY <1>3 DEF EndRead
  <2> QED
    BY <2>1, <2>2, <2>3 DEF Return, Untouched, Kept, Types
<1>4. CASE Crash(c)
  BY <1>4, Crashes DEF Untouched, Kept
<1>5. ASSUME NEW s \in Servers,
             OldMessage(c, s) \/ CountGet(c, s) \/ CountPut(c, s) \/ EndPut(c, s)
               \/ Collect(c, s)
      PROVE  /\ \A d \in Clients \ {c} : Untouched(d)
             /\ UNCHANGED <<store, tables, toPeer>>
  <2>1. Receive(c, s) /\ UNCHANGED toServer
    BY <1>5, ReadsOne
  <2>2. /\ UNCHANGED <<store, tables, toPeer, alive, call>>
        /\ \A d \in Clients \ {c}, r \in Servers : toClient'[d][r] = toClient[d][r]
    BY <2>1, Receives
  <2>3. \A d \in Clients \ {c} :
           /\ pc'[d] = pc[d] /\ responses'[d] = responses[d]
           /\ tag'[d] = tag[d] /\ elements'[d] = elements[d]
    <3>1. CASE OldMessage(c, s)
      BY <3>1 DEF OldMessage
    <3>2. CASE CountGet(c, s)
      BY <3>2 DEF CountGet, Types
    <3>3. CASE CountPut(c, s)
      BY <3>3 DEF CountPut, Types
    <3>4. CASE EndPut(c, s)
      BY <3>4 DEF EndPut, Return, Types
    <3>5. CASE Collect(c, s)
      BY <3>5, TypesCollect, ZenonT(60)
    <3> QED
      BY <1>5, <3>1, <3>2, <3>3, <3>4, <3>5
  <2> QED
    BY <2>1, <2>2, <2>3 DEF Untouched, Kept
<1> QED
  BY <1>1, <1>2, <1>3, <1>4, <1>5 DEF ClientStep

\* The steps between the phases of a call.
Onward ==
    {<<WRITE_GET, WRITE_PUT>>, <<WRITE_PUT, "idle">>, <<READ_GET, READ_VALUE>>,
     <<READ_VALUE, DRAIN>>, <<DRAIN, "idle">>}

Moves(d) ==
    \/ call'[d] = call[d] /\ pc'[d] = pc[d]
    \/ call'[d] = call[d] /\ <<pc[d], pc'[d]>> \in Onward
    \/ /\ pc[d] = "idle" /\ call'[d] = call[d] + 1 /\ call'[d] \in 1 .. Len(Script[d])
       /\ pc'[d] = IF Script[d][call'[d]].kind = "read" THEN READ_GET ELSE WRITE_GET

LEMMA StepMoves ==
    ASSUME Types, [Next]_vars, NEW d \in Clients
    PROVE  Moves(d)
<1>1. ASSUME NEW c \in Clients, ClientStep(c) PROVE Moves(d)
  <2>1. CASE d # c
    BY <2>1, <1>1, OthersKept DEF Moves, Untouched, Kept
  <2>2. CASE d = c
    <3>1. CASE Begin(c)
      <4>1. /\ call'[c] = call[c] + 1 /\ call[c] + 1 \in 1 .. Len(Script[c])
            /\ pc[c] = "idle"
            /\ pc'[c] = IF Script[c][call[c] + 1].kind = "read" THEN READ_GET ELSE WRITE_GET
        BY <3>1, TypesBegin DEF Types, Begin
      <4> QED
        BY <4>1, <2>2 DEF Moves
    <3>2. CASE EndGet(c)
      <4>1. \/ pc[c] = WRITE_GET /\ pc' = [pc EXCEPT ![c] = WRITE_PUT]
            \/ pc[c] = READ_GET /\ pc' = [pc EXCEPT ![c] = READ_VALUE]
        BY <3>2, TypesEndGet
      <4>2. call' = call /\ <<pc[c], pc'[c]>> \in Onward
        BY <4>1, <3>2 DEF EndGet, Types, Onward
      <4> QED
        BY <4>2, <2>2 DEF Moves
    <3>3. CASE EndRead(c)
      <4>1. pc[c] = DRAIN /\ pc'[c] = "idle" /\ call' = call
        BY <3>3 DEF EndRead, Return, Types
      <4> QED
        BY <4>1, <2>2 DEF Moves, Onward
    <3>4. ASSUME NEW s \in Servers,
                 OldMessage(c, s) \/ CountGet(c, s) \/ CountPut(c, s) \/ EndPut(c, s)
                   \/ Collect(c, s)
          PROVE  Moves(d)
      <4>1. call' = call
        BY <3>4, ReadsOne, Receives
      <4>2. CASE OldMessage(c, s) \/ CountGet(c, s) \/ CountPut(c, s)
        BY <4>1, <4>2 DEF OldMessage, CountGet, CountPut, Moves
      <4>3. CASE EndPut(c, s)
        <5>1. pc[c] = WRITE_PUT /\ pc'[c] = "idle"
          BY <4>3 DEF EndPut, Return, Types
        <5> QED
          BY <5>1, <4>1, <2>2 DEF Moves, Onward
      <4>4. CASE Collect(c, s)
        <5>1. pc[c] = READ_VALUE /\ pc'[c] \in {DRAIN, READ_VALUE}
          BY <4>4, TypesCollect
        <5> QED
          BY <5>1, <4>1, <2>2 DEF Moves, Onward
      <4> QED
        BY <3>4, <4>2, <4>3, <4>4
    <3> QED
      BY <1>1, <3>1, <3>2, <3>3, <3>4 DEF ClientStep
  <2> QED
    BY <2>1, <2>2
<1>2. ASSUME NEW c \in Clients, Crash(c) PROVE Moves(d)
  BY <1>2, Crashes DEF Moves
<1>3. ASSUME NEW c \in Clients, NEW s \in Servers, Serve(c, s) PROVE Moves(d)
  BY <1>3, ServeTakes DEF Moves, clientVars
<1>4. ASSUME NEW p \in Servers, NEW s \in Servers, ServeReadDisperse(p, s) PROVE Moves(d)
  BY <1>4, DisperseTakes DEF Moves, clientVars
<1>5. CASE UNCHANGED vars
  BY <1>5 DEF Moves, vars, clientVars
<1> QED
  BY <1>1, <1>2, <1>3, <1>4, <1>5 DEF Next

\* A phase that has begun has begun for good.
LEMMA BegunStays ==
    ASSUME Types, [Next]_vars, NEW c \in Clients, NEW phase, NEW num, Begun(c, phase, num)
    PROVE  Begun(c, phase, num)'
<1>1. PICK i \in 1 .. call[c] : /\ Script[c][i].kind = KindOf(phase)
                                /\ Script[c][i].num = num
                                /\ i < call[c] \/ pc[c] \in From(phase)
  BY DEF Begun
<1>2. call[c] \in Nat /\ Moves(c)
  BY StepMoves DEF Types
<1>3. i \in 1 .. call'[c] /\ (i < call[c] => i < call'[c])
  BY <1>1, <1>2 DEF Moves
<1>4. pc[c] \in From(phase) => pc'[c] \in From(phase) \/ i < call'[c]
  <2>1. CASE call'[c] = call[c] + 1
    BY <1>1, <1>2, <2>1
  <2>2. CASE call'[c] = call[c] /\ pc'[c] = pc[c]
    BY <2>2
  <2>3. CASE <<pc[c], pc'[c]>> \in Onward
    BY <2>3 DEF Onward, From
  <2> QED
    BY <1>2, <2>1, <2>2, <2>3 DEF Moves
<1> QED
  BY <1>1, <1>3, <1>4 DEF Begun

LEMMA KindOfPhaseStep ==
    ASSUME Types, [Next]_vars, KindOfPhase
    PROVE  KindOfPhase'
<1> SUFFICES ASSUME NEW c \in Clients, pc'[c] # "idle"
             PROVE  Script[c][call'[c]].kind =
                       IF pc'[c] \in {WRITE_GET, WRITE_PUT} THEN "write" ELSE "read"
  BY DEF KindOfPhase, Kind
<1>1. Moves(c)
  BY StepMoves
<1>2. CASE call'[c] = call[c] /\ pc'[c] = pc[c]
  BY <1>2 DEF KindOfPhase, Kind
<1>3. CASE call'[c] = call[c] /\ <<pc[c], pc'[c]>> \in Onward
  BY <1>3 DEF KindOfPhase, Kind, Onward
<1>4. CASE /\ call'[c] \in 1 .. Len(Script[c])
           /\ pc'[c] = IF Script[c][call'[c]].kind = "read" THEN READ_GET ELSE WRITE_GET
  <2>1. Script[c][call'[c]] \in [kind : Kinds, num : Nat]
    BY <1>4, CallsAssumption, SeqElement
  <2> QED
    BY <2>1, <1>4 DEF Kinds
<1> QED
  BY <1>1, <1>2, <1>3, <1>4 DEF Moves

---------------------------------------------------------------------------
(* Nothing is about a phase that has not begun. *)

LEMMA NewlyBegun ==
    ASSUME Types, KindOfPhase, NEW c \in Clients, Begin(c) \/ EndGet(c) \/ EndRead(c)
    PROVE  \E m \in Request : Multicast(c, m) /\ Begun(c, m.phase, m.num)'
<1>1. CASE Begin(c)
  <2>1. PICK k, next, phase, m :
           /\ k = call[c] + 1 /\ next = Script[c][k]
           /\ phase = (IF next.kind = "read" THEN READ_GET ELSE WRITE_GET)
           /\ m = Message(phase, next.num, NoTag, InitVal)
    OBVIOUS
  <2>2. /\ k \in 1 .. Len(Script[c]) /\ next \in [kind : Kinds, num : Nat]
        /\ m \in Request /\ Multicast(c, m)
        /\ pc' = [pc EXCEPT ![c] = phase] /\ call' = [call EXCEPT ![c] = k]
    BY <1>1, <2>1, TypesBegin
  <2>3. m.phase = phase /\ m.num = next.num
    BY <2>1 DEF Message
  <2>4. pc'[c] = phase /\ call'[c] = k /\ k \in 1 .. call'[c]
    BY <2>2 DEF Types
  <2>5. next.kind = KindOf(phase) /\ phase \in From(phase)
    BY <2>1, <2>2 DEF KindOf, Kinds, From
  <2>6. Begun(c, m.phase, m.num)'
    BY <2>1, <2>3, <2>4, <2>5 DEF Begun
  <2> QED
    BY <2>2, <2>6
<1>2. CASE EndGet(c)
  <2>1. /\ call' = call /\ call[c] \in 1 .. call[c]
    BY <1>2, TypesEndGet, CurrentCall DEF EndGet
  <2>2. PICK m \in Request :
           /\ Multicast(c, m) /\ m.num = Num(c)
           /\ \/ pc[c] = WRITE_GET /\ m.phase = WRITE_PUT /\ pc'[c] = WRITE_PUT
              \/ pc[c] = READ_GET /\ m.phase = READ_VALUE /\ pc'[c] = READ_VALUE
    <3>1. CASE /\ pc[c] = WRITE_GET
               /\ pc' = [pc EXCEPT ![c] = WRITE_PUT]
               /\ \E m \in Request : /\ m.phase = WRITE_PUT /\ m.num = Num(c)
                                     /\ Multicast(c, m)
      BY <3>1 DEF Types
    <3>2. CASE /\ pc[c] = READ_GET
               /\ pc' = [pc EXCEPT ![c] = READ_VALUE]
               /\ \E m \in Request : /\ m.phase = READ_VALUE /\ m.num = Num(c)
                                     /\ Multicast(c, m)
      BY <3>2 DEF Types
    <3> QED
      BY <1>2, <3>1, <3>2, TypesEndGet
  <2>3. Kind(c) = KindOf(m.phase) /\ pc'[c] \in From(m.phase)
    BY <2>2 DEF KindOfPhase, KindOf, From
  <2>4. Begun(c, m.phase, m.num)'
    BY <2>1, <2>2, <2>3 DEF Begun, Kind, Num
  <2> QED
    BY <2>2, <2>4
<1>3. CASE EndRead(c)
  <2>1. PICK m \in Request : m.phase = READ_COMPLETE /\ m.num = Num(c) /\ Multicast(c, m)
    BY <1>3, TypesEndRead
  <2>2. pc[c] = DRAIN /\ pc'[c] = "idle" /\ call' = call
    BY <1>3 DEF EndRead, Return, Types
  <2>3. call[c] \in 1 .. call[c] /\ Kind(c) = "read"
    BY <2>2, CurrentCall DEF KindOfPhase
  <2>4. KindOf(READ_COMPLETE) = "read" /\ "idle" \in From(READ_COMPLETE)
    BY DEF KindOf, From
  <2>5. Begun(c, m.phase, m.num)'
    BY <2>1, <2>2, <2>3, <2>4 DEF Begun, Kind, Num
  <2> QED
    BY <2>1, <2>5
<1> QED
  BY <1>1, <1>2, <1>3

\* What is in the channels of clients after a step of one of them.
LEMMA ClientChannels ==
    ASSUME Types, KindOfPhase, NEW c \in Clients, ClientStep(c) \/ Crash(c),
           NEW d \in Clients, NEW s \in Servers
    PROVE  /\ \A i \in DOMAIN toClient'[d][s] :
                 \E j \in DOMAIN toClient[d][s] : toClient'[d][s][i] = toClient[d][s][j]
           /\ \A i \in DOMAIN toServer'[d][s] :
                 \/ \E j \in DOMAIN toServer[d][s] : toServer'[d][s][i] = toServer[d][s][j]
                 \/ \E m \in Request : toServer'[d][s][i] = m /\ Begun(d, m.phase, m.num)'
<1>1. CASE d # c
  BY <1>1, OthersKept DEF Untouched
<1>2. CASE d = c
  <2>1. CASE Begin(c) \/ EndGet(c) \/ EndRead(c)
    <3>1. PICK m \in Request : Multicast(c, m) /\ Begun(c, m.phase, m.num)'
      BY <2>1, NewlyBegun
    <3>2. toServer'[c][s] = Append(toServer[c][s], m)
      BY <3>1, Multicasts
    <3>3. toClient' = toClient
      BY <2>1 DEF Begin, EndGet, EndRead
    <3> DEFINE q == toServer[c][s]
    <3>4. \A i \in DOMAIN Append(q, m) : \/ i \in DOMAIN q /\ Append(q, m)[i] = q[i]
                                         \/ Append(q, m)[i] = m
      BY ChannelTypes, AppendElements
    <3>5. \A i \in DOMAIN toServer'[c][s] :
             \/ \E j \in DOMAIN q : toServer'[c][s][i] = q[j]
             \/ toServer'[c][s][i] = m
      BY <3>2, <3>4
    <3> QED
      BY <3>1, <3>3, <3>5, <1>2
  <2>2. ASSUME NEW r \in Servers,
               OldMessage(c, r) \/ CountGet(c, r) \/ CountPut(c, r) \/ EndPut(c, r)
                 \/ Collect(c, r)
        PROVE  /\ \A i \in DOMAIN toClient'[c][s] :
                     \E j \in DOMAIN toClient[c][s] : toClient'[c][s][i] = toClient[c][s][j]
               /\ toServer' = toServer
    <3>1. Receive(c, r) /\ UNCHANGED toServer
      BY <2>2, ReadsOne
    <3>2. /\ toClient[c][r] # <<>> /\ toClient'[c][r] = Tail(toClient[c][r])
          /\ s # r => toClient'[c][s] = toClient[c][s]
      BY <3>1, Receives
    <3> DEFINE q == toClient[c][r]
    <3>3. \A i \in DOMAIN Tail(q) : i + 1 \in DOMAIN q /\ Tail(q)[i] = q[i + 1]
      BY <3>2, ChannelTypes, TailElements
    <3> QED
      BY <3>1, <3>2, <3>3
  <2>3. CASE Crash(c)
    <3>1. toClient'[c][s] = <<>>
      BY <2>3, Crashes
    <3>2. PICK k \in 0 .. Len(toServer[c][s]) : toServer'[c][s] = SubSeq(toServer[c][s], 1, k)
      BY <2>3, Crashes
    <3> DEFINE q == toServer[c][s]
    <3>3. q \in Seq(Request)
      BY ChannelTypes
    <3>4. \A i \in DOMAIN SubSeq(q, 1, k) : i \in DOMAIN q /\ SubSeq(q, 1, k)[i] = q[i]
      BY <3>3, PrefixElements
    <3>5. \A i \in DOMAIN toServer'[c][s] : i \in DOMAIN q /\ toServer'[c][s][i] = q[i]
      BY <3>2, <3>4
    <3>6. DOMAIN toClient'[c][s] = {}
      BY <3>1
    <3> QED
      BY <3>5, <3>6, <1>2
  <2> QED
    BY <1>2, <2>1, <2>2, <2>3 DEF ClientStep
<1> QED
  BY <1>1, <1>2

\* A registration of r at s is an earlier one, or that of the request just taken.
LEMMA Registration ==
    ASSUME Types, NEW c \in Clients, NEW s \in Servers, Serve(c, s),
           NEW p \in Servers, NEW r \in Clients
    PROVE  /\ \/ reading'[p][r] = reading[p][r]
              \/ reading'[p][r] = NotRegistered
              \/ /\ p = s /\ r = c /\ NextOf(c, s).phase = READ_VALUE
                 /\ ~Outdated(s, c, NextOf(c, s).num)
                 /\ reading'[p][r] = [num |-> NextOf(c, s).num, tag |-> NextOf(c, s).tag]
           /\ \/ readed'[p][r] = readed[p][r]
              \/ readed'[p][r] = Absent
              \/ /\ p = s /\ r = c /\ NextOf(c, s).phase = READ_COMPLETE
                 /\ readed'[p][r] = NextOf(c, s).num
           /\ history'[p] \subseteq history[p]
<1> DEFINE m == NextOf(c, s)
<1>1. CASE UNCHANGED tables
  BY <1>1 DEF tables
<1>2. CASE /\ m.phase = READ_VALUE /\ m.num \in Nat /\ m.tag \in Tag
           /\ Registers(s, c, m.num, m.tag)
  <2>1. /\ reading'[s][c] = [num |-> m.num, tag |-> m.tag] /\ readed'[s][c] = Absent
        /\ <<p, r>> # <<s, c>> => reading'[p][r] = reading[p][r] /\ readed'[p][r] = readed[p][r]
    BY <1>2, TypesRegister
  <2>2. history' = history /\ ~Outdated(s, c, m.num)
    BY <1>2 DEF Registers
  <2> QED
    BY <2>1, <2>2, <1>2
<1>3. CASE m.phase = READ_COMPLETE /\ m.num \in Nat /\ Forget(s, c, m.num, history[s])
  <2>1. history[s] \in SUBSET History
    BY DEF Types
  <2>2. /\ reading'[s][c] = NotRegistered /\ readed'[s][c] = m.num
        /\ history'[s] = {h \in history[s] : h.reader = c => h.num > m.num}
        /\ \A q \in Servers \ {s} : history'[q] = history[q]
        /\ <<p, r>> # <<s, c>> => reading'[p][r] = reading[p][r] /\ readed'[p][r] = readed[p][r]
    BY <2>1, <1>3, TypesForget
  <2>3. history'[p] \subseteq history[p]
    BY <2>2
  <2> QED
    BY <2>2, <2>3, <1>3
<1> QED
  BY <1>1, <1>2, <1>3, ServeTables

LEMMA Deregistration ==
    ASSUME Types, NEW q \in Servers, NEW s \in Servers, ServeReadDisperse(q, s),
           NEW p \in Servers
    PROVE  /\ \A r \in Clients : reading'[p][r] = reading[p][r] \/ reading'[p][r] = NotRegistered
           /\ \A r \in Clients :
                 \/ readed'[p][r] = readed[p][r]
                 \/ p = s /\ r = Heard(q, s).reader /\ readed'[p][r] = Heard(q, s).num
           /\ history'[p] \subseteq history[p] \cup WithHeard(q, s)
           /\ p # s => history'[p] = history[p]
<1> DEFINE m == Heard(q, s)
<1>0. m.reader \in Clients /\ m.num \in Nat /\ WithHeard(q, s) \in SUBSET History
  BY DisperseTakes
<1>1. CASE UNCHANGED tables
  BY <1>1 DEF tables
<1>2. CASE Forget(s, m.reader, m.num, WithHeard(q, s))
  BY <1>0, <1>2, TypesForget
<1>3. CASE history' = [history EXCEPT ![s] = WithHeard(q, s)] /\ UNCHANGED <<reading, readed>>
  BY <1>3 DEF Types
<1> QED
  BY <1>1, <1>2, <1>3, DisperseTables

\* A reply or an element is sent behind what s sent before.
LEMMA SentByServe ==
    ASSUME Types, NEW c \in Clients, NEW s \in Servers, Serve(c, s),
           NEW d \in Clients, NEW p \in Servers, NEW i \in DOMAIN toClient'[d][p]
    PROVE  LET a == toClient'[d][p][i]
           IN  \/ i \in DOMAIN toClient[d][p] /\ a = toClient[d][p][i]
               \/ p = s /\ d = c /\ IsReply(NextOf(c, s), a)
               \/ /\ p = s /\ IsElement(s, d, a) /\ IsNew(c, s, d, NextOf(c, s))
                  /\ i = Len(toClient[d][p]) + 1
<1>1. PICK out \in [Clients -> Seq(Answer)], news \in Seq(Dispersal) :
         Replies(c, s, out) /\ TellsOf(s, out, news)
  BY ServeSends DEF Sends
<1>2. toClient'[d][p] = IF p = s /\ d \in alive THEN toClient[d][s] \o out[d]
                                                ELSE toClient[d][p]
  BY <1>1 DEF Replies
<1>3. CASE p = s /\ d \in alive
  <2> DEFINE q == toClient[d][s]
  <2>1. \/ i \in DOMAIN q /\ (q \o out[d])[i] = q[i]
        \/ \E j \in DOMAIN out[d] : i = Len(q) + j /\ (q \o out[d])[i] = out[d][j]
    <3> DEFINE o == out[d]
    <3>1. q \in Seq(Answer) /\ o \in Seq(Answer)
      BY ChannelTypes
    <3>2. i \in DOMAIN (q \o o)
      BY <1>2, <1>3
    <3> HIDE DEF q, o
    <3>3. \/ i \in DOMAIN q /\ (q \o o)[i] = q[i]
          \/ \E j \in DOMAIN o : i = Len(q) + j /\ (q \o o)[i] = o[j]
      BY <3>1, <3>2, ChannelConcat
    <3> QED
      BY <3>3 DEF o
  <2>2. \A j \in DOMAIN out[d] :
           \/ d = c /\ IsReply(NextOf(c, s), out[d][j])
           \/ IsElement(s, d, out[d][j]) /\ IsNew(c, s, d, NextOf(c, s)) /\ j = 1
    BY <1>1 DEF Replies
  <2> QED
    BY <1>2, <1>3, <2>1, <2>2
<1>4. CASE ~(p = s /\ d \in alive)
  BY <1>2, <1>4
<1> QED
  BY <1>3, <1>4

\* The server s has now sent the reader r an element of the operation and the tag.
NowSent(s, r, num, t) ==
    \E j \in DOMAIN toClient'[r][s] : /\ toClient'[r][s][j].phase = READ_VALUE
                                     /\ toClient'[r][s][j].num = num
                                     /\ toClient'[r][s][j].tag = t

\* A server tells of an element that it has just been sent out.
LEMMA ToldByServe ==
    ASSUME Types, NEW c \in Clients, NEW s \in Servers, Serve(c, s),
           NEW p \in Servers, NEW q \in Servers, NEW i \in DOMAIN toPeer'[p][q]
    PROVE  LET n == toPeer'[p][q][i]
           IN  \/ i \in DOMAIN toPeer[p][q] /\ n = toPeer[p][q][i]
               \/ /\ p = s /\ n.reader \in Clients
                  /\ reading'[s][n.reader] # NotRegistered
                  /\ n.num = reading'[s][n.reader].num
                  /\ n.tag = store'[s].tag
                  /\ n.reader \in alive => NowSent(s, n.reader, n.num, n.tag)
<1>1. PICK out \in [Clients -> Seq(Answer)], news \in Seq(Dispersal) :
         Replies(c, s, out) /\ TellsOf(s, out, news)
  BY ServeSends DEF Sends
<1>2. CASE p # s
  BY <1>1, <1>2 DEF TellsOf
<1>3. CASE p = s
  <2>1. toPeer'[s][q] = toPeer[s][q] \o news /\ toPeer[s][q] \in Seq(Dispersal)
    BY <1>1 DEF TellsOf, Types
  <2>2. CASE i \in DOMAIN toPeer[s][q] /\ toPeer'[s][q][i] = toPeer[s][q][i]
    BY <2>2, <1>3
  <2>3. ASSUME NEW k \in DOMAIN news, toPeer'[s][q][i] = news[k]
        PROVE  LET n == toPeer'[s][q][i]
               IN  /\ n.reader \in Clients
                   /\ reading'[s][n.reader] # NotRegistered
                   /\ n.num = reading'[s][n.reader].num
                   /\ n.tag = store'[s].tag
                   /\ n.reader \in alive => NowSent(s, n.reader, n.num, n.tag)
    <3>1. PICK r, n : n = news[k] /\ r = n.reader
      OBVIOUS
    <3>2. n \in Dispersal /\ r \in Clients
      <4>1. news[k] \in Dispersal
        OBVIOUS
      <4> QED
        BY <4>1, <3>1 DEF Dispersal
    <3>3. PICK j \in DOMAIN out[r] : /\ out[r][j].phase = READ_VALUE
                                     /\ out[r][j].num = n.num /\ out[r][j].tag = n.tag
      <4>1. \E j \in DOMAIN out[news[k].reader] :
               /\ out[news[k].reader][j].phase = READ_VALUE
               /\ out[news[k].reader][j].num = news[k].num
               /\ out[news[k].reader][j].tag = news[k].tag
        BY <1>1 DEF TellsOf
      <4> QED
        BY <4>1, <3>1
    <3>4. ~IsReply(NextOf(c, s), out[r][j])
      BY <3>3 DEF IsReply, Counting
    <3>5. IsElement(s, r, out[r][j])
      BY <1>1, <3>2, <3>4 DEF Replies
    <3>6. /\ reading'[s][r] # NotRegistered
          /\ n.num = reading'[s][r].num /\ n.tag = store'[s].tag
      BY <3>3, <3>5 DEF IsElement, Message
    <3>7. ASSUME r \in alive
          PROVE  NowSent(s, r, n.num, n.tag)
      <4>1. toClient'[r][s] = toClient[r][s] \o out[r]
        BY <1>1, <3>2, <3>7 DEF Replies
      <4>2. toClient[r][s] \in Seq(Answer) /\ out[r] \in Seq(Answer)
        BY <3>2, ChannelTypes
      <4> DEFINE M == {a \in Answer : a.phase = READ_VALUE /\ a.num = n.num /\ a.tag = n.tag}
                 q0 == toClient[r][s]
                 o == out[r]
      <4>3. out[r][j] \in M
        BY <4>2, <3>3
      <4>4. q0 \in Seq(Answer) /\ o \in Seq(Answer) /\ Has(o, M)
        BY <4>2, <4>3 DEF Has
      <4> HIDE DEF M, q0, o
      <4>5. Has(q0 \o o, M)
        BY <4>4, HasConcat
      <4>6. Has(toClient'[r][s], M)
        BY <4>1, <4>5 DEF q0, o
      <4> QED
        BY <4>6 DEF Has, M, NowSent
    <3> QED
      BY <2>3, <3>1, <3>2, <3>6, <3>7
  <2>4. \/ i \in DOMAIN toPeer[s][q] /\ toPeer'[s][q][i] = toPeer[s][q][i]
        \/ \E k \in DOMAIN news : toPeer'[s][q][i] = news[k]
    BY <2>1, <1>3, ChannelConcat, SMTT(30)
  <2> QED
    BY <1>3, <2>2, <2>3, <2>4
<1> QED
  BY <1>2, <1>3

LEMMA OnlyBegunServe ==
    ASSUME Types, [Next]_vars, OnlyBegun, NEW c \in Clients, NEW s \in Servers, Serve(c, s)
    PROVE  OnlyBegun'
<1>1. PICK m : m = NextOf(c, s)
  OBVIOUS
<1>2. /\ m \in Request /\ toServer[c][s] # <<>>
      /\ toServer'[c][s] = Tail(toServer[c][s])
      /\ \A d \in Clients, r \in Servers : <<d, r>> # <<c, s>> =>
            toServer'[d][r] = toServer[d][r]
  BY <1>1, ServeTakes
<1>3. Begun(c, m.phase, m.num)
  <2>1. 1 \in DOMAIN toServer[c][s] /\ m = toServer[c][s][1]
    BY <1>1, <1>2, ChannelTypes, TailElements DEF NextOf
  <2> QED
    BY <2>1 DEF OnlyBegun
<1>4. m.phase = READ_COMPLETE => Begun(c, READ_VALUE, m.num)
  BY <1>3 DEF Begun, KindOf, From
<1>5. ASSUME NEW d \in Clients, NEW phase, NEW num, Begun(d, phase, num)
      PROVE  Begun(d, phase, num)'
  BY <1>5, BegunStays
<1>6. ASSUME NEW p \in Servers, NEW d \in Clients
      PROVE  /\ reading'[p][d] # NotRegistered => Begun(d, READ_VALUE, reading'[p][d].num)
             /\ readed'[p][d] # Absent => Begun(d, READ_VALUE, readed'[p][d])
  <2>1. /\ \/ reading'[p][d] = reading[p][d]
           \/ reading'[p][d] = NotRegistered
           \/ /\ p = s /\ d = c /\ NextOf(c, s).phase = READ_VALUE
              /\ ~Outdated(s, c, NextOf(c, s).num)
              /\ reading'[p][d] = [num |-> NextOf(c, s).num, tag |-> NextOf(c, s).tag]
        /\ \/ readed'[p][d] = readed[p][d]
           \/ readed'[p][d] = Absent
           \/ /\ p = s /\ d = c /\ NextOf(c, s).phase = READ_COMPLETE
              /\ readed'[p][d] = NextOf(c, s).num
        /\ history'[p] \subseteq history[p]
    BY Registration
  <2>2. /\ \/ reading'[p][d] = reading[p][d]
           \/ reading'[p][d] = NotRegistered
           \/ d = c /\ m.phase = READ_VALUE /\ reading'[p][d] = [num |-> m.num, tag |-> m.tag]
        /\ \/ readed'[p][d] = readed[p][d]
           \/ readed'[p][d] = Absent
           \/ d = c /\ m.phase = READ_COMPLETE /\ readed'[p][d] = m.num
    BY <1>1, <2>1
  <2>3. reading[p][d] # NotRegistered => Begun(d, READ_VALUE, reading[p][d].num)
    BY DEF OnlyBegun
  <2>4. readed[p][d] # Absent => Begun(d, READ_VALUE, readed[p][d])
    BY DEF OnlyBegun
  <2> QED
    BY <2>2, <2>3, <2>4, <1>3, <1>4
<1>7. ASSUME NEW d \in Clients, NEW p \in Servers, NEW i \in DOMAIN toServer'[d][p]
      PROVE  \E phase, num : /\ toServer'[d][p][i].phase = phase
                             /\ toServer'[d][p][i].num = num
                             /\ Begun(d, phase, num)
  <2>1. CASE <<d, p>> = <<c, s>>
    <3> DEFINE q == toServer[c][s]
    <3>0. q \in Seq(Request) /\ q # <<>> /\ i \in DOMAIN Tail(q)
      BY <1>2, <1>7, <2>1, ChannelTypes
    <3>1. i + 1 \in DOMAIN toServer[c][s] /\ toServer'[c][s][i] = toServer[c][s][i + 1]
      BY <3>0, <1>2, TailElements
    <3> QED
      BY <2>1, <3>1 DEF OnlyBegun
  <2>2. CASE <<d, p>> # <<c, s>>
    <3>1. toServer'[d][p] = toServer[d][p]
      BY <1>2, <2>2
    <3> QED
      BY <3>1, <1>7 DEF OnlyBegun
  <2> QED
    BY <2>1, <2>2
<1>8. ASSUME NEW d \in Clients, NEW p \in Servers, NEW i \in DOMAIN toClient'[d][p]
      PROVE  \E phase, num : /\ toClient'[d][p][i].phase = phase
                             /\ toClient'[d][p][i].num = num
                             /\ Begun(d, phase, num)
  <2>1. \/ i \in DOMAIN toClient[d][p] /\ toClient'[d][p][i] = toClient[d][p][i]
        \/ p = s /\ d = c /\ IsReply(m, toClient'[d][p][i])
        \/ p = s /\ IsElement(s, d, toClient'[d][p][i])
    BY <1>1, <1>8, SentByServe
  <2>2. CASE i \in DOMAIN toClient[d][p] /\ toClient'[d][p][i] = toClient[d][p][i]
    BY <2>2 DEF OnlyBegun
  <2>3. CASE d = c /\ IsReply(m, toClient'[d][p][i])
    BY <2>3, <1>3 DEF IsReply
  <2>4. CASE p = s /\ IsElement(s, d, toClient'[d][p][i])
    <3>1. /\ reading'[s][d] # NotRegistered
          /\ toClient'[d][p][i].phase = READ_VALUE
          /\ toClient'[d][p][i].num = reading'[s][d].num
      BY <2>4 DEF IsElement, Message
    <3> QED
      BY <3>1, <1>6
  <2> QED
    BY <2>1, <2>2, <2>3, <2>4
<1>9. ASSUME NEW p \in Servers, NEW q \in Servers, NEW i \in DOMAIN toPeer'[p][q]
      PROVE  \E r \in Clients : \E num : /\ toPeer'[p][q][i].reader = r
                                         /\ toPeer'[p][q][i].num = num
                                         /\ Begun(r, READ_VALUE, num)
  <2>1. PICK n : n = toPeer'[p][q][i]
    OBVIOUS
  <2>2. \/ i \in DOMAIN toPeer[p][q] /\ n = toPeer[p][q][i]
        \/ /\ n.reader \in Clients /\ reading'[s][n.reader] # NotRegistered
           /\ n.num = reading'[s][n.reader].num
    BY <2>1, <1>9, ToldByServe
  <2>3. CASE i \in DOMAIN toPeer[p][q] /\ n = toPeer[p][q][i]
    <3>1. n \in Dispersal
      BY <2>3, SMTT(30) DEF Types
    <3>2. n.reader \in Clients
      BY <3>1 DEF Dispersal
    <3>3. Begun(n.reader, READ_VALUE, n.num)
      BY <2>3 DEF OnlyBegun
    <3> QED
      BY <2>1, <3>2, <3>3
  <2>4. CASE /\ n.reader \in Clients /\ reading'[s][n.reader] # NotRegistered
             /\ n.num = reading'[s][n.reader].num
    BY <2>1, <2>4, <1>6
  <2> QED
    BY <2>2, <2>3, <2>4
<1>10. ASSUME NEW p \in Servers, NEW h \in history'[p]
       PROVE  h.reader \in Clients /\ Begun(h.reader, READ_VALUE, h.num)
  <2>1. h \in history[p]
    BY Registration
  <2>2. h \in History
    BY <2>1 DEF Types
  <2> QED
    BY <2>1, <2>2 DEF OnlyBegun, History
<1> QED
  BY <1>5, <1>6, <1>7, <1>8, <1>9, <1>10 DEF OnlyBegun

\* What is handled was in the channel, and what stays there too.
LEMMA HeardFrom ==
    ASSUME Types, NEW p \in Servers, NEW s \in Servers, ServeReadDisperse(p, s)
    PROVE  /\ 1 \in DOMAIN toPeer[p][s] /\ Heard(p, s) = toPeer[p][s][1]
           /\ \A q, t \in Servers : \A i \in DOMAIN toPeer'[q][t] :
                 \E j \in DOMAIN toPeer[q][t] : toPeer'[q][t][i] = toPeer[q][t][j]
           /\ \A q, t \in Servers : \A j \in DOMAIN toPeer[q][t] :
                 \/ q = p /\ t = s /\ j = 1
                 \/ \E i \in DOMAIN toPeer'[q][t] : toPeer'[q][t][i] = toPeer[q][t][j]
<1> DEFINE w == toPeer[p][s]
<1>1. /\ w \in Seq(Dispersal) /\ w # <<>> /\ toPeer'[p][s] = Tail(w)
      /\ \A q, t \in Servers : <<q, t>> # <<p, s>> => toPeer'[q][t] = toPeer[q][t]
  BY DisperseTakes DEF Types
<1>2. /\ 1 \in DOMAIN w /\ Head(w) = w[1]
      /\ \A i \in DOMAIN Tail(w) : i + 1 \in DOMAIN w /\ Tail(w)[i] = w[i + 1]
      /\ \A i \in DOMAIN w : i # 1 => i - 1 \in DOMAIN Tail(w) /\ Tail(w)[i - 1] = w[i]
  BY <1>1, TailElements
<1>3. 1 \in DOMAIN toPeer[p][s] /\ Heard(p, s) = toPeer[p][s][1]
  BY <1>2 DEF Heard
<1>4. ASSUME NEW q \in Servers, NEW t \in Servers
      PROVE  /\ \A i \in DOMAIN toPeer'[q][t] :
                   \E j \in DOMAIN toPeer[q][t] : toPeer'[q][t][i] = toPeer[q][t][j]
             /\ \A j \in DOMAIN toPeer[q][t] :
                   \/ q = p /\ t = s /\ j = 1
                   \/ \E i \in DOMAIN toPeer'[q][t] : toPeer'[q][t][i] = toPeer[q][t][j]
  <2>1. CASE <<q, t>> # <<p, s>>
    BY <1>1, <2>1
  <2>2. CASE q = p /\ t = s
    <3>1. toPeer[q][t] = w /\ toPeer'[q][t] = Tail(w)
      BY <1>1, <2>2
    <3> HIDE DEF w
    <3>2. \A i \in DOMAIN Tail(w) : \E j \in DOMAIN w : Tail(w)[i] = w[j]
      BY <1>2
    <3>3. \A j \in DOMAIN w : j = 1 \/ \E i \in DOMAIN Tail(w) : Tail(w)[i] = w[j]
      BY <1>2
    <3> QED
      BY <3>1, <3>2, <3>3, <2>2
  <2> QED
    BY <2>1, <2>2
<1> QED
  BY <1>3, <1>4

LEMMA OnlyBegunDisperse ==
    ASSUME Types, [Next]_vars, OnlyBegun, NEW p \in Servers, NEW s \in Servers,
           ServeReadDisperse(p, s)
    PROVE  OnlyBegun'
<1>1. PICK m : m = Heard(p, s)
  OBVIOUS
<1>2. /\ m.reader \in Clients /\ WithHeard(p, s) \in SUBSET History
      /\ UNCHANGED <<toServer, toClient>>
  BY <1>1, DisperseTakes
<1>3. Begun(m.reader, READ_VALUE, m.num)
  BY <1>1, HeardFrom DEF OnlyBegun
<1>4. ASSUME NEW d \in Clients, NEW phase, NEW num, Begun(d, phase, num)
      PROVE  Begun(d, phase, num)'
  BY <1>4, BegunStays
<1>5. ASSUME NEW q \in Servers, NEW d \in Clients
      PROVE  /\ reading'[q][d] # NotRegistered => Begun(d, READ_VALUE, reading'[q][d].num)
             /\ readed'[q][d] # Absent => Begun(d, READ_VALUE, readed'[q][d])
  <2>1. reading'[q][d] = reading[q][d] \/ reading'[q][d] = NotRegistered
    BY Deregistration
  <2>2. readed'[q][d] = readed[q][d] \/ (d = m.reader /\ readed'[q][d] = m.num)
    BY <1>1, Deregistration
  <2> QED
    BY <2>1, <2>2, <1>3 DEF OnlyBegun
<1>6. ASSUME NEW q \in Servers, NEW t \in Servers, NEW i \in DOMAIN toPeer'[q][t]
      PROVE  \E r \in Clients : \E num : /\ toPeer'[q][t][i].reader = r
                                         /\ toPeer'[q][t][i].num = num
                                         /\ Begun(r, READ_VALUE, num)
  <2>1. PICK j \in DOMAIN toPeer[q][t] : toPeer'[q][t][i] = toPeer[q][t][j]
    BY HeardFrom
  <2>2. toPeer[q][t][j] \in Dispersal
    BY SMTT(30) DEF Types
  <2> QED
    BY <2>1, <2>2 DEF OnlyBegun, Dispersal
<1>7. ASSUME NEW q \in Servers, NEW h \in history'[q]
      PROVE  h.reader \in Clients /\ Begun(h.reader, READ_VALUE, h.num)
  <2>1. history'[q] \subseteq history[q] \cup WithHeard(p, s)
        /\ (q # s => history'[q] = history[q])
    BY Deregistration
  <2>2. CASE h \in history[q]
    <3>1. h \in History
      BY <2>2 DEF Types
    <3> QED
      BY <2>2, <3>1 DEF OnlyBegun, History
  <2>3. CASE h = [reader |-> m.reader, num |-> m.num, tag |-> m.tag, sender |-> p]
    BY <2>3, <1>2, <1>3
  <2>4. CASE h \in history[s] /\ q = s
    BY <2>2, <2>4
  <2> QED
    BY <2>1, <2>2, <2>3, <2>4, <1>1 DEF WithHeard
<1> QED
  BY <1>2, <1>4, <1>5, <1>6, <1>7 DEF OnlyBegun

LEMMA OnlyBegunNext ==
    ASSUME Types, [Next]_vars, OnlyBegun, KindOfPhase
    PROVE  OnlyBegun'
<1>1. ASSUME NEW d \in Clients, NEW phase, NEW num, Begun(d, phase, num)
      PROVE  Begun(d, phase, num)'
  BY <1>1, BegunStays
<1>2. ASSUME NEW c \in Clients, ClientStep(c) \/ Crash(c)
      PROVE  OnlyBegun'
  <2>1. UNCHANGED <<store, tables, toPeer>>
    BY <1>2, OthersKept
  <2>2. ASSUME NEW d \in Clients, NEW s \in Servers, NEW i \in DOMAIN toServer'[d][s]
        PROVE  \E m : toServer'[d][s][i] = m /\ Begun(d, m.phase, m.num)'
    BY <1>1, <1>2, ClientChannels DEF OnlyBegun
  <2>3. ASSUME NEW d \in Clients, NEW s \in Servers, NEW i \in DOMAIN toClient'[d][s]
        PROVE  \E m : toClient'[d][s][i] = m /\ Begun(d, m.phase, m.num)'
    BY <1>1, <1>2, ClientChannels DEF OnlyBegun
  <2>4. reading' = reading /\ readed' = readed /\ history' = history /\ toPeer' = toPeer
    BY <2>1 DEF tables
  <2>5. ASSUME NEW d \in Clients, NEW s \in Servers
        PROVE  /\ reading[s][d] # NotRegistered => Begun(d, READ_VALUE, reading[s][d].num)
               /\ readed[s][d] # Absent => Begun(d, READ_VALUE, readed[s][d])
    BY DEF OnlyBegun
  <2>6. ASSUME NEW s \in Servers, NEW h \in history[s]
        PROVE  h.reader \in Clients /\ Begun(h.reader, READ_VALUE, h.num)
    <3>1. h \in History
      BY DEF Types
    <3> QED
      BY <3>1 DEF OnlyBegun, History
  <2>7. ASSUME NEW p \in Servers, NEW s \in Servers, NEW i \in DOMAIN toPeer[p][s]
        PROVE  /\ toPeer[p][s][i].reader \in Clients
               /\ Begun(toPeer[p][s][i].reader, READ_VALUE, toPeer[p][s][i].num)
    <3>1. toPeer[p][s][i] \in Dispersal
      BY DEF Types
    <3> QED
      BY <3>1 DEF OnlyBegun, Dispersal
  <2> QED
    BY <1>1, <2>2, <2>3, <2>4, <2>5, <2>6, <2>7 DEF OnlyBegun
<1>3. CASE UNCHANGED vars
  <2>1. /\ toServer' = toServer /\ toClient' = toClient /\ toPeer' = toPeer /\ call' = call
        /\ pc' = pc /\ reading' = reading /\ readed' = readed /\ history' = history
    BY <1>3 DEF vars, clientVars, tables
  <2>2. \A c, ph, num : Begun(c, ph, num)' <=> Begun(c, ph, num)
    BY <2>1 DEF Begun
  <2> QED
    BY <2>1, <2>2, ZenonT(60) DEF OnlyBegun
<1> QED
  BY <1>2, <1>3, OnlyBegunServe, OnlyBegunDisperse DEF Next

---------------------------------------------------------------------------
(* One message per server in the phases that count them. *)

\* For a client that is alive, a handler turns a request into a reply.
LEMMA ServeCounts ==
    ASSUME Types, NEW c \in Clients, NEW s \in Servers, Serve(c, s),
           NEW d \in Clients, d \in alive, NEW r \in Servers,
           NEW phase \in Counting, NEW num,
           OneAtMost(d, r, Of(phase, num))
    PROVE  /\ OneAtMost(d, r, Of(phase, num))'
           /\ (Has(toServer'[d][r], Of(phase, num)) \/ Has(toClient'[d][r], Of(phase, num)))
                 <=> (Has(toServer[d][r], Of(phase, num)) \/ Has(toClient[d][r], Of(phase, num)))
<1>1. PICK M : M = Of(phase, num)
  OBVIOUS
<1>2. PICK out \in [Clients -> Seq(Answer)], news \in Seq(Dispersal) :
         Replies(c, s, out) /\ TellsOf(s, out, news)
  BY ServeSends DEF Sends
<1>3. PICK m : m = NextOf(c, s)
  OBVIOUS
<1>4. /\ m \in Request /\ toServer[c][s] # <<>> /\ m = Head(toServer[c][s])
      /\ toServer'[c][s] = Tail(toServer[c][s])
      /\ \A e \in Clients, q \in Servers : <<e, q>> # <<c, s>> =>
            toServer'[e][q] = toServer[e][q]
  BY <1>3, ServeTakes DEF NextOf
<1>5. toClient'[d][r] = IF r = s THEN toClient[d][s] \o out[d] ELSE toClient[d][r]
  BY <1>2 DEF Replies
<1>6. CASE r # s
  BY <1>1, <1>4, <1>5, <1>6 DEF OneAtMost
<1>7. CASE r = s
  <2>1. READ_VALUE \notin Counting
    BY DEF Counting
  <2>2. ASSUME NEW i \in DOMAIN out[d], out[d][i] \in M
        PROVE  d = c /\ m \in M /\ i = Len(out[d])
    <3>1. out[d][i].phase = phase /\ out[d][i].num = num /\ out[d][i].phase # READ_VALUE
      BY <2>1, <2>2, <1>1 DEF Of
    <3>2. ~IsElement(s, d, out[d][i])
      BY <3>1 DEF IsElement, Message
    <3>3. d = c /\ IsReply(m, out[d][i]) /\ i = Len(out[d])
      BY <3>2, <1>2, <1>3 DEF Replies
    <3> QED
      BY <3>1, <3>3, <1>1, <1>4 DEF IsReply, Of
  <2>3. ASSUME d = c, m \in M
        PROVE  Has(out[d], M)
    <3>1. m.phase = phase /\ m.num = num
      BY <2>3, <1>1 DEF Of
    <3>2. Len(out[c]) \in DOMAIN out[c] /\ IsReply(m, out[c][Len(out[c])])
      BY <3>1, <1>2, <1>3 DEF Replies
    <3>3. out[c][Len(out[c])] \in Answer
      BY <3>2
    <3>4. out[c][Len(out[c])] \in M
      BY <3>1, <3>2, <3>3, <1>1 DEF IsReply, Of
    <3> QED
      BY <3>2, <3>4, <2>3 DEF Has
  <2>4. AtMostOne(out[d], M) /\ (Has(out[d], M) <=> d = c /\ m \in M)
    BY <2>2, <2>3 DEF AtMostOne, Has
  <2>5. /\ toClient[d][s] \in Seq(Answer) /\ out[d] \in Seq(Answer)
        /\ toServer[d][s] \in Seq(Request)
    BY ChannelTypes
  <2>6. /\ Has(toClient[d][s] \o out[d], M) <=> Has(toClient[d][s], M) \/ Has(out[d], M)
        /\ AtMostOne(toClient[d][s], M) /\ ~(Has(toClient[d][s], M) /\ Has(out[d], M))
              => AtMostOne(toClient[d][s] \o out[d], M)
    BY <2>4, <2>5, HasConcat
  <2>7. d = c => /\ Has(toServer[c][s], M) <=> Has(toServer'[c][s], M) \/ m \in M
                 /\ AtMostOne(toServer[c][s], M) =>
                       AtMostOne(toServer'[c][s], M) /\ (m \in M => ~Has(toServer'[c][s], M))
    BY <2>5, <1>4, HasTail
  <2>8. d # c => toServer'[d][s] = toServer[d][s]
    BY <1>4
  <2> QED
    BY <1>1, <1>5, <1>7, <2>4, <2>6, <2>7, <2>8 DEF OneAtMost
<1> QED
  BY <1>6, <1>7

\* An operation number that is new in a phase is on no message of that phase.
LEMMA NotYet ==
    ASSUME Types, FreshNums, OnlyBegun, NEW c \in Clients, NEW phase,
           NEW k \in 1 .. Len(Script[c]), k >= call[c],
           Script[c][k].kind = KindOf(phase),
           k = call[c] => pc[c] \notin From(phase)
    PROVE  /\ ~Begun(c, phase, Script[c][k].num)
           /\ \A s \in Servers : /\ ~Has(toServer[c][s], Of(phase, Script[c][k].num))
                                 /\ ~Has(toClient[c][s], Of(phase, Script[c][k].num))
<1>1. call[c] \in Nat /\ call[c] <= Len(Script[c]) /\ Len(Script[c]) \in Nat
  BY CallsAssumption DEF Types
<1>2. PICK num : num = Script[c][k].num
  OBVIOUS
<1>3. ASSUME Begun(c, phase, num) PROVE FALSE
  <2>1. PICK i \in 1 .. call[c] : /\ Script[c][i].kind = KindOf(phase)
                                  /\ Script[c][i].num = num
                                  /\ i < call[c] \/ pc[c] \in From(phase)
    BY <1>3 DEF Begun
  <2>2. i \in 1 .. Len(Script[c])
    BY <1>1
  <2>3. Script[c][i] \in [kind : Kinds, num : Nat] /\ Script[c][k] \in [kind : Kinds, num : Nat]
    BY <2>2, CallsAssumption, SeqElement
  <2>4. Script[c][i] = Script[c][k]
    BY <2>1, <2>3, <1>2
  <2>5. i = k
    BY <2>2, <2>4 DEF FreshNums
  <2> QED
    BY <2>1, <2>5, <1>1
<1>4. ASSUME NEW s \in Servers
      PROVE  ~Has(toServer[c][s], Of(phase, num)) /\ ~Has(toClient[c][s], Of(phase, num))
  BY <1>3 DEF OnlyBegun, Has, Of
<1> QED
  BY <1>2, <1>3, <1>4

\* Nothing was answered in a phase whose request has just been sent to all.
LEMMA CountsFromNone ==
    ASSUME Types, Types', NEW c \in Clients, NEW m \in Request, Multicast(c, m), UNCHANGED toClient,
           \A s \in Servers : ~Has(toServer[c][s], Of(m.phase, m.num))
                              /\ ~Has(toClient[c][s], Of(m.phase, m.num)),
           pc'[c] = m.phase, m.num = Num(c)', responses'[c] = 0
    PROVE  /\ \A s \in Servers : OneAtMost(c, s, Of(pc[c], Num(c)))'
           /\ (responses[c] = Cardinality(Answered(c)))'
<1>1. PICK M : M = Of(m.phase, m.num)
  OBVIOUS
<1>2. m \in M
  BY <1>1 DEF Of
<1>3. ASSUME NEW s \in Servers
      PROVE  /\ Has(toServer'[c][s], M) /\ AtMostOne(toServer'[c][s], M)
             /\ ~Has(toClient'[c][s], M) /\ AtMostOne(toClient'[c][s], M)
  <2>1. toServer'[c][s] = Append(toServer[c][s], m) /\ toServer[c][s] \in Seq(Request)
    BY Multicasts, ChannelTypes
  <2>2. ~Has(toServer[c][s], M) /\ ~Has(toClient[c][s], M)
    BY <1>1
  <2>3. AtMostOne(toServer[c][s], M) /\ AtMostOne(toClient[c][s], M)
    BY <2>2 DEF Has, AtMostOne
  <2>4. Has(Append(toServer[c][s], m), M) /\ AtMostOne(Append(toServer[c][s], m), M)
    BY <2>1, <2>2, <2>3, <1>2, HasAppend
  <2> QED
    BY <2>1, <2>2, <2>3, <2>4
<1>4. Of(pc[c], Num(c))' = M
  BY <1>1
<1>5. Answered(c)' = {}
  BY <1>3, <1>4 DEF Answered
<1>6. Cardinality(Answered(c)') = 0
  BY <1>5, FS_EmptySet
<1> QED
  BY <1>3, <1>4, <1>6 DEF OneAtMost

CountsRight(c) ==
    pc[c] \in Counting => /\ \A s \in Servers : OneAtMost(c, s, Of(pc[c], Num(c)))
                          /\ responses[c] = Cardinality(Answered(c))

LEMMA AnsweredFinite ==
    ASSUME NEW c
    PROVE  /\ IsFiniteSet(Answered(c)) /\ Cardinality(Answered(c)) \in Nat
           /\ Cardinality(Answered(c)) <= Cardinality(Servers)
<1>1. Answered(c) \subseteq Servers /\ IsFiniteSet(Servers)
  BY CallsAssumption DEF Answered
<1> QED
  BY <1>1, FS_Subset, FS_CardinalityType

\* A server more has answered when its reply is read.
LEMMA CountsOneMore ==
    ASSUME Types, NEW c \in Clients, NEW s \in Servers, Receive(c, s), UNCHANGED toServer,
           CountsRight(c), pc[c] \in Counting, Counts(c, Head(toClient[c][s])),
           pc' = pc, responses'[c] = responses[c] + 1
    PROVE  CountsRight(c)' /\ Answered(c)' = Answered(c) \cup {s}
<1>1. PICK M, m : M = Of(pc[c], Num(c)) /\ m = Head(toClient[c][s])
  OBVIOUS
<1>2. /\ m \in Answer /\ toClient[c][s] # <<>> /\ toClient'[c][s] = Tail(toClient[c][s])
      /\ call' = call
      /\ \A r \in Servers : r # s => toClient'[c][r] = toClient[c][r]
  BY <1>1, Receives
<1>3. m \in M
  BY <1>1, <1>2 DEF Counts, Of
<1>4. Of(pc[c], Num(c))' = M
  BY <1>1, <1>2 DEF Num
<1>5. \A r \in Servers : OneAtMost(c, r, M)
  BY <1>1 DEF CountsRight
<1>6. /\ Has(toClient[c][s], M) /\ ~Has(toServer[c][s], M)
      /\ ~Has(toClient'[c][s], M) /\ AtMostOne(toClient'[c][s], M)
  <2>1. /\ Has(toClient[c][s], M) <=> Has(Tail(toClient[c][s]), M) \/ m \in M
        /\ AtMostOne(toClient[c][s], M) =>
              AtMostOne(Tail(toClient[c][s]), M) /\ (m \in M => ~Has(Tail(toClient[c][s]), M))
    BY <1>1, <1>2, ChannelTypes, HasTail
  <2> QED
    BY <2>1, <1>2, <1>3, <1>5 DEF OneAtMost
<1>7. \A r \in Servers : (OneAtMost(c, r, Of(pc[c], Num(c))))'
  BY <1>2, <1>4, <1>5, <1>6 DEF OneAtMost
<1>8. Answered(c)' = Answered(c) \cup {s} /\ s \notin Answered(c)
  BY <1>1, <1>2, <1>4, <1>6 DEF Answered
<1>9. Cardinality(Answered(c)') = Cardinality(Answered(c)) + 1
  BY <1>8, AnsweredFinite, FS_AddElement
<1> QED
  BY <1>7, <1>8, <1>9 DEF CountsRight

\* Other messages do not matter.
LEMMA CountsAsBefore ==
    ASSUME Types, NEW c \in Clients, NEW s \in Servers, OldMessage(c, s), CountsRight(c)
    PROVE  CountsRight(c)' /\ (pc[c] \in Counting => Answered(c)' = Answered(c))
<1> SUFFICES ASSUME pc[c] \in Counting PROVE CountsRight(c)' /\ Answered(c)' = Answered(c)
  BY DEF CountsRight, OldMessage
<1>1. PICK M, m : M = Of(pc[c], Num(c)) /\ m = Head(toClient[c][s])
  OBVIOUS
<1>2. /\ m \in Answer /\ toClient[c][s] # <<>> /\ toClient'[c][s] = Tail(toClient[c][s])
      /\ call' = call /\ pc' = pc /\ toServer' = toServer /\ responses' = responses
      /\ \A r \in Servers : r # s => toClient'[c][r] = toClient[c][r]
  BY <1>1, Receives DEF OldMessage
<1>3. m \notin M
  BY <1>1 DEF OldMessage, Counts, Of
<1>4. Of(pc[c], Num(c))' = M
  BY <1>1, <1>2 DEF Num
<1>5. \A r \in Servers : OneAtMost(c, r, M)
  BY <1>1 DEF CountsRight
<1>6. /\ Has(toClient'[c][s], M) <=> Has(toClient[c][s], M)
      /\ AtMostOne(toClient[c][s], M) => AtMostOne(toClient'[c][s], M)
  <2>1. /\ Has(toClient[c][s], M) <=> Has(Tail(toClient[c][s]), M) \/ m \in M
        /\ AtMostOne(toClient[c][s], M) => AtMostOne(Tail(toClient[c][s]), M)
    BY <1>1, <1>2, ChannelTypes, HasTail
  <2> QED
    BY <2>1, <1>2, <1>3
<1>7. \A r \in Servers : (OneAtMost(c, r, Of(pc[c], Num(c))))'
  BY <1>2, <1>4, <1>5, <1>6 DEF OneAtMost
<1>8. Answered(c)' = Answered(c)
  BY <1>1, <1>2, <1>4, <1>6 DEF Answered
<1> QED
  BY <1>2, <1>7, <1>8 DEF CountsRight

LEMMA CountsNewPhase ==
    ASSUME Types, Types', FreshNums, OnlyBegun, KindOfPhase,
           NEW c \in Clients, Begin(c) \/ EndGet(c)
    PROVE  CountsRight(c)'
<1> SUFFICES ASSUME pc'[c] \in Counting PROVE CountsRight(c)'
  BY DEF CountsRight
<1>1. CASE Begin(c)
  <2>1. PICK k, next, phase, m :
           /\ k = call[c] + 1 /\ next = Script[c][k]
           /\ phase = (IF next.kind = "read" THEN READ_GET ELSE WRITE_GET)
           /\ m = Message(phase, next.num, NoTag, InitVal)
    OBVIOUS
  <2>2. /\ k \in 1 .. Len(Script[c]) /\ next \in [kind : Kinds, num : Nat]
        /\ m \in Request /\ Multicast(c, m)
        /\ pc' = [pc EXCEPT ![c] = phase] /\ call' = [call EXCEPT ![c] = k]
    BY <1>1, <2>1, TypesBegin
  <2>3. m.phase = phase /\ m.num = next.num /\ next.kind = KindOf(phase)
    BY <2>1, <2>2 DEF Message, KindOf, Kinds
  <2>4. pc'[c] = phase /\ call'[c] = k /\ k >= call[c] /\ k # call[c]
    BY <2>1, <2>2 DEF Types
  <2>5. \A s \in Servers : /\ ~Has(toServer[c][s], Of(m.phase, m.num))
                           /\ ~Has(toClient[c][s], Of(m.phase, m.num))
    <3>1. Script[c][k].kind = KindOf(phase) /\ (k = call[c] => pc[c] \notin From(phase))
      BY <2>1, <2>3, <2>4
    <3>2. \A s \in Servers : /\ ~Has(toServer[c][s], Of(phase, Script[c][k].num))
                             /\ ~Has(toClient[c][s], Of(phase, Script[c][k].num))
      BY <2>2, <2>4, <3>1, NotYet
    <3> QED
      BY <3>2, <2>1, <2>3
  <2>6. m.num = Num(c)' /\ responses'[c] = 0 /\ UNCHANGED toClient
    BY <1>1, <2>1, <2>3, <2>4 DEF Num, Begin, Types
  <2> QED
    BY <2>2, <2>3, <2>4, <2>5, <2>6, CountsFromNone DEF CountsRight
<1>2. CASE EndGet(c)
  <2>1. call[c] \in 1 .. Len(Script[c]) /\ call[c] >= call[c] /\ pc[c] = WRITE_GET
    <3>1. pc[c] = READ_GET => pc'[c] = READ_VALUE
      BY <1>2 DEF EndGet, Types
    <3>2. pc[c] # READ_GET
      BY <3>1 DEF Counting
    <3>3. call[c] \in 1 .. Len(Script[c]) /\ call[c] \in Nat
      BY <1>2, TypesEndGet, CurrentCall
    <3> QED
      BY <3>2, <3>3, <1>2 DEF EndGet
  <2>2. /\ pc' = [pc EXCEPT ![c] = WRITE_PUT]
        /\ \E m \in Request : m.phase = WRITE_PUT /\ m.num = Num(c) /\ Multicast(c, m)
    BY <1>2, <2>1, TypesEndGet
  <2>3. PICK m \in Request : m.phase = WRITE_PUT /\ m.num = Num(c) /\ Multicast(c, m)
    BY <2>2
  <2>4. pc'[c] = WRITE_PUT
    BY <2>2 DEF Types
  <2>5. Script[c][call[c]].kind = KindOf(WRITE_PUT) /\ pc[c] \notin From(WRITE_PUT)
    BY <2>1 DEF KindOfPhase, Kind, KindOf, From
  <2>6. \A s \in Servers : /\ ~Has(toServer[c][s], Of(WRITE_PUT, Num(c)))
                           /\ ~Has(toClient[c][s], Of(WRITE_PUT, Num(c)))
    BY <2>1, <2>5, NotYet DEF Num
  <2>7. m.num = Num(c)' /\ responses'[c] = 0 /\ UNCHANGED toClient
    BY <1>2, <2>3 DEF Num, EndGet, Types
  <2> QED
    BY <2>3, <2>4, <2>6, <2>7, CountsFromNone DEF CountsRight
<1> QED
  BY <1>1, <1>2

LEMMA OnePerServerNext ==
    ASSUME Types, Types', [Next]_vars, FreshNums, OnlyBegun, KindOfPhase, OnePerServer
    PROVE  OnePerServer'
<1> SUFFICES ASSUME NEW d \in alive' PROVE CountsRight(d)'
  BY DEF OnePerServer, CountsRight
<1>1. CASE UNCHANGED vars
  BY <1>1 DEF OnePerServer, CountsRight, Answered, OneAtMost, Has, AtMostOne, Num, vars,
              clientVars
<1>2. ASSUME NEW c \in Clients, ClientStep(c) \/ Crash(c) PROVE CountsRight(d)'
  <2>1. d \in Clients
    BY DEF Types
  <2>2. CASE d # c
    <3>1. Untouched(d)
      BY <2>1, <2>2, <1>2, OthersKept
    <3>2. CountsRight(d)
      BY <3>1 DEF OnePerServer, CountsRight, Untouched, Kept
    <3>3. Answered(d)' = Answered(d)
      BY <3>1 DEF Answered, Untouched, Kept, Num
    <3> QED
      BY <3>1, <3>2, <3>3 DEF CountsRight, Untouched, Kept, Num, OneAtMost
  <2>3. CASE d = c
    <3>1. ~Crash(c)
      BY <2>3, Crashes
    <3>2. CASE Begin(c) \/ EndGet(c)
      BY <3>2, <2>3, CountsNewPhase
    <3>3. CASE EndRead(c)
      <4>1. pc'[c] = "idle"
        BY <3>3 DEF EndRead, Return, Types
      <4> QED
        BY <4>1, <2>3 DEF CountsRight, Counting
    <3>4. ASSUME NEW s \in Servers,
                 OldMessage(c, s) \/ CountGet(c, s) \/ CountPut(c, s) \/ EndPut(c, s)
                   \/ Collect(c, s)
          PROVE  CountsRight(c)'
      <4>1. Receive(c, s) /\ UNCHANGED toServer /\ c \in alive
        BY <3>4, ReadsOne, Receives
      <4>2. CountsRight(c)
        BY <4>1 DEF OnePerServer, CountsRight
      <4>3. CASE OldMessage(c, s)
        BY <4>2, <4>3, CountsAsBefore
      <4>4. CASE CountGet(c, s) \/ CountPut(c, s)
        <5>1. /\ pc[c] \in Counting /\ Counts(c, Head(toClient[c][s])) /\ pc' = pc
              /\ responses'[c] = responses[c] + 1
          BY <4>4 DEF CountGet, CountPut, Counting, Types
        <5> QED
          BY <4>1, <4>2, <5>1, CountsOneMore
      <4>5. CASE EndPut(c, s)
        <5>1. pc'[c] = "idle"
          BY <4>5 DEF EndPut, Return, Types
        <5> QED
          BY <5>1 DEF CountsRight, Counting
      <4>6. CASE Collect(c, s)
        <5>1. pc'[c] \in {DRAIN, READ_VALUE}
          BY <4>6, TypesCollect
        <5> QED
          BY <5>1 DEF CountsRight, Counting
      <4> QED
        BY <3>4, <4>3, <4>4, <4>5, <4>6
    <3> QED
      BY <1>2, <2>3, <3>1, <3>2, <3>3, <3>4 DEF ClientStep
  <2> QED
    BY <2>2, <2>3
<1>3. ASSUME NEW c \in Clients, NEW s \in Servers, Serve(c, s) PROVE CountsRight(d)'
  <2>1. UNCHANGED clientVars /\ d \in alive /\ d \in Clients
    BY <1>3, ServeTakes DEF clientVars, Types
  <2>2. CountsRight(d)
    BY <2>1 DEF OnePerServer, CountsRight
  <2> SUFFICES ASSUME pc[d] \in Counting PROVE CountsRight(d)'
    BY <2>1 DEF CountsRight, clientVars
  <2>3. PICK phase, num : phase \in Counting /\ phase = pc[d] /\ num = Num(d)
    OBVIOUS
  <2>4. \A r \in Servers : OneAtMost(d, r, Of(phase, num))
    BY <2>2, <2>3 DEF CountsRight
  <2>5. \A r \in Servers :
           /\ OneAtMost(d, r, Of(phase, num))'
           /\ (Has(toServer'[d][r], Of(phase, num)) \/ Has(toClient'[d][r], Of(phase, num)))
                 <=> (Has(toServer[d][r], Of(phase, num)) \/ Has(toClient[d][r], Of(phase, num)))
    BY <1>3, <2>1, <2>3, <2>4, ServeCounts
  <2>6. Of(pc[d], Num(d))' = Of(phase, num) /\ responses' = responses
    BY <2>1, <2>3 DEF Num, clientVars
  <2>7. Answered(d)' = Answered(d)
    BY <2>3, <2>5, <2>6 DEF Answered
  <2>8. \A r \in Servers : OneAtMost(d, r, Of(pc[d], Num(d)))'
    BY <2>5, <2>6 DEF OneAtMost
  <2> QED
    BY <2>2, <2>6, <2>7, <2>8 DEF CountsRight
<1>4. ASSUME NEW p \in Servers, NEW s \in Servers, ServeReadDisperse(p, s)
      PROVE  CountsRight(d)'
  <2>1. UNCHANGED <<toServer, toClient, clientVars>> /\ d \in alive
    BY <1>4, DisperseTakes DEF clientVars
  <2> QED
    BY <2>1 DEF OnePerServer, CountsRight, Answered, OneAtMost, Num, clientVars
<1> QED
  BY <1>1, <1>2, <1>3, <1>4 DEF Next

---------------------------------------------------------------------------
(* One element of each tag from each server. *)

\* A request to read that is not outdated registers its reader.
LEMMA Registered ==
    ASSUME Types, NEW c \in Clients, NEW s \in Servers, Serve(c, s),
           NextOf(c, s).phase = READ_VALUE, ~Outdated(s, c, NextOf(c, s).num)
    PROVE  reading'[s][c] = [num |-> NextOf(c, s).num, tag |-> NextOf(c, s).tag]
<1>1. ServeReadValue(c, s)
  <2>1. READ_VALUE # WRITE_PUT /\ READ_VALUE # READ_COMPLETE /\ READ_VALUE \notin GetPhases
    OBVIOUS
  <2> QED
    BY <2>1 DEF Serve, ServeGet, ServeWritePut, ServeReadComplete, Take
<1>2. reading' = [reading EXCEPT ![s][c] = [num |-> NextOf(c, s).num, tag |-> NextOf(c, s).tag]]
  BY <1>1 DEF ServeReadValue
<1> QED
  BY <1>2 DEF Types

\* A reader that asks for elements has none, and no server has been asked before.
LEMMA AskedFirst ==
    ASSUME Types, Types', FreshNums, OnlyBegun, KindOfPhase, Collected,
           NEW c \in Clients, EndGet(c), pc'[c] = READ_VALUE, NEW s \in Servers
    PROVE  Asked(c, s)' /\ InOrder(c, s)'
<1>1. /\ pc[c] = READ_GET /\ tag' = tag
      /\ \E m \in Request : /\ m.phase = READ_VALUE /\ m.num = Num(c) /\ m.tag = tag[c]
                            /\ Multicast(c, m)
  <2>1. pc[c] = WRITE_GET => pc'[c] = WRITE_PUT
    BY DEF EndGet, Types
  <2> QED
    BY <2>1, TypesEndGet
<1>2. PICK m \in Request : /\ m.phase = READ_VALUE /\ m.num = Num(c) /\ m.tag = tag[c]
                           /\ Multicast(c, m)
  BY <1>1
<1>3. PICK M : M = Of(READ_VALUE, Num(c))
  OBVIOUS
<1>4. /\ call' = call /\ elements' = elements /\ toClient' = toClient
      /\ reading' = reading /\ store' = store
  BY DEF EndGet, tables
<1>5. Of(READ_VALUE, Num(c))' = M /\ m \in M /\ Num(c)' = Num(c)
  BY <1>2, <1>3, <1>4 DEF Num, Of
<1>6. /\ ~Begun(c, READ_VALUE, Num(c))
      /\ ~Has(toServer[c][s], M) /\ ~Has(toClient[c][s], M)
  <2>1. call[c] \in 1 .. Len(Script[c]) /\ call[c] >= call[c]
    BY <1>1, CurrentCall
  <2>2. Script[c][call[c]].kind = KindOf(READ_VALUE) /\ pc[c] \notin From(READ_VALUE)
    BY <1>1 DEF KindOfPhase, Kind, KindOf, From
  <2>3. /\ ~Begun(c, READ_VALUE, Script[c][call[c]].num)
        /\ ~Has(toServer[c][s], Of(READ_VALUE, Script[c][call[c]].num))
        /\ ~Has(toClient[c][s], Of(READ_VALUE, Script[c][call[c]].num))
    BY <2>1, <2>2, NotYet
  <2> QED
    BY <2>3, <1>3 DEF Num
<1>7. reading[s][c].num # Num(c)
  <2>1. Num(c) \in Nat /\ NotRegistered.num = -1
    BY <1>1, CurrentCall, ReadingType
  <2> QED
    BY <2>1, <1>6 DEF OnlyBegun
<1>8. DOMAIN elements[c] = {}
  BY <1>1, EmptyBagType DEF Collected
<1>9. toServer'[c][s] = Append(toServer[c][s], m) /\ toServer[c][s] \in Seq(Request)
  BY <1>2, Multicasts, ChannelTypes
<1>10. AtMostOne(toServer'[c][s], M)
  <2>1. AtMostOne(toServer[c][s], M)
    BY <1>6 DEF Has, AtMostOne
  <2> QED
    BY <2>1, <1>6, <1>9, HasAppend
<1>11. \A i \in DOMAIN toServer'[c][s] : toServer'[c][s][i] \in M =>
          toServer'[c][s][i].tag = tag[c]
  <2> DEFINE q == toServer[c][s]
  <2>1. \A i \in DOMAIN Append(q, m) : \/ i \in DOMAIN q /\ Append(q, m)[i] = q[i]
                                       \/ Append(q, m)[i] = m
    BY <1>9, AppendElements
  <2> QED
    BY <2>1, <1>2, <1>6, <1>9 DEF Has
<1>12. Asked(c, s)'
  BY <1>1, <1>4, <1>5, <1>6, <1>7, <1>8, <1>10, <1>11 DEF Asked
<1>13. InOrder(c, s)'
  BY <1>4, <1>5, <1>6, <1>8 DEF InOrder, Has
<1> QED
  BY <1>12, <1>13

LEMMA AskedServe ==
    ASSUME Types, NEW c \in Clients, NEW s \in Servers, Serve(c, s),
           NEW d \in Clients, d \in alive, pc[d] = READ_VALUE, NEW r \in Servers,
           Asked(d, r), InOrder(d, r)
    PROVE  Asked(d, r)' /\ InOrder(d, r)'
<1>1. PICK m, n, M : m = NextOf(c, s) /\ n = Num(d) /\ M = Of(READ_VALUE, n)
  OBVIOUS
<1>2. /\ m \in Request /\ toServer[c][s] # <<>> /\ m = Head(toServer[c][s])
      /\ toServer'[c][s] = Tail(toServer[c][s])
      /\ \A e \in Clients, q \in Servers : <<e, q>> # <<c, s>> =>
            toServer'[e][q] = toServer[e][q]
  BY <1>1, ServeTakes DEF NextOf
<1>3. /\ UNCHANGED clientVars
      /\ Num(d)' = n /\ Of(READ_VALUE, Num(d))' = M /\ tag' = tag /\ elements' = elements
  BY <1>1, ServeTakes DEF Num, clientVars
<1>4. n \in Nat
  BY <1>1, CurrentCall
<1>5. /\ \A i, j \in DOMAIN toServer[d][r] : toServer[d][r][i] \in M /\ toServer[d][r][j] \in M => i = j
      /\ AtMostOne(toServer[d][r], M)
      /\ \A i \in DOMAIN toServer[d][r] : toServer[d][r][i] \in M => toServer[d][r][i].tag = tag[d]
      /\ Has(toServer[d][r], M) =>
            /\ reading[r][d].num # n
            /\ ~Has(toClient[d][r], M)
            /\ \A e \in DOMAIN elements[d] : e.server # r
      /\ reading[r][d].num = n => reading[r][d].tag = tag[d]
  BY <1>1 DEF Asked, AtMostOne
<1>6. ASSUME d = c, r = s, m \in M
      PROVE  /\ Has(toServer[d][r], M) /\ m.tag = tag[d] /\ ~Has(toServer'[d][r], M)
  <2>1. 1 \in DOMAIN toServer[c][s] /\ m = toServer[c][s][1]
    BY <1>2, ChannelTypes, TailElements
  <2>2. toServer[c][s] \in Seq(Request)
    BY ChannelTypes
  <2>3. AtMostOne(toServer[c][s], M) => (m \in M => ~Has(Tail(toServer[c][s]), M))
    BY <2>2, <1>2, HasTail
  <2>4. Has(toServer[c][s], M)
    BY <2>1, <1>6 DEF Has
  <2>5. m.tag = tag[d]
    BY <2>1, <1>5, <1>6
  <2>6. ~Has(toServer'[c][s], M)
    BY <2>3, <1>2, <1>5, <1>6
  <2> QED
    BY <2>4, <2>5, <2>6, <1>6
<1>7. \/ reading'[r][d] = reading[r][d]
      \/ reading'[r][d].num # n
      \/ /\ r = s /\ d = c /\ m \in M
         /\ reading'[r][d] = [num |-> m.num, tag |-> m.tag]
  <2>1. \/ reading'[r][d] = reading[r][d]
        \/ reading'[r][d] = NotRegistered
        \/ /\ r = s /\ d = c /\ NextOf(c, s).phase = READ_VALUE
           /\ reading'[r][d] = [num |-> NextOf(c, s).num, tag |-> NextOf(c, s).tag]
    BY Registration
  <2>2. NotRegistered.num # n
    BY <1>4, ReadingType
  <2>3. CASE /\ r = s /\ d = c /\ NextOf(c, s).phase = READ_VALUE
             /\ reading'[r][d] = [num |-> NextOf(c, s).num, tag |-> NextOf(c, s).tag]
    <3>1. m.num = n => m \in M
      BY <2>3, <1>1, <1>2 DEF Of
    <3> QED
      BY <2>3, <3>1, <1>1
  <2> QED
    BY <2>1, <2>2, <2>3
<1>8. reading'[r][d].num = n => reading'[r][d].tag = tag[d]
  BY <1>5, <1>6, <1>7
<1>9. /\ Has(toServer'[d][r], M) => Has(toServer[d][r], M) /\ reading'[r][d].num # n
      /\ AtMostOne(toServer'[d][r], M)
      /\ \A i \in DOMAIN toServer'[d][r] : toServer'[d][r][i] \in M =>
            toServer'[d][r][i].tag = tag[d]
  <2>1. CASE <<d, r>> # <<c, s>>
    <3>1. toServer'[d][r] = toServer[d][r]
      BY <2>1, <1>2
    <3> QED
      BY <3>1, <2>1, <1>5, <1>7
  <2>2. CASE d = c /\ r = s
    <3>1. toServer[c][s] \in Seq(Request)
      BY ChannelTypes
    <3>2. /\ Has(Tail(toServer[c][s]), M) => Has(toServer[c][s], M)
          /\ AtMostOne(toServer[c][s], M) => AtMostOne(Tail(toServer[c][s]), M)
      BY <3>1, <1>2, HasTail
    <3>3. \A i \in DOMAIN Tail(toServer[c][s]) :
             /\ i + 1 \in DOMAIN toServer[c][s]
             /\ Tail(toServer[c][s])[i] = toServer[c][s][i + 1]
      BY <3>1, <1>2, TailElements
    <3> QED
      BY <2>2, <3>2, <3>3, <1>2, <1>5, <1>6, <1>7
  <2> QED
    BY <2>1, <2>2
<1>10. ASSUME NEW i \in DOMAIN toClient'[d][r], toClient'[d][r][i] \in M
       PROVE  \/ i \in DOMAIN toClient[d][r] /\ toClient'[d][r][i] = toClient[d][r][i]
              \/ /\ r = s /\ i = Len(toClient[d][r]) + 1
                 /\ toClient'[d][r][i].tag = store'[r].tag
                 /\ AtLeast(store'[r].tag, tag[d])
                 /\ \/ ~AtLeast(store[r].tag, store'[r].tag)
                    \/ Has(toServer[d][r], M)
  <2>1. PICK a : a = toClient'[d][r][i]
    OBVIOUS
  <2>2. \/ i \in DOMAIN toClient[d][r] /\ a = toClient[d][r][i]
        \/ r = s /\ d = c /\ IsReply(m, a)
        \/ r = s /\ IsElement(s, d, a) /\ IsNew(c, s, d, m) /\ i = Len(toClient[d][r]) + 1
    BY <1>1, <2>1, SentByServe
  <2>3. a.phase = READ_VALUE /\ a.num = n /\ READ_VALUE \notin Counting
    BY <1>1, <1>10, <2>1 DEF Of, Counting
  <2>4. ~IsReply(m, a)
    BY <2>3 DEF IsReply
  <2>5. ASSUME r = s, IsElement(s, d, a), IsNew(c, s, d, m)
        PROVE  /\ a.tag = store'[r].tag
               /\ AtLeast(store'[r].tag, tag[d])
               /\ \/ ~AtLeast(store[r].tag, store'[r].tag)
                  \/ Has(toServer[d][r], M)
    <3>1. a.num = reading'[r][d].num /\ a.tag = store'[r].tag
          /\ AtLeast(store'[r].tag, reading'[r][d].tag)
      BY <2>5 DEF IsElement, Message
    <3>2. reading'[r][d].tag = tag[d]
      BY <3>1, <2>3, <1>8
    <3>3. ASSUME m.phase = READ_VALUE, d = c, ~Outdated(s, c, m.num)
          PROVE  Has(toServer[d][r], M)
      <4>1. reading'[s][c] = [num |-> m.num, tag |-> m.tag]
        BY <3>3, <1>1, Registered
      <4>2. m.num = n
        BY <4>1, <3>1, <3>3, <2>3, <2>5
      <4>3. m \in M
        BY <4>2, <3>3, <1>1, <1>2 DEF Of
      <4> QED
        BY <4>3, <3>3, <2>5, <1>6
    <3> QED
      BY <3>1, <3>2, <3>3, <2>5 DEF IsNew
  <2> QED
    BY <2>1, <2>2, <2>4, <2>5
<1>11. Asked(d, r)'
  <2>1. Has(toServer'[d][r], M) => ~Has(toClient'[d][r], M)
    <3> SUFFICES ASSUME Has(toServer'[d][r], M), Has(toClient'[d][r], M) PROVE FALSE
      OBVIOUS
    <3>1. Has(toServer[d][r], M) /\ reading'[r][d].num # n /\ ~Has(toClient[d][r], M)
      BY <1>5, <1>9
    <3>2. PICK i \in DOMAIN toClient'[d][r] : toClient'[d][r][i] \in M
      BY DEF Has
    <3>3. ~(i \in DOMAIN toClient[d][r] /\ toClient'[d][r][i] = toClient[d][r][i])
      BY <3>1, <3>2 DEF Has
    <3>4. \/ r = s /\ d = c /\ IsReply(m, toClient'[d][r][i])
          \/ r = s /\ IsElement(s, d, toClient'[d][r][i])
      BY <3>3, <1>1, SentByServe
    <3>5. toClient'[d][r][i].phase = READ_VALUE /\ toClient'[d][r][i].num = n
      BY <3>2, <1>1 DEF Of
    <3> QED
      BY <3>1, <3>4, <3>5 DEF IsReply, IsElement, Message, Counting
  <2> QED
    BY <2>1, <1>3, <1>5, <1>8, <1>9 DEF Asked
<1>12. InOrder(d, r)'
  <2>1. /\ \A i \in DOMAIN toClient[d][r] : toClient[d][r][i] \in M =>
              /\ AtLeast(toClient[d][r][i].tag, tag[d])
              /\ AtLeast(store[r].tag, toClient[d][r][i].tag)
              /\ \A e \in DOMAIN elements[d] :
                    e.server = r => e.tag # toClient[d][r][i].tag
        /\ \A e \in DOMAIN elements[d] : e.server = r => AtLeast(store[r].tag, e.tag)
        /\ \A i, j \in DOMAIN toClient[d][r] :
              /\ toClient[d][r][i] \in M /\ toClient[d][r][j] \in M
              /\ toClient[d][r][i].tag = toClient[d][r][j].tag
              => i = j
    BY <1>1 DEF InOrder
  <2>2. /\ store'[r].tag \in Tag /\ store[r].tag \in Tag
        /\ AtLeast(store'[r].tag, store[r].tag) /\ AtLeast(store'[r].tag, store'[r].tag)
        /\ \A t \in Tag : AtLeast(store[r].tag, t) => AtLeast(store'[r].tag, t)
    <3>1. StoreGrows(s, m)
      BY <1>1, ServeSends DEF Sends
    <3>2. /\ store'[r].tag \in Tag /\ store[r].tag \in Tag
          /\ AtLeast(store'[r].tag, store[r].tag)
      BY <3>1 DEF StoreGrows, Types, Object
    <3> QED
      BY <3>2, AtLeastOrder
  <2>3. /\ \A i \in DOMAIN toClient[d][r] : toClient[d][r][i].tag \in Tag
        /\ \A e \in DOMAIN elements[d] : e.tag \in Tag
    <3>1. \A i \in DOMAIN toClient[d][r] : toClient[d][r][i] \in Answer
      BY InChannel
    <3> QED
      BY <3>1 DEF Types, Answer, Element
  <2>4. \A e \in DOMAIN elements[d] : e.server = r => AtLeast(store'[r].tag, e.tag)
    BY <2>1, <2>2, <2>3
  <2>5. ASSUME ~AtLeast(store[r].tag, store'[r].tag) \/ Has(toServer[d][r], M)
        PROVE  /\ \A e \in DOMAIN elements[d] : e.server = r => e.tag # store'[r].tag
               /\ \A i \in DOMAIN toClient[d][r] : toClient[d][r][i] \in M =>
                     toClient[d][r][i].tag # store'[r].tag
    <3>1. CASE ~AtLeast(store[r].tag, store'[r].tag)
      BY <2>1, <3>1
    <3>2. CASE Has(toServer[d][r], M)
      BY <1>5, <3>2 DEF Has
    <3> QED
      BY <2>5, <3>1, <3>2
  <2>6. ASSUME NEW i \in DOMAIN toClient'[d][r], toClient'[d][r][i] \in M
        PROVE  /\ AtLeast(toClient'[d][r][i].tag, tag[d])
               /\ AtLeast(store'[r].tag, toClient'[d][r][i].tag)
               /\ \A e \in DOMAIN elements[d] :
                     e.server = r => e.tag # toClient'[d][r][i].tag
    <3>1. CASE i \in DOMAIN toClient[d][r] /\ toClient'[d][r][i] = toClient[d][r][i]
      BY <2>1, <2>2, <2>3, <2>6, <3>1
    <3>2. CASE /\ toClient'[d][r][i].tag = store'[r].tag
               /\ AtLeast(store'[r].tag, tag[d])
               /\ \/ ~AtLeast(store[r].tag, store'[r].tag)
                  \/ Has(toServer[d][r], M)
      BY <2>2, <2>5, <3>2
    <3> QED
      BY <2>6, <3>1, <3>2, <1>10
  <2>7. ASSUME NEW i \in DOMAIN toClient'[d][r], NEW j \in DOMAIN toClient'[d][r],
               toClient'[d][r][i] \in M, toClient'[d][r][j] \in M,
               toClient'[d][r][i].tag = toClient'[d][r][j].tag
        PROVE  i = j
    <3> DEFINE old(k) == k \in DOMAIN toClient[d][r] /\ toClient'[d][r][k] = toClient[d][r][k]
               new(k) == /\ k = Len(toClient[d][r]) + 1
                         /\ toClient'[d][r][k].tag = store'[r].tag
                         /\ \/ ~AtLeast(store[r].tag, store'[r].tag)
                            \/ Has(toServer[d][r], M)
    <3>1. (old(i) \/ new(i)) /\ (old(j) \/ new(j))
      BY <2>7, <1>10
    <3>2. CASE old(i) /\ old(j)
      BY <3>2, <2>1, <2>7
    <3>3. CASE new(i) /\ new(j)
      BY <3>3
    <3>4. CASE old(i) /\ new(j)
      BY <3>4, <2>5, <2>7
    <3>5. CASE new(i) /\ old(j)
      BY <3>5, <2>5, <2>7
    <3> QED
      BY <3>1, <3>2, <3>3, <3>4, <3>5
  <2> QED
    BY <2>4, <2>6, <2>7, <1>3 DEF InOrder
<1> QED
  BY <1>11, <1>12

\* Nor when a message is read, which may become an element.
LEMMA AskedReceive ==
    ASSUME Types, NEW c \in Clients, NEW s \in Servers, Receive(c, s),
           UNCHANGED <<toServer, tag>>,
           \A e \in DOMAIN elements'[c] :
              \/ e \in DOMAIN elements[c]
              \/ /\ e.server = s /\ e.tag = Head(toClient[c][s]).tag
                 /\ Head(toClient[c][s]) \in Of(READ_VALUE, Num(c)),
           NEW r \in Servers, Asked(c, r), InOrder(c, r)
    PROVE  Asked(c, r)' /\ InOrder(c, r)'
<1>1. PICK M, h, q, old, new :
         /\ M = Of(READ_VALUE, Num(c)) /\ h = Head(toClient[c][s])
         /\ q = toClient[c][r] /\ old = DOMAIN elements[c] /\ new = DOMAIN elements'[c]
  OBVIOUS
<1>2. /\ \A i, j \in DOMAIN toServer[c][r] :
            toServer[c][r][i] \in M /\ toServer[c][r][j] \in M => i = j
      /\ AtMostOne(toServer[c][r], M)
      /\ \A i \in DOMAIN toServer[c][r] : toServer[c][r][i] \in M =>
            toServer[c][r][i].tag = tag[c]
      /\ Has(toServer[c][r], M) =>
            /\ reading[r][c].num # Num(c)
            /\ ~Has(q, M)
            /\ \A e \in old : e.server # r
      /\ reading[r][c].num = Num(c) => reading[r][c].tag = tag[c]
  BY <1>1 DEF Asked, AtMostOne
<1>3. /\ \A i \in DOMAIN q : q[i] \in M =>
            /\ AtLeast(q[i].tag, tag[c])
            /\ AtLeast(store[r].tag, q[i].tag)
            /\ \A e \in old : e.server = r => e.tag # q[i].tag
      /\ \A e \in old : e.server = r => AtLeast(store[r].tag, e.tag)
      /\ \A i, j \in DOMAIN q : q[i] \in M /\ q[j] \in M /\ q[i].tag = q[j].tag => i = j
  BY <1>1 DEF InOrder
<1>4. /\ store' = store /\ reading' = reading /\ Num(c)' = Num(c)
      /\ Of(READ_VALUE, Num(c))' = M /\ tag' = tag /\ toServer' = toServer
  BY <1>1 DEF Receive, tables, Num
<1>5. /\ toClient[c][s] \in Seq(Answer) /\ toClient[c][s] # <<>>
      /\ toClient'[c][s] = Tail(toClient[c][s])
      /\ r # s => toClient'[c][r] = q
  BY <1>1, Receives
<1>6. /\ 1 \in DOMAIN toClient[c][s] /\ h = toClient[c][s][1]
      /\ \A i \in DOMAIN Tail(toClient[c][s]) :
            /\ i + 1 \in DOMAIN toClient[c][s]
            /\ Tail(toClient[c][s])[i] = toClient[c][s][i + 1]
            /\ i \in Nat /\ i + 1 # 1
  BY <1>1, <1>5, TailElements
<1>7. PICK next : next = toClient'[c][r]
  OBVIOUS
<1>8. \/ next = q /\ r # s
      \/ /\ r = s /\ 1 \in DOMAIN q /\ h = q[1]
         /\ \A i \in DOMAIN next : /\ i + 1 \in DOMAIN q /\ next[i] = q[i + 1]
                                   /\ i \in Nat /\ i + 1 # 1
  BY <1>1, <1>5, <1>6, <1>7
<1>9. \A e \in new : e \in old \/ (e.server = s /\ e.tag = h.tag /\ h \in M)
  BY <1>1
<1>10. Asked(c, r)'
  <2>1. Has(next, M) => Has(q, M)
    BY <1>8 DEF Has
  <2>2. ASSUME Has(toServer[c][r], M), NEW e \in new PROVE e.server # r
    BY <1>2, <1>8, <1>9, <2>2 DEF Has
  <2> QED
    BY <1>1, <1>2, <1>4, <1>7, <2>1, <2>2 DEF Asked
<1>11. InOrder(c, r)'
  <2>1. CASE next = q /\ r # s
    <3>1. \A e \in new : e.server = r => e \in old
      BY <1>9, <2>1
    <3> QED
      BY <3>1, <2>1, <1>1, <1>3, <1>4, <1>7 DEF InOrder
  <2>2. CASE /\ r = s /\ 1 \in DOMAIN q /\ h = q[1]
             /\ \A i \in DOMAIN next : /\ i + 1 \in DOMAIN q /\ next[i] = q[i + 1]
                                       /\ i \in Nat /\ i + 1 # 1
    <3>1. ASSUME NEW i \in DOMAIN next, next[i] \in M
          PROVE  /\ AtLeast(next[i].tag, tag[c])
                 /\ AtLeast(store[r].tag, next[i].tag)
                 /\ \A e \in new : e.server = r => e.tag # next[i].tag
      BY <2>2, <3>1, <1>3, <1>9
    <3>2. \A e \in new : e.server = r => AtLeast(store[r].tag, e.tag)
      BY <2>2, <1>3, <1>9
    <3>3. \A i, j \in DOMAIN next :
             next[i] \in M /\ next[j] \in M /\ next[i].tag = next[j].tag => i = j
      <4> SUFFICES ASSUME NEW i \in DOMAIN next, NEW j \in DOMAIN next,
                          next[i] \in M, next[j] \in M, next[i].tag = next[j].tag
                   PROVE  i = j
        OBVIOUS
      <4>1. /\ i + 1 \in DOMAIN q /\ next[i] = q[i + 1] /\ i \in Nat
            /\ j + 1 \in DOMAIN q /\ next[j] = q[j + 1] /\ j \in Nat
        BY <2>2
      <4>2. i + 1 = j + 1
        BY <4>1, <1>3
      <4> QED
        BY <4>1, <4>2
    <3> QED
      BY <3>1, <3>2, <3>3, <1>1, <1>4, <1>7 DEF InOrder
  <2> QED
    BY <1>8, <2>1, <2>2
<1> QED
  BY <1>10, <1>11

\* Nor when a server learns what another has sent: it may forget the reader.
LEMMA AskedDisperse ==
    ASSUME Types, NEW p \in Servers, NEW s \in Servers, ServeReadDisperse(p, s),
           NEW d \in Clients, pc[d] = READ_VALUE, NEW r \in Servers,
           Asked(d, r), InOrder(d, r)
    PROVE  Asked(d, r)' /\ InOrder(d, r)'
<1>1. UNCHANGED <<store, toServer, toClient, clientVars>>
  BY DisperseTakes
<1>2. Num(d)' = Num(d) /\ Of(READ_VALUE, Num(d))' = Of(READ_VALUE, Num(d)) /\ Num(d) \in Nat
  BY <1>1, CurrentCall DEF Num, clientVars
<1>3. reading'[r][d] = reading[r][d] \/ reading'[r][d] = NotRegistered
  BY Deregistration
<1>4. NotRegistered.num # Num(d)
  BY <1>2, ReadingType
<1>5. Asked(d, r)'
  BY <1>1, <1>2, <1>3, <1>4 DEF Asked, clientVars
<1>6. InOrder(d, r)'
  BY <1>1, <1>2 DEF InOrder, clientVars
<1> QED
  BY <1>5, <1>6

LEMMA OneElementPerTagNext ==
    ASSUME Types, Types', [Next]_vars, FreshNums, OnlyBegun, KindOfPhase, Collected,
           OneElementPerTag
    PROVE  OneElementPerTag'
<1> SUFFICES ASSUME NEW d \in alive', NEW r \in Servers, pc'[d] = READ_VALUE
             PROVE  Asked(d, r)' /\ InOrder(d, r)'
  BY DEF OneElementPerTag
<1>1. d \in Clients
  BY DEF Types
<1>2. CASE UNCHANGED vars
  BY <1>2 DEF OneElementPerTag, Asked, InOrder, Num, vars, clientVars, tables
<1>3. ASSUME NEW c \in Clients, ClientStep(c) \/ Crash(c)
      PROVE  Asked(d, r)' /\ InOrder(d, r)'
  <2>1. CASE d # c
    <3>1. Untouched(d) /\ UNCHANGED <<store, reading>>
      BY <1>1, <1>3, <2>1, OthersKept DEF tables
    <3>2. Asked(d, r) /\ InOrder(d, r)
      BY <3>1 DEF OneElementPerTag, Untouched, Kept
    <3>3. Num(d)' = Num(d) /\ Of(READ_VALUE, Num(d))' = Of(READ_VALUE, Num(d))
      BY <3>1 DEF Untouched, Kept, Num
    <3>4. /\ toServer'[d][r] = toServer[d][r] /\ toClient'[d][r] = toClient[d][r]
          /\ tag'[d] = tag[d] /\ elements'[d] = elements[d]
      BY <3>1 DEF Untouched, Kept
    <3>5. Asked(d, r)'
      BY <3>1, <3>2, <3>3, <3>4 DEF Asked
    <3>6. InOrder(d, r)'
      BY <3>1, <3>2, <3>3, <3>4 DEF InOrder
    <3> QED
      BY <3>5, <3>6
  <2>2. CASE d = c
    <3>1. ~Crash(c)
      BY <2>2, Crashes
    <3>2. CASE Begin(c)
      <4>1. pc'[c] \in {READ_GET, WRITE_GET}
        <5>1. \E phase \in {READ_GET, WRITE_GET} : pc' = [pc EXCEPT ![c] = phase]
          BY <3>2, TypesBegin
        <5> QED
          BY <5>1 DEF Types
      <4> QED
        BY <4>1, <2>2
    <3>3. CASE EndGet(c)
      BY <3>3, <2>2, AskedFirst
    <3>4. CASE EndRead(c)
      <4>1. pc'[c] = "idle"
        BY <3>4 DEF EndRead, Return, Types
      <4> QED
        BY <4>1, <2>2
    <3>5. ASSUME NEW s \in Servers,
                 OldMessage(c, s) \/ CountGet(c, s) \/ CountPut(c, s) \/ EndPut(c, s)
                   \/ Collect(c, s)
          PROVE  Asked(d, r)' /\ InOrder(d, r)'
      <4>1. Receive(c, s) /\ UNCHANGED toServer /\ c \in alive
        BY <3>5, ReadsOne, Receives
      <4>2. CASE OldMessage(c, s)
        <5>1. pc' = pc /\ elements' = elements /\ tag' = tag
          BY <4>2 DEF OldMessage
        <5>2. Asked(c, r) /\ InOrder(c, r)
          BY <5>1, <4>1, <2>2 DEF OneElementPerTag
        <5> QED
          BY <5>1, <5>2, <4>1, <2>2, AskedReceive
      <4>3. CASE CountGet(c, s) \/ CountPut(c, s)
        BY <4>3, <2>2 DEF CountGet, CountPut
      <4>4. CASE EndPut(c, s)
        <5>1. pc'[c] = "idle"
          BY <4>4 DEF EndPut, Return, Types
        <5> QED
          BY <5>1, <2>2
      <4>5. CASE Collect(c, s)
        <5>1. PICK h, e, b : h = Head(toClient[c][s]) /\ e = ElementOf(s, h) /\ b = elements[c]
          OBVIOUS
        <5>2. /\ pc[c] = READ_VALUE /\ Counts(c, h) /\ h \in Answer
              /\ e.server = s /\ e.tag = h.tag
              /\ elements'[c] = b (+) SetToBag({e}) /\ tag' = tag
          BY <5>1, <4>1, <4>5, TypesCollect, Receives
        <5>3. DOMAIN elements'[c] = DOMAIN b \cup {e}
          <6>1. IsABag(b)
            BY <5>1 DEF Types
          <6>2. DOMAIN (b (+) SetToBag({e})) = DOMAIN b \cup {e}
            BY <6>1, BagPlusOne
          <6> QED
            BY <6>2, <5>2
        <5>4. h \in Of(READ_VALUE, Num(c))
          BY <5>2 DEF Counts, Of
        <5>5. Asked(c, r) /\ InOrder(c, r)
          BY <5>2, <4>1 DEF OneElementPerTag
        <5> QED
          BY <5>1, <5>2, <5>3, <5>4, <5>5, <4>1, <2>2, AskedReceive
      <4> QED
        BY <3>5, <4>2, <4>3, <4>4, <4>5
    <3> QED
      BY <1>3, <3>1, <3>2, <3>3, <3>4, <3>5 DEF ClientStep
  <2> QED
    BY <2>1, <2>2
<1>4. ASSUME NEW c \in Clients, NEW s \in Servers, Serve(c, s)
      PROVE  Asked(d, r)' /\ InOrder(d, r)'
  <2>1. d \in alive /\ pc[d] = READ_VALUE
    BY <1>4, ServeTakes DEF clientVars
  <2>2. Asked(d, r) /\ InOrder(d, r)
    BY <2>1 DEF OneElementPerTag
  <2> QED
    BY <1>1, <1>4, <2>1, <2>2, AskedServe
<1>5. ASSUME NEW p \in Servers, NEW s \in Servers, ServeReadDisperse(p, s)
      PROVE  Asked(d, r)' /\ InOrder(d, r)'
  <2>1. d \in alive /\ pc[d] = READ_VALUE
    BY <1>5, DisperseTakes DEF clientVars
  <2>2. Asked(d, r) /\ InOrder(d, r)
    BY <2>1 DEF OneElementPerTag
  <2> QED
    BY <1>1, <1>5, <2>1, <2>2, AskedDisperse
<1> QED
  BY <1>2, <1>3, <1>4, <1>5 DEF Next

---------------------------------------------------------------------------
(* The elements of a read. *)

\* In a bag without repetitions, the copies of a tag are its elements.
LEMMA CopiesOfSet ==
    ASSUME NEW b, IsFiniteSet(DOMAIN b), \A e \in DOMAIN b : b[e] = 1, NEW t
    PROVE  /\ IsFiniteSet({e \in DOMAIN b : e.tag = t})
           /\ Copies(b, t) = Cardinality({e \in DOMAIN b : e.tag = t})
           /\ Copies(b, t) \in Nat
<1> DEFINE S == {e \in DOMAIN b : e.tag = t}
<1>1. IsFiniteSet(S) /\ Cardinality(S) \in Nat
  <2>1. S \in SUBSET (DOMAIN b)
    OBVIOUS
  <2> QED
    BY <2>1, FS_Subset, FS_CardinalityType
<1>2. UNION {{e} \X (1 .. b[e]) : e \in S} = S \X {1}
  <2>1. 1 .. 1 = {1}
    OBVIOUS
  <2>2. \A e \in S : {e} \X (1 .. b[e]) = {e} \X {1}
    BY <2>1
  <2> HIDE DEF S
  <2>3. UNION {{e} \X (1 .. b[e]) : e \in S} = UNION {{e} \X {1} : e \in S}
    BY <2>2
  <2>4. UNION {{e} \X {1} : e \in S} = S \X {1}
    OBVIOUS
  <2> QED
    BY <2>3, <2>4
<1>3. Cardinality(S \X {1}) = Cardinality(S)
  <2>1. IsFiniteSet({1}) /\ Cardinality({1}) = 1
    BY FS_Singleton
  <2> HIDE DEF S
  <2>2. Cardinality(S \X {1}) = Cardinality(S) * Cardinality({1})
    BY <1>1, <2>1, FS_Product
  <2> QED
    BY <1>1, <2>1, <2>2
<1>4. Copies(b, t) = Cardinality(S)
  BY <1>2, <1>3 DEF Copies
<1> QED
  BY <1>1, <1>4

LEMMA CollectedCollect ==
    ASSUME Types, OneElementPerTag, Collected,
           NEW c \in Clients, NEW s \in Servers, Collect(c, s)
    PROVE  /\ IsFiniteSet(DOMAIN elements'[c])
           /\ \A x \in DOMAIN elements'[c] : elements'[c][x] = 1
           /\ \A x, y \in DOMAIN elements'[c] : x.server = y.server /\ x.tag = y.tag => x = y
           /\ pc'[c] \in {READ_VALUE, DRAIN}
           /\ pc'[c] = READ_VALUE => \A x \in DOMAIN elements'[c] :
                                        Cardinality(WithTag(c, x.tag)') < K
           /\ pc'[c] = DRAIN => \E x \in DOMAIN elements'[c] :
                 /\ Cardinality(WithTag(c, x.tag)') >= K
                 /\ \A y \in DOMAIN elements'[c] :
                       Cardinality(WithTag(c, y.tag)') >= K => y.tag = x.tag
<1>1. PICK h, e, b, more : /\ h = Head(toClient[c][s]) /\ e = ElementOf(s, h)
                           /\ b = elements[c] /\ more = b (+) SetToBag({e})
  OBVIOUS
<1>2. /\ pc[c] = READ_VALUE /\ Counts(c, h) /\ h \in Answer /\ c \in alive
      /\ e.server = s /\ e.tag = h.tag /\ elements'[c] = more
      /\ pc'[c] = IF Copies(more, e.tag) >= K THEN DRAIN ELSE READ_VALUE
  <2>1. Receive(c, s)
    BY DEF Collect
  <2> QED
    BY <1>1, <2>1, TypesCollect, Receives
<1>3. /\ IsFiniteSet(DOMAIN b)
      /\ \A x \in DOMAIN b : b[x] = 1
      /\ \A x, y \in DOMAIN b : x.server = y.server /\ x.tag = y.tag => x = y
      /\ \A x \in DOMAIN b : Cardinality(WithTag(c, x.tag)) < K
  BY <1>1, <1>2 DEF Collected
<1>4. \A x \in DOMAIN b : x.server = s => x.tag # h.tag
  <2>1. /\ 1 \in DOMAIN toClient[c][s] /\ h = toClient[c][s][1]
    <3>1. Receive(c, s)
      BY DEF Collect
    <3>2. toClient[c][s] \in Seq(Answer) /\ toClient[c][s] # <<>>
      BY <3>1, Receives
    <3> QED
      BY <3>2, <1>1, TailElements
  <2>2. h \in Of(READ_VALUE, Num(c))
    BY <1>2 DEF Counts, Of
  <2>3. InOrder(c, s)
    BY <1>2 DEF OneElementPerTag
  <2> QED
    BY <1>1, <2>1, <2>2, <2>3 DEF InOrder
<1>5. e \notin DOMAIN b
  BY <1>2, <1>4
<1>6. DOMAIN more = DOMAIN b \cup {e} /\ more[e] = 1 /\ \A x \in DOMAIN b : more[x] = 1
  <2>1. IsABag(b)
    BY <1>1 DEF Types
  <2>2. LET all == b (+) SetToBag({e})
        IN  /\ DOMAIN all = DOMAIN b \cup {e}
            /\ all[e] = IF e \in DOMAIN b THEN b[e] + 1 ELSE 1
            /\ \A x \in DOMAIN b : x # e => all[x] = b[x]
    BY <2>1, BagPlusOne
  <2>3. /\ DOMAIN more = DOMAIN b \cup {e}
        /\ more[e] = IF e \in DOMAIN b THEN b[e] + 1 ELSE 1
        /\ \A x \in DOMAIN b : x # e => more[x] = b[x]
    BY <2>2, <1>1
  <2> QED
    BY <2>3, <1>3, <1>5
<1>7. IsFiniteSet(DOMAIN more) /\ \A x \in DOMAIN more : more[x] = 1
  BY <1>3, <1>6, FS_AddElement
<1>8. \A x, y \in DOMAIN more : x.server = y.server /\ x.tag = y.tag => x = y
  BY <1>2, <1>3, <1>4, <1>6
<1>9. \A t : /\ Copies(more, t) = Cardinality(WithTag(c, t)')
             /\ Copies(more, t) \in Nat
  <2>1. ASSUME NEW t PROVE /\ Copies(more, t) = Cardinality({x \in DOMAIN more : x.tag = t})
                           /\ Copies(more, t) \in Nat
    BY <1>7, CopiesOfSet
  <2> QED
    BY <1>2, <2>1 DEF WithTag
<1>10. \A x \in DOMAIN more : x.tag # e.tag => Cardinality(WithTag(c, x.tag)') < K
  <2> SUFFICES ASSUME NEW x \in DOMAIN more, x.tag # e.tag
               PROVE  Cardinality(WithTag(c, x.tag)') < K
    OBVIOUS
  <2>1. x \in DOMAIN b
    BY <1>6
  <2>2. WithTag(c, x.tag)' = WithTag(c, x.tag)
    <3>1. {y \in DOMAIN more : y.tag = x.tag} = {y \in DOMAIN b : y.tag = x.tag}
      BY <1>6
    <3> QED
      BY <3>1, <1>1, <1>2 DEF WithTag
  <2> QED
    BY <2>1, <2>2, <1>3
<1>11. K \in Nat /\ e \in DOMAIN more
  BY KType, <1>6
<1>12. CASE Copies(more, e.tag) >= K
  <2>1. pc'[c] = DRAIN /\ DRAIN # READ_VALUE /\ Cardinality(WithTag(c, e.tag)') >= K
    BY <1>2, <1>9, <1>12
  <2>2. \A y \in DOMAIN more : Cardinality(WithTag(c, y.tag)') >= K => y.tag = e.tag
    <3> SUFFICES ASSUME NEW y \in DOMAIN more, Cardinality(WithTag(c, y.tag)') >= K
                 PROVE  y.tag = e.tag
      OBVIOUS
    <3>1. Cardinality(WithTag(c, y.tag)') \in Nat
      BY <1>9
    <3> QED
      BY <3>1, <1>10, <1>11
  <2> QED
    BY <2>1, <2>2, <1>2, <1>7, <1>8, <1>11
<1>13. CASE ~(Copies(more, e.tag) >= K)
  <2>1. pc'[c] = READ_VALUE /\ DRAIN # READ_VALUE
    BY <1>2, <1>13
  <2>2. \A x \in DOMAIN more : x.tag = e.tag => Cardinality(WithTag(c, x.tag)') < K
    <3>1. Cardinality(WithTag(c, e.tag)') < K
      BY <1>9, <1>11, <1>13
    <3> QED
      BY <3>1
  <2> QED
    BY <2>1, <2>2, <1>2, <1>7, <1>8, <1>10
<1> QED
  BY <1>12, <1>13

LEMMA CollectedNext ==
    ASSUME Types, Types', [Next]_vars, OneElementPerTag, Collected
    PROVE  Collected'
<1> DEFINE Good(d, p) ==
       /\ IsFiniteSet(DOMAIN elements[d])
       /\ \A e \in DOMAIN elements[d] : elements[d][e] = 1
       /\ \A e, f \in DOMAIN elements[d] : e.server = f.server /\ e.tag = f.tag => e = f
       /\ p = READ_VALUE => \A e \in DOMAIN elements[d] : Cardinality(WithTag(d, e.tag)) < K
       /\ p = DRAIN => \E e \in DOMAIN elements[d] :
             /\ Cardinality(WithTag(d, e.tag)) >= K
             /\ \A f \in DOMAIN elements[d] : Cardinality(WithTag(d, f.tag)) >= K => f.tag = e.tag
       /\ p \notin {READ_VALUE, DRAIN} => elements[d] = EmptyBag
<1>1. \A d \in Clients : Good(d, pc[d])
  BY DEF Collected
<1> SUFFICES ASSUME NEW d \in Clients PROVE Good(d, pc[d])'
  BY DEF Collected
<1>2. ASSUME elements'[d] = EmptyBag, pc'[d] # DRAIN PROVE Good(d, pc[d])'
  <2>1. DOMAIN elements'[d] = {} /\ IsFiniteSet({})
    BY <1>2, EmptyBagType, FS_EmptySet
  <2> QED
    BY <2>1, <1>2
<1>3. ASSUME elements'[d] = elements[d], pc'[d] = pc[d] PROVE Good(d, pc[d])'
  <2>1. \A t : WithTag(d, t)' = WithTag(d, t)
    BY <1>3 DEF WithTag
  <2> QED
    BY <2>1, <1>1, <1>3
<1>4. CASE UNCHANGED vars
  BY <1>3, <1>4 DEF vars, clientVars
<1>5. ASSUME NEW c \in Clients, ClientStep(c) \/ Crash(c) PROVE Good(d, pc[d])'
  <2>1. CASE d # c
    BY <1>3, <1>5, <2>1, OthersKept DEF Untouched, Kept
  <2>2. CASE d = c
    <3>1. CASE Crash(c)
      BY <1>3, <3>1, Crashes
    <3>2. CASE Begin(c)
      <4>1. elements'[c] = EmptyBag
        BY <3>2 DEF Begin, Types
      <4>2. \E phase \in {READ_GET, WRITE_GET} : pc' = [pc EXCEPT ![c] = phase]
        BY <3>2, TypesBegin
      <4>3. pc'[c] # DRAIN
        BY <4>2 DEF Types
      <4> QED
        BY <4>1, <4>3, <1>2, <2>2
    <3>3. CASE EndGet(c)
      <4>1. pc[c] \in GetPhases /\ pc'[c] \in {WRITE_PUT, READ_VALUE} /\ elements' = elements
        BY <3>3 DEF EndGet, Types
      <4>2. elements[c] = EmptyBag
        BY <4>1 DEF Collected
      <4> QED
        BY <4>1, <4>2, <1>2, <2>2
    <3>4. ASSUME \E t, v : Return(c, t, v) PROVE Good(d, pc[d])'
      <4>1. pc'[c] = "idle" /\ elements'[c] = EmptyBag
        BY <3>4 DEF Return, Types
      <4> QED
        BY <4>1, <1>2, <2>2
    <3>5. CASE EndRead(c)
      BY <3>4, <3>5 DEF EndRead
    <3>6. ASSUME NEW s \in Servers,
                 OldMessage(c, s) \/ CountGet(c, s) \/ CountPut(c, s) \/ EndPut(c, s)
                   \/ Collect(c, s)
          PROVE  Good(d, pc[d])'
      <4>1. CASE OldMessage(c, s) \/ CountGet(c, s) \/ CountPut(c, s)
        BY <4>1, <1>3 DEF OldMessage, CountGet, CountPut
      <4>2. CASE EndPut(c, s)
        BY <4>2, <3>4 DEF EndPut
      <4>3. CASE Collect(c, s)
        BY <4>3, <2>2, CollectedCollect
      <4> QED
        BY <3>6, <4>1, <4>2, <4>3
    <3> QED
      BY <1>5, <2>2, <3>1, <3>2, <3>3, <3>5, <3>6 DEF ClientStep
  <2> QED
    BY <2>1, <2>2
<1>6. ASSUME NEW c \in Clients, NEW s \in Servers, Serve(c, s) PROVE Good(d, pc[d])'
  BY <1>3, <1>6, ServeTakes DEF clientVars
<1>7. ASSUME NEW p \in Servers, NEW s \in Servers, ServeReadDisperse(p, s)
      PROVE  Good(d, pc[d])'
  BY <1>3, <1>7, DisperseTakes DEF clientVars
<1> QED
  BY <1>4, <1>5, <1>6, <1>7 DEF Next

LEMMA MessagesInit == Init => Messages
<1> SUFFICES ASSUME Init PROVE Messages
  OBVIOUS
<1>1. /\ \A c \in Clients : pc[c] = "idle" /\ elements[c] = EmptyBag
      /\ \A c \in Clients, s \in Servers :
            /\ DOMAIN toServer[c][s] = {} /\ DOMAIN toClient[c][s] = {}
            /\ reading[s][c] = NotRegistered /\ readed[s][c] = Absent
      /\ \A s \in Servers : history[s] = {}
      /\ \A p, s \in Servers : DOMAIN toPeer[p][s] = {}
      /\ alive = Clients
  BY DEF Init, Empty
<1>2. OnlyBegun
  BY <1>1 DEF OnlyBegun
<1>3. KindOfPhase
  BY <1>1 DEF KindOfPhase
<1>4. OnePerServer
  BY <1>1 DEF OnePerServer, Counting
<1>5. OneElementPerTag
  BY <1>1 DEF OneElementPerTag
<1>6. Collected
  <2>1. DOMAIN EmptyBag = {} /\ IsFiniteSet({})
    BY EmptyBagType, FS_EmptySet
  <2> QED
    BY <1>1, <2>1 DEF Collected
<1> QED
  BY <1>2, <1>3, <1>4, <1>5, <1>6 DEF Messages

LEMMA MessagesNext ==
    ASSUME FreshNums, Types, Types', Messages, [Next]_vars
    PROVE  Messages'
<1> USE DEF Messages
<1>1. OnlyBegun'
  BY OnlyBegunNext
<1>2. KindOfPhase'
  BY KindOfPhaseStep
<1>3. OnePerServer'
  BY OnePerServerNext
<1>4. OneElementPerTag'
  BY OneElementPerTagNext
<1>5. Collected'
  BY CollectedNext
<1> QED
  BY <1>1, <1>2, <1>3, <1>4, <1>5

\* A client that is counting has counted some of the servers.
LEMMA ResponsesBounded ==
    ASSUME TypeOK, Types', OnePerServer', [Next]_vars
    PROVE  TypeOK'
<1> SUFFICES ASSUME NEW d \in Clients PROVE responses'[d] <= Cardinality(Servers)
  BY DEF TypeOK
<1>1. Types /\ responses[d] <= Cardinality(Servers)
  BY DEF TypeOK
<1>2. /\ K \in Nat /\ K <= Cardinality(Servers) /\ Cardinality(Servers) \in Nat
      /\ responses'[d] \in Nat /\ (pc'[d] \notin GetPhases => responses'[d] < K)
  BY KType, ServersFinite DEF Types
<1>3. CASE d \in alive' /\ pc'[d] \in GetPhases
  <2>1. responses'[d] = Cardinality(Answered(d)')
    BY <1>3 DEF OnePerServer, Counting
  <2>2. Answered(d)' \in SUBSET Servers /\ IsFiniteSet(Servers)
    BY CallsAssumption DEF Answered
  <2>3. Cardinality(Answered(d)') <= Cardinality(Servers)
    BY <2>2, FS_Subset
  <2> QED
    BY <2>1, <2>3
<1>4. CASE d \notin alive'
  <2>1. ASSUME NEW c \in Clients, ClientStep(c) \/ Crash(c)
        PROVE  responses'[d] = responses[d]
    <3>1. CASE d # c
      BY <1>1, <2>1, <3>1, OthersKept DEF Untouched, Kept
    <3>2. CASE d = c /\ ClientStep(c)
      <4>1. c \in alive'
        <5>1. CASE Begin(c) \/ EndGet(c) \/ EndRead(c)
          BY <5>1 DEF Begin, EndGet, EndRead
        <5>2. ASSUME NEW s \in Servers,
                     OldMessage(c, s) \/ CountGet(c, s) \/ CountPut(c, s) \/ EndPut(c, s)
                       \/ Collect(c, s)
              PROVE  c \in alive'
          BY <1>1, <5>2, ReadsOne, Receives
        <5> QED
          BY <3>2, <5>1, <5>2 DEF ClientStep
      <4> QED
        BY <4>1, <3>2, <1>4
    <3>3. CASE d = c /\ Crash(c)
      BY <1>1, <3>3, Crashes
    <3> QED
      BY <2>1, <3>1, <3>2, <3>3
  <2>2. ASSUME NEW c \in Clients, NEW s \in Servers, Serve(c, s)
        PROVE  responses'[d] = responses[d]
    BY <1>1, <2>2, ServeTakes DEF clientVars
  <2>3. ASSUME NEW p \in Servers, NEW s \in Servers, ServeReadDisperse(p, s)
        PROVE  responses'[d] = responses[d]
    BY <1>1, <2>3, DisperseTakes DEF clientVars
  <2>4. ASSUME UNCHANGED vars PROVE responses'[d] = responses[d]
    BY <2>4 DEF vars, clientVars
  <2>5. responses'[d] = responses[d]
    BY <2>1, <2>2, <2>3, <2>4 DEF Next
  <2> QED
    BY <2>5, <1>1
<1> QED
  BY <1>2, <1>3, <1>4

---------------------------------------------------------------------------
(* The theorems. *)

(***************************************************************************)
(* Whatever clients and servers do, the tables, the channels and the       *)
(* clients' variables hold what their types say: tags that exist,          *)
(* registrations of numbers, calls of the script.                          *)
(***************************************************************************)
THEOREM TypesCorrect == Spec => []Types
BY TypesInit, TypesNext, PTL DEF Spec

\* The inductive invariant, with the types.
LEMMA MessagesAlways ==
    ASSUME FreshNums
    PROVE  Spec => [](Types /\ Messages)
<1>1. Init => Types /\ Messages
  BY TypesInit, MessagesInit
<1>2. Types /\ Messages /\ [Next]_vars => (Types /\ Messages)'
  BY TypesNext, MessagesNext
<1> QED
  BY <1>1, <1>2, PTL DEF Spec

(***************************************************************************)
(* In a phase that counts replies no server is counted twice, a server     *)
(* sends a reader no two elements of one tag, and a read has K elements    *)
(* of one tag, of different servers, before it decodes.                    *)
(***************************************************************************)
THEOREM OneMessageEach ==
    ASSUME FreshNums
    PROVE  Spec => []Messages
BY MessagesAlways, PTL

(***************************************************************************)
(* No phase counts more replies than there are servers.                    *)
(***************************************************************************)
THEOREM CountsBounded ==
    ASSUME FreshNums
    PROVE  Spec => []TypeOK
<1>1. Init => TypeOK
  <2>1. Init => \A c \in Clients : responses[c] <= Cardinality(Servers)
    BY ServersFinite DEF Init
  <2> QED
    BY <2>1, TypesInit DEF TypeOK
<1>2. /\ Types /\ Messages /\ TypeOK /\ [Next]_vars /\ (Types /\ Messages)' => TypeOK'
  BY ResponsesBounded DEF Messages
<1> QED
  BY <1>1, <1>2, MessagesAlways, PTL DEF Spec

(***************************************************************************)
(* The assertion of SODAW_read_value never fails, whatever strcmp returns: *)
(* no element on its way to a read is older than the tag it asked for.     *)
(***************************************************************************)
THEOREM AssertionHolds ==
    ASSUME FreshNums
    PROVE  Spec => []NotOlderThanAsked
<1>1. Types /\ Messages => NotOlderThanAsked
  <2> SUFFICES ASSUME Types, Messages, NEW c \in alive, NEW s \in Servers,
                      NEW i \in DOMAIN toClient[c][s],
                      pc[c] = READ_VALUE, Counts(c, toClient[c][s][i])
               PROVE  compare_tags(toClient[c][s][i].tag, tag[c]) >= 0
    BY DEF NotOlderThanAsked
  <2>1. c \in Clients /\ tag[c] \in Tag
    BY DEF Types
  <2>2. toClient[c][s][i] \in Answer /\ toClient[c][s][i] \in Of(READ_VALUE, Num(c))
    BY <2>1, InChannel DEF Counts
  <2>3. AtLeast(toClient[c][s][i].tag, tag[c])
    BY <2>2 DEF Messages, OneElementPerTag, InOrder
  <2>4. toClient[c][s][i].tag \in Tag
    BY <2>2 DEF Answer
  <2> QED
    BY <2>1, <2>3, <2>4, CompareTags
<1> QED
  BY <1>1, MessagesAlways, PTL

---------------------------------------------------------------------------
(* A server forgets a reader only when it has been served. *)

\* A phase of a read that has begun is one of an earlier read, or of this.
LEMMA EarlierReads ==
    ASSUME Types, ReadsGrow, KindOfPhase, NEW c \in Clients,
           pc[c] \in {READ_GET, READ_VALUE, DRAIN},
           NEW phase \in {READ_VALUE, READ_COMPLETE}, NEW num, Begun(c, phase, num)
    PROVE  /\ num \in Nat /\ num <= Num(c)
           /\ pc[c] \notin From(phase) => num < Num(c)
<1>1. /\ call[c] \in 1 .. Len(Script[c]) /\ Num(c) \in Nat /\ call[c] \in Nat
      /\ Len(Script[c]) \in Nat
  BY CurrentCall, CallsAssumption
<1>2. PICK i \in 1 .. call[c] : /\ Script[c][i].kind = KindOf(phase)
                                /\ Script[c][i].num = num
                                /\ i < call[c] \/ pc[c] \in From(phase)
  BY DEF Begun
<1>3. i \in 1 .. Len(Script[c]) /\ i \in Nat
  BY <1>1
<1>4. Script[c][i] \in [kind : Kinds, num : Nat]
  BY <1>3, CallsAssumption, SeqElement
<1>5. Script[c][i].kind = "read" /\ Script[c][call[c]].kind = "read"
  BY <1>2 DEF KindOf, KindOfPhase, Kind
<1>6. i < call[c] => num < Num(c)
  BY <1>1, <1>2, <1>3, <1>5 DEF ReadsGrow, Num
<1>7. i = call[c] => num = Num(c)
  BY <1>2 DEF Num
<1> QED
  BY <1>1, <1>2, <1>3, <1>4, <1>6, <1>7

LEMMA SentIs ==
    ASSUME NEW c
    PROVE  /\ \A x : x \in Sent(c) <=>
                 \/ \E e \in DOMAIN elements[c] : x = [server |-> e.server, tag |-> e.tag]
                 \/ \E s \in Servers : \E i \in DOMAIN toClient[c][s] :
                       /\ toClient[c][s][i].num = Num(c) /\ toClient[c][s][i].phase = pc[c]
                       /\ x = [server |-> s, tag |-> toClient[c][s][i].tag]
           /\ \A x : x \in Sent(c)' <=>
                 \/ \E e \in DOMAIN elements'[c] : x = [server |-> e.server, tag |-> e.tag]
                 \/ \E s \in Servers : \E i \in DOMAIN toClient'[c][s] :
                       /\ toClient'[c][s][i].num = Num(c)' /\ toClient'[c][s][i].phase = pc'[c]
                       /\ x = [server |-> s, tag |-> toClient'[c][s][i].tag]
BY DEF Sent, Counts

\* What was sent for a read stays sent until the read is over.
LEMMA SentStays ==
    ASSUME Types, [Next]_vars, NEW c \in Clients, c \in alive',
           pc[c] = READ_VALUE, pc'[c] = READ_VALUE
    PROVE  /\ c \in alive /\ Num(c)' = Num(c) /\ \A x \in Sent(c) : x \in Sent(c)'
<1>1. call'[c] = call[c] /\ Num(c)' = Num(c)
  BY StepMoves DEF Moves, Num
<1>2. ASSUME elements'[c] = elements[c], c \in alive,
             \A s \in Servers : \A i \in DOMAIN toClient[c][s] :
                i \in DOMAIN toClient'[c][s] /\ toClient'[c][s][i] = toClient[c][s][i]
      PROVE  c \in alive /\ \A x \in Sent(c) : x \in Sent(c)'
  <2> SUFFICES ASSUME NEW x \in Sent(c) PROVE x \in Sent(c)'
    BY <1>2
  <2>1. CASE \E e \in DOMAIN elements[c] : x = [server |-> e.server, tag |-> e.tag]
    BY <1>2, <2>1, SentIs
  <2>2. ASSUME NEW s \in Servers, NEW i \in DOMAIN toClient[c][s],
               toClient[c][s][i].num = Num(c), toClient[c][s][i].phase = pc[c],
               x = [server |-> s, tag |-> toClient[c][s][i].tag]
        PROVE  x \in Sent(c)'
    <3>1. /\ i \in DOMAIN toClient'[c][s] /\ toClient'[c][s][i].num = Num(c)'
          /\ toClient'[c][s][i].phase = pc'[c]
          /\ x = [server |-> s, tag |-> toClient'[c][s][i].tag]
      BY <1>1, <1>2, <2>2
    <3> QED
      BY <3>1, SentIs
  <2> QED
    BY <2>1, <2>2, SentIs
<1>3. CASE UNCHANGED vars
  BY <1>2, <1>3, <1>1 DEF vars, clientVars
<1>4. ASSUME NEW d \in Clients, ClientStep(d) \/ Crash(d)
      PROVE  c \in alive /\ \A x \in Sent(c) : x \in Sent(c)'
  <2>1. CASE d # c
    <3>1. Untouched(c)
      BY <1>4, <2>1, OthersKept
    <3> QED
      BY <3>1, <1>2 DEF Untouched, Kept
  <2>2. CASE d = c
    <3>1. ~Crash(c)
      BY Crashes
    <3>2. ~Begin(c) /\ ~EndGet(c) /\ ~EndRead(c)
      BY DEF Begin, EndGet, EndRead, GetPhases
    <3>3. ASSUME NEW s \in Servers,
                 OldMessage(c, s) \/ CountGet(c, s) \/ CountPut(c, s) \/ EndPut(c, s)
                   \/ Collect(c, s)
          PROVE  c \in alive /\ \A x \in Sent(c) : x \in Sent(c)'
      <4>1. Receive(c, s) /\ c \in alive
        BY <3>3, ReadsOne, Receives
      <4>2. ~CountGet(c, s) /\ ~CountPut(c, s) /\ ~EndPut(c, s)
        BY DEF CountGet, CountPut, EndPut, GetPhases
      <4>3. PICK h : h = Head(toClient[c][s])
        OBVIOUS
      <4>4. /\ toClient[c][s] \in Seq(Answer) /\ toClient[c][s] # <<>>
            /\ toClient'[c][s] = Tail(toClient[c][s])
            /\ \A r \in Servers : r # s => toClient'[c][r] = toClient[c][r]
        BY <4>1, Receives
      <4>5. /\ 1 \in DOMAIN toClient[c][s] /\ h = toClient[c][s][1]
            /\ \A i \in DOMAIN toClient[c][s] : i # 1 =>
                  /\ i - 1 \in DOMAIN Tail(toClient[c][s])
                  /\ Tail(toClient[c][s])[i - 1] = toClient[c][s][i]
        BY <4>3, <4>4, TailElements
      <4>6. \A e \in DOMAIN elements[c] : e \in DOMAIN elements'[c]
        <5>1. CASE OldMessage(c, s)
          BY <5>1 DEF OldMessage
        <5>2. CASE Collect(c, s)
          <6>1. PICK b, e : b = elements[c] /\ e = ElementOf(s, h)
            OBVIOUS
          <6>2. IsABag(b) /\ elements'[c] = b (+) SetToBag({e})
            BY <5>2, <6>1, <4>3, TypesCollect DEF Types
          <6>3. DOMAIN (b (+) SetToBag({e})) = DOMAIN b \cup {e}
            BY <6>2, BagPlusOne
          <6> QED
            BY <6>1, <6>2, <6>3
        <5> QED
          BY <3>3, <4>2, <5>1, <5>2
      <4>7. ASSUME h.num = Num(c), h.phase = pc[c]
            PROVE  \E e \in DOMAIN elements'[c] : e.server = s /\ e.tag = h.tag
        <5>1. Collect(c, s)
          BY <3>3, <4>2, <4>3, <4>7 DEF OldMessage, Counts
        <5>2. PICK b, e : b = elements[c] /\ e = ElementOf(s, h)
          OBVIOUS
        <5>3. /\ IsABag(b) /\ elements'[c] = b (+) SetToBag({e})
              /\ e.server = s /\ e.tag = h.tag
          BY <5>1, <5>2, <4>3, TypesCollect DEF Types
        <5>4. DOMAIN (b (+) SetToBag({e})) = DOMAIN b \cup {e}
          BY <5>3, BagPlusOne
        <5> QED
          BY <5>3, <5>4
      <4> SUFFICES ASSUME NEW x \in Sent(c) PROVE x \in Sent(c)'
        BY <4>1
      <4>8. CASE \E e \in DOMAIN elements[c] : x = [server |-> e.server, tag |-> e.tag]
        BY <4>6, <4>8, SentIs
      <4>9. ASSUME NEW r \in Servers, NEW i \in DOMAIN toClient[c][r],
                   toClient[c][r][i].num = Num(c), toClient[c][r][i].phase = pc[c],
                   x = [server |-> r, tag |-> toClient[c][r][i].tag]
            PROVE  x \in Sent(c)'
        <5>1. CASE r # s
          <6>1. /\ i \in DOMAIN toClient'[c][r] /\ toClient'[c][r][i].num = Num(c)'
                /\ toClient'[c][r][i].phase = pc'[c]
                /\ x = [server |-> r, tag |-> toClient'[c][r][i].tag]
            BY <1>1, <4>4, <4>9, <5>1
          <6> QED
            BY <6>1, SentIs
        <5>2. CASE r = s /\ i # 1
          <6>1. PICK j : j = i - 1
            OBVIOUS
          <6>2. j \in DOMAIN toClient'[c][s] /\ toClient'[c][s][j] = toClient[c][s][i]
            BY <4>4, <4>5, <4>9, <5>2, <6>1
          <6>3. /\ j \in DOMAIN toClient'[c][s] /\ toClient'[c][s][j].num = Num(c)'
                /\ toClient'[c][s][j].phase = pc'[c]
                /\ x = [server |-> s, tag |-> toClient'[c][s][j].tag]
            BY <1>1, <4>9, <5>2, <6>2
          <6> QED
            BY <6>3, SentIs
        <5>3. CASE r = s /\ i = 1
          <6>1. h.num = Num(c) /\ h.phase = pc[c] /\ x = [server |-> s, tag |-> h.tag]
            BY <4>5, <4>9, <5>3
          <6> QED
            BY <6>1, <4>7, SentIs
        <5> QED
          BY <5>1, <5>2, <5>3
      <4> QED
        BY <4>8, <4>9, SentIs
    <3> QED
      BY <1>4, <2>2, <3>1, <3>2, <3>3 DEF ClientStep
  <2> QED
    BY <2>1, <2>2
<1>5. ASSUME NEW d \in Clients, NEW s \in Servers, Serve(d, s)
      PROVE  c \in alive /\ \A x \in Sent(c) : x \in Sent(c)'
  <2>1. UNCHANGED clientVars
    BY <1>5, ServeTakes
  <2>2. ASSUME NEW r \in Servers, NEW i \in DOMAIN toClient[c][r]
        PROVE  i \in DOMAIN toClient'[c][r] /\ toClient'[c][r][i] = toClient[c][r][i]
    <3>1. PICK out \in [Clients -> Seq(Answer)] : Replies(d, s, out)
      BY <1>5, ServeSends DEF Sends
    <3>2. toClient'[c][r] = toClient[c][r] \/ toClient'[c][r] = toClient[c][r] \o out[c]
      BY <3>1 DEF Replies
    <3>3. toClient[c][r] \in Seq(Answer) /\ out[c] \in Seq(Answer)
      BY <3>1, ChannelTypes
    <3>4. LET q == toClient[c][r] \o out[c]
          IN  \A k \in DOMAIN toClient[c][r] : k \in DOMAIN q /\ q[k] = toClient[c][r][k]
      BY <3>3, ChannelConcat
    <3> QED
      BY <3>2, <3>4
  <2> QED
    BY <2>1, <2>2, <1>2 DEF clientVars
<1>6. ASSUME NEW p \in Servers, NEW s \in Servers, ServeReadDisperse(p, s)
      PROVE  c \in alive /\ \A x \in Sent(c) : x \in Sent(c)'
  <2>1. UNCHANGED <<toClient, clientVars>>
    BY <1>6, DisperseTakes
  <2> QED
    BY <2>1, <1>2 DEF clientVars
<1> QED
  BY <1>1, <1>3, <1>4, <1>5, <1>6 DEF Next

LEMMA NoMoreThan ==
    ASSUME NEW S, NEW T, IsFiniteSet(T), NEW f \in [S -> T],
           \A a, b \in S : f[a] = f[b] => a = b
    PROVE  /\ IsFiniteSet(S) /\ Cardinality(S) \in Nat /\ Cardinality(T) \in Nat
           /\ Cardinality(S) <= Cardinality(T)
<1>1. f \in Injection(S, T)
  BY DEF Injection, IsInjective
<1> QED
  BY <1>1, FS_Injection, FS_CardinalityType

\* One element of a tag for each server at most.
LEMMA SentFinite ==
    ASSUME Types, NEW c \in Clients, NEW t
    PROVE  /\ IsFiniteSet({y \in Sent(c) : y.tag = t})
           /\ Cardinality({y \in Sent(c) : y.tag = t}) \in Nat
           /\ \A y \in Sent(c) : y.server \in Servers /\ y = [server |-> y.server, tag |-> y.tag]
<1>1. \A y \in Sent(c) : y.server \in Servers /\ y = [server |-> y.server, tag |-> y.tag]
  <2> SUFFICES ASSUME NEW y \in Sent(c)
               PROVE  y.server \in Servers /\ y = [server |-> y.server, tag |-> y.tag]
    OBVIOUS
  <2>1. \A e \in DOMAIN elements[c] : e.server \in Servers
    BY DEF Types, Element
  <2>2. \/ \E e \in DOMAIN elements[c] : y = [server |-> e.server, tag |-> e.tag]
        \/ \E s \in Servers : \E i \in DOMAIN toClient[c][s] :
              y = [server |-> s, tag |-> toClient[c][s][i].tag]
    BY SentIs
  <2> QED
    BY <2>1, <2>2
<1> DEFINE Y == {y \in Sent(c) : y.tag = t}
           f == [y \in Y |-> y.server]
<1>2. f \in [Y -> Servers] /\ \A a, b \in Y : f[a] = f[b] => a = b
  BY <1>1
<1> HIDE DEF f, Y
<1>3. IsFiniteSet(Y) /\ Cardinality(Y) \in Nat
  BY <1>2, CallsAssumption, NoMoreThan
<1> QED
  BY <1>1, <1>3 DEF Y

OnlySentTo(c, s) ==
    /\ \A p \in Servers : \A i \in DOMAIN toPeer[p][s] :
          toPeer[p][s][i].reader = c /\ toPeer[p][s][i].num = Num(c) =>
             [server |-> p, tag |-> toPeer[p][s][i].tag] \in Sent(c)
    /\ \A h \in history[s] : h.reader = c /\ h.num = Num(c) =>
          [server |-> h.sender, tag |-> h.tag] \in Sent(c)

\* Nothing is told of a read that asks for its elements.
LEMMA ToldOfNone ==
    ASSUME Types, Types', FreshNums, OnlyBegun, KindOfPhase,
           NEW c \in Clients, EndGet(c), pc'[c] = READ_VALUE, NEW s \in Servers
    PROVE  OnlySentTo(c, s)'
<1>1. pc[c] = READ_GET
  <2>1. pc[c] = WRITE_GET => pc'[c] = WRITE_PUT
    BY DEF EndGet, Types
  <2> QED
    BY <2>1, TypesEndGet
<1>2. call[c] \in 1 .. Len(Script[c]) /\ call[c] >= call[c]
  BY <1>1, CurrentCall
<1>3. Script[c][call[c]].kind = KindOf(READ_VALUE) /\ pc[c] \notin From(READ_VALUE)
  BY <1>1 DEF KindOfPhase, Kind, KindOf, From
<1>4. ~Begun(c, READ_VALUE, Num(c))
  BY <1>2, <1>3, NotYet DEF Num
<1>5. UNCHANGED <<history, toPeer>> /\ Num(c)' = Num(c)
  BY DEF EndGet, tables, Num
<1> QED
  BY <1>4, <1>5 DEF OnlySentTo, OnlyBegun

LEMMA OnlySentServe ==
    ASSUME Types, [Next]_vars, NEW c \in Clients, NEW s \in Servers, Serve(c, s),
           NEW d \in alive, pc[d] = READ_VALUE, NEW r \in Servers,
           OnlySentTo(d, r)
    PROVE  OnlySentTo(d, r)'
<1>1. UNCHANGED clientVars /\ d \in Clients
  BY ServeTakes DEF Types
<1>2. Num(d)' = Num(d) /\ \A x \in Sent(d) : x \in Sent(d)'
  BY <1>1, SentStays DEF clientVars
<1>3. ASSUME NEW h \in history'[r], h.reader = d, h.num = Num(d)
      PROVE  [server |-> h.sender, tag |-> h.tag] \in Sent(d)'
  <2>1. h \in history[r]
    <3>1. history'[r] \subseteq history[r]
      BY Registration
    <3> QED
      BY <3>1
  <2> QED
    BY <2>1, <1>2, <1>3 DEF OnlySentTo
<1>4. ASSUME NEW p \in Servers, NEW i \in DOMAIN toPeer'[p][r],
             toPeer'[p][r][i].reader = d, toPeer'[p][r][i].num = Num(d)
      PROVE  [server |-> p, tag |-> toPeer'[p][r][i].tag] \in Sent(d)'
  <2>1. PICK n : n = toPeer'[p][r][i]
    OBVIOUS
  <2>2. \/ i \in DOMAIN toPeer[p][r] /\ n = toPeer[p][r][i]
        \/ p = s /\ (n.reader \in alive => NowSent(s, n.reader, n.num, n.tag))
    BY <2>1, ToldByServe
  <2>3. CASE i \in DOMAIN toPeer[p][r] /\ n = toPeer[p][r][i]
    BY <2>1, <2>3, <1>2, <1>4 DEF OnlySentTo
  <2>4. CASE p = s /\ NowSent(s, n.reader, n.num, n.tag)
    <3>1. PICK j \in DOMAIN toClient'[d][s] : /\ toClient'[d][s][j].phase = READ_VALUE
                                              /\ toClient'[d][s][j].num = n.num
                                              /\ toClient'[d][s][j].tag = n.tag
      BY <2>1, <2>4, <1>4 DEF NowSent
    <3>2. PICK x : x = [server |-> s, tag |-> toClient'[d][s][j].tag]
      OBVIOUS
    <3>3. /\ toClient'[d][s][j].num = Num(d)' /\ toClient'[d][s][j].phase = pc'[d]
      BY <3>1, <2>1, <1>1, <1>2, <1>4 DEF clientVars
    <3>4. x \in Sent(d)'
      BY <3>2, <3>3, SentIs
    <3> QED
      BY <3>1, <3>2, <3>4, <2>1, <2>4
  <2> QED
    BY <2>1, <2>2, <2>3, <2>4, <1>4
<1> QED
  BY <1>2, <1>3, <1>4 DEF OnlySentTo

LEMMA OnlySentDisperse ==
    ASSUME Types, NEW q \in Servers, NEW s \in Servers, ServeReadDisperse(q, s),
           NEW d \in alive, NEW r \in Servers, OnlySentTo(d, r), OnlySentTo(d, s)
    PROVE  OnlySentTo(d, r)'
<1>1. UNCHANGED <<toClient, clientVars>>
  BY DisperseTakes
<1>2. Num(d)' = Num(d) /\ Sent(d)' = Sent(d)
  BY <1>1 DEF Num, Sent, Counts, clientVars
<1>3. \A p \in Servers : \A i \in DOMAIN toPeer'[p][r] :
         \E j \in DOMAIN toPeer[p][r] : toPeer'[p][r][i] = toPeer[p][r][j]
  BY HeardFrom
<1>4. ASSUME NEW h \in history'[r], h.reader = d, h.num = Num(d)
      PROVE  [server |-> h.sender, tag |-> h.tag] \in Sent(d)
  <2>1. CASE h \in history[r]
    BY <2>1, <1>4 DEF OnlySentTo
  <2>2. CASE h \notin history[r]
    <3>1. r = s /\ h \in WithHeard(q, s) /\ h \notin history[s]
      <4>1. /\ history'[r] \subseteq history[r] \cup WithHeard(q, s)
            /\ r # s => history'[r] = history[r]
        BY Deregistration
      <4> QED
        BY <4>1, <2>2
    <3>2. /\ h.reader = Heard(q, s).reader /\ h.num = Heard(q, s).num
          /\ h.tag = Heard(q, s).tag /\ h.sender = q
      BY <3>1 DEF WithHeard
    <3>3. 1 \in DOMAIN toPeer[q][s] /\ Heard(q, s) = toPeer[q][s][1]
      BY HeardFrom
    <3> QED
      BY <3>2, <3>3, <1>4 DEF OnlySentTo
  <2> QED
    BY <2>1, <2>2
<1> QED
  BY <1>2, <1>3, <1>4 DEF OnlySentTo

LEMMA OnlySentNext ==
    ASSUME Types, Types', [Next]_vars, FreshNums, OnlyBegun, KindOfPhase, OnlySentIsTold
    PROVE  OnlySentIsTold'
<1> SUFFICES ASSUME NEW d \in alive', NEW r \in Servers, pc'[d] = READ_VALUE
             PROVE  OnlySentTo(d, r)'
  BY DEF OnlySentIsTold, OnlySentTo
<1>1. d \in Clients
  BY DEF Types
<1>2. ASSUME pc[d] = READ_VALUE
      PROVE  /\ d \in alive /\ Num(d)' = Num(d) /\ \A x \in Sent(d) : x \in Sent(d)'
             /\ \A s \in Servers : OnlySentTo(d, s)
  <2>1. d \in alive /\ Num(d)' = Num(d) /\ \A x \in Sent(d) : x \in Sent(d)'
    BY <1>1, <1>2, SentStays
  <2> QED
    BY <2>1, <1>2 DEF OnlySentIsTold, OnlySentTo
<1>3. CASE UNCHANGED vars
  <2>1. pc[d] = READ_VALUE
    BY <1>3 DEF vars, clientVars
  <2> QED
    BY <2>1, <1>2, <1>3 DEF OnlySentTo, vars, tables
<1>4. ASSUME NEW c \in Clients, ClientStep(c) \/ Crash(c) PROVE OnlySentTo(d, r)'
  <2>1. UNCHANGED <<history, toPeer>>
    BY <1>4, OthersKept DEF tables
  <2>2. CASE pc[d] = READ_VALUE
    BY <2>1, <2>2, <1>2 DEF OnlySentTo
  <2>3. CASE pc[d] # READ_VALUE
    <3>1. pc[d] = READ_GET
      BY <1>1, <2>3, StepMoves DEF Moves, Onward
    <3>2. d = c
      BY <1>1, <1>4, <2>3, OthersKept DEF Untouched, Kept
    <3>3. EndGet(c)
      <4>1. ~Crash(c)
        BY <3>2, Crashes
      <4>2. ~Begin(c) /\ ~EndRead(c)
        BY <3>1, <3>2 DEF Begin, EndRead
      <4>3. ASSUME NEW s \in Servers,
                   OldMessage(c, s) \/ CountGet(c, s) \/ CountPut(c, s) \/ EndPut(c, s)
                     \/ Collect(c, s)
            PROVE  FALSE
        BY <4>3, <3>1, <3>2 DEF OldMessage, CountGet, CountPut, EndPut, Collect
      <4> QED
        BY <1>4, <4>1, <4>2, <4>3 DEF ClientStep
    <3> QED
      BY <3>2, <3>3, ToldOfNone
  <2> QED
    BY <2>2, <2>3
<1>5. ASSUME NEW c \in Clients, NEW s \in Servers, Serve(c, s) PROVE OnlySentTo(d, r)'
  <2>1. pc[d] = READ_VALUE
    BY <1>5, ServeTakes DEF clientVars
  <2> QED
    BY <2>1, <1>2, <1>5, OnlySentServe
<1>6. ASSUME NEW p \in Servers, NEW s \in Servers, ServeReadDisperse(p, s)
      PROVE  OnlySentTo(d, r)'
  <2>1. pc[d] = READ_VALUE
    BY <1>6, DisperseTakes DEF clientVars
  <2> QED
    BY <2>1, <1>2, <1>6, OnlySentDisperse
<1> QED
  BY <1>3, <1>4, <1>5, <1>6 DEF Next

\* K servers have sent the reader c their elements of one tag.
HasSent(c) == \E x \in Sent(c) : Cardinality({y \in Sent(c) : y.tag = x.tag}) >= K

LEMMA HasSentStays ==
    ASSUME Types, Types', [Next]_vars, NEW c \in Clients, c \in alive',
           pc[c] = READ_VALUE, pc'[c] = READ_VALUE, HasSent(c)
    PROVE  HasSent(c)'
<1>1. PICK x \in Sent(c) : Cardinality({y \in Sent(c) : y.tag = x.tag}) >= K
  BY DEF HasSent
<1>2. PICK S, T, t : S = Sent(c) /\ T = Sent(c)' /\ t = x.tag
  OBVIOUS
<1>3. \A y \in S : y \in T
  BY <1>2, SentStays
<1>4. /\ IsFiniteSet({y \in T : y.tag = t}) /\ Cardinality({y \in T : y.tag = t}) \in Nat
      /\ Cardinality({y \in S : y.tag = t}) \in Nat
  <2>1. ASSUME NEW u PROVE  /\ IsFiniteSet({y \in Sent(c) : y.tag = u})
                            /\ Cardinality({y \in Sent(c) : y.tag = u}) \in Nat
    BY SentFinite
  <2>2. IsFiniteSet({y \in T : y.tag = t}) /\ Cardinality({y \in T : y.tag = t}) \in Nat
    <3>1. \A y \in T : y.server \in Servers /\ y = [server |-> y.server, tag |-> y.tag]
      <4> SUFFICES ASSUME NEW y \in T
                   PROVE  y.server \in Servers /\ y = [server |-> y.server, tag |-> y.tag]
        OBVIOUS
      <4>1. \A e \in DOMAIN elements'[c] : e.server \in Servers
        BY DEF Types, Element
      <4>2. \/ \E e \in DOMAIN elements'[c] : y = [server |-> e.server, tag |-> e.tag]
            \/ \E s \in Servers : \E i \in DOMAIN toClient'[c][s] :
                  y = [server |-> s, tag |-> toClient'[c][s][i].tag]
        BY <1>2, SentIs
      <4> QED
        BY <4>1, <4>2
    <3> DEFINE Y == {y \in T : y.tag = t}
               f == [y \in Y |-> y.server]
    <3>2. f \in [Y -> Servers] /\ \A a, b \in Y : f[a] = f[b] => a = b
      BY <3>1
    <3> HIDE DEF f, Y
    <3>3. IsFiniteSet(Y) /\ Cardinality(Y) \in Nat
      BY <3>2, CallsAssumption, NoMoreThan
    <3> QED
      BY <3>3 DEF Y
  <2> QED
    BY <1>2, <2>1, <2>2
<1>5. Cardinality({y \in S : y.tag = t}) <= Cardinality({y \in T : y.tag = t})
  <2>1. {y \in S : y.tag = t} \in SUBSET {y \in T : y.tag = t}
    BY <1>3
  <2> QED
    BY <2>1, <1>4, FS_Subset
<1>6. x \in T /\ Cardinality({y \in T : y.tag = x.tag}) >= K
  BY <1>1, <1>2, <1>3, <1>4, <1>5, KType
<1> QED
  BY <1>2, <1>6 DEF HasSent

\* With the K-th dispersal of one tag, the elements of K servers have been sent.
LEMMA ServedByDispersal ==
    ASSUME Types, ReadsGrow, OnlyBegun, KindOfPhase, OnlySentIsTold,
           NEW q \in Servers, NEW s \in Servers, ServeReadDisperse(q, s), Enough(q, s),
           NEW c \in alive, pc[c] = READ_VALUE,
           c = Heard(q, s).reader, Heard(q, s).num >= Num(c)
    PROVE  HasSent(c)
<1>1. c \in Clients /\ Num(c) \in Nat
  BY CurrentCall DEF Types
<1>2. PICK m, his, set : m = Heard(q, s) /\ his = WithHeard(q, s)
                         /\ set = historydata_lookup(his, c, m.num, m.tag)
  OBVIOUS
<1>3. /\ m \in Dispersal /\ m.reader = c /\ m.num \in Nat /\ his \in SUBSET History
      /\ 1 \in DOMAIN toPeer[q][s] /\ m = toPeer[q][s][1]
  BY <1>2, DisperseTakes, HeardFrom
<1>4. m.num = Num(c)
  <2>1. Begun(c, READ_VALUE, m.num)
    BY <1>3 DEF OnlyBegun
  <2>2. m.num <= Num(c)
    BY <1>1, <2>1, EarlierReads
  <2> QED
    BY <1>1, <1>2, <1>3, <2>2
<1>5. Cardinality(set) >= K
  BY <1>2, <1>3 DEF Enough
<1>6. \A h \in set : /\ [server |-> h.sender, tag |-> m.tag] \in Sent(c)
                     /\ h = [reader |-> c, num |-> m.num, tag |-> m.tag, sender |-> h.sender]
  <2> SUFFICES ASSUME NEW h \in set
               PROVE  /\ [server |-> h.sender, tag |-> m.tag] \in Sent(c)
                      /\ h = [reader |-> c, num |-> m.num, tag |-> m.tag, sender |-> h.sender]
    OBVIOUS
  <2>1. h \in his /\ h.reader = c /\ h.num = m.num /\ h.tag = m.tag
    BY <1>2 DEF historydata_lookup
  <2>2. h \in history[s] \/ h.sender = q
    BY <2>1, <1>2 DEF WithHeard
  <2>3. h \in history[s] => [server |-> h.sender, tag |-> m.tag] \in Sent(c)
    BY <2>1, <1>4 DEF OnlySentIsTold
  <2>4. h.sender = q => [server |-> h.sender, tag |-> m.tag] \in Sent(c)
    BY <1>3, <1>4 DEF OnlySentIsTold
  <2>5. h = [reader |-> h.reader, num |-> h.num, tag |-> h.tag, sender |-> h.sender]
    BY <2>1, <1>3 DEF History
  <2> QED
    BY <2>1, <2>2, <2>3, <2>4, <2>5
<1> DEFINE Y == {y \in Sent(c) : y.tag = m.tag}
           f == [h \in set |-> [server |-> h.sender, tag |-> m.tag]]
<1>7. f \in [set -> Y] /\ \A a, b \in set : f[a] = f[b] => a = b
  <2>1. \A h \in set : f[h] \in Y
    BY <1>6
  <2>2. ASSUME NEW a \in set, NEW b \in set, f[a] = f[b] PROVE a = b
    <3>1. f[a].server = a.sender /\ f[b].server = b.sender
      OBVIOUS
    <3>2. a.sender = b.sender
      BY <2>2, <3>1
    <3> QED
      BY <1>6, <3>2
  <2> QED
    BY <2>1, <2>2
<1>8. IsFiniteSet(Y) /\ Cardinality(Y) \in Nat
  BY <1>1, SentFinite
<1> HIDE DEF f
<1>9. Cardinality(set) <= Cardinality(Y) /\ Cardinality(set) \in Nat
  <2> HIDE DEF Y
  <2> QED
    BY <1>7, <1>8, NoMoreThan
<1>10. Cardinality(Y) >= K /\ set # {}
  <2>1. Cardinality(Y) >= K /\ Cardinality(set) > 0
    <3> HIDE DEF Y
    <3> QED
      BY <1>5, <1>8, <1>9, KType
  <2> QED
    BY <2>1, FS_EmptySet
<1>11. PICK h : h \in set
  BY <1>10
<1>12. [server |-> h.sender, tag |-> m.tag] \in Sent(c)
  BY <1>6, <1>11
<1> QED
  BY <1>10, <1>12 DEF HasSent

LEMMA ForgottenIsServedNext ==
    ASSUME Types, Types', [Next]_vars, FreshNums, ReadsGrow, OnlyBegun, KindOfPhase,
           OnlySentIsTold, ForgottenIsServed
    PROVE  ForgottenIsServed'
<1> SUFFICES ASSUME NEW d \in alive', NEW r \in Servers, pc'[d] = READ_VALUE,
                    readed'[r][d] >= Num(d)'
             PROVE  HasSent(d)'
  BY DEF ForgottenIsServed, HasSent
<1>1. d \in Clients
  BY DEF Types
<1>2. ASSUME pc[d] = READ_VALUE PROVE d \in alive /\ Num(d)' = Num(d) /\ Num(d) \in Nat
  BY <1>1, <1>2, SentStays, CurrentCall
<1>3. ASSUME pc[d] = READ_VALUE, readed'[r][d] = readed[r][d] PROVE HasSent(d)'
  <2>1. HasSent(d)
    BY <1>2, <1>3 DEF ForgottenIsServed, HasSent
  <2> QED
    BY <2>1, <1>1, <1>3, HasSentStays
<1>4. Absent = -1
  BY DEF Absent
<1>5. CASE UNCHANGED vars
  BY <1>3, <1>5 DEF vars, clientVars, tables
<1>6. ASSUME NEW c \in Clients, ClientStep(c) \/ Crash(c) PROVE HasSent(d)'
  <2>1. readed' = readed
    BY <1>6, OthersKept DEF tables
  <2>2. CASE pc[d] # READ_VALUE
    <3>1. pc[d] = READ_GET /\ call'[d] = call[d]
      BY <1>1, <2>2, StepMoves DEF Moves, Onward
    <3>2. Num(d) \in Nat /\ Num(d)' = Num(d)
      BY <1>1, <3>1, CurrentCall DEF Num
    <3>3. readed[r][d] # Absent => readed[r][d] < Num(d)
      <4>1. readed[r][d] # Absent => Begun(d, READ_VALUE, readed[r][d])
        BY <1>1 DEF OnlyBegun
      <4>2. pc[d] \notin From(READ_VALUE)
        BY <3>1 DEF From
      <4> QED
        BY <1>1, <3>1, <4>1, <4>2, EarlierReads
    <3>4. readed[r][d] >= Num(d) /\ readed[r][d] \in Int
      BY <1>1, <2>1, <3>2, ReadingType
    <3> QED
      BY <1>4, <3>2, <3>3, <3>4
  <2> QED
    BY <2>1, <2>2, <1>3
<1>7. ASSUME NEW c \in Clients, NEW s \in Servers, Serve(c, s) PROVE HasSent(d)'
  <2>1. pc[d] = READ_VALUE
    BY <1>7, ServeTakes DEF clientVars
  <2>2. \/ readed'[r][d] = readed[r][d]
        \/ readed'[r][d] = Absent
        \/ /\ r = s /\ d = c /\ NextOf(c, s).phase = READ_COMPLETE
           /\ readed'[r][d] = NextOf(c, s).num
    <3>1. /\ \/ reading'[r][d] = reading[r][d]
             \/ reading'[r][d] = NotRegistered
             \/ /\ r = s /\ d = c /\ NextOf(c, s).phase = READ_VALUE
                /\ ~Outdated(s, c, NextOf(c, s).num)
                /\ reading'[r][d] = [num |-> NextOf(c, s).num, tag |-> NextOf(c, s).tag]
          /\ \/ readed'[r][d] = readed[r][d]
             \/ readed'[r][d] = Absent
             \/ /\ r = s /\ d = c /\ NextOf(c, s).phase = READ_COMPLETE
                /\ readed'[r][d] = NextOf(c, s).num
          /\ history'[r] \subseteq history[r]
      BY <1>1, <1>7, Registration
    <3> QED
      BY <3>1
  <2>3. readed'[r][d] # Absent
    BY <2>1, <1>2, <1>4
  <2>4. ~(/\ r = s /\ d = c /\ NextOf(c, s).phase = READ_COMPLETE
          /\ readed'[r][d] = NextOf(c, s).num)
    <3> SUFFICES ASSUME r = s, d = c, NextOf(c, s).phase = READ_COMPLETE,
                        readed'[r][d] = NextOf(c, s).num
                 PROVE  FALSE
      OBVIOUS
    <3>1. /\ toServer[c][s] \in Seq(Request) /\ toServer[c][s] # <<>>
          /\ NextOf(c, s) = Head(toServer[c][s])
      BY <1>7, ServeTakes, ChannelTypes DEF NextOf
    <3>2. 1 \in DOMAIN toServer[c][s] /\ NextOf(c, s) = toServer[c][s][1]
      BY <3>1, TailElements
    <3>3. Begun(c, READ_COMPLETE, NextOf(c, s).num)
      BY <3>2 DEF OnlyBegun
    <3>4. pc[c] \notin From(READ_COMPLETE)
      BY <2>1 DEF From
    <3>5. NextOf(c, s).num < Num(c) /\ NextOf(c, s).num \in Nat
      BY <2>1, <3>3, <3>4, EarlierReads
    <3> QED
      BY <2>1, <3>5, <1>2
  <2> QED
    BY <2>1, <2>2, <2>3, <2>4, <1>3
<1>8. ASSUME NEW p \in Servers, NEW s \in Servers, ServeReadDisperse(p, s)
      PROVE  HasSent(d)'
  <2>1. pc[d] = READ_VALUE
    BY <1>8, DisperseTakes DEF clientVars
  <2>2. CASE readed'[r][d] = readed[r][d]
    BY <2>1, <2>2, <1>3
  <2>3. CASE readed'[r][d] # readed[r][d]
    <3>1. r = s /\ d = Heard(p, s).reader /\ readed'[r][d] = Heard(p, s).num
      BY <1>1, <1>8, <2>3, Deregistration
    <3>2. Enough(p, s)
      <4>1. readed' # readed
        BY <2>3
      <4> QED
        BY <1>8, <4>1, DisperseTables DEF tables
    <3>3. HasSent(d)
      BY <1>2, <1>8, <2>1, <3>1, <3>2, ServedByDispersal
    <3> QED
      BY <1>1, <2>1, <3>3, HasSentStays
  <2> QED
    BY <2>2, <2>3
<1> QED
  BY <1>5, <1>6, <1>7, <1>8 DEF Next

(***************************************************************************)
(* If the numbers of its reads grow, what servers tell each other of a     *)
(* read that still collects was sent to its reader, and they forget the    *)
(* reader only for that.                                                   *)
(***************************************************************************)
THEOREM ServersTellTheTruth ==
    ASSUME FreshNums, ReadsGrow
    PROVE  Spec => []Served
<1>1. Init => Served
  <2> SUFFICES ASSUME Init PROVE Served
    OBVIOUS
  <2>1. \A c \in Clients : pc[c] # READ_VALUE
    BY DEF Init
  <2>2. alive \subseteq Clients
    BY DEF Init
  <2> QED
    BY <2>1, <2>2 DEF Served, OnlySentIsTold, ForgottenIsServed
<1>2. Types /\ Messages /\ Served /\ [Next]_vars /\ (Types /\ Messages)' => Served'
  BY OnlySentNext, ForgottenIsServedNext DEF Messages, Served
<1> QED
  BY <1>1, <1>2, MessagesAlways, PTL DEF Spec

(***************************************************************************)
(* A server forgets a reader that still collects only once K servers have  *)
(* sent it their elements of one tag, which are on their way or collected  *)
(* already: the read can end without that server.                          *)
(***************************************************************************)
THEOREM OnlyTheServedAreForgotten ==
    ASSUME FreshNums, ReadsGrow
    PROVE  Spec => []ForgottenIsServed
BY ServersTellTheTruth, PTL DEF Served

---------------------------------------------------------------------------
(* The tables empty. *)

\* What a step does to the tables of the server s.
TablesKept(s) == reading'[s] = reading[s] /\ readed'[s] = readed[s] /\ history'[s] = history[s]

OthersAt(s, c) ==
    \A d \in Clients \ {c} : reading'[s][d] = reading[s][d] /\ readed'[s][d] = readed[s][d]

Begins(s, c, num) ==
    /\ ~Outdated(s, c, num)
    /\ reading'[s][c].num = num /\ readed'[s][c] = Absent
    /\ history'[s] = history[s]
    /\ OthersAt(s, c)

Ends(s, c, num) ==
    /\ ~Outdated(s, c, num)
    /\ reading'[s][c] = NotRegistered /\ readed'[s][c] = num
    /\ history'[s] = {h \in history[s] : h.reader = c => h.num > num}
    /\ OthersAt(s, c)

Learns(p, s) ==
    /\ ServeReadDisperse(p, s) /\ ~Outdated(s, Heard(p, s).reader, Heard(p, s).num)
    /\ ~Enough(p, s)
    /\ reading'[s] = reading[s] /\ readed'[s] = readed[s] /\ history'[s] = WithHeard(p, s)

LEMMA EndsByDispersal ==
    ASSUME Types, NEW p \in Servers, NEW s \in Servers, ServeReadDisperse(p, s),
           ~Outdated(s, Heard(p, s).reader, Heard(p, s).num)
    PROVE  /\ Ends(s, Heard(p, s).reader, Heard(p, s).num) \/ Learns(p, s)
           /\ \A q \in Servers \ {s} : TablesKept(q)
<1>1. PICK m : m = Heard(p, s)
  OBVIOUS
<1>2. m.reader \in Clients /\ m.num \in Nat /\ WithHeard(p, s) \in SUBSET History
  BY <1>1, DisperseTakes
<1>3. \/ Enough(p, s) /\ Forget(s, m.reader, m.num, WithHeard(p, s))
      \/ /\ ~Enough(p, s) /\ history' = [history EXCEPT ![s] = WithHeard(p, s)]
         /\ UNCHANGED <<reading, readed>>
  BY <1>1, DisperseTables
<1>4. CASE Forget(s, m.reader, m.num, WithHeard(p, s))
  <2>1. /\ reading'[s][m.reader] = NotRegistered /\ readed'[s][m.reader] = m.num
        /\ history'[s] = {h \in WithHeard(p, s) : h.reader = m.reader => h.num > m.num}
        /\ \A q \in Servers \ {s} : history'[q] = history[q]
        /\ \A q \in Servers, d \in Clients : <<q, d>> # <<s, m.reader>> =>
              reading'[q][d] = reading[q][d] /\ readed'[q][d] = readed[q][d]
    BY <1>2, <1>4, TypesForget
  <2>2. /\ reading' = [reading EXCEPT ![s][m.reader] = NotRegistered]
        /\ readed' = [readed EXCEPT ![s][m.reader] = m.num]
    BY <1>4 DEF Forget
  <2>3. \A q \in Servers \ {s} : TablesKept(q)
    BY <2>1, <2>2 DEF TablesKept, Types
  <2>4. history'[s] = {h \in history[s] : h.reader = m.reader => h.num > m.num}
    BY <1>1, <1>2, <2>1 DEF WithHeard
  <2>5. Ends(s, m.reader, m.num)
    BY <1>1, <2>1, <2>4 DEF Ends, OthersAt
  <2> QED
    BY <1>1, <2>3, <2>5
<1>5. CASE /\ ~Enough(p, s) /\ history' = [history EXCEPT ![s] = WithHeard(p, s)]
           /\ UNCHANGED <<reading, readed>>
  BY <1>1, <1>5 DEF Learns, TablesKept, Types
<1> QED
  BY <1>3, <1>4, <1>5

LEMMA TableSteps ==
    ASSUME Types, [Next]_vars, NEW r \in Servers
    PROVE  \/ TablesKept(r)
           \/ \E c \in Clients, num \in Nat : Begins(r, c, num) \/ Ends(r, c, num)
           \/ \E p \in Servers : Learns(p, r)
<1>1. UNCHANGED tables => TablesKept(r)
  BY DEF TablesKept, tables
<1>2. CASE UNCHANGED vars
  BY <1>1, <1>2 DEF vars
<1>3. ASSUME NEW c \in Clients, ClientStep(c) \/ Crash(c) PROVE UNCHANGED tables
  BY <1>3, OthersKept
<1>4. ASSUME NEW c \in Clients, NEW s \in Servers, Serve(c, s)
      PROVE  \/ TablesKept(r)
             \/ \E d \in Clients, num \in Nat : Begins(r, d, num) \/ Ends(r, d, num)
  <2>1. PICK m : m = NextOf(c, s)
    OBVIOUS
  <2>2. \/ UNCHANGED tables
        \/ m.num \in Nat /\ m.tag \in Tag /\ Registers(s, c, m.num, m.tag)
        \/ m.num \in Nat /\ ~Outdated(s, c, m.num) /\ Forget(s, c, m.num, history[s])
    BY <1>4, <2>1, ServeTables
  <2>3. CASE m.num \in Nat /\ m.tag \in Tag /\ Registers(s, c, m.num, m.tag)
    <3>1. /\ reading'[s][c] = [num |-> m.num, tag |-> m.tag] /\ readed'[s][c] = Absent
          /\ \A p \in Servers, d \in Clients : <<p, d>> # <<s, c>> =>
                reading'[p][d] = reading[p][d] /\ readed'[p][d] = readed[p][d]
      BY <2>3, TypesRegister
    <3>2. ~Outdated(s, c, m.num) /\ history' = history
      BY <2>3 DEF Registers
    <3>3. r # s => TablesKept(r)
      BY <2>3 DEF Registers, TablesKept, Types
    <3>4. r = s => Begins(r, c, m.num)
      BY <3>1, <3>2 DEF Begins, OthersAt
    <3> QED
      BY <2>3, <3>3, <3>4
  <2>4. CASE m.num \in Nat /\ ~Outdated(s, c, m.num) /\ Forget(s, c, m.num, history[s])
    <3>1. history[s] \in SUBSET History
      BY DEF Types
    <3>2. /\ reading'[s][c] = NotRegistered /\ readed'[s][c] = m.num
          /\ history'[s] = {h \in history[s] : h.reader = c => h.num > m.num}
          /\ \A p \in Servers, d \in Clients : <<p, d>> # <<s, c>> =>
                reading'[p][d] = reading[p][d] /\ readed'[p][d] = readed[p][d]
      BY <2>4, <3>1, TypesForget
    <3>3. r # s => TablesKept(r)
      BY <2>4 DEF Forget, TablesKept, Types
    <3>4. r = s => Ends(r, c, m.num)
      BY <2>4, <3>2 DEF Ends, OthersAt
    <3> QED
      BY <2>4, <3>3, <3>4
  <2> QED
    BY <2>2, <2>3, <2>4, <1>1
<1>5. ASSUME NEW p \in Servers, NEW s \in Servers, ServeReadDisperse(p, s)
      PROVE  \/ TablesKept(r)
             \/ \E d \in Clients, num \in Nat : Ends(r, d, num)
             \/ Learns(p, r)
  <2>1. CASE UNCHANGED tables
    BY <1>1, <2>1
  <2>2. CASE ~Outdated(s, Heard(p, s).reader, Heard(p, s).num)
    <3>1. /\ Ends(s, Heard(p, s).reader, Heard(p, s).num) \/ Learns(p, s)
          /\ \A q \in Servers \ {s} : TablesKept(q)
      BY <1>5, <2>2, EndsByDispersal
    <3>2. Heard(p, s).reader \in Clients /\ Heard(p, s).num \in Nat
      BY <1>5, DisperseTakes
    <3> QED
      BY <3>1, <3>2
  <2> QED
    BY <2>1, <2>2, <1>5, DisperseTables
<1> QED
  BY <1>1, <1>2, <1>3, <1>4, <1>5 DEF Next

\* An operation that is over at a server stays over.
LEMMA OutdatedStays ==
    ASSUME Types, Types', [Next]_vars, NEW s \in Servers, NEW c \in Clients, NEW num \in Nat,
           Outdated(s, c, num)
    PROVE  Outdated(s, c, num)'
<1>1. /\ readed[s][c] \in Int /\ reading[s][c].num \in Int
      /\ readed[s][c] >= num \/ reading[s][c].num > num
  BY ReadingType DEF Outdated
<1>2. CASE TablesKept(s)
  BY <1>1, <1>2 DEF TablesKept, Outdated
<1>3. ASSUME NEW d \in Clients, NEW n \in Nat, Begins(s, d, n) PROVE Outdated(s, c, num)'
  <2>1. CASE d = c
    <3>1. readed[s][c] < n /\ ~(reading[s][c].num > n)
      BY <1>1, <1>3, <2>1 DEF Begins, Outdated
    <3>2. n > num
      BY <1>1, <1>3, <3>1
    <3>3. reading'[s][c].num = n
      BY <1>3, <2>1 DEF Begins
    <3> QED
      BY <3>2, <3>3 DEF Outdated
  <2>2. CASE d # c
    BY <1>1, <1>3, <2>2 DEF Begins, OthersAt, Outdated
  <2> QED
    BY <2>1, <2>2
<1>4. ASSUME NEW d \in Clients, NEW n \in Nat, Ends(s, d, n) PROVE Outdated(s, c, num)'
  <2>1. CASE d = c
    <3>1. readed[s][c] < n /\ ~(reading[s][c].num > n)
      BY <1>1, <1>4, <2>1 DEF Ends, Outdated
    <3>2. n >= num
      BY <1>1, <1>4, <3>1
    <3>3. readed'[s][c] = n
      BY <1>4, <2>1 DEF Ends
    <3> QED
      BY <3>2, <3>3 DEF Outdated
  <2>2. CASE d # c
    BY <1>1, <1>4, <2>2 DEF Ends, OthersAt, Outdated
  <2> QED
    BY <2>1, <2>2
<1>5. ASSUME NEW p \in Servers, Learns(p, s) PROVE Outdated(s, c, num)'
  BY <1>1, <1>5 DEF Learns, Outdated
<1> QED
  BY <1>2, <1>3, <1>4, <1>5, TableSteps

\* What a server was told is told for good, or of no use any more.
LEMMA ToldStays ==
    ASSUME Types, Types', [Next]_vars, NEW p \in Servers, NEW s \in Servers, NEW c \in Clients,
           NEW num \in Nat, NEW t, Told(p, s, c, num, t)
    PROVE  Told(p, s, c, num, t)'
<1>1. PICK n, h : /\ n = [reader |-> c, num |-> num, tag |-> t]
                  /\ h = [reader |-> c, num |-> num, tag |-> t, sender |-> p]
  OBVIOUS
<1>2. CASE Outdated(s, c, num)
  BY <1>2, OutdatedStays DEF Told
<1>3. CASE h \in history[s]
  <2>1. h \in history'[s] \/ Outdated(s, c, num)'
    <3>1. CASE TablesKept(s)
      BY <1>3, <3>1 DEF TablesKept
    <3>2. ASSUME NEW d \in Clients, NEW k \in Nat, Begins(s, d, k) PROVE h \in history'[s]
      BY <1>3, <3>2 DEF Begins
    <3>3. ASSUME NEW d \in Clients, NEW k \in Nat, Ends(s, d, k)
          PROVE  h \in history'[s] \/ Outdated(s, c, num)'
      <4>1. CASE d = c /\ k >= num
        BY <3>3, <4>1 DEF Ends, Outdated
      <4>2. CASE ~(d = c /\ k >= num)
        <5>1. h.reader = d => h.num > k
          BY <4>2, <1>1
        <5> QED
          BY <5>1, <1>3, <3>3 DEF Ends
      <4> QED
        BY <4>1, <4>2
    <3>4. ASSUME NEW q \in Servers, Learns(q, s) PROVE h \in history'[s]
      BY <1>3, <3>4 DEF Learns, WithHeard
    <3> QED
      BY <3>1, <3>2, <3>3, <3>4, TableSteps
  <2> QED
    BY <2>1, <1>1 DEF Told
<1>4. ASSUME NEW i \in DOMAIN toPeer[p][s], toPeer[p][s][i] = n
      PROVE  Told(p, s, c, num, t)'
  <2>1. ASSUME NEW j \in DOMAIN toPeer'[p][s], toPeer'[p][s][j] = n
        PROVE  Told(p, s, c, num, t)'
    BY <2>1, <1>1 DEF Told
  <2>2. CASE toPeer'[p][s] = toPeer[p][s]
    BY <1>4, <2>1, <2>2
  <2>3. CASE UNCHANGED vars
    BY <2>2, <2>3 DEF vars
  <2>4. ASSUME NEW d \in Clients, ClientStep(d) \/ Crash(d) PROVE Told(p, s, c, num, t)'
    BY <2>2, <2>4, OthersKept
  <2>5. ASSUME NEW d \in Clients, NEW r \in Servers, Serve(d, r)
        PROVE  Told(p, s, c, num, t)'
    <3>1. PICK out \in [Clients -> Seq(Answer)], news \in Seq(Dispersal) :
             Replies(d, r, out) /\ TellsOf(r, out, news)
      BY <2>5, ServeSends DEF Sends
    <3>2. toPeer'[p][s] = toPeer[p][s] \/ toPeer'[p][s] = toPeer[p][s] \o news
      BY <3>1 DEF TellsOf
    <3>3. toPeer[p][s] \in Seq(Dispersal)
      BY ChannelTypes
    <3>4. LET q == toPeer[p][s] \o news
          IN  \A k \in DOMAIN toPeer[p][s] : k \in DOMAIN q /\ q[k] = toPeer[p][s][k]
      BY <3>1, <3>3, ChannelConcat
    <3> QED
      BY <1>4, <2>1, <3>2, <3>4
  <2>6. ASSUME NEW q \in Servers, NEW r \in Servers, ServeReadDisperse(q, r)
        PROVE  Told(p, s, c, num, t)'
    <3>1. /\ 1 \in DOMAIN toPeer[q][r] /\ Heard(q, r) = toPeer[q][r][1]
          /\ \A a, b \in Servers : \A j \in DOMAIN toPeer[a][b] :
                \/ a = q /\ b = r /\ j = 1
                \/ \E k \in DOMAIN toPeer'[a][b] : toPeer'[a][b][k] = toPeer[a][b][j]
      BY <2>6, HeardFrom
    <3>2. CASE \E k \in DOMAIN toPeer'[p][s] : toPeer'[p][s][k] = toPeer[p][s][i]
      BY <1>4, <2>1, <3>2
    <3>3. CASE p = q /\ s = r /\ i = 1
      <4>1. Heard(p, s) = n /\ ServeReadDisperse(p, s)
        BY <1>4, <2>6, <3>1, <3>3
      <4>2. Heard(p, s).reader = c /\ Heard(p, s).num = num /\ Heard(p, s).tag = t
        BY <4>1, <1>1
      <4>3. CASE Outdated(s, c, num)
        BY <4>3, <1>2
      <4>4. CASE ~Outdated(s, c, num)
        <5>1. Ends(s, c, num) \/ Learns(p, s)
          BY <4>1, <4>2, <4>4, EndsByDispersal
        <5>2. CASE Ends(s, c, num)
          BY <5>2 DEF Ends, Told, Outdated
        <5>3. CASE Learns(p, s)
          BY <5>3, <4>2 DEF Learns, WithHeard, Told
        <5> QED
          BY <5>1, <5>2, <5>3
      <4> QED
        BY <4>3, <4>4
    <3> QED
      BY <3>1, <3>2, <3>3
  <2> QED
    BY <2>3, <2>4, <2>5, <2>6 DEF Next
<1> QED
  BY <1>1, <1>2, <1>3, <1>4 DEF Told

\* The entries of a key are entries of different servers.
LEMMA LookupFinite ==
    ASSUME NEW his \in SUBSET History, NEW r, NEW num, NEW t
    PROVE  LET set == historydata_lookup(his, r, num, t)
           IN  /\ IsFiniteSet(set) /\ Cardinality(set) \in Nat
               /\ \A S \in SUBSET set : IsFiniteSet(S) /\ Cardinality(S) <= Cardinality(set)
<1> DEFINE set == historydata_lookup(his, r, num, t)
           f   == [h \in set |-> h.sender]
<1>1. f \in [set -> Servers] /\ \A a, b \in set : f[a] = f[b] => a = b
  <2>1. \A h \in set : /\ h.sender \in Servers
                       /\ h = [reader |-> r, num |-> num, tag |-> t, sender |-> h.sender]
    BY DEF historydata_lookup, History
  <2> HIDE DEF set
  <2> QED
    BY <2>1
<1> HIDE DEF f, set
<1>2. IsFiniteSet(set) /\ Cardinality(set) \in Nat
  BY <1>1, CallsAssumption, NoMoreThan
<1>3. \A S \in SUBSET set : IsFiniteSet(S) /\ Cardinality(S) <= Cardinality(set)
  BY <1>2, FS_Subset
<1> QED
  BY <1>2, <1>3 DEF set

LEMMA TablesAgreeNext ==
    ASSUME Types, Types', [Next]_vars, TablesAgree
    PROVE  TablesAgree'
<1> DEFINE Agree(read, over, his) ==
       /\ \A c \in Clients : read[c] # NotRegistered => over[c] = Absent
       /\ \A h \in his : /\ over[h.reader] < h.num
                         /\ Cardinality(historydata_lookup(his, h.reader, h.num, h.tag)) < K
<1>1. \A s \in Servers : Agree(reading[s], readed[s], history[s])
  BY DEF TablesAgree
<1> SUFFICES ASSUME NEW s \in Servers PROVE Agree(reading'[s], readed'[s], history'[s])
  BY DEF TablesAgree
<1>a. Agree(reading[s], readed[s], history[s])
  BY <1>1
<1>b. history[s] \in SUBSET History /\ history'[s] \in SUBSET History
  <2> HIDE DEF Agree
  <2> QED
    BY DEF Types
<1>c. /\ \A h \in history[s] : h.num \in Nat /\ h.reader \in Clients
      /\ \A h \in history'[s] : h.num \in Nat /\ h.reader \in Clients
  <2> HIDE DEF Agree
  <2> QED
    BY <1>b DEF History
<1>d. /\ \A c \in Clients : readed[s][c] \in Int
      /\ Absent = -1 /\ K \in Nat
  <2> HIDE DEF Agree
  <2> QED
    BY KType, ReadingType DEF Absent
<1>2. /\ Agree(reading[s], readed[s], history[s])
      /\ history[s] \in SUBSET History /\ history'[s] \in SUBSET History
      /\ \A h \in history[s] : h.num \in Nat /\ h.reader \in Clients
      /\ \A h \in history'[s] : h.num \in Nat /\ h.reader \in Clients
      /\ \A c \in Clients : readed[s][c] \in Int /\ Absent = -1
      /\ K \in Nat
  <2> HIDE DEF Agree
  <2> QED
    BY <1>a, <1>b, <1>c, <1>d
<1>3. CASE TablesKept(s)
  BY <1>2, <1>3 DEF TablesKept
<1>4. ASSUME NEW c \in Clients, NEW num \in Nat, Begins(s, c, num)
      PROVE  Agree(reading'[s], readed'[s], history'[s])
  <2>1. /\ history'[s] = history[s] /\ readed'[s][c] = Absent
        /\ \A d \in Clients \ {c} : reading'[s][d] = reading[s][d] /\ readed'[s][d] = readed[s][d]
    BY <1>4 DEF Begins, OthersAt
  <2>2. \A d \in Clients : reading'[s][d] # NotRegistered => readed'[s][d] = Absent
    BY <1>2, <2>1
  <2>3. \A h \in history'[s] : readed'[s][h.reader] < h.num
    <3> SUFFICES ASSUME NEW h \in history[s] PROVE readed'[s][h.reader] < h.num
      BY <2>1
    <3>1. CASE h.reader = c
      BY <1>2, <2>1, <3>1
    <3>2. CASE h.reader # c
      BY <1>2, <2>1, <3>2
    <3> QED
      BY <3>1, <3>2
  <2> QED
    BY <1>2, <2>1, <2>2, <2>3
<1>5. ASSUME NEW c \in Clients, NEW num \in Nat, Ends(s, c, num)
      PROVE  Agree(reading'[s], readed'[s], history'[s])
  <2>1. /\ reading'[s][c] = NotRegistered /\ readed'[s][c] = num
        /\ history'[s] = {h \in history[s] : h.reader = c => h.num > num}
        /\ \A d \in Clients \ {c} : reading'[s][d] = reading[s][d] /\ readed'[s][d] = readed[s][d]
    BY <1>5 DEF Ends, OthersAt
  <2>2. \A d \in Clients : reading'[s][d] # NotRegistered => readed'[s][d] = Absent
    BY <1>2, <2>1
  <2>3. ASSUME NEW h \in history'[s] PROVE readed'[s][h.reader] < h.num
    <3>1. CASE h.reader = c
      BY <1>2, <2>1, <2>3, <3>1
    <3>2. CASE h.reader # c
      BY <1>2, <2>1, <2>3, <3>2
    <3> QED
      BY <3>1, <3>2
  <2>4. ASSUME NEW h \in history'[s]
        PROVE  Cardinality(historydata_lookup(history'[s], h.reader, h.num, h.tag)) < K
    <3>1. PICK new, old : /\ new = historydata_lookup(history'[s], h.reader, h.num, h.tag)
                          /\ old = historydata_lookup(history[s], h.reader, h.num, h.tag)
      OBVIOUS
    <3>2. new \in SUBSET old /\ h \in history[s]
      BY <2>1, <2>4, <3>1 DEF historydata_lookup
    <3>3. Cardinality(new) <= Cardinality(old) /\ Cardinality(old) \in Nat
      BY <1>2, <3>1, <3>2, LookupFinite
    <3>4. Cardinality(new) \in Nat
      BY <1>2, <3>1, LookupFinite
    <3>5. Cardinality(old) < K
      BY <1>2, <3>1, <3>2
    <3> QED
      BY <1>2, <3>1, <3>3, <3>4, <3>5
  <2> QED
    BY <2>2, <2>3, <2>4
<1>6. ASSUME NEW p \in Servers, Learns(p, s)
      PROVE  Agree(reading'[s], readed'[s], history'[s])
  <2>1. PICK m, n : /\ m = Heard(p, s)
                    /\ n = [reader |-> m.reader, num |-> m.num, tag |-> m.tag, sender |-> p]
    OBVIOUS
  <2>2. /\ reading'[s] = reading[s] /\ readed'[s] = readed[s]
        /\ history'[s] = history[s] \cup {n}
        /\ m.reader \in Clients /\ m.num \in Nat
        /\ ~Outdated(s, m.reader, m.num)
        /\ ~(Cardinality(historydata_lookup(history'[s], m.reader, m.num, m.tag)) >= K)
    BY <1>6, <2>1, DisperseTakes DEF Learns, WithHeard, Enough
  <2>3. ASSUME NEW h \in history'[s] PROVE readed'[s][h.reader] < h.num
    <3>1. CASE h \in history[s]
      BY <1>2, <2>2, <3>1
    <3>2. CASE h = n
      <4>1. h.reader = m.reader /\ h.num = m.num
        BY <2>1, <3>2
      <4> QED
        BY <1>2, <2>2, <4>1 DEF Outdated
    <3> QED
      BY <2>2, <2>3, <3>1, <3>2
  <2>4. ASSUME NEW h \in history'[s]
        PROVE  Cardinality(historydata_lookup(history'[s], h.reader, h.num, h.tag)) < K
    <3>1. PICK new, old : /\ new = historydata_lookup(history'[s], h.reader, h.num, h.tag)
                          /\ old = historydata_lookup(history[s], h.reader, h.num, h.tag)
      OBVIOUS
    <3>2. Cardinality(new) \in Nat
      BY <1>2, <3>1, LookupFinite
    <3>3. CASE h.reader = m.reader /\ h.num = m.num /\ h.tag = m.tag
      BY <1>2, <2>2, <3>1, <3>2, <3>3
    <3>4. CASE ~(h.reader = m.reader /\ h.num = m.num /\ h.tag = m.tag)
      <4>1. n.reader = m.reader /\ n.num = m.num /\ n.tag = m.tag
        BY <2>1
      <4>2. h \in history[s]
        BY <2>2, <2>4, <3>4, <4>1
      <4>3. new = old
        BY <2>2, <3>1, <3>4, <4>1 DEF historydata_lookup
      <4> QED
        BY <1>2, <3>1, <4>2, <4>3
    <3> QED
      BY <3>3, <3>4
  <2> QED
    BY <1>2, <2>2, <2>3, <2>4
<1> HIDE DEF Agree
<1> QED
  BY <1>3, <1>4, <1>5, <1>6, TableSteps

\* An element of p is under way to the reader c, or collected by it.
Shown(c, p, num, t) ==
    \/ \E i \in DOMAIN toClient[c][p] : /\ toClient[c][p][i].phase = READ_VALUE
                                        /\ toClient[c][p][i].num = num
                                        /\ toClient[c][p][i].tag = t
    \/ \E e \in DOMAIN elements[c] : e.server = p /\ e.tag = t

NowTold(p, c, num, t) ==
    \A s \in Servers : \E i \in DOMAIN toPeer'[p][s] :
       toPeer'[p][s][i] = [reader |-> c, num |-> num, tag |-> t]

\* Its reader was shown every element a server tells of just now, or before.
LEMMA ShownByServe ==
    ASSUME Types, NEW c \in Clients, NEW s \in Servers, Serve(c, s),
           NEW d \in Clients, NEW p \in Servers, NEW num, NEW t, Shown(d, p, num, t)'
    PROVE  Shown(d, p, num, t) \/ NowTold(p, d, num, t)
<1>1. elements' = elements
  BY ServeTakes DEF clientVars
<1>2. CASE \E e \in DOMAIN elements'[d] : e.server = p /\ e.tag = t
  BY <1>1, <1>2 DEF Shown
<1>3. ASSUME NEW i \in DOMAIN toClient'[d][p],
             toClient'[d][p][i].phase = READ_VALUE, toClient'[d][p][i].num = num,
             toClient'[d][p][i].tag = t
      PROVE  Shown(d, p, num, t) \/ NowTold(p, d, num, t)
  <2>1. PICK out \in [Clients -> Seq(Answer)], news \in Seq(Dispersal) :
           Replies(c, s, out) /\ TellsOf(s, out, news)
    BY ServeSends DEF Sends
  <2>2. CASE toClient'[d][p] = toClient[d][p]
    BY <1>3, <2>2 DEF Shown
  <2>3. CASE p = s /\ toClient'[d][p] = toClient[d][p] \o out[d]
    <3>1. toClient[d][p] \in Seq(Answer) /\ out[d] \in Seq(Answer)
      BY <2>1, ChannelTypes
    <3>2. LET q == toClient[d][p] \o out[d]
          IN  \A k \in DOMAIN q : \/ k \in DOMAIN toClient[d][p] /\ q[k] = toClient[d][p][k]
                                  \/ \E j \in DOMAIN out[d] : q[k] = out[d][j]
      BY <3>1, ChannelConcat
    <3>3. CASE i \in DOMAIN toClient[d][p] /\ toClient'[d][p][i] = toClient[d][p][i]
      BY <1>3, <3>3 DEF Shown
    <3>4. ASSUME NEW j \in DOMAIN out[d], toClient'[d][p][i] = out[d][j]
          PROVE  NowTold(p, d, num, t)
      <4>1. PICK k \in DOMAIN news : news[k] = [reader |-> d, num |-> num, tag |-> t]
        BY <1>3, <2>1, <3>4 DEF TellsOf
      <4> SUFFICES ASSUME NEW r \in Servers
                   PROVE  \E l \in DOMAIN toPeer'[p][r] :
                             toPeer'[p][r][l] = [reader |-> d, num |-> num, tag |-> t]
        BY DEF NowTold
      <4>2. toPeer'[p][r] = toPeer[p][r] \o news
        BY <2>1, <2>3 DEF TellsOf
      <4>3. toPeer[p][r] \in Seq(Dispersal)
        BY ChannelTypes
      <4>4. PICK q \in Seq(Dispersal) : q = toPeer[p][r]
        BY <4>3
      <4>5. Len(q) + k \in DOMAIN (q \o news) /\ (q \o news)[Len(q) + k] = news[k]
        BY ChannelConcat
      <4> QED
        BY <4>1, <4>2, <4>4, <4>5
    <3> QED
      BY <1>3, <2>3, <3>2, <3>3, <3>4
  <2> QED
    BY <2>1, <2>2, <2>3 DEF Replies
<1> QED
  BY <1>2, <1>3 DEF Shown

\* Until the read is over, a reader has been shown only what it was shown before.
LEMMA ShownByClient ==
    ASSUME Types, Types', FreshNums, OnlyBegun, KindOfPhase, Collected, [Next]_vars,
           NEW c \in Clients, ClientStep(c) \/ Crash(c),
           NEW d \in Clients, NEW p \in Servers, NEW num, NEW t, Shown(d, p, num, t)',
           pc'[d] \in {READ_VALUE, DRAIN}, num = Num(d)'
    PROVE  pc[d] \in {READ_VALUE, DRAIN} /\ num = Num(d) /\ Shown(d, p, num, t)
<1>0. num = Num(d)
  <2>1. call'[d] = call[d]
    BY StepMoves DEF Moves
  <2> QED
    BY <2>1 DEF Num
<1>1. CASE d # c
  <2>1. Untouched(d)
    BY <1>1, OthersKept
  <2> QED
    BY <2>1, <1>0 DEF Untouched, Kept, Shown
<1>2. CASE d = c
  <2>1. CASE Crash(c)
    <3>1. toClient'[c][p] = <<>> /\ elements' = elements /\ pc' = pc
      BY <2>1, Crashes
    <3> QED
      BY <3>1, <1>0, <1>2 DEF Shown
  <2>2. CASE Begin(c)
    <3>1. \E phase \in {READ_GET, WRITE_GET} : pc' = [pc EXCEPT ![c] = phase]
      BY <2>2, TypesBegin
    <3>2. pc'[c] \in {READ_GET, WRITE_GET}
      BY <3>1 DEF Types
    <3> QED
      BY <3>2, <1>2
  <2>3. CASE EndRead(c)
    BY <2>3, <1>2 DEF EndRead, Return, Types
  <2>4. CASE EndGet(c)
    <3>1. pc[c] = READ_GET
      <4>1. pc[c] = WRITE_GET => pc'[c] = WRITE_PUT
        BY <2>4 DEF EndGet, Types
      <4> QED
        BY <4>1, <2>4, <1>2, TypesEndGet
    <3>2. ~Has(toClient[c][p], Of(READ_VALUE, num))
      <4>1. call[c] \in 1 .. Len(Script[c]) /\ call[c] >= call[c]
        BY <3>1, CurrentCall
      <4>2. Script[c][call[c]].kind = KindOf(READ_VALUE) /\ pc[c] \notin From(READ_VALUE)
        BY <3>1 DEF KindOfPhase, Kind, KindOf, From
      <4>3. ~Has(toClient[c][p], Of(READ_VALUE, Script[c][call[c]].num))
        BY <4>1, <4>2, NotYet
      <4> QED
        BY <4>3, <1>0, <1>2 DEF Num
    <3>3. DOMAIN elements[c] = {}
      BY <3>1, EmptyBagType DEF Collected
    <3>4. elements' = elements /\ toClient' = toClient
      BY <2>4 DEF EndGet
    <3>5. PICK i \in DOMAIN toClient[c][p] : /\ toClient[c][p][i].phase = READ_VALUE
                                            /\ toClient[c][p][i].num = num
      BY <1>2, <3>3, <3>4 DEF Shown
    <3> QED
      BY <3>2, <3>5, InChannel DEF Has
  <2>5. ASSUME NEW s \in Servers,
               OldMessage(c, s) \/ CountGet(c, s) \/ CountPut(c, s) \/ EndPut(c, s)
                 \/ Collect(c, s)
        PROVE  pc[d] \in {READ_VALUE, DRAIN} /\ num = Num(d) /\ Shown(d, p, num, t)
    <3>1. Receive(c, s)
      BY <2>5, ReadsOne
    <3>2. ~CountGet(c, s) /\ ~CountPut(c, s) /\ ~EndPut(c, s)
      BY <1>2 DEF CountGet, CountPut, EndPut, Return, GetPhases, Types
    <3>3. pc[c] \in {READ_VALUE, DRAIN}
      BY <1>2, <2>5, <3>2 DEF OldMessage, Collect
    <3>4. PICK h, q : h = Head(toClient[c][s]) /\ q = toClient[c][s]
      OBVIOUS
    <3>5. /\ q \in Seq(Answer) /\ q # <<>> /\ toClient'[c][s] = Tail(q)
          /\ \A r \in Servers : r # s => toClient'[c][r] = toClient[c][r]
      BY <3>1, <3>4, Receives
    <3>6. /\ 1 \in DOMAIN q /\ h = q[1]
          /\ \A i \in DOMAIN Tail(q) : i + 1 \in DOMAIN q /\ Tail(q)[i] = q[i + 1]
      BY <3>4, <3>5, TailElements
    <3>7. CASE \E i \in DOMAIN toClient'[c][p] : /\ toClient'[c][p][i].phase = READ_VALUE
                                                /\ toClient'[c][p][i].num = num
                                                /\ toClient'[c][p][i].tag = t
      <4>1. \A i \in DOMAIN toClient'[c][p] : \E j \in DOMAIN toClient[c][p] :
               toClient'[c][p][i] = toClient[c][p][j]
        <5>1. CASE p = s
          BY <5>1, <3>4, <3>5, <3>6
        <5>2. CASE p # s
          BY <5>2, <3>5
        <5> QED
          BY <5>1, <5>2
      <4> QED
        BY <4>1, <3>3, <3>7, <1>0, <1>2 DEF Shown
    <3>8. ASSUME NEW e \in DOMAIN elements'[c], e.server = p, e.tag = t
          PROVE  Shown(c, p, num, t)
      <4>1. CASE elements'[c] = elements[c]
        BY <4>1, <3>8 DEF Shown
      <4>2. CASE Collect(c, s)
        <5>1. PICK b, x : b = elements[c] /\ x = ElementOf(s, h)
          OBVIOUS
        <5>2. /\ IsABag(b) /\ elements'[c] = b (+) SetToBag({x})
              /\ x.server = s /\ x.tag = h.tag
          BY <4>2, <5>1, <3>4, TypesCollect, ZenonT(60) DEF Types
        <5>3. DOMAIN (b (+) SetToBag({x})) = DOMAIN b \cup {x}
          BY <5>2, BagPlusOne
        <5>4. h.num = Num(c) /\ h.phase = READ_VALUE
          BY <4>2, <3>4 DEF Collect, Counts
        <5>5. e \in DOMAIN elements[c] \/ e = x
          BY <5>1, <5>2, <5>3, <3>8
        <5> QED
          BY <5>2, <5>4, <5>5, <3>4, <3>6, <3>8, <1>0, <1>2 DEF Shown
      <4> QED
        BY <2>5, <3>2, <4>1, <4>2 DEF OldMessage
    <3> QED
      BY <3>3, <3>7, <3>8, <1>0, <1>2 DEF Shown
  <2> QED
    BY <1>2, <2>1, <2>2, <2>3, <2>4, <2>5 DEF ClientStep
<1> QED
  BY <1>1, <1>2

LEMMA SentIsToldNext ==
    ASSUME Types, Types', FreshNums, OnlyBegun, KindOfPhase, Collected, [Next]_vars, SentIsTold
    PROVE  SentIsTold'
<1>1. ASSUME NEW d \in Clients, NEW p \in Servers, NEW s \in Servers,
             pc'[d] \in {READ_VALUE, DRAIN}, NEW num, num = Num(d)', NEW t,
             Shown(d, p, num, t)'
      PROVE  Told(p, s, d, num, t)'
  <2>1. ASSUME pc[d] \in {READ_VALUE, DRAIN}, num = Num(d), Shown(d, p, num, t)
        PROVE  Told(p, s, d, num, t)'
    <3>1. num \in Nat
      BY <2>1, CurrentCall
    <3>2. Told(p, s, d, num, t)
      BY <2>1, InChannel DEF SentIsTold, Shown
    <3> QED
      BY <3>1, <3>2, ToldStays
  <2>2. CASE UNCHANGED vars
    <3>1. Shown(d, p, num, t) /\ pc[d] = pc'[d] /\ Num(d) = num
      BY <1>1, <2>2 DEF Shown, vars, clientVars, Num
    <3> QED
      BY <3>1, <1>1, <2>1
  <2>3. ASSUME NEW c \in Clients, ClientStep(c) \/ Crash(c) PROVE Told(p, s, d, num, t)'
    <3>1. pc[d] \in {READ_VALUE, DRAIN} /\ num = Num(d) /\ Shown(d, p, num, t)
      BY <1>1, <2>3, ShownByClient
    <3> QED
      BY <3>1, <2>1
  <2>4. ASSUME NEW c \in Clients, NEW r \in Servers, Serve(c, r)
        PROVE  Told(p, s, d, num, t)'
    <3>1. pc[d] \in {READ_VALUE, DRAIN} /\ num = Num(d)
      BY <1>1, <2>4, ServeTakes DEF clientVars, Num
    <3>2. Shown(d, p, num, t) \/ NowTold(p, d, num, t)
      BY <1>1, <2>4, ShownByServe
    <3> QED
      BY <3>1, <3>2, <2>1 DEF NowTold, Told
  <2>5. ASSUME NEW q \in Servers, NEW r \in Servers, ServeReadDisperse(q, r)
        PROVE  Told(p, s, d, num, t)'
    <3>1. /\ pc[d] \in {READ_VALUE, DRAIN} /\ num = Num(d)
          /\ toClient' = toClient /\ elements' = elements
      BY <1>1, <2>5, DisperseTakes DEF clientVars, Num
    <3> QED
      BY <3>1, <1>1, <2>1 DEF Shown
  <2> QED
    BY <2>2, <2>3, <2>4, <2>5 DEF Next
<1> SUFFICES ASSUME NEW d \in Clients, NEW p \in Servers, NEW s \in Servers,
                    pc'[d] \in {READ_VALUE, DRAIN}
             PROVE  /\ \A i \in DOMAIN toClient'[d][p] :
                          toClient'[d][p][i] \in Of(READ_VALUE, Num(d)') =>
                             Told(p, s, d, Num(d), toClient[d][p][i].tag)'
                    /\ \A e \in DOMAIN elements'[d] :
                          e.server = p => Told(p, s, d, Num(d), e.tag)'
  BY DEF SentIsTold, Of
<1>2. PICK num : num = Num(d)'
  OBVIOUS
<1>3. ASSUME NEW i \in DOMAIN toClient'[d][p], toClient'[d][p][i] \in Of(READ_VALUE, num)
      PROVE  Told(p, s, d, Num(d), toClient[d][p][i].tag)'
  <2>1. PICK t : t = toClient'[d][p][i].tag
    OBVIOUS
  <2>2. Shown(d, p, num, t)'
    BY <1>3, <2>1 DEF Shown, Of
  <2>3. Told(p, s, d, num, t)'
    BY <1>1, <1>2, <2>2
  <2> QED
    BY <1>2, <2>1, <2>3 DEF Told
<1>4. ASSUME NEW e \in DOMAIN elements'[d], e.server = p
      PROVE  Told(p, s, d, Num(d), e.tag)'
  <2>1. Shown(d, p, num, e.tag)'
    BY <1>4 DEF Shown
  <2>2. Told(p, s, d, num, e.tag)'
    BY <1>1, <1>2, <2>1
  <2> QED
    BY <1>2, <2>2 DEF Told
<1> QED
  BY <1>2, <1>3, <1>4

\* The steps that return a call, and those that do not.
LEMMA Returns ==
    ASSUME Types, [Next]_vars
    PROVE  \/ done' = done /\ \A d \in Clients : pc[d] # "idle" => pc'[d] # "idle"
           \/ \E c \in Clients : EndRead(c) \/ \E s \in Servers : EndPut(c, s)
<1> SUFFICES ASSUME \A c \in Clients : ~EndRead(c) /\ \A s \in Servers : ~EndPut(c, s)
             PROVE  done' = done /\ \A d \in Clients : pc[d] # "idle" => pc'[d] # "idle"
  OBVIOUS
<1>1. ASSUME done' = done, pc' = pc
      PROVE  done' = done /\ \A d \in Clients : pc[d] # "idle" => pc'[d] # "idle"
  BY <1>1
<1>2. CASE UNCHANGED vars
  BY <1>1, <1>2 DEF vars, clientVars
<1>3. ASSUME NEW c \in Clients, ClientStep(c) \/ Crash(c)
      PROVE  done' = done /\ \A d \in Clients : pc[d] # "idle" => pc'[d] # "idle"
  <2>1. CASE Crash(c)
    BY <2>1, <1>1 DEF Crash
  <2>2. CASE Begin(c)
    <3>1. done' = done
      BY <2>2 DEF Begin
    <3>2. \E phase \in {READ_GET, WRITE_GET} : pc' = [pc EXCEPT ![c] = phase]
      BY <2>2, TypesBegin
    <3>3. READ_GET # "idle" /\ WRITE_GET # "idle"
      BY DEF READ_GET, WRITE_GET
    <3> QED
      BY <3>1, <3>2, <3>3 DEF Types
  <2>3. CASE EndGet(c)
    <3>1. done' = done
      BY <2>3 DEF EndGet
    <3>2. \E phase \in {READ_VALUE, WRITE_PUT} : pc' = [pc EXCEPT ![c] = phase]
      BY <2>3, TypesEndGet
    <3>3. READ_VALUE # "idle" /\ WRITE_PUT # "idle"
      BY DEF READ_VALUE, WRITE_PUT
    <3> QED
      BY <3>1, <3>2, <3>3 DEF Types
  <2>4. ASSUME NEW s \in Servers, OldMessage(c, s) \/ CountGet(c, s) \/ CountPut(c, s)
        PROVE  done' = done /\ pc' = pc
    BY <2>4 DEF OldMessage, CountGet, CountPut
  <2>5. ASSUME NEW s \in Servers, Collect(c, s)
        PROVE  done' = done /\ \A d \in Clients : pc[d] # "idle" => pc'[d] # "idle"
    <3>1. done' = done /\ pc'[c] \in {READ_VALUE, DRAIN}
      BY <2>5, TypesCollect
    <3>2. \A d \in Clients \ {c} : pc'[d] = pc[d]
      BY <2>5, TypesCollect, ZenonT(60)
    <3>3. READ_VALUE # "idle" /\ DRAIN # "idle"
      BY DEF READ_VALUE, DRAIN
    <3> QED
      BY <3>1, <3>2, <3>3
  <2> QED
    BY <1>1, <1>3, <2>1, <2>2, <2>3, <2>4, <2>5 DEF ClientStep
<1>4. ASSUME NEW c \in Clients, NEW s \in Servers, Serve(c, s)
      PROVE  done' = done /\ \A d \in Clients : pc[d] # "idle" => pc'[d] # "idle"
  BY <1>1, <1>4, ServeTakes DEF clientVars
<1>5. ASSUME NEW p \in Servers, NEW s \in Servers, ServeReadDisperse(p, s)
      PROVE  done' = done /\ \A d \in Clients : pc[d] # "idle" => pc'[d] # "idle"
  BY <1>1, <1>5, DisperseTakes DEF clientVars
<1> QED
  BY <1>2, <1>3, <1>4, <1>5 DEF Next

\* What a read decodes are elements of K servers.
LEMMA DecodedServers ==
    ASSUME Types, Collected, NEW c \in Clients, NEW e \in Decoded(c)
    PROVE  LET P == {x.server : x \in WithTag(c, e.tag)}
           IN  P \in SUBSET Servers /\ Cardinality(P) >= K
<1>1. PICK b, t : b = elements[c] /\ t = e.tag
  OBVIOUS
<1>2. /\ IsFiniteSet(DOMAIN b) /\ \A x \in DOMAIN b : b[x] = 1
      /\ \A x, y \in DOMAIN b : x.server = y.server /\ x.tag = y.tag => x = y
      /\ DOMAIN b \subseteq Element
  BY <1>1 DEF Collected, Types
<1>3. Copies(b, t) >= K
  BY <1>1 DEF Decoded
<1>4. Copies(b, t) = Cardinality({x \in DOMAIN b : x.tag = t})
  BY <1>2, CopiesOfSet
<1>5. PICK S, P : S = {x \in DOMAIN b : x.tag = t} /\ P = {x.server : x \in S}
  OBVIOUS
<1>6. P \in SUBSET Servers
  BY <1>2, <1>5 DEF Element
<1>7. IsFiniteSet(P)
  BY <1>6, CallsAssumption, FS_Subset
<1>8. PICK f : f = [x \in S |-> x.server]
  OBVIOUS
<1>9. f \in [S -> P] /\ \A x, y \in S : f[x] = f[y] => x = y
  BY <1>2, <1>5, <1>8
<1>10. Cardinality(S) <= Cardinality(P) /\ Cardinality(S) \in Nat /\ Cardinality(P) \in Nat
  BY <1>7, <1>9, NoMoreThan
<1>11. Cardinality(P) >= K
  BY <1>3, <1>4, <1>5, <1>10, KType
<1>12. P = {x.server : x \in WithTag(c, e.tag)}
  BY <1>1, <1>5 DEF WithTag
<1> QED
  BY <1>6, <1>11, <1>12

\* The servers were told of the K elements that made the result r of a read.
ToldOf(r) ==
    \E P \in SUBSET Servers :
       /\ Cardinality(P) >= K
       /\ \A p \in P, s \in Servers :
             Told(p, s, r.client, Script[r.client][r.call].num, r.tag)

LEMMA ReturnedIsToldNext ==
    ASSUME Types, Types', [Next]_vars, KindOfPhase, Collected, SentIsTold, ReturnedIsTold
    PROVE  ReturnedIsTold'
<1>1. ASSUME NEW r \in done
      PROVE  /\ r.call \in 1 .. call'[r.client] /\ r.kind = Script[r.client][r.call].kind
             /\ r.kind = "read" => ToldOf(r)'
  <2>1. /\ r.client \in Clients /\ r.call \in 1 .. call[r.client]
        /\ r.kind = Script[r.client][r.call].kind
        /\ r.kind = "read" => ToldOf(r)
    BY DEF ReturnedIsTold, Types, Result, ToldOf
  <2>2. PICK c, k, num : c = r.client /\ k = r.call /\ num = Script[c][k].num
    OBVIOUS
  <2>3. /\ c \in Clients /\ k \in 1 .. call[c]
        /\ call[c] \in Nat /\ call[c] <= Len(Script[c])
    BY <2>1, <2>2 DEF Types
  <2>4. k \in Nat /\ 0 < k /\ k <= Len(Script[c])
    <3>1. Len(Script[c]) \in Nat
      BY <2>3, CallsAssumption
    <3> QED
      BY <2>3, <3>1
  <2>5. num \in Nat
    BY <2>2, <2>3, <2>4, CallType
  <2>6. call'[c] \in Nat /\ call'[c] >= call[c]
    <3>1. Moves(c)
      BY <2>3, StepMoves
    <3>2. call'[c] = call[c] \/ call'[c] = call[c] + 1
      BY <3>1 DEF Moves
    <3> QED
      BY <2>3, <3>2
  <2>7. ASSUME r.kind = "read" PROVE ToldOf(r)'
    <3>1. PICK P \in SUBSET Servers :
             /\ Cardinality(P) >= K
             /\ \A p \in P, s \in Servers : Told(p, s, c, num, r.tag)
      BY <2>1, <2>2, <2>7 DEF ToldOf
    <3>2. PICK t : t = r.tag
      OBVIOUS
    <3>3. \A p \in P, s \in Servers : Told(p, s, c, num, t)'
      BY <2>3, <2>5, <3>1, <3>2, ToldStays
    <3> QED
      BY <2>2, <3>1, <3>2, <3>3 DEF ToldOf, Told
  <2> QED
    BY <2>1, <2>2, <2>3, <2>6, <2>7
<1>2. ASSUME NEW c \in Clients, NEW t, NEW v, Return(c, t, v), call' = call, pc[c] # "idle",
             NEW n, n = [client |-> c, call |-> call[c], kind |-> Kind(c),
                         tag |-> t, val |-> v, before |-> before[c]],
             n.kind = "read" => ToldOf(n)'
      PROVE  ReturnedIsTold'
  <2>1. /\ done' = done \cup {n}
        /\ \A d \in Clients : d # c => pc'[d] = pc[d]
    BY <1>2 DEF Return, Types
  <2>2. n.client = c /\ n.call = call[c] /\ n.kind = Kind(c)
    BY <1>2
  <2>3. ASSUME NEW d \in Clients, NEW k \in 1 .. call'[d], k < call'[d] \/ pc'[d] = "idle"
        PROVE  \E r \in done' : Id(r) = <<d, k>>
    <3>1. call[c] \in Nat
      BY DEF Types
    <3>2. CASE d = c /\ k = call[c]
      BY <2>1, <2>2, <3>2 DEF Id
    <3>3. CASE ~(d = c /\ k = call[c])
      <4>1. k \in 1 .. call[d] /\ (k < call[d] \/ pc[d] = "idle")
        BY <1>2, <2>1, <2>3, <3>1, <3>3
      <4>2. PICK r \in done : Id(r) = <<d, k>>
        BY <4>1 DEF ReturnedIsTold
      <4> QED
        BY <4>2, <2>1
    <3> QED
      BY <3>2, <3>3
  <2>4. /\ n.call \in 1 .. call'[n.client] /\ n.kind = Script[n.client][n.call].kind
    BY <1>2, <2>2, CurrentCall DEF Kind
  <2>5. ASSUME NEW r \in done'
        PROVE  /\ r.call \in 1 .. call'[r.client] /\ r.kind = Script[r.client][r.call].kind
               /\ r.kind = "read" => ToldOf(r)'
    <3>1. CASE r \in done
      BY <3>1, <1>1
    <3>2. CASE r = n
      BY <3>2, <2>4, <1>2
    <3> QED
      BY <2>1, <2>5, <3>1, <3>2
  <2> QED
    BY <2>3, <2>5 DEF ReturnedIsTold, ToldOf
<1>3. ASSUME NEW c \in Clients, NEW s \in Servers, EndPut(c, s) PROVE ReturnedIsTold'
  <2>1. /\ Return(c, tag[c], Own(c)) /\ call' = call
        /\ pc[c] = WRITE_PUT /\ WRITE_PUT # "idle"
    BY <1>3 DEF EndPut, Receive, WRITE_PUT
  <2>2. PICK n : n = [client |-> c, call |-> call[c], kind |-> Kind(c),
                      tag |-> tag[c], val |-> Own(c), before |-> before[c]]
    OBVIOUS
  <2>3. n.kind = "write"
    BY <2>1, <2>2 DEF KindOfPhase
  <2>4. "write" # "read"
    OBVIOUS
  <2> QED
    BY <2>1, <2>2, <2>3, <2>4, <1>2
<1>4. ASSUME NEW c \in Clients, EndRead(c) PROVE ReturnedIsTold'
  <2>1. PICK e \in Decoded(c) : Return(c, e.tag, e.val)
    BY <1>4 DEF EndRead
  <2>2. call' = call /\ pc[c] = DRAIN /\ DRAIN # "idle"
    BY <1>4 DEF EndRead, DRAIN
  <2>3. PICK t, num : t = e.tag /\ num = Num(c)
    OBVIOUS
  <2>4. PICK P \in SUBSET Servers : /\ P = {x.server : x \in WithTag(c, t)}
                                    /\ Cardinality(P) >= K
    BY <2>1, <2>3, DecodedServers
  <2>5. num \in Nat
    BY <2>2, <2>3, CurrentCall
  <2>6. ASSUME NEW p \in P, NEW s \in Servers PROVE Told(p, s, c, num, t)'
    <3>1. PICK x \in DOMAIN elements[c] : x.tag = t /\ x.server = p
      BY <2>4 DEF WithTag
    <3>2. Told(p, s, c, num, t)
      BY <2>2, <2>3, <2>4, <3>1 DEF SentIsTold
    <3> QED
      BY <2>4, <2>5, <3>2, ToldStays
  <2>7. PICK n : n = [client |-> c, call |-> call[c], kind |-> Kind(c),
                      tag |-> e.tag, val |-> e.val, before |-> before[c]]
    OBVIOUS
  <2>8. n.client = c /\ n.call = call[c] /\ n.tag = t /\ Script[c][call[c]].num = num
    BY <2>3, <2>7 DEF Num
  <2>9. Script[n.client][n.call].num = num
    BY <2>8
  <2>10. ToldOf(n)'
    BY <2>4, <2>6, <2>8, <2>9 DEF ToldOf, Told
  <2> QED
    BY <2>1, <2>2, <2>7, <2>10, <1>2
<1>5. ASSUME done' = done, \A d \in Clients : pc[d] # "idle" => pc'[d] # "idle"
      PROVE  ReturnedIsTold'
  <2>1. ASSUME NEW d \in Clients, NEW k \in 1 .. call'[d], k < call'[d] \/ pc'[d] = "idle"
        PROVE  \E r \in done : Id(r) = <<d, k>>
    <3>1. call[d] \in Nat
      BY DEF Types
    <3>2. Moves(d)
      BY StepMoves
    <3>3. READ_GET # "idle" /\ WRITE_GET # "idle"
      BY DEF READ_GET, WRITE_GET
    <3>4. k \in 1 .. call[d] /\ (k < call[d] \/ pc[d] = "idle")
      BY <1>5, <2>1, <3>1, <3>2, <3>3 DEF Moves
    <3> QED
      BY <3>4 DEF ReturnedIsTold
  <2> QED
    BY <1>1, <1>5, <2>1 DEF ReturnedIsTold, ToldOf
<1> QED
  BY <1>3, <1>4, <1>5, Returns

LEMMA TablesInit == Init => Tables
<1> SUFFICES ASSUME Init PROVE Tables
  OBVIOUS
<1>1. SentIsTold
  <2>1. \A c \in Clients : pc[c] = "idle"
    BY DEF Init
  <2> QED
    BY <2>1 DEF SentIsTold, READ_VALUE, DRAIN
<1>2. ReturnedIsTold
  <2>1. done = {} /\ \A c \in Clients : call[c] = 0
    BY DEF Init
  <2> QED
    BY <2>1 DEF ReturnedIsTold
<1>3. TablesAgree
  <2>1. \A s \in Servers : history[s] = {} /\ \A c \in Clients : readed[s][c] = Absent
    BY DEF Init
  <2> QED
    BY <2>1 DEF TablesAgree
<1> QED
  BY <1>1, <1>2, <1>3 DEF Tables

(***************************************************************************)
(* Every server is told of every element that a reader is shown, those     *)
(* that made the result of a read were sent by K servers, and the three    *)
(* tables of a server agree with each other.                               *)
(***************************************************************************)
THEOREM EveryServerIsTold ==
    ASSUME FreshNums
    PROVE  Spec => []Tables
<1>1. Init => Tables
  BY TablesInit
<1>2. Types /\ Messages /\ Types' /\ Tables /\ [Next]_vars => Tables'
  BY SentIsToldNext, ReturnedIsToldNext, TablesAgreeNext DEF Tables, Messages
<1>3. Spec => [](Types /\ Messages)
  BY MessagesAlways
<1> QED
  BY <1>1, <1>2, <1>3, PTL DEF Spec

---------------------------------------------------------------------------
(* When nothing is under way, the tables hold nothing of a read that has   *)
(* returned.                                                               *)

LEMMA OverEverywhere ==
    ASSUME Types, Tables, NEW c \in Clients, pc[c] = "idle",
           \A p, s \in Servers : toPeer[p][s] = <<>>,
           NEW num, Begun(c, READ_VALUE, num), NEW s \in Servers
    PROVE  Outdated(s, c, num)
<1>1. PICK i \in 1 .. call[c] : Script[c][i].kind = "read" /\ Script[c][i].num = num
  BY DEF Begun, KindOf, READ_VALUE, WRITE_GET, WRITE_PUT
<1>2. PICK r \in done : Id(r) = <<c, i>>
  BY <1>1 DEF Tables, ReturnedIsTold
<1>3. r.client = c /\ r.call = i /\ r.kind = "read"
  BY <1>1, <1>2 DEF Id, Tables, ReturnedIsTold
<1>4. PICK t, P : /\ t = r.tag /\ P \in SUBSET Servers
                  /\ Cardinality(P) >= K
                  /\ \A p \in P : Told(p, s, c, num, t)
  BY <1>1, <1>3 DEF Tables, ReturnedIsTold
<1> SUFFICES ASSUME ~Outdated(s, c, num) PROVE FALSE
  OBVIOUS
<1>5. \A p \in P : [reader |-> c, num |-> num, tag |-> t, sender |-> p] \in history[s]
  BY <1>4 DEF Told
<1>6. PICK his, set : his = history[s] /\ set = historydata_lookup(his, c, num, t)
  OBVIOUS
<1>7. his \in SUBSET History
  BY <1>6 DEF Types
<1>8. IsFiniteSet(set) /\ Cardinality(set) \in Nat
  BY <1>6, <1>7, LookupFinite
<1>9. PICK f : f = [p \in P |-> [reader |-> c, num |-> num, tag |-> t, sender |-> p]]
  OBVIOUS
<1>10. f \in [P -> set] /\ \A p, q \in P : f[p] = f[q] => p = q
  <2>1. \A p \in P : f[p] \in set /\ f[p].sender = p
    BY <1>5, <1>6, <1>9 DEF historydata_lookup
  <2> QED
    BY <2>1, <1>9
<1>11. IsFiniteSet(P) /\ Cardinality(P) \in Nat /\ Cardinality(P) <= Cardinality(set)
  BY <1>8, <1>10, NoMoreThan
<1>12. K \in Nat /\ K > 0
  BY KType
<1>13. PICK p : p \in P
  <2>1. Cardinality(P) # 0
    BY <1>4, <1>11, <1>12
  <2> QED
    BY <2>1, FS_EmptySet
<1>14. PICK h \in history[s] : h.reader = c /\ h.num = num /\ h.tag = t
  BY <1>5, <1>13
<1>15. Cardinality(historydata_lookup(history[s], h.reader, h.num, h.tag)) < K
  BY <1>14 DEF Tables, TablesAgree
<1>16. Cardinality(set) < K
  BY <1>6, <1>14, <1>15
<1> QED
  BY <1>4, <1>8, <1>11, <1>12, <1>16

LEMMA EmptyWhenQuiet ==
    ASSUME Types, OnlyBegun, Tables
    PROVE  TablesEmptied
<1> SUFFICES ASSUME Quiet
             PROVE  /\ history = [s \in Servers |-> {}]
                    /\ reading = [s \in Servers |-> [c \in Clients |-> NotRegistered]]
  BY DEF TablesEmptied
<1>1. /\ \A c \in Clients : pc[c] = "idle"
      /\ \A p, s \in Servers : toPeer[p][s] = <<>>
  BY DEF Quiet
<1>2. ASSUME NEW s \in Servers, NEW c \in Clients PROVE reading[s][c] = NotRegistered
  <2> SUFFICES ASSUME reading[s][c] # NotRegistered PROVE FALSE
    OBVIOUS
  <2>1. PICK num : num = reading[s][c].num
    OBVIOUS
  <2>2. Begun(c, READ_VALUE, num)
    BY <2>1 DEF OnlyBegun
  <2>3. Outdated(s, c, num)
    BY <1>1, <2>2, OverEverywhere
  <2>4. num \in Nat /\ Absent = -1
    BY <2>1, ReadingType
  <2>5. readed[s][c] = Absent
    BY DEF Tables, TablesAgree
  <2> QED
    BY <2>1, <2>3, <2>4, <2>5 DEF Outdated
<1>3. ASSUME NEW s \in Servers, NEW h \in history[s] PROVE FALSE
  <2>1. PICK c, num : c = h.reader /\ num = h.num
    OBVIOUS
  <2>2. c \in Clients /\ num \in Nat
    BY <2>1 DEF Types, History
  <2>3. Begun(c, READ_VALUE, num)
    BY <2>1 DEF OnlyBegun
  <2>4. Outdated(s, c, num)
    BY <1>1, <2>2, <2>3, OverEverywhere
  <2>5. readed[s][c] \in Int /\ readed[s][c] < num
    BY <2>1, <2>2, ReadingType DEF Tables, TablesAgree
  <2>6. reading[s][c].num = -1
    BY <1>2, <2>2, ReadingType
  <2> QED
    BY <2>2, <2>4, <2>5, <2>6 DEF Outdated
<1>4. history = [s \in Servers |-> {}]
  <2>1. history = [s \in Servers |-> history[s]] /\ \A s \in Servers : history[s] = {}
    BY <1>3 DEF Types
  <2> QED
    BY <2>1
<1>5. reading = [s \in Servers |-> [c \in Clients |-> NotRegistered]]
  <2>1. /\ reading = [s \in Servers |-> reading[s]]
        /\ \A s \in Servers : reading[s] = [c \in Clients |-> reading[s][c]]
    BY DEF Types
  <2>2. \A s \in Servers : reading[s] = [c \in Clients |-> NotRegistered]
    BY <1>2, <2>1
  <2> QED
    BY <2>1, <2>2
<1> QED
  BY <1>4, <1>5

(***************************************************************************)
(* When no call is being made, and no request and no dispersal is on its   *)
(* way, no server keeps anything of a read.                                *)
(***************************************************************************)
THEOREM NothingIsKept ==
    ASSUME FreshNums
    PROVE  Spec => []TablesEmptied
<1>1. Types /\ Messages /\ Tables => TablesEmptied
  BY EmptyWhenQuiet DEF Messages
<1>2. Spec => [](Types /\ Messages)
  BY MessagesAlways
<1>3. Spec => []Tables
  BY EveryServerIsTold
<1> QED
  BY <1>1, <1>2, <1>3, PTL
============================================================================
