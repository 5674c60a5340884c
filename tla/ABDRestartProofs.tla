-------------------------- MODULE ABDRestartProofs --------------------------
(***************************************************************************)
(* Proof of what is left of ABD's promises when servers that keep nothing  *)
(* on disk are killed and started again, for every number of servers and   *)
(* of restarts, as long as no operation number is used twice.              *)
(***************************************************************************)
EXTENDS ABDRestart, ABDProofs, SequenceTheorems

USE DEF GET_TAG, GET_TAG_VALUE, WRITE_VALUE, GetPhases, Phases

---------------------------------------------------------------------------
(* A part of a channel. *)

LEMMA Bounds ==
    ASSUME NEW a, NEW n \in Nat, NEW k \in Nat, a \in 0 .. n, a <= k
    PROVE  a \in 0 .. k /\ a + 1 \in 1 .. k + 1
OBVIOUS

LEMMA Ends ==
    ASSUME NEW k \in Nat
    PROVE  k \in 0 .. k /\ 1 \in 1 .. k + 1
OBVIOUS

LEMMA PartOf ==
    ASSUME NEW S, NEW q \in Seq(S), NEW m \in 1 .. Len(q) + 1, NEW n \in 0 .. Len(q),
           NEW phase, NEW num
    PROVE  /\ SubSeq(q, m, n) \in Seq(S)
           /\ Has(SubSeq(q, m, n), phase, num) => Has(q, phase, num)
           /\ AtMostOne(q, phase, num) => AtMostOne(SubSeq(q, m, n), phase, num)
           /\ TagsIn(SubSeq(q, m, n), phase, num) \subseteq TagsIn(q, phase, num)
<1> DEFINE p == SubSeq(q, m, n)
<1>1. Len(q) \in Nat
  OBVIOUS
<1>2. /\ p \in Seq(S)
      /\ Len(p) = IF m <= n THEN n - m + 1 ELSE 0
      /\ \A i \in 1 .. n - m + 1 : p[i] = q[m + i - 1]
  BY <1>1, SubSeqProperties
<1>3. DOMAIN p = 1 .. Len(p) /\ DOMAIN q = 1 .. Len(q)
  BY <1>2
<1> HIDE DEF p
<1>4. \A i \in DOMAIN p : /\ i \in Int
                          /\ m + i - 1 \in DOMAIN q
                          /\ p[i] = q[m + i - 1]
  BY <1>1, <1>2, <1>3, SMTT(30)
<1>5. Has(p, phase, num) => Has(q, phase, num)
  BY <1>4 DEF Has, At
<1>6. ASSUME AtMostOne(q, phase, num) PROVE AtMostOne(p, phase, num)
  <2> SUFFICES ASSUME NEW i \in DOMAIN p, NEW j \in DOMAIN p,
                      At(p, i, phase, num), At(p, j, phase, num)
               PROVE  i = j
    BY DEF AtMostOne
  <2>1. m + i - 1 = m + j - 1
    BY <1>4, <1>6 DEF AtMostOne, At
  <2> QED
    BY <2>1, <1>4
<1>7. TagsIn(p, phase, num) \subseteq TagsIn(q, phase, num)
  BY <1>4 DEF TagsIn, At
<1> QED
  BY <1>2, <1>5, <1>6, <1>7 DEF p

\* What a restart does to the channels of its server, and to nothing else.
LEMMA RestartCuts ==
    ASSUME TypeOK, NEW s \in Servers, Restart(s)
    PROVE  /\ toServer' \in [Clients -> [Servers -> Seq(GetRequest \cup WriteRequest)]]
           /\ toClient' \in [Clients -> [Servers -> Seq(Answer)]]
           /\ \A c \in Clients, r \in Servers : r # s =>
                 toServer'[c][r] = toServer[c][r] /\ toClient'[c][r] = toClient[c][r]
           /\ \A c \in Clients :
                 /\ \E m \in 1 .. Len(toServer[c][s]) + 1 :
                       toServer'[c][s] = SubSeq(toServer[c][s], m, Len(toServer[c][s]))
                 /\ \E n \in 0 .. Len(toClient[c][s]) :
                       toClient'[c][s] = SubSeq(toClient[c][s], 1, n)
<1>1. \A c \in Clients, r \in Servers :
         Len(toServer[c][r]) \in Nat /\ Len(toClient[c][r]) \in Nat
  BY ChannelTypes, SeqLength
<1>2. PICK left \in [Clients -> UNION {0 .. Len(toServer[c][s]) : c \in Clients}] :
         /\ \A c \in Clients : left[c] <= Len(toServer[c][s])
         /\ toServer' = [c \in Clients |->
                           [toServer[c] EXCEPT ![s] = SubSeq(@, left[c] + 1, Len(@))]]
  BY DEF Restart
<1>3. PICK read \in [Clients -> UNION {0 .. Len(toClient[c][s]) : c \in Clients}] :
         /\ \A c \in Clients : read[c] <= Len(toClient[c][s])
         /\ toClient' = [c \in Clients |->
                           [toClient[c] EXCEPT ![s] = SubSeq(@, 1, read[c])]]
  BY DEF Restart
<1>4. \A c \in Clients : /\ left[c] + 1 \in 1 .. Len(toServer[c][s]) + 1
                         /\ read[c] \in 0 .. Len(toClient[c][s])
  <2> TAKE c \in Clients
  <2>1. PICK d \in Clients : left[c] \in 0 .. Len(toServer[d][s])
    BY <1>2
  <2>2. PICK e \in Clients : read[c] \in 0 .. Len(toClient[e][s])
    BY <1>3
  <2>3. /\ Len(toServer[d][s]) \in Nat /\ Len(toServer[c][s]) \in Nat
        /\ Len(toClient[e][s]) \in Nat /\ Len(toClient[c][s]) \in Nat
    BY <1>1
  <2>4. left[c] <= Len(toServer[c][s]) /\ read[c] <= Len(toClient[c][s])
    BY <1>2, <1>3
  <2>5. left[c] + 1 \in 1 .. Len(toServer[c][s]) + 1
    BY <2>1, <2>3, <2>4, Bounds
  <2>6. read[c] \in 0 .. Len(toClient[c][s])
    BY <2>2, <2>3, <2>4, Bounds
  <2> QED
    BY <2>5, <2>6
<1>5. \A c \in Clients : /\ toServer[c] \in [Servers -> Seq(GetRequest \cup WriteRequest)]
                         /\ toClient[c] \in [Servers -> Seq(Answer)]
  BY DEF TypeOK
<1>6. \A c \in Clients :
         /\ SubSeq(toServer[c][s], left[c] + 1, Len(toServer[c][s]))
               \in Seq(GetRequest \cup WriteRequest)
         /\ SubSeq(toClient[c][s], 1, read[c]) \in Seq(Answer)
  <2> TAKE c \in Clients
  <2>1. /\ toServer[c][s] \in Seq(GetRequest \cup WriteRequest)
        /\ toClient[c][s] \in Seq(Answer)
    BY ChannelTypes
  <2>2. Len(toServer[c][s]) \in Nat /\ Len(toClient[c][s]) \in Nat
    BY <1>1
  <2>3. /\ Len(toServer[c][s]) \in 0 .. Len(toServer[c][s])
        /\ 1 \in 1 .. Len(toClient[c][s]) + 1
    BY <2>2, Ends
  <2> QED
    BY <2>1, <2>3, <1>4, PartOf
<1>7. /\ toServer' \in [Clients -> [Servers -> Seq(GetRequest \cup WriteRequest)]]
      /\ \A c \in Clients :
            /\ \A r \in Servers : r # s => toServer'[c][r] = toServer[c][r]
            /\ toServer'[c][s] = SubSeq(toServer[c][s], left[c] + 1, Len(toServer[c][s]))
  BY <1>2, <1>5, <1>6
<1>8. /\ toClient' \in [Clients -> [Servers -> Seq(Answer)]]
      /\ \A c \in Clients :
            /\ \A r \in Servers : r # s => toClient'[c][r] = toClient[c][r]
            /\ toClient'[c][s] = SubSeq(toClient[c][s], 1, read[c])
  BY <1>3, <1>5, <1>6
<1> QED
  BY <1>4, <1>7, <1>8

\* A restart loses messages and makes none.
LEMMA RestartLoses ==
    ASSUME TypeOK, NEW s \in Servers, Restart(s)
    PROVE  \A c \in Clients, r \in Servers : \A phase, num :
              /\ Has(toServer'[c][r], phase, num) => Has(toServer[c][r], phase, num)
              /\ Has(toClient'[c][r], phase, num) => Has(toClient[c][r], phase, num)
              /\ AtMostOne(toServer[c][r], phase, num)
                    => AtMostOne(toServer'[c][r], phase, num)
              /\ AtMostOne(toClient[c][r], phase, num)
                    => AtMostOne(toClient'[c][r], phase, num)
              /\ TagsIn(toServer'[c][r], phase, num)
                    \subseteq TagsIn(toServer[c][r], phase, num)
<1> TAKE c \in Clients, r \in Servers
<1> TAKE phase, num
<1>1. CASE r # s
  BY <1>1, RestartCuts
<1>2. CASE r = s
  <2>1. PICK m \in 1 .. Len(toServer[c][s]) + 1 :
           toServer'[c][s] = SubSeq(toServer[c][s], m, Len(toServer[c][s]))
    BY RestartCuts
  <2>2. PICK n \in 0 .. Len(toClient[c][s]) :
           toClient'[c][s] = SubSeq(toClient[c][s], 1, n)
    BY RestartCuts
  <2>3. /\ toServer[c][s] \in Seq(GetRequest \cup WriteRequest)
        /\ toClient[c][s] \in Seq(Answer)
    BY ChannelTypes
  <2>4. /\ Len(toServer[c][s]) \in 0 .. Len(toServer[c][s])
        /\ 1 \in 1 .. Len(toClient[c][s]) + 1
    BY <2>3, SeqLength, Ends
  <2>5. /\ Has(toServer'[c][s], phase, num) => Has(toServer[c][s], phase, num)
        /\ AtMostOne(toServer[c][s], phase, num) => AtMostOne(toServer'[c][s], phase, num)
        /\ TagsIn(toServer'[c][s], phase, num) \subseteq TagsIn(toServer[c][s], phase, num)
    BY <2>1, <2>3, <2>4, PartOf, SMTT(30)
  <2>6. /\ Has(toClient'[c][s], phase, num) => Has(toClient[c][s], phase, num)
        /\ AtMostOne(toClient[c][s], phase, num) => AtMostOne(toClient'[c][s], phase, num)
    BY <2>2, <2>3, <2>4, PartOf, SMTT(30)
  <2> QED
    BY <1>2, <2>5, <2>6
<1> QED
  BY <1>1, <1>2


---------------------------------------------------------------------------
(* A restart. *)

LEMMA TypeRestart ==
    ASSUME TypeOK, NEW s \in Servers, Restart(s)
    PROVE  TypeOK'
<1>1. /\ toServer' \in [Clients -> [Servers -> Seq(GetRequest \cup WriteRequest)]]
      /\ toClient' \in [Clients -> [Servers -> Seq(Answer)]]
  BY RestartCuts
<1>2. store' \in [Servers -> Object \cup {NoObject}] /\ UNCHANGED clientVars
  BY DEF Restart, TypeOK
<1> QED
  BY <1>1, <1>2 DEF TypeOK, clientVars

\* A client may now wait in vain, but has counted nobody twice.
LEMMA MessagesRestart ==
    ASSUME TypeOK, MessagesBut, NEW s \in Servers, Restart(s)
    PROVE  MessagesBut'
<1>1. UNCHANGED <<alive, call, pc, responses>>
  BY DEF Restart, clientVars
<1>2. \A c \in Clients : Num(c)' = Num(c)
  BY <1>1 DEF Num
<1>3. \A c \in Clients, r \in Servers : \A phase, num :
         OnTheWay(c, r, phase, num)' => OnTheWay(c, r, phase, num)
  BY RestartLoses DEF OnTheWay
<1>4. NoneOfLaterCalls' /\ NoneOfSecondPhase'
  BY <1>1, <1>3, NoneKept DEF MessagesBut, OneMessage
<1>5. OneOfThisPhase'
  <2> SUFFICES ASSUME NEW c \in alive, NEW r \in Servers, pc[c] # "idle"
               PROVE  OneAtMost(c, r)'
    BY <1>1 DEF OneOfThisPhase
  <2>1. OneAtMost(c, r) /\ c \in Clients
    BY DEF MessagesBut, OneMessage, OneOfThisPhase, TypeOK
  <2> QED
    BY <2>1, <1>1, <1>2, RestartLoses DEF OneAtMost
<1>6. CountsNoMore'
  <2> SUFFICES ASSUME NEW c \in alive, pc[c] # "idle"
               PROVE  responses[c] <= Cardinality(Answered(c)')
    BY <1>1 DEF CountsNoMore
  <2>1. c \in Clients /\ responses[c] <= Cardinality(Answered(c))
    BY DEF MessagesBut, CountsNoMore, TypeOK
  <2>2. Answered(c)' = {r \in Servers : /\ ~Has(toServer'[c][r], pc[c], Num(c))
                                        /\ ~Has(toClient'[c][r], pc[c], Num(c))}
    BY <1>1, <1>2, <2>1 DEF Answered, Counts, Has, At
  <2>3. Answered(c) \subseteq Answered(c)' /\ Answered(c)' \subseteq Servers
    BY <2>1, <2>2, RestartLoses, AnsweredServers DEF OnTheWay
  <2>4. /\ IsFiniteSet(Answered(c)') /\ Cardinality(Answered(c)') \in Nat
        /\ Cardinality(Answered(c)) <= Cardinality(Answered(c)')
    BY <2>3, CallsAssumption, FS_Subset, FS_CardinalityType
  <2>5. Cardinality(Answered(c)) \in Nat /\ responses[c] \in Int
    BY <2>1, AnsweredFinite, MajorityOfServers DEF TypeOK
  <2> QED
    BY <2>1, <2>4, <2>5
<1> QED
  BY <1>4, <1>5, <1>6 DEF MessagesBut, OneMessage

ForgotOK == forgot \in [Servers -> SUBSET CallId]

LEMMA ForgotRestart ==
    ASSUME TypeOK, ForgotOK, NEW s \in Servers, Restart(s)
    PROVE  /\ ForgotOK'
           /\ \A r \in Servers : forgot[r] \subseteq forgot'[r]
           /\ \A r \in Servers : r # s => forgot'[r] = forgot[r] /\ Stored(r)' = Stored(r)
           /\ Wrote \subseteq forgot'[s]
<1>1. Wrote \subseteq CallId
  <2>1. \A c \in Clients : <<c, call[c]>> \in CallId
    BY DEF TypeOK, CallId
  <2>2. \A r \in done : Id(r) \in CallId
    BY DEF TypeOK, Result, CallId, Id
  <2> QED
    BY <2>1, <2>2 DEF Wrote, Sending
<1>2. forgot' = [forgot EXCEPT ![s] = @ \cup Wrote] /\ store' = [store EXCEPT ![s] = NoObject]
  BY DEF Restart
<1>3. \A r \in Servers : r # s => Stored(r)' = Stored(r)
  BY <1>2 DEF Stored, TypeOK
<1> QED
  BY <1>1, <1>2, <1>3 DEF ForgotOK

\* What the server loses, it loses of calls that are noted as forgotten.
LEMMA FreshnessRestart ==
    ASSUME TypeOK, ForgotOK, FreshnessBut(forgot), NEW s \in Servers, Restart(s)
    PROVE  FreshnessBut(forgot)'
<1>1. UNCHANGED <<alive, call, pc, tag, before, done>>
  BY DEF Restart, clientVars
<1>2. /\ \A r \in Servers : forgot[r] \subseteq forgot'[r]
      /\ \A r \in Servers : r # s => forgot'[r] = forgot[r] /\ Stored(r)' = Stored(r)
  BY ForgotRestart
<1>3. /\ \A x \in done : Id(x) \in forgot'[s]
      /\ \A c \in Clients : pc[c] = WRITE_VALUE => <<c, call[c]>> \in forgot'[s]
  BY ForgotRestart DEF Wrote, Sending
<1>4. \A c \in Clients : Num(c)' = Num(c) /\ Kind(c)' = Kind(c)
  BY <1>1 DEF Num, Kind
<1>5. Recorded'
  BY <1>1 DEF FreshnessBut, Recorded, Ids
<1>6. DoneIsHeld(forgot)'
  <2> SUFFICES ASSUME NEW x \in done PROVE Held(Id(x), x.tag, forgot)'
    BY <1>1 DEF DoneIsHeld
  <2>1. PICK Q \in SUBSET Servers :
           /\ Cardinality(Q) >= Majority(Cardinality(Servers))
           /\ \A r \in Q : Newer(Stored(r).tag, x.tag) \/ Id(x) \in forgot[r]
    BY DEF FreshnessBut, DoneIsHeld, Held
  <2>2. \A r \in Q : Newer(Stored(r)'.tag, x.tag) \/ Id(x) \in forgot'[r]
    BY <2>1, <1>2, <1>3
  <2> QED
    BY <2>1, <2>2 DEF Held
<1>7. WrittenIsKept(forgot)'
  <2> SUFFICES ASSUME NEW c \in alive, NEW r \in Servers, pc[c] = WRITE_VALUE
               PROVE  /\ TagsIn(toServer'[c][r], WRITE_VALUE, Num(c)) \subseteq {tag[c]}
                      /\ ~Has(toServer'[c][r], WRITE_VALUE, Num(c)) =>
                            \/ Newer(Stored(r)'.tag, tag[c])
                            \/ <<c, call[c]>> \in forgot'[r]
    BY <1>1, <1>4, ZenonT(60) DEF WrittenIsKept, TypeOK
  <2>1. /\ c \in Clients
        /\ TagsIn(toServer[c][r], WRITE_VALUE, Num(c)) \subseteq {tag[c]}
        /\ ~Has(toServer[c][r], WRITE_VALUE, Num(c)) =>
              Newer(Stored(r).tag, tag[c]) \/ <<c, call[c]>> \in forgot[r]
    BY DEF FreshnessBut, WrittenIsKept, TypeOK
  <2>2. TagsIn(toServer'[c][r], WRITE_VALUE, Num(c)) \subseteq {tag[c]}
    BY <2>1, RestartLoses
  <2>3. CASE r = s
    BY <2>1, <2>2, <2>3, <1>3
  <2>4. CASE r # s
    BY <2>1, <2>4, <1>2, RestartCuts
  <2> QED
    BY <2>3, <2>4
<1>8. GetsReport(forgot)'
  <2> SUFFICES ASSUME NEW c \in alive, NEW x \in done,
                      pc[c] \in GetPhases, Id(x) \in before[c]
               PROVE  Reported(c, x, forgot)'
    BY <1>1 DEF GetsReport
  <2>1. c \in Clients
    BY DEF TypeOK
  <2>2. PICK Q \in SUBSET Servers :
           /\ Cardinality(Q) >= Majority(Cardinality(Servers))
           /\ \A r \in Q : Reports(c, r, x.tag) \/ Id(x) \in forgot[r]
    BY DEF FreshnessBut, GetsReport, Reported
  <2>3. ASSUME NEW r \in Q PROVE Reports(c, r, x.tag)' \/ Id(x) \in forgot'[r]
    <3>1. CASE r = s
      BY <3>1, <1>3
    <3>2. CASE r # s
      <4>1. toServer'[c][r] = toServer[c][r] /\ toClient'[c][r] = toClient[c][r]
        BY <3>2, <2>1, RestartCuts
      <4>2. r \in Answered(c)' <=> r \in Answered(c)
        BY <4>1, <2>1, <1>1, <1>4 DEF Answered, Counts
      <4>3. Reports(c, r, x.tag) => Reports(c, r, x.tag)'
        BY <3>2, <4>1, <4>2, <2>1, <1>1, <1>2, <1>4 DEF Reports
      <4> QED
        BY <4>3, <2>2, <1>2
    <3> QED
      BY <3>1, <3>2
  <2> QED
    BY <2>2, <2>3 DEF Reported
<1>9. ASSUME NEW x, Remembered(x, forgot') PROVE Remembered(x, forgot)
  <2> DEFINE old == {r \in Servers : x \in forgot[r]}
             new == {r \in Servers : x \in forgot'[r]}
  <2>1. old \subseteq new /\ new \subseteq Servers
    BY <1>2
  <2>2. IsFiniteSet(new) /\ IsFiniteSet(old) /\ Cardinality(old) <= Cardinality(new)
    BY <2>1, CallsAssumption, FS_Subset
  <2>3. Cardinality(new) \in Nat /\ Cardinality(old) \in Nat /\ Common \in Int
    BY <2>2, FS_CardinalityType, ServersFinite, MajorityOfServers DEF Common
  <2> HIDE DEF old, new
  <2>4. Cardinality(new) < Common => Cardinality(old) < Common
    BY <2>2, <2>3
  <2> QED
    BY <2>4, <1>9 DEF Remembered, old, new
<1>10. ChosenExceeds(forgot)'
  BY <1>1, <1>4, <1>9 DEF FreshnessBut, ChosenExceeds, TypeOK
<1> QED
  BY <1>5, <1>6, <1>7, <1>8, <1>10 DEF FreshnessBut


---------------------------------------------------------------------------
(* The steps of ABD, during which nothing is forgotten. *)

LEMMA MessagesButNext ==
    ASSUME FreshNums, TypeOK, TypeOK', MessagesBut, [Next]_vars
    PROVE  MessagesBut'
<1>1. OneMessage' /\ \A c \in alive' : pc'[c] # "idle" => CountsAlong(c)
  BY OneMessageNext DEF MessagesBut
<1>2. CountsNoMore'
  <2> SUFFICES ASSUME NEW c \in alive', pc'[c] # "idle"
               PROVE  responses'[c] <= Cardinality(Answered(c)')
    BY DEF CountsNoMore
  <2>1. CASE responses'[c] = 0 /\ Cardinality(Answered(c)') = 0
    BY <2>1
  <2>2. CASE /\ pc[c] # "idle" /\ c \in alive
             /\ \E k \in {0, 1} :
                   /\ responses'[c] = responses[c] + k
                   /\ Cardinality(Answered(c)') = Cardinality(Answered(c)) + k
    <3>1. c \in Clients /\ responses[c] <= Cardinality(Answered(c))
      BY <2>2 DEF MessagesBut, CountsNoMore, TypeOK
    <3>2. Cardinality(Answered(c)) \in Nat /\ responses[c] \in Int
      BY <3>1, AnsweredFinite, MajorityOfServers DEF TypeOK
    <3> QED
      BY <2>2, <3>1, <3>2
  <2> QED
    BY <1>1, <2>1, <2>2 DEF CountsAlong
<1> QED
  BY <1>1, <1>2 DEF MessagesBut

LEMMA FreshnessButNext ==
    ASSUME TypeOK, TypeOK', MessagesBut, FreshnessBut(forgot), [Next]_vars,
           forgot' = forgot
    PROVE  FreshnessBut(forgot)'
<1> SUFFICES ASSUME NEW f, f = forgot
             PROVE  FreshnessBut(forgot)'
  OBVIOUS
<1>1. FreshnessBut(f)
  OBVIOUS
<1>2. FreshnessBut(f)'
  BY <1>1, FreshnessNext
<1>3. forgot' = f
  OBVIOUS
<1> QED
  BY <1>2, <1>3 DEF FreshnessBut, DoneIsHeld, Held, WrittenIsKept, GetsReport, Reported,
                    ChosenExceeds, Remembered

---------------------------------------------------------------------------
(* The invariant and what follows. *)

RestartInv == TypeOK /\ ForgotOK /\ MessagesBut /\ FreshnessButForgot

LEMMA RestartInvInit == InitRestart => RestartInv
<1> SUFFICES ASSUME InitRestart PROVE RestartInv
  OBVIOUS
<1>1. Init /\ ForgotOK
  BY DEF InitRestart, ForgotOK
<1>2. TypeOK /\ Messages
  BY <1>1, TypeInit, MessagesInit
<1>3. MessagesBut
  BY <1>1, <1>2 DEF Init, Messages, MessagesBut, CountsNoMore
<1>4. FreshnessButForgot
  BY <1>1 DEF Init, FreshnessButForgot, FreshnessBut, Recorded, DoneIsHeld, WrittenIsKept,
              GetsReport, ChosenExceeds
<1> QED
  BY <1>1, <1>2, <1>3, <1>4 DEF RestartInv

LEMMA RestartInvNext ==
    ASSUME FreshNums, RestartInv, [NextRestart]_allVars
    PROVE  RestartInv'
<1> USE DEF RestartInv, FreshnessButForgot
<1>1. ASSUME [Next]_vars, forgot' = forgot PROVE RestartInv'
  <2>1. TypeOK'
    BY <1>1, TypeNext
  <2>2. MessagesBut' /\ FreshnessBut(forgot)'
    BY <1>1, <2>1, MessagesButNext, FreshnessButNext
  <2> QED
    BY <1>1, <2>1, <2>2 DEF ForgotOK
<1>2. ASSUME NEW s \in Servers, Restart(s) PROVE RestartInv'
  BY <1>2, TypeRestart, MessagesRestart, ForgotRestart, FreshnessRestart
<1> QED
  BY <1>1, <1>2 DEF NextRestart, allVars

LEMMA RestartInvAlways ==
    ASSUME FreshNums
    PROVE  SpecRestart => []RestartInv
BY RestartInvInit, RestartInvNext, PTL DEF SpecRestart

(***************************************************************************)
(* A server has at most one message of a client's phase, the request or    *)
(* its reply, and the client has counted no more replies than servers that *)
(* have none: a message lost by a restart makes it wait, never miscount.   *)
(***************************************************************************)
THEOREM RestartsAreNotCounted ==
    ASSUME FreshNums
    PROVE  SpecRestart => []MessagesBut
<1>1. RestartInv => MessagesBut
  BY DEF RestartInv
<1> QED
  BY <1>1, RestartInvAlways, PTL

(***************************************************************************)
(* What has returned is held by a majority, those servers counted in that  *)
(* were started again since it began to write; a client in its first phase *)
(* is told of it by a majority, with the same exception.                   *)
(***************************************************************************)
THEOREM OnlyForgottenIsMissed ==
    ASSUME FreshNums
    PROVE  SpecRestart => []FreshnessButForgot
<1>1. RestartInv => FreshnessButForgot
  BY DEF RestartInv
<1> QED
  BY <1>1, RestartInvAlways, PTL

(***************************************************************************)
(* Where strcmp returns -1, 0 or 1: what a call returned or wrote is at a  *)
(* majority of the servers, the forgetful ones counted in.                 *)
(***************************************************************************)
THEOREM ResultsHeldButForRestarts ==
    ASSUME FreshNums, UnitStrCmp
    PROVE  SpecRestart => []HeldButForRestarts
<1>1. ASSUME RestartInv PROVE HeldButForRestarts
  <2> SUFFICES ASSUME NEW r \in done
               PROVE  Cardinality(Holders(r.tag) \cup Forgetful(r))
                        >= Majority(Cardinality(Servers))
    BY DEF HeldButForRestarts
  <2> DEFINE H == Holders(r.tag) \cup Forgetful(r)
  <2>1. PICK Q \in SUBSET Servers :
           /\ Cardinality(Q) >= Majority(Cardinality(Servers))
           /\ \A s \in Q : Newer(Stored(s).tag, r.tag) \/ Id(r) \in forgot[s]
    BY <1>1 DEF RestartInv, FreshnessButForgot, FreshnessBut, DoneIsHeld, Held
  <2>2. Q \subseteq H /\ H \subseteq Servers
    BY <2>1 DEF Holders, Forgetful, Newer
  <2>3. IsFiniteSet(Q) /\ IsFiniteSet(H) /\ Cardinality(Q) <= Cardinality(H)
    BY <2>2, CallsAssumption, FS_Subset
  <2>4. Cardinality(Q) \in Nat /\ Cardinality(H) \in Nat
    BY <2>3, FS_CardinalityType
  <2> QED
    BY <2>1, <2>3, <2>4, MajorityOfServers
<1> QED
  BY <1>1, RestartInvAlways, PTL

(***************************************************************************)
(* Where strcmp returns -1, 0 or 1: no call misses an earlier one whose    *)
(* tag fewer servers may have forgotten than two majorities have in        *)
(* common, however often the servers are started again.                    *)
(***************************************************************************)
THEOREM FewRestartsAreTolerated ==
    ASSUME FreshNums, UnitStrCmp
    PROVE  SpecRestart => []RestartsTolerated
<1>1. ASSUME RestartInv PROVE RestartsTolerated
  <2> SUFFICES ASSUME NEW x \in done, NEW r \in done, Precedes(x, r),
                      Cardinality(Forgetful(x)) < Common
               PROVE  IF r.kind = "write" THEN x.tag.z < r.tag.z ELSE AtLeast(r.tag, x.tag)
    BY DEF RestartsTolerated
  <2>1. Remembered(Id(x), forgot)
    BY DEF Remembered, Forgetful
  <2>2. Exceeds(r.kind, r.tag, x.tag)
    BY <1>1, <2>1 DEF RestartInv, FreshnessButForgot, FreshnessBut, ChosenExceeds
  <2>3. x.tag.z \in Int /\ r.tag.z \in Int
    BY <1>1, KnownTags DEF RestartInv, Tag
  <2> QED
    BY <2>2, <2>3 DEF Exceeds, Newer
<1> QED
  BY <1>1, RestartInvAlways, PTL
=============================================================================
