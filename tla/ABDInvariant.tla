---------------------------- MODULE ABDInvariant ----------------------------
(***************************************************************************)
(* Why the clients of ABD may count messages instead of servers: an        *)
(* invariant about the messages under way, as long as no client uses an    *)
(* operation number twice.                                                 *)
(***************************************************************************)
EXTENDS ABD

\* No client passes the same operation number to two of its calls.
FreshNums ==
    \A c \in Clients : \A i, j \in 1 .. Len(Script[c]) :
       Script[c][i].num = Script[c][j].num => i = j

\* The messages of a phase of operation num in the channel q.
At(q, i, phase, num) == q[i].phase = phase /\ q[i].num = num
Has(q, phase, num)   == \E i \in DOMAIN q : At(q, i, phase, num)
AtMostOne(q, phase, num) ==
    \A i, j \in DOMAIN q : At(q, i, phase, num) /\ At(q, j, phase, num) => i = j

\* A request of c to s or the reply to it, not read by c yet.
OnTheWay(c, s, phase, num) ==
    Has(toServer[c][s], phase, num) \/ Has(toClient[c][s], phase, num)

(***************************************************************************)
(* No message of a call that has not begun is under way.                   *)
(***************************************************************************)
NoneOfLaterCalls ==
    \A c \in Clients, s \in Servers, phase \in Phases :
       \A k \in call[c] + 1 .. Len(Script[c]) : ~OnTheWay(c, s, phase, Script[c][k].num)

(***************************************************************************)
(* No message of a call's second phase is under way during its first.      *)
(***************************************************************************)
NoneOfSecondPhase ==
    \A c \in Clients, s \in Servers :
       pc[c] \in GetPhases => ~OnTheWay(c, s, WRITE_VALUE, Num(c))

(***************************************************************************)
(* Each server has at most one message of the phase a client is in: the    *)
(* request still, or the reply to it, or neither once it was counted.      *)
(***************************************************************************)
OneAtMost(c, s) ==
    /\ AtMostOne(toServer[c][s], pc[c], Num(c))
    /\ AtMostOne(toClient[c][s], pc[c], Num(c))
    /\ ~(Has(toServer[c][s], pc[c], Num(c)) /\ Has(toClient[c][s], pc[c], Num(c)))

OneOfThisPhase ==
    \A c \in alive, s \in Servers : pc[c] # "idle" => OneAtMost(c, s)

OneMessage == NoneOfLaterCalls /\ NoneOfSecondPhase /\ OneOfThisPhase

Messages == OneMessage /\ CountsServers

\* Where messages may be lost, a server that has none under way may not be counted.
CountsNoMore ==
    \A c \in alive : pc[c] # "idle" => responses[c] <= Cardinality(Answered(c))

MessagesBut == OneMessage /\ CountsNoMore

---------------------------------------------------------------------------
(***************************************************************************)
(* lost[s] are the calls whose tags server s may have lost.  No server of  *)
(* ABD loses anything; those of ABDRestart do.                             *)
(***************************************************************************)
NothingLost == [s \in Servers |-> {}]

\* A majority of the servers keeps a tag as new as t of call x, or has lost it.
Held(x, t, lost) ==
    \E Q \in SUBSET Servers :
       /\ Cardinality(Q) >= Majority(Cardinality(Servers))
       /\ \A s \in Q : Newer(Stored(s).tag, t) \/ x \in lost[s]

(***************************************************************************)
(* Two majorities have at least 2 * Majority - N servers in common.  A     *)
(* call can be missed only once that many have lost it.                    *)
(***************************************************************************)
Common == 2 * Majority(Cardinality(Servers)) - Cardinality(Servers)

Remembered(x, lost) == Cardinality({s \in Servers : x \in lost[s]}) < Common

(***************************************************************************)
(* Each call is recorded once, when it is over, and before each call only  *)
(* recorded calls.                                                         *)
(***************************************************************************)
Ids == {Id(r) : r \in done}

Recorded ==
    /\ \A c \in Clients : before[c] \subseteq Ids
    /\ \A r \in done : /\ r.before \subseteq Ids
                       /\ r.call <= call[r.client]
                       /\ r.call = call[r.client] => pc[r.client] = "idle"

\* What has returned is held.
DoneIsHeld(lost) == \A r \in done : Held(Id(r), r.tag, lost)

\* The tags that the messages of a phase of operation num carry in the channel q.
TagsIn(q, phase, num) ==
    {q[i].tag : i \in {j \in DOMAIN q : At(q, j, phase, num)}}

(***************************************************************************)
(* A request to write carries the tag its client writes; the servers that  *)
(* have handled it keep a tag as new as that, or have lost it.             *)
(***************************************************************************)
WrittenIsKept(lost) ==
    \A c \in alive, s \in Servers : pc[c] = WRITE_VALUE =>
       /\ TagsIn(toServer[c][s], WRITE_VALUE, Num(c)) \subseteq {tag[c]}
       /\ ~Has(toServer[c][s], WRITE_VALUE, Num(c)) =>
             Newer(Stored(s).tag, tag[c]) \/ <<c, call[c]>> \in lost[s]

(***************************************************************************)
(* During a get phase of c, a majority keeps the tag t of a call that had  *)
(* returned before, and the replies of that majority, under way or counted *)
(* in the running maximum, are as new as t; those that have lost it aside. *)
(***************************************************************************)
Reports(c, s, t) ==
    /\ Newer(Stored(s).tag, t)
    /\ \A u \in TagsIn(toClient[c][s], pc[c], Num(c)) : Newer(u, t)
    /\ s \in Answered(c) => Newer(tag[c], t)

Reported(c, x, lost) ==
    \E Q \in SUBSET Servers :
       /\ Cardinality(Q) >= Majority(Cardinality(Servers))
       /\ \A s \in Q : Reports(c, s, x.tag) \/ Id(x) \in lost[s]

GetsReport(lost) ==
    \A c \in alive, x \in done :
       pc[c] \in GetPhases /\ Id(x) \in before[c] => Reported(c, x, lost)

(***************************************************************************)
(* The tag a client is writing exceeds those of the calls that had         *)
(* returned when its call began, and so does the tag of each result.       *)
(***************************************************************************)
ChosenExceeds(lost) ==
    /\ \A c \in alive, x \in done :
          pc[c] = WRITE_VALUE /\ Id(x) \in before[c] /\ Remembered(Id(x), lost)
             => Exceeds(Kind(c), tag[c], x.tag)
    /\ \A x, r \in done :
          Precedes(x, r) /\ Remembered(Id(x), lost) => Exceeds(r.kind, r.tag, x.tag)

FreshnessBut(lost) ==
    /\ Recorded /\ DoneIsHeld(lost) /\ WrittenIsKept(lost)
    /\ GetsReport(lost) /\ ChosenExceeds(lost)

Freshness == FreshnessBut(NothingLost)

---------------------------------------------------------------------------
(***************************************************************************)
(* Why a tag stands for one value.  A call has one result, and what a      *)
(* client is doing comes after all that it has done.                       *)
(***************************************************************************)
OneResult ==
    /\ \A x, r \in done : Id(x) = Id(r) => x = r
    /\ \A x \in done : pc[x.client] # "idle" => Id(x) \in before[x.client]

KindOfPhase ==
    \A c \in Clients : /\ pc[c] = GET_TAG => Kind(c) = "write"
                       /\ pc[c] = GET_TAG_VALUE => Kind(c) = "read"

\* A write writes its own payload, under a tag with the name of its client.
WritesOwn ==
    /\ \A c \in Clients : pc[c] # "idle" /\ Kind(c) = "write" =>
          /\ val[c] = <<c, call[c]>>
          /\ pc[c] = WRITE_VALUE => IsOwn(c, tag[c])
    /\ \A r \in done : r.kind = "write" =>
          r.val = Id(r) /\ r.call > 0 /\ IsOwn(r.client, r.tag)

\* The counters of the writes of one client grow.
OwnTagsGrow ==
    /\ \A c \in Clients, x \in done :
          pc[c] = WRITE_VALUE /\ Kind(c) = "write" /\ x.client = c => x.tag.z < tag[c].z
    /\ \A x, r \in done :
          x.client = r.client /\ x.call < r.call /\ r.kind = "write" => x.tag.z < r.tag.z

\* The messages of a phase in the channel q carry nothing but what is in S.
CarriesOnly(q, phase, S) ==
    \A i \in DOMAIN q : q[i].phase = phase => [tag |-> q[i].tag, val |-> q[i].val] \in S

(***************************************************************************)
(* No server, message or client has a tagged value that no write chose.    *)
(***************************************************************************)
OnlyChosen ==
    /\ \A s \in Servers : Stored(s) \in Chosen
    /\ \A c \in Clients, s \in Servers :
          /\ CarriesOnly(toServer[c][s], WRITE_VALUE, Chosen)
          /\ CarriesOnly(toClient[c][s], GET_TAG_VALUE, Chosen)
    /\ \A c \in Clients : pc[c] # "idle" /\ Kind(c) = "read" =>
          \/ pc[c] = GET_TAG_VALUE /\ tag[c] = NoTag
          \/ [tag |-> tag[c], val |-> val[c]] \in Chosen
    /\ \A r \in done : [tag |-> r.tag, val |-> r.val] \in Chosen

Tagged == OneResult /\ KindOfPhase /\ WritesOwn /\ OwnTagsGrow /\ OnlyChosen
=============================================================================
