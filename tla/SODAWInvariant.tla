--------------------------- MODULE SODAWInvariant ---------------------------
(***************************************************************************)
(* Why a reader of SODAW collects elements of different servers, why a     *)
(* server that forgets a reader may, why the tables empty, why tags do not *)
(* go back and why each of them stands for one value: invariants about the *)
(* messages under way, the tables of the servers and what they store.      *)
(***************************************************************************)
EXTENDS SODAW

\* No client passes the same operation number to two of its reads or writes.
FreshNums ==
    \A c \in Clients : \A i, j \in 1 .. Len(Script[c]) :
       Script[c][i] = Script[c][j] => i = j

\* A reader numbers its reads upwards.
ReadsGrow ==
    \A c \in Clients : \A i, j \in 1 .. Len(Script[c]) :
       i < j /\ Script[c][i].kind = "read" /\ Script[c][j].kind = "read"
          => Script[c][i].num < Script[c][j].num

---------------------------------------------------------------------------
\* The phases of a call, and where its client is once one of them has begun.
KindOf(phase) == IF phase \in {WRITE_GET, WRITE_PUT} THEN "write" ELSE "read"

From(phase) ==
    CASE phase = WRITE_PUT     -> {WRITE_PUT, "idle"}
      [] phase = READ_VALUE    -> {READ_VALUE, DRAIN, "idle"}
      [] phase = READ_COMPLETE -> {"idle"}
      [] OTHER                 -> Phases \cup {DRAIN, "idle"}

\* The client c has begun the phase of an operation num.
Begun(c, phase, num) ==
    \E i \in 1 .. call[c] : /\ Script[c][i].kind = KindOf(phase)
                            /\ Script[c][i].num = num
                            /\ i < call[c] \/ pc[c] \in From(phase)

(***************************************************************************)
(* No message is under way, and no table has an entry, of a phase that has *)
(* not begun.                                                              *)
(***************************************************************************)
OnlyBegun ==
    /\ \A c \in Clients, s \in Servers :
          /\ \A i \in DOMAIN toServer[c][s] :
                Begun(c, toServer[c][s][i].phase, toServer[c][s][i].num)
          /\ \A i \in DOMAIN toClient[c][s] :
                Begun(c, toClient[c][s][i].phase, toClient[c][s][i].num)
          /\ reading[s][c] # NotRegistered => Begun(c, READ_VALUE, reading[s][c].num)
          /\ readed[s][c] # Absent => Begun(c, READ_VALUE, readed[s][c])
    /\ \A s \in Servers : \A h \in history[s] : Begun(h.reader, READ_VALUE, h.num)
    /\ \A p, s \in Servers : \A i \in DOMAIN toPeer[p][s] :
          Begun(toPeer[p][s][i].reader, READ_VALUE, toPeer[p][s][i].num)

KindOfPhase ==
    \A c \in Clients : pc[c] # "idle" =>
       Kind(c) = IF pc[c] \in {WRITE_GET, WRITE_PUT} THEN "write" ELSE "read"

---------------------------------------------------------------------------
\* The messages of M in the channel q.
Has(q, M)       == \E i \in DOMAIN q : q[i] \in M
AtMostOne(q, M) == \A i, j \in DOMAIN q : q[i] \in M /\ q[j] \in M => i = j

Of(phase, num)  == {m \in Request \cup Answer : m.phase = phase /\ m.num = num}

(***************************************************************************)
(* In the phases that count replies, each server has at most one message   *)
(* of the phase: the request, or the reply, or neither when the reply was  *)
(* counted.                                                                *)
(***************************************************************************)
Counting == GetPhases \cup {WRITE_PUT}

OneAtMost(c, s, M) ==
    /\ AtMostOne(toServer[c][s], M)
    /\ AtMostOne(toClient[c][s], M)
    /\ ~(Has(toServer[c][s], M) /\ Has(toClient[c][s], M))

Answered(c) ==
    {s \in Servers : /\ ~Has(toServer[c][s], Of(pc[c], Num(c)))
                     /\ ~Has(toClient[c][s], Of(pc[c], Num(c)))}

OnePerServer ==
    \A c \in alive : pc[c] \in Counting =>
       /\ \A s \in Servers : OneAtMost(c, s, Of(pc[c], Num(c)))
       /\ responses[c] = Cardinality(Answered(c))

(***************************************************************************)
(* A server has been asked at most once for the elements of a read, sends  *)
(* none before it is asked, and none that is older than the tag asked for. *)
(* It sends no two with the same tag: each is newer than those before.     *)
(***************************************************************************)
Asked(c, s) ==
    LET M == Of(READ_VALUE, Num(c))
    IN  /\ AtMostOne(toServer[c][s], M)
        /\ \A i \in DOMAIN toServer[c][s] : toServer[c][s][i] \in M =>
              toServer[c][s][i].tag = tag[c]
        /\ Has(toServer[c][s], M) =>
              /\ reading[s][c].num # Num(c)
              /\ ~Has(toClient[c][s], M)
              /\ \A e \in DOMAIN elements[c] : e.server # s
        /\ reading[s][c].num = Num(c) => reading[s][c].tag = tag[c]

InOrder(c, s) ==
    LET M == Of(READ_VALUE, Num(c))
    IN  /\ \A i \in DOMAIN toClient[c][s] : toClient[c][s][i] \in M =>
              /\ AtLeast(toClient[c][s][i].tag, tag[c])
              /\ AtLeast(store[s].tag, toClient[c][s][i].tag)
              /\ \A e \in DOMAIN elements[c] :
                    e.server = s => e.tag # toClient[c][s][i].tag
        /\ \A e \in DOMAIN elements[c] : e.server = s => AtLeast(store[s].tag, e.tag)
        /\ \A i, j \in DOMAIN toClient[c][s] :
              /\ toClient[c][s][i] \in M /\ toClient[c][s][j] \in M
              /\ toClient[c][s][i].tag = toClient[c][s][j].tag
              => i = j

OneElementPerTag ==
    \A c \in alive, s \in Servers : pc[c] = READ_VALUE => Asked(c, s) /\ InOrder(c, s)

(***************************************************************************)
(* A bag of elements has no repetitions.  There are fewer than K of each   *)
(* tag in it until the read is over, and then there are K of one.          *)
(***************************************************************************)
WithTag(c, t) == {e \in DOMAIN elements[c] : e.tag = t}

Collected ==
    \A c \in Clients :
       /\ IsFiniteSet(DOMAIN elements[c])
       /\ \A e \in DOMAIN elements[c] : elements[c][e] = 1
       /\ \A e, f \in DOMAIN elements[c] : e.server = f.server /\ e.tag = f.tag => e = f
       /\ pc[c] = READ_VALUE => \A e \in DOMAIN elements[c] : Cardinality(WithTag(c, e.tag)) < K
       /\ pc[c] = DRAIN => \E e \in DOMAIN elements[c] :
             /\ Cardinality(WithTag(c, e.tag)) >= K
             /\ \A f \in DOMAIN elements[c] : Cardinality(WithTag(c, f.tag)) >= K => f.tag = e.tag
       /\ pc[c] \notin {READ_VALUE, DRAIN} => elements[c] = EmptyBag

Messages ==
    OnlyBegun /\ KindOfPhase /\ OnePerServer /\ OneElementPerTag /\ Collected

---------------------------------------------------------------------------
(***************************************************************************)
(* A dispersal and an entry of history tell of an element that was sent.   *)
(***************************************************************************)
OnlySentIsTold ==
    \A c \in alive, s \in Servers : pc[c] = READ_VALUE =>
       /\ \A p \in Servers : \A i \in DOMAIN toPeer[p][s] :
             toPeer[p][s][i].reader = c /\ toPeer[p][s][i].num = Num(c) =>
                [server |-> p, tag |-> toPeer[p][s][i].tag] \in Sent(c)
       /\ \A h \in history[s] : h.reader = c /\ h.num = Num(c) =>
             [server |-> h.sender, tag |-> h.tag] \in Sent(c)

Served == OnlySentIsTold /\ ForgottenIsServed

---------------------------------------------------------------------------
\* The server p has told s of its element of tag t, or s is past that operation.
Told(p, s, c, num, t) ==
    \/ \E i \in DOMAIN toPeer[p][s] :
          toPeer[p][s][i] = [reader |-> c, num |-> num, tag |-> t]
    \/ [reader |-> c, num |-> num, tag |-> t, sender |-> p] \in history[s]
    \/ Outdated(s, c, num)

(***************************************************************************)
(* Each server is told of each element that was sent.                      *)
(***************************************************************************)
SentIsTold ==
    \A c \in Clients, p, s \in Servers : pc[c] \in {READ_VALUE, DRAIN} =>
       /\ \A i \in DOMAIN toClient[c][p] : toClient[c][p][i] \in Of(READ_VALUE, Num(c)) =>
             Told(p, s, c, Num(c), toClient[c][p][i].tag)
       /\ \A e \in DOMAIN elements[c] : e.server = p => Told(p, s, c, Num(c), e.tag)

(***************************************************************************)
(* Each server is told of the K elements of a read that has returned.      *)
(***************************************************************************)
ReturnedIsTold ==
    /\ \A c \in Clients : \A k \in 1 .. call[c] : k < call[c] \/ pc[c] = "idle" =>
          \E r \in done : Id(r) = <<c, k>>
    /\ \A r \in done :
          /\ r.call \in 1 .. call[r.client] /\ r.kind = Script[r.client][r.call].kind
          /\ r.kind = "read" =>
                \E P \in SUBSET Servers :
                   /\ Cardinality(P) >= K
                   /\ \A p \in P, s \in Servers :
                         Told(p, s, r.client, Script[r.client][r.call].num, r.tag)

(***************************************************************************)
(* The tables agree with each other: a registered reader is not served, no *)
(* history of what is over is kept, and K entries do not stay.             *)
(***************************************************************************)
TablesAgree ==
    \A s \in Servers :
       /\ \A c \in Clients : reading[s][c] # NotRegistered => readed[s][c] = Absent
       /\ \A h \in history[s] :
             /\ readed[s][h.reader] < h.num
             /\ Cardinality(historydata_lookup(history[s], h.reader, h.num, h.tag)) < K

Tables == SentIsTold /\ ReturnedIsTold /\ TablesAgree

---------------------------------------------------------------------------
(***************************************************************************)
(* Each call is recorded once, when it is over, and before each call only  *)
(* recorded calls, those of the same client among them.                    *)
(***************************************************************************)
Ids == {Id(r) : r \in done}

Recorded ==
    /\ \A c \in Clients : before[c] \subseteq Ids
    /\ \A r \in done : /\ r.before \subseteq Ids
                       /\ r.call <= call[r.client]
                       /\ r.call = call[r.client] => pc[r.client] = "idle"

OneResult ==
    /\ \A x, r \in done : Id(x) = Id(r) => x = r
    /\ \A x \in done : pc[x.client] # "idle" => Id(x) \in before[x.client]
    /\ \A x, r \in done : x.client = r.client /\ x.call < r.call => Precedes(x, r)

---------------------------------------------------------------------------
\* A majority of the servers keeps a tag that is not older than t.
Held(t) ==
    \E Q \in SUBSET Servers :
       /\ Cardinality(Q) >= K
       /\ \A s \in Q : AtLeast(store[s].tag, t)

\* What has returned is held.
DoneIsHeld == \A r \in done : Held(r.tag)

(***************************************************************************)
(* A request to write carries the tag its client writes; the servers that  *)
(* have handled it keep a tag that is not older.                           *)
(***************************************************************************)
Handled(c, s) ==
    LET M == Of(WRITE_PUT, Num(c))
    IN  /\ \A i \in DOMAIN toServer[c][s] : toServer[c][s][i] \in M =>
              toServer[c][s][i].tag = tag[c]
        /\ ~Has(toServer[c][s], M) => AtLeast(store[s].tag, tag[c])

WrittenIsKept == \A c \in alive, s \in Servers : pc[c] = WRITE_PUT => Handled(c, s)

(***************************************************************************)
(* During a get phase of c, a majority keeps the tag of each call that had *)
(* returned before, and the replies of that majority, under way or counted *)
(* in the running maximum, are as new.                                     *)
(***************************************************************************)
Reports(c, s, t) ==
    /\ AtLeast(store[s].tag, t)
    /\ \A i \in DOMAIN toClient[c][s] : toClient[c][s][i] \in Of(pc[c], Num(c)) =>
          AtLeast(toClient[c][s][i].tag, t)
    /\ s \in Answered(c) => Newer(tag[c], t)

GetsReport ==
    \A c \in alive, x \in done : pc[c] \in GetPhases /\ Id(x) \in before[c] =>
       \E Q \in SUBSET Servers :
          /\ Cardinality(Q) >= K
          /\ \A s \in Q : Reports(c, s, x.tag)

\* An element that was collected is not older than asked for, nor newer than its server's.
CollectedIsKept ==
    \A c \in Clients : \A e \in DOMAIN elements[c] :
       AtLeast(e.tag, tag[c]) /\ AtLeast(store[e.server].tag, e.tag)

(***************************************************************************)
(* The tag a client writes or asks for exceeds those of the calls that had *)
(* returned when its call began, and so does the tag of each result.       *)
(***************************************************************************)
ChosenExceeds ==
    /\ \A c \in Clients, x \in done :
          pc[c] \in {WRITE_PUT, READ_VALUE, DRAIN} /\ Id(x) \in before[c]
             => Exceeds(Kind(c), tag[c], x.tag)
    /\ \A x, r \in done : Precedes(x, r) => Exceeds(r.kind, r.tag, x.tag)

Freshness ==
    /\ Recorded /\ OneResult /\ DoneIsHeld /\ WrittenIsKept /\ GetsReport
    /\ CollectedIsKept /\ ChosenExceeds

---------------------------------------------------------------------------
(***************************************************************************)
(* Why a tag stands for one value: a write writes its own payload, under a *)
(* tag with the name of its client, and nothing else is ever stored, sent  *)
(* or collected.                                                           *)
(***************************************************************************)
WritesOwn ==
    /\ \A c \in Clients : pc[c] = WRITE_PUT => IsOwn(c, tag[c])
    /\ \A r \in done : r.kind = "write" =>
          r.val = Id(r) /\ r.call > 0 /\ IsOwn(r.client, r.tag)

\* The tagged value of an element, a message or a result.
Tagging(o) == [tag |-> o.tag, val |-> o.val]

OnlyChosen ==
    /\ \A s \in Servers : store[s] \in Chosen
    /\ \A c \in Clients, s \in Servers :
          /\ \A i \in DOMAIN toServer[c][s] : toServer[c][s][i].phase = WRITE_PUT =>
                Tagging(toServer[c][s][i]) \in Chosen
          /\ \A i \in DOMAIN toClient[c][s] : toClient[c][s][i].phase = READ_VALUE =>
                Tagging(toClient[c][s][i]) \in Chosen
    /\ \A c \in Clients : \A e \in DOMAIN elements[c] : Tagging(e) \in Chosen
    /\ \A r \in done : Tagging(r) \in Chosen

Tagged == WritesOwn /\ OnlyChosen

---------------------------------------------------------------------------
\* A reader has written before it first reads, as write_initial_data has it.
WritesFirst ==
    \A c \in Clients : \A i \in 1 .. Len(Script[c]) : Script[c][i].kind = "read" =>
       \E j \in 1 .. i - 1 : Script[c][j].kind = "write"
=============================================================================
