------------------------------- MODULE MCABD -------------------------------
(* Small instances of ABD for TLC. *)
EXTENDS ABDInvariant, DaemonCalls, SmallNames, TLC

Two(c1, s1, c2, s2) == [c \in {c1, c2} |-> IF c = c1 THEN s1 ELSE s2]
Write(n) == Call("write", n)
Read(n)  == Call("read", n)

\* A client that writes and reads back twice, against a writer.
MixedScript == Two("writer_1", <<Write(2), Read(3), Read(4)>>,
                   "writer_3", writer_daemon(1))
\* The reader daemon as it is, against the writer daemon.
DaemonScript == Two("reader_1", reader_daemon(2), "writer_1", writer_daemon(1))
\* Two reader daemons and a writer daemon.
ReadersScript == [c \in {"reader_1", "reader_2", "writer_1"} |->
                    CASE c = "reader_1" -> reader_daemon(1)
                      [] c = "reader_2" -> reader_daemon(1)
                      [] c = "writer_1" -> writer_daemon(1)]

TwoWriters      == {"writer_1", "writer_3"}
WriterAndReader == {"writer_1", "reader_1"}
AllThree        == {"reader_1", "reader_2", "writer_1"}
OnlyTheWriter   == {"writer_1"}

(***************************************************************************)
(* Narrows the search to one order of the calls: the initial writes of     *)
(* reader_2 and of reader_1, the first read of reader_1 beside the second  *)
(* phase of the write of writer_1, and last the first read of reader_2.    *)
(* The servers have handled all requests before the first three of these.  *)
(***************************************************************************)
Returned(c, k) == \E r \in done : Id(r) = <<c, k>>
NoRequests     == \A c \in Clients, s \in Servers : toServer[c][s] = <<>>

MayBegin(c) ==
    CASE c = "reader_2" -> call[c] = 1 => Returned("reader_1", 2)
      [] c = "reader_1" -> IF call[c] = 1 THEN pc["writer_1"] = WRITE_VALUE
                                          ELSE NoRequests /\ Returned("reader_2", 1)
      [] c = "writer_1" -> NoRequests /\ Returned("reader_1", 1)

InStages == \A c \in Clients : call'[c] # call[c] => MayBegin(c)

\* The writer begins once the initial write of the reader daemon has returned.
AfterInitialWrite == call'["writer_1"] > call["writer_1"] => Returned("reader_1", 1)

(***************************************************************************)
(* Loses no behaviour but for the order of steps that do not see each      *)
(* other.  A reply whose number and phase no phase of its client will poll *)
(* for is read before anything else happens: reading it changes nothing    *)
(* but the channel, whose other replies stay in their order.  In the same  *)
(* way a server answers at once what only asks it for a tag, when nobody   *)
(* polls for the answer any more.                                          *)
(***************************************************************************)
NeverCounts(c, m) ==
    /\ ~Counts(c, m)
    /\ m.num = Num(c) => m.phase # WRITE_VALUE
    /\ \A k \in call[c] + 1 .. Len(Script[c]) : Script[c][k].num # m.num

Old == {x \in alive \X Servers :
          /\ pc[x[1]] # "idle" /\ toClient[x[1]][x[2]] # <<>>
          /\ NeverCounts(x[1], Head(toClient[x[1]][x[2]]))}

Unasked == {x \in alive \X Servers :
              /\ toServer[x[1]][x[2]] # <<>>
              /\ Head(toServer[x[1]][x[2]]).phase \in GetPhases
              /\ NeverCounts(x[1], Head(toServer[x[1]][x[2]]))}

OldFirst ==
    /\ Old # {} => \E x \in Old : toClient'[x[1]][x[2]] = Tail(toClient[x[1]][x[2]])
    /\ Old = {} /\ Unasked # {} =>
         \E x \in Unasked : toServer'[x[1]][x[2]] = Tail(toServer[x[1]][x[2]])

Symmetry == Permutations(Servers)
===========================================================================
