------------------------------ MODULE MCSODAW ------------------------------
(* Small instances of SODAW for TLC. *)
EXTENDS SODAWInvariant, DaemonCalls, SmallNames, TLC

WriterAndReader == {"writer_1", "reader_1"}
OnlyTheWriter   == {"writer_1"}
Two(ofReader, ofWriter) ==
    [c \in WriterAndReader |-> IF c = "reader_1" THEN ofReader ELSE ofWriter]

\* The reader daemon, with two reads, beside the writer daemon with one write.
DaemonScript == Two(reader_daemon(2), writer_daemon(1))
\* Two reads of one reader during the second of two writes.
ReadsScript  == Two(<<Call("read", 1), Call("read", 2)>>, writer_daemon(2))
\* One turn of each daemon, for liveness.
LiveScript   == Two(reader_daemon(1), writer_daemon(1))

LiveSpec == Spec /\ Fairness(Servers)

(***************************************************************************)
(* Narrows the search.  The writer goes from phase to phase when no        *)
(* message of the last one is left, and the reads begin once it sends the  *)
(* elements of its second write.  Dispersals stay on the way: all that     *)
(* they could do is make a server send less to a reader that has been      *)
(* served.                                                                 *)
(***************************************************************************)
DispersalsLate == \A p, s \in Servers : Len(toPeer'[p][s]) >= Len(toPeer[p][s])
NothingLeft    == \A s \in Servers : /\ toServer["writer_1"][s] = <<>>
                                     /\ pc["writer_1"] = WRITE_GET =>
                                          toClient["writer_1"][s] = <<>>

Narrowed ==
    /\ DispersalsLate
    /\ pc'["writer_1"] \in GetPhases \cup {WRITE_PUT} /\ pc'["writer_1"] # pc["writer_1"]
         => NothingLeft
    /\ call'["reader_1"] > call["reader_1"]
         => call["writer_1"] = 2 /\ pc["writer_1"] # WRITE_GET

Symmetry == Permutations(Servers)
===========================================================================
