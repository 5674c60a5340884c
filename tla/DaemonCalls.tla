---------------------------- MODULE DaemonCalls ----------------------------
(***************************************************************************)
(* The calls that the Go daemons make, with the operation numbers they     *)
(* pass (src/src/daemons/reader.go, writer.go).  Both daemons stop at      *)
(* operation 2000; the number of turns of their loop is a parameter here.  *)
(***************************************************************************)
EXTENDS Integers, Sequences

Call(kind, num) == [kind |-> kind, num |-> num]

\* write_initial_data writes as operation 1.
write_initial_data == <<Call("write", 1)>>

\* After the initial write opnum restarts from 0, so the first read is 1 too.
reader_daemon(turns) == write_initial_data \o [i \in 1 .. turns |-> Call("read", i)]

\* The writer starts from 1, increments before each write, writes nothing before.
writer_daemon(turns) == [i \in 1 .. turns |-> Call("write", i + 1)]
===========================================================================
