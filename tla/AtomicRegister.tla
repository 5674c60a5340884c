--------------------------- MODULE AtomicRegister ---------------------------
(***************************************************************************)
(* What COLAS promises of "atomic_object", whichever algorithm implements  *)
(* it: an atomic multi-writer multi-reader register.  No tags, servers or  *)
(* messages occur here.                                                    *)
(*                                                                         *)
(* The register is a growing total order of the values written.  A write   *)
(* enters the order at any place that is above every value its client      *)
(* could already know of, that is, above the values of all calls that had  *)
(* returned when it began.  A read returns any value in the order that is  *)
(* not below one of those.  The order never changes afterwards.            *)
(*                                                                         *)
(* Linearizable is the textbook definition over the calls' results; it     *)
(* does not look at the order, and is checked as an invariant here.        *)
(***************************************************************************)
EXTENDS Integers, Sequences

CONSTANTS
    Clients,    \* the processes that call read and write
    Script,     \* Script[c]: the calls client c makes, one after the other
    InitVal     \* the value before any write

(***************************************************************************)
(* A call is a read or a write, and no write writes the initial value.     *)
(***************************************************************************)
ASSUME RegisterAssumption ==
    /\ Script \in [Clients -> Seq([kind : {"read", "write"}, num : Nat])]
    /\ InitVal \notin Clients \X (Nat \ {0})

VARIABLES
    busy,       \* the clients with a call that has not returned
    call,       \* call[c]: how many calls of its script c has begun
    before,     \* before[c]: the calls that had returned when c's call began
    values,     \* the values that have entered the order
    prior,      \* the order: <<v, w>> \in prior when v comes before w
    done        \* the results of the calls that have returned

vars == <<busy, call, before, values, prior, done>>

Init ==
    /\ busy   = {}
    /\ call   = [c \in Clients |-> 0]
    /\ before = [c \in Clients |-> {}]
    /\ values = {InitVal}
    /\ prior  = {}
    /\ done   = {}

Id(r)     == <<r.client, r.call>>
Kind(c)   == Script[c][call[c]].kind
Known(c)  == {InitVal} \cup {r.val : r \in {x \in done : Id(x) \in before[c]}}

Invoke(c) ==
    /\ c \notin busy
    /\ busy' = busy \cup {c}
    /\ call[c] < Len(Script[c])
    /\ call'   = [call EXCEPT ![c] = @ + 1]
    /\ before' = [before EXCEPT ![c] = {Id(r) : r \in done}]
    /\ UNCHANGED <<values, prior, done>>

\* Faulty variant: the values below v need not be the lowest ones.
Insert_not_in_line(v, lower) ==
    prior' = prior \cup (lower \X {v}) \cup ({v} \X (values \ lower))

\* v enters the order above the values in lower and below the others.
Insert(v, lower) ==
    /\ \A u \in values, w \in lower : <<u, w>> \in prior => u \in lower
    /\ prior' = prior \cup (lower \X {v}) \cup ({v} \X (values \ lower))

\* A write takes its place.
Publish(c) ==
    LET v == <<c, call[c]>>
    IN  /\ c \in busy /\ Kind(c) = "write" /\ v \notin values
        /\ values' = values \cup {v}
        /\ \E lower \in SUBSET values : Known(c) \subseteq lower /\ Insert(v, lower)
        /\ UNCHANGED <<busy, call, before, done>>

\* Faulty variant: a read may return any value that was published.
MayReturn_any(c, v) ==
    /\ v \in values
    /\ Kind(c) = "write" => v = <<c, call[c]>>

\* The values the call of c may return.
MayReturn(c, v) ==
    /\ v \in values
    /\ Kind(c) = "write" => v = <<c, call[c]>>
    /\ Kind(c) = "read"  => \A u \in Known(c) : u = v \/ <<u, v>> \in prior

Return(c) ==
    /\ c \in busy
    /\ busy' = busy \ {c}
    /\ \E v \in values :
          /\ MayReturn(c, v)
          /\ done' = done \cup {[client |-> c, call |-> call[c], kind |-> Kind(c),
                                 val |-> v, before |-> before[c]]}
    /\ UNCHANGED <<call, before, values, prior>>

Next == \E c \in Clients : Invoke(c) \/ Publish(c) \/ Return(c)

Spec == Init /\ [][Next]_vars

---------------------------------------------------------------------------
\* Of the calls in rest, r may come first, after the value cur.
MayComeFirst(r, rest, cur) ==
    /\ \A x \in rest : Id(x) \notin r.before
    /\ r.kind = "write" \/ (r.kind = "read" /\ r.val = cur)

(***************************************************************************)
(* The results in ops can be put in one sequence that respects the real    *)
(* time order of the calls and in which every read returns the value of    *)
(* the last write before it.                                               *)
(***************************************************************************)
HasLinearOrder(ops) ==
    LET fits[st \in (SUBSET ops) \X ({InitVal} \cup {r.val : r \in ops})] ==
          \/ st[1] = {}
          \/ \E r \in st[1] : /\ MayComeFirst(r, st[1], st[2])
                             /\ fits[<<st[1] \ {r}, r.val>>]
    IN  fits[<<ops, InitVal>>]

\* Writes that have not returned count once a read has returned their value.
PendingWrites(running) ==
    {w \in {[client |-> c, call |-> call[c], kind |-> "write",
             val |-> <<c, call[c]>>, before |-> before[c]] :
               c \in {x \in running : Kind(x) = "write"}} :
       \E r \in done : r.kind = "read" /\ r.val = w.val}

(***************************************************************************)
(* Atomicity: the calls that have returned, with the writes still running  *)
(* whose value has been read, have a linear order.                         *)
(***************************************************************************)
Linearizable == HasLinearOrder(done \cup PendingWrites(busy))

(***************************************************************************)
(* The order is total, so that "the latest value" means something.         *)
(***************************************************************************)
TotalOrder ==
    \A u, v \in values :
       /\ u # v <=> (<<u, v>> \in prior \/ <<v, u>> \in prior)
       /\ ~(<<u, v>> \in prior /\ <<v, u>> \in prior)
       /\ \A w \in values :
             <<u, v>> \in prior /\ <<v, w>> \in prior => <<u, w>> \in prior

(***************************************************************************)
(* The values follow the calls: what a call returns or writes comes after  *)
(* the value of every call that had returned when it began; a read may     *)
(* return that value again.  Given that the order is total and that each   *)
(* write enters it once, this is what makes the register atomic.           *)
(***************************************************************************)
RealTimeOrder ==
    \A x, r \in done : Id(x) \in r.before =>
       \/ <<x.val, r.val>> \in prior
       \/ x.val = r.val /\ r.kind = "read"
===========================================================================
