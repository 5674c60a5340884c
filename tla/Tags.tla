------------------------------- MODULE Tags -------------------------------
(***************************************************************************)
(* The version tags of COLAS (src/src/utilities/algo_utils.{h,c}).  A tag  *)
(* is a counter z and the name of the client that chose it.                *)
(*                                                                         *)
(* The two comparison functions of the code hand the result of the C       *)
(* library's strcmp to callers that test it for being exactly -1 or +1.    *)
(* The C standard only fixes the SIGN of strcmp, so the function is a      *)
(* parameter here: a library that returns -1, 0 and 1 and one that returns *)
(* the difference of the first bytes that differ are two of its values.    *)
(***************************************************************************)
EXTENDS Majorities

CONSTANTS
    Names,      \* the client identifiers in use
    Client0,    \* "client_0", the identifier in the initial tag
    StrCmp      \* StrCmp[a][b]: the int that strcmp(a, b) returns

(***************************************************************************)
(* What the C standard promises of strcmp, and no more.                    *)
(***************************************************************************)
ASSUME NamesAssumption ==
    /\ Client0 \in Names
    /\ StrCmp \in [Names -> [Names -> Int]]
    /\ \A a, b \in Names : StrCmp[a][b] = 0 <=> a = b
    /\ \A a, b \in Names : StrCmp[a][b] < 0 <=> StrCmp[b][a] > 0
    /\ \A a, b, c \in Names :
          StrCmp[a][b] < 0 /\ StrCmp[b][c] < 0 => StrCmp[a][c] < 0

(***************************************************************************)
(* A C library whose strcmp returns exactly -1, 0 or 1.  The comments in   *)
(* algo_utils.c take it for granted; not every library is one.             *)
(***************************************************************************)
UnitStrCmp == \A a, b \in Names : StrCmp[a][b] \in {-1, 0, 1}

---------------------------------------------------------------------------
Tag == [z : Nat, id : Names]

InitTag == [z |-> 0, id |-> Client0]

\* The running maximum before any tag was seen: z is -1, id is not set.
NoTag == [z |-> -1, id |-> Client0]

compare_tags(a, b) ==
    IF a.z < b.z THEN -1 ELSE IF a.z > b.z THEN 1 ELSE StrCmp[a.id][b.id]

compare_tag_ptrs(a, b) ==
    IF a.z < b.z THEN -2 ELSE IF a.z > b.z THEN 1 ELSE StrCmp[a.id][b.id]

\* One step of get_max_tag: the maximum is replaced only on a result of +1.
MaxTagStep(max, tag) == IF compare_tag_ptrs(tag, max) = 1 THEN tag ELSE max

\* The order the protocols mean: by z, then by name.
AtLeast(a, b) ==
    \/ a.z > b.z
    \/ a.z = b.z /\ StrCmp[a.id][b.id] >= 0

Above(a, b) == AtLeast(a, b) /\ a # b

(***************************************************************************)
(* How new the tags are to the code.  Where strcmp returns units, all its  *)
(* comparisons agree with the order of the tags; where it does not, they   *)
(* still agree with the order of the counters.                             *)
(***************************************************************************)
Newer(a, b) == IF UnitStrCmp THEN AtLeast(a, b) ELSE a.z >= b.z
===========================================================================
