----------------------------- MODULE SmallNames -----------------------------
(* Client names for the small instances, and two functions that strcmp may be. *)
EXTENDS Integers

MCNames   == {"client_0", "reader_1", "reader_2", "writer_1", "writer_3"}
LOCAL Initial   == [n \in MCNames |-> CASE n = "client_0" -> 99
                                        [] n \in {"reader_1", "reader_2"} -> 114
                                        [] OTHER -> 119]
LOCAL LastDigit == [n \in MCNames |-> CASE n = "client_0" -> 48
                                        [] n \in {"reader_1", "writer_1"} -> 49
                                        [] n = "reader_2" -> 50
                                        [] n = "writer_3" -> 51]

\* The difference of the first bytes that differ (glibc).
ByteDifference ==
    [a \in MCNames |-> [b \in MCNames |->
       IF Initial[a] # Initial[b] THEN Initial[a] - Initial[b]
                                  ELSE LastDigit[a] - LastDigit[b]]]

\* The sign of that difference: -1, 0 or 1.
SignOnly ==
    [a \in MCNames |-> [b \in MCNames |->
       LET d == ByteDifference[a][b]
       IN  IF d < 0 THEN -1 ELSE IF d > 0 THEN 1 ELSE 0]]
===========================================================================
