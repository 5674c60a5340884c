------------------------ MODULE AtomicRegisterProofs ------------------------
(***************************************************************************)
(* Proof that the abstract register is atomic, for any clients and any     *)
(* scripts: its values are in a total order that the results of the calls  *)
(* follow, and the calls can be put in one sequence.                       *)
(***************************************************************************)
EXTENDS AtomicRegister, FiniteSetTheorems, WellFoundedInduction, TLAPS

---------------------------------------------------------------------------
(* Linear orders of finitely many calls. *)

\* A set of numbers has a least one.
LEMMA LeastNumber ==
    ASSUME NEW S \in SUBSET Nat, S # {}
    PROVE  \E m \in S : \A k \in S : m <= k
<1> DEFINE R == {ss \in Nat \X Nat : ss[1] < ss[2]}
<1>1. IsWellFoundedOn(R, Nat)
  BY NatLessThanWellFounded DEF OpToRel
<1>2. PICK m \in S : \A k \in S : ~ (<<k, m>> \in R)
  <2> HIDE DEF R
  <2> QED
    BY <1>1, WFMin
<1>3. \A k \in S : k \in Nat /\ m \in Nat /\ ~ (k < m)
  BY <1>2
<1> QED
  BY <1>3

\* What is left of a set of calls, with the value that the register has then.
States(ops) == (SUBSET ops) \X ({InitVal} \cup {r.val : r \in ops})

\* The states T of which some call may come first, with a state in T after it.
GoesOn(T, st) ==
    \/ st[1] = {}
    \/ \E r \in st[1] : MayComeFirst(r, st[1], st[2]) /\ <<st[1] \ {r}, r.val>> \in T

LEMMA StateAfter ==
    ASSUME NEW ops, NEW st \in States(ops), NEW r \in st[1]
    PROVE  <<st[1] \ {r}, r.val>> \in States(ops)
BY DEF States

\* The recursion of HasLinearOrder has a solution: the least set of states that
\* has all those from which it goes on.
LEMMA LeastStates ==
    ASSUME NEW ops
    PROVE  \E T \in SUBSET States(ops) : \A st \in States(ops) : st \in T <=> GoesOn(T, st)
<1> DEFINE D == States(ops)
           Closed(T) == \A u \in D : GoesOn(T, u) => u \in T
           L == {st \in D : \A T \in SUBSET D : Closed(T) => st \in T}
           M == {st \in D : GoesOn(L, st)}
<1>1. ASSUME NEW T, NEW U, T \subseteq U, NEW st \in D, GoesOn(T, st)
      PROVE  GoesOn(U, st)
  BY <1>1 DEF GoesOn
<1>2. ASSUME NEW st \in D, GoesOn(L, st) PROVE st \in L
  <2> SUFFICES ASSUME NEW T \in SUBSET D, Closed(T) PROVE st \in T
    OBVIOUS
  <2>1. L \subseteq T
    OBVIOUS
  <2>2. GoesOn(T, st)
    <3> HIDE DEF L, D
    <3> QED
      BY <2>1, <1>1, <1>2
  <2> QED
    BY <2>2
<1>3. M \subseteq L
  <2> HIDE DEF L
  <2> QED
    BY <1>2
<1>4. Closed(M)
  <2> SUFFICES ASSUME NEW u \in D, GoesOn(M, u) PROVE u \in M
    OBVIOUS
  <2>1. GoesOn(L, u)
    <3> HIDE DEF L, M, D
    <3> QED
      BY <1>3, <1>1
  <2> QED
    BY <2>1
<1>5. L \subseteq M
  <2> SUFFICES ASSUME NEW st \in L PROVE st \in M
    OBVIOUS
  <2>1. M \in SUBSET D
    OBVIOUS
  <2> HIDE DEF M
  <2> QED
    BY <2>1, <1>4
<1>6. L \in SUBSET D
  OBVIOUS
<1>7. \A st \in D : st \in L <=> GoesOn(L, st)
  <2> TAKE st \in D
  <2>1. st \in L => st \in M
    BY <1>5
  <2>2. st \in M => GoesOn(L, st)
    OBVIOUS
  <2> HIDE DEF L, M
  <2> QED
    BY <2>1, <2>2, <1>2
<1> HIDE DEF L, D
<1> QED
  BY <1>6, <1>7 DEF D

\* What it takes to find a linear order: a set of states that goes on.
LEMMA GoingOnGivesOrder ==
    ASSUME NEW ops, IsFiniteSet(ops),
           NEW Good \in SUBSET States(ops), <<ops, InitVal>> \in Good,
           \A st \in Good : GoesOn(Good, st)
    PROVE  HasLinearOrder(ops)
<1> DEFINE D == (SUBSET ops) \X ({InitVal} \cup {r.val : r \in ops})
           Solves(f) == f = [st \in D |->
                               \/ st[1] = {}
                               \/ \E r \in st[1] : /\ MayComeFirst(r, st[1], st[2])
                                                  /\ f[<<st[1] \ {r}, r.val>>]]
           fits == CHOOSE f : Solves(f)
<1>1. PICK T \in SUBSET D : \A st \in D : st \in T <=> GoesOn(T, st)
  BY LeastStates DEF States
<1> DEFINE g == [st \in D |-> st \in T]
<1>2. Solves(g)
  <2>1. ASSUME NEW st \in D, NEW r \in st[1]
        PROVE  /\ <<st[1] \ {r}, r.val>> \in D
               /\ g[<<st[1] \ {r}, r.val>>] = (<<st[1] \ {r}, r.val>> \in T)
    <3>1. <<st[1] \ {r}, r.val>> \in D
      OBVIOUS
    <3> HIDE DEF D
    <3> QED
      BY <3>1
  <2>2. ASSUME NEW st \in D
        PROVE  g[st] = (\/ st[1] = {}
                        \/ \E r \in st[1] : /\ MayComeFirst(r, st[1], st[2])
                                           /\ g[<<st[1] \ {r}, r.val>>])
    <3>1. g[st] = (st \in T)
      BY DEF g
    <3>2. (st \in T) <=> GoesOn(T, st)
      BY <1>1
    <3> HIDE DEF g, D
    <3>3. \A r \in st[1] : (<<st[1] \ {r}, r.val>> \in T) <=> g[<<st[1] \ {r}, r.val>>]
      BY <2>1
    <3>4. GoesOn(T, st) <=> (\/ st[1] = {}
                             \/ \E r \in st[1] : /\ MayComeFirst(r, st[1], st[2])
                                                /\ g[<<st[1] \ {r}, r.val>>])
      BY <3>3 DEF GoesOn
    <3> DEFINE rhs == \/ st[1] = {}
                      \/ \E r \in st[1] : /\ MayComeFirst(r, st[1], st[2])
                                         /\ g[<<st[1] \ {r}, r.val>>]
    <3>5. rhs \in BOOLEAN /\ (GoesOn(T, st) <=> rhs)
      BY <3>4
    <3> HIDE DEF rhs
    <3>6. g[st] = rhs
      BY <3>1, <3>2, <3>5
    <3> QED
      BY <3>6 DEF rhs
  <2>3. g = [st \in D |-> g[st]]
    BY DEF g
  <2> HIDE DEF g, D
  <2> QED
    BY <2>2, <2>3
<1>3. Solves(fits)
  <2> HIDE DEF Solves, g
  <2> QED
    BY <1>2
<1>4. ASSUME NEW st \in D
      PROVE  fits[st] <=> \/ st[1] = {}
                          \/ \E r \in st[1] : /\ MayComeFirst(r, st[1], st[2])
                                             /\ fits[<<st[1] \ {r}, r.val>>]
  <2> HIDE DEF fits, D
  <2> QED
    BY <1>3
<1>5. HasLinearOrder(ops) = fits[<<ops, InitVal>>]
  BY DEF HasLinearOrder
<1> HIDE DEF fits, Solves, g
<1> DEFINE Bad == {k \in Nat : \E st \in Good : Cardinality(st[1]) = k /\ ~ fits[st]}
<1>6. ASSUME NEW st \in Good
      PROVE  st \in D /\ IsFiniteSet(st[1]) /\ Cardinality(st[1]) \in Nat
  <2>1. st \in D
    BY DEF States
  <2>2. st[1] \subseteq ops
    BY <2>1
  <2> QED
    BY <2>1, <2>2, FS_Subset, FS_CardinalityType
<1>7. Bad = {}
  <2> SUFFICES ASSUME Bad # {} PROVE FALSE
    OBVIOUS
  <2>1. PICK m \in Bad : \A k \in Bad : m <= k
    <3> HIDE DEF Bad
    <3>1. Bad \in SUBSET Nat
      BY DEF Bad
    <3> QED
      BY <3>1, LeastNumber
  <2>2. PICK st \in Good : Cardinality(st[1]) = m /\ ~ fits[st]
    BY <2>1
  <2>3. st \in D /\ IsFiniteSet(st[1]) /\ GoesOn(Good, st)
    BY <1>6
  <2>4. st[1] # {}
    BY <2>2, <2>3, <1>4
  <2>5. PICK r \in st[1] : /\ MayComeFirst(r, st[1], st[2])
                           /\ <<st[1] \ {r}, r.val>> \in Good
    BY <2>3, <2>4 DEF GoesOn
  <2> DEFINE next == <<st[1] \ {r}, r.val>>
  <2>6. Cardinality(next[1]) = m - 1 /\ m - 1 \in Nat
    <3>1. Cardinality(st[1] \ {r}) = Cardinality(st[1]) - 1
      BY <2>3, FS_RemoveElement
    <3>2. Cardinality(st[1] \ {r}) \in Nat
      BY <2>3, <2>5, <1>6
    <3> QED
      BY <3>1, <3>2, <2>2
  <2>7. ~ fits[next]
    BY <2>2, <2>3, <2>5, <1>4
  <2>8. m - 1 \in Bad
    BY <2>5, <2>6, <2>7
  <2> QED
    BY <2>1, <2>6, <2>8
<1>8. \A st \in Good : fits[st]
  BY <1>6, <1>7
<1> QED
  BY <1>5, <1>8

---------------------------------------------------------------------------
(* The invariant. *)

Ids == {Id(r) : r \in done}

\* The calls of a client are counted, and each is a read or a write.
Counted ==
    /\ busy \subseteq Clients
    /\ call \in [Clients -> Nat]
    /\ DOMAIN before = Clients
    /\ \A c \in busy : call[c] > 0 /\ Kind(c) \in {"read", "write"}

\* No call is known before it has returned, and then it is over.
Recorded ==
    /\ \A c \in Clients : before[c] \subseteq Ids
    /\ \A r \in done : /\ r.client \in Clients
                       /\ r.call <= call[r.client] /\ r.call \in Nat
                       /\ r.call = call[r.client] => r.client \notin busy
                       /\ r.before \subseteq Ids

\* The values are those of the calls that have begun.
Published ==
    /\ InitVal \in values
    /\ \A v \in values : \/ v = InitVal
                         \/ \E c \in Clients : \E k \in 1 .. call[c] : v = <<c, k>>
    /\ \A r \in done : r.val \in values
    /\ prior \subseteq values \X values

\* A running write whose value has its place has it above all it could know of.
InPlace ==
    \A c \in busy : Kind(c) = "write" /\ <<c, call[c]>> \in values =>
       \A u \in Known(c) : <<u, <<c, call[c]>>>> \in prior

RegisterInv ==
    Counted /\ Recorded /\ Published /\ InPlace /\ TotalOrder /\ RealTimeOrder

---------------------------------------------------------------------------
(* The steps. *)

LEMMA RegisterInit == Init => RegisterInv
<1> SUFFICES ASSUME Init PROVE RegisterInv
  OBVIOUS
<1>1. Counted /\ Recorded
  BY DEF Init, Counted, Recorded, Ids
<1>2. Published /\ InPlace /\ TotalOrder /\ RealTimeOrder
  BY DEF Init, Published, InPlace, TotalOrder, RealTimeOrder
<1> QED
  BY <1>1, <1>2 DEF RegisterInv

LEMMA ElementOf ==
    ASSUME NEW S, NEW q \in Seq(S), NEW k \in 1 .. Len(q)
    PROVE  q[k] \in S
OBVIOUS

LEMMA CallKind ==
    ASSUME Counted, NEW c \in Clients, call[c] < Len(Script[c])
    PROVE  Script[c][call[c] + 1].kind \in {"read", "write"}
<1>1. Script[c] \in Seq([kind : {"read", "write"}, num : Nat]) /\ call[c] \in Nat
  BY RegisterAssumption DEF Counted
<1>2. call[c] + 1 \in 1 .. Len(Script[c])
  BY <1>1
<1>3. Script[c][call[c] + 1] \in [kind : {"read", "write"}, num : Nat]
  BY <1>1, <1>2, ElementOf
<1> QED
  BY <1>3

LEMMA InvokeKeeps ==
    ASSUME RegisterInv, NEW c \in Clients, Invoke(c)
    PROVE  RegisterInv'
<1>1. /\ c \notin busy /\ busy' = busy \cup {c}
      /\ call' = [call EXCEPT ![c] = @ + 1] /\ call[c] < Len(Script[c])
      /\ before' = [before EXCEPT ![c] = Ids]
      /\ values' = values /\ prior' = prior /\ done' = done
  BY DEF Invoke, Ids
<1>2. Counted /\ Recorded /\ Published /\ InPlace
  BY DEF RegisterInv
<1>3. /\ call[c] \in Nat /\ call'[c] = call[c] + 1 /\ before'[c] = Ids
      /\ \A d \in Clients : d # c => call'[d] = call[d] /\ before'[d] = before[d]
      /\ \A d \in Clients : call[d] \in Nat /\ call'[d] \in Nat
  BY <1>1, <1>2 DEF Counted
<1>4. Counted'
  <2>1. Kind(c)' \in {"read", "write"}
    BY <1>1, <1>2, <1>3, CallKind DEF Kind
  <2>2. \A d \in busy : d # c => Kind(d)' = Kind(d)
    BY <1>2, <1>3 DEF Kind, Counted
  <2> QED
    BY <2>1, <2>2, <1>1, <1>2 DEF Counted
<1>5. Recorded'
  <2>1. Ids' = Ids
    BY <1>1 DEF Ids
  <2>2. \A r \in done : r.call <= call[r.client] => r.call <= call'[r.client]
    BY <1>2, <1>3 DEF Recorded
  <2>3. \A r \in done : r.client = c => r.call # call'[c]
    BY <1>2, <1>3 DEF Recorded
  <2> QED
    BY <2>1, <2>2, <2>3, <1>1, <1>2, <1>3 DEF Recorded
<1>6. Published'
  <2>1. ASSUME NEW d \in Clients, NEW k \in 1 .. call[d]
        PROVE  k \in 1 .. call'[d]
    BY <1>3
  <2> QED
    BY <2>1, <1>1, <1>2 DEF Published
\* The value of this call has no place yet.
<1>7. <<c, call[c] + 1>> \notin values
  <2>1. <<c, call[c] + 1>> # InitVal
    BY <1>3, RegisterAssumption
  <2>2. call[c] + 1 \notin 1 .. call[c]
    BY <1>3
  <2> QED
    BY <2>1, <2>2, <1>2 DEF Published
<1>8. InPlace'
  <2> SUFFICES ASSUME NEW d \in busy', Kind(d)' = "write", <<d, call'[d]>> \in values
               PROVE  \A u \in Known(d)' : <<u, <<d, call'[d]>>>> \in prior
    BY <1>1 DEF InPlace
  <2>1. d # c /\ d \in busy /\ d \in Clients
    BY <1>1, <1>2, <1>3, <1>7 DEF Counted
  <2>2. Known(d)' = Known(d) /\ Kind(d)' = Kind(d) /\ call'[d] = call[d]
    BY <2>1, <1>1, <1>3 DEF Known, Kind
  <2> QED
    BY <2>1, <2>2, <1>2 DEF InPlace
<1>9. TotalOrder' /\ RealTimeOrder'
  BY <1>1, ZenonT(60) DEF RegisterInv, TotalOrder, RealTimeOrder
<1> QED
  BY <1>4, <1>5, <1>6, <1>8, <1>9 DEF RegisterInv

\* A value that enters between the values of lower and the others.
LEMMA InsertTotal ==
    ASSUME TotalOrder, prior \subseteq values \X values,
           NEW v, v \notin values, NEW lower \in SUBSET values,
           Insert(v, lower), values' = values \cup {v}
    PROVE  TotalOrder'
<1>1. /\ \A u \in values, w \in lower : <<u, w>> \in prior => u \in lower
      /\ prior' = prior \cup (lower \X {v}) \cup ({v} \X (values \ lower))
  BY DEF Insert
<1>2. /\ \A u, w \in values : <<u, w>> \in prior' <=> <<u, w>> \in prior
      /\ \A u \in values : <<u, v>> \in prior' <=> u \in lower
      /\ \A u \in values : <<v, u>> \in prior' <=> u \notin lower
      /\ <<v, v>> \notin prior'
  BY <1>1
<1>3. ASSUME NEW u \in values', NEW w \in values'
      PROVE  /\ u # w <=> (<<u, w>> \in prior' \/ <<w, u>> \in prior')
             /\ ~(<<u, w>> \in prior' /\ <<w, u>> \in prior')
  <2>1. CASE u \in values /\ w \in values
    BY <2>1, <1>2 DEF TotalOrder
  <2>2. CASE u = v \/ w = v
    BY <2>2, <1>2
  <2> QED
    BY <2>1, <2>2
<1>4. ASSUME NEW u \in values', NEW x \in values', NEW w \in values',
             <<u, x>> \in prior', <<x, w>> \in prior'
      PROVE  <<u, w>> \in prior'
  <2>1. CASE u \in values /\ x \in values /\ w \in values
    BY <2>1, <1>2, <1>4 DEF TotalOrder
  <2>2. CASE u = v
    BY <2>2, <1>1, <1>2, <1>4
  <2>3. CASE w = v
    BY <2>3, <1>1, <1>2, <1>4
  <2>4. CASE x = v /\ u \in values /\ w \in values
    <3>1. u \in lower /\ w \notin lower
      BY <2>4, <1>2, <1>4
    <3>2. u # w /\ ~(<<w, u>> \in prior)
      BY <2>4, <3>1, <1>1
    <3> QED
      BY <2>4, <3>2, <1>2 DEF TotalOrder
  <2> QED
    BY <2>1, <2>2, <2>3, <2>4
<1> SUFFICES ASSUME NEW u \in values', NEW w \in values'
             PROVE  /\ u # w <=> (<<u, w>> \in prior' \/ <<w, u>> \in prior')
                    /\ ~(<<u, w>> \in prior' /\ <<w, u>> \in prior')
                    /\ \A x \in values' :
                          <<u, w>> \in prior' /\ <<w, x>> \in prior' => <<u, x>> \in prior'
  BY DEF TotalOrder
<1>5. \A x \in values' :
         <<u, w>> \in prior' /\ <<w, x>> \in prior' => <<u, x>> \in prior'
  BY <1>4
<1> QED
  BY <1>3, <1>5

LEMMA PublishKeeps ==
    ASSUME RegisterInv, NEW c \in Clients, Publish(c)
    PROVE  RegisterInv'
<1> DEFINE v == <<c, call[c]>>
<1>1. /\ c \in busy /\ Kind(c) = "write" /\ v \notin values /\ values' = values \cup {v}
      /\ busy' = busy /\ call' = call /\ before' = before /\ done' = done
  BY DEF Publish
<1>2. PICK lower \in SUBSET values : Known(c) \subseteq lower /\ Insert(v, lower)
  BY DEF Publish
<1>3. Counted /\ Recorded /\ Published /\ InPlace /\ TotalOrder /\ RealTimeOrder
  BY DEF RegisterInv
<1>4. prior' = prior \cup (lower \X {v}) \cup ({v} \X (values \ lower))
  BY <1>2 DEF Insert
<1>5. Counted' /\ Recorded'
  BY <1>1, <1>3 DEF Counted, Recorded, Ids, Kind
<1>6. Published'
  <2>1. call[c] \in 1 .. call[c]
    BY <1>1, <1>3 DEF Counted
  <2>2. prior' \subseteq values' \X values'
    BY <1>1, <1>3, <1>4 DEF Published
  <2> QED
    BY <2>1, <2>2, <1>1, <1>3 DEF Published
<1>7. InPlace'
  <2> SUFFICES ASSUME NEW d \in busy, Kind(d) = "write", <<d, call[d]>> \in values',
                      NEW u \in Known(d)
               PROVE  <<u, <<d, call[d]>>>> \in prior'
    BY <1>1 DEF InPlace, Kind, Known
  <2>1. CASE d = c
    BY <2>1, <1>2, <1>4
  <2>2. CASE d # c
    <3>1. <<d, call[d]>> \in values
      BY <2>2, <1>1
    <3> QED
      BY <3>1, <1>3, <1>4 DEF InPlace
  <2> QED
    BY <2>1, <2>2
<1>8. TotalOrder'
  BY <1>1, <1>2, <1>3, InsertTotal DEF Published
<1>9. RealTimeOrder'
  BY <1>1, <1>3, <1>4 DEF RealTimeOrder
<1> QED
  BY <1>5, <1>6, <1>7, <1>8, <1>9 DEF RegisterInv

LEMMA ReturnKeeps ==
    ASSUME RegisterInv, NEW c \in Clients, Return(c)
    PROVE  RegisterInv'
<1>1. /\ c \in busy /\ busy' = busy \ {c}
      /\ call' = call /\ before' = before /\ values' = values /\ prior' = prior
  BY DEF Return
<1>2. PICK v \in values :
         /\ MayReturn(c, v)
         /\ done' = done \cup {[client |-> c, call |-> call[c], kind |-> Kind(c),
                                val |-> v, before |-> before[c]]}
  BY DEF Return
<1> DEFINE new == [client |-> c, call |-> call[c], kind |-> Kind(c),
                   val |-> v, before |-> before[c]]
<1>3. Counted /\ Recorded /\ Published /\ InPlace /\ TotalOrder /\ RealTimeOrder
  BY DEF RegisterInv
<1>4. /\ new.client = c /\ new.call = call[c] /\ new.kind = Kind(c) /\ new.val = v
      /\ new.before = before[c] /\ Id(new) = <<c, call[c]>> /\ done' = done \cup {new}
  BY <1>2 DEF Id
<1> HIDE DEF new
\* Nobody has seen this result yet.
<1>5. Id(new) \notin Ids
  <2> SUFFICES ASSUME NEW r \in done, Id(r) = <<c, call[c]>> PROVE FALSE
    BY <1>4 DEF Ids
  <2>1. r.client = c /\ r.call = call[c]
    BY DEF Id
  <2> QED
    BY <2>1, <1>1, <1>3 DEF Recorded
<1>6. Counted'
  BY <1>1, <1>3 DEF Counted, Kind
<1>7. Recorded'
  <2>1. Ids' = Ids \cup {Id(new)}
    BY <1>4 DEF Ids
  <2>2. call[c] \in Nat /\ call[c] <= call[c]
    BY <1>3 DEF Counted
  <2> QED
    BY <2>1, <2>2, <1>1, <1>3, <1>4 DEF Recorded
<1>8. Published'
  BY <1>1, <1>3, <1>4 DEF Published
<1>9. \A d \in Clients : Known(d)' = Known(d)
  <2> TAKE d \in Clients
  <2>1. \A r \in done' : Id(r) \in before[d] <=> r \in done /\ Id(r) \in before[d]
    BY <1>3, <1>4, <1>5 DEF Recorded
  <2> QED
    BY <2>1, <1>1, <1>4 DEF Known
<1>10. InPlace'
  <2>1. \A d \in busy' : d \in busy /\ d \in Clients /\ Kind(d)' = Kind(d)
    BY <1>1, <1>3 DEF Counted, Kind
  <2> QED
    BY <2>1, <1>1, <1>3, <1>9 DEF InPlace
<1>11. TotalOrder'
  BY <1>1, <1>3, ZenonT(60) DEF TotalOrder
<1>12. RealTimeOrder'
  <2> SUFFICES ASSUME NEW x \in done', NEW r \in done', Id(x) \in r.before
               PROVE  \/ <<x.val, r.val>> \in prior
                      \/ x.val = r.val /\ r.kind = "read"
    BY <1>1 DEF RealTimeOrder
  <2>1. x \in done
    BY <1>3, <1>4, <1>5 DEF Recorded
  <2>2. CASE r \in done
    BY <2>1, <2>2, <1>3 DEF RealTimeOrder
  <2>3. CASE r = new
    <3>1. x.val \in Known(c)
      BY <2>1, <2>3, <1>4 DEF Known
    <3>2. CASE Kind(c) = "write"
      <4>1. v = <<c, call[c]>> /\ v \in values
        BY <3>2, <1>2 DEF MayReturn
      <4> QED
        BY <2>3, <3>1, <3>2, <4>1, <1>1, <1>3, <1>4 DEF InPlace
    <3>3. CASE Kind(c) = "read"
      BY <2>3, <3>1, <3>3, <1>2, <1>4 DEF MayReturn
    <3> QED
      BY <3>2, <3>3, <1>1, <1>3 DEF Counted
  <2> QED
    BY <2>2, <2>3, <1>4
<1> QED
  BY <1>6, <1>7, <1>8, <1>10, <1>11, <1>12 DEF RegisterInv

LEMMA RegisterInvAlways == Spec => []RegisterInv
<1>1. RegisterInv /\ [Next]_vars => RegisterInv'
  <2> SUFFICES ASSUME RegisterInv, [Next]_vars PROVE RegisterInv'
    OBVIOUS
  <2>1. ASSUME NEW c \in Clients, Invoke(c) \/ Publish(c) \/ Return(c) PROVE RegisterInv'
    BY <2>1, InvokeKeeps, PublishKeeps, ReturnKeeps
  <2>2. CASE UNCHANGED vars
    <3>1. /\ busy' = busy /\ call' = call /\ before' = before /\ values' = values
          /\ prior' = prior /\ done' = done
      BY <2>2 DEF vars
    <3>2. Counted' /\ Recorded' /\ Published'
      BY <3>1 DEF RegisterInv, Counted, Recorded, Published, Ids, Kind
    <3>3. InPlace'
      BY <3>1 DEF RegisterInv, InPlace, Kind, Known
    <3>4. TotalOrder' /\ RealTimeOrder'
      BY <3>1, ZenonT(60) DEF RegisterInv, TotalOrder, RealTimeOrder
    <3> QED
      BY <3>2, <3>3, <3>4 DEF RegisterInv
  <2> QED
    BY <2>1, <2>2 DEF Next
<1> QED
  BY <1>1, RegisterInit, PTL DEF Spec

(***************************************************************************)
(* The values that were published are always in a total order.             *)
(***************************************************************************)
THEOREM ValuesAreOrdered == Spec => []TotalOrder
<1>1. RegisterInv => TotalOrder
  BY DEF RegisterInv
<1> QED
  BY <1>1, RegisterInvAlways, PTL

(***************************************************************************)
(* A write is placed above the values of all calls that had returned when  *)
(* it began, and a read returns none below them.                           *)
(***************************************************************************)
THEOREM CallsFollowTheOrder == Spec => []RealTimeOrder
<1>1. RegisterInv => RealTimeOrder
  BY DEF RegisterInv
<1> QED
  BY <1>1, RegisterInvAlways, PTL

---------------------------------------------------------------------------
(* Linearizability. *)

\* A result is recorded once, and a write returns the value it wrote.
Results ==
    /\ IsFiniteSet(done)
    /\ \A r \in done : /\ r.kind \in {"read", "write"} /\ r.call > 0
                       /\ r.kind = "write" => r.val = Id(r)
                       /\ Id(r) \notin r.before
    /\ \A x, r \in done : Id(x) = Id(r) => x = r

\* What had returned before a call had returned before all later ones.
InThePast ==
    \A x \in done :
       /\ \A c \in Clients : Id(x) \in before[c] => x.before \subseteq before[c]
       /\ \A r \in done : Id(x) \in r.before => x.before \subseteq r.before

\* The initial value comes first; each other one was written by some call.
Written ==
    \A v \in values :
       v = InitVal \/ /\ <<InitVal, v>> \in prior
                      /\ \/ \E w \in done : w.kind = "write" /\ w.val = v
                         \/ \E c \in busy : Kind(c) = "write" /\ v = <<c, call[c]>>

LinearInv == RegisterInv /\ Results /\ InThePast /\ Written

LEMMA LinearInit == Init => LinearInv
<1> SUFFICES ASSUME Init PROVE LinearInv
  OBVIOUS
<1>1. IsFiniteSet(done)
  BY FS_EmptySet DEF Init
<1>2. Results /\ InThePast /\ Written
  BY <1>1 DEF Init, Results, InThePast, Written
<1> QED
  BY <1>2, RegisterInit DEF LinearInv

LEMMA InvokeLinear ==
    ASSUME LinearInv, NEW c \in Clients, Invoke(c)
    PROVE  LinearInv'
<1>1. /\ c \notin busy /\ busy' = busy \cup {c}
      /\ call' = [call EXCEPT ![c] = @ + 1] /\ before' = [before EXCEPT ![c] = Ids]
      /\ values' = values /\ prior' = prior /\ done' = done
  BY DEF Invoke, Ids
<1>2. RegisterInv /\ Counted /\ Recorded /\ Results /\ InThePast /\ Written
  BY DEF LinearInv, RegisterInv
<1>3. RegisterInv'
  BY <1>2, InvokeKeeps
<1>4. Results'
  BY <1>1, <1>2 DEF Results
<1>5. InThePast'
  <2>1. \A d \in Clients : before'[d] = IF d = c THEN Ids ELSE before[d]
    BY <1>1, <1>2 DEF Counted
  <2> QED
    BY <2>1, <1>1, <1>2 DEF InThePast, Recorded
<1>6. Written'
  <2>1. \A d \in busy : d # c /\ d \in Clients /\ call'[d] = call[d]
    BY <1>1, <1>2 DEF Counted
  <2>2. \A d \in busy : Kind(d)' = Kind(d)
    BY <2>1 DEF Kind
  <2> QED
    BY <2>1, <2>2, <1>1, <1>2 DEF Written
<1> QED
  BY <1>3, <1>4, <1>5, <1>6 DEF LinearInv

LEMMA PublishLinear ==
    ASSUME LinearInv, NEW c \in Clients, Publish(c)
    PROVE  LinearInv'
<1> DEFINE v == <<c, call[c]>>
<1>1. /\ c \in busy /\ Kind(c) = "write" /\ v \notin values /\ values' = values \cup {v}
      /\ busy' = busy /\ call' = call /\ before' = before /\ done' = done
  BY DEF Publish
<1>2. PICK lower \in SUBSET values : Known(c) \subseteq lower /\ Insert(v, lower)
  BY DEF Publish
<1>3. RegisterInv /\ Results /\ InThePast /\ Written
  BY DEF LinearInv
<1>4. prior' = prior \cup (lower \X {v}) \cup ({v} \X (values \ lower)) /\ InitVal \in lower
  BY <1>2 DEF Insert, Known
<1>5. RegisterInv'
  BY <1>3, PublishKeeps
<1>6. Results' /\ InThePast'
  BY <1>1, <1>3 DEF Results, InThePast
<1>7. Written'
  <2>1. \A d \in busy : Kind(d)' = Kind(d)
    BY <1>1 DEF Kind
  <2>2. \A u \in values : <<InitVal, u>> \in prior => <<InitVal, u>> \in prior'
    BY <1>4
  <2>3. <<InitVal, v>> \in prior'
    BY <1>4
  <2> QED
    BY <2>1, <2>2, <2>3, <1>1, <1>3 DEF Written
<1> QED
  BY <1>5, <1>6, <1>7 DEF LinearInv

LEMMA ReturnLinear ==
    ASSUME LinearInv, NEW c \in Clients, Return(c)
    PROVE  LinearInv'
<1>1. /\ c \in busy /\ busy' = busy \ {c}
      /\ call' = call /\ before' = before /\ values' = values /\ prior' = prior
  BY DEF Return
<1>2. PICK v \in values :
         /\ MayReturn(c, v)
         /\ done' = done \cup {[client |-> c, call |-> call[c], kind |-> Kind(c),
                                val |-> v, before |-> before[c]]}
  BY DEF Return
<1> DEFINE new == [client |-> c, call |-> call[c], kind |-> Kind(c),
                   val |-> v, before |-> before[c]]
<1>3. RegisterInv /\ Counted /\ Recorded /\ Results /\ InThePast /\ Written
  BY DEF LinearInv, RegisterInv
<1>4. /\ new.client = c /\ new.call = call[c] /\ new.kind = Kind(c) /\ new.val = v
      /\ new.before = before[c] /\ Id(new) = <<c, call[c]>> /\ done' = done \cup {new}
  BY <1>2 DEF Id
<1>5. Kind(c) = "write" => v = <<c, call[c]>>
  BY <1>2 DEF MayReturn
<1> HIDE DEF new
<1>6. /\ Id(new) \notin Ids /\ before[c] \subseteq Ids
      /\ \A r \in done : r.before \subseteq Ids /\ Id(r) \in Ids
  <2>1. ASSUME NEW r \in done, Id(r) = <<c, call[c]>> PROVE FALSE
    <3>1. r.client = c /\ r.call = call[c]
      BY <2>1 DEF Id
    <3> QED
      BY <3>1, <1>1, <1>3 DEF Recorded
  <2>2. Id(new) \notin Ids
    BY <2>1, <1>4 DEF Ids
  <2> QED
    BY <2>2, <1>3 DEF Recorded, Ids
<1>7. RegisterInv'
  BY <1>3, ReturnKeeps
<1>8. Results'
  <2>1. IsFiniteSet(done')
    BY <1>3, <1>4, FS_AddElement DEF Results
  <2>2. Kind(c) \in {"read", "write"} /\ call[c] > 0
    BY <1>1, <1>3 DEF Counted
  <2>3. \A r \in done : Id(r) # Id(new)
    BY <1>6
  <2>4. Id(new) \notin new.before
    BY <1>4, <1>6
  <2> QED
    BY <2>1, <2>2, <2>3, <2>4, <1>3, <1>4, <1>5 DEF Results
<1>9. InThePast'
  <2> SUFFICES ASSUME NEW x \in done'
               PROVE  /\ \A d \in Clients : Id(x) \in before[d] => x.before \subseteq before[d]
                      /\ \A r \in done' : Id(x) \in r.before => x.before \subseteq r.before
    BY <1>1 DEF InThePast
  <2>1. CASE x = new
    <3>1. \A d \in Clients : Id(x) \notin before[d]
      BY <2>1, <1>3, <1>6 DEF Recorded
    <3>2. \A r \in done' : Id(x) \notin r.before
      BY <2>1, <1>4, <1>6
    <3> QED
      BY <3>1, <3>2
  <2>2. CASE x \in done
    BY <2>2, <1>3, <1>4 DEF InThePast
  <2> QED
    BY <2>1, <2>2, <1>4
<1>10. Written'
  <2> SUFFICES ASSUME NEW u \in values, u # InitVal
               PROVE  /\ <<InitVal, u>> \in prior
                      /\ \/ \E w \in done' : w.kind = "write" /\ w.val = u
                         \/ \E d \in busy' : Kind(d)' = "write" /\ u = <<d, call'[d]>>
    BY <1>1 DEF Written
  <2>1. <<InitVal, u>> \in prior
    BY <1>3 DEF Written
  <2>2. CASE \E w \in done : w.kind = "write" /\ w.val = u
    BY <2>1, <2>2, <1>4
  <2>3. CASE \E d \in busy : Kind(d) = "write" /\ u = <<d, call[d]>>
    <3>1. PICK d \in busy : Kind(d) = "write" /\ u = <<d, call[d]>>
      BY <2>3
    <3>2. CASE d = c
      BY <3>1, <3>2, <2>1, <1>4, <1>5
    <3>3. CASE d # c
      <4>1. d \in busy' /\ Kind(d)' = Kind(d)
        BY <3>3, <1>1 DEF Kind
      <4> QED
        BY <4>1, <3>1, <2>1, <1>1
    <3> QED
      BY <3>2, <3>3
  <2> QED
    BY <2>2, <2>3, <1>3 DEF Written
<1> QED
  BY <1>7, <1>8, <1>9, <1>10 DEF LinearInv

LEMMA LinearInvAlways == Spec => []LinearInv
<1>1. LinearInv /\ [Next]_vars => LinearInv'
  <2> SUFFICES ASSUME LinearInv, [Next]_vars PROVE LinearInv'
    OBVIOUS
  <2>1. ASSUME NEW c \in Clients, Invoke(c) \/ Publish(c) \/ Return(c) PROVE LinearInv'
    BY <2>1, InvokeLinear, PublishLinear, ReturnLinear
  <2>2. CASE UNCHANGED vars
    <3>1. /\ busy' = busy /\ call' = call /\ before' = before /\ values' = values
          /\ prior' = prior /\ done' = done
      BY <2>2 DEF vars
    <3>2. RegisterInv'
      <4>1. Counted' /\ Recorded' /\ Published'
        BY <3>1 DEF LinearInv, RegisterInv, Counted, Recorded, Published, Ids, Kind
      <4>2. InPlace'
        BY <3>1 DEF LinearInv, RegisterInv, InPlace, Kind, Known
      <4>3. TotalOrder' /\ RealTimeOrder'
        BY <3>1, ZenonT(60) DEF LinearInv, RegisterInv, TotalOrder, RealTimeOrder
      <4> QED
        BY <4>1, <4>2, <4>3 DEF RegisterInv
    <3>3. Results' /\ InThePast'
      BY <3>1 DEF LinearInv, Results, InThePast
    <3>4. Written'
      BY <3>1 DEF LinearInv, Written, Kind
    <3> QED
      BY <3>2, <3>3, <3>4 DEF LinearInv
  <2> QED
    BY <2>1, <2>2 DEF Next
<1> QED
  BY <1>1, LinearInit, PTL DEF Spec

\* A finite set has an element that is minimal in a strict partial order.
LEMMA MinimalElement ==
    ASSUME NEW S, IsFiniteSet(S), S # {}, NEW R,
           \A x \in S : <<x, x>> \notin R,
           \A x, y, z \in S : <<x, y>> \in R /\ <<y, z>> \in R => <<x, z>> \in R
    PROVE  \E m \in S : \A x \in S : <<x, m>> \notin R
<1> DEFINE below(y) == {x \in S : <<x, y>> \in R}
           sizes == {k \in Nat : \E y \in S : Cardinality(below(y)) = k}
<1>1. \A y \in S : IsFiniteSet(below(y)) /\ Cardinality(below(y)) \in Nat
  <2> TAKE y \in S
  <2>1. below(y) \in SUBSET S
    OBVIOUS
  <2> HIDE DEF below
  <2> QED
    BY <2>1, FS_Subset, FS_CardinalityType
<1>2. PICK k \in sizes : \A j \in sizes : k <= j
  <2>1. sizes \in SUBSET Nat
    OBVIOUS
  <2>2. PICK y \in S : TRUE
    OBVIOUS
  <2>3. Cardinality(below(y)) \in sizes
    BY <1>1, <2>2
  <2> HIDE DEF sizes
  <2> QED
    BY <2>1, <2>3, LeastNumber
<1>3. PICK m \in S : Cardinality(below(m)) = k
  BY <1>2
<1>4. ASSUME NEW x \in S, <<x, m>> \in R PROVE FALSE
  <2>1. below(x) \in SUBSET below(m) /\ x \in below(m) /\ x \notin below(x)
    BY <1>4
  <2>2. /\ IsFiniteSet(below(m)) /\ Cardinality(below(x)) \in Nat
        /\ Cardinality(below(m)) \in Nat /\ Cardinality(below(x)) \in sizes
    BY <1>1
  <2> HIDE DEF below, sizes
  <2>3. Cardinality(below(x)) <= Cardinality(below(m)) /\ below(x) # below(m)
    BY <2>1, <2>2, FS_Subset
  <2>4. Cardinality(below(m)) # Cardinality(below(x))
    BY <2>1, <2>2, <2>3, FS_Subset
  <2>5. Cardinality(below(m)) <= Cardinality(below(x))
    BY <2>2, <1>2, <1>3
  <2> QED
    BY <2>2, <2>3, <2>4, <2>5
<1> QED
  BY <1>4

\* The calls that Linearizable puts in order.
Ops == done \cup PendingWrites(busy)

\* What a linear order of them rests on.
OpsInOrder ==
    /\ IsFiniteSet(Ops)
    /\ \A r \in Ops : /\ r.kind \in {"read", "write"}
                      /\ r.val \in values
                      /\ r.kind = "write" => r.val = Id(r) /\ r.val # InitVal
                      /\ Id(r) \notin r.before
                      /\ r.kind = "read" /\ r.val # InitVal =>
                            \E w \in Ops : w.kind = "write" /\ w.val = r.val
    /\ \A x, r \in Ops : /\ Id(x) = Id(r) => x = r
                         /\ Id(x) \in r.before =>
                               /\ x.before \subseteq r.before
                               /\ \/ <<x.val, r.val>> \in prior
                                  \/ x.val = r.val /\ r.kind = "read"
    /\ InitVal \in values
    /\ \A v \in values : v = InitVal \/ <<InitVal, v>> \in prior

LEMMA PendingWrite ==
    ASSUME LinearInv, NEW w \in PendingWrites(busy)
    PROVE  \E c \in busy : /\ c \in Clients /\ Kind(c) = "write"
                           /\ w.kind = "write" /\ w.before = before[c]
                           /\ w.val = <<c, call[c]>> /\ Id(w) = <<c, call[c]>>
                           /\ w = [client |-> c, call |-> call[c], kind |-> "write",
                                   val |-> <<c, call[c]>>, before |-> before[c]]
                           /\ \E r \in done : r.kind = "read" /\ r.val = w.val
<1>1. PICK c \in busy :
         /\ Kind(c) = "write"
         /\ w = [client |-> c, call |-> call[c], kind |-> "write",
                 val |-> <<c, call[c]>>, before |-> before[c]]
         /\ \E r \in done : r.kind = "read" /\ r.val = w.val
  BY DEF PendingWrites
<1>2. c \in Clients
  BY DEF LinearInv, RegisterInv, Counted
<1> QED
  BY <1>1, <1>2 DEF Id

\* There are no more of them than reads that have returned.
LEMMA PendingFinite ==
    ASSUME LinearInv
    PROVE  IsFiniteSet(PendingWrites(busy))
<1> DEFINE W == PendingWrites(busy)
           S == {r \in done : \E w \in W : r.val = w.val}
           f == [r \in S |-> CHOOSE w \in W : r.val = w.val]
<1>1. \A w, x \in W : w.val = x.val => w = x
  <2> SUFFICES ASSUME NEW w \in W, NEW x \in W, w.val = x.val PROVE w = x
    OBVIOUS
  <2>1. PICK c \in busy : /\ w.val = <<c, call[c]>>
                          /\ w = [client |-> c, call |-> call[c], kind |-> "write",
                                  val |-> <<c, call[c]>>, before |-> before[c]]
    BY PendingWrite
  <2>2. PICK d \in busy : /\ x.val = <<d, call[d]>>
                          /\ x = [client |-> d, call |-> call[d], kind |-> "write",
                                  val |-> <<d, call[d]>>, before |-> before[d]]
    BY PendingWrite
  <2>3. c = d
    BY <2>1, <2>2
  <2> QED
    BY <2>1, <2>2, <2>3
<1>2. \A w \in W : \E r \in S : f[r] = w
  <2> TAKE w \in W
  <2>1. PICK r \in done : r.val = w.val
    BY PendingWrite
  <2>2. r \in S
    BY <2>1
  <2>3. (CHOOSE x \in W : r.val = x.val) \in W /\ r.val = (CHOOSE x \in W : r.val = x.val).val
    BY <2>1
  <2>4. f[r] \in W /\ f[r].val = w.val
    BY <2>1, <2>2, <2>3
  <2> HIDE DEF f, W
  <2> QED
    BY <2>2, <2>4, <1>1
<1>3. f \in [S -> W]
  OBVIOUS
<1>4. IsFiniteSet(S)
  <2>1. IsFiniteSet(done) /\ S \in SUBSET done
    BY DEF LinearInv, Results
  <2> HIDE DEF S
  <2> QED
    BY <2>1, FS_Subset
<1>5. f \in Surjection(S, W)
  <2> HIDE DEF f, S, W
  <2> QED
    BY <1>2, <1>3 DEF Surjection
<1> HIDE DEF f, S
<1> QED
  BY <1>4, <1>5, FS_Surjection

LEMMA OpsAreInOrder ==
    ASSUME LinearInv
    PROVE  OpsInOrder
<1>1. /\ RegisterInv /\ Counted /\ Recorded /\ Published /\ InPlace /\ TotalOrder
      /\ RealTimeOrder /\ Results /\ InThePast /\ Written
  BY DEF LinearInv, RegisterInv
<1>2. IsFiniteSet(Ops)
  BY <1>1, PendingFinite, FS_Union DEF Ops, Results
\* A call that runs is not among those known.
<1>3. ASSUME NEW w \in PendingWrites(busy)
      PROVE  Id(w) \notin Ids /\ \A r \in done : Id(r) # Id(w)
  <2>1. PICK c \in busy : c \in Clients /\ Id(w) = <<c, call[c]>>
    BY PendingWrite
  <2>2. ASSUME NEW r \in done, Id(r) = <<c, call[c]>> PROVE FALSE
    <3>1. r.client = c /\ r.call = call[c]
      BY <2>2 DEF Id
    <3> QED
      BY <3>1, <1>1 DEF Recorded
  <2> QED
    BY <2>1, <2>2 DEF Ids
<1>4. \A r \in Ops : r.before \subseteq Ids
  <2> TAKE r \in Ops
  <2>1. CASE r \in done
    BY <2>1, <1>1 DEF Recorded
  <2>2. CASE r \in PendingWrites(busy)
    BY <2>2, <1>1, PendingWrite DEF Recorded
  <2> QED
    BY <2>1, <2>2 DEF Ops
<1>6. ASSUME NEW r \in Ops
      PROVE  /\ r.kind \in {"read", "write"}
             /\ r.val \in values
             /\ r.kind = "write" => r.val = Id(r) /\ r.val # InitVal
             /\ Id(r) \notin r.before
  <2>1. CASE r \in done
    <3>1. /\ r.kind \in {"read", "write"} /\ r.val \in values /\ Id(r) \notin r.before
          /\ r.kind = "write" => r.val = Id(r)
      BY <2>1, <1>1 DEF Published, Results
    <3>2. Id(r) # InitVal
      <4>1. r.client \in Clients /\ r.call \in Nat \ {0}
        BY <2>1, <1>1 DEF Recorded, Results
      <4> QED
        BY <4>1, RegisterAssumption DEF Id
    <3> QED
      BY <3>1, <3>2
  <2>2. CASE r \in PendingWrites(busy)
    <3>1. PICK c \in busy : /\ c \in Clients /\ r.kind = "write" /\ r.before = before[c]
                            /\ r.val = <<c, call[c]>> /\ Id(r) = <<c, call[c]>>
                            /\ \E x \in done : x.kind = "read" /\ x.val = r.val
      BY <2>2, PendingWrite
    <3>2. r.val \in values
      BY <3>1, <1>1 DEF Published
    <3>3. Id(r) # InitVal
      <4>1. call[c] \in Nat \ {0}
        BY <3>1, <1>1 DEF Counted
      <4> QED
        BY <4>1, <3>1, RegisterAssumption
    <3>4. Id(r) \notin r.before
      BY <2>2, <1>3, <1>4
    <3> QED
      BY <3>1, <3>2, <3>3, <3>4
  <2> QED
    BY <2>1, <2>2 DEF Ops
<1>7. ASSUME NEW r \in Ops, r.kind = "read", r.val # InitVal
      PROVE  \E w \in Ops : w.kind = "write" /\ w.val = r.val
  <2>1. r \in done
    <3>1. r \notin PendingWrites(busy)
      BY <1>7, PendingWrite
    <3> QED
      BY <3>1 DEF Ops
  <2>2. CASE \E w \in done : w.kind = "write" /\ w.val = r.val
    BY <2>2 DEF Ops
  <2>3. CASE \E c \in busy : Kind(c) = "write" /\ r.val = <<c, call[c]>>
    <3>1. PICK c \in busy : Kind(c) = "write" /\ r.val = <<c, call[c]>>
      BY <2>3
    <3> DEFINE w == [client |-> c, call |-> call[c], kind |-> "write",
                     val |-> <<c, call[c]>>, before |-> before[c]]
    <3>2. w \in PendingWrites(busy)
      <4>1. w.val = r.val
        BY <3>1
      <4>2. w \in {[client |-> d, call |-> call[d], kind |-> "write",
                    val |-> <<d, call[d]>>, before |-> before[d]] :
                      d \in {x \in busy : Kind(x) = "write"}}
        BY <3>1
      <4> QED
        BY <4>1, <4>2, <2>1, <1>7 DEF PendingWrites
    <3>3. w.kind = "write" /\ w.val = r.val
      BY <3>1
    <3> QED
      BY <3>2, <3>3 DEF Ops
  <2> QED
    BY <2>1, <2>2, <2>3, <1>1, <1>6, <1>7 DEF Written
<1>8. ASSUME NEW x \in Ops, NEW r \in Ops, Id(x) = Id(r)
      PROVE  x = r
  <2>1. CASE x \in done /\ r \in done
    BY <2>1, <1>1, <1>8 DEF Results
  <2>2. CASE x \in PendingWrites(busy) /\ r \in PendingWrites(busy)
    <3>1. PICK c \in busy : /\ Id(x) = <<c, call[c]>>
                            /\ x = [client |-> c, call |-> call[c], kind |-> "write",
                                    val |-> <<c, call[c]>>, before |-> before[c]]
      BY <2>2, PendingWrite
    <3>2. PICK d \in busy : /\ Id(r) = <<d, call[d]>>
                            /\ r = [client |-> d, call |-> call[d], kind |-> "write",
                                    val |-> <<d, call[d]>>, before |-> before[d]]
      BY <2>2, PendingWrite
    <3>3. c = d
      BY <3>1, <3>2, <1>8
    <3> QED
      BY <3>1, <3>2, <3>3
  <2> QED
    BY <2>1, <2>2, <1>3, <1>8 DEF Ops
<1>9. ASSUME NEW x \in Ops, NEW r \in Ops, Id(x) \in r.before
      PROVE  /\ x.before \subseteq r.before
             /\ \/ <<x.val, r.val>> \in prior
                \/ x.val = r.val /\ r.kind = "read"
  <2>1. x \in done
    <3>1. Id(x) \in Ids
      BY <1>4, <1>9
    <3> QED
      BY <3>1, <1>3 DEF Ops
  <2>2. CASE r \in done
    BY <2>1, <2>2, <1>1, <1>9 DEF InThePast, RealTimeOrder
  <2>3. CASE r \in PendingWrites(busy)
    <3>1. PICK c \in busy : /\ c \in Clients /\ Kind(c) = "write" /\ r.before = before[c]
                            /\ r.val = <<c, call[c]>>
      BY <2>3, PendingWrite
    <3>2. x.before \subseteq r.before
      BY <2>1, <3>1, <1>1, <1>9 DEF InThePast
    <3>3. x.val \in Known(c)
      BY <2>1, <3>1, <1>9 DEF Known
    <3>4. <<c, call[c]>> \in values
      BY <3>1, <1>6
    <3> QED
      BY <3>1, <3>2, <3>3, <3>4, <1>1 DEF InPlace
  <2> QED
    BY <2>2, <2>3 DEF Ops
<1>10. InitVal \in values /\ \A v \in values : v = InitVal \/ <<InitVal, v>> \in prior
  BY <1>1 DEF Published, Written
<1> QED
  BY <1>2, <1>6, <1>7, <1>8, <1>9, <1>10 DEF OpsInOrder

\* After the value cur, the calls in rest can still follow: none has an older
\* value, and a read has this one or that of a write that is in rest as well.
CanFollow(rest, cur) ==
    /\ cur \in values
    /\ \A r \in rest : /\ r.val = cur \/ <<cur, r.val>> \in prior
                       /\ r.kind = "write" => r.val # cur
                       /\ r.kind = "read" /\ r.val # cur =>
                             \E w \in rest : w.kind = "write" /\ w.val = r.val

\* The next call is the write of the lowest value, or else one of its reads.
LEMMA NextCall ==
    ASSUME OpsInOrder, TotalOrder,
           NEW rest \in SUBSET Ops, rest # {}, NEW cur, CanFollow(rest, cur)
    PROVE  \E r \in rest : MayComeFirst(r, rest, cur) /\ CanFollow(rest \ {r}, r.val)
<1> DEFINE R == {p \in rest \X rest : <<p[1].val, p[2].val>> \in prior}
           Q == {p \in rest \X rest : Id(p[1]) \in p[2].before}
<1>1. /\ \A r \in rest : /\ r.kind \in {"read", "write"} /\ r.val \in values
                         /\ r.kind = "write" => r.val = Id(r)
                         /\ Id(r) \notin r.before
      /\ \A x, r \in rest : /\ Id(x) = Id(r) => x = r
                            /\ Id(x) \in r.before =>
                                  /\ x.before \subseteq r.before
                                  /\ \/ <<x.val, r.val>> \in prior
                                     \/ x.val = r.val /\ r.kind = "read"
      /\ IsFiniteSet(rest)
  <2>1. IsFiniteSet(rest)
    BY FS_Subset DEF OpsInOrder
  <2> QED
    BY <2>1 DEF OpsInOrder
<1>2. PICK a \in rest : \A x \in rest : <<x.val, a.val>> \notin prior
  <2>1. \A x \in rest : <<x, x>> \notin R
    BY <1>1 DEF TotalOrder
  <2>2. \A x, y, z \in rest : <<x, y>> \in R /\ <<y, z>> \in R => <<x, z>> \in R
    <3> SUFFICES ASSUME NEW x \in rest, NEW y \in rest, NEW z \in rest,
                        <<x, y>> \in R, <<y, z>> \in R
                 PROVE  <<x, z>> \in R
      OBVIOUS
    <3>1. <<x.val, y.val>> \in prior /\ <<y.val, z.val>> \in prior
      OBVIOUS
    <3>2. x.val \in values /\ y.val \in values /\ z.val \in values
      BY <1>1
    <3>3. <<x.val, z.val>> \in prior
      BY <3>1, <3>2 DEF TotalOrder
    <3> QED
      BY <3>3
  <2>3. \E m \in rest : \A x \in rest : <<x, m>> \notin R
    <3> HIDE DEF R
    <3> QED
      BY <2>1, <2>2, <1>1, MinimalElement
  <2> QED
    BY <2>3
<1>3. \A x \in rest : x.val = a.val \/ <<a.val, x.val>> \in prior
  BY <1>1, <1>2 DEF TotalOrder
<1>4. \A x \in rest : x.val # a.val => ~ (x.val = cur)
  <2> SUFFICES ASSUME NEW x \in rest, x.val # a.val, x.val = cur PROVE FALSE
    OBVIOUS
  <2>1. <<a.val, cur>> \in prior
    BY <1>3
  <2>2. a.val = cur \/ <<cur, a.val>> \in prior
    BY DEF CanFollow
  <2> QED
    BY <2>1, <2>2, <1>1 DEF TotalOrder, CanFollow
<1>5. CASE \E w \in rest : w.kind = "write" /\ w.val = a.val
  <2>1. PICK w \in rest : w.kind = "write" /\ w.val = a.val
    BY <1>5
  <2>2. \A x \in rest : Id(x) \notin w.before
    BY <2>1, <1>1, <1>2
  <2>3. MayComeFirst(w, rest, cur)
    BY <2>1, <2>2 DEF MayComeFirst
  <2>4. \A x \in rest \ {w} : x.kind = "write" => x.val # w.val
    <3> SUFFICES ASSUME NEW x \in rest \ {w}, x.kind = "write", x.val = w.val
                 PROVE  FALSE
      OBVIOUS
    <3>1. Id(x) = Id(w)
      BY <2>1, <1>1
    <3> QED
      BY <3>1, <1>1
  <2>5. \A x \in rest \ {w} : x.kind = "read" /\ x.val # w.val =>
           \E y \in rest \ {w} : y.kind = "write" /\ y.val = x.val
    <3> SUFFICES ASSUME NEW x \in rest \ {w}, x.kind = "read", x.val # w.val
                 PROVE  \E y \in rest \ {w} : y.kind = "write" /\ y.val = x.val
      OBVIOUS
    <3>1. PICK y \in rest : y.kind = "write" /\ y.val = x.val
      BY <2>1, <1>4 DEF CanFollow
    <3> QED
      BY <3>1
  <2>6. CanFollow(rest \ {w}, w.val)
    BY <2>1, <2>4, <2>5, <1>1, <1>3 DEF CanFollow
  <2> QED
    BY <2>3, <2>6
<1>6. CASE \A w \in rest : w.kind = "write" => w.val # a.val
  <2> DEFINE S == {x \in rest : x.val = a.val}
  <2>1. PICK r \in S : \A x \in S : Id(x) \notin r.before
    <3>1. IsFiniteSet(S)
      <4>1. S \in SUBSET rest
        OBVIOUS
      <4> HIDE DEF S
      <4> QED
        BY <4>1, <1>1, FS_Subset
    <3>2. S # {}
      OBVIOUS
    <3>3. \A x \in S : <<x, x>> \notin Q
      BY <1>1
    <3>4. \A x, y, z \in S : <<x, y>> \in Q /\ <<y, z>> \in Q => <<x, z>> \in Q
      BY <1>1
    <3>5. \E m \in S : \A x \in S : <<x, m>> \notin Q
      <4> HIDE DEF S, Q
      <4> QED
        BY <3>1, <3>2, <3>3, <3>4, MinimalElement
    <3> QED
      BY <3>5
  <2>2. r \in rest /\ r.val = a.val /\ r.kind = "read"
    BY <1>1, <1>6
  <2>3. r.val = cur
    BY <2>2, <1>6 DEF CanFollow
  <2>4. \A x \in rest : Id(x) \notin r.before
    BY <2>1, <2>2, <1>1, <1>2
  <2>5. MayComeFirst(r, rest, cur)
    BY <2>2, <2>3, <2>4 DEF MayComeFirst
  <2>6. \A x \in rest \ {r} : x.kind = "read" /\ x.val # cur =>
           \E y \in rest \ {r} : y.kind = "write" /\ y.val = x.val
    <3> SUFFICES ASSUME NEW x \in rest \ {r}, x.kind = "read", x.val # cur
                 PROVE  \E y \in rest \ {r} : y.kind = "write" /\ y.val = x.val
      OBVIOUS
    <3>1. PICK y \in rest : y.kind = "write" /\ y.val = x.val
      BY DEF CanFollow
    <3> QED
      BY <3>1, <2>2
  <2>7. CanFollow(rest \ {r}, r.val)
    <3>1. /\ cur \in values
          /\ \A x \in rest \ {r} : /\ x.val = cur \/ <<cur, x.val>> \in prior
                                   /\ x.kind = "write" => x.val # cur
      BY DEF CanFollow
    <3> QED
      BY <3>1, <2>3, <2>6 DEF CanFollow
  <2> QED
    BY <2>2, <2>5, <2>7
<1> QED
  BY <1>5, <1>6

LEMMA OrderExists ==
    ASSUME OpsInOrder, TotalOrder
    PROVE  Linearizable
<1> DEFINE Good == {st \in States(Ops) : CanFollow(st[1], st[2])}
<1>1. <<Ops, InitVal>> \in Good
  <2>1. <<Ops, InitVal>> \in States(Ops)
    BY DEF States
  <2>2. CanFollow(Ops, InitVal)
    BY DEF OpsInOrder, CanFollow
  <2> QED
    BY <2>1, <2>2
<1>2. ASSUME NEW st \in Good PROVE GoesOn(Good, st)
  <2>1. st \in States(Ops) /\ st[1] \in SUBSET Ops /\ CanFollow(st[1], st[2])
    BY DEF States
  <2>2. CASE st[1] = {}
    BY <2>2 DEF GoesOn
  <2>3. CASE st[1] # {}
    <3>1. PICK r \in st[1] : MayComeFirst(r, st[1], st[2]) /\ CanFollow(st[1] \ {r}, r.val)
      BY <2>1, <2>3, NextCall
    <3>2. <<st[1] \ {r}, r.val>> \in States(Ops)
      BY <2>1, StateAfter
    <3>3. <<st[1] \ {r}, r.val>> \in Good
      BY <3>1, <3>2
    <3> HIDE DEF Good
    <3> QED
      BY <3>1, <3>3 DEF GoesOn
  <2> QED
    BY <2>2, <2>3
<1>3. IsFiniteSet(Ops) /\ Good \in SUBSET States(Ops)
  BY DEF OpsInOrder
<1> HIDE DEF Good
<1>4. HasLinearOrder(Ops)
  BY <1>1, <1>2, <1>3, GoingOnGivesOrder
<1> QED
  BY <1>4 DEF Linearizable, Ops

(***************************************************************************)
(* The register is atomic: the calls that have returned, with the writes   *)
(* whose value has been read, can be put in one sequence that agrees with  *)
(* real time, in which each read returns what the last write wrote.        *)
(***************************************************************************)
THEOREM RegisterIsAtomic == Spec => []Linearizable
<1>1. LinearInv => Linearizable
  BY OpsAreInOrder, OrderExists DEF LinearInv, RegisterInv
<1> QED
  BY <1>1, LinearInvAlways, PTL
=============================================================================
