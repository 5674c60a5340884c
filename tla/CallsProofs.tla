---------------------------- MODULE CallsProofs ----------------------------
(***************************************************************************)
(* What the proofs about both algorithms rest on: majorities, the          *)
(* sequences that stand for channels, the order of tags, and the calls of  *)
(* a script.                                                               *)
(***************************************************************************)
EXTENDS Calls, FiniteSetTheorems, TLAPS

---------------------------------------------------------------------------
(* Majorities and channels. *)

LEMMA MajorityType ==
    ASSUME NEW n \in Nat, n > 0
    PROVE  /\ Majority(n) \in Nat \ {0}
           /\ Majority(n) <= n
           /\ 2 * Majority(n) > n
BY DEF Majority

LEMMA ServersFinite ==
    /\ Cardinality(Servers) \in Nat
    /\ Cardinality(Servers) > 0
<1>1. IsFiniteSet(Servers) /\ Servers # {}
  BY CallsAssumption
<1> QED
  BY <1>1, FS_CardinalityType, FS_EmptySet

LEMMA MajorityOfServers ==
    /\ Majority(Cardinality(Servers)) \in Nat \ {0}
    /\ Majority(Cardinality(Servers)) <= Cardinality(Servers)
    /\ 2 * Majority(Cardinality(Servers)) > Cardinality(Servers)
BY MajorityType, ServersFinite

LEMMA TwoMajorities ==
    ASSUME NEW A \in SUBSET Servers, NEW Q \in SUBSET Servers,
           Cardinality(A) >= Majority(Cardinality(Servers)),
           Cardinality(Q) >= Majority(Cardinality(Servers))
    PROVE  \E s \in Q : s \in A
<1>1. IsFiniteSet(Servers) /\ IsFiniteSet(A) /\ IsFiniteSet(Q)
  BY CallsAssumption, FS_Subset
<1>2. IsFiniteSet(A \cap Q) /\ IsFiniteSet(A \cup Q)
  BY <1>1, FS_Intersection, FS_Union
<1>3. /\ Cardinality(A) \in Nat /\ Cardinality(Q) \in Nat
      /\ Cardinality(A \cap Q) \in Nat /\ Cardinality(A \cup Q) \in Nat
      /\ Cardinality(Servers) \in Nat
  BY <1>1, <1>2, FS_CardinalityType
<1>4. Cardinality(A \cup Q) = Cardinality(A) + Cardinality(Q) - Cardinality(A \cap Q)
  BY <1>1, FS_Union
<1>5. Cardinality(A \cup Q) <= Cardinality(Servers)
  BY <1>1, FS_Subset
<1>6. Cardinality(A \cap Q) > 0
  BY <1>3, <1>4, <1>5, MajorityOfServers
<1> QED
  BY <1>6, FS_EmptySet

LEMMA SeqLength ==
    ASSUME NEW S, NEW q \in Seq(S)
    PROVE  Len(q) \in Nat
OBVIOUS

LEMMA SeqElement ==
    ASSUME NEW S, NEW q \in Seq(S), NEW k \in 1 .. Len(q)
    PROVE  q[k] \in S
OBVIOUS

LEMMA ChannelAppend ==
    ASSUME NEW S, NEW q \in Seq(S), NEW m \in S
    PROVE  /\ Append(q, m) \in Seq(S)
           /\ Append(q, m) # <<>>
           /\ Len(Append(q, m)) = Len(q) + 1
           /\ \A i \in 1 .. Len(q) : Append(q, m)[i] = q[i]
           /\ Append(q, m)[Len(q) + 1] = m
OBVIOUS

LEMMA ChannelTail ==
    ASSUME NEW S, NEW q \in Seq(S), q # <<>>
    PROVE  /\ Head(q) \in S
           /\ Head(q) = q[1]
           /\ Tail(q) \in Seq(S)
           /\ Len(q) > 0
           /\ Len(Tail(q)) = Len(q) - 1
           /\ \A i \in 1 .. Len(Tail(q)) : Tail(q)[i] = q[i + 1]
OBVIOUS

LEMMA ChannelPrefix ==
    ASSUME NEW S, NEW q \in Seq(S), NEW k \in 0 .. Len(q)
    PROVE  /\ SubSeq(q, 1, k) \in Seq(S)
           /\ Len(SubSeq(q, 1, k)) = k
           /\ \A i \in 1 .. k : SubSeq(q, 1, k)[i] = q[i]
OBVIOUS

---------------------------------------------------------------------------
(* The order of the tags. *)

LEMMA StrCmpOrder ==
    /\ \A a, b \in Names : StrCmp[a][b] \in Int
    /\ \A a \in Names : StrCmp[a][a] = 0
    /\ \A a, b \in Names : StrCmp[a][b] < 0 <=> StrCmp[b][a] > 0
    /\ \A a, b, c \in Names :
          StrCmp[a][b] >= 0 /\ StrCmp[b][c] >= 0 => StrCmp[a][c] >= 0
<1>1. /\ \A a, b \in Names : StrCmp[a][b] \in Int
      /\ \A a, b \in Names : StrCmp[a][b] = 0 <=> a = b
      /\ \A a, b \in Names : StrCmp[a][b] < 0 <=> StrCmp[b][a] > 0
      /\ \A a, b, c \in Names :
            StrCmp[a][b] < 0 /\ StrCmp[b][c] < 0 => StrCmp[a][c] < 0
  BY NamesAssumption
<1>2. ASSUME NEW a \in Names, NEW b \in Names, NEW c \in Names,
             StrCmp[a][b] >= 0, StrCmp[b][c] >= 0, StrCmp[a][c] < 0
      PROVE  FALSE
  <2>1. StrCmp[a][b] # 0
    BY <1>1, <1>2
  <2>2. StrCmp[b][a] < 0
    BY <1>1, <1>2, <2>1
  <2>3. StrCmp[b][c] < 0
    BY <1>1, <1>2, <2>2
  <2> QED
    BY <1>1, <1>2, <2>3
<1>3. \A a, b, c \in Names :
         StrCmp[a][b] >= 0 /\ StrCmp[b][c] >= 0 => StrCmp[a][c] >= 0
  BY <1>1, <1>2
<1> QED
  BY <1>1, <1>3

LEMMA AboveOrder ==
    /\ \A a \in Tag : ~Above(a, a)
    /\ \A a, b \in Tag : a.z > b.z => Above(a, b)
    /\ \A a, b \in Tag : a # b => (Above(a, b) <=> ~Above(b, a))
    /\ \A a, b, c \in Tag : Above(a, b) /\ Above(b, c) => Above(a, c)
<1>1. \A a \in Tag : a.z \in Nat /\ a.id \in Names /\ a = [z |-> a.z, id |-> a.id]
  BY DEF Tag
<1>2. ASSUME NEW a \in Tag, NEW b \in Tag
      PROVE  /\ ~Above(a, a) /\ (a.z > b.z => Above(a, b))
             /\ a # b => (Above(a, b) <=> ~Above(b, a))
  <2>1. /\ StrCmp[a.id][b.id] \in Int /\ StrCmp[b.id][a.id] \in Int
        /\ StrCmp[a.id][b.id] < 0 <=> StrCmp[b.id][a.id] > 0
        /\ StrCmp[b.id][a.id] < 0 <=> StrCmp[a.id][b.id] > 0
        /\ StrCmp[a.id][b.id] = 0 <=> a.id = b.id
    BY <1>1, NamesAssumption
  <2>2. a.z = b.z /\ a.id = b.id => a = b
    BY <1>1
  <2> QED
    BY <1>1, <2>1, <2>2 DEF Above, AtLeast
<1>3. ASSUME NEW a \in Tag, NEW b \in Tag, NEW c \in Tag, Above(a, b), Above(b, c)
      PROVE  Above(a, c)
  <2>1. StrCmp[a.id][b.id] >= 0 /\ StrCmp[b.id][c.id] >= 0 => StrCmp[a.id][c.id] >= 0
    BY <1>1, StrCmpOrder
  <2>2. AtLeast(a, c)
    BY <1>1, <1>3, <2>1 DEF Above, AtLeast
  <2>3. a # c
    <3> SUFFICES ASSUME a = c PROVE FALSE
      OBVIOUS
    <3> QED
      BY <1>2, <1>3 DEF Above
  <2> QED
    BY <2>2, <2>3 DEF Above
<1> QED
  BY <1>2, <1>3

---------------------------------------------------------------------------
(* What the code takes for newer. *)

AnyTag == [z : Int, id : Names]

LEMMA TagsAreTags ==
    /\ Tag \subseteq AnyTag
    /\ NoTag \in AnyTag
BY NamesAssumption DEF Tag, NoTag, AnyTag

LEMMA NewerReflexive ==
    ASSUME NEW a \in AnyTag
    PROVE  Newer(a, a)
BY StrCmpOrder DEF AnyTag, Newer, AtLeast

LEMMA NewerTransitive ==
    ASSUME NEW a \in AnyTag, NEW b \in AnyTag, NEW c \in AnyTag,
           Newer(a, b), Newer(b, c)
    PROVE  Newer(a, c)
<1>1. a.z \in Int /\ b.z \in Int /\ c.z \in Int /\ a.id \in Names /\ b.id \in Names
      /\ c.id \in Names
  BY DEF AnyTag
<1>2. StrCmp[a.id][b.id] >= 0 /\ StrCmp[b.id][c.id] >= 0 => StrCmp[a.id][c.id] >= 0
  BY <1>1, StrCmpOrder
<1> QED
  BY <1>1, <1>2 DEF Newer, AtLeast

LEMMA NewerCounter ==
    ASSUME NEW a \in AnyTag, NEW b \in AnyTag
    PROVE  /\ Newer(a, b) => a.z >= b.z
           /\ a.z > b.z => Newer(a, b)
BY DEF AnyTag, Newer, AtLeast

LEMMA AtLeastNewer ==
    ASSUME NEW a \in AnyTag, NEW b \in AnyTag, AtLeast(a, b)
    PROVE  Newer(a, b)
BY DEF AnyTag, Newer, AtLeast

LEMMA CompareTagPtrs ==
    ASSUME NEW a \in AnyTag, NEW b \in AnyTag
    PROVE  /\ compare_tag_ptrs(a, b) = 1 => Newer(a, b)
           /\ compare_tag_ptrs(a, b) # 1 => Newer(b, a)
           /\ compare_tag_ptrs(a, b) < 0 => Newer(b, a)
           /\ ~(compare_tag_ptrs(a, b) < 0) => Newer(a, b)
<1>1. a.z \in Int /\ b.z \in Int /\ a.id \in Names /\ b.id \in Names
  BY DEF AnyTag
<1>2. /\ StrCmp[a.id][b.id] \in Int /\ StrCmp[b.id][a.id] \in Int
      /\ StrCmp[a.id][b.id] < 0 <=> StrCmp[b.id][a.id] > 0
      /\ StrCmp[b.id][a.id] < 0 <=> StrCmp[a.id][b.id] > 0
      /\ UnitStrCmp => StrCmp[a.id][b.id] \in {-1, 0, 1}
  BY <1>1, StrCmpOrder DEF UnitStrCmp
<1> QED
  BY <1>1, <1>2 DEF compare_tag_ptrs, Newer, AtLeast

\* The running maximum is as new as what it was and as what it is compared with.
LEMMA MaxTagNewer ==
    ASSUME NEW a \in AnyTag, NEW b \in AnyTag
    PROVE  Newer(MaxTagStep(a, b), a) /\ Newer(MaxTagStep(a, b), b)
BY CompareTagPtrs, NewerReflexive DEF MaxTagStep

---------------------------------------------------------------------------
(* The order of the values. *)

\* A tag of S stands for one value, and a value for one tag.
OneToOne(S) == \A x, y \in S : x.tag = y.tag <=> x.val = y.val

LEMMA TagOrderMembers ==
    ASSUME NEW S, NEW u, NEW v
    PROVE  <<u, v>> \in TagOrder(S)
             <=> \E o, p \in S : u = o.val /\ v = p.val /\ Above(p.tag, o.tag)
<1>1. ASSUME NEW o \in S, NEW p \in S, u = o.val, v = p.val, Above(p.tag, o.tag)
      PROVE  <<u, v>> \in TagOrder(S)
  <2>1. <<o, p>> \in {x \in S \X S : Above(x[2].tag, x[1].tag)}
    BY <1>1
  <2> QED
    BY <2>1, <1>1 DEF TagOrder
<1>2. ASSUME <<u, v>> \in TagOrder(S)
      PROVE  \E o, p \in S : u = o.val /\ v = p.val /\ Above(p.tag, o.tag)
  <2>1. PICK q \in S \X S : Above(q[2].tag, q[1].tag) /\ <<u, v>> = <<q[1].val, q[2].val>>
    BY <1>2 DEF TagOrder
  <2> QED
    BY <2>1
<1> QED
  BY <1>1, <1>2

\* Where a tag stands for one value, the order of two values is that of their tags.
LEMMA OrderOfTags ==
    ASSUME NEW S, OneToOne(S), NEW o \in S, NEW p \in S
    PROVE  <<o.val, p.val>> \in TagOrder(S) <=> Above(p.tag, o.tag)
<1>1. ASSUME <<o.val, p.val>> \in TagOrder(S) PROVE Above(p.tag, o.tag)
  <2>1. PICK x, y \in S : o.val = x.val /\ p.val = y.val /\ Above(y.tag, x.tag)
    BY <1>1, TagOrderMembers
  <2>2. o.tag = x.tag /\ p.tag = y.tag
    BY <2>1 DEF OneToOne
  <2> QED
    BY <2>1, <2>2
<1>2. ASSUME Above(p.tag, o.tag) PROVE <<o.val, p.val>> \in TagOrder(S)
  BY <1>2, TagOrderMembers
<1> QED
  BY <1>1, <1>2

LEMMA OrderIsTotal ==
    ASSUME NEW S, \A o \in S : o.tag \in Tag, OneToOne(S),
           NEW u \in Vals(S), NEW v \in Vals(S)
    PROVE  /\ u # v <=> (<<u, v>> \in TagOrder(S) \/ <<v, u>> \in TagOrder(S))
           /\ ~(<<u, v>> \in TagOrder(S) /\ <<v, u>> \in TagOrder(S))
           /\ \A w \in Vals(S) : <<u, v>> \in TagOrder(S) /\ <<v, w>> \in TagOrder(S)
                 => <<u, w>> \in TagOrder(S)
<1>1. \A w \in Vals(S) : \E o \in S : w = o.val
  BY DEF Vals
<1>2. PICK o, p \in S : u = o.val /\ v = p.val
  BY <1>1
<1>3. /\ <<u, v>> \in TagOrder(S) <=> Above(p.tag, o.tag)
      /\ <<v, u>> \in TagOrder(S) <=> Above(o.tag, p.tag)
      /\ u = v <=> o.tag = p.tag
  BY <1>2, OrderOfTags DEF OneToOne
<1>4. ASSUME NEW w \in Vals(S), <<u, v>> \in TagOrder(S), <<v, w>> \in TagOrder(S)
      PROVE  <<u, w>> \in TagOrder(S)
  <2>1. PICK q \in S : w = q.val
    BY <1>1
  <2>2. Above(q.tag, p.tag) /\ (<<u, w>> \in TagOrder(S) <=> Above(q.tag, o.tag))
    BY <1>2, <1>4, <2>1, OrderOfTags
  <2> QED
    BY <1>3, <1>4, <2>2, AboveOrder
<1> QED
  BY <1>3, <1>4, AboveOrder

LEMMA SameRelation ==
    ASSUME NEW V, NEW A, NEW B, A \subseteq V \X V, B \subseteq V \X V,
           \A u, w \in V : <<u, w>> \in A <=> <<u, w>> \in B
    PROVE  A = B
OBVIOUS

\* The values below a tag.
Below(S, t) == {o.val : o \in {p \in S : Above(t, p.tag)}}

\* A new tagged value takes its place in the order.
LEMMA OrderInserts ==
    ASSUME NEW S, NEW T, NEW new, T = S \cup {new}, \A o \in T : o.tag \in Tag,
           OneToOne(T), \A p \in S : p.tag # new.tag
    PROVE  LET v     == new.val
               lower == Below(S, new.tag)
           IN  /\ v \notin Vals(S) /\ Vals(T) = Vals(S) \cup {v}
               /\ lower \in SUBSET Vals(S)
               /\ \A p \in S : p.val \in lower <=> Above(new.tag, p.tag)
               /\ \A u \in Vals(S), w \in lower : <<u, w>> \in TagOrder(S) => u \in lower
               /\ TagOrder(T) = TagOrder(S) \cup (lower \X {v}) \cup ({v} \X (Vals(S) \ lower))
<1> DEFINE v     == new.val
           t     == new.tag
           lower == Below(S, new.tag)
<1>1. new \in T /\ S \subseteq T
  OBVIOUS
<1>2. v \notin Vals(S) /\ Vals(T) = Vals(S) \cup {v}
  <2>1. \A p \in S : p.val # v
    BY <1>1 DEF OneToOne
  <2>2. v \notin Vals(S)
    BY <2>1 DEF Vals
  <2>3. \A w : w \in Vals(T) <=> w \in Vals(S) \cup {v}
    BY DEF Vals
  <2> QED
    BY <2>2, <2>3
<1>3. ASSUME NEW p \in S PROVE p.val \in lower <=> Above(t, p.tag)
  <2>1. p.val \in lower <=> \E o \in S : p.val = o.val /\ Above(t, o.tag)
    BY DEF Below
  <2>2. \A o \in S : p.val = o.val <=> p.tag = o.tag
    BY <1>1 DEF OneToOne
  <2> QED
    BY <2>1, <2>2
<1>4. lower \in SUBSET Vals(S)
  BY DEF Below, Vals
<1>5. \A u \in Vals(T) : \E p \in T : u = p.val
  BY DEF Vals
<1>6. \A u \in Vals(S) : \E p \in S : u = p.val
  BY DEF Vals
<1> HIDE DEF v, lower
<1>7. \A o, p \in S : <<o.val, p.val>> \in TagOrder(S) <=> Above(p.tag, o.tag)
  <2>1. OneToOne(S)
    BY <1>1 DEF OneToOne
  <2> QED
    BY <2>1, OrderOfTags
<1>8. \A o, p \in T : <<o.val, p.val>> \in TagOrder(T) <=> Above(p.tag, o.tag)
  BY OrderOfTags
<1>9. \A u \in Vals(S), w \in lower : <<u, w>> \in TagOrder(S) => u \in lower
  <2> SUFFICES ASSUME NEW o \in S, NEW p \in S, p.val \in lower,
                      <<o.val, p.val>> \in TagOrder(S)
               PROVE  o.val \in lower
    BY <1>4, <1>6
  <2>1. Above(t, p.tag) /\ Above(p.tag, o.tag)
    BY <1>3, <1>7
  <2> QED
    BY <2>1, <1>1, <1>3, AboveOrder
<1>10. TagOrder(T) = TagOrder(S) \cup (lower \X {v}) \cup ({v} \X (Vals(S) \ lower))
  <2> DEFINE P == TagOrder(S) \cup (lower \X {v}) \cup ({v} \X (Vals(S) \ lower))
  <2>1. TagOrder(S) \subseteq Vals(S) \X Vals(S) /\ TagOrder(T) \subseteq Vals(T) \X Vals(T)
    BY DEF TagOrder, Vals
  <2>2. P \subseteq Vals(T) \X Vals(T)
    BY <2>1, <1>2, <1>4, ZenonT(60)
  <2>3. ASSUME NEW o \in T, NEW p \in T
        PROVE  <<o.val, p.val>> \in P <=> Above(p.tag, o.tag)
    <3>1. /\ o \in S => o.val \in Vals(S)
          /\ p \in S => p.val \in Vals(S)
      BY DEF Vals
    <3>2. CASE o \in S /\ p \in S
      <4>1. <<o.val, p.val>> \in P <=> <<o.val, p.val>> \in TagOrder(S)
        BY <3>1, <3>2, <1>2
      <4> QED
        BY <3>2, <4>1, <1>7
    <3>3. CASE o \in S /\ p = new
      <4>1. <<o.val, p.val>> \in P <=> o.val \in lower
        BY <3>1, <3>3, <2>1, <1>2 DEF v
      <4> QED
        BY <3>3, <4>1, <1>3
    <3>4. CASE o = new /\ p \in S
      <4>1. <<o.val, p.val>> \in P <=> p.val \notin lower
        BY <3>1, <3>4, <2>1, <1>2, <1>4 DEF v
      <4>2. t # p.tag /\ t \in Tag /\ p.tag \in Tag
        BY <3>4, <1>1
      <4> QED
        BY <3>4, <4>1, <4>2, <1>3, AboveOrder
    <3>5. CASE o = new /\ p = new
      <4>1. <<v, v>> \notin P
        BY <2>1, <1>2, <1>4
      <4> QED
        BY <3>5, <4>1, <1>1, AboveOrder DEF v
    <3> QED
      BY <3>2, <3>3, <3>4, <3>5
  <2>4. ASSUME NEW u \in Vals(T), NEW w \in Vals(T)
        PROVE  <<u, w>> \in TagOrder(T) <=> <<u, w>> \in P
    <3>1. PICK o, p \in T : u = o.val /\ w = p.val
      BY <1>5
    <3> HIDE DEF P
    <3> QED
      BY <3>1, <2>3, <1>8
  <2>5. \A u, w \in Vals(T) : <<u, w>> \in TagOrder(T) <=> <<u, w>> \in P
    <3> HIDE DEF P
    <3> QED
      BY <2>4
  <2>6. TagOrder(T) = P
    <3> DEFINE V == Vals(T)
               A == TagOrder(T)
    <3>1. A \subseteq V \X V /\ P \subseteq V \X V
      BY <2>1, <2>2
    <3>2. \A u, w \in V : <<u, w>> \in A <=> <<u, w>> \in P
      BY <2>5
    <3>3. A = P
      <4> HIDE DEF P, A, V
      <4> QED
        BY <3>1, <3>2, SameRelation
    <3> QED
      BY <3>3
  <2> QED
    BY <2>6
<1> QED
  BY <1>2, <1>3, <1>4, <1>9, <1>10 DEF v, lower

---------------------------------------------------------------------------
(* Types. *)

LEMMA InitialTypes ==
    /\ InitTag \in Tag /\ NoTag \notin Tag
    /\ InitVal \in Values
    /\ InitObject \in Object
<1>1. InitTag \in Tag
  BY NamesAssumption DEF InitTag, Tag
<1>2. NoTag \notin Tag
  BY DEF NoTag, Tag
<1> QED
  BY <1>1, <1>2 DEF InitVal, Values, InitObject, Object

LEMMA CallType ==
    ASSUME NEW c \in Clients, NEW k \in Nat, 0 < k, k <= Len(Script[c])
    PROVE  Script[c][k] \in [kind : Kinds, num : Nat]
<1>1. Script[c] \in Seq([kind : Kinds, num : Nat])
  BY CallsAssumption
<1>2. k \in 1 .. Len(Script[c])
  BY <1>1
<1> QED
  BY <1>1, <1>2, SeqElement
============================================================================
