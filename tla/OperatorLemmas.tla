---------------------------- MODULE OperatorLemmas ----------------------------
(***************************************************************************)
(* Facts about the operators several models are built from: what the       *)
(* distribution of roles guarantees at every table large enough to start,  *)
(* and what becomes of a list that holds nobody twice, such as the players *)
(* of a room or the sockets of a channel in the order they joined.         *)
(***************************************************************************)
EXTENDS RoleDistribution, SequencesExt, SequenceTheorems, FiniteSetTheorems, WellFoundedInduction, TLAPS

\* computeRoleDistribution hands out exactly one role per player, at least one
\* wolf, and fewer wolves than other players, from MIN_PLAYERS_TO_START upwards.
THEOREM DistributionFits ==
  ASSUME NEW n \in Nat, n >= MIN_PLAYERS_TO_START
  PROVE  LET d == computeRoleDistribution(n)
         IN  /\ \A r \in Roles : d[r] \in Nat
             /\ d.werewolf + d.seer + d.witch + d.guard + d.villager = n
             /\ 1 <= d.werewolf /\ d.werewolf < n - d.werewolf
<1> DEFINE d == computeRoleDistribution(n)
<1>1. n \div 4 \in Nat /\ 4 * (n \div 4) <= n
  BY SMT
<1>2. /\ d.werewolf = AtLeast(1, n \div 4)
      /\ d.seer = IF n >= 5 THEN 1 ELSE 0
      /\ d.witch = IF n >= 6 THEN 1 ELSE 0
      /\ d.guard = IF n >= 7 THEN 1 ELSE 0
      /\ d.villager = AtLeast(0, n - (d.werewolf + d.seer + d.witch + d.guard))
  BY DEF computeRoleDistribution
<1> HIDE DEF d
<1>3. d.werewolf \in Nat /\ 1 <= d.werewolf /\ 2 * d.werewolf < n
  BY <1>1, <1>2 DEF AtLeast, MIN_PLAYERS_TO_START
<1>4. d.werewolf + d.seer + d.witch + d.guard \in 0..n
  BY <1>1, <1>2 DEF AtLeast, MIN_PLAYERS_TO_START
<1>5. \A r \in Roles : d[r] \in Nat
  BY <1>2, <1>3, <1>4 DEF AtLeast, Roles
<1>6. d.werewolf + d.seer + d.witch + d.guard + d.villager = n
  BY <1>2, <1>3, <1>4 DEF AtLeast
<1> QED
  BY <1>3, <1>5, <1>6 DEF d

\* No deal is decided before the first night: at a table of at least four there
\* is a wolf, and the wolves are fewer than the others.
THEOREM DealIsOpen ==
  ASSUME NEW players, IsFiniteSet(players),
         Cardinality(players) >= MIN_PLAYERS_TO_START,
         NEW role \in assignRoles(players)
  PROVE  LET wolves == {p \in players : role[p] = "werewolf"}
         IN  /\ Cardinality(wolves) >= 1
             /\ Cardinality(wolves) < Cardinality(players \ wolves)
<1> DEFINE n == Cardinality(players)
           wolves == {p \in players : role[p] = "werewolf"}
<1>1. n \in Nat
  BY FS_CardinalityType
<1>2. Cardinality(wolves) = computeRoleDistribution(n).werewolf
  BY DEF assignRoles, Roles
<1>3. Cardinality(players \ wolves) = n - Cardinality(wolves)
  <2>1. players \cap wolves = wolves
    OBVIOUS
  <2> QED BY <2>1, FS_Difference
<1> QED
  BY <1>1, <1>2, <1>3, DistributionFits
-------------------------------------------------------------------------------
\* Where p stands in a list that holds nobody twice.
LEMMA PositionOf ==
  ASSUME NEW S, NEW l \in Seq(S), IsInjective(l), NEW p, p \in ToSet(l)
  PROVE  \E i \in 1 .. Len(l) : /\ l[i] = p
                                /\ \A j \in 1 .. Len(l) : l[j] = p <=> j = i
                                /\ RemoveFirst(l, p) = RemoveAt(l, i)
<1>1. PICK i \in 1 .. Len(l) : l[i] = p
  BY LenProperties DEF ToSet
<1>2. \A j \in 1 .. Len(l) : l[j] = p <=> j = i
  BY <1>1, LenProperties DEF IsInjective
<1>3. {j \in 1 .. Len(l) : l[j] = p} = {i}
  BY <1>1, <1>2
<1>4. Min({i}) = i
  BY LenProperties DEF Min
<1>5. SelectInSeq(l, LAMBDA v : v = p) = i
  BY <1>3, <1>4 DEF SelectInSeq
<1>6. RemoveFirst(l, p) = RemoveAt(l, i)
  BY <1>1, <1>5 DEF RemoveFirst
<1> QED
  BY <1>1, <1>2, <1>6

\* The list without its i-th entry.
LEMMA EntryRemoved ==
  ASSUME NEW S, NEW l \in Seq(S), NEW i \in 1 .. Len(l)
  PROVE  LET m == RemoveAt(l, i)
         IN  /\ m \in Seq(S) /\ Len(m) = Len(l) - 1 /\ Len(l) \in Nat
             /\ \A j \in 1 .. Len(m) : m[j] = IF j < i THEN l[j] ELSE l[j + 1]
<1> DEFINE a == SubSeq(l, 1, i - 1)
           b == SubSeq(l, i + 1, Len(l))
<1>1. Len(l) \in Nat /\ \A j \in 1 .. Len(l) : l[j] \in S
  BY LenProperties, ElementOfSeq
<1>2. /\ a \in Seq(S) /\ Len(a) = i - 1
      /\ \A j \in 1 .. i - 1 : a[j] = l[j]
  BY <1>1, SubSeqProperties
<1>3. /\ b \in Seq(S) /\ Len(b) = Len(l) - i
      /\ \A j \in 1 .. Len(l) - i : b[j] = l[i + j]
  BY <1>1, SubSeqProperties
<1> HIDE DEF a, b
<1>4. /\ a \o b \in Seq(S) /\ Len(a \o b) = Len(l) - 1
      /\ \A j \in 1 .. Len(l) - 1 : (a \o b)[j] = IF j <= i - 1 THEN a[j] ELSE b[j - (i - 1)]
  <2>1. /\ a \o b \in Seq(S) /\ Len(a \o b) = Len(a) + Len(b)
        /\ \A j \in 1 .. Len(a) + Len(b) :
             (a \o b)[j] = IF j <= Len(a) THEN a[j] ELSE b[j - Len(a)]
    BY <1>2, <1>3, ConcatProperties
  <2>2. Len(a) = i - 1 /\ Len(a) + Len(b) = Len(l) - 1
    BY <1>1, <1>2, <1>3
  <2> QED BY <2>1, <2>2
<1>5. ASSUME NEW j \in 1 .. Len(l) - 1
      PROVE  (a \o b)[j] = IF j < i THEN l[j] ELSE l[j + 1]
  <2>1. CASE j < i
    BY <1>2, <1>4, <1>1, <2>1
  <2>2. CASE j >= i
    <3>1. j - (i - 1) \in 1 .. Len(l) - i /\ i + (j - (i - 1)) = j + 1
      BY <1>1, <2>2
    <3>2. (a \o b)[j] = b[j - (i - 1)]
      BY <1>1, <1>4, <2>2
    <3> QED BY <1>1, <1>3, <2>2, <3>1, <3>2
  <2>3. j < i \/ j >= i
    BY <1>1
  <2> QED BY <2>1, <2>2, <2>3
<1>6. RemoveAt(l, i) = a \o b
  BY DEF RemoveAt, a, b
<1> DEFINE m == RemoveAt(l, i)
<1>7. m \in Seq(S) /\ Len(m) = Len(l) - 1
  BY <1>4, <1>6
<1>8. \A j \in 1 .. Len(m) : m[j] = IF j < i THEN l[j] ELSE l[j + 1]
  BY <1>5, <1>6, <1>7
<1> HIDE DEF m
<1> QED
  BY <1>1, <1>7, <1>8 DEF m

\* The list without p: the others in their order, the eldest of them in front.
LEMMA TakenOff ==
  ASSUME NEW S, NEW l \in Seq(S), IsInjective(l), NEW p
  PROVE  LET m == RemoveFirst(l, p)
         IN  /\ m \in Seq(S) /\ IsInjective(m)
             /\ ToSet(m) = ToSet(l) \ {p}
             /\ p \notin ToSet(l) => m = l
             /\ l # <<>> /\ Head(l) # p => m # <<>> /\ Head(m) = Head(l)
             /\ ~(ToSet(l) \subseteq {p}) => m # <<>>
<1> DEFINE m == RemoveFirst(l, p)
<1>1. CASE p \notin ToSet(l)
  <2>1. m = l
    BY <1>1, LenProperties DEF RemoveFirst, ToSet
  <2>2. ToSet(l) \ {p} = ToSet(l)
    BY <1>1
  <2>3. l = <<>> => ToSet(l) = {}
    BY LenProperties DEF ToSet
  <2> HIDE DEF m
  <2>4. m # <<>> \/ ToSet(l) \subseteq {p}
    BY <2>1, <2>3
  <2> QED BY <2>1, <2>2, <2>4 DEF m
<1>2. CASE p \in ToSet(l)
  <2>1. PICK i \in 1 .. Len(l) : /\ l[i] = p
                                 /\ \A j \in 1 .. Len(l) : l[j] = p <=> j = i
                                 /\ m = RemoveAt(l, i)
    BY <1>2, PositionOf
  <2>2. /\ m \in Seq(S) /\ Len(m) = Len(l) - 1 /\ Len(l) \in Nat
        /\ \A j \in 1 .. Len(m) : m[j] = IF j < i THEN l[j] ELSE l[j + 1]
    BY <2>1, EntryRemoved
  <2> HIDE DEF m
  <2>3. DOMAIN m = 1 .. Len(m) /\ DOMAIN l = 1 .. Len(l)
    BY <2>2, LenProperties
  <2>4. IsInjective(m)
    <3> SUFFICES ASSUME NEW j \in 1 .. Len(m), NEW k \in 1 .. Len(m), m[j] = m[k]
                 PROVE  j = k
      BY <2>3 DEF IsInjective
    <3> DEFINE jj == IF j < i THEN j ELSE j + 1
               kk == IF k < i THEN k ELSE k + 1
    <3>1. jj \in 1 .. Len(l) /\ kk \in 1 .. Len(l) /\ l[jj] = m[j] /\ l[kk] = m[k]
      BY <2>2
    <3>2. jj = kk
      <4> HIDE DEF jj, kk
      <4> QED BY <2>3, <3>1 DEF IsInjective
    <3> QED BY <3>2
  <2>5. ToSet(m) = ToSet(l) \ {p}
    <3>1. ASSUME NEW x \in ToSet(m) PROVE x \in ToSet(l) \ {p}
      <4>1. PICK j \in 1 .. Len(m) : x = m[j]
        BY <2>3 DEF ToSet
      <4> DEFINE jj == IF j < i THEN j ELSE j + 1
      <4>2. jj \in 1 .. Len(l) /\ l[jj] = x /\ jj # i
        BY <2>2, <4>1
      <4> HIDE DEF jj
      <4> QED BY <2>1, <2>3, <4>2 DEF ToSet
    <3>2. ASSUME NEW x \in ToSet(l) \ {p} PROVE x \in ToSet(m)
      <4>1. PICK j \in 1 .. Len(l) : x = l[j]
        BY <2>3 DEF ToSet
      <4>2. j # i
        BY <2>1, <4>1
      <4> DEFINE jj == IF j < i THEN j ELSE j - 1
      <4>3. jj \in 1 .. Len(m) /\ m[jj] = x
        BY <2>2, <4>1, <4>2
      <4> HIDE DEF jj
      <4> QED BY <2>3, <4>3 DEF ToSet
    <3> QED BY <3>1, <3>2
  <2>6. ASSUME l # <<>>, Head(l) # p PROVE m # <<>> /\ Head(m) = Head(l)
    <3>1. Head(l) = l[1] /\ i # 1
      BY <2>1, <2>6
    <3>2. Len(m) # 0 /\ m[1] = l[1]
      BY <2>2, <3>1
    <3>3. m # <<>>
      BY <2>2, <3>2, EmptySeq
    <3> QED BY <3>1, <3>2, <3>3
  <2>7. ASSUME ~(ToSet(l) \subseteq {p}) PROVE m # <<>>
    <3>1. ToSet(m) # {}
      BY <2>5, <2>7
    <3> QED BY <3>1 DEF ToSet
  <2> QED BY <1>2, <2>2, <2>4, <2>5, <2>6, <2>7 DEF m
<1> QED
  BY <1>1, <1>2

\* The list with p behind everybody.
LEMMA Put ==
  ASSUME NEW S, NEW l \in Seq(S), IsInjective(l), NEW p \in S, p \notin ToSet(l)
  PROVE  LET m == Append(l, p)
         IN  /\ m \in Seq(S) /\ IsInjective(m) /\ m # <<>>
             /\ ToSet(m) = ToSet(l) \cup {p}
             /\ l # <<>> => Head(m) = Head(l)
<1> DEFINE m == Append(l, p)
<1>1. /\ m \in Seq(S) /\ m # <<>> /\ Len(m) = Len(l) + 1
      /\ \A j \in 1 .. Len(l) : m[j] = l[j]
      /\ m[Len(l) + 1] = p
      /\ Len(l) \in Nat
  BY AppendProperties, LenProperties
<1>2. l # <<>> => Head(m) = Head(l)
  BY HeadTailAppend
<1> HIDE DEF m
<1>3. DOMAIN m = 1 .. Len(l) + 1 /\ DOMAIN l = 1 .. Len(l)
  BY <1>1, LenProperties
<1>4. \A j \in 1 .. Len(l) : l[j] # p
  BY <1>3 DEF ToSet
<1>5. IsInjective(m)
  <2> SUFFICES ASSUME NEW j \in 1 .. Len(l) + 1, NEW k \in 1 .. Len(l) + 1, m[j] = m[k]
               PROVE  j = k
    BY <1>3 DEF IsInjective
  <2>1. CASE j \in 1 .. Len(l) /\ k \in 1 .. Len(l)
    BY <1>1, <1>3, <2>1 DEF IsInjective
  <2>2. CASE ~(j \in 1 .. Len(l) /\ k \in 1 .. Len(l))
    BY <1>1, <1>4, <2>2
  <2> QED BY <2>1, <2>2
<1>6. ToSet(m) = ToSet(l) \cup {p}
  <2>1. ToSet(m) \subseteq ToSet(l) \cup {p}
    BY <1>1, <1>3 DEF ToSet
  <2>2. p \in ToSet(m)
    BY <1>1, <1>3 DEF ToSet
  <2>3. ToSet(l) \subseteq ToSet(m)
    BY <1>1, <1>3 DEF ToSet
  <2> QED BY <2>1, <2>2, <2>3
<1> QED
  BY <1>1, <1>2, <1>5, <1>6 DEF m
-------------------------------------------------------------------------------
\* A nonempty set of naturals has a least element.
LEMMA LeastOne ==
  ASSUME NEW T, T \subseteq Nat, T # {}
  PROVE  Min(T) \in T
<1> DEFINE R == {ss \in Nat \X Nat : ss[1] < ss[2]}
<1>1. IsWellFoundedOn(R, Nat)
  BY NatLessThanWellFounded, Zenon DEF OpToRel
<1>2. \A m, n \in Nat : m < n => <<m, n>> \in R
  OBVIOUS
<1> HIDE DEF R
<1>3. PICK x \in T : \A y \in T : <<y, x>> \notin R
  BY <1>1, WFMin, Zenon
<1>4. \A y \in T : x <= y
  <2> SUFFICES ASSUME NEW y \in T PROVE x <= y
    OBVIOUS
  <2>1. x \in Nat /\ y \in Nat
    OBVIOUS
  <2>2. ~(y < x)
    BY <1>2, <1>3, <2>1
  <2> QED BY <2>1, <2>2
<1> QED
  BY <1>4 DEF Min
===============================================================================
