---------------------------- MODULE RoleDealProofs ----------------------------
(***************************************************************************)
(* The shuffle of assignRoles loses no role and invents none, at tables of *)
(* any size: the filled pool holds what the distribution prescribes, and a *)
(* swap of two places is a bijection between the places of every role.     *)
(***************************************************************************)
EXTENDS RoleDeal, OperatorLemmas

\* Which places of a filled pool hold which role.
Places(s, r) == {p \in 1 .. Len(s) : s[p] = r}

LEMMA CopiesAre ==
  ASSUME NEW r \in Roles, NEW k \in Nat
  PROVE  /\ Copies(r, k) \in Seq(Roles) /\ Len(Copies(r, k)) = k
         /\ \A p \in 1 .. k : Copies(r, k)[p] = r
<1>1. Copies(r, k) \in [1 .. k -> Roles]
  BY DEF Copies
<1>2. Copies(r, k) \in Seq(Roles) /\ Len(Copies(r, k)) = k
  BY <1>1
<1> QED
  BY <1>2 DEF Copies

\* The pool t is s, of length a, with k more places for role r.
Grown(s, a, r, k, t) ==
  /\ t \in Seq(Roles) /\ Len(t) = a + k
  /\ \A p \in 1 .. a : t[p] = s[p]
  /\ \A p \in a + 1 .. a + k : t[p] = r

LEMMA Filled ==
  ASSUME NEW s \in Seq(Roles), NEW a \in Nat, Len(s) = a, NEW r \in Roles, NEW k \in Nat
  PROVE  Grown(s, a, r, k, s \o Copies(r, k))
<1> DEFINE c == Copies(r, k)
           t == s \o c
<1>1. /\ c \in Seq(Roles) /\ Len(c) = k
      /\ \A p \in 1 .. k : c[p] = r
  BY CopiesAre
<1> HIDE DEF c
<1>2. /\ t \in Seq(Roles) /\ Len(t) = a + k
      /\ \A p \in 1 .. a + k : t[p] = IF p <= a THEN s[p] ELSE c[p - a]
  BY <1>1, ConcatProperties
<1> HIDE DEF t
<1>3. ASSUME NEW p \in 1 .. a PROVE t[p] = s[p]
  BY <1>2
<1>4. ASSUME NEW p \in a + 1 .. a + k PROVE t[p] = r
  <2>1. p \in 1 .. a + k /\ ~(p <= a) /\ p - a \in 1 .. k
    OBVIOUS
  <2> QED BY <1>1, <1>2, <2>1
<1> QED
  BY <1>2, <1>3, <1>4 DEF t, c, Grown

LEMMA DistributionAddsUp ==
  ASSUME NEW n \in Nat \ {0}
  PROVE  LET d == computeRoleDistribution(n)
         IN  /\ \A r \in Roles : d[r] \in Nat
             /\ d.werewolf + d.seer + d.witch + d.guard + d.villager = n
<1> DEFINE d == computeRoleDistribution(n)
<1>1. CASE n >= MIN_PLAYERS_TO_START
  BY <1>1, DistributionFits
<1>2. CASE n < MIN_PLAYERS_TO_START
  <2>1. n \div 4 = 0
    BY <1>2 DEF MIN_PLAYERS_TO_START
  <2>2. /\ d.werewolf = AtLeast(1, n \div 4)
        /\ d.seer = IF n >= 5 THEN 1 ELSE 0
        /\ d.witch = IF n >= 6 THEN 1 ELSE 0
        /\ d.guard = IF n >= 7 THEN 1 ELSE 0
        /\ d.villager = AtLeast(0, n - (d.werewolf + d.seer + d.witch + d.guard))
    BY DEF computeRoleDistribution
  <2> HIDE DEF d
  <2>3. d.werewolf = 1 /\ d.seer = 0 /\ d.witch = 0 /\ d.guard = 0 /\ d.villager = n - 1
    BY <1>2, <2>1, <2>2 DEF AtLeast, MIN_PLAYERS_TO_START
  <2>4. \A r \in Roles : d[r] \in Nat
    BY <2>3 DEF Roles
  <2> QED BY <2>3, <2>4 DEF d
<1> QED
  BY <1>1, <1>2 DEF MIN_PLAYERS_TO_START

\* The pool before the shuffle.
LEMMA FullPoolIsADeal ==
  ASSUME NEW n \in Nat \ {0}
  PROVE  /\ FullPool(n) \in Seq(Roles) /\ Len(FullPool(n)) = n
         /\ \A r \in Roles : Cardinality(Places(FullPool(n), r)) = computeRoleDistribution(n)[r]
<1> DEFINE d == computeRoleDistribution(n)
<1>1. /\ \A r \in Roles : d[r] \in Nat
      /\ d.werewolf + d.seer + d.witch + d.guard + d.villager = n
  BY DistributionAddsUp
<1>2. PICK w \in Nat, e \in Nat, x \in Nat, g \in Nat, v \in Nat :
        w = d.werewolf /\ e = d.seer /\ x = d.witch /\ g = d.guard /\ v = d.villager
  BY <1>1 DEF Roles
<1>3. PICK r1 \in Roles, r2 \in Roles, r3 \in Roles, r4 \in Roles, r5 \in Roles :
         r1 = "werewolf" /\ r2 = "seer" /\ r3 = "witch" /\ r4 = "guard" /\ r5 = "villager"
  BY DEF Roles
<1> DEFINE s1 == Copies(r1, w)
           s2 == s1 \o Copies(r2, e)
           s3 == s2 \o Copies(r3, x)
           s4 == s3 \o Copies(r4, g)
           s5 == s4 \o Copies(r5, v)
<1>4. FullPool(n) = s5
  BY <1>2, <1>3 DEF FullPool
<1> HIDE DEF d
<1>5. w + e + x + g + v = n
  BY <1>1, <1>2
<1>6. /\ s1 \in Seq(Roles) /\ Len(s1) = w
      /\ \A p \in 1 .. w : s1[p] = r1
  BY <1>2, CopiesAre
<1> HIDE DEF s1
<1>7. /\ s2 \in Seq(Roles) /\ Len(s2) = w + e
      /\ \A p \in 1 .. w : s2[p] = s1[p]
      /\ \A p \in w + 1 .. w + e : s2[p] = r2
  <2>1. Grown(s1, w, r2, e, s2)
    BY <1>6, Filled
  <2> QED BY <2>1 DEF Grown
<1> HIDE DEF s2
<1>8. /\ s3 \in Seq(Roles) /\ Len(s3) = w + e + x
      /\ \A p \in 1 .. w + e : s3[p] = s2[p]
      /\ \A p \in w + e + 1 .. w + e + x : s3[p] = r3
  <2>1. Grown(s2, w + e, r3, x, s3)
    BY <1>7, Filled
  <2> QED BY <2>1 DEF Grown
<1> HIDE DEF s3
<1>9. /\ s4 \in Seq(Roles) /\ Len(s4) = w + e + x + g
      /\ \A p \in 1 .. w + e + x : s4[p] = s3[p]
      /\ \A p \in w + e + x + 1 .. w + e + x + g : s4[p] = r4
  <2>1. Grown(s3, w + e + x, r4, g, s4)
    BY <1>8, Filled
  <2> QED BY <2>1 DEF Grown
<1> HIDE DEF s4
<1>10. Grown(s4, w + e + x + g, r5, v, s5)
  BY <1>9, Filled
<1> HIDE DEF s5
<1>11. /\ s5 \in Seq(Roles) /\ Len(s5) = n
       /\ \A p \in 1 .. w + e + x + g : s5[p] = s4[p]
  BY <1>5, <1>10 DEF Grown
<1>12. /\ \A p \in 1 .. w : s5[p] = "werewolf"
       /\ \A p \in w + 1 .. w + e : s5[p] = "seer"
       /\ \A p \in w + e + 1 .. w + e + x : s5[p] = "witch"
       /\ \A p \in w + e + x + 1 .. w + e + x + g : s5[p] = "guard"
       /\ \A p \in w + e + x + g + 1 .. n : s5[p] = "villager"
  <2>1. \A p \in 1 .. w : s5[p] = "werewolf"
    BY <1>6, <1>7, <1>8, <1>9, <1>11, <1>3
  <2>2. \A p \in w + 1 .. w + e : s5[p] = "seer"
    BY <1>7, <1>8, <1>9, <1>11, <1>3
  <2>3. \A p \in w + e + 1 .. w + e + x : s5[p] = "witch"
    BY <1>8, <1>9, <1>11, <1>3
  <2>4. \A p \in w + e + x + 1 .. w + e + x + g : s5[p] = "guard"
    BY <1>9, <1>11, <1>3
  <2>5. \A p \in w + e + x + g + 1 .. n : s5[p] = "villager"
    <3>1. \A p \in w + e + x + g + 1 .. n : s5[p] = r5
      <4>1. w + e + x + g + v = n
        BY <1>5
      <4>2. \A p \in w + e + x + g + 1 .. w + e + x + g + v : s5[p] = r5
        BY <1>10 DEF Grown
      <4> QED BY <4>1, <4>2, Zenon
    <3>2. r5 = "villager"
      BY <1>3
    <3> QED BY <3>1, <3>2
  <2> QED BY <2>1, <2>2, <2>3, <2>4, <2>5
<1>13. /\ Places(s5, "werewolf") = 1 .. w
       /\ Places(s5, "seer") = w + 1 .. w + e
       /\ Places(s5, "witch") = w + e + 1 .. w + e + x
       /\ Places(s5, "guard") = w + e + x + 1 .. w + e + x + g
       /\ Places(s5, "villager") = w + e + x + g + 1 .. n
  <2>1. ASSUME NEW p \in 1 .. n
        PROVE  \/ p \in 1 .. w \/ p \in w + 1 .. w + e \/ p \in w + e + 1 .. w + e + x
               \/ p \in w + e + x + 1 .. w + e + x + g \/ p \in w + e + x + g + 1 .. n
    BY <1>5
  <2>2. /\ 1 .. w \subseteq 1 .. n /\ w + 1 .. w + e \subseteq 1 .. n
        /\ w + e + 1 .. w + e + x \subseteq 1 .. n
        /\ w + e + x + 1 .. w + e + x + g \subseteq 1 .. n
        /\ w + e + x + g + 1 .. n \subseteq 1 .. n
    BY <1>5
  <2> QED BY <1>11, <1>12, <2>1, <2>2 DEF Places
<1>14. /\ Cardinality(1 .. w) = w
       /\ Cardinality(w + 1 .. w + e) = e
       /\ Cardinality(w + e + 1 .. w + e + x) = x
       /\ Cardinality(w + e + x + 1 .. w + e + x + g) = g
       /\ Cardinality(w + e + x + g + 1 .. n) = v
  <2>1. ASSUME NEW a \in Nat, NEW k \in Nat PROVE Cardinality(a + 1 .. a + k) = k
    <3>1. Cardinality(a + 1 .. a + k) = IF a + 1 > a + k THEN 0 ELSE a + k - (a + 1) + 1
      BY FS_Interval
    <3> QED BY <3>1
  <2>2. Cardinality(1 .. w) = w
    BY FS_Interval
  <2>3. Cardinality(w + 1 .. w + e) = e
    <3>1. PICK a \in Nat : a = w
      OBVIOUS
    <3>2. Cardinality(a + 1 .. a + e) = e
      BY <2>1
    <3> QED BY <3>1, <3>2
  <2>4. Cardinality(w + e + 1 .. w + e + x) = x
    <3>1. PICK a \in Nat : a = w + e
      OBVIOUS
    <3>2. Cardinality(a + 1 .. a + x) = x
      BY <2>1
    <3> QED BY <3>1, <3>2
  <2>5. Cardinality(w + e + x + 1 .. w + e + x + g) = g
    <3>1. PICK a \in Nat : a = w + e + x
      OBVIOUS
    <3>2. Cardinality(a + 1 .. a + g) = g
      BY <2>1
    <3> QED BY <3>1, <3>2
  <2>6. Cardinality(w + e + x + g + 1 .. w + e + x + g + v) = v
    <3>1. PICK a \in Nat : a = w + e + x + g
      OBVIOUS
    <3>2. Cardinality(a + 1 .. a + v) = v
      BY <2>1
    <3> QED BY <3>1, <3>2
  <2>7. w + e + x + g + v = n
    BY <1>5
  <2> QED BY <2>2, <2>3, <2>4, <2>5, <2>6, <2>7
<1>15. ASSUME NEW r \in Roles PROVE Cardinality(Places(s5, r)) = d[r]
  BY <1>2, <1>13, <1>14 DEF Roles
<1> QED
  BY <1>4, <1>11, <1>15 DEF d

\* The pool is always a deal to as many as it was filled for.
DealInv ==
  \E n \in Nat \ {0} :
    /\ pool \in Seq(Roles) /\ Len(pool) = n /\ i \in 1 .. n
    /\ \A r \in Roles : Cardinality(Places(pool, r)) = computeRoleDistribution(n)[r]

LEMMA SwapKeepsTheRoles ==
  ASSUME DealInv, NEW j \in 1 .. i, Swap(j)
  PROVE  DealInv'
<1>1. PICK n \in Nat \ {0} :
        /\ pool \in Seq(Roles) /\ Len(pool) = n /\ i \in 1 .. n
        /\ \A r \in Roles : Cardinality(Places(pool, r)) = computeRoleDistribution(n)[r]
  BY DEF DealInv
<1>2. pool \in [1 .. n -> Roles] /\ j \in 1 .. n
  BY <1>1, LenProperties, ElementOfSeq
<1>3. pool' = [p \in 1 .. n |-> IF p = j THEN pool[i] ELSE IF p = i THEN pool[j] ELSE pool[p]]
  BY <1>1, <1>2 DEF Swap
<1>4. pool' \in [1 .. n -> Roles] /\ pool' \in Seq(Roles) /\ Len(pool') = n
  BY <1>1, <1>2, <1>3
<1>5. ASSUME NEW r \in Roles
      PROVE  Cardinality(Places(pool', r)) = Cardinality(Places(pool, r))
  <2> DEFINE S == Places(pool, r)
             T == Places(pool', r)
             f == [p \in S |-> IF p = j THEN i ELSE IF p = i THEN j ELSE p]
  <2>1. /\ S = {p \in 1 .. n : pool[p] = r}
        /\ T = {p \in 1 .. n : pool'[p] = r}
    BY <1>1, <1>4 DEF Places
  <2> HIDE DEF S, T
  <2>2. \A p \in S : f[p] \in T
    BY <1>1, <1>2, <1>3, <2>1
  <2>3. \A p, q \in S : f[p] = f[q] => p = q
    BY <1>1, <1>2, <2>1
  <2>4. ASSUME NEW t \in T PROVE \E p \in S : f[p] = t
    <3> DEFINE p == IF t = j THEN i ELSE IF t = i THEN j ELSE t
    <3>1. p \in S /\ f[p] = t
      BY <1>1, <1>2, <1>3, <2>1
    <3> QED BY <3>1
  <2>5. f \in Bijection(S, T)
    BY <2>2, <2>3, <2>4 DEF Bijection, Injection, Surjection, IsInjective
  <2>6. IsFiniteSet(S)
    <3>1. IsFiniteSet(1 .. n)
      BY FS_Interval
    <3> QED BY <2>1, <3>1, FS_Subset
  <2>7. ExistsBijection(S, T)
    BY <2>5 DEF ExistsBijection
  <2>8. Cardinality(T) = Cardinality(S)
    BY <2>6, <2>7, FS_Bijection
  <2> QED BY <2>8 DEF S, T
<1>6. i' \in 1 .. n
  BY <1>1 DEF Swap
<1> QED
  BY <1>1, <1>4, <1>5, <1>6 DEF DealInv

\* At every step of the shuffle (GameEngine.ts: assignRoles) the pool is a deal the
\* distribution prescribes, for tables of any size.
THEOREM TheShuffleKeepsTheRoles == Spec => []ShuffleKeepsTheRoles
<1>1. Init => DealInv
  <2> SUFFICES ASSUME NEW n \in TableSizes, pool = FullPool(n), i = n PROVE DealInv
    BY DEF Init
  <2>1. n \in Nat \ {0}
    BY DealAssumption
  <2> QED BY <2>1, FullPoolIsADeal DEF DealInv
<1>2. DealInv /\ [Next]_<<pool, i>> => DealInv'
  <2>1. ASSUME DealInv, UNCHANGED <<pool, i>> PROVE DealInv'
    BY <2>1 DEF DealInv, Places
  <2> QED BY <2>1, SwapKeepsTheRoles DEF Next
<1>3. DealInv => ShuffleKeepsTheRoles
  <2> SUFFICES ASSUME NEW n \in Nat \ {0}, pool \in Seq(Roles), Len(pool) = n,
                      \A r \in Roles : Cardinality(Places(pool, r)) = computeRoleDistribution(n)[r]
               PROVE  ShuffleKeepsTheRoles
    BY DEF DealInv
  <2>1. pool \in [1 .. n -> Roles]
    BY LenProperties, ElementOfSeq
  <2>2. Cardinality(1 .. n) = n
    BY FS_Interval
  <2> QED BY <2>1, <2>2 DEF ShuffleKeepsTheRoles, assignRoles, Places
<1> QED
  BY <1>1, <1>2, <1>3, PTL DEF Spec
===============================================================================
