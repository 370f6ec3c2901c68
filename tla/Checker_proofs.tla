---------------------------- MODULE Checker_proofs ----------------------------
(***************************************************************************)
(* Theorems about what the checker finds: mute words, for any words,       *)
(* groups, settings, messages and concurrent checks, and repeated messages *)
(* of a user, for any number of messages, workers and caches, any limit    *)
(* and any gap.                                                            *)
(***************************************************************************)
EXTENDS Mwords, SpamFlood, SequenceTheorems, FiniteSetTheorems, WellFoundedInduction, TLAPS

\* Induction over the naturals, for a set.
LEMMA SetInduction ==
    ASSUME NEW S, 0 \in S, \A n \in Nat : n \in S => n + 1 \in S
    PROVE  Nat \subseteq S
<1> DEFINE R == OpToRel(<, Nat)
           T == Nat \ S
<1>1. IsWellFoundedOn(R, Nat)
  BY NatLessThanWellFounded
<1>2. R = {ss \in Nat \X Nat : ss[1] < ss[2]}
  BY DEF OpToRel
<1> HIDE DEF R
<1> SUFFICES ASSUME T # {} PROVE FALSE
  OBVIOUS
<1>3. PICK n \in T : \A m \in T : <<m, n>> \notin R
  <2>1. T \subseteq Nat
    OBVIOUS
  <2> HIDE DEF T
  <2>2. \E x \in T : \A y \in T : ~ (<<y, x>> \in R)
    BY <1>1, <2>1, WFMin
  <2>3. QED
    BY <2>2
<1>4. n # 0 /\ n - 1 \in Nat /\ n - 1 < n /\ n = (n - 1) + 1
  OBVIOUS
<1>5. <<n - 1, n>> \in R
  BY <1>2, <1>4
<1>6. n - 1 \in S
  BY <1>3, <1>4, <1>5
<1>7. n \in S
  BY <1>4, <1>6
<1>8. QED
  BY <1>7

\* f starts with x and takes n steps, each within X.
Unrolls(f, n, X, x, G) ==
    f \in [0 .. n -> X] /\ f[0] = x /\ \A i \in 1 .. n : f[i] = G[i][f[i - 1]]

\* A function defined from its value before.
LEMMA Recursion ==
    ASSUME NEW X, NEW x \in X, NEW n \in Nat, NEW G \in [1 .. n -> [X -> X]]
    PROVE  \E f : Unrolls(f, n, X, x, G)
<1> DEFINE P(k) == \E f \in [0 .. k -> X] :
                      f[0] = x /\ \A i \in 1 .. k : f[i] = G[i][f[i - 1]]
           S == {k \in Nat : k <= n => P(k)}
<1>1. 0 \in S
  <2>1. [i \in 0 .. 0 |-> x] \in [0 .. 0 -> X]
    OBVIOUS
  <2>2. P(0)
    <3> DEFINE f == [i \in 0 .. 0 |-> x]
    <3>1. f \in [0 .. 0 -> X] /\ f[0] = x /\ \A i \in 1 .. 0 : f[i] = G[i][f[i - 1]]
      OBVIOUS
    <3>2. QED
      BY <3>1
  <2>3. QED
    BY <2>2
<1>2. ASSUME NEW k \in Nat, k \in S PROVE k + 1 \in S
  <2> SUFFICES ASSUME k + 1 <= n PROVE P(k + 1)
    OBVIOUS
  <2>1. PICK f \in [0 .. k -> X] : f[0] = x /\ \A i \in 1 .. k : f[i] = G[i][f[i - 1]]
    BY <1>2
  <2> DEFINE v == G[k + 1][f[k]]
             g == [i \in 0 .. k + 1 |-> IF i = k + 1 THEN v ELSE f[i]]
  <2>2. k + 1 \in 1 .. n /\ k \in 0 .. k
    OBVIOUS
  <2>3. v \in X
    <3>1. G[k + 1] \in [X -> X] /\ f[k] \in X
      BY <2>1, <2>2
    <3>2. QED
      BY <3>1
  <2>4. g \in [0 .. k + 1 -> X]
    BY <2>1, <2>3
  <2>5. g[0] = x
    BY <2>1
  <2>6. ASSUME NEW i \in 1 .. k + 1 PROVE g[i] = G[i][g[i - 1]]
    <3>1. g[i - 1] = f[i - 1]
      OBVIOUS
    <3>2. CASE i = k + 1
      BY <3>1, <3>2
    <3>3. CASE i # k + 1
      <4>1. i \in 1 .. k /\ g[i] = f[i]
        BY <3>3
      <4>2. QED
        BY <2>1, <3>1, <4>1
    <3>4. QED
      BY <3>2, <3>3
  <2> HIDE DEF g
  <2>7. QED
    BY <2>4, <2>5, <2>6
<1> HIDE DEF P
<1>3. Nat \subseteq S
  BY <1>1, <1>2, SetInduction
<1>4. P(n)
  BY <1>3
<1>5. QED
  BY <1>4 DEF P, Unrolls

\* What such a function has come to.
LEMMA Unrolled ==
    ASSUME NEW X, NEW n \in Nat, NEW G \in [1 .. n -> [X -> X]],
           NEW f, f[0] \in X,
           \A i \in 1 .. n : f[i - 1] \in X => f[i] = G[i][f[i - 1]]
    PROVE  f[n] \in X
<1> DEFINE S == {k \in Nat : k <= n => f[k] \in X}
<1>1. 0 \in S
  OBVIOUS
<1>2. ASSUME NEW k \in Nat, k \in S PROVE k + 1 \in S
  <2> SUFFICES ASSUME k + 1 <= n PROVE f[k + 1] \in X
    OBVIOUS
  <2>1. k + 1 \in 1 .. n /\ (k + 1) - 1 = k /\ f[k] \in X
    BY <1>2
  <2>2. G[k + 1] \in [X -> X] /\ f[k + 1] = G[k + 1][f[k]]
    BY <2>1
  <2>3. QED
    BY <2>1, <2>2
<1> HIDE DEF S
<1>3. Nat \subseteq S
  BY <1>1, <1>2, SetInduction
<1>4. QED
  BY <1>3 DEF S

\* A finite set falls into fibres over another: when none is smaller than L,
\* or none larger, neither is the average.
LEMMA Fibres ==
    ASSUME NEW R, IsFiniteSet(R), NEW S, IsFiniteSet(S), NEW g \in [R -> S], NEW L \in Nat
    PROVE  /\ Cardinality(R) \in Nat /\ Cardinality(S) \in Nat
           /\ (\A s \in S : Cardinality({p \in R : g[p] = s}) >= L) =>
                Cardinality(R) >= Cardinality(S) * L
           /\ (\A s \in S : Cardinality({p \in R : g[p] = s}) <= L) =>
                Cardinality(R) <= Cardinality(S) * L
<1> DEFINE Over(X) == {p \in R : g[p] \in X}
           Fibre(s) == {p \in R : g[p] = s}
           Many == \A s \in S : Cardinality(Fibre(s)) >= L
           Few  == \A s \in S : Cardinality(Fibre(s)) <= L
           Bounded(X) ==
             /\ Many => Cardinality(Over(X)) >= Cardinality(X) * L
             /\ Few  => Cardinality(Over(X)) <= Cardinality(X) * L
           N == {n \in Nat : \A X \in SUBSET S : Cardinality(X) = n => Bounded(X)}
<1>1. \A X : IsFiniteSet(Over(X)) /\ Cardinality(Over(X)) \in Nat
  <2> TAKE X
  <2>1. Over(X) \in SUBSET R
    OBVIOUS
  <2>2. QED
    BY <2>1, FS_Subset, FS_CardinalityType
<1>2. \A X \in SUBSET S : IsFiniteSet(X) /\ Cardinality(X) \in Nat
  BY FS_Subset, FS_CardinalityType
<1>3. \A s \in S : IsFiniteSet(Fibre(s)) /\ Cardinality(Fibre(s)) \in Nat
  <2> TAKE s \in S
  <2>1. Fibre(s) \in SUBSET R
    OBVIOUS
  <2>2. QED
    BY <2>1, FS_Subset, FS_CardinalityType
<1>4. 0 \in N
  <2> SUFFICES ASSUME NEW X \in SUBSET S, Cardinality(X) = 0 PROVE Bounded(X)
    OBVIOUS
  <2>1. X = {}
    BY <1>2, FS_EmptySet
  <2>2. Over(X) = {}
    BY <2>1
  <2>3. Cardinality(Over(X)) = 0
    BY <2>2, FS_EmptySet
  <2>4. QED
    BY <2>3
<1>5. ASSUME NEW n \in Nat, n \in N PROVE n + 1 \in N
  <2> SUFFICES ASSUME NEW X \in SUBSET S, Cardinality(X) = n + 1 PROVE Bounded(X)
    OBVIOUS
  <2>1. PICK x \in X : TRUE
    BY <1>2, FS_EmptySet
  <2> DEFINE Y == X \ {x}
  <2>2. Y \in SUBSET S /\ Cardinality(Y) = n
    <3>1. IsFiniteSet(X)
      BY <1>2
    <3>2. Cardinality(Y) = Cardinality(X) - 1
      BY <2>1, <3>1, FS_RemoveElement
    <3>3. QED
      BY <3>2
  <2>3. Bounded(Y)
    BY <1>5, <2>2
  <2>4. Over(X) = Over(Y) \cup Fibre(x) /\ Over(Y) \cap Fibre(x) = {}
    BY <2>1
  <2>5. Cardinality(Over(X)) = Cardinality(Over(Y)) + Cardinality(Fibre(x))
    <3> HIDE DEF Over, Fibre, Y
    <3>1. IsFiniteSet(Over(Y)) /\ IsFiniteSet(Fibre(x))
      BY <1>1, <1>3, <2>1
    <3>2. /\ Cardinality(Over(X)) = Cardinality(Over(Y)) + Cardinality(Fibre(x)) - Cardinality({})
          /\ Cardinality({}) = 0
      BY <2>4, <3>1, FS_Union, FS_EmptySet
    <3>3. QED
      BY <1>1, <1>3, <2>1, <3>2
  <2> DEFINE a == Cardinality(Over(X))
             b == Cardinality(Over(Y))
             c == Cardinality(Fibre(x))
  <2>6. a \in Nat /\ b \in Nat /\ c \in Nat /\ a = b + c
    BY <1>1, <1>3, <2>1, <2>5
  <2>7. (n + 1) * L = n * L + L
    OBVIOUS
  <2>8. Many => b >= n * L /\ c >= L
    BY <2>1, <2>2, <2>3
  <2>9. Few => b <= n * L /\ c <= L
    BY <2>1, <2>2, <2>3
  <2> DEFINE d == n * L
  <2>10. d \in Nat
    OBVIOUS
  <2> HIDE DEF Many, Few, a, b, c, d
  <2>11. (Many => a >= d + L) /\ (Few => a <= d + L)
    BY <2>6, <2>8, <2>9, <2>10 DEF d
  <2>12. QED
    BY <2>7, <2>11 DEF a, d
<1> HIDE DEF N
<1>6. Nat \subseteq N
  BY <1>4, <1>5, SetInduction
<1> HIDE DEF Bounded
<1>7. Bounded(S)
  BY <1>2, <1>6 DEF N
<1>8. Over(S) = R
  OBVIOUS
<1>9. QED
  BY <1>1, <1>2, <1>7, <1>8 DEF Bounded

\* When each of A has at least L of B, and each of B is had by at most C of A,
\* then A is not too large.
LEMMA DoubleCounting ==
    ASSUME NEW A, IsFiniteSet(A), NEW B, IsFiniteSet(B), NEW L \in Nat, NEW C \in Nat, NEW F,
           \A a \in A : F[a] \subseteq B /\ Cardinality(F[a]) >= L,
           \A b \in B : Cardinality({a \in A : b \in F[a]}) <= C
    PROVE  Cardinality(A) * L <= Cardinality(B) * C
<1> DEFINE R == {p \in A \X B : p[2] \in F[p[1]]}
           f == [p \in R |-> p[1]]
           g == [p \in R |-> p[2]]
           r == Cardinality(R)
           x == Cardinality(A) * L
           y == Cardinality(B) * C
<1>1. IsFiniteSet(R)
  <2>1. IsFiniteSet(A \X B) /\ R \in SUBSET (A \X B)
    BY FS_Product
  <2>2. QED
    BY <2>1, FS_Subset
<1>2. f \in [R -> A] /\ g \in [R -> B]
  OBVIOUS
<1>3. ASSUME NEW a \in A PROVE Cardinality({p \in R : f[p] = a}) >= L
  <2> DEFINE T == {p \in R : f[p] = a}
             h == [b \in F[a] |-> <<a, b>>]
  <2>1. IsFiniteSet(F[a])
    BY FS_Subset
  <2>2. h \in Bijection(F[a], T)
    BY DEF Bijection, Injection, IsInjective, Surjection
  <2>3. Cardinality(T) = Cardinality(F[a])
    BY <2>1, <2>2, FS_Bijection DEF ExistsBijection
  <2>4. QED
    BY <2>3
<1>4. ASSUME NEW b \in B PROVE Cardinality({p \in R : g[p] = b}) <= C
  <2> DEFINE T == {p \in R : g[p] = b}
             G == {a \in A : b \in F[a]}
             h == [a \in G |-> <<a, b>>]
  <2>1. IsFiniteSet(G)
    BY FS_Subset
  <2>2. h \in Bijection(G, T)
    BY DEF Bijection, Injection, IsInjective, Surjection
  <2>3. Cardinality(T) = Cardinality(G)
    BY <2>1, <2>2, FS_Bijection DEF ExistsBijection
  <2>4. QED
    BY <2>3
<1> HIDE DEF R, f, g
<1>5. r \in Nat /\ r >= x
  BY <1>1, <1>2, <1>3, Fibres
<1>6. r <= y
  BY <1>1, <1>2, <1>4, Fibres
<1>7. x \in Nat /\ y \in Nat
  BY FS_CardinalityType
<1> HIDE DEF r, x, y
<1>8. x <= y
  BY <1>5, <1>6, <1>7
<1>9. QED
  BY <1>8 DEF x, y

\* A set in three parts is no larger than they are together.
LEMMA ThreeParts ==
    ASSUME NEW A, NEW B, NEW E, IsFiniteSet(A), IsFiniteSet(B), IsFiniteSet(E),
           NEW D, D \subseteq (A \cup B) \cup E
    PROVE  Cardinality(D) <= Cardinality(A) + Cardinality(B) + Cardinality(E)
           /\ Cardinality(D) \in Nat
<1>1. /\ IsFiniteSet(A \cup B) /\ Cardinality(A \cup B) \in Nat
      /\ Cardinality(A \cup B) <= Cardinality(A) + Cardinality(B)
  <2>1. IsFiniteSet(A \cap B)
    BY FS_Intersection
  <2>2. Cardinality(A \cap B) \in Nat /\ Cardinality(A) \in Nat /\ Cardinality(B) \in Nat
    BY <2>1, FS_CardinalityType
  <2>3. /\ IsFiniteSet(A \cup B)
        /\ Cardinality(A \cup B) = Cardinality(A) + Cardinality(B) - Cardinality(A \cap B)
    BY FS_Union
  <2>4. Cardinality(A \cup B) \in Nat
    BY <2>3, FS_CardinalityType
  <2>5. QED
    BY <2>2, <2>3, <2>4
<1> DEFINE AB == A \cup B
<1>2. IsFiniteSet(AB)
  BY <1>1
<1> HIDE DEF AB
<1>3. /\ IsFiniteSet(AB \cup E) /\ Cardinality(AB \cup E) \in Nat
      /\ Cardinality(AB \cup E) <= Cardinality(AB) + Cardinality(E)
  <2>1. IsFiniteSet(AB \cap E)
    BY <1>2, FS_Intersection
  <2>2. Cardinality(AB \cap E) \in Nat /\ Cardinality(AB) \in Nat /\ Cardinality(E) \in Nat
    BY <1>2, <2>1, FS_CardinalityType
  <2>3. /\ IsFiniteSet(AB \cup E)
        /\ Cardinality(AB \cup E) = Cardinality(AB) + Cardinality(E) - Cardinality(AB \cap E)
    BY <1>2, FS_Union
  <2>4. Cardinality(AB \cup E) \in Nat
    BY <2>3, FS_CardinalityType
  <2>5. QED
    BY <2>2, <2>3, <2>4
<1>4. D \in SUBSET (AB \cup E)
  BY DEF AB
<1>5. Cardinality(D) <= Cardinality(AB \cup E) /\ Cardinality(D) \in Nat
  BY <1>3, <1>4, FS_Subset, FS_CardinalityType
<1>6. Cardinality(A) \in Nat /\ Cardinality(B) \in Nat /\ Cardinality(E) \in Nat
  BY FS_CardinalityType
<1>7. QED
  BY <1>1, <1>3, <1>5, <1>6 DEF AB

-----------------------------------------------------------------------------
(* Mute words: the shapes of what is built.                                *)

\* Options merged with flags are options.
LEMMA MergeMwordType ==
    ASSUME NEW dst \in Options \cup {None}, NEW src \in SUBSET Flags
    PROVE  /\ MergeMword(dst, src) \in Options \cup {None}
           /\ dst \in Options => MergeMword(dst, src) \in Options
<1> DEFINE old   == IF dst = None THEN NoOptions ELSE dst
           mode  == CASE "offline" \in src -> "offline"
                      [] src \cap {"online", "offline"} = {"online"} -> "online"
                      [] src \cap {"always", "online", "offline"} = {"always"} -> "always"
                      [] OTHER -> old.mode
           Set(yes, no) == IF yes \in src THEN "yes" ELSE IF no \in src THEN "no" ELSE "unset"
           first == Set("first", "nofirst")
           novip == IF "vip" \in src THEN "no" ELSE Set("novip", "vip")
           shared == IF first = "unset" /\ novip = "unset" THEN old.shared ELSE first = novip
           new == [mode |-> mode, first |-> IF first = "unset" THEN old.first ELSE first,
                   novip |-> IF novip = "unset" THEN old.novip ELSE novip, shared |-> shared]
<1>1. old \in Options /\ None \notin Options
  BY MarkerAssumption DEF NoOptions, Options, Flag
<1>2. mode \in {"online", "offline", "always"}
  <2>1. old.mode \in {"online", "offline", "always"}
    BY <1>1 DEF Options
  <2> HIDE DEF old
  <2>2. QED
    BY <2>1
<1>3. first \in Flag /\ novip \in Flag
  BY DEF Flag
<1>4. shared \in BOOLEAN
  <2>1. old.shared \in BOOLEAN
    BY <1>1 DEF Options
  <2> HIDE DEF old, first, novip
  <2>2. QED
    BY <2>1
<1>5. MergeMword(dst, src) = IF dst = None /\ src = {} THEN None ELSE new
  BY DEF MergeMword
<1>6. new \in Options
  <2> HIDE DEF old, mode, first, novip, shared
  <2>1. QED
    BY <1>1, <1>2, <1>3, <1>4 DEF Options, Flag
<1> HIDE DEF new
<1>7. QED
  BY <1>1, <1>5, <1>6

\* So are the flags of a word.
LEMMA OwnFlagsType ==
    ASSUME NEW word \in Mword
    PROVE  OwnFlags(word) \in SUBSET Flags
BY MarkerAssumption DEF OwnFlags, FlagsOf, Mword, Options, Flag, Flags

\* What Update makes of a group's options are options, or none: one step of
\* the merge after another.
LEMMA GroupOptionsType ==
    ASSUME NEW group \in Group
    PROVE  GroupOptions(group) \in Options \cup {None}
<1> SUFFICES ASSUME group.opt # None PROVE GroupOptions(group) \in Options \cup {None}
  BY DEF GroupOptions
<1> DEFINE n == Len(group.words)
           X == Options
           step(i, o) == MergeMword(o, OwnFlags(group.words[i]))
           Eq(f) == f = [i \in 0 .. n |-> IF i = 0 THEN group.opt ELSE step(i, f[i - 1])]
           G == [i \in 1 .. n |-> [o \in X |-> step(i, o)]]
<1>1. n \in Nat /\ group.opt \in X /\ \A i \in 1 .. n : group.words[i] \in Mword
  BY DEF Group
<1>2. \A i \in 1 .. n, o \in X : step(i, o) \in X
  BY <1>1, MergeMwordType, OwnFlagsType
<1>3. G \in [1 .. n -> [X -> X]]
  BY <1>2
<1>4. \E f : Eq(f)
  <2>1. PICK f : Unrolls(f, n, X, group.opt, G)
    <3> HIDE DEF G, n, X
    <3>1. QED
      BY <1>1, <1>3, Recursion
  <2>2. \A i \in 1 .. n : f[i] = step(i, f[i - 1])
    <3> TAKE i \in 1 .. n
    <3>1. i - 1 \in 0 .. n
      BY <1>1
    <3> HIDE DEF step
    <3>2. QED
      BY <2>1, <3>1 DEF Unrolls
  <2> HIDE DEF step
  <2>3. Eq(f)
    BY <1>1, <2>1, <2>2 DEF Unrolls
  <2>4. QED
    BY <2>3
<1>5. GroupOptions(group) = (CHOOSE f : Eq(f))[n]
  BY DEF GroupOptions
<1> DEFINE merged == CHOOSE f : Eq(f)
<1>6. Eq(merged)
  BY <1>4
<1> HIDE DEF merged
<1>7. \A i \in 1 .. n : merged[i - 1] \in X => merged[i] = G[i][merged[i - 1]]
  <2> TAKE i \in 1 .. n
  <2> HIDE DEF step
  <2>1. merged[i] = step(i, merged[i - 1])
    BY <1>1, <1>6
  <2>2. QED
    BY <2>1
<1>8. merged[0] \in X
  BY <1>1, <1>6
<1> HIDE DEF G, Eq
<1>9. merged[n] \in X
  BY <1>1, <1>3, <1>7, <1>8, Unrolled
<1> QED
  BY <1>5, <1>9 DEF merged

\* So the groups after an update are groups.
LEMMA MergedGroupsType ==
    ASSUME NEW gs \in [Groups -> Group \cup {None}]
    PROVE  MergedGroups(gs) \in [Groups -> Group \cup {None}]
<1> SUFFICES ASSUME NEW g \in Groups, gs[g] # None
             PROVE  [gs[g] EXCEPT !.opt = GroupOptions(gs[g])] \in Group
  BY DEF MergedGroups
<1>1. gs[g] \in Group /\ GroupOptions(gs[g]) \in Options \cup {None}
  BY GroupOptionsType
<1>2. QED
  BY <1>1 DEF Group

\* Single words have a punishment of their own.
SingleWord == {word \in Mword : word.pun # None}

\* A single word gives a rule.
LEMMA SingleRuleType ==
    ASSUME NEW word \in SingleWord
    PROVE  SingleRule(word) \in Rule
<1>1. word \in Mword /\ word.pun \in Punishments
  BY DEF SingleWord, Mword
<1>2. QED
  BY <1>1 DEF SingleRule, Rule, Mword

\* So does a word of a group, with its own punishment or the group's.
LEMMA GroupRuleType ==
    ASSUME NEW g \in Groups, NEW group \in Group, NEW word \in Mword
    PROVE  GroupRule(g, group, word) \in Rule
<1>1. MergeMword(None, OwnFlags(word)) \in Options \cup {None}
  BY MergeMwordType, OwnFlagsType
<1> DEFINE pun == IF word.pun = None THEN group.pun ELSE word.pun
           opt == IF group.opt # None THEN group.opt ELSE MergeMword(None, OwnFlags(word))
           owner == IF group.opt # None THEN g ELSE None
<1>2. pun \in Punishments /\ owner \in Names \cup Groups \cup {None}
  BY DEF Mword, Group
<1>3. opt \in Options \cup {None}
  BY <1>1 DEF Group
<1>4. word.name \in Names /\ word.re \in BOOLEAN
  BY DEF Mword
<1>5. GroupRule(g, group, word) =
        [name |-> word.name, re |-> word.re, pun |-> pun, opt |-> opt, owner |-> owner]
  BY DEF GroupRule
<1> HIDE DEF pun, opt, owner
<1>6. QED
  BY <1>2, <1>3, <1>4, <1>5 DEF Rule

\* What is picked has the rank asked for.
LEMMA RankedType ==
    ASSUME NEW unsorted \in Seq(Rule), NEW rank
    PROVE  Ranked(unsorted, rank) \in Seq({r \in Rule : Rank(r) = rank})
<1> DEFINE n == Len(unsorted)
           R == {r \in Rule : Rank(r) = rank}
           X == Seq(R)
           step(i, o) == IF Rank(unsorted[i]) = rank THEN Append(o, unsorted[i]) ELSE o
           Picks(f) == f = [i \in 0 .. n |-> IF i = 0 THEN <<>> ELSE step(i, f[i - 1])]
           G == [i \in 1 .. n |-> [o \in X |-> step(i, o)]]
<1>1. n \in Nat /\ <<>> \in X /\ \A i \in 1 .. n : unsorted[i] \in Rule
  BY EmptySeq
<1>2. \A i \in 1 .. n, o \in X : step(i, o) \in X
  <2> TAKE i \in 1 .. n, o \in X
  <2>1. CASE Rank(unsorted[i]) = rank
    <3>1. unsorted[i] \in R
      BY <1>1, <2>1
    <3> HIDE DEF R
    <3>2. Append(o, unsorted[i]) \in X
      BY <3>1, AppendProperties
    <3>3. QED
      BY <2>1, <3>2
  <2>2. CASE Rank(unsorted[i]) # rank
    BY <2>2
  <2>3. QED
    BY <2>1, <2>2
<1>3. G \in [1 .. n -> [X -> X]]
  BY <1>2
<1>4. \E f : Picks(f)
  <2>1. PICK f : Unrolls(f, n, X, <<>>, G)
    <3> HIDE DEF G, n, X
    <3>1. QED
      BY <1>1, <1>3, Recursion
  <2>2. \A i \in 1 .. n : f[i] = step(i, f[i - 1])
    <3> TAKE i \in 1 .. n
    <3>1. i - 1 \in 0 .. n
      BY <1>1
    <3> HIDE DEF step, X
    <3>2. QED
      BY <2>1, <3>1 DEF Unrolls
  <2> HIDE DEF step, X
  <2>3. Picks(f)
    BY <1>1, <2>1, <2>2 DEF Unrolls
  <2>4. QED
    BY <2>3
<1>5. Ranked(unsorted, rank) = (CHOOSE f : Picks(f))[n]
  BY DEF Ranked
<1> DEFINE picked == CHOOSE f : Picks(f)
<1>6. Picks(picked)
  BY <1>4
<1> HIDE DEF picked
<1>7. \A i \in 1 .. n : picked[i - 1] \in X => picked[i] = G[i][picked[i - 1]]
  <2> TAKE i \in 1 .. n
  <2> HIDE DEF step, X
  <2>1. picked[i] = step(i, picked[i - 1])
    BY <1>1, <1>6
  <2>2. QED
    BY <2>1
<1>8. picked[0] \in X
  <2> HIDE DEF step, X
  <2>1. QED
    BY <1>1, <1>6
<1> HIDE DEF G, Picks, X
<1>9. picked[n] \in X
  BY <1>1, <1>3, <1>7, <1>8, Unrolled
<1> QED
  BY <1>5, <1>9 DEF picked, X

\* The exempting rules come first.
ExemptingFirst(rs) ==
    \A i, j \in 1 .. Len(rs) : rs[j].pun = "none" /\ rs[i].pun # "none" => j < i

\* Sorting keeps rules rules, and puts those that exempt first.
LEMMA SortedType ==
    ASSUME NEW unsorted \in Seq(Rule)
    PROVE  SortedRules(unsorted) \in Seq(Rule) /\ ExemptingFirst(SortedRules(unsorted))
<1> DEFINE Of(pun) == {r \in Rule : r.pun = pun}
           A == Ranked(unsorted, <<"none", TRUE>>) \o Ranked(unsorted, <<"none", FALSE>>)
           B == Ranked(unsorted, <<"punish", TRUE>>) \o Ranked(unsorted, <<"punish", FALSE>>)
<1>1. \A pun \in {"none", "punish"}, enabled \in BOOLEAN :
         Ranked(unsorted, <<pun, enabled>>) \in Seq(Of(pun))
  <2> TAKE pun \in {"none", "punish"}, enabled \in BOOLEAN
  <2> DEFINE T == {r \in Rule : Rank(r) = <<pun, enabled>>}
  <2>1. T \subseteq Of(pun)
    BY DEF Rank
  <2>2. Ranked(unsorted, <<pun, enabled>>) \in Seq(T)
    BY RankedType
  <2> HIDE DEF T, Of
  <2>3. QED
    BY <2>1, <2>2, SeqMonotonic
<1>2. A \in Seq(Of("none")) /\ B \in Seq(Of("punish"))
  <2> HIDE DEF Of
  <2>1. QED
    BY <1>1, ConcatProperties
<1>3. A \in Seq(Rule) /\ B \in Seq(Rule)
  BY <1>2, SeqMonotonic
<1>4. SortedRules(unsorted) = A \o B
  BY DEF SortedRules
<1> HIDE DEF A, B
<1>5. /\ A \o B \in Seq(Rule) /\ Len(A \o B) = Len(A) + Len(B)
      /\ Len(A) \in Nat /\ Len(B) \in Nat
      /\ \A i \in 1 .. Len(A) + Len(B) :
            (A \o B)[i] = IF i <= Len(A) THEN A[i] ELSE B[i - Len(A)]
  BY <1>3, ConcatProperties, LenProperties
<1>6. /\ \A i \in 1 .. Len(A) : A[i].pun = "none"
      /\ \A i \in 1 .. Len(B) : B[i].pun = "punish"
  BY <1>2, ElementOfSeq
<1> DEFINE C == A \o B
<1>7. ASSUME NEW i \in 1 .. Len(C), NEW j \in 1 .. Len(C), C[j].pun = "none", C[i].pun # "none"
      PROVE  j < i
  <2>1. i > Len(A)
    BY <1>5, <1>6, <1>7
  <2>2. j <= Len(A)
    <3> SUFFICES ASSUME j > Len(A) PROVE FALSE
      BY <1>5
    <3>1. j - Len(A) \in 1 .. Len(B) /\ C[j] = B[j - Len(A)]
      BY <1>5
    <3>2. QED
      BY <1>6, <1>7, <3>1
  <2>3. QED
    BY <1>5, <2>1, <2>2
<1>8. QED
  BY <1>4, <1>5, <1>7 DEF ExemptingFirst

\* The rules of a group.
LEMMA RulesOfType ==
    ASSUME NEW g \in Groups, NEW group \in Group \cup {None}
    PROVE  RulesOf(g, group) \in Seq(Rule)
<1>1. CASE group = None \/ ~group.enabled
  BY <1>1, EmptySeq DEF RulesOf
<1>2. CASE ~(group = None \/ ~group.enabled)
  <2>1. group \in Group /\ Len(group.words) \in Nat
    BY <1>2, LenProperties DEF Group
  <2>2. \A i \in 1 .. Len(group.words) : GroupRule(g, group, group.words[i]) \in Rule
    BY <2>1, GroupRuleType, ElementOfSeq DEF Group
  <2>3. [i \in 1 .. Len(group.words) |-> GroupRule(g, group, group.words[i])] \in Seq(Rule)
    BY <2>1, <2>2, IsASeq
  <2>4. QED
    BY <1>2, <2>3 DEF RulesOf
<1>3. QED
  BY <1>1, <1>2

\* Whatever the order of the groups, the rules built are rules, those that
\* exempt first.
LEMMA BuiltRulesType ==
    ASSUME NEW ss, NEW gs, IsConfig(ss, gs), NEW order \in Orders
    PROVE  BuiltRules(ss, gs, order) \in Seq(Rule) /\ ExemptingFirst(BuiltRules(ss, gs, order))
<1> DEFINE n == Len(order)
           X == Seq(Rule)
           step(i, o) == o \o RulesOf(order[i], gs[order[i]])
           Builds(f) == f = [i \in 0 .. n |-> IF i = 0 THEN SingleRules(ss) ELSE step(i, f[i - 1])]
           G == [i \in 1 .. n |-> [o \in X |-> step(i, o)]]
<1>1. n \in Nat /\ \A i \in 1 .. n : order[i] \in Groups
  <2>1. Cardinality(Groups) \in Nat
    BY MwordsAssumption, FS_CardinalityType
  <2>2. order \in [1 .. Cardinality(Groups) -> Groups]
    BY DEF Orders, SetToSeqs
  <2>3. order \in Seq(Groups)
    BY <2>1, <2>2
  <2>4. QED
    BY <2>3, LenProperties, ElementOfSeq
<1>2. SingleRules(ss) \in X
  <2>1. ss \in Seq(SingleWord)
    BY DEF IsConfig, SingleWord
  <2>2. Len(ss) \in Nat /\ \A i \in 1 .. Len(ss) : SingleRule(ss[i]) \in Rule
    BY <2>1, LenProperties, ElementOfSeq, SingleRuleType
  <2>3. QED
    BY <2>2, IsASeq DEF SingleRules
<1>3. \A i \in 1 .. n, o \in X : step(i, o) \in X
  <2> TAKE i \in 1 .. n, o \in X
  <2>1. RulesOf(order[i], gs[order[i]]) \in X
    BY <1>1, RulesOfType DEF IsConfig
  <2>2. QED
    BY <2>1, ConcatProperties
<1>4. G \in [1 .. n -> [X -> X]]
  BY <1>3
<1>5. \E f : Builds(f)
  <2>1. PICK f : Unrolls(f, n, X, SingleRules(ss), G)
    <3> HIDE DEF G, n, X
    <3>1. QED
      BY <1>1, <1>2, <1>4, Recursion
  <2>2. \A i \in 1 .. n : f[i] = step(i, f[i - 1])
    <3> TAKE i \in 1 .. n
    <3>1. i - 1 \in 0 .. n
      BY <1>1
    <3> HIDE DEF step, X
    <3>2. QED
      BY <2>1, <3>1 DEF Unrolls
  <2> HIDE DEF step, X
  <2>3. Builds(f)
    BY <1>1, <2>1, <2>2 DEF Unrolls
  <2>4. QED
    BY <2>3
<1>6. BuiltRules(ss, gs, order) = SortedRules((CHOOSE f : Builds(f))[n])
  BY DEF BuiltRules
<1> DEFINE built == CHOOSE f : Builds(f)
<1>7. Builds(built)
  BY <1>5
<1> HIDE DEF built
<1>8. \A i \in 1 .. n : built[i - 1] \in X => built[i] = G[i][built[i - 1]]
  <2> TAKE i \in 1 .. n
  <2> HIDE DEF step, X
  <2>1. built[i] = step(i, built[i - 1])
    BY <1>1, <1>7
  <2>2. QED
    BY <2>1
<1>9. built[0] \in X
  <2> HIDE DEF step, X
  <2>1. QED
    BY <1>1, <1>2, <1>7
<1> HIDE DEF G, Builds, X
<1>10. built[n] \in X
  BY <1>1, <1>4, <1>8, <1>9, Unrolled
<1> QED
  BY <1>6, <1>10, SortedType DEF built, X

\* Options pointed to change; nothing else of a rule does.
LEMMA RepointedType ==
    ASSUME NEW old \in Seq(Rule), NEW ss, NEW gs, IsConfig(ss, gs), ExemptingFirst(old)
    PROVE  Repointed(old, ss, gs) \in Seq(Rule) /\ ExemptingFirst(Repointed(old, ss, gs))
<1> DEFINE Current(rule) ==
             IF rule.owner \in Groups
             THEN {gs[g].opt : g \in {h \in Groups : h = rule.owner /\ gs[h] # None}}
             ELSE {ss[i].opt : i \in {j \in DOMAIN ss : ss[j].name = rule.owner /\ ~ss[j].re}}
           new(i) == IF Current(old[i]) = {} THEN old[i]
                     ELSE [old[i] EXCEPT !.opt = CHOOSE o \in Current(old[i]) : TRUE]
           n == Len(old)
<1>1. n \in Nat /\ DOMAIN old = 1 .. n /\ \A i \in 1 .. n : old[i] \in Rule
  BY LenProperties, ElementOfSeq
<1>2. \A rule : Current(rule) \subseteq Options \cup {None}
  <2>1. \A g \in Groups : gs[g] # None => gs[g].opt \in Options \cup {None}
    BY DEF IsConfig, Group
  <2>2. \A i \in DOMAIN ss : ss[i].opt \in Options \cup {None}
    <3>1. DOMAIN ss = 1 .. Len(ss) /\ \A i \in 1 .. Len(ss) : ss[i] \in Mword
      BY LenProperties, ElementOfSeq DEF IsConfig
    <3>2. QED
      BY <3>1 DEF Mword
  <2>3. QED
    BY <2>1, <2>2
<1> HIDE DEF Current
<1>3. \A i \in 1 .. n : new(i) \in Rule /\ new(i).pun = old[i].pun
  <2> TAKE i \in 1 .. n
  <2>1. CASE Current(old[i]) = {}
    BY <1>1, <2>1
  <2>2. CASE Current(old[i]) # {}
    <3>1. (CHOOSE o \in Current(old[i]) : TRUE) \in Options \cup {None}
      BY <1>2, <2>2
    <3> DEFINE o == CHOOSE o \in Current(old[i]) : TRUE
    <3> HIDE DEF o
    <3>2. [old[i] EXCEPT !.opt = o] \in Rule /\ [old[i] EXCEPT !.opt = o].pun = old[i].pun
      BY <1>1, <3>1 DEF Rule, o
    <3>3. QED
      BY <2>2, <3>2 DEF o
  <2>3. QED
    BY <2>1, <2>2
<1>4. Repointed(old, ss, gs) = [i \in 1 .. n |-> new(i)]
  BY <1>1 DEF Repointed, Current
<1> HIDE DEF new, n
<1>5. [i \in 1 .. n |-> new(i)] \in Seq(Rule) /\ Len([i \in 1 .. n |-> new(i)]) = n
  BY <1>1, <1>3
<1>6. QED
  BY <1>1, <1>3, <1>4, <1>5 DEF ExemptingFirst, n

\* A set of numbers has a least one.
LEMMA LeastExists ==
    ASSUME NEW I \in SUBSET Nat, I # {}
    PROVE  Min(I) \in I /\ \A i \in I : Min(I) <= i
<1> DEFINE S == {n \in Nat : \A m \in 0 .. n : m \notin I}
<1>1. \E i \in I : \A j \in I : i <= j
  <2> SUFFICES ASSUME \A i \in I : \E j \in I : j < i PROVE FALSE
    OBVIOUS
  <2>1. 0 \in S
    <3> SUFFICES ASSUME 0 \in I PROVE FALSE
      OBVIOUS
    <3>1. QED
      OBVIOUS
  <2>2. ASSUME NEW n \in Nat, n \in S PROVE n + 1 \in S
    <3>1. n + 1 \notin I
      <4> SUFFICES ASSUME n + 1 \in I PROVE FALSE
        OBVIOUS
      <4>1. PICK j \in I : j < n + 1
        OBVIOUS
      <4>2. j \in 0 .. n
        BY <4>1
      <4>3. QED
        BY <2>2, <4>2
    <3>2. \A m \in 0 .. n + 1 : m \in 0 .. n \/ m = n + 1
      OBVIOUS
    <3>3. QED
      BY <2>2, <3>1, <3>2
  <2> HIDE DEF S
  <2>3. Nat \subseteq S
    BY <2>1, <2>2, SetInduction
  <2>4. PICK i \in I : TRUE
    OBVIOUS
  <2>5. i \in S
    BY <2>3
  <2>6. i \in Nat /\ i \in 0 .. i
    OBVIOUS
  <2>7. QED
    BY <2>5, <2>6 DEF S
<1>2. QED
  BY <1>1 DEF Min

\* The index of a word is 0 or one of the list.
LEMMA IndexOfType ==
    ASSUME NEW S, NEW words \in Seq(S), NEW name
    PROVE  /\ IndexOf(words, name) \in 0 .. Len(words)
           /\ IndexInGroup(words, name) \in 0 .. Len(words)
<1>1. Len(words) \in Nat
  OBVIOUS
<1>2. \A I \in SUBSET (1 .. Len(words)) : (IF I # {} THEN Min(I) ELSE 0) \in 0 .. Len(words)
  <2> TAKE I \in SUBSET (1 .. Len(words))
  <2>1. I # {} => Min(I) \in I
    BY <1>1, LeastExists
  <2> DEFINE m == Min(I)
  <2> HIDE DEF m
  <2>2. I # {} => m \in 1 .. Len(words)
    BY <2>1 DEF m
  <2>3. QED
    BY <1>1, <2>2 DEF m
<1>3. QED
  BY <1>2 DEF IndexOf, IndexInGroup, SelectInSeq

\* A list without one of its elements.
LEMMA RemoveAtType ==
    ASSUME NEW S, NEW words \in Seq(S), NEW i \in 1 .. Len(words)
    PROVE  RemoveAt(words, i) \in Seq(S)
<1>1. Len(words) \in Nat /\ \A j \in 1 .. Len(words) : words[j] \in S
  BY LenProperties, ElementOfSeq
<1>2. SubSeq(words, 1, i - 1) \in Seq(S)
  BY <1>1, SubSeqProperties
<1>3. SubSeq(words, i + 1, Len(words)) \in Seq(S)
  BY <1>1, SubSeqProperties
<1>4. QED
  BY <1>2, <1>3, ConcatProperties DEF RemoveAt

\* An edited word is a word, an edited group a group.
LEMMA EditedType ==
    ASSUME NEW pun \in Punishments \cup {None}, NEW flags \in OptionSets
    PROVE  /\ \A word \in Mword : Edited(word, pun, flags) \in Mword
           /\ \A word \in SingleWord : Edited(word, pun, flags) \in SingleWord
           /\ \A group \in Group : Edited(group, pun, flags) \in Group
<1>1. flags \in SUBSET Flags
  BY MwordsAssumption
<1>2. \A opt \in Options \cup {None} : MergeMword(opt, flags) \in Options \cup {None}
  BY <1>1, MergeMwordType
<1>3. ASSUME NEW word \in Mword PROVE Edited(word, pun, flags) \in Mword
  BY <1>2 DEF Edited, Mword
<1>4. ASSUME NEW word \in SingleWord PROVE Edited(word, pun, flags) \in SingleWord
  <2>1. word \in Mword /\ word.pun # None
    BY DEF SingleWord
  <2>2. Edited(word, pun, flags).pun # None
    BY <2>1 DEF Edited, Mword
  <2>3. QED
    BY <1>3, <2>1, <2>2 DEF SingleWord
<1>5. ASSUME NEW group \in Group PROVE Edited(group, pun, flags) \in Group
  BY <1>2 DEF Edited, Group
<1>6. QED
  BY <1>3, <1>4, <1>5

\* Settings read from disk are settings.
LEMMA ReloadedType ==
    ASSUME NEW ss, NEW gs, IsConfig(ss, gs)
    PROVE  IsConfig(ReloadedWords(ss), ReloadedGroups(gs))
<1>1. \A opt \in Options \cup {None} : Reloaded(opt) \in Options \cup {None}
  BY DEF Reloaded, Options
<1>2. ASSUME NEW word \in Mword
      PROVE  /\ [word EXCEPT !.opt = Reloaded(@)] \in Mword
             /\ [word EXCEPT !.opt = Reloaded(@)].pun = word.pun
  BY <1>1 DEF Mword
<1>3. ASSUME NEW words \in Seq(Mword) PROVE ReloadedWords(words) \in Seq(Mword)
  <2>1. Len(words) \in Nat /\ DOMAIN words = 1 .. Len(words)
    BY LenProperties
  <2>2. \A i \in 1 .. Len(words) : [words[i] EXCEPT !.opt = Reloaded(@)] \in Mword
    BY <1>2, ElementOfSeq
  <2>3. QED
    BY <2>1, <2>2, IsASeq DEF ReloadedWords
<1>4. ReloadedWords(ss) \in Seq(SingleWord)
  <2>1. ss \in Seq(SingleWord)
    BY DEF IsConfig, SingleWord
  <2>2. Len(ss) \in Nat /\ DOMAIN ss = 1 .. Len(ss)
    BY <2>1, LenProperties
  <2>3. \A i \in 1 .. Len(ss) : [ss[i] EXCEPT !.opt = Reloaded(@)] \in SingleWord
    BY <1>2, <2>1, ElementOfSeq DEF SingleWord
  <2>4. QED
    BY <2>2, <2>3, IsASeq DEF ReloadedWords
<1>5. ASSUME NEW g \in Groups, gs[g] # None
      PROVE  [gs[g] EXCEPT !.opt = Reloaded(@), !.words = ReloadedWords(@)] \in Group
  <2>1. gs[g] \in Group
    BY <1>5 DEF IsConfig
  <2>2. Reloaded(gs[g].opt) \in Options \cup {None} /\ ReloadedWords(gs[g].words) \in Seq(Mword)
    BY <1>1, <1>3, <2>1 DEF Group
  <2>3. QED
    BY <2>1, <2>2 DEF Group
<1>6. ReloadedGroups(gs) \in [Groups -> Group \cup {None}]
  BY <1>5 DEF ReloadedGroups
<1>7. QED
  BY <1>4, <1>6 DEF IsConfig, SingleWord

-----------------------------------------------------------------------------
(* The commands.                                                           *)

\* A group replaced by a group.
LEMMA GroupReplaced ==
    ASSUME IsConfig(singles, groups), NEW g \in Groups, NEW group \in Group \cup {None}
    PROVE  IsConfig(singles, [groups EXCEPT ![g] = group])
BY DEF IsConfig

\* Its words replaced by words.
LEMMA WordsReplaced ==
    ASSUME IsConfig(singles, groups), NEW g \in Groups, groups[g] # None,
           NEW words \in Seq(Mword)
    PROVE  IsConfig(singles, [groups EXCEPT ![g].words = words])
<1>1. [groups[g] EXCEPT !.words = words] \in Group
  BY DEF IsConfig, Group
<1>2. QED
  BY <1>1 DEF IsConfig

\* A single word added.
LEMMA SingleAppended ==
    ASSUME IsConfig(singles, groups), NEW word \in SingleWord
    PROVE  IsConfig(Append(singles, word), groups)
BY AppendProperties DEF IsConfig, SingleWord

\* A new word's options.
LEMMA NewOptions ==
    ASSUME NEW flags \in OptionSets
    PROVE  MergeMword(None, flags) \in Options \cup {None}
BY MwordsAssumption, MergeMwordType

\* Every command edits settings into settings, and updates the rules.
LEMMA CommandUpdates ==
    ASSUME IsConfig(singles, groups), Command
    PROVE  \E ss, gs : IsConfig(ss, gs) /\ Update(ss, gs)
<1> DEFINE Goal == \E ss, gs : IsConfig(ss, gs) /\ Update(ss, gs)
<1>1. singles \in Seq(SingleWord) /\ \A g \in Groups : groups[g] # None => groups[g] \in Group
  BY DEF IsConfig, SingleWord
<1>2. ASSUME NEW name \in Names, NEW pun \in Punishments, NEW flags \in OptionSets,
             AddMword(name, pun, flags) \/ AddRegexp(name, pun, flags)
      PROVE  Goal
  <2>1. \A re \in BOOLEAN :
           [name |-> name, re |-> re, pun |-> pun, opt |-> MergeMword(None, flags)] \in SingleWord
    BY NewOptions, MarkerAssumption DEF SingleWord, Mword
  <2>2. CASE AddMword(name, pun, flags)
    BY <2>1, <2>2, SingleAppended DEF AddMword
  <2>3. CASE AddRegexp(name, pun, flags)
    BY <2>1, <2>3, SingleAppended DEF AddRegexp
  <2>4. QED
    BY <1>2, <2>2, <2>3
<1>3. ASSUME NEW name \in Names, NEW pun \in Punishments \cup {None}, NEW flags \in OptionSets,
             SetMword(name, pun, flags)
      PROVE  Goal
  <2> DEFINE i == IndexOf(singles, name)
             ss == IF i = 0 THEN singles ELSE [singles EXCEPT ![i] = Edited(@, pun, flags)]
  <2>1. i \in 0 .. Len(singles) /\ Len(singles) \in Nat
    BY <1>1, IndexOfType, LenProperties
  <2> HIDE DEF i
  <2>2. i # 0 => /\ Edited(singles[i], pun, flags) \in SingleWord
                 /\ [singles EXCEPT ![i] = Edited(@, pun, flags)] \in Seq(SingleWord)
    BY <1>1, <2>1, EditedType, ExceptSeq, ElementOfSeq
  <2>3. IsConfig(ss, groups)
    BY <2>2 DEF IsConfig, SingleWord
  <2>4. Update(ss, groups)
    BY <1>3 DEF SetMword, i
  <2>5. QED
    BY <2>3, <2>4
<1>4. ASSUME NEW name \in Names, DelMword(name)
      PROVE  Goal
  <2> DEFINE i == IndexOf(singles, name)
             ss == IF i = 0 THEN singles ELSE RemoveAt(singles, i)
  <2>1. i \in 0 .. Len(singles) /\ Len(singles) \in Nat
    BY <1>1, IndexOfType, LenProperties
  <2> HIDE DEF i
  <2>2. i # 0 => RemoveAt(singles, i) \in Seq(SingleWord)
    BY <1>1, <2>1, RemoveAtType
  <2>3. IsConfig(ss, groups)
    BY <2>2 DEF IsConfig, SingleWord
  <2>4. Update(ss, groups)
    BY <1>4 DEF DelMword, i
  <2>5. QED
    BY <2>3, <2>4
<1>5. ASSUME NEW g \in Groups, NEW pun \in Punishments, NEW flags \in OptionSets,
             CreateMwordGroup(g, pun, flags)
      PROVE  Goal
  <2>1. [enabled |-> TRUE, pun |-> pun, opt |-> MergeMword(None, flags), words |-> <<>>] \in Group
    BY NewOptions, EmptySeq DEF Group
  <2>2. QED
    BY <1>5, <2>1, GroupReplaced DEF CreateMwordGroup
<1>6. ASSUME NEW g \in Groups, NEW name \in Names, NEW re \in BOOLEAN, AddMwordGroup(g, name, re)
      PROVE  Goal
  <2> DEFINE word == [name |-> name, re |-> re, pun |-> None, opt |-> None]
             gs == IF ~re /\ IndexOf(singles, name) # 0 THEN groups
                   ELSE [groups EXCEPT ![g].words = Append(@, word)]
  <2>1. groups[g] # None
    BY <1>6 DEF AddMwordGroup
  <2>2. word \in Mword /\ groups[g].words \in Seq(Mword)
    BY <1>1, <2>1 DEF Mword, Group
  <2>3. Append(groups[g].words, word) \in Seq(Mword)
    BY <2>2, AppendProperties
  <2>4. IsConfig(singles, gs)
    BY <2>1, <2>3, WordsReplaced
  <2>5. Update(singles, gs)
    BY <1>6 DEF AddMwordGroup
  <2>6. QED
    BY <2>4, <2>5
<1>7. ASSUME NEW g \in Groups, NEW pun \in Punishments \cup {None}, NEW flags \in OptionSets,
             GlobalSetMwordGroup(g, pun, flags)
      PROVE  Goal
  <2>1. Edited(groups[g], pun, flags) \in Group
    BY <1>1, <1>7, EditedType DEF GlobalSetMwordGroup
  <2>2. QED
    BY <1>7, <2>1, GroupReplaced DEF GlobalSetMwordGroup
<1>8. ASSUME NEW g \in Groups, NEW name \in Names, NEW pun \in Punishments \cup {None},
             NEW flags \in OptionSets, SetMwordGroup(g, name, pun, flags)
      PROVE  Goal
  <2> DEFINE words == groups[g].words
             i == IndexOf(words, name)
             gs == IF i = 0 THEN groups ELSE [groups EXCEPT ![g].words[i] = Edited(@, pun, flags)]
  <2>1. groups[g] # None /\ words \in Seq(Mword)
    BY <1>1, <1>8 DEF SetMwordGroup, Group
  <2>2. i \in 0 .. Len(words) /\ Len(words) \in Nat
    BY <2>1, IndexOfType, LenProperties
  <2> HIDE DEF i
  <2>3. i # 0 => /\ Edited(words[i], pun, flags) \in Mword
                 /\ [words EXCEPT ![i] = Edited(@, pun, flags)] \in Seq(Mword)
    <3> HIDE DEF words
    <3>1. QED
      BY <2>1, <2>2, EditedType, ExceptSeq, ElementOfSeq
  <2>4. [groups EXCEPT ![g].words[i] = Edited(@, pun, flags)] =
          [groups EXCEPT ![g].words = [words EXCEPT ![i] = Edited(@, pun, flags)]]
    OBVIOUS
  <2>5. IsConfig(singles, gs)
    BY <2>1, <2>3, <2>4, WordsReplaced
  <2>6. Update(singles, gs)
    BY <1>8 DEF SetMwordGroup, i
  <2>7. QED
    BY <2>5, <2>6
<1>9. ASSUME NEW g \in Groups, NEW name \in Names, DelMwordGroup(g, name)
      PROVE  Goal
  <2> DEFINE words == groups[g].words
             i == IndexInGroup(words, name)
             gs == IF i = 0 THEN groups ELSE [groups EXCEPT ![g].words = RemoveAt(@, i)]
  <2>1. groups[g] # None /\ words \in Seq(Mword)
    BY <1>1, <1>9 DEF DelMwordGroup, Group
  <2>2. i \in 0 .. Len(words) /\ Len(words) \in Nat
    BY <2>1, IndexOfType, LenProperties
  <2> HIDE DEF i
  <2>3. i # 0 => RemoveAt(words, i) \in Seq(Mword)
    BY <2>1, <2>2, RemoveAtType
  <2>4. IsConfig(singles, gs)
    BY <2>1, <2>3, WordsReplaced
  <2>5. Update(singles, gs)
    BY <1>9 DEF DelMwordGroup, i
  <2>6. QED
    BY <2>4, <2>5
<1>10. ASSUME NEW g \in Groups, DelWholeGroup(g)
       PROVE  Goal
  BY <1>10, GroupReplaced DEF DelWholeGroup
<1>11. ASSUME NEW g \in Groups, NEW on \in BOOLEAN, OnOffMwordGroup(g, on)
       PROVE  Goal
  <2>1. [groups[g] EXCEPT !.enabled = on] \in Group
    BY <1>1, <1>11 DEF OnOffMwordGroup, Group
  <2>2. IsConfig(singles, [groups EXCEPT ![g].enabled = on])
    BY <2>1 DEF IsConfig
  <2>3. QED
    BY <1>11, <2>2 DEF OnOffMwordGroup
<1>12. QED
  BY <1>2, <1>3, <1>4, <1>5, <1>6, <1>7, <1>8, <1>9, <1>10, <1>11 DEF Command

-----------------------------------------------------------------------------
(* The invariant.                                                          *)

\* Which text a check is about, as the cache knows it.
KeyOf(w) == Key(check[w].msg)

Shapes ==
    /\ IsConfig(singles, groups)
    /\ rules \in Seq(Rule) /\ ExemptingFirst(rules)
    /\ cache \in [Keys -> CacheMap \cup {None}]
    /\ uncached \subseteq [by : SUBSET Workers, map : CacheMap]
    /\ check \in [Workers -> Check \cup {NoCheck}]
    /\ installing \in BOOLEAN /\ live \in BOOLEAN /\ commands \in 0 .. MaxCommands

\* Every check holds one map: the one in the cache, or another that all who
\* hold it got for the same key.
OneMap ==
    /\ \A w \in Workers : check[w] # NoCheck =>
          IF check[w].cached THEN cache[KeyOf(w)] # None ELSE \E u \in uncached : w \in u.by
    /\ \A u \in uncached : \A w \in u.by : check[w] # NoCheck /\ ~check[w].cached
    /\ \A u, v \in uncached : \A w \in u.by : w \in v.by => u = v
    /\ \A u \in uncached : \A v, w \in u.by : KeyOf(v) = KeyOf(w)

\* A rule that does not exempt a message, first or a VIP's.
Spares(rule, first, vip) ==
    rule.opt # None => /\ rule.opt.first = "yes" => first
                       /\ rule.opt.novip = "yes" => ~vip

VerdictsHold(map, key) ==
    \A b \in BOOLEAN : map.verdict[b] \notin {None, NoRule} => Spares(map.verdict[b], b, key[2])

\* No map, in the cache or held, has a verdict for a message it exempts.
MapsHold ==
    /\ \A k \in Keys : cache[k] # None => VerdictsHold(cache[k], k)
    /\ \A u \in uncached : \A w \in u.by : VerdictsHold(u.map, KeyOf(w))
    /\ \A w \in Workers : check[w] # NoCheck /\ check[w].found # NoRule =>
          Spares(check[w].found, check[w].msg.first, check[w].msg.vip)

VerdictsJust(map, key) ==
    \A b \in BOOLEAN : map.verdict[b] # None =>
       Justified(map.verdict[b], [text |-> key[1], vip |-> key[2], first |-> b])

\* While rules are being installed nothing is in use that has not been marked;
\* after that what is not marked agrees with them.
WhileInstalling ==
    installing =>
      /\ \A k \in Keys : cache[k] # None => cache[k].stale
      /\ \A w \in Workers : check[w] # NoCheck => check[w].overlap

Fresh ==
    ~installing =>
      /\ \A k \in Keys : cache[k] # None => cache[k].stale \/ VerdictsJust(cache[k], k)
      /\ \A u \in uncached : \A w \in u.by :
            check[w].overlap \/ u.map.stale \/ VerdictsJust(u.map, KeyOf(w))
      /\ \A w \in Workers : check[w].at = "remember" =>
            check[w].overlap \/ Justified(check[w].found, check[w].msg)

MwordsInv == Shapes /\ OneMap /\ MapsHold /\ WhileInstalling /\ Fresh

\* Rules, no rule, maps and checks are told apart from what marks their absence.
LEMMA KindsApart ==
    /\ NoRule \notin Rule /\ None \notin Rule /\ None # NoRule
    /\ None \notin CacheMap /\ NoCheck \notin Check
    /\ \A c \in Check : c # NoCheck
<1>1. NoRule \notin Rule
  BY MwordsAssumption DEF NoRule, Rule
<1>2. NoCheck \notin Check
  BY DEF NoCheck, Check
<1>3. QED
  BY <1>1, <1>2, MarkerAssumption

\* What a pass over the rules finds.
LEMMA FirstMatchFound ==
    ASSUME rules \in Seq(Rule), ExemptingFirst(rules), NEW msg \in Messages, NEW online \in BOOLEAN
    PROVE  /\ FirstMatch(msg, online) \in Rule \cup {NoRule}
           /\ FirstMatch(msg, online) # NoRule => Spares(FirstMatch(msg, online), msg.first, msg.vip)
           /\ Justified(FirstMatch(msg, online), msg)
<1> DEFINE n == Len(rules)
           I == {i \in 1 .. n : Matches(rules[i], msg, online)}
           found == FirstMatch(msg, online)
<1>1. n \in Nat /\ DOMAIN rules = 1 .. n /\ \A i \in 1 .. n : rules[i] \in Rule
  BY LenProperties, ElementOfSeq
<1>2. ToSet(rules) = {rules[i] : i \in 1 .. n}
  BY <1>1 DEF ToSet
<1>3. found = LET i == IF I # {} THEN Min(I) ELSE 0 IN IF i = 0 THEN NoRule ELSE rules[i]
  BY DEF FirstMatch, SelectInSeq
<1>4. CASE I = {}
  <2>1. found = NoRule
    BY <1>3, <1>4
  <2>2. ~ \E r \in ToSet(rules) : Matches(r, msg, online)
    BY <1>2, <1>4
  <2> HIDE DEF found
  <2>3. Justified(found, msg)
    BY <2>1, <2>2 DEF Justified
  <2>4. QED
    BY <2>1, <2>3 DEF found
<1>5. CASE I # {}
  <2> DEFINE m == Min(I)
  <2>1. m \in I /\ \A i \in I : m <= i
    <3>1. I \in SUBSET Nat
      OBVIOUS
    <3> HIDE DEF I
    <3>2. QED
      BY <1>5, <3>1, LeastExists
  <2>2. found = rules[m]
    BY <1>1, <1>3, <1>5, <2>1
  <2> HIDE DEF m, found
  <2>3. m \in 1 .. n /\ Matches(rules[m], msg, online) /\ rules[m] \in Rule
    BY <1>1, <2>1
  <2>4. Spares(rules[m], msg.first, msg.vip)
    BY <2>3 DEF Matches, Spares
  <2>5. rules[m].pun = "none" \/ {r \in ToSet(rules) : r.pun = "none" /\ Matches(r, msg, online)} = {}
    <3> SUFFICES ASSUME rules[m].pun # "none", NEW r \in ToSet(rules), r.pun = "none",
                        Matches(r, msg, online)
                 PROVE  FALSE
      OBVIOUS
    <3>1. PICK j \in 1 .. n : r = rules[j]
      BY <1>2
    <3>2. j \in I /\ j < m
      BY <2>3, <3>1 DEF ExemptingFirst
    <3>3. QED
      BY <1>1, <2>1, <3>2
  <2>6. Justified(rules[m], msg)
    BY <1>2, <2>3, <2>5, KindsApart DEF Justified
  <2>7. QED
    BY <2>2, <2>3, <2>4, <2>6 DEF found
<1>6. QED
  BY <1>4, <1>5

\* The verdict for a first message that is not for first messages only is
\* also that for later ones.
LEMMA JustifiedLater ==
    ASSUME rules \in Seq(Rule), NEW msg \in Messages, NEW found \in Rule \cup {NoRule},
           Justified(found, msg)
    PROVE  Justified(found, [text |-> msg.text, vip |-> msg.vip, first |-> FirstOnly(found)])
<1> DEFINE other == [text |-> msg.text, vip |-> msg.vip, first |-> FirstOnly(found)]
<1>1. PICK online \in BOOLEAN :
         LET Applies(r) == Matches(r, msg, online)
             Exempting  == {r \in ToSet(rules) : r.pun = "none" /\ Applies(r)}
         IN IF found = NoRule THEN ~\E r \in ToSet(rules) : Applies(r)
            ELSE /\ found \in ToSet(rules)
                 /\ Applies(found)
                 /\ found.pun = "none" \/ Exempting = {}
  BY DEF Justified
<1>2. msg \in [text : SUBSET Names, vip : BOOLEAN, first : BOOLEAN]
  BY MwordsAssumption
<1>3. FirstOnly(found) \in BOOLEAN
  BY DEF FirstOnly
<1>4. found # NoRule /\ Matches(found, msg, online) /\ FirstOnly(found) => msg.first
  BY DEF Matches, FirstOnly
<1>5. msg.first \/ ~FirstOnly(found) =>
        \A r : Matches(r, other, online) => Matches(r, msg, online)
  BY DEF Matches
<1>6. found # NoRule /\ Matches(found, msg, online) => Matches(found, other, online)
  BY DEF Matches, FirstOnly
<1>7. found = NoRule => ~FirstOnly(found)
  BY DEF FirstOnly
<1> HIDE DEF other
<1>8. Justified(found, other)
  BY <1>1, <1>4, <1>5, <1>6, <1>7 DEF Justified
<1>9. QED
  BY <1>8 DEF other

\* Settings updated from settings give rules for the sorted list.
LEMMA ConfigMerged ==
    ASSUME NEW ss, NEW gs, IsConfig(ss, gs)
    PROVE  IsConfig(ss, MergedGroups(gs))
BY MergedGroupsType DEF IsConfig

\* A start, with the settings read from disk.
LEMMA MwordsInitInv ==
    ASSUME Init
    PROVE  MwordsInv
<1>1. IsConfig(singles, groups)
  <2>1. PICK saved \in StartConfigs : /\ singles = ReloadedWords(saved.singles)
                                      /\ groups = MergedGroups(ReloadedGroups(saved.groups))
    BY DEF Init
  <2>2. IsConfig(ReloadedWords(saved.singles), ReloadedGroups(saved.groups))
    BY StartAssumption, ReloadedType
  <2>3. QED
    BY <2>1, <2>2, ConfigMerged
<1>2. rules \in Seq(Rule) /\ ExemptingFirst(rules)
  BY <1>1, BuiltRulesType DEF Init
<1>3. Shapes
  <2>1. installing \in BOOLEAN /\ live \in BOOLEAN
    BY DEF Init
  <2>2. commands \in 0 .. MaxCommands
    BY MwordsBounds DEF Init
  <2>3. cache \in [Keys -> CacheMap \cup {None}] /\ check \in [Workers -> Check \cup {NoCheck}]
    BY DEF Init
  <2>4. uncached = {}
    BY DEF Init
  <2>5. QED
    BY <1>1, <1>2, <2>1, <2>2, <2>3, <2>4 DEF Shapes
<1>4. OneMap /\ MapsHold
  BY DEF Init, OneMap, MapsHold
<1>5. WhileInstalling /\ Fresh
  <2>1. \A w \in Workers : check[w].at # "remember"
    BY DEF Init, NoCheck
  <2>2. QED
    BY <2>1 DEF Init, WhileInstalling, Fresh
<1>6. QED
  BY <1>3, <1>4, <1>5 DEF MwordsInv

\* What a check is about, and who holds a cached map.
LEMMA CheckShape ==
    ASSUME Shapes, NEW w \in Workers
    PROVE  /\ check[w] # NoCheck => check[w] \in Check /\ KeyOf(w) \in Keys
           /\ check[w].at \in {"scan", "remember"} => check[w] # NoCheck
           /\ \A k : w \in Holders(k) <=> check[w] # NoCheck /\ check[w].cached /\ KeyOf(w) = k
<1>1. check[w] \in Check \cup {NoCheck}
  BY DEF Shapes
<1>2. check[w] \in Check => KeyOf(w) \in Keys
  BY DEF Check, KeyOf, Key, Keys
<1>3. NoCheck.at = "idle"
  BY DEF NoCheck
<1>4. QED
  BY <1>1, <1>2, <1>3 DEF Holders, KeyOf

\* What is evicted are the cached maps that somebody holds.
LEMMA EvictedShape ==
    ASSUME NEW K \in SUBSET Keys
    PROVE  /\ \A e \in Evicted(K) : \E k \in K : e = [by |-> Holders(k), map |-> cache[k]]
           /\ \A k \in K : Holders(k) # {} => [by |-> Holders(k), map |-> cache[k]] \in Evicted(K)
BY DEF Evicted

\* Keys lose their maps, which those who hold them keep.
LEMMA EvictKeeps ==
    ASSUME Shapes, OneMap, MapsHold, NEW K \in SUBSET Keys,
           \A k \in Keys : cache'[k] = IF k \in K THEN None ELSE cache[k],
           uncached' = uncached \cup Evicted(K),
           \A w \in Workers : check[w] = NoCheck => check'[w] = NoCheck,
           \A w \in Workers : check[w] # NoCheck =>
              /\ check'[w] # NoCheck
              /\ check'[w].msg = check[w].msg /\ check'[w].found = check[w].found
              /\ check'[w].cached <=> check[w].cached /\ KeyOf(w) \notin K
    PROVE  /\ uncached' \subseteq [by : SUBSET Workers, map : CacheMap]
           /\ OneMap' /\ MapsHold'
<1>1. \A w \in Workers : /\ check'[w] = NoCheck <=> check[w] = NoCheck
                         /\ check[w] # NoCheck => KeyOf(w)' = KeyOf(w) /\ KeyOf(w) \in Keys
  BY CheckShape DEF KeyOf
<1>2. ASSUME NEW e \in Evicted(K)
      PROVE  /\ e \in [by : SUBSET Workers, map : CacheMap]
             /\ \E k \in K : /\ e.map = cache[k] /\ cache[k] # None
                             /\ \A w \in e.by : /\ w \in Workers /\ check[w] # NoCheck
                                                /\ check[w].cached /\ KeyOf(w) = k
  <2>1. PICK k \in K : e = [by |-> Holders(k), map |-> cache[k]] /\ Holders(k) # {}
    BY DEF Evicted
  <2>2. \A w \in Holders(k) : /\ w \in Workers /\ check[w] # NoCheck
                              /\ check[w].cached /\ KeyOf(w) = k
    BY CheckShape DEF Holders
  <2>3. cache[k] # None
    BY <2>1, <2>2 DEF OneMap
  <2>4. Holders(k) \in SUBSET Workers /\ cache[k] \in CacheMap
    BY <2>3 DEF Shapes, Holders
  <2>5. QED
    BY <2>1, <2>2, <2>3, <2>4
<1>3. uncached' \subseteq [by : SUBSET Workers, map : CacheMap]
  BY <1>2 DEF Shapes
<1>4. ASSUME NEW w \in Workers, check[w] # NoCheck
      PROVE  IF check'[w].cached THEN cache'[KeyOf(w)] # None ELSE \E u \in uncached' : w \in u.by
  <2>1. CASE ~check[w].cached
    BY <1>4, <2>1 DEF OneMap
  <2>2. CASE check[w].cached /\ KeyOf(w) \notin K
    BY <1>1, <1>4, <2>2 DEF OneMap
  <2>3. CASE check[w].cached /\ KeyOf(w) \in K
    <3>1. w \in Holders(KeyOf(w))
      BY <1>4, <2>3, CheckShape
    <3>2. [by |-> Holders(KeyOf(w)), map |-> cache[KeyOf(w)]] \in uncached'
      BY <2>3, <3>1, EvictedShape
    <3>3. QED
      BY <1>4, <2>3, <3>1, <3>2
  <2>4. QED
    BY <2>1, <2>2, <2>3
<1>5. ASSUME NEW u \in uncached', NEW w \in u.by
      PROVE  check'[w] # NoCheck /\ ~check'[w].cached
  <2>1. CASE u \in uncached
    <3>1. w \in Workers /\ check[w] # NoCheck /\ ~check[w].cached
      BY <2>1 DEF OneMap, Shapes
    <3>2. QED
      BY <3>1
  <2>2. CASE u \in Evicted(K)
    BY <1>2, <2>2
  <2>3. QED
    BY <2>1, <2>2
<1>6. ASSUME NEW u \in uncached', NEW v \in uncached', NEW w \in u.by, w \in v.by
      PROVE  u = v
  <2>1. CASE u \in uncached /\ v \in uncached
    BY <1>6, <2>1 DEF OneMap
  <2>2. CASE u \in Evicted(K) /\ v \in Evicted(K)
    <3>1. PICK k \in K : u = [by |-> Holders(k), map |-> cache[k]]
      BY <2>2, EvictedShape
    <3>2. PICK j \in K : v = [by |-> Holders(j), map |-> cache[j]]
      BY <2>2, EvictedShape
    <3>3. w \in Workers /\ w \in Holders(k) /\ w \in Holders(j)
      BY <1>6, <3>1, <3>2 DEF Holders
    <3>4. k = j
      BY <3>3, CheckShape
    <3>5. QED
      BY <3>1, <3>2, <3>4
  <2>3. CASE u \in uncached /\ v \in Evicted(K)
    BY <1>2, <1>6, <2>3 DEF OneMap
  <2>4. CASE u \in Evicted(K) /\ v \in uncached
    BY <1>2, <1>6, <2>4 DEF OneMap
  <2>5. QED
    BY <2>1, <2>2, <2>3, <2>4
<1>7. ASSUME NEW u \in uncached', NEW v \in u.by, NEW w \in u.by
      PROVE  v \in Workers /\ w \in Workers /\ KeyOf(v) = KeyOf(w) /\ VerdictsHold(u.map, KeyOf(w))
  <2>1. CASE u \in uncached
    BY <2>1 DEF OneMap, MapsHold, Shapes
  <2>2. CASE u \in Evicted(K)
    BY <1>2, <2>2 DEF MapsHold
  <2>3. QED
    BY <2>1, <2>2
<1>8. OneMap'
  <2>1. \A u \in uncached' : \A w \in u.by : w \in Workers /\ KeyOf(w)' = KeyOf(w)
    BY <1>1, <1>5, <1>7
  <2>2. QED
    BY <1>1, <1>4, <1>5, <1>6, <1>7, <2>1 DEF OneMap
<1>9. MapsHold'
  <2>1. \A k \in Keys : cache'[k] # None => cache'[k] = cache[k]
    OBVIOUS
  <2>2. \A u \in uncached' : \A w \in u.by : VerdictsHold(u.map, KeyOf(w)')
    BY <1>1, <1>5, <1>7
  <2>3. QED
    BY <1>1, <2>1, <2>2 DEF MapsHold, VerdictsHold
<1>10. QED
  BY <1>3, <1>8, <1>9

\* What the rules justify changes with the rules only.
LEMMA RulesKept ==
    ASSUME UNCHANGED rules
    PROVE  /\ \A verdict, msg : Justified(verdict, msg)' <=> Justified(verdict, msg)
           /\ \A map, key : VerdictsJust(map, key)' <=> VerdictsJust(map, key)
BY DEF Justified, VerdictsJust

\* A command, up to the installation of its rules: whatever is in use is marked.
LEMMA UpdateKeeps ==
    ASSUME MwordsInv, NEW ss, NEW gs, IsConfig(ss, gs), Update(ss, gs), commands < MaxCommands
    PROVE  MwordsInv'
<1>1. Shapes /\ OneMap /\ MapsHold
  BY DEF MwordsInv
<1>2. IsConfig(singles', groups')
  BY ConfigMerged DEF Update
<1>3. rules' \in Seq(Rule) /\ ExemptingFirst(rules')
  BY <1>1, <1>2, RepointedType DEF Update, Shapes
<1>4. ASSUME NEW w \in Workers
      PROVE  /\ check'[w] \in Check \cup {NoCheck}
             /\ check[w] = NoCheck => check'[w] = NoCheck
             /\ check[w] # NoCheck => /\ check'[w] # NoCheck
                                      /\ check'[w].msg = check[w].msg
                                      /\ check'[w].found = check[w].found
                                      /\ ~check'[w].cached /\ check'[w].overlap
  <2>1. check'[w] = IF check[w] = NoCheck THEN NoCheck
                    ELSE [check[w] EXCEPT !.cached = FALSE, !.overlap = TRUE]
    BY DEF Update
  <2>2. check[w] # NoCheck => check[w] \in Check
    BY <1>1, CheckShape
  <2>3. check[w] # NoCheck => check'[w] \in Check
    BY <2>1, <2>2 DEF Check
  <2>4. QED
    BY <2>1, <2>2, <2>3, KindsApart DEF Check
<1>5. check' \in [Workers -> Check \cup {NoCheck}]
  BY <1>4 DEF Update
<1>6. cache' = [k \in Keys |-> None] /\ uncached' = uncached \cup Evicted(Keys)
  BY DEF Update, ClearAll
<1>7. \A w \in Workers : check[w] # NoCheck => KeyOf(w) \in Keys
  BY <1>1, CheckShape
<1>8. uncached' \subseteq [by : SUBSET Workers, map : CacheMap] /\ OneMap' /\ MapsHold'
  BY <1>1, <1>4, <1>6, <1>7, EvictKeeps
<1>9. Shapes'
  <2>1. installing' \in BOOLEAN /\ live' \in BOOLEAN
    BY <1>1 DEF Update, Shapes
  <2>2. commands' \in 0 .. MaxCommands
    <3>1. commands \in 0 .. MaxCommands /\ commands' = commands + 1
      BY <1>1 DEF Update, Shapes
    <3>2. QED
      BY <3>1, MwordsBounds
  <2>3. cache' \in [Keys -> CacheMap \cup {None}]
    BY <1>6
  <2>4. QED
    BY <1>2, <1>3, <1>5, <1>8, <2>1, <2>2, <2>3 DEF Shapes
<1>10. WhileInstalling' /\ Fresh'
  <2>1. installing' = TRUE
    BY DEF Update
  <2>2. QED
    BY <1>4, <1>6, <2>1 DEF WhileInstalling, Fresh
<1>11. QED
  BY <1>8, <1>9, <1>10 DEF MwordsInv

\* The rules change under checks and maps that are all marked.
LEMMA InstallKeeps ==
    ASSUME MwordsInv, Install
    PROVE  MwordsInv'
<1>1. rules' \in Seq(Rule) /\ ExemptingFirst(rules')
  BY BuiltRulesType DEF Install, MwordsInv, Shapes, config
<1>2. /\ installing /\ installing' = FALSE
      /\ UNCHANGED <<singles, groups, cache, uncached, live, check, commands>>
  BY DEF Install, config
<1>3. Shapes'
  BY <1>1, <1>2 DEF MwordsInv, Shapes
<1>4. OneMap' /\ MapsHold'
  <2>1. \A w \in Workers : KeyOf(w)' = KeyOf(w)
    BY <1>2 DEF KeyOf
  <2>2. OneMap'
    BY <1>2 DEF MwordsInv, OneMap, KeyOf
  <2>3. MapsHold'
    BY <1>2 DEF MwordsInv, MapsHold, KeyOf, VerdictsHold
  <2>4. QED
    BY <2>2, <2>3
<1>5. WhileInstalling'
  BY <1>2 DEF WhileInstalling
<1>6. Fresh'
  <2>1. /\ \A k \in Keys : cache[k] # None => cache[k].stale
        /\ \A w \in Workers : check[w] # NoCheck => check[w].overlap
    BY <1>2 DEF MwordsInv, WhileInstalling
  <2>2. \A u \in uncached : \A w \in u.by : w \in Workers /\ check[w] # NoCheck
    BY DEF MwordsInv, Shapes, OneMap
  <2>3. \A w \in Workers : check[w].at = "remember" => check[w] # NoCheck
    BY CheckShape DEF MwordsInv
  <2>4. QED
    BY <1>2, <2>1, <2>2, <2>3 DEF Fresh
<1>7. QED
  BY <1>3, <1>4, <1>5, <1>6 DEF MwordsInv

\* What a check finds is one of the rules it read, the first that applies.
LEMMA ScanKeeps ==
    ASSUME MwordsInv, NEW w \in Workers, Scan(w)
    PROVE  MwordsInv'
<1> DEFINE found == FirstMatch(check[w].msg, check[w].online)
<1>1. Shapes /\ OneMap /\ MapsHold /\ WhileInstalling /\ Fresh
  BY DEF MwordsInv
<1>2. UNCHANGED <<singles, groups, rules, installing, cache, uncached, live, commands>>
  BY DEF Scan, config
<1>3. check[w] # NoCheck /\ check[w] \in Check
  BY <1>1, CheckShape DEF Scan
<1>4. /\ found \in Rule \cup {NoRule}
      /\ found # NoRule => Spares(found, check[w].msg.first, check[w].msg.vip)
      /\ Justified(found, check[w].msg)
  BY <1>1, <1>3, FirstMatchFound DEF Check, Shapes
<1> HIDE DEF found
<1>5. check' = [check EXCEPT ![w].at = "remember", ![w].found = found]
  BY DEF Scan, found
<1>6. /\ check'[w] \in Check /\ check'[w].msg = check[w].msg /\ check'[w].found = found
      /\ check'[w].cached = check[w].cached /\ check'[w].overlap = check[w].overlap
      /\ check'[w] # NoCheck
  BY <1>1, <1>3, <1>4, <1>5, KindsApart DEF Shapes, Check
<1>7. \A v \in Workers : v # w => check'[v] = check[v]
  BY <1>1, <1>5 DEF Shapes
<1>8. check' \in [Workers -> Check \cup {NoCheck}]
  BY <1>1, <1>5, <1>6, <1>7 DEF Shapes
<1>9. \A v \in Workers : /\ check'[v] = NoCheck <=> check[v] = NoCheck
                         /\ check'[v].msg = check[v].msg
                         /\ check'[v].cached <=> check[v].cached
                         /\ check'[v].overlap <=> check[v].overlap
                         /\ KeyOf(v)' = KeyOf(v)
  BY <1>3, <1>6, <1>7 DEF KeyOf
<1>10. Shapes'
  BY <1>1, <1>2, <1>8 DEF Shapes
<1>11. \A u \in uncached : u.by \subseteq Workers
  BY <1>1 DEF Shapes
<1>12. OneMap'
  BY <1>1, <1>2, <1>9, <1>11 DEF OneMap
<1>13. MapsHold'
  <2>1. \A v \in Workers : check'[v] # NoCheck /\ check'[v].found # NoRule =>
           Spares(check'[v].found, check'[v].msg.first, check'[v].msg.vip)
    BY <1>1, <1>4, <1>6, <1>7 DEF MapsHold
  <2>2. \A u \in uncached' : \A v \in u.by : VerdictsHold(u.map, KeyOf(v)')
    BY <1>1, <1>2, <1>9, <1>11 DEF MapsHold
  <2>3. \A k \in Keys : cache'[k] # None => VerdictsHold(cache'[k], k)
    BY <1>1, <1>2 DEF MapsHold
  <2>4. QED
    BY <2>1, <2>2, <2>3 DEF MapsHold, VerdictsHold, Spares
<1>14. WhileInstalling'
  BY <1>1, <1>2, <1>9 DEF WhileInstalling
<1>15. Fresh'
  <2>1. \A v \in Workers : check'[v].at = "remember" /\ ~installing =>
           check'[v].overlap \/ Justified(check'[v].found, check'[v].msg)
    BY <1>1, <1>4, <1>6, <1>7 DEF Fresh
  <2>2. (~installing => \A v \in Workers : check[v].at = "remember" =>
           check[v].overlap \/ Justified(check[v].found, check[v].msg))'
    BY <1>2, <2>1, RulesKept
  <2>3. (~installing => \A u \in uncached : \A v \in u.by :
           check[v].overlap \/ u.map.stale \/ VerdictsJust(u.map, KeyOf(v)))'
    BY <1>1, <1>2, <1>9, <1>11, RulesKept DEF Fresh
  <2>4. QED
    BY <1>1, <1>2, <2>2, <2>3, RulesKept DEF Fresh
<1>16. QED
  BY <1>10, <1>12, <1>13, <1>14, <1>15 DEF MwordsInv

\* A check begins with the cached map, or an empty one of its own.
LEMMA CheckUncachedKeeps ==
    ASSUME MwordsInv, NEW w \in Workers, NEW msg \in Messages, CheckUncached(w, msg)
    PROVE  MwordsInv'
<1> DEFINE key    == Key(msg)
           cached == cache[key] # None
           new    == [at |-> "scan", msg |-> msg, online |-> live, found |-> NoRule,
                      cached |-> cached, overlap |-> installing]
           entry  == [by |-> {w}, map |-> EmptyMap]
<1>1. Shapes /\ OneMap /\ MapsHold /\ WhileInstalling /\ Fresh
  BY DEF MwordsInv
<1>2. /\ check[w] = NoCheck /\ check' = [check EXCEPT ![w] = new]
      /\ uncached' = uncached \cup (IF cached THEN {} ELSE {entry})
      /\ UNCHANGED <<singles, groups, rules, installing, cache, live, commands>>
  BY DEF CheckUncached, config
<1>3. /\ new \in Check /\ new # NoCheck /\ new.msg = msg /\ new.found = NoRule /\ new.at = "scan"
      /\ (new.cached <=> cached) /\ (new.overlap <=> installing)
  BY <1>1 DEF Check, NoCheck, Shapes
<1>4. EmptyMap \in CacheMap /\ \A b \in BOOLEAN : EmptyMap.verdict[b] = None
  BY DEF EmptyMap, CacheMap
<1> HIDE DEF new
<1>5. /\ check'[w] = new /\ \A v \in Workers : v # w => check'[v] = check[v]
      /\ check' \in [Workers -> Check \cup {NoCheck}]
  BY <1>1, <1>2, <1>3 DEF Shapes
<1>6. key \in Keys /\ KeyOf(w)' = key
  BY <1>3, <1>5 DEF Key, Keys, KeyOf
<1>7. \A v \in Workers : v # w => KeyOf(v)' = KeyOf(v)
  BY <1>5 DEF KeyOf
<1>8. entry \in [by : SUBSET Workers, map : CacheMap]
  BY <1>4
<1>9. entry.by = {w} /\ entry.map = EmptyMap
  OBVIOUS
<1> HIDE DEF entry, key
<1>10. ASSUME NEW u \in uncached
       PROVE  w \notin u.by /\ u.by \subseteq Workers
  BY <1>1, <1>2 DEF OneMap, Shapes
<1>11. \A u \in uncached' : u \in uncached \/ (u = entry /\ ~cached)
  BY <1>2
<1>12. Shapes'
  BY <1>1, <1>2, <1>5, <1>8 DEF Shapes
<1>13. OneMap'
  <2>1. ASSUME NEW v \in Workers, check'[v] # NoCheck
        PROVE  IF check'[v].cached THEN cache[KeyOf(v)'] # None ELSE \E u \in uncached' : v \in u.by
    <3>1. CASE v = w
      BY <1>2, <1>3, <1>5, <1>6, <1>9, <3>1
    <3>2. CASE v # w
      BY <1>1, <1>2, <1>5, <1>7, <2>1, <3>2 DEF OneMap
    <3>3. QED
      BY <3>1, <3>2
  <2>2. ASSUME NEW u \in uncached', NEW v \in u.by
        PROVE  check'[v] # NoCheck /\ ~check'[v].cached
    <3>1. CASE u \in uncached
      BY <1>1, <1>5, <1>10, <3>1 DEF OneMap
    <3>2. CASE u = entry /\ ~cached
      BY <1>3, <1>5, <1>9, <3>2
    <3>3. QED
      BY <1>11, <3>1, <3>2
  <2>3. ASSUME NEW u \in uncached', NEW v \in uncached', NEW x \in u.by, x \in v.by
        PROVE  u = v
    BY <1>1, <1>9, <1>10, <1>11, <2>3 DEF OneMap
  <2>4. ASSUME NEW u \in uncached', NEW v \in u.by, NEW x \in u.by
        PROVE  KeyOf(v)' = KeyOf(x)'
    <3>1. CASE u \in uncached
      BY <1>1, <1>7, <1>10, <3>1 DEF OneMap
    <3>2. CASE u = entry
      BY <1>9, <3>2
    <3>3. QED
      BY <1>11, <3>1, <3>2
  <2>5. QED
    BY <1>2, <2>1, <2>2, <2>3, <2>4 DEF OneMap
<1>14. MapsHold'
  <2>1. ASSUME NEW u \in uncached', NEW v \in u.by
        PROVE  VerdictsHold(u.map, KeyOf(v)')
    <3>1. CASE u \in uncached
      BY <1>1, <1>7, <1>10, <3>1 DEF MapsHold
    <3>2. CASE u = entry
      BY <1>4, <1>9, <3>2 DEF VerdictsHold
    <3>3. QED
      BY <1>11, <3>1, <3>2
  <2>2. ASSUME NEW v \in Workers, check'[v] # NoCheck, check'[v].found # NoRule
        PROVE  Spares(check'[v].found, check'[v].msg.first, check'[v].msg.vip)
    BY <1>1, <1>3, <1>5, <2>2 DEF MapsHold
  <2>3. \A k \in Keys : cache'[k] # None => VerdictsHold(cache'[k], k)
    BY <1>1, <1>2 DEF MapsHold
  <2>4. QED
    BY <2>1, <2>2, <2>3 DEF MapsHold, VerdictsHold, Spares
<1>15. WhileInstalling'
  BY <1>1, <1>2, <1>3, <1>5 DEF WhileInstalling
<1>16. Fresh'
  <2>1. (~installing => \A u \in uncached : \A v \in u.by :
           check[v].overlap \/ u.map.stale \/ VerdictsJust(u.map, KeyOf(v)))'
    <3> SUFFICES ASSUME ~installing, NEW u \in uncached', NEW v \in u.by
                 PROVE  (check[v].overlap \/ u.map.stale \/ VerdictsJust(u.map, KeyOf(v)))'
      BY <1>2
    <3>1. CASE u \in uncached
      BY <1>1, <1>2, <1>5, <1>7, <1>10, <3>1, RulesKept DEF Fresh
    <3>2. CASE u = entry
      BY <1>4, <1>9, <3>2 DEF VerdictsJust
    <3>3. QED
      BY <1>11, <3>1, <3>2
  <2>2. (~installing => \A v \in Workers : check[v].at = "remember" =>
           check[v].overlap \/ Justified(check[v].found, check[v].msg))'
    BY <1>1, <1>2, <1>3, <1>5, RulesKept DEF Fresh
  <2>3. QED
    BY <1>1, <1>2, <2>1, <2>2, RulesKept DEF Fresh
<1>17. QED
  BY <1>12, <1>13, <1>14, <1>15, <1>16 DEF MwordsInv

\* What a check writes into the map it holds.
Written(map, own) ==
    [map EXCEPT !.verdict[FirstOnly(own.found)] = own.found, !.stale = @ \/ own.overlap]

\* It stays a map whose verdicts hold and, if both were, are justified.
LEMMA WrittenHolds ==
    ASSUME NEW map \in CacheMap, NEW own \in Check, VerdictsHold(map, Key(own.msg)),
           own.found # NoRule => Spares(own.found, own.msg.first, own.msg.vip)
    PROVE  /\ Written(map, own) \in CacheMap
           /\ Written(map, own).stale <=> map.stale \/ own.overlap
           /\ VerdictsHold(Written(map, own), Key(own.msg))
           /\ rules \in Seq(Rule) /\ VerdictsJust(map, Key(own.msg)) /\ Justified(own.found, own.msg)
                => VerdictsJust(Written(map, own), Key(own.msg))
<1> DEFINE new   == Written(map, own)
           first == FirstOnly(own.found)
           key   == Key(own.msg)
           stale == map.stale \/ own.overlap
<1>1. first \in BOOLEAN /\ own.found \in Rule \cup {NoRule} /\ own.msg \in Messages
      /\ own.overlap \in BOOLEAN
  BY DEF FirstOnly, Check
<1>2. /\ map.verdict \in [BOOLEAN -> Rule \cup {NoRule, None}] /\ map.stale \in BOOLEAN
      /\ map = [verdict |-> map.verdict, stale |-> map.stale]
  BY DEF CacheMap
<1>3. new = [map EXCEPT !.verdict[first] = own.found, !.stale = stale]
  BY DEF Written
<1>4. /\ \A b \in BOOLEAN : new.verdict[b] = IF b = first THEN own.found ELSE map.verdict[b]
      /\ new.stale = stale /\ new \in CacheMap
  <2>1. stale \in BOOLEAN
    OBVIOUS
  <2> HIDE DEF stale, first, new
  <2>2. new \in CacheMap /\ new.stale = stale /\ new.verdict = [map.verdict EXCEPT ![first] = own.found]
    BY <1>1, <1>2, <1>3, <2>1 DEF CacheMap
  <2>3. QED
    BY <1>1, <1>2, <2>2
<1>5. new \in CacheMap
  BY <1>4
<1>6. new.stale <=> map.stale \/ own.overlap
  <2> HIDE DEF new
  <2>1. QED
    BY <1>4
<1>7. key[1] = own.msg.text /\ key[2] = own.msg.vip
  BY DEF Key
<1>8. own.found # NoRule => Spares(own.found, first, own.msg.vip)
  BY DEF Spares, FirstOnly
<1>9. VerdictsHold(new, key)
  <2> HIDE DEF new, first, key
  <2>1. QED
    BY <1>4, <1>7, <1>8 DEF VerdictsHold, key
<1>10. ASSUME rules \in Seq(Rule), VerdictsJust(map, key), Justified(own.found, own.msg)
       PROVE  VerdictsJust(new, key)
  <2>1. Justified(own.found, [text |-> key[1], vip |-> key[2], first |-> first])
    BY <1>1, <1>7, <1>10, JustifiedLater
  <2> HIDE DEF new, first, key
  <2>2. QED
    BY <1>4, <1>10, <2>1 DEF VerdictsJust
<1>11. QED
  BY <1>5, <1>6, <1>9, <1>10

\* A check puts the map it holds, with its verdict, into the cache; those who
\* hold the same map hold the cached one from then on, and those who held the
\* one cached before keep it.
LEMMA RememberKeeps ==
    ASSUME MwordsInv, NEW w \in Workers, Remember(w)
    PROVE  MwordsInv'
<1> DEFINE own  == check[w]
           key  == Key(own.msg)
           held == IF own.cached THEN [by |-> Holders(key), map |-> cache[key]]
                   ELSE CHOOSE u \in uncached : w \in u.by
           old  == [by |-> Holders(key), map |-> cache[key]]
           new  == Written(held.map, own)
<1>1. Shapes /\ OneMap /\ MapsHold /\ WhileInstalling /\ Fresh
  BY DEF MwordsInv
<1>2. own.at = "remember" /\ own # NoCheck /\ own \in Check /\ key \in Keys /\ KeyOf(w) = key
  BY <1>1, CheckShape DEF Remember, KeyOf
<1>3. /\ cache' = [cache EXCEPT ![key] = new]
      /\ uncached' = IF own.cached THEN uncached ELSE (uncached \ {held}) \cup Evicted({key})
      /\ \A v \in Workers : check'[v] =
             IF v = w THEN NoCheck
             ELSE IF v \in held.by THEN [check[v] EXCEPT !.cached = TRUE]
             ELSE IF v \in Holders(key) THEN [check[v] EXCEPT !.cached = FALSE]
             ELSE check[v]
      /\ DOMAIN check' = Workers /\ check' = [v \in Workers |-> check'[v]]
      /\ UNCHANGED <<singles, groups, rules, installing, live, commands>>
  BY DEF Remember, Written, config
<1>4. \A v \in Workers : v \in Holders(key) <=> check[v] # NoCheck /\ check[v].cached /\ KeyOf(v) = key
  BY <1>1, CheckShape
<1>5. /\ w \in held.by /\ held.by \subseteq Workers /\ held.map \in CacheMap
      /\ VerdictsHold(held.map, key)
      /\ \A v \in held.by : check[v] # NoCheck /\ KeyOf(v) = key
      /\ own.cached => held = old /\ cache[key] # None
      /\ ~own.cached => held \in uncached /\ \A v \in held.by : ~check[v].cached
  <2>1. CASE own.cached
    <3>1. held = old /\ cache[key] # None
      BY <1>1, <1>2, <2>1 DEF OneMap
    <3>2. cache[key] \in CacheMap /\ VerdictsHold(cache[key], key) /\ old.by \subseteq Workers
      BY <1>1, <1>2, <3>1 DEF Shapes, MapsHold, Holders
    <3>3. w \in old.by /\ \A v \in old.by : check[v] # NoCheck /\ KeyOf(v) = key
      BY <1>2, <1>4, <2>1, <3>2
    <3> HIDE DEF held
    <3>4. QED
      BY <2>1, <3>1, <3>2, <3>3
  <2>2. CASE ~own.cached
    <3>1. \E u \in uncached : w \in u.by
      BY <1>1, <1>2, <2>2 DEF OneMap
    <3>2. held \in uncached /\ w \in held.by
      BY <2>2, <3>1
    <3> HIDE DEF held
    <3>3. held.by \subseteq Workers /\ held.map \in CacheMap
      BY <1>1, <3>2 DEF Shapes
    <3>4. \A v \in held.by : check[v] # NoCheck /\ ~check[v].cached /\ KeyOf(v) = key
      BY <1>1, <1>2, <3>2 DEF OneMap
    <3>5. VerdictsHold(held.map, key)
      BY <1>1, <1>2, <3>2 DEF MapsHold
    <3>6. QED
      BY <2>2, <3>2, <3>3, <3>4, <3>5
  <2>3. QED
    BY <2>1, <2>2
<1> HIDE DEF held
<1>6. own.found # NoRule => Spares(own.found, own.msg.first, own.msg.vip)
  BY <1>1, <1>2 DEF MapsHold
<1>7. /\ new \in CacheMap /\ VerdictsHold(new, key)
      /\ new.stale <=> held.map.stale \/ own.overlap
      /\ VerdictsJust(held.map, key) /\ Justified(own.found, own.msg) => VerdictsJust(new, key)
  BY <1>1, <1>2, <1>5, <1>6, WrittenHolds DEF Shapes
<1> HIDE DEF new
<1>8. ASSUME NEW v \in Workers, v # w
      PROVE  /\ check'[v] \in Check \cup {NoCheck}
             /\ check'[v] = NoCheck <=> check[v] = NoCheck
             /\ check[v] # NoCheck =>
                  /\ check'[v].msg = check[v].msg /\ check'[v].found = check[v].found
                  /\ check'[v].at = check[v].at /\ (check'[v].overlap <=> check[v].overlap)
                  /\ KeyOf(v)' = KeyOf(v)
                  /\ check'[v].cached <=>
                       v \in held.by \/ (check[v].cached /\ KeyOf(v) # key)
  <2>1. check[v] # NoCheck => check[v] \in Check
    BY <1>1, CheckShape
  <2>2. CASE check[v] = NoCheck
    <3>1. v \notin held.by /\ v \notin Holders(key)
      BY <1>4, <1>5, <2>2
    <3>2. QED
      BY <1>3, <1>8, <2>2, <3>1
  <2>3. CASE check[v] # NoCheck
    <3>1. CASE v \in held.by
      <4>1. check'[v] = [check[v] EXCEPT !.cached = TRUE]
        BY <1>3, <1>8, <3>1
      <4>2. check'[v] \in Check /\ check'[v].cached = TRUE
        BY <2>1, <2>3, <4>1 DEF Check
      <4>3. QED
        BY <2>1, <2>3, <3>1, <4>1, <4>2, KindsApart DEF Check, KeyOf
    <3>2. CASE v \notin held.by /\ v \in Holders(key)
      <4>1. check'[v] = [check[v] EXCEPT !.cached = FALSE]
        BY <1>3, <1>8, <3>2
      <4>2. check'[v] \in Check /\ check'[v].cached = FALSE
        BY <2>1, <2>3, <4>1 DEF Check
      <4>3. QED
        BY <1>4, <2>1, <2>3, <3>2, <4>1, <4>2, KindsApart DEF Check, KeyOf
    <3>3. CASE v \notin held.by /\ v \notin Holders(key)
      <4>1. check'[v] = check[v]
        BY <1>3, <1>8, <3>3
      <4>2. QED
        BY <1>4, <2>1, <2>3, <3>3, <4>1 DEF KeyOf
    <3>4. QED
      BY <3>1, <3>2, <3>3
  <2>4. QED
    BY <2>2, <2>3
<1>9. check'[w] = NoCheck
  BY <1>3
<1>10. \A k \in Keys : cache'[k] = IF k = key THEN new ELSE cache[k]
  BY <1>1, <1>2, <1>3 DEF Shapes
<1>11. new # None
  BY <1>7, KindsApart
<1> HIDE DEF own, key, old
<1>12. ASSUME NEW u \in uncached'
       PROVE  /\ u.by \subseteq Workers /\ w \notin u.by
              /\ \/ /\ u \in uncached
                    /\ \A v \in u.by : v \notin held.by /\ ~check[v].cached
                 \/ /\ ~own.cached /\ u = old
                    /\ \A v \in u.by : v \notin held.by /\ check[v].cached
                    /\ cache[key] \in CacheMap

  <2>1. CASE own.cached
    <3>1. u \in uncached /\ held = old
      BY <1>3, <1>5, <2>1
    <3>2. u.by \subseteq Workers /\ \A v \in u.by : ~check[v].cached
      BY <1>1, <3>1 DEF OneMap, Shapes
    <3>3. \A v \in held.by : check[v].cached
      BY <1>4, <1>5, <3>1 DEF old
    <3>4. QED
      BY <1>5, <3>1, <3>2, <3>3
  <2>2. CASE ~own.cached /\ u \in uncached /\ u # held
    <3>1. u.by \subseteq Workers /\ \A v \in u.by : ~check[v].cached
      BY <1>1, <2>2 DEF OneMap, Shapes
    <3>2. \A v \in u.by : v \notin held.by
      BY <1>1, <1>5, <2>2 DEF OneMap
    <3>3. QED
      BY <1>5, <2>2, <3>1, <3>2
  <2>3. CASE ~own.cached /\ u \in Evicted({key})
    <3>1. u = old /\ Holders(key) # {}
      BY <2>3 DEF Evicted, old
    <3>2. \A v \in u.by : v \in Workers /\ check[v] # NoCheck /\ check[v].cached /\ KeyOf(v) = key
      BY <1>4, <3>1 DEF old, Holders
    <3>3. cache[key] # None
      BY <1>1, <3>1, <3>2 DEF OneMap, old
    <3>4. cache[key] \in CacheMap
      BY <1>1, <1>2, <3>3 DEF Shapes
    <3>5. \A v \in u.by : v \notin held.by
      BY <1>5, <2>3, <3>2
    <3>6. QED
      BY <1>5, <2>3, <3>1, <3>2, <3>4, <3>5
  <2>4. QED
    BY <1>3, <2>1, <2>2, <2>3
<1>13. \A v \in old.by : v \in Workers /\ check[v] # NoCheck /\ check[v].cached /\ KeyOf(v) = key
  BY <1>4 DEF old, Holders
<1>14. \A u \in uncached' : \A v \in u.by : v \in Workers /\ v # w /\ check[v] # NoCheck
  BY <1>1, <1>12, <1>13 DEF OneMap
<1>15. Shapes'
  <2>1. cache' \in [Keys -> CacheMap \cup {None}]
    BY <1>1, <1>3, <1>7 DEF Shapes
  <2>2. check' \in [Workers -> Check \cup {NoCheck}]
    BY <1>3, <1>8, <1>9
  <2>3. uncached' \subseteq [by : SUBSET Workers, map : CacheMap]
    <3>1. \A u \in uncached : u \in [by : SUBSET Workers, map : CacheMap]
      BY <1>1 DEF Shapes
    <3>2. cache[key] \in CacheMap => old \in [by : SUBSET Workers, map : CacheMap]
      BY <1>13 DEF old
    <3>3. QED
      BY <1>12, <3>1, <3>2
  <2>4. QED
    BY <1>1, <1>3, <2>1, <2>2, <2>3 DEF Shapes
<1>16. OneMap'
  <2>1. ASSUME NEW v \in Workers, check'[v] # NoCheck
        PROVE  IF check'[v].cached THEN cache'[KeyOf(v)'] # None ELSE \E u \in uncached' : v \in u.by
    <3>1. v # w /\ check[v] # NoCheck /\ KeyOf(v)' = KeyOf(v) /\ KeyOf(v) \in Keys
      BY <1>1, <1>8, <1>9, <2>1, CheckShape
    <3>2. CASE v \in held.by
      BY <1>5, <1>8, <1>10, <1>11, <3>1, <3>2
    <3>3. CASE v \notin held.by /\ check[v].cached /\ KeyOf(v) # key
      BY <1>1, <1>8, <1>10, <3>1, <3>3 DEF OneMap
    <3>4. CASE v \notin held.by /\ check[v].cached /\ KeyOf(v) = key
      <4>1. v \in Holders(key) /\ ~own.cached
        BY <1>4, <1>5, <3>1, <3>4 DEF old
      <4>2. old \in uncached' /\ v \in old.by
        BY <1>3, <4>1 DEF Evicted, old
      <4>3. QED
        BY <1>8, <3>1, <3>4, <4>2
    <3>5. CASE v \notin held.by /\ ~check[v].cached
      <4>1. PICK u \in uncached : v \in u.by
        BY <1>1, <3>1, <3>5 DEF OneMap
      <4>2. u \in uncached'
        BY <1>3, <3>5, <4>1
      <4>3. QED
        BY <1>8, <3>1, <3>5, <4>1, <4>2
    <3>6. QED
      BY <3>2, <3>3, <3>4, <3>5
  <2>2. ASSUME NEW u \in uncached', NEW v \in u.by
        PROVE  check'[v] # NoCheck /\ ~check'[v].cached
    BY <1>8, <1>12, <1>13, <1>14
  <2>3. ASSUME NEW u \in uncached', NEW x \in uncached', NEW v \in u.by, v \in x.by
        PROVE  u = x
    BY <1>1, <1>12, <2>3 DEF OneMap
  <2>4. ASSUME NEW u \in uncached', NEW v \in u.by, NEW x \in u.by
        PROVE  KeyOf(v)' = KeyOf(x)'
    <3>1. KeyOf(v) = KeyOf(x)
      BY <1>1, <1>12, <1>13 DEF OneMap
    <3>2. QED
      BY <1>8, <1>14, <3>1
  <2>5. QED
    BY <2>1, <2>2, <2>3, <2>4 DEF OneMap
<1>17. MapsHold'
  <2>1. \A k \in Keys : cache'[k] # None => VerdictsHold(cache'[k], k)
    BY <1>1, <1>7, <1>10 DEF MapsHold
  <2>2. ASSUME NEW u \in uncached', NEW v \in u.by
        PROVE  VerdictsHold(u.map, KeyOf(v)')
    <3>1. CASE u \in uncached
      BY <1>1, <1>8, <1>14, <3>1 DEF MapsHold
    <3>2. CASE u = old
      <4>1. KeyOf(v) = key /\ cache[key] # None
        BY <1>1, <1>13, <3>2 DEF OneMap
      <4>2. VerdictsHold(old.map, key)
        BY <1>1, <1>2, <4>1 DEF MapsHold, old
      <4>3. QED
        BY <1>8, <1>14, <3>2, <4>1, <4>2
    <3>3. QED
      BY <1>12, <3>1, <3>2
  <2>3. ASSUME NEW v \in Workers, check'[v] # NoCheck, check'[v].found # NoRule
        PROVE  Spares(check'[v].found, check'[v].msg.first, check'[v].msg.vip)
    BY <1>1, <1>8, <1>9, <2>3 DEF MapsHold
  <2>4. QED
    BY <2>1, <2>2, <2>3 DEF MapsHold, VerdictsHold, Spares
<1>18. WhileInstalling'
  BY <1>1, <1>2, <1>3, <1>7, <1>8, <1>9, <1>10 DEF WhileInstalling, own
<1>19. Fresh'
  <2> SUFFICES ASSUME ~installing PROVE Fresh'
    BY <1>3 DEF Fresh
  <2>1. new.stale \/ VerdictsJust(new, key)
    <3> SUFFICES ASSUME ~held.map.stale, ~own.overlap PROVE VerdictsJust(new, key)
      BY <1>7
    <3>1. Justified(own.found, own.msg)
      BY <1>1, <1>2 DEF Fresh, own
    <3>2. VerdictsJust(held.map, key)
      <4>1. CASE own.cached
        BY <1>1, <1>2, <1>5, <4>1 DEF Fresh, old
      <4>2. CASE ~own.cached
        BY <1>1, <1>2, <1>5, <4>2 DEF Fresh, own
      <4>3. QED
        BY <4>1, <4>2
    <3>3. QED
      BY <1>7, <3>1, <3>2
  <2>2. (\A k \in Keys : cache[k] # None => cache[k].stale \/ VerdictsJust(cache[k], k))'
    BY <1>1, <1>3, <1>10, <2>1, RulesKept DEF Fresh
  <2>3. (\A u \in uncached : \A v \in u.by :
           check[v].overlap \/ u.map.stale \/ VerdictsJust(u.map, KeyOf(v)))'
    <3> SUFFICES ASSUME NEW u \in uncached', NEW v \in u.by
                 PROVE  (check[v].overlap \/ u.map.stale \/ VerdictsJust(u.map, KeyOf(v)))'
      OBVIOUS
    <3> v \in Workers /\ (check'[v].overlap <=> check[v].overlap) /\ KeyOf(v)' = KeyOf(v)
      BY <1>8, <1>14
    <3> UNCHANGED rules
      BY <1>3
    <3>1. CASE u \in uncached
      <4>1. check[v].overlap \/ u.map.stale \/ VerdictsJust(u.map, KeyOf(v))
        BY <1>1, <3>1 DEF Fresh
      <4>2. QED
        BY <4>1, RulesKept
    <3>2. CASE u = old
      <4>1. KeyOf(v) = key /\ cache[key] # None
        BY <1>1, <1>13, <3>2 DEF OneMap
      <4>2. old.map.stale \/ VerdictsJust(old.map, key)
        BY <1>1, <1>2, <4>1 DEF Fresh, old
      <4>3. QED
        BY <3>2, <4>1, <4>2, RulesKept
    <3>3. QED
      BY <1>12, <3>1, <3>2
  <2>4. (\A v \in Workers : check[v].at = "remember" =>
           check[v].overlap \/ Justified(check[v].found, check[v].msg))'
    <3>1. NoCheck.at # "remember"
      BY DEF NoCheck
    <3>2. QED
      BY <1>1, <1>3, <1>8, <1>9, <3>1, RulesKept DEF Fresh
  <2>5. QED
    BY <2>2, <2>3, <2>4 DEF Fresh
<1>20. QED
  BY <1>15, <1>16, <1>17, <1>18, <1>19 DEF MwordsInv

\* A key loses its map, those who hold it go on.
LEMMA ForgetKeeps ==
    ASSUME MwordsInv, NEW key \in Keys, Forget(key)
    PROVE  MwordsInv'
<1>1. Shapes /\ OneMap /\ MapsHold /\ WhileInstalling /\ Fresh
  BY DEF MwordsInv
<1>2. /\ \A k \in Keys : cache'[k] = IF k \in {key} THEN None ELSE cache[k]
      /\ cache' \in [Keys -> CacheMap \cup {None}]
      /\ uncached' = uncached \cup Evicted({key})
      /\ UNCHANGED <<singles, groups, rules, installing, live, commands>>
  BY <1>1 DEF Forget, Shapes, config
<1>3. ASSUME NEW w \in Workers
      PROVE  /\ check'[w] \in Check \cup {NoCheck}
             /\ check[w] = NoCheck => check'[w] = NoCheck
             /\ check[w] # NoCheck =>
                  /\ check'[w] # NoCheck /\ check'[w].at = check[w].at
                  /\ check'[w].msg = check[w].msg /\ check'[w].found = check[w].found
                  /\ check'[w].cached <=> check[w].cached /\ KeyOf(w) \notin {key}
                  /\ check'[w].overlap <=> check[w].overlap
  <2>1. check'[w] = IF w \in Holders(key) THEN [check[w] EXCEPT !.cached = FALSE] ELSE check[w]
    BY DEF Forget
  <2>2. w \in Holders(key) <=> check[w] # NoCheck /\ check[w].cached /\ KeyOf(w) = key
    BY <1>1, CheckShape
  <2>3. check[w] # NoCheck => check[w] \in Check
    BY <1>1, CheckShape
  <2>4. CASE w \in Holders(key)
    <3>1. check'[w] \in Check /\ check'[w].cached = FALSE
      BY <2>1, <2>2, <2>3, <2>4 DEF Check
    <3>2. QED
      BY <2>1, <2>2, <2>3, <2>4, <3>1, KindsApart DEF Check
  <2>5. CASE w \notin Holders(key)
    BY <2>1, <2>2, <2>3, <2>5
  <2>6. QED
    BY <2>4, <2>5
<1>4. check' \in [Workers -> Check \cup {NoCheck}]
  BY <1>3 DEF Forget
<1>5. uncached' \subseteq [by : SUBSET Workers, map : CacheMap] /\ OneMap' /\ MapsHold'
  BY <1>1, <1>2, <1>3, EvictKeeps
<1>6. Shapes'
  BY <1>1, <1>2, <1>4, <1>5 DEF Shapes
<1>7. WhileInstalling'
  BY <1>1, <1>2, <1>3 DEF WhileInstalling
<1>8. Fresh'
  <2> SUFFICES ASSUME ~installing PROVE Fresh'
    BY <1>2 DEF Fresh
  <2> UNCHANGED rules
    BY <1>2
  <2>1. (\A k \in Keys : cache[k] # None => cache[k].stale \/ VerdictsJust(cache[k], k))'
    BY <1>1, <1>2, RulesKept DEF Fresh
  <2>2. ASSUME NEW u \in uncached', NEW w \in u.by
        PROVE  (check[w].overlap \/ u.map.stale \/ VerdictsJust(u.map, KeyOf(w)))'
    <3>1. w \in Workers /\ check[w] # NoCheck
      BY <1>3, <1>5 DEF OneMap
    <3>2. (check'[w].overlap <=> check[w].overlap) /\ KeyOf(w)' = KeyOf(w)
      BY <1>3, <3>1 DEF KeyOf
    <3>3. CASE u \in uncached
      <4>1. check[w].overlap \/ u.map.stale \/ VerdictsJust(u.map, KeyOf(w))
        BY <1>1, <3>3 DEF Fresh
      <4>2. QED
        BY <3>2, <4>1, RulesKept
    <3>4. CASE u \in Evicted({key})
      <4>1. u.by = Holders(key) /\ u.map = cache[key]
        BY <3>4 DEF Evicted
      <4>2. KeyOf(w) = key /\ cache[key] # None
        BY <1>1, <3>1, <4>1, CheckShape DEF OneMap
      <4>3. u.map.stale \/ VerdictsJust(u.map, KeyOf(w))
        BY <1>1, <4>1, <4>2 DEF Fresh
      <4>4. QED
        BY <3>2, <4>3, RulesKept
    <3>5. QED
      BY <1>2, <3>3, <3>4
  <2>3. (\A w \in Workers : check[w].at = "remember" =>
           check[w].overlap \/ Justified(check[w].found, check[w].msg))'
    <3>1. NoCheck.at # "remember"
      BY DEF NoCheck
    <3>2. QED
      BY <1>1, <1>3, <3>1, RulesKept DEF Fresh
  <2>4. QED
    BY <2>1, <2>2, <2>3 DEF Fresh
<1>9. QED
  BY <1>5, <1>6, <1>7, <1>8 DEF MwordsInv

\* Nothing of the invariant depends on the stream.
LEMMA LiveOnlyKeeps ==
    ASSUME MwordsInv, live' \in BOOLEAN,
           UNCHANGED <<config, rules, installing, cache, uncached, check, commands>>
    PROVE  MwordsInv'
<1>1. UNCHANGED <<singles, groups, rules, installing, cache, uncached, check, commands>>
  BY DEF config
<1>2. Shapes'
  BY <1>1 DEF MwordsInv, Shapes
<1>3. OneMap' /\ WhileInstalling'
  BY <1>1 DEF MwordsInv, OneMap, WhileInstalling, KeyOf
<1>4. MapsHold'
  BY <1>1 DEF MwordsInv, MapsHold, KeyOf, VerdictsHold
<1>5. Fresh'
  BY <1>1, RulesKept DEF MwordsInv, Fresh, KeyOf
<1>6. QED
  BY <1>2, <1>3, <1>4, <1>5 DEF MwordsInv

\* A restart drops every map and check, and builds the rules anew.
LEMMA RestartKeeps ==
    ASSUME MwordsInv, Restart
    PROVE  MwordsInv'
<1>1. IsConfig(singles', groups')
  BY ReloadedType, ConfigMerged DEF Restart, MwordsInv, Shapes
<1>2. rules' \in Seq(Rule) /\ ExemptingFirst(rules')
  BY <1>1, BuiltRulesType DEF Restart
<1>3. /\ cache' = [k \in Keys |-> None] /\ uncached' = {} /\ check' = [w \in Workers |-> NoCheck]
      /\ UNCHANGED <<installing, live, commands>>
  BY DEF Restart, ClearAll
<1>4. Shapes'
  BY <1>1, <1>2, <1>3 DEF MwordsInv, Shapes
<1>5. OneMap' /\ MapsHold'
  BY <1>3 DEF OneMap, MapsHold
<1>6. WhileInstalling' /\ Fresh'
  <2>1. NoCheck.at # "remember"
    BY DEF NoCheck
  <2>2. QED
    BY <1>3, <2>1 DEF WhileInstalling, Fresh
<1>7. QED
  BY <1>4, <1>5, <1>6 DEF MwordsInv

\* Every step keeps the invariant.
LEMMA MwordsNextInv ==
    ASSUME MwordsInv, [Next]_vars
    PROVE  MwordsInv'
<1>1. CASE Command
  <2>1. PICK ss, gs : IsConfig(ss, gs) /\ Update(ss, gs)
    BY <1>1, CommandUpdates DEF MwordsInv, Shapes
  <2>2. QED
    BY <1>1, <2>1, UpdateKeeps DEF Command
<1>2. CASE Install
  BY <1>2, InstallKeeps
<1>3. ASSUME NEW w \in Workers, NEW msg \in Messages, CheckUncached(w, msg) PROVE MwordsInv'
  BY <1>3, CheckUncachedKeeps
<1>4. ASSUME NEW w \in Workers, Scan(w) PROVE MwordsInv'
  BY <1>4, ScanKeeps
<1>5. ASSUME NEW w \in Workers, Remember(w) PROVE MwordsInv'
  BY <1>5, RememberKeeps
<1>6. ASSUME NEW key \in Keys, Forget(key) PROVE MwordsInv'
  BY <1>6, ForgetKeeps
<1>7. CASE StreamChanges
  <2>1. live' \in BOOLEAN
    BY <1>7 DEF StreamChanges
  <2>2. QED
    BY <1>7, <2>1, LiveOnlyKeeps DEF StreamChanges
<1>8. CASE Restart
  BY <1>8, RestartKeeps
<1>9. CASE UNCHANGED vars
  <2>1. live' \in BOOLEAN
    BY <1>9 DEF vars, MwordsInv, Shapes
  <2>2. QED
    BY <1>9, <2>1, LiveOnlyKeeps DEF vars
<1>10. QED
  BY <1>1, <1>2, <1>3, <1>4, <1>5, <1>6, <1>7, <1>8, <1>9 DEF Next

(* The inductive invariant of the rules, the cache and the checks that use *)
(* both (template/mword.go:45-187).                                        *)
THEOREM MwordsInvariant == Spec => []MwordsInv
<1>1. Init => MwordsInv
  BY MwordsInitInv
<1>2. MwordsInv /\ [Next]_vars => MwordsInv'
  BY MwordsNextInv
<1>3. QED
  BY <1>1, <1>2, PTL DEF Spec

\* Of a check that does not hold the cached map, one map is kept.
LEMMA OneMapHeld ==
    ASSUME OneMap, NEW w \in Workers, check[w] # NoCheck, ~check[w].cached
    PROVE  Cardinality({u \in uncached : w \in u.by}) = 1
<1>1. PICK u \in uncached : w \in u.by
  BY DEF OneMap
<1>2. {v \in uncached : w \in v.by} = {u}
  BY <1>1 DEF OneMap
<1>3. QED
  BY <1>2, FS_Singleton

(* Settings and rules keep their shapes under every command, and every     *)
(* check holds one map of verdicts, cached or not (adapters/message/       *)
(* admin/mword.go, template/mword.go:45-187).                              *)
THEOREM MwordTypes == Spec => []TypeOK
<1>1. MwordsInv => TypeOK
  <2> SUFFICES ASSUME MwordsInv PROVE TypeOK
    OBVIOUS
  <2>1. \A w \in Workers : check[w] # NoCheck =>
          IF check[w].cached THEN cache[Key(check[w].msg)] # None
          ELSE Cardinality({u \in uncached : w \in u.by}) = 1
    BY OneMapHeld DEF MwordsInv, OneMap, KeyOf
  <2>2. <<installing, live, commands>> \in BOOLEAN \X BOOLEAN \X (0..MaxCommands)
    BY DEF MwordsInv, Shapes
  <2>3. QED
    BY <2>1, <2>2 DEF MwordsInv, Shapes, TypeOK
<1>2. QED
  BY <1>1, MwordsInvariant, PTL

(* Whatever the cache, the commands and the other checks do, no message is *)
(* judged by a rule that exempts it (template/mword.go:18 and 144-187).    *)
THEOREM ExemptionsAlwaysHold == Spec => []ExemptionsHold
<1>1. MwordsInv => ExemptionsHold
  <2> SUFFICES ASSUME MwordsInv, NEW msg \in Messages,
                      NEW verdict, verdict = CachedVerdict(Lookup(Key(msg)), msg),
                      verdict \notin {None, NoRule}
               PROVE  Spares(verdict, msg.first, msg.vip)
    BY DEF ExemptionsHold, Spares
  <2>1. Key(msg) \in Keys /\ Key(msg)[2] = msg.vip
    BY DEF Key, Keys
  <2>2. cache[Key(msg)] # None
    BY DEF CachedVerdict, Lookup, EmptyMap
  <2>3. VerdictsHold(cache[Key(msg)], Key(msg))
    BY <2>1, <2>2 DEF MwordsInv, MapsHold
  <2>4. CASE verdict = cache[Key(msg)].verdict[TRUE] /\ msg.first
    BY <2>1, <2>3, <2>4 DEF VerdictsHold, Spares
  <2>5. CASE verdict = cache[Key(msg)].verdict[FALSE]
    BY <2>1, <2>3, <2>5 DEF VerdictsHold, Spares
  <2>6. QED
    BY <2>2, <2>4, <2>5 DEF CachedVerdict, Lookup
<1>2. QED
  BY <1>1, MwordsInvariant, PTL

(* Once rules are installed, a cached verdict is one that they give, unless *)
(* a check that overlapped a command has written to its map                *)
(* (template/mword.go:45-187).                                             *)
THEOREM StaleOnlyAfterOverlap == Spec => []StaleOnlyByOverlap
<1>1. MwordsInv => StaleOnlyByOverlap
  <2> SUFFICES ASSUME MwordsInv, ~installing, NEW key \in Keys, NEW first \in BOOLEAN,
                      Lookup(key)[first] # None, ~cache[key].stale
               PROVE  Justified(Lookup(key)[first],
                                [text |-> key[1], vip |-> key[2], first |-> first])
    BY DEF StaleOnlyByOverlap
  <2>1. cache[key] # None /\ Lookup(key) = cache[key].verdict
    BY DEF Lookup, EmptyMap
  <2>2. VerdictsJust(cache[key], key)
    BY <2>1 DEF MwordsInv, Fresh
  <2>3. QED
    BY <2>1, <2>2 DEF VerdictsJust
<1>2. QED
  BY <1>1, MwordsInvariant, PTL

-----------------------------------------------------------------------------
(* Repeated messages: what is counted.                                      *)

\* Of the messages S those that count for message m, and those that are met in
\* between.
Similar(m, S) == {n \in S : n \notin ignore /\ text[n] = text[m]}
Between(m, S) == {n \in S : n \notin ignore /\ text[n] # text[m]}

\* Both grow message by message.
LEMMA OneMoreMet ==
    ASSUME NEW m, NEW S, IsFiniteSet(S), NEW n, n \notin S
    PROVE  /\ Cardinality(Similar(m, S)) \in Nat /\ Cardinality(Between(m, S)) \in Nat
           /\ Cardinality(Similar(m, S \cup {n})) =
                Cardinality(Similar(m, S))
                  + IF n \notin ignore /\ text[n] = text[m] THEN 1 ELSE 0
           /\ Cardinality(Between(m, S \cup {n})) =
                Cardinality(Between(m, S))
                  + IF n \notin ignore /\ text[n] # text[m] THEN 1 ELSE 0
<1>1. /\ IsFiniteSet(Similar(m, S)) /\ IsFiniteSet(Between(m, S))
      /\ n \notin Similar(m, S) /\ n \notin Between(m, S)
  <2>1. Similar(m, S) \in SUBSET S /\ Between(m, S) \in SUBSET S
    BY DEF Similar, Between
  <2>2. QED
    BY <2>1, FS_Subset DEF Similar, Between
<1>2. /\ Cardinality(Similar(m, S)) \in Nat /\ Cardinality(Between(m, S)) \in Nat
      /\ Cardinality(Similar(m, S) \cup {n}) = Cardinality(Similar(m, S)) + 1
      /\ Cardinality(Between(m, S) \cup {n}) = Cardinality(Between(m, S)) + 1
  BY <1>1, FS_CardinalityType, FS_AddElement
<1>3. /\ Similar(m, S \cup {n}) = IF n \notin ignore /\ text[n] = text[m]
                                  THEN Similar(m, S) \cup {n} ELSE Similar(m, S)
      /\ Between(m, S \cup {n}) = IF n \notin ignore /\ text[n] # text[m]
                                  THEN Between(m, S) \cup {n} ELSE Between(m, S)
  BY DEF Similar, Between
<1>4. QED
  BY <1>2, <1>3

\* What counting goes by.
Accounts == [count : Nat, gap : Nat]

\* Counting starts from nothing and goes message by message.
LEMMA CountedSteps ==
    ASSUME NEW m, NEW order, Len(order) \in Nat
    PROVE  LET c == Counted(m, order)
           IN  /\ c[0] = [count |-> 0, gap |-> 0]
               /\ \A i \in 1 .. Len(order) : c[i] = Seen(m, c[i - 1], order[i])
<1> DEFINE n == Len(order)
           zero == [count |-> 0, gap |-> 0]
           Runs(f) == f = [i \in 0 .. n |-> IF i = 0 THEN zero ELSE Seen(m, f[i - 1], order[i])]
           G == [i \in 1 .. n |-> [acc \in Accounts |-> Seen(m, acc, order[i])]]
<1>1. n \in Nat /\ zero \in Accounts
  BY DEF Accounts
<1>2. \A i \in 1 .. n, acc \in Accounts : Seen(m, acc, order[i]) \in Accounts
  BY DEF Seen, Accounts
<1>3. G \in [1 .. n -> [Accounts -> Accounts]]
  BY <1>2
<1>4. \E f : Runs(f)
  <2>1. PICK f : Unrolls(f, n, Accounts, zero, G)
    <3> HIDE DEF G, n, zero
    <3>1. QED
      BY <1>1, <1>3, Recursion
  <2>2. \A i \in 1 .. n : f[i] = Seen(m, f[i - 1], order[i])
    <3> TAKE i \in 1 .. n
    <3>1. i - 1 \in 0 .. n
      BY <1>1
    <3>2. QED
      BY <2>1, <3>1 DEF Unrolls
  <2> HIDE DEF zero
  <2>3. Runs(f)
    BY <1>1, <2>1, <2>2 DEF Unrolls
  <2>4. QED
    BY <2>3
<1>5. Counted(m, order) = CHOOSE f : Runs(f)
  BY DEF Counted
<1> DEFINE c == CHOOSE f : Runs(f)
<1>6. Runs(c)
  BY <1>4
<1> HIDE DEF c
<1>7. c[0] = zero /\ \A i \in 1 .. n : c[i] = Seen(m, c[i - 1], order[i])
  <2>1. 0 \in 0 .. n
    BY <1>1
  <2>2. c[0] = zero
    BY <1>6, <2>1
  <2>3. ASSUME NEW i \in 1 .. n PROVE c[i] = Seen(m, c[i - 1], order[i])
    <3>1. i \in 0 .. n /\ i # 0
      BY <1>1
    <3>2. QED
      BY <1>6, <3>1
  <2>4. QED
    BY <2>2, <2>3
<1>8. QED
  BY <1>5, <1>7 DEF c

\* An order of a finite set meets each of its members once.
LEMMA OrderMeetsAll ==
    ASSUME NEW S, IsFiniteSet(S), NEW order \in SetToSeqs(S)
    PROVE  /\ Len(order) = Cardinality(S) /\ Cardinality(S) \in Nat
           /\ order \in [1 .. Cardinality(S) -> S]
           /\ \A i, j \in 1 .. Cardinality(S) : order[i] = order[j] => i = j
           /\ S = {order[i] : i \in 1 .. Cardinality(S)}
<1> DEFINE n == Cardinality(S)
<1>1. n \in Nat
  BY FS_CardinalityType
<1>2. order \in [1 .. n -> S] /\ \A i, j \in 1 .. n : order[i] = order[j] => i = j
  BY DEF SetToSeqs
<1>3. Len(order) = n
  BY <1>1, <1>2
<1>4. order \in Injection(1 .. n, S)
  BY <1>2 DEF Injection, IsInjective
<1>5. Cardinality(1 .. n) = n
  BY <1>1, FS_Interval
<1>6. order \in Surjection(1 .. n, S)
  BY <1>4, <1>5, FS_Injection
<1>7. S = {order[i] : i \in 1 .. n}
  BY <1>2, <1>6 DEF Surjection
<1>8. QED
  BY <1>1, <1>2, <1>3, <1>7

(* No more messages count than resemble the new one; and all that do, unless *)
(* enough others lie between (calculateSpamMessages).                        *)
LEMMA CountSpamCounts ==
    ASSUME NEW m, NEW S, IsFiniteSet(S), NEW order \in SetToSeqs(S)
    PROVE  /\ CountSpam(m, order) \in Nat
           /\ CountSpam(m, order) <= Cardinality(Similar(m, S))
           /\ Cardinality(Between(m, S)) < MinGap =>
                CountSpam(m, order) = Cardinality(Similar(m, S))
<1> DEFINE n == Cardinality(S)
           c == Counted(m, order)
           P(i) == {order[j] : j \in 1 .. i}
           few  == Cardinality(Between(m, S)) < MinGap
           Q(i) == /\ c[i] \in Accounts
                   /\ c[i].count <= Cardinality(Similar(m, P(i)))
                   /\ few => /\ c[i].count = Cardinality(Similar(m, P(i)))
                             /\ c[i].gap <= Cardinality(Between(m, P(i)))
           N == {i \in Nat : i <= n => Q(i)}
<1>1. /\ Len(order) = n /\ n \in Nat
      /\ order \in [1 .. n -> S]
      /\ \A i, j \in 1 .. n : order[i] = order[j] => i = j
      /\ S = P(n)
  BY OrderMeetsAll
<1>2. c[0] = [count |-> 0, gap |-> 0] /\ \A i \in 1 .. n : c[i] = Seen(m, c[i - 1], order[i])
  BY <1>1, CountedSteps
<1> HIDE DEF c, n
<1>3. Q(0)
  <2>1. P(0) = {}
    OBVIOUS
  <2>2. Similar(m, P(0)) = {} /\ Between(m, P(0)) = {}
    BY <2>1 DEF Similar, Between
  <2>3. Cardinality({}) = 0
    BY FS_EmptySet
  <2>4. QED
    BY <1>2, <2>2, <2>3 DEF Accounts
<1>4. ASSUME NEW i \in Nat, i + 1 <= n, Q(i) PROVE Q(i + 1)
  <2> DEFINE x == order[i + 1]
  <2>1. i + 1 \in 1 .. n /\ (i + 1) - 1 = i
    BY <1>1, <1>4
  <2>2. P(i + 1) = P(i) \cup {x}
    <3>1. 1 .. i + 1 = (1 .. i) \cup {i + 1}
      OBVIOUS
    <3>2. QED
      BY <3>1
  <2>3. x \notin P(i)
    <3> SUFFICES ASSUME NEW j \in 1 .. i, x = order[j] PROVE FALSE
      OBVIOUS
    <3>1. j \in 1 .. n
      BY <1>1, <1>4
    <3>2. QED
      BY <1>1, <2>1, <3>1
  <2>4. P(i) \in SUBSET S
    BY <1>1, <1>4
  <2>5. IsFiniteSet(P(i))
    BY <2>4, FS_Subset
  <2>6. Cardinality(Between(m, P(i))) <= Cardinality(Between(m, S))
        /\ Cardinality(Between(m, S)) \in Nat
    <3>1. Between(m, P(i)) \in SUBSET Between(m, S) /\ Between(m, S) \in SUBSET S
      BY <2>4 DEF Between
    <3>2. IsFiniteSet(Between(m, S))
      BY <3>1, FS_Subset
    <3>3. QED
      BY <3>1, <3>2, FS_Subset, FS_CardinalityType
  <2>7. c[i + 1] = Seen(m, c[i], x)
    BY <1>2, <2>1
  <2> DEFINE s == Cardinality(Similar(m, P(i)))
             b == Cardinality(Between(m, P(i)))
             t == Cardinality(Between(m, S))
  <2> HIDE DEF P, x
  <2>8. /\ s \in Nat /\ b \in Nat
        /\ Cardinality(Similar(m, P(i + 1))) =
             s + IF x \notin ignore /\ text[x] = text[m] THEN 1 ELSE 0
        /\ Cardinality(Between(m, P(i + 1))) =
             b + IF x \notin ignore /\ text[x] # text[m] THEN 1 ELSE 0
    <3> DEFINE T == P(i)
    <3>1. P(i + 1) = T \cup {x} /\ x \notin T /\ IsFiniteSet(T)
      BY <2>2, <2>3, <2>5
    <3> HIDE DEF T
    <3>2. /\ Cardinality(Similar(m, T)) \in Nat /\ Cardinality(Between(m, T)) \in Nat
          /\ Cardinality(Similar(m, T \cup {x})) =
               Cardinality(Similar(m, T))
                 + IF x \notin ignore /\ text[x] = text[m] THEN 1 ELSE 0
          /\ Cardinality(Between(m, T \cup {x})) =
               Cardinality(Between(m, T))
                 + IF x \notin ignore /\ text[x] # text[m] THEN 1 ELSE 0
      BY <3>1, OneMoreMet
    <3>3. QED
      BY <3>1, <3>2 DEF T
  <2>9. b <= t /\ t \in Nat
    BY <2>6
  <2>10. MinGap \in Nat
    BY FloodAssumption
  <2>11. /\ c[i] \in Accounts /\ c[i].count <= s
         /\ t < MinGap => c[i].count = s /\ c[i].gap <= b
    BY <1>4
  <2>12. few <=> t < MinGap
    OBVIOUS
  <2> HIDE DEF s, b, t, few
  <2>13. CASE x \in ignore
    BY <2>7, <2>8, <2>9, <2>11, <2>12, <2>13 DEF Seen
  <2>14. CASE x \notin ignore /\ text[x] # text[m]
    BY <2>7, <2>8, <2>9, <2>11, <2>12, <2>14 DEF Seen, Accounts
  <2>15. CASE x \notin ignore /\ text[x] = text[m]
    BY <2>7, <2>8, <2>9, <2>10, <2>11, <2>12, <2>15 DEF Seen, Accounts
  <2>16. QED
    BY <2>13, <2>14, <2>15
<1> HIDE DEF Q
<1>5. 0 \in N
  BY <1>3
<1>6. ASSUME NEW i \in Nat, i \in N PROVE i + 1 \in N
  BY <1>1, <1>4, <1>6
<1> HIDE DEF N
<1>7. Nat \subseteq N
  BY <1>5, <1>6, SetInduction
<1>8. Q(n)
  BY <1>1, <1>7 DEF N
<1>9. CountSpam(m, order) = c[n].count
  BY <1>1 DEF CountSpam, c
<1>10. QED
  BY <1>1, <1>8, <1>9 DEF Q, Accounts

-----------------------------------------------------------------------------
(* Repeated messages: where each is, and who holds what.                    *)

Clearing   == {m \in Msgs : stage[m] = "clear"}
Holding(i) == {m \in Msgs : ref[m] = i}

\* A message has arrived when its handling has begun.
Arrivals ==
    /\ FloodTypeOK
    /\ \A m \in Msgs : stage[m] # "new" <=> m <= Len(text)

\* A message is in one cache at most, put there before it is checked; what a
\* cache nobody holds had is gone.
Homes ==
    /\ \A i \in Inners : inner[i] \subseteq Posted
    /\ \A i \in Inners : inner[i] # {} => i = outer \/ Holding(i) # {}
    /\ \A i, j \in Inners : inner[i] \cap inner[j] # {} => i = j

\* A handler holds a cache only while it is about to use it, and the handlers
\* are no more than there are.
FloodShape ==
    /\ Arrivals
    /\ \A m \in Msgs : ref[m] # NoCache => stage[m] \in {"set", "count"}
    /\ Homes
    /\ Cardinality(InFlight) <= Concurrency
    /\ \A m \in punished : stage[m] = "done"
    /\ ignore \subseteq 1 .. Len(text) /\ forgotten \subseteq Posted

\* The numbers among the constants.
LEMMA FloodNumbers ==
    /\ MaxMsgs \in Nat /\ MinGap \in Nat
    /\ Concurrency \in Nat /\ Concurrency >= 1 /\ Limit \in Nat /\ Limit >= 2
    /\ NoCache \notin Inners
<1>1. /\ MaxMsgs \in Nat /\ MinGap \in Nat /\ NoCache \notin Inners
      /\ Concurrency \in Nat \ {0} /\ Limit \in Nat \ {0, 1}
  BY FloodAssumption, Zenon
<1>2. QED
  BY <1>1

\* There are finitely many messages.
LEMMA FiniteMsgs ==
    /\ IsFiniteSet(Msgs) /\ Msgs \subseteq Nat
    /\ \A S \in SUBSET Msgs : IsFiniteSet(S) /\ Cardinality(S) \in Nat
<1>1. IsFiniteSet(Msgs) /\ Msgs \subseteq Nat
  BY FloodNumbers, FS_Interval DEF Msgs
<1>2. QED
  BY <1>1, FS_Subset, FS_CardinalityType

\* The stages tell what has arrived and what has been posted.
ByStage ==
    /\ Len(text) \in Nat /\ Len(text) <= MaxMsgs
    /\ 1 .. Len(text) = {n \in Msgs : stage[n] # "new"}
    /\ Posted = {n \in Msgs : stage[n] \notin {"new", "make for push", "set"}}

\* They do.
LEMMA StagesTell == Arrivals => ByStage
<1> SUFFICES ASSUME Arrivals PROVE ByStage
  OBVIOUS
<1>1. Len(text) \in Nat /\ Len(text) <= MaxMsgs /\ MaxMsgs \in Nat
  BY FloodNumbers DEF Arrivals, FloodTypeOK
<1>2. \A n \in Msgs : n \in 1 .. Len(text) <=> n <= Len(text)
  BY <1>1 DEF Msgs
<1>3. 1 .. Len(text) \subseteq Msgs
  BY <1>1 DEF Msgs
<1>4. 1 .. Len(text) = {n \in Msgs : stage[n] # "new"}
  BY <1>2, <1>3 DEF Arrivals
<1>5. QED
  BY <1>1, <1>4 DEF Posted, ByStage

\* Fewer messages in flight are not too many.
LEMMA FlightShrinks ==
    ASSUME Cardinality(InFlight) <= Concurrency, InFlight' \subseteq InFlight
    PROVE  Cardinality(InFlight') <= Concurrency
<1>1. InFlight \in SUBSET Msgs
  BY DEF InFlight
<1>2. IsFiniteSet(InFlight)
  BY <1>1, FiniteMsgs
<1>3. Cardinality(InFlight') <= Cardinality(InFlight)
      /\ Cardinality(InFlight') \in Nat /\ Cardinality(InFlight) \in Nat
  BY <1>1, <1>2, FiniteMsgs, FS_Subset
<1>4. QED
  BY <1>3, FloodNumbers

\* What is kept of the caches' contents.
LEMMA KeptContents ==
    ASSUME NEW f \in [Inners -> SUBSET Msgs], inner' = Kept(f)
    PROVE  /\ inner' \in [Inners -> SUBSET Msgs]
           /\ \A i \in Inners :
                /\ inner'[i] \subseteq f[i]
                /\ inner'[i] # {} => i = outer' \/ Holding(i)' # {}
                /\ i = outer' \/ Holding(i)' # {} => inner'[i] = f[i]
  BY DEF Kept, Holding

\* At the start there is nothing.
LEMMA FloodInitShape == FloodInit => FloodShape
<1> SUFFICES ASSUME FloodInit PROVE FloodShape
  OBVIOUS
<1>1. text \in Seq(Texts) /\ Len(text) = 0
  BY EmptySeq DEF FloodInit
<1>2. settings \in [DOMAIN Settings -> BOOLEAN]
  BY FloodAssumption, Zenon DEF FloodInit
<1>3. FloodTypeOK
  <2>1. Len(text) <= MaxMsgs
    BY <1>1, FloodNumbers
  <2>2. QED
    BY <1>1, <1>2, <2>1 DEF FloodInit, FloodTypeOK, Stages
<1>4. ASSUME NEW m \in Msgs PROVE stage[m] = "new" /\ ~ (m <= Len(text))
  <2>1. m \in Nat /\ m >= 1
    BY FloodNumbers DEF Msgs
  <2>2. QED
    BY <1>1, <2>1 DEF FloodInit
<1>5. Arrivals
  BY <1>3, <1>4 DEF Arrivals
<1>6. InFlight = {}
  BY <1>4 DEF InFlight
<1>7. Cardinality(InFlight) <= Concurrency
  BY <1>6, FS_EmptySet, FloodNumbers
<1>8. QED
  BY <1>5, <1>7 DEF FloodInit, FloodShape, Homes

\* A message arrives.
LEMMA ArriveShape ==
    ASSUME FloodShape, NEW m \in Msgs, Arrive(m)
    PROVE  /\ FloodShape'
           /\ Posted' = Posted
           /\ ignore \subseteq ignore' /\ ignore' \subseteq ignore \cup {m} /\ m \notin Posted
           /\ \A n \in 1 .. Len(text) : text'[n] = text[n]
<1>0. /\ Arrivals /\ FloodTypeOK /\ ByStage
      /\ stage \in [Msgs -> Stages] /\ ref \in [Msgs -> Inners \cup {NoCache}]
      /\ \A n \in Msgs : ref[n] # NoCache => stage[n] \in {"set", "count"}
  BY StagesTell DEF FloodShape, Arrivals, FloodTypeOK
<1>1. PICK k \in Texts : text' = Append(text, k)
  BY DEF Arrive
<1>2. /\ text' \in Seq(Texts) /\ Len(text') = Len(text) + 1
      /\ \A n \in 1 .. Len(text) : text'[n] = text[n]
  <2>1. text \in Seq(Texts)
    BY <1>0 DEF FloodTypeOK
  <2>2. QED
    BY <1>1, <2>1, AppendProperties
<1>3. /\ Len(text) = m - 1 /\ m \in Nat /\ m >= 1 /\ m <= MaxMsgs /\ MaxMsgs \in Nat
      /\ m \notin 1 .. Len(text) /\ 1 .. Len(text') = (1 .. Len(text)) \cup {m}
  <2>1. Len(text) = m - 1 /\ m \in Nat /\ m >= 1 /\ m <= MaxMsgs
    <3>1. m \in 1 .. MaxMsgs
      BY DEF Msgs
    <3>2. Len(text) = m - 1
      BY DEF Arrive
    <3>3. QED
      BY <3>1, <3>2, FloodNumbers
  <2>2. QED
    BY <1>2, <2>1, FloodNumbers
<1>4. /\ stage[m] = "new"
      /\ stage' = [stage EXCEPT ![m] = IF outer = NoCache THEN "make for push" ELSE "set"]
      /\ ref' = [ref EXCEPT ![m] = outer]
      /\ inner' = inner /\ outer' = outer /\ settings' = settings
      /\ ignore \subseteq ignore' /\ ignore' \subseteq ignore \cup {m}
      /\ missed' = missed /\ forgotten' = forgotten /\ punished' = punished
  BY DEF Arrive, GetInner, Goto, floodVars
<1>5. FloodTypeOK'
  <2>1. Len(text') <= MaxMsgs
    BY <1>2, <1>3
  <2>2. QED
    BY <1>0, <1>2, <1>4, <2>1 DEF FloodTypeOK, Stages
<1>6. Arrivals'
  <2>1. ASSUME NEW n \in Msgs
        PROVE  stage'[n] # "new" <=> n <= Len(text')
    <3>1. n <= Len(text') <=> n <= Len(text) \/ n = m
      <4>1. n \in Nat
        BY FiniteMsgs
      <4>2. QED
        BY <1>2, <1>3, <4>1
    <3>2. stage'[n] # "new" <=> stage[n] # "new" \/ n = m
      BY <1>0, <1>4
    <3>3. QED
      BY <1>0, <3>1, <3>2 DEF Arrivals
  <2>2. QED
    BY <1>5, <2>1 DEF Arrivals
<1>7. Posted' = Posted /\ m \notin Posted
  <2>1. ByStage'
    BY <1>6, StagesTell, PTL
  <2>2. QED
    BY <1>0, <1>4, <2>1 DEF ByStage
<1>8. (Cardinality(InFlight) <= Concurrency)'
  <2>1. InFlight' \subseteq InFlight \cup {m} /\ m \notin InFlight
    BY <1>0, <1>4 DEF InFlight
  <2>2. InFlight \in SUBSET Msgs
    BY DEF InFlight
  <2>3. /\ IsFiniteSet(InFlight) /\ IsFiniteSet(InFlight \cup {m})
        /\ Cardinality(InFlight \cup {m}) = Cardinality(InFlight) + 1
        /\ Cardinality(InFlight) \in Nat
    BY <2>1, <2>2, FiniteMsgs, FS_AddElement
  <2>4. Cardinality(InFlight') <= Cardinality(InFlight \cup {m}) /\ Cardinality(InFlight') \in Nat
    BY <2>1, <2>2, <2>3, FiniteMsgs, FS_Subset
  <2>5. Cardinality(InFlight) < Concurrency
    BY DEF Arrive
  <2>6. QED
    BY <2>3, <2>4, <2>5, FloodNumbers
<1>9. \A n \in Msgs : ref'[n] # NoCache => stage'[n] \in {"set", "count"}
  BY <1>0, <1>4
<1>10. \A i \in Inners : inner'[i] # {} => i = outer' \/ Holding(i)' # {}
  <2> TAKE i \in Inners
  <2>1. ref[m] # i
    BY <1>0, <1>4, FloodNumbers
  <2>2. Holding(i) \subseteq Holding(i)'
    BY <1>0, <1>4, <2>1 DEF Holding
  <2>3. QED
    BY <1>4, <2>2 DEF FloodShape, Homes
<1>11. \A n \in punished' : stage'[n] = "done"
  BY <1>0, <1>4 DEF FloodShape, FloodTypeOK
<1>12. ignore' \subseteq 1 .. Len(text') /\ forgotten' \subseteq Posted'
  BY <1>3, <1>4, <1>7 DEF FloodShape
<1>13. FloodShape'
  BY <1>4, <1>6, <1>7, <1>8, <1>9, <1>10, <1>11, <1>12 DEF FloodShape, Homes
<1>14. QED
  BY <1>2, <1>4, <1>7, <1>13

\* A message goes on from one stage to another.
LEMMA MoveStage ==
    ASSUME FloodShape, NEW m \in Msgs, NEW to \in Stages, to # "new",
           stage[m] \notin {"new", "done"}, stage' = [stage EXCEPT ![m] = to],
           text' = text
    PROVE  /\ stage' \in [Msgs -> Stages]
           /\ \A n \in Msgs : stage'[n] # "new" <=> n <= Len(text')
           /\ InFlight' = IF to = "done" THEN InFlight \ {m} ELSE InFlight
           /\ Cardinality(InFlight') <= Concurrency
           /\ {stage[m], to} \cap {"make for push", "set"} = {} => Posted' = Posted
           /\ {stage[m], to} \subseteq {"make for push", "set"} => Posted' = Posted
           /\ stage[m] = "set" /\ to = "check" => Posted' = Posted \cup {m}
           /\ stage[m] \in {"make for push", "set"} => m \notin Posted
<1>1. stage \in [Msgs -> Stages] /\ \A n \in Msgs : stage[n] # "new" <=> n <= Len(text)
  BY DEF FloodShape, Arrivals, FloodTypeOK
<1>2. InFlight' = IF to = "done" THEN InFlight \ {m} ELSE InFlight
  BY <1>1 DEF InFlight
<1>3. Cardinality(InFlight') <= Concurrency
  BY <1>2, FlightShrinks DEF FloodShape
<1>4. 1 .. Len(text) \subseteq Msgs
  BY StagesTell DEF FloodShape, ByStage
<1>5. /\ Posted' = {n \in 1 .. Len(text) : stage'[n] \notin {"make for push", "set"}}
      /\ Posted = {n \in 1 .. Len(text) : stage[n] \notin {"make for push", "set"}}
      /\ m \in 1 .. Len(text)
  <2>1. m \in 1 .. Len(text)
    BY StagesTell DEF FloodShape, ByStage
  <2>2. QED
    BY <2>1 DEF Posted
<1>6. /\ {stage[m], to} \cap {"make for push", "set"} = {} => Posted' = Posted
      /\ {stage[m], to} \subseteq {"make for push", "set"} => Posted' = Posted
      /\ stage[m] = "set" /\ to = "check" => Posted' = Posted \cup {m}
      /\ stage[m] \in {"make for push", "set"} => m \notin Posted
  BY <1>1, <1>4, <1>5
<1>7. QED
  BY <1>1, <1>2, <1>3, <1>6

\* Messages stay where they were, or vanish.
LEMMA HomesKept ==
    ASSUME FloodShape, NEW f \in [Inners -> SUBSET Msgs], inner' = Kept(f),
           \A i \in Inners : f[i] \subseteq inner[i], Posted \subseteq Posted'
    PROVE  inner' \in [Inners -> SUBSET Msgs] /\ Homes'
<1>1. /\ inner' \in [Inners -> SUBSET Msgs]
      /\ \A i \in Inners :
           /\ inner'[i] \subseteq f[i]
           /\ inner'[i] # {} => i = outer' \/ Holding(i)' # {}
  BY KeptContents
<1>2. \A i \in Inners : inner'[i] \subseteq inner[i]
  BY <1>1
<1>3. QED
  BY <1>1, <1>2 DEF FloodShape, Homes

\* A cache is made: a fresh one, and the one in force so far is replaced.
LEMMA MakeInnerShape ==
    ASSUME FloodShape, NEW m \in Msgs,
           \/ MakeInner(m, "make for push", "set")
           \/ MakeInner(m, "make for count", "count")
    PROVE  /\ FloodShape' /\ Posted' = Posted /\ InFlight' = InFlight
           /\ outer' \in Inners /\ outer' # outer /\ Holding(outer') = {}
           /\ inner'[outer'] = {} /\ \A i \in Inners : inner'[i] \subseteq inner[i]
           /\ ref' = [ref EXCEPT ![m] = outer'] /\ ref[m] = NoCache
<1>0. /\ Arrivals /\ FloodTypeOK
      /\ stage \in [Msgs -> Stages] /\ ref \in [Msgs -> Inners \cup {NoCache}]
      /\ inner \in [Inners -> SUBSET Msgs]
      /\ \A n \in Msgs : ref[n] # NoCache => stage[n] \in {"set", "count"}
  BY DEF FloodShape, Arrivals, FloodTypeOK
<1>1. PICK to \in {"set", "count"} :
         /\ stage' = [stage EXCEPT ![m] = to]
         /\ stage[m] = IF to = "set" THEN "make for push" ELSE "make for count"
  BY DEF MakeInner, Goto
<1>2. /\ UNCHANGED <<settings, ignore, text, missed, forgotten, punished>>
      /\ inner' = Kept(inner)
  BY DEF MakeInner, Goto
<1>3. PICK i \in Inners : /\ i # outer /\ (\A n \in Msgs : ref[n] # i)
                          /\ outer' = i /\ ref' = [ref EXCEPT ![m] = i]
  BY DEF MakeInner
<1>4. Holding(i) = {} /\ inner[i] = {}
  BY <1>3 DEF Holding, FloodShape, Homes
<1>5. /\ stage' \in [Msgs -> Stages]
      /\ \A n \in Msgs : stage'[n] # "new" <=> n <= Len(text')
      /\ InFlight' = InFlight /\ Cardinality(InFlight') <= Concurrency
      /\ Posted' = Posted
  BY <1>1, <1>2, MoveStage DEF Stages
<1>6. inner' \in [Inners -> SUBSET Msgs] /\ Homes'
  BY <1>0, <1>1, <1>2, <1>5, HomesKept
<1>7. \A j \in Inners : inner'[j] \subseteq inner[j]
  BY <1>0, <1>1, <1>2, KeptContents
<1>8. ref' \in [Msgs -> Inners \cup {NoCache}] /\ ref[m] = NoCache
  BY <1>0, <1>1, <1>2, <1>3
<1>9. FloodTypeOK'
  <2>1. \A n \in Msgs : stage'[n] \in {"set", "count"} => ref'[n] # NoCache
    BY <1>0, <1>1, <1>2, <1>3, FloodNumbers DEF FloodTypeOK
  <2>2. QED
    BY <1>0, <1>1, <1>2, <1>3, <1>5, <1>6, <1>8, <2>1 DEF FloodTypeOK
<1>10. \A n \in Msgs : ref'[n] # NoCache => stage'[n] \in {"set", "count"}
  BY <1>0, <1>1, <1>2, <1>3
<1>11. \A n \in punished : stage'[n] = "done"
  BY <1>0, <1>1, <1>2 DEF FloodShape, FloodTypeOK
<1>12. FloodShape'
  BY <1>1, <1>2, <1>5, <1>6, <1>9, <1>10, <1>11 DEF FloodShape, Arrivals
<1>13. QED
  BY <1>3, <1>4, <1>5, <1>7, <1>8, <1>12

\* A message is stored in the cache its handler has looked up.
LEMMA StoreShape ==
    ASSUME FloodShape, NEW m \in Msgs, Store(m)
    PROVE  /\ FloodShape' /\ Posted' = Posted \cup {m} /\ m \notin Posted
           /\ InFlight' = InFlight
           /\ ref[m] \in Inners /\ ref' = [ref EXCEPT ![m] = NoCache]
           /\ \A i \in Inners : inner'[i] \subseteq inner[i] \cup {m}
           /\ \A i \in Inners : m \in inner'[i] => i = ref[m]
           /\ outer = ref[m] => inner'[outer] = inner[outer] \cup {m}
           /\ outer # NoCache /\ outer # ref[m] => inner'[outer] = inner[outer]
<1>0. /\ Arrivals /\ FloodTypeOK
      /\ stage \in [Msgs -> Stages] /\ ref \in [Msgs -> Inners \cup {NoCache}]
      /\ inner \in [Inners -> SUBSET Msgs] /\ outer \in Inners \cup {NoCache}
      /\ \A n \in Msgs : ref[n] # NoCache => stage[n] \in {"set", "count"}
  BY DEF FloodShape, Arrivals, FloodTypeOK
<1> DEFINE f == [inner EXCEPT ![ref[m]] = @ \cup {m}]
<1>1. /\ stage[m] = "set" /\ stage' = [stage EXCEPT ![m] = "check"]
      /\ UNCHANGED <<settings, outer, ignore, text, missed, forgotten, punished>>
      /\ ref' = [ref EXCEPT ![m] = NoCache]
      /\ inner' = Kept(f)
  BY DEF Store, Goto, Release
<1>2. /\ stage' \in [Msgs -> Stages]
      /\ \A n \in Msgs : stage'[n] # "new" <=> n <= Len(text')
      /\ InFlight' = InFlight /\ Cardinality(InFlight') <= Concurrency
      /\ Posted' = Posted \cup {m} /\ m \notin Posted
  BY <1>1, MoveStage DEF Stages
<1>3. ref[m] \in Inners
  BY <1>0, <1>1 DEF FloodTypeOK
<1>4. f \in [Inners -> SUBSET Msgs]
      /\ \A i \in Inners : f[i] = IF i = ref[m] THEN inner[i] \cup {m} ELSE inner[i]
  BY <1>0, <1>3
<1> HIDE DEF f
<1>5. /\ inner' \in [Inners -> SUBSET Msgs]
      /\ \A i \in Inners :
           /\ inner'[i] \subseteq f[i]
           /\ inner'[i] # {} => i = outer' \/ Holding(i)' # {}
           /\ i = outer' \/ Holding(i)' # {} => inner'[i] = f[i]
  BY <1>1, <1>4, KeptContents
<1>6. \A i \in Inners : m \notin inner[i]
  BY <1>2 DEF FloodShape, Homes
<1>7. Homes'
  <2>1. \A i \in Inners : inner'[i] \subseteq Posted'
    BY <1>2, <1>4, <1>5 DEF FloodShape, Homes
  <2>2. \A i, j \in Inners : inner'[i] \cap inner'[j] # {} => i = j
    <3>1. \A i, j \in Inners : f[i] \cap f[j] # {} => i = j
      BY <1>4, <1>6 DEF FloodShape, Homes
    <3>2. QED
      BY <1>5, <3>1
  <2>3. QED
    BY <1>5, <2>1, <2>2 DEF Homes
<1>8. FloodTypeOK'
  <2>1. ref' \in [Msgs -> Inners \cup {NoCache}]
    BY <1>0, <1>1
  <2>2. \A n \in Msgs : stage'[n] \in {"set", "count"} => ref'[n] # NoCache
    BY <1>0, <1>1 DEF FloodTypeOK
  <2>3. QED
    BY <1>0, <1>1, <1>2, <1>5, <2>1, <2>2 DEF FloodTypeOK
<1>9. \A n \in Msgs : ref'[n] # NoCache => stage'[n] \in {"set", "count"}
  BY <1>0, <1>1
<1>10. \A n \in punished : stage'[n] = "done"
  BY <1>0, <1>1 DEF FloodShape, FloodTypeOK
<1>11. FloodShape'
  BY <1>1, <1>2, <1>7, <1>8, <1>9, <1>10 DEF FloodShape, Arrivals
<1>12. QED
  BY <1>0, <1>1, <1>2, <1>3, <1>4, <1>5, <1>6, <1>11

\* A checked message goes on, holding a cache only to count.
LEMMA GoOnShape ==
    ASSUME FloodShape, NEW m \in Msgs, stage[m] \in {"check", "count", "clear"},
           NEW to \in {"make for count", "count", "clear", "done"},
           stage' = [stage EXCEPT ![m] = to],
           NEW r \in Inners \cup {NoCache}, ref' = [ref EXCEPT ![m] = r],
           r # NoCache <=> to = "count",
           UNCHANGED <<settings, ignore, text, forgotten>>,
           missed' \subseteq missed \cup {m}, punished' \subseteq punished \cup {m},
           m \in punished' => to = "done",
           outer' \in {outer, NoCache}, inner' \in [Inners -> SUBSET Msgs], Homes'
    PROVE  /\ FloodShape' /\ Posted' = Posted
           /\ InFlight' = IF to = "done" THEN InFlight \ {m} ELSE InFlight
<1>0. /\ Arrivals /\ FloodTypeOK
      /\ stage \in [Msgs -> Stages] /\ ref \in [Msgs -> Inners \cup {NoCache}]
      /\ \A n \in Msgs : ref[n] # NoCache => stage[n] \in {"set", "count"}
  BY DEF FloodShape, Arrivals, FloodTypeOK
<1>1. /\ stage' \in [Msgs -> Stages]
      /\ \A n \in Msgs : stage'[n] # "new" <=> n <= Len(text')
      /\ InFlight' = IF to = "done" THEN InFlight \ {m} ELSE InFlight
      /\ Cardinality(InFlight') <= Concurrency
      /\ Posted' = Posted
  <2>1. /\ to \in Stages /\ to # "new" /\ stage[m] \notin {"new", "done"} /\ text' = text
        /\ {stage[m], to} \cap {"make for push", "set"} = {}
    BY DEF Stages
  <2>2. QED
    BY <2>1, MoveStage
<1>2. ref' \in [Msgs -> Inners \cup {NoCache}]
  BY <1>0
<1>3. \A n \in Msgs : stage'[n] \in {"set", "count"} => ref'[n] # NoCache
  BY <1>0 DEF FloodTypeOK
<1>4. FloodTypeOK'
  BY <1>0, <1>1, <1>2, <1>3 DEF FloodTypeOK
<1>5. \A n \in Msgs : ref'[n] # NoCache => stage'[n] \in {"set", "count"}
  BY <1>0
<1>6. \A n \in punished' : stage'[n] = "done"
  <2>1. \A n \in punished : n \in Msgs /\ stage[n] = "done"
    BY <1>0 DEF FloodShape, FloodTypeOK
  <2>2. QED
    BY <1>0, <2>1
<1>7. ignore' \subseteq 1 .. Len(text') /\ forgotten' \subseteq Posted'
  BY <1>1 DEF FloodShape
<1>8. QED
  BY <1>1, <1>4, <1>5, <1>6, <1>7 DEF FloodShape, Arrivals

\* A check is skipped.
LEMMA SkipShape ==
    ASSUME FloodShape, NEW m \in Msgs, Skip(m)
    PROVE  FloodShape' /\ Posted' = Posted /\ InFlight' = InFlight \ {m}
<1>1. /\ stage[m] = "check" /\ stage' = [stage EXCEPT ![m] = "done"]
      /\ UNCHANGED <<settings, outer, inner, ref, ignore, text, forgotten, punished>>
      /\ missed' = missed \cup {m}
  BY DEF Skip, Goto
<1>2. /\ ref \in [Msgs -> Inners \cup {NoCache}] /\ ref[m] = NoCache
      /\ outer \in Inners \cup {NoCache} /\ inner \in [Inners -> SUBSET Msgs] /\ Homes
      /\ punished \subseteq {n \in Msgs : stage[n] = "done"}
  BY <1>1 DEF FloodShape, Arrivals, FloodTypeOK
<1>3. ref' = [ref EXCEPT ![m] = NoCache]
  BY <1>1, <1>2
<1>4. Posted' = Posted
  BY <1>1, MoveStage DEF Stages
<1>5. Homes'
  BY <1>1, <1>2, <1>4 DEF Homes, Holding
<1>6. m \notin punished'
  BY <1>1, <1>2
<1>7. QED
  BY <1>1, <1>2, <1>3, <1>5, <1>6, GoOnShape

\* The cache is looked up for the count.
LEMMA ExamineShape ==
    ASSUME FloodShape, NEW m \in Msgs, Examine(m)
    PROVE  FloodShape' /\ Posted' = Posted /\ InFlight' = InFlight
<1>1. /\ stage[m] = "check"
      /\ stage' = [stage EXCEPT ![m] = IF outer = NoCache THEN "make for count" ELSE "count"]
      /\ UNCHANGED <<settings, outer, inner, ignore, text, missed, forgotten, punished>>
      /\ ref' = [ref EXCEPT ![m] = outer]
  BY DEF Examine, GetInner, Goto
<1>2. /\ ref \in [Msgs -> Inners \cup {NoCache}] /\ ref[m] = NoCache
      /\ outer \in Inners \cup {NoCache} /\ inner \in [Inners -> SUBSET Msgs] /\ Homes
      /\ punished \subseteq {n \in Msgs : stage[n] = "done"}
  BY <1>1 DEF FloodShape, Arrivals, FloodTypeOK
<1> DEFINE to == IF outer = NoCache THEN "make for count" ELSE "count"
<1>3. /\ to \in {"make for count", "count"} /\ (outer # NoCache <=> to = "count")
      /\ stage' = [stage EXCEPT ![m] = to]
  BY <1>1
<1> HIDE DEF to
<1>4. Posted' = Posted
  <2>1. /\ to \in Stages /\ to # "new" /\ stage[m] \notin {"new", "done"} /\ text' = text
        /\ {stage[m], to} \cap {"make for push", "set"} = {}
    BY <1>1, <1>3 DEF Stages
  <2>2. QED
    BY <1>3, <2>1, MoveStage
<1>5. Homes'
  <2>1. \A i \in Inners : Holding(i) \subseteq Holding(i)'
    BY <1>1, <1>2, FloodNumbers DEF Holding
  <2>2. \A i \in Inners : inner'[i] # {} => i = outer' \/ Holding(i)' # {}
    BY <1>1, <1>2, <2>1 DEF Homes
  <2>3. QED
    BY <1>1, <1>2, <1>4, <2>2 DEF Homes
<1>6. m \notin punished'
  BY <1>1, <1>2
<1>7. QED
  BY <1>1, <1>2, <1>3, <1>5, <1>6, GoOnShape

\* The messages of the cache are counted; the cache may vanish with that.
LEMMA CountShape ==
    ASSUME FloodShape, NEW m \in Msgs, Count(m)
    PROVE  /\ FloodShape' /\ Posted' = Posted
           /\ ref[m] \in Inners /\ ref' = [ref EXCEPT ![m] = NoCache]
           /\ \A i \in Inners : inner'[i] \subseteq inner[i]
           /\ outer # NoCache => inner'[outer] = inner[outer]
           /\ IsFiniteSet(inner[ref[m]])
           /\ \/ /\ stage' = [stage EXCEPT ![m] = "done"]
                 /\ InFlight' = InFlight \ {m}
                 /\ Cardinality(Between(m, inner[ref[m]])) < MinGap =>
                      Cardinality(Similar(m, inner[ref[m]])) < Limit
              \/ /\ stage' = [stage EXCEPT ![m] = "clear"]
                 /\ InFlight' = InFlight
                 /\ Cardinality(Similar(m, inner[ref[m]])) >= Limit
<1>1. /\ stage[m] = "count"
      /\ ref' = [ref EXCEPT ![m] = NoCache] /\ inner' = Kept(inner)
      /\ UNCHANGED <<settings, outer, ignore, text, missed, forgotten, punished>>
  BY DEF Count, Release
<1>2. PICK order \in SetToSeqs(inner[ref[m]]) :
         stage' = [stage EXCEPT ![m] = IF CountSpam(m, order) >= Limit THEN "clear" ELSE "done"]
  BY DEF Count, Goto
<1>3. /\ ref \in [Msgs -> Inners \cup {NoCache}] /\ ref[m] \in Inners
      /\ outer \in Inners \cup {NoCache} /\ inner \in [Inners -> SUBSET Msgs]
      /\ punished \subseteq {n \in Msgs : stage[n] = "done"}
  BY <1>1 DEF FloodShape, Arrivals, FloodTypeOK
<1> DEFINE to == IF CountSpam(m, order) >= Limit THEN "clear" ELSE "done"
<1>4. /\ to \in {"clear", "done"} /\ stage' = [stage EXCEPT ![m] = to]
      /\ to = "clear" <=> CountSpam(m, order) >= Limit
  BY <1>2
<1> HIDE DEF to
<1>5. IsFiniteSet(inner[ref[m]])
  BY <1>3, FiniteMsgs
<1>6. Posted' = Posted
  BY <1>1, <1>4, MoveStage DEF Stages
<1>7. inner' \in [Inners -> SUBSET Msgs] /\ Homes'
  BY <1>1, <1>3, <1>6, HomesKept
<1>8. /\ \A i \in Inners : inner'[i] \subseteq inner[i]
      /\ outer # NoCache => inner'[outer] = inner[outer]
  BY <1>1, <1>3, KeptContents
<1>9. /\ FloodShape'
      /\ InFlight' = IF to = "done" THEN InFlight \ {m} ELSE InFlight
  BY <1>1, <1>3, <1>4, <1>7, GoOnShape
<1>10. /\ CountSpam(m, order) \in Nat
       /\ CountSpam(m, order) <= Cardinality(Similar(m, inner[ref[m]]))
       /\ Cardinality(Between(m, inner[ref[m]])) < MinGap =>
            CountSpam(m, order) = Cardinality(Similar(m, inner[ref[m]]))
  BY <1>2, <1>5, CountSpamCounts
<1>11. Similar(m, inner[ref[m]]) \in SUBSET Msgs
  BY <1>3 DEF Similar
<1>12. Cardinality(Similar(m, inner[ref[m]])) \in Nat /\ Limit \in Nat
  BY <1>11, FiniteMsgs, FloodNumbers
<1>13. CASE to = "clear"
  <2>1. Cardinality(Similar(m, inner[ref[m]])) >= Limit
    BY <1>4, <1>10, <1>12, <1>13
  <2>2. QED
    BY <1>1, <1>3, <1>4, <1>5, <1>6, <1>8, <1>9, <1>13, <2>1
<1>14. CASE to = "done"
  <2>1. Cardinality(Between(m, inner[ref[m]])) < MinGap =>
          Cardinality(Similar(m, inner[ref[m]])) < Limit
    BY <1>4, <1>10, <1>12, <1>14
  <2>2. QED
    BY <1>1, <1>3, <1>4, <1>5, <1>6, <1>8, <1>9, <1>14, <2>1
<1>15. QED
  BY <1>4, <1>13, <1>14

\* The punishment clears the cache.
LEMMA ClearShape ==
    ASSUME FloodShape, NEW m \in Msgs, Clear(m)
    PROVE  /\ FloodShape' /\ Posted' = Posted /\ outer' = NoCache
           /\ \A i \in Inners : inner'[i] \subseteq inner[i]
           /\ \A i \in Inners : Holding(i) = {} => inner'[i] = {}
<1>1. /\ stage[m] = "clear" /\ stage' = [stage EXCEPT ![m] = "done"]
      /\ UNCHANGED <<settings, ref, ignore, text, missed, forgotten>>
      /\ punished' = punished \cup {m} /\ outer' = NoCache /\ inner' = Kept(inner)
  BY DEF Clear, Goto
<1>2. /\ ref \in [Msgs -> Inners \cup {NoCache}] /\ ref[m] = NoCache
      /\ inner \in [Inners -> SUBSET Msgs]
  BY <1>1 DEF FloodShape, Arrivals, FloodTypeOK
<1>3. ref' = [ref EXCEPT ![m] = NoCache]
  BY <1>1, <1>2
<1>4. Posted' = Posted
  BY <1>1, MoveStage DEF Stages
<1>5. inner' \in [Inners -> SUBSET Msgs] /\ Homes'
  BY <1>1, <1>2, <1>4, HomesKept
<1>6. FloodShape'
  BY <1>1, <1>3, <1>5, GoOnShape
<1>7. /\ \A i \in Inners : inner'[i] \subseteq inner[i]
      /\ \A i \in Inners : inner'[i] # {} => i = outer' \/ Holding(i)' # {}
  BY <1>1, <1>2, KeptContents
<1>8. ASSUME NEW i \in Inners, Holding(i) = {} PROVE inner'[i] = {}
  BY <1>1, <1>7, <1>8, FloodNumbers DEF Holding
<1>9. QED
  BY <1>1, <1>4, <1>6, <1>7, <1>8

\* A setting changes.
LEMMA ChangeShape ==
    ASSUME FloodShape, NEW s \in Changing, Change(s)
    PROVE  FloodShape' /\ Posted' = Posted /\ InFlight' = InFlight
<1>1. settings \in [DOMAIN Settings -> BOOLEAN]
  BY DEF FloodShape, Arrivals, FloodTypeOK
<1>2. settings' \in [DOMAIN Settings -> BOOLEAN]
  BY <1>1 DEF Change
<1>3. UNCHANGED <<outer, inner, stage, ref, ignore, text, missed, forgotten, punished>>
  BY DEF Change
<1>4. Posted' = Posted /\ InFlight' = InFlight
  BY <1>3 DEF Posted, InFlight
<1>5. FloodTypeOK'
  BY <1>2, <1>3 DEF FloodShape, Arrivals, FloodTypeOK
<1>6. QED
  BY <1>3, <1>4, <1>5 DEF FloodShape, Arrivals, Homes, Holding

\* Messages expire.
LEMMA ForgetShape ==
    ASSUME FloodShape, ForgetMessages
    PROVE  /\ FloodShape' /\ Posted' = Posted /\ InFlight' = InFlight
           /\ outer' \in {outer, NoCache}
           /\ outer' # outer => InFlight = {} /\ inner'[outer] = {}
           /\ \A i \in Inners : inner'[i] \subseteq inner[i]
           /\ forgotten \subseteq forgotten'
<1>0. /\ Arrivals /\ FloodTypeOK
      /\ inner \in [Inners -> SUBSET Msgs] /\ outer \in Inners \cup {NoCache}
      /\ \A i \in Inners : inner[i] \subseteq Posted
      /\ \A i \in Inners : inner[i] # {} => i = outer \/ Holding(i) # {}
  BY DEF FloodShape, Arrivals, FloodTypeOK, Homes
<1>1. UNCHANGED <<settings, stage, ref, ignore, text, missed, punished>>
  BY DEF ForgetMessages
<1>2. /\ Posted' = Posted /\ InFlight' = InFlight
      /\ \A i \in Inners : Holding(i)' = Holding(i)
  BY <1>1 DEF Posted, InFlight, Holding
<1>3. Posted \subseteq 1 .. Len(text) /\ 1 .. Len(text) \subseteq Msgs
  BY <1>0, StagesTell DEF Posted, ByStage
<1>4. /\ inner' \in [Inners -> SUBSET Msgs] /\ outer' \in {outer, NoCache}
      /\ outer' # outer => InFlight = {} /\ inner'[outer] = {}
      /\ \A i \in Inners : inner'[i] \subseteq inner[i]
      /\ \A i \in Inners : inner'[i] # {} => i = outer' \/ Holding(i)' # {}
      /\ forgotten \subseteq forgotten' /\ forgotten' \subseteq Posted
  <2>1. CASE \E m \in Visible : /\ inner' = [inner EXCEPT ![outer] = @ \ {m}]
                                /\ forgotten' = forgotten \cup {m}
                                /\ UNCHANGED outer
    <3>1. PICK m \in Visible : /\ inner' = [inner EXCEPT ![outer] = @ \ {m}]
                               /\ forgotten' = forgotten \cup {m}
                               /\ UNCHANGED outer
      BY <2>1
    <3>2. outer \in Inners /\ m \in inner[outer]
      BY <1>0 DEF Visible
    <3>3. QED
      BY <1>0, <1>2, <3>1, <3>2 DEF FloodShape
  <2>2. CASE /\ InFlight = {} /\ outer # NoCache
             /\ outer' = NoCache
             /\ forgotten' = 1 .. Len(text)
             /\ inner' = [inner EXCEPT ![outer] = {}]
    <3>1. \A n \in 1 .. Len(text) : stage[n] = "done"
      BY <1>0, <1>3, <2>2, StagesTell DEF InFlight, ByStage
    <3>2. Posted = 1 .. Len(text)
      BY <3>1 DEF Posted
    <3>3. \A i \in Inners : inner'[i] # {} => i # outer /\ inner'[i] = inner[i]
      BY <1>0, <2>2
    <3>4. QED
      BY <1>0, <1>2, <2>2, <3>2, <3>3 DEF FloodShape
  <2>3. QED
    BY <2>1, <2>2 DEF ForgetMessages
<1>5. FloodTypeOK'
  <2>1. forgotten' \subseteq Msgs
    BY <1>3, <1>4
  <2>2. QED
    BY <1>0, <1>1, <1>4, <2>1 DEF FloodTypeOK
<1>6. Homes'
  BY <1>2, <1>4 DEF FloodShape, Homes
<1>7. QED
  BY <1>1, <1>2, <1>4, <1>5, <1>6 DEF FloodShape, Arrivals

-----------------------------------------------------------------------------
(* Repeated messages: each punishment is charged to the messages it counted. *)

Chargers(F, n) == {m \in Msgs : n \in F[m]}

\* A message that is still in the cache has been counted only by handlers that
\* are about to clear it; one in a replaced cache by no more than there are,
\* those included that may count it yet.
Charged(F) ==
    /\ F \in [Msgs -> SUBSET Msgs]
    /\ \A m \in Msgs : F[m] # {} => m \in punished \cup Clearing
    /\ \A m \in punished \cup Clearing :
          /\ F[m] \subseteq OfClass(Posted \ ignore, text[m])
          /\ Cardinality(F[m]) >= Limit
    /\ \A n \in Msgs : Cardinality(Chargers(F, n)) <= Concurrency
    /\ \A n \in Visible : Chargers(F, n) \subseteq Clearing
    /\ \A i \in Inners : i # outer =>
          \A n \in inner[i] : Cardinality(Chargers(F, n) \cup Holding(i)) <= Concurrency

ChargeInv == FloodShape /\ \E F : Charged(F)

\* What has been posted stays so, with its class, unless to be ignored.
Grown ==
    /\ Posted \ ignore \subseteq Posted' \ ignore'
    /\ \A n \in 1 .. Len(text) : text'[n] = text[n]

\* No more messages than are in flight are not too many.
LEMMA NotTooMany ==
    ASSUME FloodShape, NEW S \in SUBSET InFlight
    PROVE  Cardinality(S) <= Concurrency
<1>1. InFlight \in SUBSET Msgs
  BY DEF InFlight
<1>2. IsFiniteSet(InFlight) /\ Cardinality(InFlight) \in Nat /\ Cardinality(S) \in Nat
  BY <1>1, FiniteMsgs
<1>3. Cardinality(S) <= Cardinality(InFlight) /\ Cardinality(InFlight) <= Concurrency
  BY <1>2, FS_Subset DEF FloodShape
<1>4. QED
  BY <1>2, <1>3, FloodNumbers

\* Fewer than not too many are not too many.
LEMMA FewerThan ==
    ASSUME NEW S \in SUBSET Msgs, NEW T \in SUBSET S, Cardinality(S) <= Concurrency
    PROVE  Cardinality(T) <= Concurrency
<1>1. IsFiniteSet(S) /\ Cardinality(S) \in Nat /\ Cardinality(T) \in Nat
  BY FiniteMsgs
<1>2. Cardinality(T) <= Cardinality(S)
  BY <1>1, FS_Subset
<1>3. QED
  BY <1>1, <1>2, FloodNumbers

\* Handlers about to clear, and those that hold a cache, are in flight.
LEMMA BusyInFlight ==
    ASSUME FloodShape
    PROVE  /\ Clearing \subseteq InFlight
           /\ \A i \in Inners : Holding(i) \subseteq InFlight
           /\ Clearing \cap punished = {}
           /\ Clearing \subseteq 1 .. Len(text) /\ punished \subseteq 1 .. Len(text)
<1>1. \A m \in Msgs : ref[m] # NoCache => stage[m] \in {"set", "count"}
  BY DEF FloodShape
<1>2. \A i \in Inners : Holding(i) \subseteq InFlight
  BY <1>1, FloodNumbers DEF Holding, InFlight
<1>3. ByStage /\ punished \subseteq Msgs
  BY StagesTell DEF FloodShape, Arrivals, FloodTypeOK
<1>4. QED
  BY <1>2, <1>3 DEF FloodShape, Clearing, InFlight, ByStage

\* A message that has not been posted is charged with nothing.
LEMMA NothingChargedYet ==
    ASSUME NEW F, Charged(F), NEW n, n \notin Posted
    PROVE  Chargers(F, n) = {}
<1> SUFFICES ASSUME NEW m \in Msgs, n \in F[m] PROVE FALSE
  BY DEF Chargers
<1>1. m \in punished \cup Clearing
  BY DEF Charged
<1>2. QED
  BY <1>1 DEF Charged, OfClass

\* Where nothing new is charged, what is charged stays so.
LEMMA ChargesKept ==
    ASSUME FloodShape, FloodShape', Grown, NEW F, Charged(F),
           punished' \cup Clearing' = punished \cup Clearing,
           \A n \in Visible' : Chargers(F, n) \subseteq Clearing',
           \A i \in Inners : i # outer' =>
             \A n \in inner'[i] :
               Cardinality(Chargers(F, n) \cup Holding(i)') <= Concurrency
    PROVE  ChargeInv'
<1>1. \A m \in punished \cup Clearing : text'[m] = text[m]
  BY BusyInFlight DEF Grown
<1>2. \A m \in punished' \cup Clearing' :
         OfClass(Posted \ ignore, text[m]) \subseteq OfClass(Posted \ ignore, text[m])'
  BY <1>1 DEF Grown, OfClass, Posted
<1>3. \A m \in punished' \cup Clearing' :
          /\ F[m] \subseteq OfClass(Posted \ ignore, text[m])'
          /\ Cardinality(F[m]) >= Limit
  BY <1>2 DEF Charged
<1>4. Charged(F)'
  BY <1>3 DEF Charged, Chargers
<1>5. QED
  BY <1>4 DEF ChargeInv

\* The caches change little: nothing comes to one, and no handler to one that
\* is not the user's.
LEMMA ChargesStay ==
    ASSUME FloodShape, FloodShape', Grown, NEW F, Charged(F),
           punished' = punished, Clearing' = Clearing, outer' = outer,
           \A i \in Inners : inner'[i] \subseteq inner[i],
           \A i \in Inners : i # outer => Holding(i)' \subseteq Holding(i)
    PROVE  ChargeInv'
<1>1. \A n \in Visible' : n \in Visible
  BY DEF Visible, FloodShape, Arrivals, FloodTypeOK
<1>2. \A n \in Visible' : Chargers(F, n) \subseteq Clearing'
  BY <1>1 DEF Charged
<1>3. ASSUME NEW i \in Inners, i # outer', NEW n \in inner'[i]
      PROVE  Cardinality(Chargers(F, n) \cup Holding(i)') <= Concurrency
  <2>1. Cardinality(Chargers(F, n) \cup Holding(i)) <= Concurrency
    BY <1>3 DEF Charged
  <2>2. /\ Chargers(F, n) \cup Holding(i) \in SUBSET Msgs
        /\ Chargers(F, n) \cup Holding(i)' \in SUBSET (Chargers(F, n) \cup Holding(i))
    BY <1>3 DEF Chargers, Holding
  <2>3. QED
    BY <2>1, <2>2, FewerThan
<1>4. QED
  BY <1>2, <1>3, ChargesKept

\* A message arrives, goes on to its check or skips it.
LEMMA ArriveCharges ==
    ASSUME ChargeInv, NEW m \in Msgs, Arrive(m) \/ Skip(m) \/ Examine(m)
    PROVE  ChargeInv'
<1>1. PICK F : Charged(F)
  BY DEF ChargeInv
<1>2. FloodShape
  BY DEF ChargeInv
<1>3. /\ stage \in [Msgs -> Stages] /\ ref \in [Msgs -> Inners \cup {NoCache}]
      /\ \A n \in Msgs : ref[n] # NoCache => stage[n] \in {"set", "count"}
  BY <1>2 DEF FloodShape, Arrivals, FloodTypeOK
<1>4. CASE Arrive(m)
  <2>1. FloodShape' /\ Grown
    BY <1>2, <1>4, ArriveShape DEF Grown
  <2>2. /\ stage' = [stage EXCEPT ![m] = IF outer = NoCache THEN "make for push" ELSE "set"]
        /\ stage[m] = "new" /\ ref' = [ref EXCEPT ![m] = outer]
        /\ punished' = punished /\ outer' = outer /\ inner' = inner
    BY <1>4 DEF Arrive, GetInner, Goto
  <2>3. Clearing' = Clearing
    BY <1>3, <2>2 DEF Clearing
  <2>4. \A i \in Inners : i # outer => Holding(i)' \subseteq Holding(i)
    BY <1>3, <2>2 DEF Holding
  <2>5. QED
    BY <1>1, <1>2, <2>1, <2>2, <2>3, <2>4, ChargesStay
<1>5. CASE Skip(m)
  <2>1. /\ stage' = [stage EXCEPT ![m] = "done"] /\ stage[m] = "check"
        /\ ref' = ref /\ text' = text /\ ignore' = ignore
        /\ punished' = punished /\ outer' = outer /\ inner' = inner
    BY <1>5 DEF Skip, Goto
  <2>2. FloodShape' /\ Grown
    BY <1>2, <1>5, <2>1, SkipShape DEF Grown
  <2>3. Clearing' = Clearing
    BY <1>3, <2>1 DEF Clearing
  <2>4. \A i \in Inners : i # outer => Holding(i)' \subseteq Holding(i)
    BY <2>1 DEF Holding
  <2>5. QED
    BY <1>1, <1>2, <2>1, <2>2, <2>3, <2>4, ChargesStay
<1>6. CASE Examine(m)
  <2>1. /\ stage' = [stage EXCEPT ![m] = IF outer = NoCache THEN "make for count" ELSE "count"]
        /\ stage[m] = "check" /\ ref' = [ref EXCEPT ![m] = outer]
        /\ text' = text /\ ignore' = ignore
        /\ punished' = punished /\ outer' = outer /\ inner' = inner
    BY <1>6 DEF Examine, GetInner, Goto
  <2>2. FloodShape' /\ Grown
    BY <1>2, <1>6, <2>1, ExamineShape DEF Grown
  <2>3. Clearing' = Clearing
    BY <1>3, <2>1 DEF Clearing
  <2>4. \A i \in Inners : i # outer => Holding(i)' \subseteq Holding(i)
    BY <1>3, <2>1 DEF Holding
  <2>5. QED
    BY <1>1, <1>2, <2>1, <2>2, <2>3, <2>4, ChargesStay
<1>7. QED
  BY <1>4, <1>5, <1>6

\* A cache is replaced: those about to clear have counted in it, and those that
\* hold it may count yet; all are in flight.
LEMMA MakeInnerCharges ==
    ASSUME ChargeInv, NEW m \in Msgs,
           \/ MakeInner(m, "make for push", "set")
           \/ MakeInner(m, "make for count", "count")
    PROVE  ChargeInv'
<1>1. PICK F : Charged(F)
  BY DEF ChargeInv
<1>2. FloodShape
  BY DEF ChargeInv
<1>3. /\ FloodShape' /\ Posted' = Posted
      /\ outer' \in Inners /\ outer' # outer /\ inner'[outer'] = {}
      /\ \A i \in Inners : inner'[i] \subseteq inner[i]
      /\ ref' = [ref EXCEPT ![m] = outer'] /\ ref[m] = NoCache
  BY <1>2, MakeInnerShape
<1>4. /\ stage[m] # "clear" /\ stage' \in {[stage EXCEPT ![m] = "set"], [stage EXCEPT ![m] = "count"]}
      /\ text' = text /\ ignore' = ignore /\ punished' = punished
      /\ stage \in [Msgs -> Stages] /\ ref \in [Msgs -> Inners \cup {NoCache}]
  BY <1>2 DEF MakeInner, Goto, FloodShape, Arrivals, FloodTypeOK
<1>5. Grown
  BY <1>3, <1>4 DEF Grown
<1>6. Clearing' = Clearing
  BY <1>4 DEF Clearing
<1>7. Visible' = {}
  BY <1>3, FloodNumbers DEF Visible
<1>8. ASSUME NEW i \in Inners, i # outer', NEW n \in inner'[i]
      PROVE  Cardinality(Chargers(F, n) \cup Holding(i)') <= Concurrency
  <2>1. Holding(i)' = Holding(i)
    BY <1>3, <1>4, <1>8, FloodNumbers DEF Holding
  <2>2. CASE i # outer
    BY <1>1, <1>3, <1>8, <2>1, <2>2 DEF Charged
  <2>3. CASE i = outer
    <3>1. n \in Visible
      BY <1>3, <1>8, <2>3, FloodNumbers DEF Visible
    <3>2. Chargers(F, n) \cup Holding(i) \in SUBSET InFlight
      BY <1>1, <1>2, <3>1, BusyInFlight DEF Charged
    <3>3. QED
      BY <1>2, <2>1, <3>2, NotTooMany
  <2>4. QED
    BY <2>2, <2>3
<1>9. QED
  BY <1>1, <1>2, <1>3, <1>4, <1>5, <1>6, <1>7, <1>8, ChargesKept

\* A message that is stored has been counted by nobody.
LEMMA StoreCharges ==
    ASSUME ChargeInv, NEW m \in Msgs, Store(m)
    PROVE  ChargeInv'
<1>1. PICK F : Charged(F)
  BY DEF ChargeInv
<1>2. FloodShape
  BY DEF ChargeInv
<1>3. /\ FloodShape' /\ Posted' = Posted \cup {m} /\ m \notin Posted
      /\ InFlight' = InFlight
      /\ ref' = [ref EXCEPT ![m] = NoCache]
      /\ \A i \in Inners : inner'[i] \subseteq inner[i] \cup {m}
  BY <1>2, StoreShape
<1>4. /\ stage[m] = "set" /\ stage' = [stage EXCEPT ![m] = "check"]
      /\ text' = text /\ ignore' = ignore /\ punished' = punished /\ outer' = outer
      /\ stage \in [Msgs -> Stages] /\ ref \in [Msgs -> Inners \cup {NoCache}]
      /\ outer \in Inners \cup {NoCache}
  BY <1>2 DEF Store, Goto, FloodShape, Arrivals, FloodTypeOK
<1>5. Grown
  BY <1>3, <1>4 DEF Grown
<1>6. Clearing' = Clearing
  BY <1>4 DEF Clearing
<1>7. Chargers(F, m) = {}
  BY <1>1, <1>3, NothingChargedYet
<1>8. \A n \in Visible' : n \in Visible \cup {m}
  BY <1>3, <1>4 DEF Visible
<1>9. \A n \in Visible' : Chargers(F, n) \subseteq Clearing'
  BY <1>1, <1>6, <1>7, <1>8 DEF Charged
<1>10. ASSUME NEW i \in Inners, i # outer', NEW n \in inner'[i]
       PROVE  Cardinality(Chargers(F, n) \cup Holding(i)') <= Concurrency
  <2>1. Holding(i)' \subseteq Holding(i)
    BY <1>3, <1>4, FloodNumbers DEF Holding
  <2>2. CASE n = m
    <3>1. Chargers(F, n) \cup Holding(i)' \in SUBSET InFlight
      BY <1>2, <1>7, <2>1, <2>2, BusyInFlight
    <3>2. QED
      BY <1>2, <3>1, NotTooMany
  <2>3. CASE n # m
    <3>1. n \in inner[i]
      BY <1>3, <1>10, <2>3
    <3>2. Cardinality(Chargers(F, n) \cup Holding(i)) <= Concurrency
      BY <1>1, <1>4, <1>10, <3>1 DEF Charged
    <3>3. /\ Chargers(F, n) \cup Holding(i) \in SUBSET Msgs
          /\ Chargers(F, n) \cup Holding(i)' \in SUBSET (Chargers(F, n) \cup Holding(i))
      BY <2>1 DEF Chargers, Holding
    <3>4. QED
      BY <3>2, <3>3, FewerThan
  <2>4. QED
    BY <2>2, <2>3
<1>11. QED
  BY <1>1, <1>2, <1>3, <1>4, <1>5, <1>6, <1>9, <1>10, ChargesKept

\* A handler that has counted enough charges what it counted.
LEMMA CountCharges ==
    ASSUME ChargeInv, NEW m \in Msgs, Count(m)
    PROVE  ChargeInv'
<1>1. PICK F : Charged(F)
  BY DEF ChargeInv
<1>2. FloodShape
  BY DEF ChargeInv
<1> DEFINE i == ref[m]
<1>3. /\ FloodShape' /\ Posted' = Posted
      /\ i \in Inners /\ ref' = [ref EXCEPT ![m] = NoCache]
      /\ \A j \in Inners : inner'[j] \subseteq inner[j]
      /\ \/ stage' = [stage EXCEPT ![m] = "done"]
         \/ /\ stage' = [stage EXCEPT ![m] = "clear"]
            /\ InFlight' = InFlight
            /\ Cardinality(Similar(m, inner[i])) >= Limit
  BY <1>2, CountShape
<1>4. /\ stage[m] = "count"
      /\ UNCHANGED <<outer, ignore, text, punished>>
      /\ stage \in [Msgs -> Stages] /\ ref \in [Msgs -> Inners \cup {NoCache}]
      /\ inner \in [Inners -> SUBSET Msgs] /\ outer \in Inners \cup {NoCache}
  BY <1>2 DEF Count, FloodShape, Arrivals, FloodTypeOK
<1>5. Grown
  BY <1>3, <1>4 DEF Grown
<1>6. \A j \in Inners : Holding(j)' \subseteq Holding(j)
  BY <1>3, <1>4, FloodNumbers DEF Holding
<1>7. CASE stage' = [stage EXCEPT ![m] = "done"]
  <2>1. Clearing' = Clearing
    BY <1>4, <1>7 DEF Clearing
  <2>2. QED
    BY <1>1, <1>2, <1>3, <1>4, <1>5, <1>6, <2>1, ChargesStay
<1>8. CASE /\ stage' = [stage EXCEPT ![m] = "clear"]
           /\ InFlight' = InFlight
           /\ Cardinality(Similar(m, inner[i])) >= Limit
  <2> DEFINE new == Similar(m, inner[i])
  <2>1. /\ Clearing' = Clearing \cup {m} /\ m \notin Clearing /\ m \notin punished
    BY <1>2, <1>4, <1>8 DEF Clearing, FloodShape
  <2>2. F[m] = {} /\ F \in [Msgs -> SUBSET Msgs]
    BY <1>1, <2>1 DEF Charged
  <2>3. new \subseteq inner[i] /\ new \subseteq OfClass(Posted \ ignore, text[m])
    BY <1>2, <1>3 DEF Similar, FloodShape, Homes, OfClass
  <2>4. PICK G : /\ G \in [Msgs -> SUBSET Msgs]
                 /\ \A n \in Msgs : G[n] = IF n = m THEN new ELSE F[n]
    <3>1. [F EXCEPT ![m] = new] \in [Msgs -> SUBSET Msgs]
      BY <1>3, <1>4, <2>2, <2>3
    <3> HIDE DEF new
    <3>2. QED
      BY <2>2, <3>1
  <2> HIDE DEF new, i
  <2>5. \A n : Chargers(G, n) = IF n \in new THEN Chargers(F, n) \cup {m} ELSE Chargers(F, n)
    BY <2>2, <2>4 DEF Chargers
  <2>6. \A n \in Msgs : G[n] # {} => n \in punished' \cup Clearing'
    BY <1>1, <1>4, <2>1, <2>4 DEF Charged
  <2>7. \A n \in punished' \cup Clearing' :
          /\ G[n] \subseteq OfClass(Posted \ ignore, text[n])'
          /\ Cardinality(G[n]) >= Limit
    <3> TAKE n \in punished' \cup Clearing'
    <3>1. OfClass(Posted \ ignore, text[n])' = OfClass(Posted \ ignore, text[n])
      BY <1>3, <1>4 DEF OfClass
    <3>2. CASE n = m
      BY <1>8, <2>3, <2>4, <3>1, <3>2 DEF i, new
    <3>3. CASE n # m
      <4>1. n \in Msgs /\ n \in punished \cup Clearing
        BY <1>2, <1>4, <2>1, <3>3 DEF FloodShape, Arrivals, FloodTypeOK, Clearing
      <4>2. QED
        BY <1>1, <2>4, <3>1, <3>3, <4>1 DEF Charged
    <3>4. QED
      BY <3>2, <3>3
  <2>8. m \in Holding(i)
    BY DEF Holding, i
  <2>9. \A n \in Msgs : Cardinality(Chargers(G, n)) <= Concurrency
    <3> TAKE n \in Msgs
    <3>1. CASE n \notin new
      BY <1>1, <2>5, <3>1 DEF Charged
    <3>2. CASE n \in new /\ i = outer
      <4>1. n \in Visible
        BY <1>3, <2>3, <3>2, FloodNumbers DEF Visible, i
      <4>2. Chargers(G, n) \in SUBSET Clearing'
        BY <1>1, <2>1, <2>5, <3>2, <4>1 DEF Charged
      <4>3. Clearing' \subseteq InFlight'
        BY DEF Clearing, InFlight
      <4>4. Chargers(G, n) \in SUBSET InFlight
        BY <1>8, <4>2, <4>3
      <4>5. QED
        BY <1>2, <4>4, NotTooMany
    <3>3. CASE n \in new /\ i # outer
      <4>1. Cardinality(Chargers(F, n) \cup Holding(i)) <= Concurrency
        BY <1>1, <1>3, <2>3, <3>3 DEF Charged
      <4>2. /\ Chargers(F, n) \cup Holding(i) \in SUBSET Msgs
            /\ Chargers(G, n) \in SUBSET (Chargers(F, n) \cup Holding(i))
        BY <2>5, <2>8, <3>3 DEF Chargers, Holding
      <4>3. QED
        BY <4>1, <4>2, FewerThan
    <3>4. QED
      BY <3>1, <3>2, <3>3
  <2>10. \A n \in Visible' : Chargers(G, n) \subseteq Clearing'
    <3> TAKE n \in Visible'
    <3>1. n \in Visible
      BY <1>3, <1>4 DEF Visible
    <3>2. QED
      BY <1>1, <2>1, <2>5, <3>1 DEF Charged
  <2>11. ASSUME NEW j \in Inners, j # outer', NEW n \in inner'[j]
         PROVE  Cardinality(Chargers(G, n) \cup Holding(j)') <= Concurrency
    <3>1. n \in inner[j] /\ j # outer
      BY <1>3, <1>4, <2>11
    <3>2. Cardinality(Chargers(F, n) \cup Holding(j)) <= Concurrency
      BY <1>1, <3>1 DEF Charged
    <3>3. n \in new => j = i
      BY <1>2, <1>3, <2>3, <3>1 DEF FloodShape, Homes
    <3>4. /\ Chargers(F, n) \cup Holding(j) \in SUBSET Msgs
          /\ Chargers(G, n) \cup Holding(j)' \in SUBSET (Chargers(F, n) \cup Holding(j))
      <4>1. Holding(j)' \subseteq Holding(j)
        BY <1>6
      <4>2. Chargers(G, n) \subseteq Chargers(F, n) \cup Holding(j)
        BY <2>5, <2>8, <3>3
      <4>3. QED
        BY <4>1, <4>2 DEF Chargers, Holding
    <3>5. QED
      BY <3>2, <3>4, FewerThan
  <2>12. Charged(G)'
    <3>1. \A n : Chargers(G, n)' = Chargers(G, n)
      BY DEF Chargers
    <3>2. QED
      BY <2>4, <2>6, <2>7, <2>9, <2>10, <2>11, <3>1 DEF Charged
  <2>13. QED
    BY <1>3, <2>12 DEF ChargeInv
<1>9. QED
  BY <1>3, <1>7, <1>8

\* Those about to clear become the punished.
LEMMA ClearCharges ==
    ASSUME ChargeInv, NEW m \in Msgs, Clear(m)
    PROVE  ChargeInv'
<1>1. PICK F : Charged(F)
  BY DEF ChargeInv
<1>2. FloodShape
  BY DEF ChargeInv
<1>3. /\ FloodShape' /\ Posted' = Posted /\ outer' = NoCache
      /\ \A i \in Inners : inner'[i] \subseteq inner[i]
  BY <1>2, ClearShape
<1>4. /\ stage[m] = "clear" /\ stage' = [stage EXCEPT ![m] = "done"]
      /\ UNCHANGED <<ref, ignore, text>> /\ punished' = punished \cup {m}
      /\ stage \in [Msgs -> Stages]
  BY <1>2 DEF Clear, Goto, FloodShape, Arrivals, FloodTypeOK
<1>5. Grown
  BY <1>3, <1>4 DEF Grown
<1>6. punished' \cup Clearing' = punished \cup Clearing
  BY <1>4 DEF Clearing
<1>7. Visible' = {}
  BY <1>3 DEF Visible
<1>8. ASSUME NEW i \in Inners, i # outer', NEW n \in inner'[i]
      PROVE  Cardinality(Chargers(F, n) \cup Holding(i)') <= Concurrency
  <2>1. Holding(i)' = Holding(i)
    BY <1>4 DEF Holding
  <2>2. CASE i # outer
    BY <1>1, <1>3, <1>8, <2>1, <2>2 DEF Charged
  <2>3. CASE i = outer
    <3>1. n \in Visible
      BY <1>3, <1>8, <2>3, FloodNumbers DEF Visible
    <3>2. Chargers(F, n) \cup Holding(i) \in SUBSET InFlight
      BY <1>1, <1>2, <3>1, BusyInFlight DEF Charged
    <3>3. QED
      BY <1>2, <2>1, <3>2, NotTooMany
  <2>4. QED
    BY <2>2, <2>3
<1>9. QED
  BY <1>1, <1>2, <1>3, <1>5, <1>6, <1>7, <1>8, ChargesKept

\* Settings and expiries charge nothing.
LEMMA SurroundingsCharges ==
    ASSUME ChargeInv, ForgetMessages \/ \E s \in Changing : Change(s)
    PROVE  ChargeInv'
<1>1. PICK F : Charged(F)
  BY DEF ChargeInv
<1>2. FloodShape
  BY DEF ChargeInv
<1>3. CASE \E s \in Changing : Change(s)
  <2>1. PICK s \in Changing : Change(s)
    BY <1>3
  <2>2. UNCHANGED <<outer, inner, stage, ref, ignore, text, punished>>
    BY <2>1 DEF Change
  <2>3. FloodShape' /\ Posted' = Posted
    BY <1>2, <2>1, ChangeShape
  <2>4. Grown /\ Clearing' = Clearing /\ \A i \in Inners : Holding(i)' = Holding(i)
    BY <2>2, <2>3 DEF Grown, Clearing, Holding
  <2>5. QED
    BY <1>1, <1>2, <2>2, <2>3, <2>4, ChargesStay
<1>4. CASE ForgetMessages
  <2>1. /\ FloodShape' /\ Posted' = Posted
        /\ outer' \in {outer, NoCache}
        /\ outer' # outer => InFlight = {} /\ inner'[outer] = {}
        /\ \A i \in Inners : inner'[i] \subseteq inner[i]
    BY <1>2, <1>4, ForgetShape
  <2>2. UNCHANGED <<stage, ref, ignore, text, punished>>
    BY <1>4 DEF ForgetMessages
  <2>3. Grown /\ Clearing' = Clearing /\ \A i \in Inners : Holding(i)' = Holding(i)
    BY <2>1, <2>2 DEF Grown, Clearing, Holding
  <2>4. outer \in Inners \cup {NoCache}
    BY <1>2 DEF FloodShape, Arrivals, FloodTypeOK
  <2>5. \A n \in Visible' : Chargers(F, n) \subseteq Clearing'
    BY <1>1, <2>1, <2>3, <2>4 DEF Visible, Charged
  <2>6. \A i \in Inners : i # outer' => \A n \in inner'[i] : i # outer /\ n \in inner[i]
    BY <2>1
  <2>7. \A i \in Inners : i # outer' =>
          \A n \in inner'[i] : Cardinality(Chargers(F, n) \cup Holding(i)') <= Concurrency
    BY <1>1, <2>3, <2>6 DEF Charged
  <2>8. QED
    BY <1>1, <1>2, <2>1, <2>2, <2>3, <2>5, <2>7, ChargesKept
<1>5. QED
  BY <1>3, <1>4

\* At the start nothing is charged.
LEMMA FloodInitCharges == FloodInit => ChargeInv
<1> SUFFICES ASSUME FloodInit PROVE ChargeInv
  OBVIOUS
<1> DEFINE F == [m \in Msgs |-> {}]
<1>1. FloodShape
  BY FloodInitShape
<1>2. punished = {} /\ Clearing = {} /\ outer = NoCache /\ inner = [i \in Inners |-> {}]
  BY DEF FloodInit, Clearing
<1>3. \A n : Chargers(F, n) = {}
  BY DEF Chargers
<1>4. F \in [Msgs -> SUBSET Msgs] /\ \A m \in Msgs : F[m] = {}
  OBVIOUS
<1>5. Cardinality({}) = 0
  BY FS_EmptySet
<1> HIDE DEF F
<1>6. Charged(F)
  BY <1>2, <1>3, <1>4, <1>5, FloodNumbers DEF Charged, Visible
<1>7. QED
  BY <1>1, <1>6 DEF ChargeInv

\* What the charges are for: each punishment has Limit messages of its class to
\* its charge, and each message at most one punishment per handler.
LEMMA ChargesPay == ChargeInv => CountedOnce
<1> SUFFICES ASSUME ChargeInv PROVE CountedOnce
  OBVIOUS
<1>1. PICK F : Charged(F)
  BY DEF ChargeInv
<1>2. FloodTypeOK /\ punished \subseteq Msgs
  BY DEF ChargeInv, FloodShape, Arrivals, FloodTypeOK
<1>3. ASSUME NEW k \in Texts
      PROVE  Cardinality(OfClass(punished, k)) * Limit
               <= Cardinality(OfClass(Posted \ ignore, k)) * Concurrency
  <2> DEFINE A == OfClass(punished, k)
             B == OfClass(Posted \ ignore, k)
  <2>1. A \in SUBSET Msgs /\ A \subseteq punished /\ \A a \in A : text[a] = k
    BY <1>2 DEF OfClass
  <2>2. B \in SUBSET Msgs
    <3>1. ByStage
      BY StagesTell DEF ChargeInv, FloodShape
    <3>2. QED
      BY <3>1 DEF OfClass, ByStage
  <2>3. \A a \in A : F[a] \subseteq B /\ Cardinality(F[a]) >= Limit
    BY <1>1, <2>1 DEF Charged
  <2>4. \A b \in B : Cardinality({a \in A : b \in F[a]}) <= Concurrency
    <3> TAKE b \in B
    <3>1. /\ Chargers(F, b) \in SUBSET Msgs /\ {a \in A : b \in F[a]} \in SUBSET Chargers(F, b)
          /\ Cardinality(Chargers(F, b)) <= Concurrency
      BY <1>1, <2>1, <2>2 DEF Chargers, Charged
    <3>2. QED
      BY <3>1, FewerThan
  <2>5. IsFiniteSet(A) /\ IsFiniteSet(B) /\ Limit \in Nat /\ Concurrency \in Nat
    BY <2>1, <2>2, FiniteMsgs, FloodNumbers
  <2> HIDE DEF A, B
  <2>6. Cardinality(A) * Limit <= Cardinality(B) * Concurrency
    BY <2>3, <2>4, <2>5, DoubleCounting
  <2>7. QED
    BY <2>6 DEF A, B
<1>4. QED
  BY <1>2, <1>3 DEF CountedOnce

\* Messages do not count again and again: Limit similar ones buy at most one
\* punishment per worker (Checker.checkSpam, Store.ClearKey).
THEOREM EachPunishmentIsPaidFor == FloodSpec => [](CountedOnce /\ FloodShape)
<1>1. ChargeInv /\ [FloodNext]_floodVars => ChargeInv'
  <2> SUFFICES ASSUME ChargeInv, [FloodNext]_floodVars PROVE ChargeInv'
    OBVIOUS
  <2>1. ASSUME NEW m \in Msgs, Arrive(m) \/ Skip(m) \/ Examine(m) PROVE ChargeInv'
    BY <2>1, ArriveCharges
  <2>2. ASSUME NEW m \in Msgs, \/ MakeInner(m, "make for push", "set")
                               \/ MakeInner(m, "make for count", "count")
        PROVE  ChargeInv'
    BY <2>2, MakeInnerCharges
  <2>3. ASSUME NEW m \in Msgs, Store(m) PROVE ChargeInv'
    BY <2>3, StoreCharges
  <2>4. ASSUME NEW m \in Msgs, Count(m) PROVE ChargeInv'
    BY <2>4, CountCharges
  <2>5. ASSUME NEW m \in Msgs, Clear(m) PROVE ChargeInv'
    BY <2>5, ClearCharges
  <2>6. CASE ForgetMessages \/ \E s \in Changing : Change(s)
    BY <2>6, SurroundingsCharges
  <2>7. CASE UNCHANGED floodVars
    <3>1. FloodShape' /\ Posted' = Posted
      BY <2>7 DEF floodVars, ChargeInv, FloodShape, Arrivals, FloodTypeOK, Homes,
                  Holding, Posted, InFlight
    <3>2. PICK F : Charged(F)
      BY DEF ChargeInv
    <3>3. QED
      BY <2>7, <3>1, <3>2, ChargesStay
        DEF floodVars, ChargeInv, Grown, Clearing, Holding
  <2>8. QED
    BY <2>1, <2>2, <2>3, <2>4, <2>5, <2>6, <2>7 DEF FloodNext
<1>2. ChargeInv => CountedOnce /\ FloodShape
  BY ChargesPay DEF ChargeInv
<1>3. QED
  BY <1>1, <1>2, FloodInitCharges, PTL DEF FloodSpec

-----------------------------------------------------------------------------
(* Repeated messages: how many go unpunished.                               *)

Alike(k) == OfClass(Posted \ ignore, k)

\* The user has not been punished, nor is about to be; every message has been
\* checked; and too few others lie between those of class k.
Unharmed(k) ==
    /\ punished = {} /\ Clearing = {} /\ missed = {}
    /\ Cardinality(Posted \ Alike(k)) < MinGap

\* Handlers that have found no cache, and the number of the others: no more
\* caches than that have been made.
Making == {m \in Msgs : stage[m] = "make for push"}
Made   == Concurrency - Cardinality(Making)

\* The messages of class k that are lost, or will be, in caches replaced; and
\* those that have been counted in the cache in force.
Strays(k) == {m \in 1 .. Len(text) : /\ m \notin ignore /\ text[m] = k
                                     /\ stage[m] = "set" /\ ref[m] # outer}
Lost(k)   == ((Alike(k) \ forgotten) \ Visible) \cup Strays(k)
Met(k)    == {m \in Visible \cap Alike(k) : stage[m] = "done"}

\* With each cache made, the one it replaces loses the fewer than Limit that
\* were counted in it, and those of the handlers that are not making one.
FewLost(k) ==
    /\ \A m \in Msgs : stage[m] # "make for count"
    /\ outer = NoCache => InFlight = Making /\ Lost(k) = {}
    /\ outer # NoCache =>
         /\ Made >= 1
         /\ Cardinality(Met(k)) < Limit
         /\ 2 * Cardinality(Lost(k)) <= (Made - 1) * (2 * (Limit - 1) + Made)

\* A message in the cache in force is counted there.
CountsHere == \A m \in Msgs : stage[m] = "count" /\ m \in Visible => ref[m] = outer

FloodInv ==
    /\ FloodShape
    /\ CountsHere
    /\ \A k \in Texts : Unharmed(k) => FewLost(k)

\* What was posted has been neither withdrawn nor changed.
Lasting ==
    /\ Posted \subseteq Posted'
    /\ \A n \in 1 .. Len(text) : text'[n] = text[n]
    /\ \A n \in Posted : n \in ignore <=> n \in ignore'

\* Where all these messages are.
LEMMA Whereabouts ==
    ASSUME FloodShape, NEW k
    PROVE  /\ ByStage
           /\ Posted \in SUBSET Msgs /\ Making \in SUBSET Msgs /\ InFlight \in SUBSET Msgs
           /\ Alike(k) \in SUBSET Posted /\ Lost(k) \in SUBSET Msgs /\ Met(k) \in SUBSET Msgs
           /\ Visible \in SUBSET Posted
           /\ Making \subseteq InFlight
           /\ IsFiniteSet(Lost(k)) /\ Cardinality(Lost(k)) \in Nat
           /\ IsFiniteSet(Met(k)) /\ Cardinality(Met(k)) \in Nat
           /\ Made \in Nat /\ Cardinality(Making) \in Nat
<1>1. ByStage /\ 1 .. Len(text) \subseteq Msgs
  BY StagesTell DEF FloodShape, ByStage
<1>2. Posted \in SUBSET Msgs /\ Making \in SUBSET Msgs /\ InFlight \in SUBSET Msgs
  BY <1>1 DEF Posted, Making, InFlight
<1>3. outer \in Inners \cup {NoCache} /\ \A i \in Inners : inner[i] \subseteq Posted
  BY DEF FloodShape, Arrivals, FloodTypeOK, Homes
<1>4. Alike(k) \in SUBSET Posted /\ Visible \in SUBSET Posted
  BY <1>3 DEF Alike, OfClass, Visible
<1>5. Lost(k) \in SUBSET Msgs /\ Met(k) \in SUBSET Msgs
  BY <1>1, <1>2, <1>4 DEF Lost, Strays, Met
<1>6. Making \subseteq InFlight
  BY DEF Making, InFlight
<1>7. Cardinality(Making) <= Concurrency /\ Cardinality(Making) \in Nat
  BY <1>2, <1>6, NotTooMany, FiniteMsgs
<1>8. Made \in Nat
  BY <1>7, FloodNumbers DEF Made
<1>9. QED
  BY <1>1, <1>2, <1>4, <1>5, <1>6, <1>7, <1>8, FiniteMsgs

\* What is unharmed has been so.
LEMMA UnharmedBefore ==
    ASSUME FloodShape, FloodShape', Lasting, punished \subseteq punished',
           Clearing \subseteq Clearing', missed \subseteq missed', NEW k, Unharmed(k)'
    PROVE  Unharmed(k)
<1>1. Posted \in SUBSET Msgs /\ Posted \subseteq 1 .. Len(text)
  BY Whereabouts DEF Posted
<1>2. (Posted \in SUBSET Msgs)'
  <2>1. Arrivals'
    BY DEF FloodShape
  <2>2. ByStage'
    BY <2>1, StagesTell, PTL
  <2>3. QED
    BY <2>2 DEF ByStage
<1>3. Posted \ Alike(k) \subseteq (Posted \ Alike(k))'
  BY <1>1 DEF Lasting, Alike, OfClass
<1>4. Posted \ Alike(k) \in SUBSET Msgs /\ (Posted \ Alike(k))' \in SUBSET Msgs
  BY <1>1, <1>2
<1>5. /\ Cardinality(Posted \ Alike(k)) <= Cardinality((Posted \ Alike(k))')
      /\ Cardinality(Posted \ Alike(k)) \in Nat /\ Cardinality((Posted \ Alike(k))') \in Nat
  BY <1>3, <1>4, FiniteMsgs, FS_Subset
<1>6. Cardinality((Posted \ Alike(k))') < MinGap
  BY DEF Unharmed
<1>7. QED
  BY <1>5, <1>6, FloodNumbers DEF Unharmed

\* Numbers that bound others bound smaller ones.
LEMMA SmallerStill ==
    ASSUME NEW K \in Nat, NEW L \in Nat, NEW x \in Nat, NEW y \in Nat,
           NEW u \in Nat, NEW v \in Nat, u <= x, v <= y, y < L,
           2 * x <= (K - 1) * (2 * (L - 1) + K)
    PROVE  v < L /\ 2 * u <= (K - 1) * (2 * (L - 1) + K)
<1> DEFINE h == (K - 1) * (2 * (L - 1) + K)
<1>1. h \in Int
  <2>1. K - 1 \in Int /\ 2 * (L - 1) + K \in Int
    OBVIOUS
  <2>2. QED
    BY <2>1
<1>2. 2 * x <= h
  OBVIOUS
<1> HIDE DEF h
<1>3. v < L /\ 2 * u <= h
  BY <1>1, <1>2
<1>4. QED
  BY <1>3 DEF h

\* Messages that are no more than others are no more lost.
LEMMA NoMoreLost ==
    ASSUME FloodShape, NEW k, FewLost(k), outer # NoCache, outer' # NoCache,
           \A m \in Msgs : stage'[m] # "make for count", Making' = Making,
           Lost(k)' \subseteq Lost(k), Met(k)' \subseteq Met(k)
    PROVE  FewLost(k)'
<1>1. /\ Cardinality(Lost(k)) \in Nat /\ Cardinality(Met(k)) \in Nat /\ Made \in Nat
      /\ IsFiniteSet(Lost(k)) /\ IsFiniteSet(Met(k))
      /\ Lost(k) \in SUBSET Msgs /\ Met(k) \in SUBSET Msgs
  BY Whereabouts
<1>2. /\ Cardinality(Lost(k)') <= Cardinality(Lost(k))
      /\ Cardinality(Met(k)') <= Cardinality(Met(k))
      /\ Cardinality(Lost(k)') \in Nat /\ Cardinality(Met(k)') \in Nat
  BY <1>1, FiniteMsgs, FS_Subset
<1>3. Made' = Made
  BY DEF Made
<1>4. /\ Made >= 1 /\ Cardinality(Met(k)) < Limit
      /\ 2 * Cardinality(Lost(k)) <= (Made - 1) * (2 * (Limit - 1) + Made)
  BY DEF FewLost
<1>5. /\ Cardinality(Met(k)') < Limit
      /\ 2 * Cardinality(Lost(k)') <= (Made - 1) * (2 * (Limit - 1) + Made)
  <2>1. Limit \in Nat
    BY FloodNumbers
  <2>2. QED
    BY <1>1, <1>2, <1>4, <2>1, SmallerStill
<1>6. QED
  BY <1>3, <1>4, <1>5 DEF FewLost

\* The bound grows as the loss may.
LEMMA BoundGrows ==
    ASSUME NEW K \in Nat, NEW L \in Nat
    PROVE  (K + 1 - 1) * (2 * (L - 1) + (K + 1))
             = (K - 1) * (2 * (L - 1) + K) + 2 * (L - 1) + 2 * K
<1> DEFINE a == 2 * (L - 1)
<1>1. a \in Int
  OBVIOUS
<1> HIDE DEF a
<1>2. K * (a + (K + 1)) = K * a + K * K + K
  BY <1>1
<1>3. (K - 1) * (a + K) = K * a + K * K - a - K
  BY <1>1
<1>4. (K + 1 - 1) * (a + (K + 1)) = (K - 1) * (a + K) + a + 2 * K
  BY <1>1, <1>2, <1>3
<1>5. QED
  BY <1>4 DEF a

\* A message arrives: it will be stored in the cache in force, or makes one.
LEMMA ArriveFew ==
    ASSUME FloodInv, NEW m \in Msgs, Arrive(m)
    PROVE  FloodInv'
<1>1. FloodShape
  BY DEF FloodInv
<1>2. /\ FloodShape' /\ Posted' = Posted /\ m \notin Posted
      /\ ignore \subseteq ignore' /\ ignore' \subseteq ignore \cup {m}
      /\ \A n \in 1 .. Len(text) : text'[n] = text[n]
  BY <1>1, ArriveShape
<1>3. /\ stage[m] = "new"
      /\ stage' = [stage EXCEPT ![m] = IF outer = NoCache THEN "make for push" ELSE "set"]
      /\ ref' = [ref EXCEPT ![m] = outer]
      /\ UNCHANGED <<inner, outer, missed, forgotten, punished>>
      /\ stage \in [Msgs -> Stages] /\ ref \in [Msgs -> Inners \cup {NoCache}]
      /\ outer \in Inners \cup {NoCache}
  BY <1>1 DEF Arrive, GetInner, Goto, FloodShape, Arrivals, FloodTypeOK
<1>4. Visible' = Visible /\ Visible \subseteq Posted /\ Clearing' = Clearing
  <2>1. Clearing' = Clearing
    BY <1>3 DEF Clearing
  <2>2. QED
    BY <1>1, <1>3, <2>1, Whereabouts DEF Visible
<1>5. Lasting
  BY <1>2 DEF Lasting
<1>6. CountsHere'
  BY <1>2, <1>3, <1>4 DEF FloodInv, CountsHere
<1>7. ASSUME NEW k \in Texts, Unharmed(k)' PROVE FewLost(k)'
  <2>1. FewLost(k)
    BY <1>1, <1>2, <1>3, <1>4, <1>5, <1>7, UnharmedBefore DEF FloodInv
  <2>2. Alike(k)' = Alike(k)
    BY <1>2 DEF Alike, OfClass, Posted
  <2>3. Strays(k)' \subseteq Strays(k)
    <3>1. ByStage
      BY <1>1, Whereabouts
    <3>2. ByStage'
      <4>1. Arrivals'
        BY <1>2 DEF FloodShape
      <4>2. QED
        BY <4>1, StagesTell, PTL
    <3>3. SUFFICES ASSUME NEW n \in Strays(k)' PROVE n \in Strays(k)
      OBVIOUS
    <3>4. n \in Msgs /\ stage'[n] = "set" /\ ref'[n] # outer
      BY <1>3, <3>2 DEF Strays, ByStage
    <3>5. n # m
      BY <1>3, <3>4
    <3>6. stage[n] = "set" /\ ref[n] # outer /\ n \in 1 .. Len(text)
      BY <1>3, <3>1, <3>4, <3>5 DEF ByStage
    <3>7. QED
      BY <1>2, <3>5, <3>6 DEF Strays
  <2>4. Lost(k)' \subseteq Lost(k)
    BY <1>3, <1>4, <2>2, <2>3 DEF Lost
  <2>5. Met(k)' \subseteq Met(k)
    <3>1. Posted \in SUBSET Msgs
      BY <1>1, Whereabouts
    <3>2. QED
      BY <1>2, <1>3, <1>4, <2>2, <3>1 DEF Met
  <2>6. \A n \in Msgs : stage'[n] # "make for count"
    BY <1>3, <2>1 DEF FewLost
  <2>7. CASE outer = NoCache
    <3>1. InFlight' = Making'
      BY <1>3, <2>1, <2>7 DEF FewLost, InFlight, Making
    <3>2. QED
      BY <1>3, <2>1, <2>4, <2>6, <2>7, <3>1 DEF FewLost
  <2>8. CASE outer # NoCache
    <3>1. Making' = Making
      BY <1>3, <2>8 DEF Making
    <3>2. QED
      BY <1>1, <1>3, <2>1, <2>4, <2>5, <2>6, <2>8, <3>1, NoMoreLost
  <2>9. QED
    BY <2>7, <2>8
<1>8. QED
  BY <1>2, <1>6, <1>7 DEF FloodInv

\* A message is stored: it is in sight, or astray already.
LEMMA StoreFew ==
    ASSUME FloodInv, NEW m \in Msgs, Store(m)
    PROVE  FloodInv'
<1>1. FloodShape
  BY DEF FloodInv
<1>2. /\ FloodShape' /\ Posted' = Posted \cup {m} /\ m \notin Posted
      /\ ref[m] \in Inners /\ ref' = [ref EXCEPT ![m] = NoCache]
      /\ outer = ref[m] => inner'[outer] = inner[outer] \cup {m}
      /\ outer # NoCache /\ outer # ref[m] => inner'[outer] = inner[outer]
  BY <1>1, StoreShape
<1>3. /\ stage[m] = "set" /\ stage' = [stage EXCEPT ![m] = "check"]
      /\ UNCHANGED <<outer, ignore, text, missed, forgotten, punished>>
      /\ stage \in [Msgs -> Stages] /\ ref \in [Msgs -> Inners \cup {NoCache}]
      /\ outer \in Inners \cup {NoCache}
  BY <1>1 DEF Store, Goto, FloodShape, Arrivals, FloodTypeOK
<1>4. Visible' = IF outer = ref[m] THEN Visible \cup {m} ELSE Visible
  BY <1>2, <1>3, FloodNumbers DEF Visible
<1>5. Clearing' = Clearing
  BY <1>3 DEF Clearing
<1>6. Lasting
  BY <1>2, <1>3 DEF Lasting
<1>7. CountsHere'
  <2> SUFFICES ASSUME NEW n \in Msgs, stage'[n] = "count", n \in Visible'
               PROVE  ref'[n] = outer'
    BY DEF CountsHere
  <2>1. n # m /\ stage[n] = "count"
    BY <1>3
  <2>2. QED
    BY <1>2, <1>3, <1>4, <2>1 DEF FloodInv, CountsHere
<1>8. ASSUME NEW k \in Texts, Unharmed(k)' PROVE FewLost(k)'
  <2>1. FewLost(k)
    BY <1>1, <1>2, <1>3, <1>5, <1>6, <1>8, UnharmedBefore DEF FloodInv
  <2>2. outer # NoCache
    BY <1>3, <2>1 DEF FewLost, InFlight, Making
  <2>3. Making' = Making /\ \A n \in Msgs : stage'[n] # "make for count"
    BY <1>3, <2>1 DEF Making, FewLost
  <2>4. Alike(k)' \subseteq Alike(k) \cup {m} /\ (m \in Alike(k)' => m \notin ignore /\ text[m] = k)
    BY <1>2, <1>3 DEF Alike, OfClass
  <2>5. Strays(k)' \subseteq Strays(k)
    BY <1>2, <1>3 DEF Strays
  <2>6. m \in 1 .. Len(text)
    BY <1>1, <1>3, Whereabouts DEF ByStage
  <2>7. ref[m] # outer /\ m \in Alike(k)' => m \in Strays(k)
    BY <1>3, <2>4, <2>6 DEF Strays
  <2>8. Lost(k)' \subseteq Lost(k)
    BY <1>3, <1>4, <2>4, <2>5, <2>7 DEF Lost
  <2>9. Met(k)' \subseteq Met(k)
    BY <1>3, <1>4, <2>4 DEF Met
  <2>10. QED
    BY <1>1, <1>3, <2>1, <2>2, <2>3, <2>8, <2>9, NoMoreLost
<1>9. QED
  BY <1>2, <1>7, <1>8 DEF FloodInv

\* A message goes on to be counted in the cache in force.
LEMMA ExamineFew ==
    ASSUME FloodInv, NEW m \in Msgs, Examine(m)
    PROVE  FloodInv'
<1>1. FloodShape
  BY DEF FloodInv
<1>2. FloodShape' /\ Posted' = Posted
  BY <1>1, ExamineShape
<1>3. /\ stage[m] = "check"
      /\ stage' = [stage EXCEPT ![m] = IF outer = NoCache THEN "make for count" ELSE "count"]
      /\ ref' = [ref EXCEPT ![m] = outer]
      /\ UNCHANGED <<outer, inner, ignore, text, missed, forgotten, punished>>
      /\ stage \in [Msgs -> Stages] /\ ref \in [Msgs -> Inners \cup {NoCache}]
  BY <1>1 DEF Examine, GetInner, Goto, FloodShape, Arrivals, FloodTypeOK
<1>4. Visible' = Visible /\ Clearing' = Clearing
  BY <1>3 DEF Visible, Clearing
<1>5. Lasting
  BY <1>2, <1>3 DEF Lasting
<1>6. CountsHere'
  BY <1>3, <1>4 DEF FloodInv, CountsHere
<1>7. ASSUME NEW k \in Texts, Unharmed(k)' PROVE FewLost(k)'
  <2>1. FewLost(k)
    BY <1>1, <1>2, <1>3, <1>4, <1>5, <1>7, UnharmedBefore DEF FloodInv
  <2>2. outer # NoCache
    BY <1>3, <2>1 DEF FewLost, InFlight, Making
  <2>3. Making' = Making /\ \A n \in Msgs : stage'[n] # "make for count"
    BY <1>3, <2>1, <2>2 DEF Making, FewLost
  <2>4. Alike(k)' = Alike(k)
    BY <1>2, <1>3 DEF Alike, OfClass
  <2>5. Strays(k)' \subseteq Strays(k)
    BY <1>3, <2>2 DEF Strays
  <2>6. Lost(k)' \subseteq Lost(k)
    BY <1>3, <1>4, <2>4, <2>5 DEF Lost
  <2>7. Met(k)' \subseteq Met(k)
    BY <1>3, <1>4, <2>2, <2>4 DEF Met
  <2>8. QED
    BY <1>1, <1>3, <2>1, <2>2, <2>3, <2>6, <2>7, NoMoreLost
<1>8. QED
  BY <1>2, <1>6, <1>7 DEF FloodInv

\* A skipped check is a missed one, and who clears has found spam.
LEMMA HarmDone ==
    ASSUME FloodInv, NEW m \in Msgs, Skip(m) \/ Clear(m)
    PROVE  FloodInv'
<1>1. FloodShape /\ CountsHere
  BY DEF FloodInv
<1>2. FloodShape'
  BY <1>1, SkipShape, ClearShape
<1>3. \A k \in Texts : ~ Unharmed(k)'
  BY DEF Skip, Clear, Unharmed
<1>4. CountsHere'
  <2>1. stage \in [Msgs -> Stages]
    BY <1>1 DEF FloodShape, Arrivals, FloodTypeOK
  <2>2. CASE Skip(m)
    BY <1>1, <2>1, <2>2 DEF Skip, Goto, CountsHere, Visible
  <2>3. CASE Clear(m)
    <3>1. Visible' = {}
      BY <2>3 DEF Clear, Visible
    <3>2. QED
      BY <3>1 DEF CountsHere
  <2>4. QED
    BY <2>2, <2>3
<1>5. QED
  BY <1>2, <1>3, <1>4 DEF FloodInv

\* A message that is counted and no spam: in the cache in force are fewer than
\* Limit of its class.
LEMMA CountFew ==
    ASSUME FloodInv, NEW m \in Msgs, Count(m)
    PROVE  FloodInv'
<1>1. FloodShape
  BY DEF FloodInv
<1>2. /\ FloodShape' /\ Posted' = Posted
      /\ ref[m] \in Inners /\ ref' = [ref EXCEPT ![m] = NoCache]
      /\ outer # NoCache => inner'[outer] = inner[outer]
      /\ IsFiniteSet(inner[ref[m]])
      /\ \/ /\ stage' = [stage EXCEPT ![m] = "done"]
            /\ Cardinality(Between(m, inner[ref[m]])) < MinGap =>
                 Cardinality(Similar(m, inner[ref[m]])) < Limit
         \/ stage' = [stage EXCEPT ![m] = "clear"]
  BY <1>1, CountShape
<1>3. /\ stage[m] = "count"
      /\ UNCHANGED <<outer, ignore, text, missed, forgotten, punished>>
      /\ stage \in [Msgs -> Stages] /\ ref \in [Msgs -> Inners \cup {NoCache}]
  BY <1>1 DEF Count, FloodShape, Arrivals, FloodTypeOK
<1>4. Visible' = Visible
  BY <1>2, <1>3 DEF Visible
<1>5. CountsHere'
  BY <1>2, <1>3, <1>4 DEF FloodInv, CountsHere
<1>6. Lasting
  BY <1>2, <1>3 DEF Lasting
<1>7. ASSUME NEW k \in Texts, Unharmed(k)' PROVE FewLost(k)'
  <2>1. stage' = [stage EXCEPT ![m] = "done"]
    BY <1>2, <1>3, <1>7 DEF Unharmed, Clearing
  <2>2. Clearing' = Clearing
    BY <1>3, <2>1 DEF Clearing
  <2>3. Unharmed(k) /\ FewLost(k)
    BY <1>1, <1>2, <1>3, <1>6, <1>7, <2>2, UnharmedBefore DEF FloodInv
  <2>4. outer # NoCache
    BY <1>3, <2>3 DEF FewLost, InFlight, Making
  <2>5. Making' = Making /\ \A n \in Msgs : stage'[n] # "make for count"
    BY <1>3, <2>1, <2>3 DEF Making, FewLost
  <2>6. Alike(k)' = Alike(k)
    BY <1>2, <1>3 DEF Alike, OfClass
  <2>7. Strays(k)' \subseteq Strays(k)
    BY <1>2, <1>3, <2>1 DEF Strays
  <2>8. Lost(k)' \subseteq Lost(k)
    BY <1>3, <1>4, <2>6, <2>7 DEF Lost
  <2>9. CASE m \notin Visible \cap Alike(k)
    <3>1. Met(k)' \subseteq Met(k)
      BY <1>3, <1>4, <2>1, <2>6, <2>9 DEF Met
    <3>2. QED
      BY <1>1, <1>3, <2>3, <2>4, <2>5, <2>8, <3>1, NoMoreLost
  <2>10. CASE m \in Visible \cap Alike(k)
    <3>1. ref[m] = outer /\ text[m] = k /\ inner[ref[m]] = Visible
      BY <1>3, <2>4, <2>10 DEF FloodInv, CountsHere, Alike, OfClass, Visible
    <3>2. Posted \in SUBSET Msgs /\ Visible \in SUBSET Posted
      BY <1>1, Whereabouts
    <3>3. Cardinality(Between(m, Visible)) < MinGap
      <4>1. Between(m, Visible) \in SUBSET (Posted \ Alike(k))
        BY <3>1, <3>2 DEF Between, Alike, OfClass
      <4>2. /\ IsFiniteSet(Posted \ Alike(k)) /\ Cardinality(Posted \ Alike(k)) \in Nat
            /\ Cardinality(Between(m, Visible)) \in Nat
        BY <3>2, <4>1, FiniteMsgs
      <4>3. Cardinality(Between(m, Visible)) <= Cardinality(Posted \ Alike(k))
        BY <4>1, <4>2, FS_Subset
      <4>4. QED
        BY <2>3, <4>2, <4>3, FloodNumbers DEF Unharmed
    <3>4. Cardinality(Similar(m, Visible)) < Limit
      <4>1. "done" # "clear" /\ stage' # [stage EXCEPT ![m] = "clear"]
        BY <1>3, <2>1
      <4>2. QED
        BY <1>2, <3>1, <3>3, <4>1
    <3>5. Met(k)' \in SUBSET Similar(m, Visible)
      BY <1>4, <2>6, <3>1 DEF Met, Similar, Alike, OfClass
    <3>6. Cardinality(Met(k)') < Limit
      <4>1. Similar(m, Visible) \in SUBSET Msgs
        BY <3>2 DEF Similar
      <4>2. /\ IsFiniteSet(Similar(m, Visible)) /\ Cardinality(Similar(m, Visible)) \in Nat
            /\ Cardinality(Met(k)') \in Nat
        BY <3>5, <4>1, FiniteMsgs
      <4>3. Cardinality(Met(k)') <= Cardinality(Similar(m, Visible))
        BY <3>5, <4>2, FS_Subset
      <4>4. QED
        BY <3>4, <4>2, <4>3, FloodNumbers
    <3>7. 2 * Cardinality(Lost(k)') <= (Made - 1) * (2 * (Limit - 1) + Made)
      <4>1. /\ Cardinality(Lost(k)) \in Nat /\ IsFiniteSet(Lost(k)) /\ Lost(k) \in SUBSET Msgs
            /\ Made \in Nat
        BY <1>1, Whereabouts
      <4>2. Cardinality(Lost(k)') <= Cardinality(Lost(k)) /\ Cardinality(Lost(k)') \in Nat
        BY <2>8, <4>1, FiniteMsgs, FS_Subset
      <4>3. 2 * Cardinality(Lost(k)) <= (Made - 1) * (2 * (Limit - 1) + Made)
        BY <2>3, <2>4 DEF FewLost
      <4>4. 0 \in Nat /\ 0 <= 0 /\ 0 < Limit /\ Limit \in Nat
        BY FloodNumbers
      <4>5. QED
        BY <4>1, <4>2, <4>3, <4>4, SmallerStill
    <3>8. Made' = Made /\ Made >= 1 /\ outer' = outer
      BY <1>3, <2>3, <2>4, <2>5 DEF Made, FewLost
    <3>9. QED
      BY <2>4, <2>5, <3>6, <3>7, <3>8 DEF FewLost
  <2>11. QED
    BY <2>9, <2>10
<1>8. QED
  BY <1>2, <1>5, <1>7 DEF FloodInv

\* The arithmetic of a cache replaced.
LEMMA OneCacheMore ==
    ASSUME NEW K \in Nat, NEW L \in Nat, K >= 1, L >= 1,
           NEW x \in Nat, NEW y \in Nat, NEW z \in Nat, NEW u \in Nat,
           2 * x <= (K - 1) * (2 * (L - 1) + K), y < L, z <= K, u <= x + y + z
    PROVE  2 * u <= (K + 1 - 1) * (2 * (L - 1) + (K + 1))
<1> DEFINE h == (K - 1) * (2 * (L - 1) + K)
           g == (K + 1 - 1) * (2 * (L - 1) + (K + 1))
<1>1. h \in Int /\ g \in Int
  <2>1. K - 1 \in Int /\ 2 * (L - 1) + K \in Int /\ 2 * (L - 1) + (K + 1) \in Int /\ K + 1 - 1 \in Int
    OBVIOUS
  <2>2. QED
    BY <2>1
<1>2. g = h + 2 * (L - 1) + 2 * K /\ 2 * x <= h
  BY BoundGrows
<1> HIDE DEF g, h
<1>3. 2 * u <= g
  BY <1>1, <1>2
<1>4. QED
  BY <1>3 DEF g

\* What the caches replaced and the last one may take.
LEMMA ToleratedAmount ==
    ASSUME NEW x \in Nat, NEW y \in Nat, NEW u \in Nat, u <= x + y
    PROVE  /\ x = 0 /\ y = 0 => u <= Tolerated
           /\ y < Limit /\ 2 * x <= (Concurrency - 1) * (2 * (Limit - 1) + Concurrency) =>
                u <= Tolerated
<1> DEFINE C == Concurrency
           a == C * (Limit - 1)
           b == C * (C - 1)
           h == (C - 1) * (2 * (Limit - 1) + C)
<1>1. C \in Nat /\ C >= 1 /\ Limit \in Nat /\ Limit >= 2
  BY FloodNumbers
<1> HIDE DEF C
<1>2. a \in Nat /\ b \in Nat
  <2>1. Limit - 1 \in Nat /\ C - 1 \in Nat
    BY <1>1
  <2>2. QED
    BY <1>1, <2>1
<1>3. h = 2 * a + b - 2 * (Limit - 1)
  BY <1>1
<1>4. Tolerated = a + b \div 2
  BY DEF Tolerated, C
<1> HIDE DEF a, b, h
<1>5. b \div 2 \in Nat /\ b <= 2 * (b \div 2) + 1
  BY <1>2
<1>6. x = 0 /\ y = 0 => u <= Tolerated
  BY <1>2, <1>4, <1>5
<1>7. y < Limit /\ 2 * x <= h => u <= Tolerated
  BY <1>1, <1>2, <1>3, <1>4, <1>5
<1>8. QED
  BY <1>6, <1>7 DEF h, C

\* What a cache that is made costs the one it replaces.
LEMMA CacheMade ==
    ASSUME FloodShape, NEW m \in Making, Making' = Making \ {m}, NEW k, FewLost(k),
           Lost(k)' \subseteq (Lost(k) \cup Met(k)) \cup (InFlight \ Making)
    PROVE  /\ Made' >= 1 /\ 0 < Limit
           /\ 2 * Cardinality(Lost(k)') <= (Made' - 1) * (2 * (Limit - 1) + Made')
<1> DEFINE Others == InFlight \ Making
           K == Made
           x == Cardinality(Lost(k))
           y == Cardinality(Met(k))
           z == Cardinality(Others)
           u == Cardinality(Lost(k)')
<1>1. /\ Making \in SUBSET Msgs /\ InFlight \in SUBSET Msgs /\ Making \subseteq InFlight
      /\ IsFiniteSet(Lost(k)) /\ x \in Nat /\ IsFiniteSet(Met(k)) /\ y \in Nat
      /\ K \in Nat /\ Cardinality(Making) \in Nat
  BY Whereabouts
<1>2. IsFiniteSet(Making) /\ IsFiniteSet(InFlight) /\ Cardinality(InFlight) \in Nat
  BY <1>1, FiniteMsgs
<1>3. Cardinality(Making') = Cardinality(Making) - 1
  BY <1>2, FS_RemoveElement
<1>4. Made' = K + 1
  BY <1>1, <1>3, FloodNumbers DEF Made
<1>5. IsFiniteSet(Others) /\ z \in Nat /\ z = Cardinality(InFlight) - Cardinality(Making)
  <2>1. InFlight \cap Making = Making
    BY <1>1
  <2>2. QED
    BY <1>2, <2>1, FS_Difference, FS_CardinalityType
<1>6. Cardinality(InFlight) <= Concurrency /\ K = Concurrency - Cardinality(Making)
  BY DEF FloodShape, Made
<1>7. u <= x + y + z /\ u \in Nat
  BY <1>1, <1>5, ThreeParts
<1>8. Limit \in Nat /\ Limit >= 1 /\ 0 < Limit /\ Concurrency \in Nat
  BY FloodNumbers
<1>9. CASE outer = NoCache
  <2>1. Others = {} /\ Lost(k) = {} /\ Met(k) = {}
    BY <1>9 DEF FewLost, Met, Visible
  <2>2. Cardinality({}) = 0
    BY FS_EmptySet
  <2>3. x = 0 /\ y = 0 /\ z = 0
    BY <2>1, <2>2
  <2>4. (K + 1 - 1) * (2 * (Limit - 1) + (K + 1)) >= 0
    <3>1. K + 1 - 1 \in Nat /\ 2 * (Limit - 1) + (K + 1) \in Nat
      BY <1>1, <1>8
    <3>2. \A i, j \in Nat : i * j >= 0
      OBVIOUS
    <3> HIDE DEF K
    <3>3. QED
      BY <3>1, <3>2
  <2> HIDE DEF K, u, x, y, z
  <2>5. u = 0
    BY <1>7, <2>3
  <2>6. QED
    BY <1>1, <1>4, <1>8, <2>4, <2>5 DEF u
<1>10. CASE outer # NoCache
  <2>1. K >= 1 /\ y < Limit /\ 2 * x <= (K - 1) * (2 * (Limit - 1) + K)
    BY <1>10 DEF FewLost
  <2> HIDE DEF K, u, x, y, z
  <2>2. z <= K
    BY <1>1, <1>2, <1>5, <1>6, <1>8
  <2>3. 2 * u <= (K + 1 - 1) * (2 * (Limit - 1) + (K + 1))
    BY <1>1, <1>5, <1>7, <1>8, <2>1, <2>2, OneCacheMore
  <2>4. QED
    BY <1>1, <1>4, <1>8, <2>3 DEF u
<1>11. QED
  BY <1>9, <1>10

\* A handler that found no cache makes one.
LEMMA MakeInnerFew ==
    ASSUME FloodInv, NEW m \in Msgs,
           \/ MakeInner(m, "make for push", "set")
           \/ MakeInner(m, "make for count", "count")
    PROVE  FloodInv'
<1>1. FloodShape
  BY DEF FloodInv
<1>2. /\ FloodShape' /\ Posted' = Posted
      /\ outer' \in Inners /\ outer' # outer /\ inner'[outer'] = {}
      /\ ref' = [ref EXCEPT ![m] = outer']
  BY <1>1, MakeInnerShape
<1>3. /\ UNCHANGED <<ignore, text, missed, forgotten, punished>>
      /\ \/ stage[m] = "make for push" /\ stage' = [stage EXCEPT ![m] = "set"]
         \/ stage[m] = "make for count" /\ stage' = [stage EXCEPT ![m] = "count"]
      /\ stage \in [Msgs -> Stages] /\ ref \in [Msgs -> Inners \cup {NoCache}]
  BY <1>1 DEF MakeInner, Goto, FloodShape, Arrivals, FloodTypeOK
<1>4. Visible' = {} /\ Clearing' = Clearing /\ outer' # NoCache
  BY <1>2, <1>3, FloodNumbers DEF Visible, Clearing
<1>5. Lasting
  BY <1>2, <1>3 DEF Lasting
<1>6. CountsHere'
  BY <1>4 DEF CountsHere
<1>7. ASSUME NEW k \in Texts, Unharmed(k)' PROVE FewLost(k)'
  <2>1. FewLost(k)
    BY <1>1, <1>2, <1>3, <1>4, <1>5, <1>7, UnharmedBefore DEF FloodInv
  <2>2. stage[m] = "make for push" /\ stage' = [stage EXCEPT ![m] = "set"]
    BY <1>3, <2>1 DEF FewLost
  <2>3. \A n \in Msgs : stage'[n] # "make for count"
    BY <1>3, <2>1, <2>2 DEF FewLost
  <2>4. Making' = Making \ {m} /\ m \in Making
    BY <1>3, <2>2 DEF Making
  <2>5. Met(k)' = {} /\ Cardinality(Met(k)') = 0
    BY <1>4, FS_EmptySet DEF Met
  <2>6. Alike(k)' = Alike(k)
    BY <1>2, <1>3 DEF Alike, OfClass
  <2>7. Alike(k) \in SUBSET Posted /\ Posted \in SUBSET Msgs /\ ByStage
    BY <1>1, Whereabouts
  <2>8. Strays(k)' \subseteq {n \in Msgs : stage[n] = "set"}
    BY <1>2, <1>3, <2>2, <2>7 DEF Strays, ByStage
  <2>9. Lost(k)' \subseteq (Lost(k) \cup Met(k)) \cup (InFlight \ Making)
    <3> SUFFICES ASSUME NEW n \in Lost(k)', n \notin InFlight \ Making
                 PROVE  n \in Lost(k) \cup Met(k)
      OBVIOUS
    <3>1. n \notin Strays(k)'
      BY <2>8 DEF InFlight, Making
    <3>2. n \in Alike(k) \ forgotten /\ n \in Msgs
      BY <1>3, <2>6, <2>7, <3>1 DEF Lost
    <3>3. CASE n \notin Visible
      BY <3>2, <3>3 DEF Lost
    <3>4. CASE n \in Visible
      <4>1. stage[n] \notin {"new", "make for push", "set"}
        BY <2>7, <3>2 DEF ByStage
      <4>2. stage[n] = "done"
        BY <3>2, <4>1 DEF InFlight, Making
      <4>3. QED
        BY <3>2, <3>4, <4>2 DEF Met
    <3>5. QED
      BY <3>3, <3>4
  <2>10. /\ Made' >= 1 /\ 0 < Limit
         /\ 2 * Cardinality(Lost(k)') <= (Made' - 1) * (2 * (Limit - 1) + Made')
    BY <1>1, <2>1, <2>4, <2>9, CacheMade
  <2>11. Cardinality(Met(k)') < Limit
    BY <2>5, <2>10, Zenon
  <2>12. QED
    BY <1>4, <2>3, <2>10, <2>11 DEF FewLost
<1>8. QED
  BY <1>2, <1>6, <1>7 DEF FloodInv

\* Settings and expiries lose nothing.
LEMMA SurroundingsFew ==
    ASSUME FloodInv, ForgetMessages \/ \E s \in Changing : Change(s)
    PROVE  FloodInv'
<1>1. FloodShape
  BY DEF FloodInv
<1>2. UNCHANGED <<stage, ref, ignore, text, missed, punished>>
  BY DEF ForgetMessages, Change
<1>3. Posted' = Posted /\ Making' = Making /\ InFlight' = InFlight /\ Clearing' = Clearing
  BY <1>2 DEF Posted, Making, InFlight, Clearing
<1>4. Lasting
  BY <1>2, <1>3 DEF Lasting
<1>5. /\ Posted \in SUBSET Msgs
      /\ \A k : Alike(k) \in SUBSET Posted /\ Alike(k)' = Alike(k)
  BY <1>1, <1>2, <1>3, Whereabouts DEF Alike, OfClass
<1>6. \/ /\ UNCHANGED outer /\ Visible' \subseteq Visible
         /\ forgotten \subseteq forgotten' /\ Visible \ Visible' \subseteq forgotten'
      \/ InFlight = {} /\ outer' = NoCache /\ forgotten' = 1 .. Len(text) /\ Visible' = {}
  <2>1. outer \in Inners \cup {NoCache} /\ inner \in [Inners -> SUBSET Msgs]
    BY <1>1 DEF FloodShape, Arrivals, FloodTypeOK
  <2>2. CASE \E s \in Changing : Change(s)
    BY <2>2 DEF Change, Visible
  <2>3. CASE \E m \in Visible : /\ inner' = [inner EXCEPT ![outer] = @ \ {m}]
                                /\ forgotten' = forgotten \cup {m}
                                /\ UNCHANGED outer
    BY <2>1, <2>3 DEF Visible
  <2>4. CASE /\ InFlight = {} /\ outer' = NoCache /\ forgotten' = 1 .. Len(text)
    BY <2>4 DEF Visible
  <2>5. QED
    BY <2>2, <2>3, <2>4 DEF ForgetMessages
<1>7. FloodShape'
  BY <1>1, ForgetShape, ChangeShape
<1>8. CountsHere'
  BY <1>2, <1>6 DEF FloodInv, CountsHere
<1>9. ASSUME NEW k \in Texts, Unharmed(k)' PROVE FewLost(k)'
  <2>1. FewLost(k)
    BY <1>1, <1>2, <1>3, <1>4, <1>7, <1>9, UnharmedBefore DEF FloodInv
  <2>2. CASE /\ UNCHANGED outer /\ Visible' \subseteq Visible
             /\ forgotten \subseteq forgotten' /\ Visible \ Visible' \subseteq forgotten'
    <3>1. Strays(k)' = Strays(k)
      BY <1>2, <2>2 DEF Strays
    <3>2. Lost(k)' \subseteq Lost(k)
      BY <1>5, <2>2, <3>1 DEF Lost
    <3>3. Met(k)' \subseteq Met(k)
      BY <1>2, <1>5, <2>2 DEF Met
    <3>4. CASE outer = NoCache
      BY <1>2, <1>3, <2>1, <2>2, <3>2, <3>4 DEF FewLost
    <3>5. CASE outer # NoCache
      <4>1. \A m \in Msgs : stage'[m] # "make for count"
        BY <1>2, <2>1 DEF FewLost
      <4>2. QED
        BY <1>1, <1>3, <2>1, <2>2, <3>2, <3>3, <3>5, <4>1, NoMoreLost
    <3>6. QED
      BY <3>4, <3>5
  <2>3. CASE InFlight = {} /\ outer' = NoCache /\ forgotten' = 1 .. Len(text) /\ Visible' = {}
    <3>1. InFlight' = Making' /\ Making' = {}
      BY <1>1, <1>3, <2>3, Whereabouts
    <3>2. Strays(k)' = {}
      <4>1. \A n \in 1 .. Len(text) : n \in Msgs
        BY <1>1, Whereabouts DEF ByStage
      <4>2. QED
        BY <1>2, <2>3, <4>1 DEF Strays, InFlight
    <3>3. Lost(k)' = {}
      BY <1>5, <2>3, <3>2 DEF Lost, Posted
    <3>4. QED
      BY <1>2, <2>1, <2>3, <3>1, <3>3 DEF FewLost
  <2>4. QED
    BY <1>6, <2>2, <2>3
<1>10. QED
  BY <1>7, <1>8, <1>9 DEF FloodInv

\* At the start nothing is lost.
LEMMA FloodInitFew == FloodInit => FloodInv
<1> SUFFICES ASSUME FloodInit PROVE FloodInv
  OBVIOUS
<1>1. FloodShape
  BY FloodInitShape
<1>2. outer = NoCache /\ text = <<>> /\ \A m \in Msgs : stage[m] = "new"
  BY DEF FloodInit
<1>3. Len(text) = 0
  BY <1>2, EmptySeq
<1>4. 1 .. Len(text) = {}
  BY <1>3
<1>5. \A k : Lost(k) = {}
  BY <1>4 DEF Lost, Strays, Alike, OfClass, Posted
<1>6. InFlight = Making
  BY <1>2 DEF InFlight, Making
<1>7. CountsHere
  BY <1>2 DEF CountsHere
<1>8. \A k : FewLost(k)
  BY <1>2, <1>5, <1>6 DEF FewLost
<1>9. QED
  BY <1>1, <1>7, <1>8 DEF FloodInv

\* When all is done, the messages that are neither expired nor lost are in the
\* cache in force, and have been counted there.
LEMMA FewGoUnpunished == FloodInv => FloodPunished
<1> SUFFICES ASSUME FloodInv, InFlight = {}, punished = {}, missed = {}, NEW k \in Texts,
                    Cardinality(Posted \ Alike(k)) < MinGap
             PROVE  Cardinality(Alike(k) \ forgotten) <= Tolerated
  BY DEF FloodPunished, Alike
<1>1. FloodShape
  BY DEF FloodInv
<1>2. /\ ByStage /\ Posted \in SUBSET Msgs /\ Making \subseteq InFlight
      /\ Alike(k) \in SUBSET Posted
      /\ IsFiniteSet(Lost(k)) /\ Cardinality(Lost(k)) \in Nat
      /\ IsFiniteSet(Met(k)) /\ Cardinality(Met(k)) \in Nat
  BY <1>1, Whereabouts
<1>3. Clearing = {}
  BY DEF Clearing, InFlight
<1>4. FewLost(k)
  BY <1>3 DEF FloodInv, Unharmed
<1>5. Alike(k) \ forgotten \subseteq (Lost(k) \cup Met(k)) \cup {}
  <2> SUFFICES ASSUME NEW n \in Alike(k), n \notin forgotten, n \in Visible PROVE n \in Met(k)
    BY DEF Lost
  <2>1. n \in Msgs /\ stage[n] # "new"
    BY <1>2 DEF ByStage
  <2>2. stage[n] = "done"
    BY <2>1 DEF InFlight
  <2>3. QED
    BY <2>2 DEF Met
<1> DEFINE u == Cardinality(Alike(k) \ forgotten)
           x == Cardinality(Lost(k))
           y == Cardinality(Met(k))
<1>6. u \in Nat /\ x \in Nat /\ y \in Nat /\ u <= x + y
  <2>1. Cardinality({}) = 0 /\ IsFiniteSet({})
    BY FS_EmptySet
  <2>2. u <= x + y + Cardinality({}) /\ u \in Nat
    BY <1>2, <1>5, <2>1, ThreeParts
  <2>3. QED
    BY <1>2, <2>1, <2>2
<1>7. CASE outer = NoCache
  <2>1. Lost(k) = {} /\ Met(k) = {}
    BY <1>4, <1>7 DEF FewLost, Met, Visible
  <2>2. x = 0 /\ y = 0
    BY <2>1, FS_EmptySet
  <2> HIDE DEF u, x, y
  <2>3. u <= Tolerated
    BY <1>6, <2>2, FloodNumbers, ToleratedAmount
  <2>4. QED
    BY <2>3 DEF u
<1>8. CASE outer # NoCache
  <2>1. Making = {} /\ Cardinality(Making) = 0
    BY <1>2, FS_EmptySet
  <2>2. Made = Concurrency
    BY <2>1, FloodNumbers DEF Made
  <2>3. y < Limit /\ 2 * x <= (Concurrency - 1) * (2 * (Limit - 1) + Concurrency)
    BY <1>4, <1>8, <2>2 DEF FewLost
  <2> HIDE DEF u, x, y
  <2>4. u <= Tolerated
    BY <1>6, <2>3, ToleratedAmount
  <2>5. QED
    BY <2>4 DEF u
<1>9. QED
  BY <1>7, <1>8

\* More than Tolerated similar messages, with fewer than MinGap others, do not go
\* unpunished: expired ones aside, whatever the workers do (Store.getInner,
\* Checker.calculateSpamMessages).
THEOREM FloodsArePunished == FloodSpec => []FloodPunished
<1>1. FloodInv /\ [FloodNext]_floodVars => FloodInv'
  <2> SUFFICES ASSUME FloodInv, [FloodNext]_floodVars PROVE FloodInv'
    OBVIOUS
  <2>1. ASSUME NEW m \in Msgs, Arrive(m) PROVE FloodInv'
    BY <2>1, ArriveFew
  <2>2. ASSUME NEW m \in Msgs, \/ MakeInner(m, "make for push", "set")
                               \/ MakeInner(m, "make for count", "count")
        PROVE  FloodInv'
    BY <2>2, MakeInnerFew
  <2>3. ASSUME NEW m \in Msgs, Store(m) PROVE FloodInv'
    BY <2>3, StoreFew
  <2>4. ASSUME NEW m \in Msgs, Examine(m) PROVE FloodInv'
    BY <2>4, ExamineFew
  <2>5. ASSUME NEW m \in Msgs, Skip(m) \/ Clear(m) PROVE FloodInv'
    BY <2>5, HarmDone
  <2>6. ASSUME NEW m \in Msgs, Count(m) PROVE FloodInv'
    BY <2>6, CountFew
  <2>7. CASE ForgetMessages \/ \E s \in Changing : Change(s)
    BY <2>7, SurroundingsFew
  <2>8. CASE UNCHANGED floodVars
    <3>1. UNCHANGED <<settings, outer, inner, stage, ref, ignore, text, missed, forgotten, punished>>
      BY <2>8 DEF floodVars
    <3>2. FloodShape'
      BY <3>1 DEF FloodInv, FloodShape, Arrivals, FloodTypeOK, Homes, Holding, Posted, InFlight
    <3>3. CountsHere'
      BY <3>1 DEF FloodInv, CountsHere, Visible
    <3>4. Posted' = Posted /\ Making' = Making /\ InFlight' = InFlight /\ Clearing' = Clearing
      BY <3>1 DEF Posted, Making, InFlight, Clearing
    <3>5. ASSUME NEW k \in Texts
          PROVE  (Unharmed(k)' <=> Unharmed(k)) /\ (FewLost(k)' <=> FewLost(k))
      <4>1. Alike(k)' = Alike(k) /\ Visible' = Visible
        BY <3>1, <3>4 DEF Alike, OfClass, Visible
      <4>2. Lost(k)' = Lost(k) /\ Met(k)' = Met(k)
        BY <3>1, <4>1 DEF Lost, Strays, Met
      <4>3. QED
        BY <3>1, <3>4, <4>1, <4>2 DEF Unharmed, FewLost, Made
    <3>6. QED
      BY <3>2, <3>3, <3>5 DEF FloodInv
  <2>9. QED
    BY <2>1, <2>2, <2>3, <2>4, <2>5, <2>6, <2>7, <2>8 DEF FloodNext
<1>2. QED
  BY <1>1, FewGoUnpunished, FloodInitFew, PTL DEF FloodSpec
===============================================================================
